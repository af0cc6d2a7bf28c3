------------------------- MODULE UeLifecycleIkeLoop -------------------------
(***************************************************************************)
(* The IKE loop, the goroutines it starts and the rest of the inductive    *)
(* invariant: what of it a step keeps by what the step leaves alone, and   *)
(* that the handlers of IKE packets and IKE events keep it.                *)
(***************************************************************************)
EXTENDS UeLifecycleSafety

-----------------------------------------------------------------------------
(* Steps, by what they do to the channels.                                 *)

\* The first d events are taken; what is added is of a type in A.  (The events of an IKE
\* loop that stops are lost.)
IkeMoves(d, A) ==
    /\ \A k \in Ike' : \/ k + d \in Ike /\ ikeEvt'[k] = ikeEvt[k + d]
                       \/ ikeEvt'[k].type \in A
    /\ ikeUp' => \A k \in Ike : d < k => k - d \in Ike' /\ ikeEvt'[k - d] = ikeEvt[k]

\* The NGAP channel, likewise; what is added comes last.
NgapMoves(e, B) ==
    /\ \A k \in Ngap' : \/ k + e \in Ngap /\ ngapEvt'[k] = ngapEvt[k + e]
                        \/ Len(ngapEvt) < k + e /\ ngapEvt'[k].type \in B
    /\ \A k \in Ngap : e < k => k - e \in Ngap' /\ ngapEvt'[k - e] = ngapEvt[k]

\* A step that leaves the IKE channel alone,
LEMMA IkeSame == ASSUME TypeOK, ikeEvt' = ikeEvt, NEW A PROVE IkeMoves(0, A)
  <1>1. Len(ikeEvt) \in Nat BY Zenon, Basics
  <1> QED BY ONLY <1>1, ikeEvt' = ikeEvt DEF IkeMoves, Ike

\* or the NGAP channel,
LEMMA NgapSame == ASSUME TypeOK, ngapEvt' = ngapEvt, NEW B PROVE NgapMoves(0, B)
  <1>1. Len(ngapEvt) \in Nat BY Zenon, Basics
  <1> QED BY ONLY <1>1, ngapEvt' = ngapEvt DEF NgapMoves, Ngap

\* that takes an event of the IKE loop,
LEMMA IkeTake ==
    ASSUME TypeOK, NEW t, IkeEvent(t), NEW A
    PROVE  IkeMoves(1, A)
  <1>1. IkeTakes(1) /\ Len(ikeEvt) \in Nat BY Zenon, IkeTaken, Basics
  <1> QED BY ONLY <1>1 DEF IkeTakes, IkeMoves, Ike

\* or of the NGAP loop,
LEMMA NgapTake ==
    ASSUME TypeOK, NEW t, NgapEvent(t), NEW B
    PROVE  NgapMoves(1, B)
  <1>1. NgapTakes(1) /\ Len(ngapEvt) \in Nat BY Zenon, NgapTaken, Basics
  <1> QED BY ONLY <1>1 DEF NgapTakes, NgapMoves, Ngap

\* that sends the IKE loop an event,
LEMMA IkeAdd ==
    ASSUME TypeOK, NEW t \in IkeEvtType, NEW s \in Spi, NEW i \in RanId, NEW A, t \in A,
           SendIkeEvt(IkeE(t, s, i))
    PROVE  /\ IkeMoves(0, A)
           /\ ikeUp => IkePending(t, s)'
           /\ \A k \in Ike' : \/ k \in Ike /\ ikeEvt'[k] = ikeEvt[k]
                              \/ k = Len(ikeEvt) + 1 /\ ikeEvt'[k] = IkeE(t, s, i)
  <1>0. PICK e : e = IkeE(t, s, i) BY Zenon
  <1>1. e \in IkeEvt /\ e.type = t /\ e.spi = s BY Zenon, <1>0, EventTypes DEF IkeE
  <1>2. ikeEvt \in Seq(IkeEvt) /\ Len(ikeEvt) \in Nat BY Zenon, EvtType, Basics
  <1>3. CASE ikeUp
    <2>1. ikeEvt' = Append(ikeEvt, e) BY Zenon, <1>0, <1>3 DEF SendIkeEvt
    <2>2. /\ Len(ikeEvt') = Len(ikeEvt) + 1
          /\ ikeEvt'[Len(ikeEvt) + 1] = e
          /\ \A k \in 1..Len(ikeEvt) : ikeEvt'[k] = ikeEvt[k]
      BY ONLY <1>1, <1>2, <2>1, AppendIndex
    <2>3. IkeMoves(0, A) BY ONLY <1>1, <1>2, <2>2, t \in A DEF IkeMoves, Ike
    <2>4. IkePending(t, s)' BY ONLY <1>1, <1>2, <2>2 DEF IkePending
    <2>5. \A k \in Ike' : \/ k \in Ike /\ ikeEvt'[k] = ikeEvt[k]
                          \/ k = Len(ikeEvt) + 1 /\ ikeEvt'[k] = e
      BY ONLY <1>2, <2>2 DEF Ike
    <2> QED BY Zenon, <1>0, <2>3, <2>4, <2>5
  <1>4. CASE ~ ikeUp
    <2>1. ikeEvt' = ikeEvt BY Zenon, <1>4 DEF SendIkeEvt
    <2> QED BY Zenon, <1>4, <2>1, IkeSame DEF Ike
  <1> QED BY Zenon, <1>3, <1>4

\* or the NGAP loop.
LEMMA NgapAdd ==
    ASSUME TypeOK, NEW e \in NgapEvt, NEW B, e.type \in B, ngapEvt' = Append(ngapEvt, e)
    PROVE  /\ NgapMoves(0, B)
           /\ Len(ngapEvt) + 1 \in Ngap' /\ ngapEvt'[Len(ngapEvt) + 1] = e
           /\ \A k \in Ngap' : \/ k \in Ngap /\ ngapEvt'[k] = ngapEvt[k]
                               \/ k = Len(ngapEvt) + 1 /\ ngapEvt'[k] = e
  <1>1. ngapEvt \in Seq(NgapEvt) /\ Len(ngapEvt) \in Nat BY Zenon, EvtType, Basics
  <1>2. /\ Len(ngapEvt') = Len(ngapEvt) + 1
        /\ ngapEvt'[Len(ngapEvt) + 1] = e
        /\ \A k \in 1..Len(ngapEvt) : ngapEvt'[k] = ngapEvt[k]
    BY ONLY <1>1, e \in NgapEvt, ngapEvt' = Append(ngapEvt, e), AppendIndex
  <1>3. NgapMoves(0, B) BY ONLY <1>1, <1>2, e.type \in B DEF NgapMoves, Ngap
  <1>4. Len(ngapEvt) + 1 \in Ngap' BY ONLY <1>1, <1>2 DEF Ngap
  <1>5. \A k \in Ngap' : \/ k \in Ngap /\ ngapEvt'[k] = ngapEvt[k]
                         \/ k = Len(ngapEvt) + 1 /\ ngapEvt'[k] = e
    BY ONLY <1>1, <1>2 DEF Ngap
  <1> QED BY Zenon, <1>2, <1>3, <1>4, <1>5

\* The types of what the invariant mentions.
Values ==
    /\ Len(ikeEvt) \in Nat /\ Len(ngapEvt) \in Nat
    /\ \A k \in Ike : k \in Nat /\ ikeEvt[k].spi \in Spi /\ ikeEvt[k].id \in RanId
    /\ \A k \in Ngap : k \in Nat /\ ngapEvt[k].id \in RanId
    /\ \A s \in Spi : IKESPIToNGAPId[s] \in RanId \cup {None} /\ sa[s].State \in Nat
    /\ \A i \in RanId : NGAPIdToIKESPI[i] \in Spi \cup {None}
    /\ IKESA \subseteq Spi /\ RANUePool \subseteq RanId

\* None is no SPI and no RAN-UE-NGAP-ID.
LEMMA NoneNotSpi == None \notin Spi /\ None \notin RanId
  BY Zenon, ConstantsAssumption, NoneAssumption

\* The values of the fields the invariant compares, by the types,
LEMMA TypeGivesValues == TypeOK => Values
  <1> SUFFICES ASSUME TypeOK PROVE Values BY Zenon
  <1>1. \A s \in Spi : sa[s].State \in Nat BY Zenon, SaType DEF SecurityAssociation
  <1>2. \A k \in Ike : k \in Nat BY ONLY TRUE DEF Ike
  <1>3. \A k \in Ngap : k \in Nat BY ONLY TRUE DEF Ngap
  <1> QED BY Zenon, <1>1, <1>2, <1>3, Basics DEF Values

\* and after the step.
LEMMA ValuesNext == TypeOK' => Values'
  BY TypeGivesValues, PTL

-----------------------------------------------------------------------------
(* What each part of the invariant asks of a step.                         *)

\* Registration.
LEMMA KeyFrameAnnounced ==
    ASSUME TypeOK, TypeOK', KeyInv, KeyBeforeAuth', NEW d \in {0, 1}, NEW e \in {0, 1},
           NEW A, IkeMoves(d, A), "SendEAPSuccessMsg" \notin A,
           NEW B, NgapMoves(e, B), "SendInitialUEMessage" \notin B,
           \A s \in Spi : sa[s].State < PostSignalling => sa'[s].State < PostSignalling,
           \A i \in RanId : NGAPIdToIKESPI'[i] \in {None, NGAPIdToIKESPI[i]},
           \A i \in RanId : amf'[i].phase \in {"none", "ue"} => amf'[i].phase = amf[i].phase,
           \A k \in Ngap' : NgapIs(k, "SendInitialUEMessage")' /\ amf[ngapEvt'[k].id].phase = "none" =>
             amf'[ngapEvt'[k].id].phase = "none"
    PROVE  KeyInv'
  <1>a. Values /\ Values' BY Zenon, ValuesNext, TypeGivesValues
  <1>i. ASSUME NEW k \in Ngap', NgapIs(k, "SendInitialUEMessage")'
        PROVE  /\ k + e \in Ngap /\ ngapEvt'[k] = ngapEvt[k + e]
               /\ NgapIs(k + e, "SendInitialUEMessage")
    BY Zenon, <1>i DEF NgapMoves, NgapIs
  <1>1. AnnouncedOnce'
    <2>0. AnnouncedOnce BY Zenon DEF KeyInv
    <2>2. ASSUME NEW k \in Ngap', NgapIs(k, "SendInitialUEMessage")'
          PROVE  amf'[ngapEvt'[k].id].phase = "none"
      <3>1. amf[ngapEvt[k + e].id].phase = "none" BY Zenon, <2>0, <1>i, <2>2 DEF AnnouncedOnce
      <3> QED BY Zenon, <1>i, <2>2, <3>1
    <2>3. ASSUME NEW k \in Ngap', NEW l \in Ngap', NgapIs(k, "SendInitialUEMessage")',
                 NgapIs(l, "SendInitialUEMessage")', ngapEvt'[k].id = ngapEvt'[l].id
          PROVE  k = l
      <3>1. k + e = l + e BY Zenon, <2>0, <1>i, <2>3 DEF AnnouncedOnce
      <3> QED BY ONLY <1>a, <3>1, e \in {0, 1}, k \in Ngap', l \in Ngap' DEF Values
    <2> QED BY Zenon, <2>2, <2>3 DEF AnnouncedOnce
  <1>3. ASSUME NEW k \in Ngap', NEW l \in Ngap', NgapIs(k, "SendInitialUEMessage")',
               NgapIs(l, "SendUEContextRelease")', ngapEvt'[k].id = ngapEvt'[l].id
        PROVE  k < l
    <2>0. AnnouncedFirst BY Zenon DEF KeyInv
    <2>1. k + e \in Ngap /\ ngapEvt'[k] = ngapEvt[k + e] /\ NgapIs(k + e, "SendInitialUEMessage")
      BY Zenon, <1>i, <1>3
    <2>2. CASE l + e \in Ngap /\ ngapEvt'[l] = ngapEvt[l + e]
      <3>1. NgapIs(l + e, "SendUEContextRelease") /\ ngapEvt[k + e].id = ngapEvt[l + e].id
        BY Zenon, <1>3, <2>1, <2>2 DEF NgapIs
      <3>2. k + e < l + e BY Zenon, <2>0, <2>1, <2>2, <3>1 DEF AnnouncedFirst
      <3> QED BY ONLY <1>a, <3>2, e \in {0, 1}, k \in Ngap', l \in Ngap' DEF Values
    <2>3. CASE Len(ngapEvt) < l + e
      BY ONLY <1>a, <2>1, <2>3, e \in {0, 1}, k \in Ngap', l \in Ngap' DEF Values, Ngap
    <2> QED BY Zenon, <2>2, <2>3 DEF NgapMoves
  <1>2. OneSuccess'
    <2>1. \A k \in Ike' : IkeIs(k, "SendEAPSuccessMsg")' =>
            k + d \in Ike /\ ikeEvt'[k] = ikeEvt[k + d]
      BY Zenon DEF IkeMoves, IkeIs
    <2>2. Values' /\ OneSuccess BY Zenon, <1>a DEF KeyInv
    <2> HIDE <1>a
    <2> QED BY <2>1, <2>2 DEF Values, OneSuccess, IkeIs
  <1> QED BY Zenon, <1>1, <1>2, <1>3 DEF KeyInv, AnnouncedFirst

\* The same, when the AMF hears of no RAN UE for the first time and forgets none.
LEMMA KeyFrame ==
    ASSUME TypeOK, TypeOK', KeyInv, KeyBeforeAuth', NEW d \in {0, 1}, NEW e \in {0, 1},
           NEW A, IkeMoves(d, A), "SendEAPSuccessMsg" \notin A,
           NEW B, NgapMoves(e, B), "SendInitialUEMessage" \notin B,
           \A s \in Spi : sa[s].State < PostSignalling => sa'[s].State < PostSignalling,
           \A i \in RanId : NGAPIdToIKESPI'[i] \in {None, NGAPIdToIKESPI[i]},
           \A i \in RanId : amf'[i].phase \in {"none", "ue"} => amf'[i].phase = amf[i].phase,
           \A i \in RanId : amf[i].phase = "none" => amf'[i].phase = "none"
    PROVE  KeyInv'
  <1>1. \A k \in Ngap' : ngapEvt'[k].id \in RanId BY Zenon, ValuesNext DEF Values
  <1> QED BY Zenon, <1>1, KeyFrameAnnounced

\* A RAN UE of the next state is one of this state, or new and unknown.
PoolGrows ==
    \A i \in RANUePool' :
      \/ i \in RANUePool
      \/ /\ amf'[i].phase = "none" /\ \A s \in Spi : IKESPIToNGAPId'[s] # i
         /\ \A k \in Ngap' : ngapEvt'[k].type # "UnmarshalEAP5GData" => ngapEvt'[k].id # i

\* RAN UE i is mapped by the step: nobody but the announcement uses it.
Unheard(i) ==
    /\ amf'[i].phase = "none"
    /\ \A k \in Ngap' :
         ngapEvt'[k].id = i => ngapEvt'[k].type \in {"UnmarshalEAP5GData", "SendInitialUEMessage"}

\* A RAN UE keeps its SPI or loses it, unless nothing was sent about it yet.
MapKeeps == \A i \in RanId : NGAPIdToIKESPI'[i] \in {None, NGAPIdToIKESPI[i]} \/ Unheard(i)

\* NAS over TCP.
NasEvents(e, A) ==
    /\ \A k \in Ike' : ikeEvt'[k].type \in A /\ IkeIs(k, "CreatePDUSession")' =>
         Signalled(ikeEvt'[k].spi)
    /\ \A k \in Ngap' :
         Len(ngapEvt) < k + e /\ NgapIs(k, "SendPDUSessionResourceSetupResponse")' =>
           \E s \in Spi : IKESPIToNGAPId[s] = ngapEvt'[k].id /\ Signalled(s)
    /\ e = 1 /\ NgapIs(1, "StartTCPSignalNASMsg") /\ ngapEvt[1].id \in RANUePool' =>
         ranUe'[ngapEvt[1].id].IsNASTCPConnEstablished

\* What NasInv needs of the tables: no association goes back to the signalling, no RAN
\* UE back to NAS over EAP, and an AMF that learns of a set up context finds NAS over TCP.
NasTables ==
    /\ \A s \in Spi : Signalled(s) => Signalled(s)'
    /\ \A s \in Spi : IKESPIToNGAPId'[s] \in RANUePool' /\ Signalled(s)' =>
         \/ Signalled(s) /\ IKESPIToNGAPId[s] = IKESPIToNGAPId'[s]
         \/ Started(IKESPIToNGAPId[s], Len(ngapEvt) + 1)'
    /\ MapKeeps
    /\ \A i \in RANUePool' \cap RANUePool :
         ranUe[i].IsNASTCPConnEstablished => ranUe'[i].IsNASTCPConnEstablished
    /\ \A i \in RanId : amf'[i].phase \in {"ready", "pdu"} =>
         \/ amf[i].phase \in {"ready", "pdu"}
         \/ /\ i \in RANUePool' => ranUe'[i].IsNASTCPConnEstablished
            /\ NGAPIdToIKESPI[i] # None => Signalled(NGAPIdToIKESPI[i])

\* A step with these two properties keeps NasInv.
LEMMA NasFrame ==
    ASSUME TypeOK, TypeOK', MapsAgree, NasInv, NEW d \in {0, 1}, NEW e \in {0, 1},
           NEW A, IkeMoves(d, A), NEW B, NgapMoves(e, B), NasEvents(e, A), NasTables, PoolGrows
    PROVE  NasInv'
  <1>a. Values /\ Values' BY Zenon, ValuesNext, TypeGivesValues
  <1>b. ASSUME NEW i \in RANUePool' \cap RANUePool, NEW n \in Nat, NEW m \in Nat,
               Started(i, n), n <= m + e
        PROVE  Started(i, m)'
    <2>1. CASE ranUe[i].IsNASTCPConnEstablished BY Zenon, <1>b, <2>1 DEF Started, NasTables
    <2>2. ASSUME NEW l \in Ngap, l < n, NgapIs(l, "StartTCPSignalNASMsg"), ngapEvt[l].id = i
          PROVE  Started(i, m)'
      <3>1. CASE e < l
        <4>1. l - e \in Ngap' /\ ngapEvt'[l - e] = ngapEvt[l] BY Zenon, <3>1 DEF NgapMoves
        <4>2. l - e < m BY ONLY <1>a, <1>b, <2>2, e \in {0, 1} DEF Values
        <4> QED BY Zenon, <2>2, <4>1, <4>2 DEF Started, NgapIs
      <3>2. CASE ~ (e < l)
        <4>1. l = 1 /\ e = 1 BY ONLY <2>2, <3>2, e \in {0, 1} DEF Ngap
        <4> QED BY Zenon, <1>b, <2>2, <4>1 DEF Started, NasEvents
      <3> QED BY Zenon, <3>1, <3>2
    <2> QED BY Zenon, <1>b, <2>1, <2>2 DEF Started
  <1>1. NoEapAfterContextSetup'
    BY Zenon, <1>a DEF NasInv, NasTables, NoEapAfterContextSetup, PoolGrows, Values
  <1>2. ASSUME NEW i \in RanId, NEW s \in Spi, NGAPIdToIKESPI'[i] = s,
               amf'[i].phase \in {"ready", "pdu"}
        PROVE  Signalled(s)'
    <2>1. NGAPIdToIKESPI[i] = s /\ NGAPIdToIKESPI[i] # None
      BY Zenon, <1>2, NoneNotSpi DEF NasTables, MapKeeps, Unheard
    <2>2. Signalled(s) BY Zenon, <1>2, <2>1 DEF NasInv, NasTables
    <2> QED BY Zenon, <2>2 DEF NasTables
  <1>3. ASSUME NEW k \in Ngap', NEW i \in RanId, i = ngapEvt'[k].id,
               NgapIs(k, "SendPDUSessionResourceSetupResponse")'
        PROVE  /\ i \in RANUePool' => Started(i, k)'
               /\ \A s \in Spi : NGAPIdToIKESPI'[i] = s => Signalled(s)'
    <2>0. k \in Nat /\ k + e \in Nat BY <1>a DEF Values
    <2>m. NGAPIdToIKESPI'[i] \in {None, NGAPIdToIKESPI[i]}
      BY Zenon, <1>3 DEF NasTables, MapKeeps, Unheard, NgapIs
    <2>p. i \in RANUePool' => i \in RANUePool
      <3>1. ngapEvt'[k].type # "UnmarshalEAP5GData" BY Zenon, <1>3 DEF NgapIs
      <3> QED BY Zenon, <1>3, <3>1 DEF PoolGrows
    <2>1. CASE k + e \in Ngap /\ ngapEvt'[k] = ngapEvt[k + e]
      <3>1. NgapIs(k + e, "SendPDUSessionResourceSetupResponse") /\ i = ngapEvt[k + e].id
        BY Zenon, <1>3, <2>1 DEF NgapIs
      <3>2. /\ i \in RANUePool => Started(i, k + e)
            /\ NGAPIdToIKESPI[i] # None => Signalled(NGAPIdToIKESPI[i])
        BY Zenon, <2>1, <3>1 DEF NasInv
      <3>3. i \in RANUePool' => Started(i, k)'
        <4>1. k + e <= k + e BY ONLY <2>0
        <4> QED BY Zenon, <1>b, <2>0, <2>p, <3>2, <4>1
      <3>4. \A s \in Spi : NGAPIdToIKESPI'[i] = s => NGAPIdToIKESPI[i] = s /\ Signalled(s)
        BY Zenon, <2>m, <3>2, NoneNotSpi
      <3> QED BY Zenon, <3>3, <3>4 DEF NasTables
    <2>2. CASE Len(ngapEvt) < k + e
      <3>1. PICK s \in Spi : IKESPIToNGAPId[s] = i /\ Signalled(s)
        BY Zenon, <1>3, <2>2 DEF NasEvents
      <3>2. i \in RANUePool => Started(i, Len(ngapEvt) + 1) BY Zenon, <3>1 DEF NasInv
      <3>3. i \in RANUePool' => Started(i, k)'
        <4>1. Len(ngapEvt) + 1 \in Nat /\ Len(ngapEvt) + 1 <= k + e
          BY ONLY <1>a, <2>0, <2>2, e \in {0, 1} DEF Values
        <4> QED BY Zenon, <1>b, <2>0, <2>p, <3>2, <4>1
      <3>4. NGAPIdToIKESPI[i] # None => NGAPIdToIKESPI[i] = s
        BY Zenon, <1>3, <3>1 DEF MapsAgree
      <3>5. \A u \in Spi : NGAPIdToIKESPI'[i] = u => u = s
        BY Zenon, <2>m, <3>4, NoneNotSpi
      <3> QED BY Zenon, <3>1, <3>3, <3>5 DEF NasTables
    <2> QED BY Zenon, <2>1, <2>2 DEF NgapMoves
  <1>4. ASSUME NEW k \in Ike', NEW s \in Spi, s = ikeEvt'[k].spi, IkeIs(k, "CreatePDUSession")'
        PROVE  Signalled(s)'
    <2>1. (k + d \in Ike /\ ikeEvt'[k] = ikeEvt[k + d]) \/ Signalled(s)
      BY Zenon, <1>4 DEF IkeMoves, NasEvents
    <2>2. CASE k + d \in Ike /\ ikeEvt'[k] = ikeEvt[k + d]
      <3>1. IkeIs(k + d, "CreatePDUSession") /\ s = ikeEvt[k + d].spi BY Zenon, <1>4, <2>2 DEF IkeIs
      <3> QED BY Zenon, <2>2, <3>1 DEF NasInv, NasTables
    <2> QED BY Zenon, <2>1, <2>2 DEF NasTables
  <1>5. ASSUME NEW s \in Spi, NEW i \in RANUePool', IKESPIToNGAPId'[s] = i, Signalled(s)'
        PROVE  Started(i, Len(ngapEvt) + 1)'
    <2> SUFFICES ASSUME Signalled(s), IKESPIToNGAPId[s] = i
                 PROVE  Started(i, Len(ngapEvt) + 1)'
      BY Zenon, <1>5 DEF NasTables
    <2>1. i \in RANUePool BY Zenon, <1>5 DEF PoolGrows
    <2>2. Started(i, Len(ngapEvt) + 1) BY Zenon, <2>1 DEF NasInv
    <2>3. /\ Len(ngapEvt) + 1 \in Nat /\ Len(ngapEvt') + 1 \in Nat
          /\ Len(ngapEvt) + 1 <= (Len(ngapEvt') + 1) + e
      <3>1. \A k \in Ngap : e < k => k - e \in Ngap' BY Zenon DEF NgapMoves
      <3> QED BY ONLY <1>a, <3>1, e \in {0, 1} DEF Values, Ngap
    <2>4. PICK m \in Nat : m = Len(ngapEvt') + 1 BY Zenon, <2>3
    <2>5. Started(i, m)' BY Zenon, <1>b, <1>5, <2>1, <2>2, <2>3, <2>4
    <2> QED BY Zenon, <2>4, <2>5 DEF Started
  <1> QED BY Zenon, <1>a, <1>1, <1>2, <1>3, <1>4, <1>5 DEF NasInv, Values

\* The NGAP context of s is asked for no more often after the step than before it.
LEMMA AskedFrame ==
    ASSUME NEW s \in Spi, TypeOK, TypeOK', AskedOnceAt(s), NEW d \in {0, 1}, NEW e \in {0, 1},
           \A k \in Ngap' : Asking(k, s)' => k + e \in Ngap /\ Asking(k + e, s),
           \A k \in Ike' : Answering(k, s)' => k + d \in Ike /\ Answering(k + d, s),
           sa[s].State = EndSignalling => sa'[s].State = EndSignalling
    PROVE  AskedOnceAt(s)'
  <1>a. Values' BY Zenon, ValuesNext
  <1>1. \A k \in Ngap' : Asking(k, s)' => sa'[s].State = EndSignalling BY Zenon DEF AskedOnceAt
  <1>2. \A k \in Ike' : Answering(k, s)' => sa'[s].State = EndSignalling BY Zenon DEF AskedOnceAt
  <1>3. \A k, l \in Ngap' : Asking(k, s)' /\ Asking(l, s)' => k = l
    <2>1. \A k, l \in Ngap' : Asking(k, s)' /\ Asking(l, s)' => k + e = l + e
      BY Zenon DEF AskedOnceAt
    <2> QED BY ONLY <1>a, <2>1, e \in {0, 1} DEF Values
  <1>4. \A k, l \in Ike' : Answering(k, s)' /\ Answering(l, s)' => k = l
    <2>1. \A k, l \in Ike' : Answering(k, s)' /\ Answering(l, s)' => k + d = l + d
      BY Zenon DEF AskedOnceAt
    <2> QED BY ONLY <1>a, <2>1, d \in {0, 1} DEF Values
  <1>5. \A k \in Ngap', l \in Ike' : ~ (Asking(k, s)' /\ Answering(l, s)')
    BY Zenon DEF AskedOnceAt
  <1> QED BY Zenon, <1>1, <1>2, <1>3, <1>4, <1>5 DEF AskedOnceAt

\* No event of a step asks for a NGAP context or answers, and no association leaves
\* EndSignalling.
AskedTables ==
    /\ \A s \in Spi : sa[s].childAsked => sa'[s].childAsked
    /\ \A s \in Spi : sa[s].State = EndSignalling => sa'[s].State = EndSignalling
    /\ MapKeeps

\* A step that neither asks for an NGAP context nor answers keeps AskedOnce.
LEMMA AskedKeeps ==
    ASSUME TypeOK, TypeOK', AskedOnce, NEW d \in {0, 1}, NEW e \in {0, 1},
           NEW A, IkeMoves(d, A), "GetNGAPContextResponse" \notin A,
           NEW B, NgapMoves(e, B), "GetNGAPContext" \notin B, AskedTables
    PROVE  AskedOnce'
  <1> SUFFICES ASSUME NEW s \in Spi, ~ sa'[s].childAsked PROVE AskedOnceAt(s)'
    BY Zenon DEF AskedOnce
  <1>a. Values' BY Zenon, ValuesNext
  <1>1. AskedOnceAt(s) /\ (sa[s].State = EndSignalling => sa'[s].State = EndSignalling)
    BY Zenon DEF AskedOnce, AskedTables
  <1>2. ASSUME NEW k \in Ngap', Asking(k, s)' PROVE k + e \in Ngap /\ Asking(k + e, s)
    <2>1. k + e \in Ngap /\ ngapEvt'[k] = ngapEvt[k + e]
      BY Zenon, <1>2 DEF NgapMoves, Asking, NgapIs
    <2>2. NGAPIdToIKESPI'[ngapEvt'[k].id] = s /\ ngapEvt'[k].id \in RanId
      BY Zenon, <1>a, <1>2 DEF Asking, Values
    <2>m. ~ Unheard(ngapEvt'[k].id) BY Zenon, <1>2 DEF Asking, NgapIs, Unheard
    <2>3. NGAPIdToIKESPI[ngapEvt'[k].id] = s
      BY Zenon, <2>2, <2>m, NoneNotSpi DEF AskedTables, MapKeeps
    <2> QED BY Zenon, <1>2, <2>1, <2>3 DEF Asking, NgapIs
  <1>3. ASSUME NEW k \in Ike', Answering(k, s)' PROVE k + d \in Ike /\ Answering(k + d, s)
    BY Zenon, <1>3 DEF IkeMoves, Answering, IkeIs
  <1> QED BY Zenon, <1>1, <1>2, <1>3, AskedFrame

\* NAS messages of the IKE loop.
LEMMA NasAfterFrame ==
    ASSUME TypeOK, TypeOK', NasAfterChildSa, NEW e \in {0, 1}, NEW B, NgapMoves(e, B),
           \A k \in Ngap' : Len(ngapEvt) < k + e /\ NgapIs(k, "SendNASMsg")'
                              /\ ngapEvt'[k].id \in RANUePool' =>
             \E s \in Spi : NGAPIdToIKESPI'[ngapEvt'[k].id] = s /\ sa'[s].childAsked,
           \A s \in Spi : sa[s].childAsked => sa'[s].childAsked,
           \A i \in RANUePool' : NGAPIdToIKESPI[i] # None =>
             NGAPIdToIKESPI'[i] = NGAPIdToIKESPI[i],
           PoolGrows
    PROVE  NasAfterChildSa'
  <1> SUFFICES ASSUME NEW k \in Ngap', NgapIs(k, "SendNASMsg")', ngapEvt'[k].id \in RANUePool'
               PROVE  \E s \in Spi : NGAPIdToIKESPI'[ngapEvt'[k].id] = s /\ sa'[s].childAsked
    BY Zenon DEF NasAfterChildSa
  <1>i. PICK i \in RANUePool' : i = ngapEvt'[k].id BY Zenon
  <1>1. CASE k + e \in Ngap /\ ngapEvt'[k] = ngapEvt[k + e]
    <2>0. ngapEvt'[k].type # "UnmarshalEAP5GData" BY Zenon DEF NgapIs
    <2>1. NgapIs(k + e, "SendNASMsg") /\ i = ngapEvt[k + e].id BY Zenon, <1>1, <1>i DEF NgapIs
    <2>p. i \in RANUePool BY Zenon, <1>i, <2>0 DEF PoolGrows
    <2>2. PICK s \in Spi : NGAPIdToIKESPI[i] = s /\ sa[s].childAsked
      BY Zenon, <1>1, <2>1, <2>p DEF NasAfterChildSa
    <2>3. NGAPIdToIKESPI'[i] = s BY Zenon, <2>2, NoneNotSpi
    <2> QED BY Zenon, <1>i, <2>2, <2>3
  <1>2. CASE Len(ngapEvt) < k + e BY Zenon, <1>2
  <1> QED BY Zenon, <1>1, <1>2 DEF NgapMoves

\* Release.
ReleaseEvents(d, e) ==
    /\ ikeUp' => ikeUp
    /\ \A s \in IKEUePool' : \A i \in RanId :
         ikeUp' /\ IKESPIToNGAPId'[s] = i /\ amf'[i].phase = "rel" =>
           \/ /\ s \in IKEUePool /\ IKESPIToNGAPId[s] = i /\ amf[i].phase = "rel"
              /\ d = 1 => ~ (IkeIs(1, "IKEDeleteRequest") /\ ikeEvt[1].spi = s)
           \/ IkePending("IKEDeleteRequest", s)'
    /\ \A i \in RANUePool' : \A s \in Spi :
         ikeUp' /\ NGAPIdToIKESPI'[i] = s /\ s \notin IKESA' =>
           \/ /\ i \in RANUePool /\ NGAPIdToIKESPI[i] = s /\ s \notin IKESA
              /\ e = 1 => ~ (NgapIs(1, "SendUEContextRelease") /\ ngapEvt[1].id = i)
              /\ amf[i].relReq => amf'[i].relReq
           \/ NgapPending("SendUEContextRelease", i)'
           \/ amf'[i].relReq

\* What ReleaseInv needs of the tables and of a new SendUEContextRelease.
ReleaseTables(e) ==
    /\ \A i \in RanId : amf'[i].phase \in {"ue", "ics", "ready", "pdu"} => i \in RANUePool'
    /\ \A i \in RanId : NGAPIdToIKESPI'[i] \in IKESA' => IKESPIToNGAPId'[NGAPIdToIKESPI'[i]] = i
    /\ \A k \in Ngap' : Len(ngapEvt) < k + e /\ NgapIs(k, "SendUEContextRelease")' =>
         \A s \in Spi : IKESPIToNGAPId'[s] # ngapEvt'[k].id
    /\ \A s \in Spi :
         \/ IKESPIToNGAPId'[s] \in {None, IKESPIToNGAPId[s]}
         \/ \A k \in Ngap' : NgapIs(k, "SendUEContextRelease")' =>
              IKESPIToNGAPId'[s] # ngapEvt'[k].id

\* A step with these two properties keeps ReleaseInv.
LEMMA ReleaseFrame ==
    ASSUME TypeOK, TypeOK', ReleaseInv, NEW d \in {0, 1}, NEW e \in {0, 1},
           NEW A, IkeMoves(d, A), NEW B, NgapMoves(e, B), ReleaseEvents(d, e), ReleaseTables(e)
    PROVE  ReleaseInv'
  <1>a. Values /\ Values' BY Zenon, ValuesNext, TypeGivesValues
  <1>b. IKEUePool' \subseteq Spi BY Zenon DEF TypeOK
  <1>1. ASSUME ikeUp', NEW s \in IKEUePool', NEW i \in RanId, IKESPIToNGAPId'[s] = i,
               amf'[i].phase = "rel"
        PROVE  IkePending("IKEDeleteRequest", s)'
    <2> SUFFICES ASSUME s \in IKEUePool, IKESPIToNGAPId[s] = i, amf[i].phase = "rel",
                        d = 1 => ~ (IkeIs(1, "IKEDeleteRequest") /\ ikeEvt[1].spi = s)
                 PROVE  IkePending("IKEDeleteRequest", s)'
      BY Zenon, <1>1 DEF ReleaseEvents
    <2>1. IkePending("IKEDeleteRequest", s)
      BY Zenon, <1>1 DEF ReleaseInv, NoHalfReleasedUe, ReleaseEvents
    <2>2. PICK k \in Ike : IkeIs(k, "IKEDeleteRequest") /\ ikeEvt[k].spi = s
      BY Zenon, <2>1 DEF IkePending, IkeIs, Ike
    <2>3. d < k BY <2>2 DEF Ike
    <2>4. k - d \in Ike' /\ ikeEvt'[k - d] = ikeEvt[k] BY Zenon, <1>1, <2>3 DEF IkeMoves
    <2> QED BY Zenon, <2>2, <2>4 DEF IkePending, IkeIs, Ike
  <1>2. ASSUME ikeUp', NEW i \in RANUePool', NEW s \in Spi, NGAPIdToIKESPI'[i] = s,
               s \notin IKESA'
        PROVE  NgapPending("SendUEContextRelease", i)' \/ amf'[i].relReq
    <2> SUFFICES ASSUME i \in RANUePool, NGAPIdToIKESPI[i] = s, s \notin IKESA,
                        e = 1 => ~ (NgapIs(1, "SendUEContextRelease") /\ ngapEvt[1].id = i),
                        amf[i].relReq => amf'[i].relReq
                 PROVE  NgapPending("SendUEContextRelease", i)' \/ amf'[i].relReq
      BY Zenon, <1>2 DEF ReleaseEvents
    <2>1. NgapPending("SendUEContextRelease", i) \/ amf[i].relReq
      BY Zenon, <1>2, NoneNotSpi DEF ReleaseInv, NoHalfReleasedUe, ReleaseEvents
    <2>2. ASSUME NEW k \in Ngap, NgapIs(k, "SendUEContextRelease") /\ ngapEvt[k].id = i
          PROVE  NgapPending("SendUEContextRelease", i)'
      <3>1. e < k BY <2>2 DEF Ngap
      <3>2. k - e \in Ngap' /\ ngapEvt'[k - e] = ngapEvt[k] BY Zenon, <3>1 DEF NgapMoves
      <3> QED BY Zenon, <2>2, <3>2 DEF NgapPending, NgapIs, Ngap
    <2> QED BY Zenon, <2>1, <2>2 DEF NgapPending, NgapIs, Ngap
  <1>3. NoHalfReleasedUe'
    BY Zenon, <1>a, <1>1, <1>2 DEF NoHalfReleasedUe, Values
  <1>4. ASSUME NEW k \in Ngap', NgapIs(k, "SendUEContextRelease")', NEW s \in Spi
        PROVE  IKESPIToNGAPId'[s] # ngapEvt'[k].id
    <2>1. ngapEvt'[k].id # None BY Zenon, <1>a, NoneNotSpi DEF Values
    <2>2. CASE k + e \in Ngap /\ ngapEvt'[k] = ngapEvt[k + e]
      <3>1. NgapIs(k + e, "SendUEContextRelease") BY Zenon, <1>4, <2>2 DEF NgapIs
      <3>2. IKESPIToNGAPId[s] # ngapEvt'[k].id BY Zenon, <2>2, <3>1 DEF ReleaseInv
      <3> QED BY Zenon, <1>4, <2>1, <3>2 DEF ReleaseTables
    <2>3. CASE Len(ngapEvt) < k + e BY Zenon, <1>4, <2>3 DEF ReleaseTables
    <2> QED BY Zenon, <2>2, <2>3 DEF NgapMoves
  <1>5. /\ \A i \in RanId : amf'[i].phase \in {"ue", "ics", "ready", "pdu"} => i \in RANUePool'
        /\ \A i \in RanId : NGAPIdToIKESPI'[i] \in IKESA' => IKESPIToNGAPId'[NGAPIdToIKESPI'[i]] = i
    BY Zenon DEF ReleaseTables
  <1> QED BY Zenon, <1>3, <1>4, <1>5 DEF ReleaseInv

-----------------------------------------------------------------------------
(* Steps that leave the tables alone.                                      *)

\* The rest of the inductive invariant, over TableInv.
More == KeyInv /\ NasInv /\ ExitInv /\ (~ RemoveMayFail => ReleaseInv)

\* A step is quiet when it changes of the associations, the tables, the AMF's contexts, the
\* RAN UEs and the channels nothing the invariant looks at.
SaQuiet ==
    \A s \in Spi :
      /\ \/ sa'[s].State = sa[s].State
         \/ sa[s].State < PostSignalling /\ sa'[s].State < PostSignalling
      /\ sa'[s].childAsked = sa[s].childAsked
      /\ s \in IKESA' /\ ~ (sa[s].State < PostSignalling) =>
           /\ sa'[s].IkeUE = sa[s].IkeUE
           /\ sa[s].Kn3iwf => sa'[s].Kn3iwf
           /\ sa[s].IPSecInnerIP => sa'[s].IPSecInnerIP

\* The tables of the two loops.
Tables == <<IKESA, IKEUePool, IKESPIToNGAPId, NGAPIdToIKESPI, RANUePool, ikeUp>>

\* The AMF stays in its phase,
AmfQuiet ==
    \A i \in RanId : /\ amf'[i].phase = amf[i].phase
                     /\ amf[i].relReq => amf'[i].relReq

\* a RAN UE stays with NAS over TCP,
RanQuiet ==
    \A i \in RanId : ranUe[i].IsNASTCPConnEstablished => ranUe'[i].IsNASTCPConnEstablished

\* and the events sent are of these types.
QuietIke == {"SendEAP5GFailureMsg", "SendEAPNASMsg", "IKEContextUpdate"}
QuietNgap == {"UnmarshalEAP5GData", "SendUEContextReleaseRequest", "NASTCPConnEstablishedComplete"}

\* The state of every association is a number.
LEMMA StateType ==
    ASSUME TypeOK, TypeOK'
    PROVE  \A s \in Spi : sa[s].State \in Nat /\ sa'[s].State \in Nat
  BY Zenon, TypeGivesValues, ValuesNext DEF Values

\* A quiet step keeps KeyInv,
LEMMA KeyKept ==
    ASSUME TypeOK, TypeOK', KeyInv, SaQuiet, IKESA' \subseteq IKESA PROVE KeyBeforeAuth'
  <1>1. IKESA \subseteq Spi BY Zenon DEF TypeOK
  <1> QED BY <1>1, StateType DEF KeyInv, KeyBeforeAuth, SaQuiet, PostSignalling, EndSignalling,
       HandleCreateChildSA

\* Registration, when no RAN UE is announced, used or removed.
LEMMA KeyQuiet ==
    ASSUME TypeOK, TypeOK', KeyInv, SaQuiet, IKESA' \subseteq IKESA,
           NGAPIdToIKESPI' = NGAPIdToIKESPI,
           AmfQuiet, NEW d \in {0, 1}, NEW e \in {0, 1},
           NEW A, IkeMoves(d, A), "SendEAPSuccessMsg" \notin A,
           NEW B, NgapMoves(e, B), "SendInitialUEMessage" \notin B
    PROVE  KeyInv'
  <1>1. KeyBeforeAuth' BY Zenon, KeyKept
  <1>2. \A s \in Spi : sa[s].State < PostSignalling => sa'[s].State < PostSignalling
    BY Zenon DEF SaQuiet
  <1>3. /\ \A i \in RanId : NGAPIdToIKESPI'[i] \in {None, NGAPIdToIKESPI[i]}
        /\ \A i \in RanId : amf'[i].phase \in {"none", "ue"} => amf'[i].phase = amf[i].phase
        /\ \A i \in RanId : amf[i].phase = "none" => amf'[i].phase = "none"
    BY Zenon DEF AmfQuiet
  <1> QED BY Zenon, <1>1, <1>2, <1>3, KeyFrame

\* the associations past the signalling,
SignalledSame == \A s \in Spi : Signalled(s)' <=> Signalled(s)

\* which SaQuiet implies,
LEMMA SignalledKept == ASSUME TypeOK, TypeOK', SaQuiet PROVE SignalledSame
  BY StateType DEF SignalledSame, SaQuiet, Signalled, PostSignalling, EndSignalling

\* The other parts, when the tables do not change.
LEMMA NasQuiet ==
    ASSUME TypeOK, TypeOK', MapsAgree, NasInv, SignalledSame, AmfQuiet, RanQuiet,
           UNCHANGED <<NGAPIdToIKESPI, RANUePool>>,
           \A s \in Spi : IKESPIToNGAPId'[s] \in {None, IKESPIToNGAPId[s]},
           NEW d \in {0, 1}, NEW e \in {0, 1}, NEW A, IkeMoves(d, A), NEW B, NgapMoves(e, B),
           NasEvents(e, A)
    PROVE  NasInv'
  <1>0. UNCHANGED <<NGAPIdToIKESPI, RANUePool>> BY Zenon
  <1>1. PoolGrows BY Zenon, <1>0 DEF PoolGrows
  <1>2. \A s \in Spi : Signalled(s)' <=> Signalled(s) BY Zenon DEF SignalledSame
  <1>3. RANUePool' \cap RANUePool \subseteq RanId /\ None \notin RANUePool'
    BY Zenon, NoneNotSpi DEF TypeOK
  <1>5. \A s \in Spi : IKESPIToNGAPId'[s] \in RANUePool' => IKESPIToNGAPId[s] = IKESPIToNGAPId'[s]
    BY Zenon, <1>3
  <1>4. NasTables BY Zenon, <1>0, <1>2, <1>3, <1>5 DEF NasTables, MapKeeps, AmfQuiet, RanQuiet
  <1> QED BY Zenon, <1>1, <1>4, NasFrame

\* AskedOnce,
LEMMA AskedQuiet ==
    ASSUME TypeOK, TypeOK', AskedOnce, SaQuiet, NGAPIdToIKESPI' = NGAPIdToIKESPI,
           NEW d \in {0, 1}, NEW e \in {0, 1},
           NEW A, IkeMoves(d, A), "GetNGAPContextResponse" \notin A,
           NEW B, NgapMoves(e, B), "GetNGAPContext" \notin B
    PROVE  AskedOnce'
  <1>1. \A s \in Spi : sa[s].State = EndSignalling => sa'[s].State = EndSignalling
    BY StateType DEF SaQuiet, PostSignalling, EndSignalling
  <1>2. AskedTables BY Zenon, <1>1 DEF AskedTables, MapKeeps, SaQuiet
  <1> QED BY Zenon, <1>2, AskedKeeps

\* and NasAfterChildSa.
LEMMA NasAfterQuiet ==
    ASSUME TypeOK, TypeOK', NasAfterChildSa, \A s \in Spi : sa[s].childAsked => sa'[s].childAsked,
           UNCHANGED <<NGAPIdToIKESPI, RANUePool>>,
           NEW e \in {0, 1}, NEW B, NgapMoves(e, B), "SendNASMsg" \notin B
    PROVE  NasAfterChildSa'
  <1>0. UNCHANGED <<NGAPIdToIKESPI, RANUePool>> BY Zenon
  <1>1. PoolGrows BY Zenon, <1>0 DEF PoolGrows
  <1>2. \A k \in Ngap' : Len(ngapEvt) < k + e /\ NgapIs(k, "SendNASMsg")' => FALSE
    <2> SUFFICES ASSUME NEW k \in Ngap', Len(ngapEvt) < k + e, NgapIs(k, "SendNASMsg")'
                 PROVE  FALSE
      BY Zenon
    <2>1. ~ (k + e \in Ngap)
      <3>1. Len(ngapEvt) \in Nat BY Zenon, Basics
      <3> QED BY ONLY <3>1, Len(ngapEvt) < k + e DEF Ngap
    <2> QED BY Zenon, <2>1 DEF NgapMoves, NgapIs
  <1> QED BY Zenon, <1>0, <1>1, <1>2, NasAfterFrame

\* Nothing added is a release.
LEMMA ReleaseQuiet ==
    ASSUME TypeOK, TypeOK', ReleaseInv, UNCHANGED Tables, AmfQuiet,
           NEW d \in {0, 1}, NEW e \in {0, 1}, NEW A, IkeMoves(d, A),
           NEW B, NgapMoves(e, B), "SendUEContextRelease" \notin B,
           d = 1 => ~ IkeIs(1, "IKEDeleteRequest"), e = 1 => ~ NgapIs(1, "SendUEContextRelease")
    PROVE  ReleaseInv'
  <1>0. UNCHANGED <<IKESA, IKEUePool, IKESPIToNGAPId, NGAPIdToIKESPI, RANUePool, ikeUp>>
    BY Zenon DEF Tables
  <1>1. IKEUePool \subseteq Spi /\ RANUePool \subseteq RanId BY Zenon DEF TypeOK
  <1>2. ReleaseEvents(d, e) BY Zenon, <1>0, <1>1 DEF ReleaseEvents, AmfQuiet
  <1>3. ASSUME NEW k \in Ngap', Len(ngapEvt) < k + e, NgapIs(k, "SendUEContextRelease")'
        PROVE  FALSE
    <2>1. ~ (k + e \in Ngap)
      <3>1. Len(ngapEvt) \in Nat BY Zenon, Basics
      <3> QED BY ONLY <1>3, <3>1 DEF Ngap
    <2> QED BY Zenon, <1>3, <2>1 DEF NgapMoves, NgapIs
  <1>4. ReleaseTables(e)
    <2>1. \A i \in RanId : amf'[i].phase \in {"ue", "ics", "ready", "pdu"} => i \in RANUePool'
      BY Zenon, <1>0 DEF ReleaseInv, AmfQuiet
    <2>2. \A i \in RanId : NGAPIdToIKESPI'[i] \in IKESA' => IKESPIToNGAPId'[NGAPIdToIKESPI'[i]] = i
      BY Zenon, <1>0 DEF ReleaseInv
    <2> QED BY Zenon, <1>0, <1>3, <2>1, <2>2 DEF ReleaseTables
  <1> QED BY Zenon, <1>2, <1>4, ReleaseFrame

\* A step that leaves the tables alone.
LEMMA QuietStep ==
    ASSUME TypeOK, TypeOK', MapsAgree, More, SaQuiet, UNCHANGED Tables, AmfQuiet, RanQuiet,
           ExitOnlyAfterNasConnection', NEW d \in {0, 1}, NEW e \in {0, 1},
           IkeMoves(d, QuietIke), NgapMoves(e, QuietNgap),
           d = 1 => ~ IkeIs(1, "IKEDeleteRequest"),
           e = 1 => /\ ~ NgapIs(1, "SendUEContextRelease")
                    /\ ~ NgapIs(1, "StartTCPSignalNASMsg")
    PROVE  More'
  <1>0. UNCHANGED <<IKESA, IKESPIToNGAPId, NGAPIdToIKESPI, RANUePool>> BY Zenon DEF Tables
  <1>1. KeyInv'
    <2>1. "SendEAPSuccessMsg" \notin QuietIke /\ "SendInitialUEMessage" \notin QuietNgap
      BY Zenon DEF QuietIke, QuietNgap
    <2>2. IKESA' \subseteq IKESA BY Zenon, <1>0
    <2> QED BY Zenon, <1>0, <2>1, <2>2, KeyQuiet DEF More
  <1>2. NasInv'
    <2>1. ASSUME NEW k \in Ngap', Len(ngapEvt) < k + e,
                 NgapIs(k, "SendPDUSessionResourceSetupResponse")'
          PROVE  FALSE
      <3>1. ~ (k + e \in Ngap)
        <4>1. Len(ngapEvt) \in Nat BY Zenon, Basics
        <4> QED BY ONLY <2>1, <4>1 DEF Ngap
      <3> QED BY Zenon, <2>1, <3>1 DEF NgapMoves, NgapIs, QuietNgap
    <2>2. NasEvents(e, QuietIke) BY Zenon, <2>1 DEF NasEvents, IkeIs, QuietIke
    <2>3. \A s \in Spi : IKESPIToNGAPId'[s] \in {None, IKESPIToNGAPId[s]} BY Zenon, <1>0
    <2>4. SignalledSame BY Zenon, SignalledKept
    <2> QED BY Zenon, <1>0, <2>2, <2>3, <2>4, NasQuiet DEF More
  <1>3. ExitInv'
    <2>1. /\ "GetNGAPContextResponse" \notin QuietIke
          /\ "GetNGAPContext" \notin QuietNgap /\ "SendNASMsg" \notin QuietNgap
      BY Zenon DEF QuietIke, QuietNgap
    <2>2. AskedOnce' BY Zenon, <1>0, <2>1, AskedQuiet DEF More, ExitInv
    <2>3. \A s \in Spi : sa[s].childAsked => sa'[s].childAsked BY Zenon DEF SaQuiet
    <2>4. NasAfterChildSa' BY Zenon, <1>0, <2>1, <2>3, NasAfterQuiet DEF More, ExitInv
    <2> QED BY Zenon, <2>2, <2>4 DEF ExitInv
  <1>4. ASSUME ReleaseInv PROVE ReleaseInv'
    <2>1. "SendUEContextRelease" \notin QuietNgap BY Zenon DEF QuietNgap
    <2> QED BY Zenon, <1>4, <2>1, ReleaseQuiet
  <1> QED BY Zenon, <1>1, <1>2, <1>3, <1>4 DEF More

-----------------------------------------------------------------------------
(* The handlers that leave the tables alone.                               *)

\* A step that does not end the process says nothing about why processes end.
LEMMA Running == ASSUME procUp' PROVE ExitOnlyAfterNasConnection'
  BY Zenon DEF ExitOnlyAfterNasConnection

\* What stays as it is is quiet: the associations,
LEMMA SaSame == ASSUME sa' = sa PROVE SaQuiet
  BY Zenon DEF SaQuiet

\* the AMF's contexts,
LEMMA AmfSame == ASSUME amf' = amf PROVE AmfQuiet
  BY Zenon DEF AmfQuiet

\* and the RAN UEs.
LEMMA RanSame == ASSUME ranUe' = ranUe PROVE RanQuiet
  BY Zenon DEF RanQuiet

\* One association is changed.
LEMMA SaSet ==
    ASSUME TypeOK, NEW s \in Spi, NEW r, sa' = [sa EXCEPT ![s] = r],
           \/ r.State = sa[s].State
           \/ sa[s].State < PostSignalling /\ r.State < PostSignalling,
           r.childAsked = sa[s].childAsked, r.IkeUE = sa[s].IkeUE,
           sa[s].Kn3iwf => r.Kn3iwf, sa[s].IPSecInnerIP => r.IPSecInnerIP
    PROVE  SaQuiet
  <1>1. sa \in [Spi -> SecurityAssociation] BY Zenon, SaType
  <1>2. sa'[s] = r /\ \A u \in Spi \ {s} : sa'[u] = sa[u] BY Zenon, <1>1
  <1> QED BY Zenon, <1>2 DEF SaQuiet

\* What HandleIKEAUTH leaves alone in an association.
LEMMA ConsumedQuiet ==
    ASSUME TypeOK, NEW m \in toN3iwf
    PROVE  LET c == Consumed(m)
               p == [c EXCEPT !.IPSecInnerIP = TRUE]
           IN /\ c.State = sa[m.spi].State /\ c.childAsked = sa[m.spi].childAsked
              /\ c.IkeUE = sa[m.spi].IkeUE /\ c.Kn3iwf = sa[m.spi].Kn3iwf
              /\ c.IPSecInnerIP = sa[m.spi].IPSecInnerIP
              /\ p.State = sa[m.spi].State /\ p.childAsked = sa[m.spi].childAsked
              /\ p.IkeUE = sa[m.spi].IkeUE /\ p.Kn3iwf = sa[m.spi].Kn3iwf
              /\ p.IPSecInnerIP
  <1>1. sa[m.spi] \in SecurityAssociation BY Zenon, Basics, SaType
  <1> QED BY Zenon, <1>1 DEF Consumed, SecurityAssociation

\* HandleIKEAUTH, when the association stays or gets an inner address.
LEMMA IkeAuthQuiet ==
    ASSUME TypeOK, TypeOK', MapsAgree, More, NEW m \in toN3iwf, NEW st, IkeAuth(m, st),
           NgapMoves(0, QuietNgap),
           \/ sa' = [sa EXCEPT ![m.spi] = Consumed(m)]
           \/ sa' = [sa EXCEPT ![m.spi] = [Consumed(m) EXCEPT !.IPSecInnerIP = TRUE]]
           \/ SaQuiet
    PROVE  More'
  <1>1. /\ procUp' /\ UNCHANGED Tables /\ ranUe' = ranUe /\ amf' = amf /\ ikeEvt' = ikeEvt
        /\ m.spi \in Spi
    BY Zenon, Basics DEF IkeAuth, Dispatch, Tables, ranVars, upVars
  <1>2. SaQuiet
    <2> DEFINE c == Consumed(m)
               p == [c EXCEPT !.IPSecInnerIP = TRUE]
    <2>1. /\ c.State = sa[m.spi].State /\ c.childAsked = sa[m.spi].childAsked
          /\ c.IkeUE = sa[m.spi].IkeUE /\ c.Kn3iwf = sa[m.spi].Kn3iwf
          /\ c.IPSecInnerIP = sa[m.spi].IPSecInnerIP
          /\ p.State = sa[m.spi].State /\ p.childAsked = sa[m.spi].childAsked
          /\ p.IkeUE = sa[m.spi].IkeUE /\ p.Kn3iwf = sa[m.spi].Kn3iwf
          /\ p.IPSecInnerIP
      BY Zenon, ConsumedQuiet
    <2> HIDE DEF c, p
    <2>2. CASE sa' = [sa EXCEPT ![m.spi] = c] BY Zenon, <1>1, <2>1, <2>2, SaSet
    <2>3. CASE sa' = [sa EXCEPT ![m.spi] = p] BY Zenon, <1>1, <2>1, <2>3, SaSet
    <2> QED BY Zenon, <2>2, <2>3 DEF c, p
  <1>3. AmfQuiet /\ RanQuiet /\ ExitOnlyAfterNasConnection'
    BY Zenon, <1>1, AmfSame, RanSame, Running
  <1>4. IkeMoves(0, QuietIke) BY Zenon, <1>1, IkeSame
  <1> QED BY <1>1, <1>2, <1>3, <1>4, QuietStep

\* Two events are added.
LEMMA NgapAddTwo ==
    ASSUME TypeOK, NEW e \in NgapEvt, NEW f \in NgapEvt, NEW B, e.type \in B, f.type \in B,
           ngapEvt' = Append(Append(ngapEvt, e), f)
    PROVE  /\ NgapMoves(0, B) /\ Len(ngapEvt') = Len(ngapEvt) + 2
           /\ Len(ngapEvt) + 1 \in Ngap' /\ ngapEvt'[Len(ngapEvt) + 1] = e
           /\ \A k \in Ngap' : \/ k \in Ngap /\ ngapEvt'[k] = ngapEvt[k]
                               \/ k = Len(ngapEvt) + 1 /\ ngapEvt'[k] = e
                               \/ k = Len(ngapEvt) + 2 /\ ngapEvt'[k] = f
  <1>1. ngapEvt \in Seq(NgapEvt) /\ Len(ngapEvt) \in Nat BY Zenon, EvtType, Basics
  <1>2. PICK q : q = Append(ngapEvt, e) BY Zenon
  <1>3. /\ q \in Seq(NgapEvt) /\ Len(q) = Len(ngapEvt) + 1
        /\ q[Len(ngapEvt) + 1] = e
        /\ \A k \in 1..Len(ngapEvt) : q[k] = ngapEvt[k]
    BY ONLY <1>1, <1>2, e \in NgapEvt, AppendIndex
  <1>4. ngapEvt' = Append(q, f) BY Zenon, <1>2
  <1>5. /\ Len(ngapEvt') = Len(q) + 1
        /\ ngapEvt'[Len(q) + 1] = f
        /\ \A k \in 1..Len(q) : ngapEvt'[k] = q[k]
    BY ONLY <1>3, <1>4, f \in NgapEvt, AppendIndex
  <1>6. /\ Len(ngapEvt') = Len(ngapEvt) + 2
        /\ ngapEvt'[Len(ngapEvt) + 1] = e /\ ngapEvt'[Len(ngapEvt) + 2] = f
        /\ \A k \in 1..Len(ngapEvt) : ngapEvt'[k] = ngapEvt[k]
    BY ONLY <1>1, <1>3, <1>5
  <1>7. NgapMoves(0, B) BY ONLY <1>1, <1>6, e.type \in B, f.type \in B DEF NgapMoves, Ngap
  <1>8. /\ Len(ngapEvt) + 1 \in Ngap'
        /\ \A k \in Ngap' : \/ k \in Ngap /\ ngapEvt'[k] = ngapEvt[k]
                            \/ k = Len(ngapEvt) + 1 /\ ngapEvt'[k] = e
                            \/ k = Len(ngapEvt) + 2 /\ ngapEvt'[k] = f
    BY ONLY <1>1, <1>6 DEF Ngap
  <1> QED BY Zenon, <1>6, <1>7, <1>8

\* The IKE SA of s is established: NAS over TCP is started and the NGAP context asked for.
LEMMA EstablishedStep ==
    ASSUME TypeOK, TypeOK', MapsAgree, More, NEW s \in IKESA, IKESPIToNGAPId[s] # None,
           sa[s].State = PostSignalling, NEW r, sa' = [sa EXCEPT ![s] = r],
           r.State = EndSignalling, r.IPSecInnerIP, r.childAsked = sa[s].childAsked,
           r.IkeUE = sa[s].IkeUE, r.Kn3iwf = sa[s].Kn3iwf, procUp',
           ngapEvt' = ngapEvt \o <<NgapE("StartTCPSignalNASMsg", IKESPIToNGAPId[s]),
                                   NgapE("GetNGAPContext", IKESPIToNGAPId[s])>>,
           UNCHANGED Tables, UNCHANGED <<ranUe, amf, ikeEvt>>
    PROVE  More'
  <1>i. PICK i : i = IKESPIToNGAPId[s] BY Zenon
  <1>n. PICK n : n = Len(ngapEvt) + 1 BY Zenon
  <1> DEFINE e == NgapE("StartTCPSignalNASMsg", i)
             f == NgapE("GetNGAPContext", i)
             B == {"StartTCPSignalNASMsg", "GetNGAPContext"}
  <1>0. UNCHANGED <<IKESA, IKESPIToNGAPId, NGAPIdToIKESPI, RANUePool>> BY Zenon DEF Tables
  <1>a. /\ s \in Spi /\ i \in RanId /\ sa \in [Spi -> SecurityAssociation]
        /\ ngapEvt \in Seq(NgapEvt) /\ Len(ngapEvt) \in Nat
    BY Zenon, <1>i, Basics, SaType, EvtType
  <1>b. e \in NgapEvt /\ f \in NgapEvt BY Zenon, <1>a, EventTypes DEF NgapEvtType
  <1>c. /\ e.type = "StartTCPSignalNASMsg" /\ e.id = i
        /\ f.type = "GetNGAPContext" /\ f.id = i
    BY Zenon DEF NgapE
  <1>d. sa'[s] = r /\ \A u \in Spi \ {s} : sa'[u] = sa[u] BY Zenon, <1>a
  <1>e. ngapEvt' = Append(Append(ngapEvt, e), f)
    <2>1. ngapEvt' = ngapEvt \o <<e, f>> BY Zenon, <1>i
    <2> HIDE DEF e, f
    <2> QED BY ONLY <1>a, <1>b, <2>1, AppendTwo
  <1>g. e.type \in B /\ f.type \in B BY Zenon, <1>c
  <1> HIDE DEF e, f, B
  <1>1. /\ NgapMoves(0, B) /\ Len(ngapEvt') = Len(ngapEvt) + 2
        /\ n \in Ngap' /\ ngapEvt'[n] = e
        /\ \A k \in Ngap' : \/ k \in Ngap /\ ngapEvt'[k] = ngapEvt[k]
                            \/ k = n /\ ngapEvt'[k] = e
                            \/ k = Len(ngapEvt) + 2 /\ ngapEvt'[k] = f
    <2>1. /\ NgapMoves(0, B) /\ Len(ngapEvt') = Len(ngapEvt) + 2
          /\ Len(ngapEvt) + 1 \in Ngap' /\ ngapEvt'[Len(ngapEvt) + 1] = e
          /\ \A k \in Ngap' : \/ k \in Ngap /\ ngapEvt'[k] = ngapEvt[k]
                              \/ k = Len(ngapEvt) + 1 /\ ngapEvt'[k] = e
                              \/ k = Len(ngapEvt) + 2 /\ ngapEvt'[k] = f
      BY Zenon, <1>b, <1>e, <1>g, NgapAddTwo
    <2> QED BY ONLY Zenon, <1>n, <2>1
  <1>2. IkeMoves(0, QuietIke) BY Zenon, IkeSame
  <1>3. AmfQuiet /\ RanQuiet BY Zenon, AmfSame, RanSame
  <1>4. KeyInv'
    <2>1. KeyBeforeAuth'
      <3>1. sa[s].IkeUE /\ sa[s].Kn3iwf
        BY SMT DEF More, KeyInv, KeyBeforeAuth, PostSignalling
      <3>2. IKESA \subseteq Spi /\ KeyBeforeAuth BY Zenon DEF TypeOK, More, KeyInv
      <3>3. /\ sa'[s].State = EndSignalling /\ sa'[s].IPSecInnerIP
            /\ sa'[s].IkeUE /\ sa'[s].Kn3iwf
        BY Zenon, <1>d, <3>1
      <3> QED BY ONLY <1>0, <1>d, <3>2, <3>3
          DEF KeyBeforeAuth, EndSignalling, HandleCreateChildSA
    <2>2. \A u \in Spi : sa[u].State < PostSignalling => sa'[u].State < PostSignalling
      <3>1. ~ (sa[s].State < PostSignalling) BY ONLY sa[s].State = PostSignalling DEF PostSignalling
      <3> QED BY Zenon, <1>d, <3>1
    <2>3. /\ \A j \in RanId : NGAPIdToIKESPI'[j] \in {None, NGAPIdToIKESPI[j]}
          /\ \A j \in RanId : amf'[j].phase \in {"none", "ue"} => amf'[j].phase = amf[j].phase
          /\ \A j \in RanId : amf[j].phase = "none" => amf'[j].phase = "none"
          /\ "SendEAPSuccessMsg" \notin QuietIke /\ "SendInitialUEMessage" \notin B
      BY Zenon, <1>0 DEF QuietIke, B
    <2> QED BY Zenon, <1>1, <1>2, <2>1, <2>2, <2>3, KeyFrame DEF More
  <1>5. NasInv'
    <2>1. NasEvents(0, QuietIke)
      <3>1. \A k \in Ngap' : ~ (Len(ngapEvt) < k + 0 /\
                                NgapIs(k, "SendPDUSessionResourceSetupResponse")')
        <4>1. \A k \in Ngap' : Len(ngapEvt) < k + 0 => k \notin Ngap BY ONLY <1>a DEF Ngap
        <4> QED BY Zenon, <1>1, <1>c, <4>1 DEF NgapIs
      <3> QED BY <3>1 DEF NasEvents, IkeIs, QuietIke
    <2>2. Started(i, Len(ngapEvt) + 1)'
      <3>1. n < Len(ngapEvt') + 1 BY ONLY <1>a, <1>n, <1>1
      <3>2. NgapIs(n, "StartTCPSignalNASMsg")' /\ ngapEvt'[n].id = i
        BY Zenon, <1>1, <1>c DEF NgapIs
      <3> QED BY Zenon, <1>0, <1>1, <3>1, <3>2 DEF Started
    <2>3. NasTables
      <3>1. \A u \in Spi : Signalled(u) => Signalled(u)'
        BY <1>d DEF Signalled, PostSignalling, EndSignalling
      <3>2. \A u \in Spi \ {s} : Signalled(u)' => Signalled(u) BY Zenon, <1>d DEF Signalled
      <3>3. Started(IKESPIToNGAPId[s], Len(ngapEvt) + 1)' BY Zenon, <1>0, <1>i, <2>2
      <3> QED BY Zenon, <1>0, <3>1, <3>2, <3>3 DEF NasTables, MapKeeps
    <2>4. PoolGrows BY Zenon, <1>0 DEF PoolGrows
    <2> QED BY Zenon, <1>1, <1>2, <2>1, <2>3, <2>4, NasFrame DEF More
  <1>6. ExitInv'
    <2>0. ExitOnlyAfterNasConnection' BY Zenon, Running
    <2>1. NGAPIdToIKESPI[i] # None => NGAPIdToIKESPI[i] = s BY Zenon, <1>a, <1>i DEF MapsAgree
    <2>2. ASSUME NEW u \in Spi, NEW k \in Ngap', Asking(k, u)'
          PROVE  (k \in Ngap /\ Asking(k, u)) \/ (u = s /\ k = Len(ngapEvt) + 2)
      <3>1. NgapIs(k, "GetNGAPContext")' /\ NGAPIdToIKESPI[ngapEvt'[k].id] = u
        BY Zenon, <1>0, <2>2 DEF Asking
      <3>2. CASE k \in Ngap /\ ngapEvt'[k] = ngapEvt[k] BY Zenon, <3>1, <3>2 DEF Asking, NgapIs
      <3>3. CASE k = n /\ ngapEvt'[k] = e BY Zenon, <1>c, <3>1, <3>3 DEF NgapIs
      <3>4. CASE k = Len(ngapEvt) + 2 /\ ngapEvt'[k] = f
        BY Zenon, <1>c, <2>1, <3>1, <3>4, NoneNotSpi
      <3> QED BY Zenon, <1>1, <3>2, <3>3, <3>4
    <2>3. ASSUME NEW u \in Spi, ~ sa'[u].childAsked PROVE AskedOnceAt(u)'
      <3>0. AskedOnceAt(u) /\ ~ sa[u].childAsked BY Zenon, <1>d, <2>3 DEF More, ExitInv, AskedOnce
      <3>1. CASE u # s
        <4>1. \A k \in Ngap' : Asking(k, u)' => k + 0 \in Ngap /\ Asking(k + 0, u)
          <5>1. \A k \in Ngap' : k + 0 = k BY ONLY TRUE DEF Ngap
          <5> QED BY Zenon, <2>2, <3>1, <5>1
        <4>2. \A k \in Ike' : Answering(k, u)' => k + 0 \in Ike /\ Answering(k + 0, u)
          <5>1. \A k \in Ike' : k + 0 = k BY ONLY TRUE DEF Ike
          <5> QED BY Zenon, <5>1 DEF Answering, IkeIs, Ike
        <4> QED BY Zenon, <1>d, <3>0, <3>1, <4>1, <4>2, AskedFrame
      <3>2. CASE u = s
        <4>0. sa[s].State # EndSignalling BY DEF PostSignalling, EndSignalling
        <4>1. /\ \A k \in Ngap : ~ Asking(k, s)
              /\ \A k \in Ike : ~ Answering(k, s)
          BY Zenon, <3>0, <3>2, <4>0 DEF AskedOnceAt
        <4>2. \A k \in Ike' : ~ Answering(k, s)' BY Zenon, <4>1 DEF Answering, IkeIs, Ike
        <4>3. \A k \in Ngap' : Asking(k, s)' => k = Len(ngapEvt) + 2
          BY Zenon, <2>2, <4>1, <1>a
        <4> QED BY Zenon, <1>d, <3>2, <4>2, <4>3 DEF AskedOnceAt
      <3> QED BY Zenon, <3>1, <3>2
    <2>4. AskedOnce' BY Zenon, <2>3 DEF AskedOnce
    <2>5. NasAfterChildSa'
      <3>1. \A u \in Spi : sa[u].childAsked => sa'[u].childAsked BY Zenon, <1>d
      <3>2. "SendNASMsg" \notin B BY Zenon DEF B
      <3> QED BY Zenon, <1>0, <1>1, <3>1, <3>2, NasAfterQuiet DEF More, ExitInv
    <2> QED BY Zenon, <2>0, <2>4, <2>5 DEF ExitInv
  <1>7. ASSUME ReleaseInv PROVE ReleaseInv'
    <2>1. "SendUEContextRelease" \notin B BY Zenon DEF B
    <2> QED BY <1>1, <1>2, <1>3, <1>7, <2>1, ReleaseQuiet
  <1> QED BY Zenon, <1>4, <1>5, <1>6, <1>7 DEF More

-----------------------------------------------------------------------------
(* The IKE loop.                                                           *)

\* HandleIKEAUTH, in every state of the association.
LEMMA IkeAuthMore ==
    ASSUME TableInv, TypeOK', More, NEW m \in toN3iwf,
           \/ HandleIKEAUTH_PreSignalling(m) \/ HandleIKEAUTH_EAPSignalling(m)
           \/ HandleIKEAUTH_PostSignalling(m) \/ HandleIKEAUTH_Late(m)
    PROVE  More'
  <1> DEFINE s == m.spi
             c == Consumed(m)
             p == [c EXCEPT !.IPSecInnerIP = TRUE]
  <1>a. TypeOK /\ MapsAgree /\ s \in Spi BY Zenon, Basics DEF TableInv
  <1>b. ASSUME ngapEvt' = ngapEvt PROVE NgapMoves(0, QuietNgap) BY Zenon, <1>a, <1>b, NgapSame
  <1>c. /\ c.State = sa[s].State /\ c.childAsked = sa[s].childAsked
        /\ c.IkeUE = sa[s].IkeUE /\ c.Kn3iwf = sa[s].Kn3iwf
        /\ c.IPSecInnerIP = sa[s].IPSecInnerIP
        /\ p.State = sa[s].State /\ p.childAsked = sa[s].childAsked
        /\ p.IkeUE = sa[s].IkeUE /\ p.Kn3iwf = sa[s].Kn3iwf
        /\ p.IPSecInnerIP
    BY Zenon, <1>a, ConsumedQuiet
  <1>1. CASE HandleIKEAUTH_PreSignalling(m)
    <2>1. IkeAuth(m, {PreSignalling}) /\ ngapEvt' = ngapEvt
      BY Zenon, <1>1 DEF HandleIKEAUTH_PreSignalling
    <2>2. CASE sa' = [sa EXCEPT ![s] = [c EXCEPT !.State = EAPSignalling,
                                          !.LastEAPIdentifier = NextEAPIdentifier(s)]]
      <3> DEFINE r == [c EXCEPT !.State = EAPSignalling,
                                !.LastEAPIdentifier = NextEAPIdentifier(s)]
      <3>1. /\ r.State = EAPSignalling /\ r.childAsked = sa[s].childAsked
            /\ r.IkeUE = sa[s].IkeUE /\ r.Kn3iwf = sa[s].Kn3iwf
            /\ r.IPSecInnerIP = sa[s].IPSecInnerIP
        <4>1. sa[s] \in SecurityAssociation BY Zenon, <1>a, SaType
        <4> QED BY Zenon, <4>1 DEF Consumed, SecurityAssociation
      <3>2. sa' = [sa EXCEPT ![s] = r] BY Zenon, <2>2
      <3> HIDE DEF r
      <3>3. sa[s].State = PreSignalling BY Zenon, <2>1 DEF IkeAuth
      <3>4. sa[s].State < PostSignalling /\ r.State < PostSignalling
        BY ONLY <3>1, <3>3 DEF PreSignalling, EAPSignalling, PostSignalling
      <3>5. SaQuiet BY Zenon, <1>a, <3>1, <3>2, <3>4, SaSet
      <3> QED BY Zenon, <1>a, <1>b, <2>1, <3>5, IkeAuthQuiet
    <2>3. CASE sa' = [sa EXCEPT ![s] = c] BY Zenon, <1>a, <1>b, <2>1, <2>3, IkeAuthQuiet
    <2> QED BY Zenon, <1>1, <2>2, <2>3 DEF HandleIKEAUTH_PreSignalling
  <1>2. CASE HandleIKEAUTH_EAPSignalling(m)
    <2>1. IkeAuth(m, {EAPSignalling}) /\ sa' = [sa EXCEPT ![s] = c]
      BY Zenon, <1>2 DEF HandleIKEAUTH_EAPSignalling
    <2> DEFINE e == [type |-> "UnmarshalEAP5GData", spi |-> s,
                     id |-> NgapIdOrZero(s), initial |-> sa[s].IkeUE]
    <2>2. ngapEvt' = ngapEvt \/ ngapEvt' = Append(ngapEvt, e)
      BY Zenon, <1>2 DEF HandleIKEAUTH_EAPSignalling, SendNgapEvt
    <2>3. NgapIdOrZero(s) \in RanId /\ sa[s].IkeUE \in BOOLEAN
      <3>1. 0 \in RanId BY ConstantsAssumption DEF RanId
      <3> QED BY Zenon, <1>a, <3>1, SaType, Basics DEF NgapIdOrZero, SecurityAssociation
    <2>4. e \in NgapEvt /\ e.type \in QuietNgap BY Zenon, <1>a, <2>3 DEF NgapEvt, QuietNgap
    <2> HIDE DEF e
    <2>5. CASE ngapEvt' = Append(ngapEvt, e)
      <3>1. NgapMoves(0, QuietNgap) BY Zenon, <1>a, <2>4, <2>5, NgapAdd
      <3> QED BY Zenon, <1>a, <2>1, <3>1, IkeAuthQuiet
    <2> QED BY Zenon, <1>a, <1>b, <2>1, <2>2, <2>5, IkeAuthQuiet
  <1>3. CASE HandleIKEAUTH_PostSignalling(m)
    <2> DEFINE r == [p EXCEPT !.State = @ + 1]
    <2>1. IkeAuth(m, {PostSignalling}) BY Zenon, <1>3 DEF HandleIKEAUTH_PostSignalling
    <2>2. CASE /\ IKESPIToNGAPId[s] # None /\ sa' = [sa EXCEPT ![s] = r]
               /\ ngapEvt' = ngapEvt \o <<NgapE("StartTCPSignalNASMsg", IKESPIToNGAPId[s]),
                                          NgapE("GetNGAPContext", IKESPIToNGAPId[s])>>
      <3>1. sa[s].State = PostSignalling /\ s \in IKESA BY Zenon, <2>1 DEF IkeAuth, Dispatch
      <3>2. /\ r.State = sa[s].State + 1 /\ r.childAsked = sa[s].childAsked
            /\ r.IkeUE = sa[s].IkeUE /\ r.Kn3iwf = sa[s].Kn3iwf /\ r.IPSecInnerIP
        <4>1. sa[s] \in SecurityAssociation BY Zenon, <1>a, SaType
        <4> QED BY Zenon, <4>1 DEF Consumed, SecurityAssociation
      <3>3. sa' = [sa EXCEPT ![s] = r] BY Zenon, <2>2
      <3>4. /\ procUp' /\ UNCHANGED Tables /\ UNCHANGED <<ranUe, amf, ikeEvt>>
        BY Zenon, <2>1 DEF IkeAuth, Dispatch, Tables, ranVars, upVars
      <3> HIDE DEF r
      <3>5. r.State = EndSignalling BY ONLY <3>1, <3>2 DEF PostSignalling, EndSignalling
      <3> QED BY Zenon, <1>a, <2>2, <3>1, <3>2, <3>3, <3>4, <3>5, EstablishedStep
    <2>3. CASE ngapEvt' = ngapEvt /\ (sa' = [sa EXCEPT ![s] = c] \/ sa' = [sa EXCEPT ![s] = p])
      BY Zenon, <1>a, <1>b, <2>1, <2>3, IkeAuthQuiet
    <2> QED BY Zenon, <1>3, <2>2, <2>3 DEF HandleIKEAUTH_PostSignalling
  <1>4. CASE HandleIKEAUTH_Late(m)
    <2>1. IkeAuth(m, {EndSignalling, HandleCreateChildSA}) /\ ngapEvt' = ngapEvt
          /\ sa' = [sa EXCEPT ![s] = c]
      BY Zenon, <1>4 DEF HandleIKEAUTH_Late
    <2> QED BY Zenon, <1>a, <1>b, <2>1, IkeAuthQuiet
  <1> QED BY Zenon, <1>1, <1>2, <1>3, <1>4

\* An event of the IKE loop that changes an association, if anything.
LEMMA QuietIkeEvent ==
    ASSUME TypeOK, TypeOK', MapsAgree, More, NEW t, IkeEvent(t), t # "IKEDeleteRequest", SaQuiet,
           UNCHANGED Tables, UNCHANGED <<ranUe, amf, ngapEvt, procUp>>
    PROVE  More'
  <1>1. procUp' /\ ikeEvt[1].type = t BY Zenon, IkeTaken DEF IkeEvent
  <1>2. IkeMoves(1, QuietIke) /\ NgapMoves(0, QuietNgap) BY Zenon, IkeTake, NgapSame
  <1>3. ~ IkeIs(1, "IKEDeleteRequest") BY Zenon, <1>1 DEF IkeIs
  <1>4. AmfQuiet /\ RanQuiet /\ ExitOnlyAfterNasConnection'
    BY Zenon, <1>1, AmfSame, RanSame, Running
  <1> QED BY <1>2, <1>3, <1>4, QuietStep

\* They keep the invariant.
LEMMA QuietIkeEventMore ==
    ASSUME TableInv, TypeOK', More,
           HandleSendEAP5GFailureMsg \/ HandleSendEAPNASMsg \/ HandleIKEContextUpdate
    PROVE  More'
  <1>a. TypeOK /\ MapsAgree BY Zenon DEF TableInv
  <1>1. CASE HandleSendEAP5GFailureMsg
    <2>1. /\ IkeEvent("SendEAP5GFailureMsg") /\ sa' = sa
          /\ UNCHANGED Tables /\ UNCHANGED <<ranUe, amf, ngapEvt, procUp>>
      BY Zenon, <1>1 DEF HandleSendEAP5GFailureMsg, saVars, ranVars, upVars, Tables
    <2>2. SaQuiet BY Zenon, <2>1, SaSame
    <2> QED BY Zenon, <1>a, <2>1, <2>2, QuietIkeEvent
  <1>2. CASE HandleSendEAPNASMsg
    <2>s. PICK s : s = Head(ikeEvt).spi BY Zenon
    <2>1. /\ IkeEvent("SendEAPNASMsg")
          /\ sa' = [sa EXCEPT ![s].LastEAPIdentifier = NextEAPIdentifier(s)]
          /\ UNCHANGED Tables /\ UNCHANGED <<ranUe, amf, ngapEvt, procUp>>
      BY Zenon, <1>2, <2>s DEF HandleSendEAPNASMsg, ranVars, upVars, Tables
    <2>2. s \in Spi BY Zenon, <1>a, <2>1, <2>s, IkeTaken
    <2>3. SaQuiet
      <3> DEFINE r == [sa[s] EXCEPT !.LastEAPIdentifier = NextEAPIdentifier(s)]
      <3>1. sa[s] \in SecurityAssociation BY Zenon, <1>a, <2>2, SaType
      <3>2. /\ r.State = sa[s].State /\ r.childAsked = sa[s].childAsked
            /\ r.IkeUE = sa[s].IkeUE /\ r.Kn3iwf = sa[s].Kn3iwf
            /\ r.IPSecInnerIP = sa[s].IPSecInnerIP
        BY Zenon, <3>1 DEF SecurityAssociation
      <3>3. sa' = [sa EXCEPT ![s] = r] BY Zenon, <2>1
      <3> HIDE DEF r
      <3> QED BY Zenon, <1>a, <2>2, <3>2, <3>3, SaSet
    <2> QED BY Zenon, <1>a, <2>1, <2>3, QuietIkeEvent
  <1>3. CASE HandleIKEContextUpdate
    <2>s. PICK s : s = Head(ikeEvt).spi BY Zenon
    <2>1. /\ IkeEvent("IKEContextUpdate")
          /\ sa' = sa \/ sa' = [sa EXCEPT ![s].Kn3iwf = TRUE]
          /\ UNCHANGED Tables /\ UNCHANGED <<ranUe, amf, ngapEvt, procUp>>
      BY Zenon, <1>3, <2>s DEF HandleIKEContextUpdate, ranVars, upVars, Tables
    <2>2. s \in Spi BY Zenon, <1>a, <2>1, <2>s, IkeTaken
    <2>3. CASE sa' = [sa EXCEPT ![s].Kn3iwf = TRUE]
      <3> DEFINE r == [sa[s] EXCEPT !.Kn3iwf = TRUE]
      <3>1. sa[s] \in SecurityAssociation BY Zenon, <1>a, <2>2, SaType
      <3>2. /\ r.State = sa[s].State /\ r.childAsked = sa[s].childAsked
            /\ r.IkeUE = sa[s].IkeUE /\ r.Kn3iwf /\ r.IPSecInnerIP = sa[s].IPSecInnerIP
        BY Zenon, <3>1 DEF SecurityAssociation
      <3>3. sa' = [sa EXCEPT ![s] = r] BY Zenon, <2>3
      <3> HIDE DEF r
      <3>4. SaQuiet BY Zenon, <1>a, <2>2, <3>2, <3>3, SaSet
      <3> QED BY Zenon, <1>a, <2>1, <3>4, QuietIkeEvent
    <2>4. CASE sa' = sa
      <3>1. SaQuiet BY Zenon, <2>4, SaSame
      <3> QED BY <1>a, <2>1, <3>1, QuietIkeEvent
    <2> QED BY Zenon, <2>1, <2>3, <2>4
  <1> QED BY Zenon, <1>1, <1>2, <1>3

\* A new association is for a SPI that nothing refers to.
LEMMA SaInitMore ==
    ASSUME TableInv, TypeOK', More, NEW s \in Spi, HandleIKESAINIT(s)
    PROVE  More'
  <1>a. TypeOK /\ MapsAgree /\ RequestIds /\ IkeUeFirst BY Zenon DEF TableInv
  <1>b. sa[s] = NewSa BY Zenon, <1>a DEF HandleIKESAINIT, RequestIds
  <1>1. /\ sa' = sa /\ IKESA' = IKESA \cup {s} /\ procUp'
        /\ UNCHANGED <<IKEUePool, IKESPIToNGAPId, NGAPIdToIKESPI, RANUePool, ranUe, ikeEvt,
                       ngapEvt, ikeUp, amf>>
    <2>1. sa' = [sa EXCEPT ![s] = sa[s]] BY Zenon, <1>b DEF HandleIKESAINIT
    <2>2. sa' = sa BY Zenon, <1>a, <2>1, SaType
    <2> QED BY Zenon, <2>2 DEF HandleIKESAINIT, ranVars, evtVars, upVars
  <1>2. IkeMoves(0, {}) /\ NgapMoves(0, {}) BY Zenon, <1>a, <1>1, IkeSame, NgapSame
  <1>3. SaQuiet /\ AmfQuiet /\ RanQuiet /\ ExitOnlyAfterNasConnection'
    BY Zenon, <1>1, SaSame, AmfSame, RanSame, Running
  <1>n. \A k \in Ngap' : ~ (Len(ngapEvt) < k + 0)
    <2>1. Len(ngapEvt) \in Nat BY Zenon, <1>a, Basics
    <2> QED BY ONLY <1>1, <2>1 DEF Ngap
  <1>4. KeyInv'
    <2>1. KeyBeforeAuth'
      <3>1. sa[s].State = 0 BY ONLY <1>b DEF NewSa, PreSignalling
      <3>2. \A u \in IKESA' : u \in IKESA \/ u = s BY Zenon, <1>1
      <3>3. KeyBeforeAuth BY Zenon DEF More, KeyInv
      <3>4. sa'[s].State = 0 /\ sa' = sa BY Zenon, <1>1, <3>1
      <3> QED BY ONLY <3>2, <3>3, <3>4
          DEF KeyBeforeAuth, PostSignalling, EndSignalling, HandleCreateChildSA
    <2>2. \A u \in Spi : sa[u].State < PostSignalling => sa'[u].State < PostSignalling
      BY Zenon, <1>1
    <2>3. /\ \A j \in RanId : NGAPIdToIKESPI'[j] \in {None, NGAPIdToIKESPI[j]}
          /\ \A j \in RanId : amf'[j].phase \in {"none", "ue"} => amf'[j].phase = amf[j].phase
          /\ \A j \in RanId : amf[j].phase = "none" => amf'[j].phase = "none"
      BY Zenon, <1>1
    <2> QED BY Zenon, <1>a, <1>2, <2>1, <2>2, <2>3, KeyFrame DEF More
  <1>5. NasInv'
    <2>1. NasEvents(0, {}) BY <1>n DEF NasEvents
    <2>2. \A u \in Spi : IKESPIToNGAPId'[u] \in {None, IKESPIToNGAPId[u]} BY Zenon, <1>1
    <2>3. SignalledSame BY Zenon, <1>a, <1>3, SignalledKept
    <2> QED BY Zenon, <1>a, <1>1, <1>2, <1>3, <2>1, <2>2, <2>3, NasQuiet DEF More
  <1>6. ExitInv'
    <2>1. AskedOnce' BY Zenon, <1>a, <1>1, <1>2, <1>3, AskedQuiet DEF More, ExitInv
    <2>2. NasAfterChildSa' BY Zenon, <1>a, <1>1, <1>2, NasAfterQuiet DEF More, ExitInv
    <2> QED BY Zenon, <1>3, <2>1, <2>2 DEF ExitInv
  <1>7. ASSUME ReleaseInv PROVE ReleaseInv'
    <2>1. ReleaseEvents(0, 0)
      <3>1. IKEUePool \subseteq Spi /\ RANUePool \subseteq RanId BY Zenon, <1>a DEF TypeOK
      <3>2. \A u : u \notin IKESA' => u \notin IKESA BY Zenon, <1>1
      <3>3. 0 # 1 OBVIOUS
      <3> QED BY Zenon, <1>1, <3>1, <3>2, <3>3 DEF ReleaseEvents
    <2>2. ReleaseTables(0)
      <3>1. \A i \in RanId : NGAPIdToIKESPI[i] # s
        <4>1. ~ sa[s].IkeUE BY ONLY <1>b DEF NewSa
        <4> QED BY Zenon, <1>a, <4>1, NoneNotSpi DEF IkeUeFirst
      <3>2. \A i \in RanId : NGAPIdToIKESPI'[i] \in IKESA' =>
              IKESPIToNGAPId'[NGAPIdToIKESPI'[i]] = i
        BY Zenon, <1>1, <1>7, <3>1 DEF ReleaseInv
      <3>3. \A i \in RanId : amf'[i].phase \in {"ue", "ics", "ready", "pdu"} => i \in RANUePool'
        BY Zenon, <1>1, <1>7 DEF ReleaseInv
      <3> QED BY Zenon, <1>1, <1>n, <3>2, <3>3 DEF ReleaseTables
    <2> QED BY Zenon, <1>a, <1>2, <1>7, <2>1, <2>2, ReleaseFrame
  <1> QED BY Zenon, <1>4, <1>5, <1>6, <1>7 DEF More

\* A RAN UE's identifier in IKESPIToNGAPId leads back to the association, if anywhere.
LEMMA MappedBack ==
    ASSUME TypeOK, MapsAgree, NEW s \in Spi, NEW i \in RanId, IKESPIToNGAPId[s] = i
    PROVE  NGAPIdToIKESPI[i] # None => NGAPIdToIKESPI[i] = s
  BY Zenon DEF MapsAgree

\* Another NGAP context is asked for once the UE was asked for a child SA.
LEMMA CreateChildSaMore ==
    ASSUME TableInv, TypeOK', More, NEW s \in Spi, HandleCREATECHILDSA(s)
    PROVE  More'
  <1> DEFINE i == IKESPIToNGAPId[s]
             e == NgapE("GetNGAPContext", i)
             B == {"GetNGAPContext"}
  <1>a. TypeOK /\ MapsAgree BY Zenon DEF TableInv
  <1>1. /\ sa' = sa /\ procUp' /\ UNCHANGED Tables /\ UNCHANGED <<ranUe, ikeEvt, amf>>
        /\ sa[s].childAsked /\ i # None /\ ngapEvt' = Append(ngapEvt, e)
    BY Zenon DEF HandleCREATECHILDSA, saVars, ranVars, upVars, Tables, SendNgapEvt
  <1>b. i \in RanId BY Zenon, <1>a, <1>1, Basics
  <1>c. e \in NgapEvt /\ e.type \in B /\ e.type = "GetNGAPContext" /\ e.id = i
    BY Zenon, <1>b, EventTypes DEF NgapE, NgapEvtType
  <1>d. NGAPIdToIKESPI[i] # None => NGAPIdToIKESPI[i] = s BY Zenon, <1>a, <1>b, MappedBack
  <1>0. UNCHANGED <<IKESA, IKESPIToNGAPId, NGAPIdToIKESPI, RANUePool>> BY Zenon, <1>1 DEF Tables
  <1> HIDE DEF i, e, B
  <1>2. /\ NgapMoves(0, B)
        /\ \A k \in Ngap' : (k \in Ngap /\ ngapEvt'[k] = ngapEvt[k]) \/ ngapEvt'[k] = e
    BY Zenon, <1>a, <1>1, <1>c, NgapAdd
  <1>3. IkeMoves(0, {}) BY Zenon, <1>a, <1>1, IkeSame
  <1>4. SaQuiet /\ AmfQuiet /\ RanQuiet /\ ExitOnlyAfterNasConnection'
    BY Zenon, <1>1, SaSame, AmfSame, RanSame, Running
  <1>n. \A k \in Ngap' : Len(ngapEvt) < k + 0 => ngapEvt'[k] = e
    <2>1. Len(ngapEvt) \in Nat BY Zenon, <1>a, Basics
    <2>2. \A k \in Ngap' : Len(ngapEvt) < k + 0 => k \notin Ngap BY ONLY <2>1 DEF Ngap
    <2> QED BY Zenon, <1>2, <2>2
  <1>5. KeyInv'
    <2>1. "SendInitialUEMessage" \notin B /\ IKESA' \subseteq IKESA BY Zenon, <1>0 DEF B
    <2> QED BY Zenon, <1>a, <1>0, <1>2, <1>3, <1>4, <2>1, KeyQuiet DEF More
  <1>6. NasInv'
    <2>1. \A k \in Ngap' : ~ (Len(ngapEvt) < k + 0 /\
                              NgapIs(k, "SendPDUSessionResourceSetupResponse")')
      BY Zenon, <1>c, <1>n DEF NgapIs
    <2>2. NasEvents(0, {}) BY <2>1 DEF NasEvents
    <2>3. \A u \in Spi : IKESPIToNGAPId'[u] \in {None, IKESPIToNGAPId[u]} BY Zenon, <1>0
    <2>4. SignalledSame BY Zenon, <1>a, <1>4, SignalledKept
    <2> QED BY Zenon, <1>a, <1>0, <1>2, <1>3, <1>4, <2>2, <2>3, <2>4, NasQuiet DEF More
  <1>7. ExitInv'
    <2>1. ASSUME NEW u \in Spi, ~ sa'[u].childAsked PROVE AskedOnceAt(u)'
      <3>0. AskedOnceAt(u) /\ ~ sa[u].childAsked BY Zenon, <1>1, <2>1 DEF More, ExitInv, AskedOnce
      <3>1. \A k \in Ngap' : Asking(k, u)' => k + 0 \in Ngap /\ Asking(k + 0, u)
        <4>1. \A k \in Ngap' : k + 0 = k BY ONLY TRUE DEF Ngap
        <4>2. u # s BY Zenon, <1>1, <3>0
        <4>3. ASSUME NEW k \in Ngap', Asking(k, u)' PROVE k \in Ngap /\ Asking(k, u)
          <5>1. NGAPIdToIKESPI[ngapEvt'[k].id] = u BY Zenon, <1>0, <4>3 DEF Asking
          <5>2. ngapEvt'[k] # e BY Zenon, <1>c, <1>d, <4>2, <5>1, NoneNotSpi
          <5>3. k \in Ngap /\ ngapEvt'[k] = ngapEvt[k] BY Zenon, <1>2, <5>2
          <5> QED BY Zenon, <4>3, <5>1, <5>3 DEF Asking, NgapIs
        <4> QED BY Zenon, <4>1, <4>3
      <3>2. \A k \in Ike' : Answering(k, u)' => k + 0 \in Ike /\ Answering(k + 0, u)
        <4>1. \A k \in Ike' : k + 0 = k BY ONLY TRUE DEF Ike
        <4> QED BY Zenon, <1>1, <4>1 DEF Answering, IkeIs, Ike
      <3> QED BY Zenon, <1>a, <1>1, <3>0, <3>1, <3>2, AskedFrame
    <2>2. AskedOnce' BY Zenon, <2>1 DEF AskedOnce
    <2>3. "SendNASMsg" \notin B /\ (\A u \in Spi : sa[u].childAsked => sa'[u].childAsked)
      BY Zenon, <1>1 DEF B
    <2>4. NasAfterChildSa' BY Zenon, <1>a, <1>0, <1>2, <2>3, NasAfterQuiet DEF More, ExitInv
    <2> QED BY Zenon, <1>4, <2>2, <2>4 DEF ExitInv
  <1>8. ASSUME ReleaseInv PROVE ReleaseInv'
    <2>1. "SendUEContextRelease" \notin B BY Zenon DEF B
    <2> QED BY <1>a, <1>1, <1>2, <1>3, <1>4, <1>8, <2>1, ReleaseQuiet
  <1> QED BY Zenon, <1>5, <1>6, <1>7, <1>8 DEF More

\* Associations go, and with them their RAN-UE-NGAP-IDs.
IkeGoes ==
    /\ SaQuiet /\ IKESA' \subseteq IKESA /\ procUp'
    /\ \A u \in Spi : IKESPIToNGAPId'[u] \in {None, IKESPIToNGAPId[u]}
    /\ \A u \in IKESA' : IKESPIToNGAPId'[u] = IKESPIToNGAPId[u]
    /\ UNCHANGED <<NGAPIdToIKESPI, RANUePool, ranUe, amf>>

\* A step of the IKE loop that removes an association keeps the invariant.
LEMMA GoesStep ==
    ASSUME TypeOK, TypeOK', MapsAgree, More, IkeGoes, NEW d \in {0, 1}, IkeMoves(d, {}),
           NgapMoves(0, {"SendUEContextRelease"}), ~ RemoveMayFail => ReleaseInv'
    PROVE  More'
  <1> DEFINE B == {"SendUEContextRelease"}
  <1>1. /\ SaQuiet /\ IKESA' \subseteq IKESA /\ UNCHANGED <<NGAPIdToIKESPI, RANUePool>>
        /\ \A u \in Spi : IKESPIToNGAPId'[u] \in {None, IKESPIToNGAPId[u]}
        /\ \A u \in Spi : sa[u].childAsked => sa'[u].childAsked
    BY Zenon DEF IkeGoes, SaQuiet
  <1>2. AmfQuiet /\ RanQuiet /\ ExitOnlyAfterNasConnection'
    BY Zenon, AmfSame, RanSame, Running DEF IkeGoes
  <1>3. /\ NgapMoves(0, B) /\ "SendInitialUEMessage" \notin B /\ "GetNGAPContext" \notin B
        /\ "SendNASMsg" \notin B
    BY Zenon
  <1>4. \A k \in Ngap' : ~ (Len(ngapEvt) < k + 0 /\
                            NgapIs(k, "SendPDUSessionResourceSetupResponse")')
    <2>1. Len(ngapEvt) \in Nat BY Zenon, Basics
    <2>2. \A k \in Ngap' : Len(ngapEvt) < k + 0 => k + 0 \notin Ngap BY ONLY <2>1 DEF Ngap
    <2> QED BY Zenon, <1>3, <2>2 DEF NgapIs, NgapMoves
  <1> HIDE DEF B
  <1>5. KeyInv' BY Zenon, <1>1, <1>2, <1>3, KeyQuiet DEF More
  <1>6. NasInv'
    <2>1. NasEvents(0, {}) BY <1>4 DEF NasEvents
    <2>2. SignalledSame BY Zenon, <1>1, SignalledKept
    <2> QED BY Zenon, <1>1, <1>2, <1>3, <2>1, <2>2, NasQuiet DEF More
  <1>7. ExitInv'
    <2>1. AskedOnce' BY Zenon, <1>1, <1>3, AskedQuiet DEF More, ExitInv
    <2>2. NasAfterChildSa' BY Zenon, <1>1, <1>3, NasAfterQuiet DEF More, ExitInv
    <2> QED BY Zenon, <1>2, <2>1, <2>2 DEF ExitInv
  <1> QED BY Zenon, <1>5, <1>6, <1>7 DEF More

\* It keeps ReleaseInv when the RAN UE of the association is on its way to be released.
LEMMA ReleaseGoes ==
    ASSUME TypeOK, TypeOK', ReleaseInv, IkeGoes, NEW d \in {0, 1}, IkeMoves(d, {}),
           NEW B, NgapMoves(0, B),
           \A k \in Ngap' : Len(ngapEvt) < k + 0 /\ NgapIs(k, "SendUEContextRelease")' =>
             \A s \in Spi : IKESPIToNGAPId'[s] # ngapEvt'[k].id,
           ReleaseEvents(d, 0)
    PROVE  ReleaseInv'
  <1>1. \A i \in RanId : amf'[i].phase \in {"ue", "ics", "ready", "pdu"} => i \in RANUePool'
    BY Zenon DEF IkeGoes, ReleaseInv
  <1>2. \A i \in RanId : NGAPIdToIKESPI'[i] \in IKESA' => IKESPIToNGAPId'[NGAPIdToIKESPI'[i]] = i
    BY Zenon DEF IkeGoes, ReleaseInv
  <1>3. ReleaseTables(0) BY Zenon, <1>1, <1>2 DEF ReleaseTables, IkeGoes
  <1> QED BY Zenon, <1>3, ReleaseFrame

\* N3IWFIkeUe.Remove.
LEMMA RemoveQuiet ==
    ASSUME TypeOK, NEW s \in Spi, NEW ok, NEW id, RemoveIkeUe(s, ok, id),
           procUp', UNCHANGED <<NGAPIdToIKESPI, RANUePool, ranUe, amf>>
    PROVE  /\ IkeGoes /\ IKESA' = IKESA \ {s}
           /\ \A u \in Spi \ {s} : IKESPIToNGAPId'[u] = IKESPIToNGAPId[u]
           /\ ok => IKEUePool' = IKEUePool \ {s} /\ IKESPIToNGAPId'[s] = None
  <1>1. sa \in [Spi -> SecurityAssociation] BY Zenon, SaType
  <1>2. /\ IKESA' = IKESA \ {s} /\ \A u \in Spi \ {s} : sa'[u] = sa[u]
        /\ \A u \in Spi \ {s} : IKESPIToNGAPId'[u] = IKESPIToNGAPId[u]
        /\ IKESPIToNGAPId'[s] \in {IKESPIToNGAPId[s], None}
    BY Zenon, Removed
  <1>3. sa'[s].State = sa[s].State BY ZenonT(30), <1>1 DEF RemoveIkeUe, SecurityAssociation
  <1>4. sa'[s].childAsked = sa[s].childAsked
    BY ZenonT(30), <1>1 DEF RemoveIkeUe, SecurityAssociation
  <1>5. SaQuiet BY Zenon, <1>2, <1>3, <1>4 DEF SaQuiet
  <1>6. ok => IKEUePool' = IKEUePool \ {s} /\ IKESPIToNGAPId'[s] = None
    <2>1. IKESPIToNGAPId \in [Spi -> RanId \cup {None}] BY Zenon, MapType
    <2> QED BY Zenon, <2>1 DEF RemoveIkeUe
  <1>7. IKESA \subseteq Spi BY Zenon DEF TypeOK
  <1>8. /\ IKESA' \subseteq IKESA
        /\ \A u \in Spi : IKESPIToNGAPId'[u] \in {None, IKESPIToNGAPId[u]}
        /\ \A u \in IKESA' : IKESPIToNGAPId'[u] = IKESPIToNGAPId[u]
    BY Zenon, <1>2, <1>7
  <1> QED BY Zenon, <1>2, <1>5, <1>6, <1>8 DEF IkeGoes

\* A UE deletes its IKE SA: the NGAP loop is told.
LEMMA InformationalMore ==
    ASSUME TableInv, TypeOK', More, NEW m \in toN3iwf, HandleInformational(m)
    PROVE  More'
  <1>s. PICK s : s = m.spi BY Zenon
  <1>i. PICK i : i = IKESPIToNGAPId[s] BY Zenon
  <1> DEFINE e == NgapE("SendUEContextRelease", i)
             B == {"SendUEContextRelease"}
  <1>a. TypeOK /\ MapsAgree /\ s \in Spi BY Zenon, <1>s, Basics DEF TableInv
  <1>1. /\ procUp' /\ UNCHANGED <<NGAPIdToIKESPI, RANUePool, ranUe, amf, ikeEvt, ikeUp>>
        /\ i # None /\ s \in IKESA
    BY Zenon, <1>s, <1>i DEF HandleInformational, Dispatch, ranVars, upVars
  <1>2. PICK ok \in RemoveOutcome :
          /\ RemoveIkeUe(s, ok, IF ok THEN m.id + 1 ELSE m.id)
          /\ IF ok THEN ngapEvt' = Append(ngapEvt, e) ELSE ngapEvt' = ngapEvt
    BY Zenon, <1>s, <1>i DEF HandleInformational, SendNgapEvt
  <1>3. /\ IkeGoes /\ IKESA' = IKESA \ {s}
        /\ \A u \in Spi \ {s} : IKESPIToNGAPId'[u] = IKESPIToNGAPId[u]
        /\ ok => IKEUePool' = IKEUePool \ {s} /\ IKESPIToNGAPId'[s] = None
    <2>1. PICK id : RemoveIkeUe(s, ok, id) BY Zenon, <1>2
    <2> QED BY Zenon, <1>a, <1>1, <2>1, RemoveQuiet
  <1>b. i \in RanId BY Zenon, <1>a, <1>i, <1>1, Basics
  <1>c. e \in NgapEvt /\ e.type \in B /\ e.type = "SendUEContextRelease" /\ e.id = i
    BY Zenon, <1>b, EventTypes DEF NgapE, NgapEvtType
  <1> HIDE DEF e, B
  <1>4. IkeMoves(0, {}) BY Zenon, <1>a, <1>1, IkeSame
  <1>5. CASE ~ ok
    <2>1. NgapMoves(0, {"SendUEContextRelease"}) BY Zenon, <1>a, <1>2, <1>5, NgapSame
    <2>2. RemoveMayFail BY Zenon, <1>5 DEF RemoveOutcome
    <2> QED BY Zenon, <1>a, <1>3, <1>4, <2>1, <2>2, GoesStep
  <1>6. CASE ok
    <2>0. ngapEvt' = Append(ngapEvt, e) BY Zenon, <1>2, <1>6
    <2>n. PICK n : n = Len(ngapEvt) + 1 BY Zenon
    <2>1. /\ NgapMoves(0, B) /\ n \in Ngap' /\ ngapEvt'[n] = e
          /\ \A k \in Ngap' : (k \in Ngap /\ ngapEvt'[k] = ngapEvt[k]) \/ ngapEvt'[k] = e
      BY Zenon, <1>a, <1>c, <2>0, <2>n, NgapAdd
    <2>2. \A k \in Ngap' : Len(ngapEvt) < k + 0 => ngapEvt'[k] = e
      <3>1. Len(ngapEvt) \in Nat BY Zenon, <1>a, Basics
      <3>2. \A k \in Ngap' : Len(ngapEvt) < k + 0 => k \notin Ngap BY ONLY <3>1 DEF Ngap
      <3> QED BY Zenon, <2>1, <3>2
    <2>3. ASSUME ReleaseInv PROVE ReleaseInv'
      <3>1. \A u \in Spi : IKESPIToNGAPId'[u] # i
        <4>1. \A u \in Spi \ {s} : IKESPIToNGAPId[u] # i BY Zenon, <1>a, <1>1, <1>i DEF MapsAgree
        <4> QED BY Zenon, <1>1, <1>3, <1>6, <4>1
      <3>2. \A k \in Ngap' : Len(ngapEvt) < k + 0 /\ NgapIs(k, "SendUEContextRelease")' =>
              \A u \in Spi : IKESPIToNGAPId'[u] # ngapEvt'[k].id
        BY Zenon, <1>c, <2>2, <3>1
      <3>3. NgapPending("SendUEContextRelease", i)'
        BY Zenon, <1>c, <2>1 DEF NgapPending, Ngap
      <3>4. \A j \in RanId : NGAPIdToIKESPI[j] = s => j = i BY Zenon, <1>1, <1>i, <2>3 DEF ReleaseInv
      <3>5. ReleaseEvents(0, 0)
        <4>1. RANUePool \subseteq RanId /\ IKEUePool \subseteq Spi BY Zenon, <1>a DEF TypeOK
        <4>2. 0 # 1 OBVIOUS
        <4>3. ASSUME NEW u \in IKEUePool', NEW j \in RanId, IKESPIToNGAPId'[u] = j, amf'[j].phase = "rel"
              PROVE  u \in IKEUePool /\ IKESPIToNGAPId[u] = j /\ amf[j].phase = "rel"
          BY Zenon, <1>1, <1>3, <1>6, <4>1, <4>3
        <4>4. ASSUME NEW j \in RANUePool', NEW u \in Spi, NGAPIdToIKESPI'[j] = u, u \notin IKESA'
              PROVE  \/ /\ j \in RANUePool /\ NGAPIdToIKESPI[j] = u /\ u \notin IKESA
                        /\ amf[j].relReq => amf'[j].relReq
                     \/ NgapPending("SendUEContextRelease", j)'
          <5>1. CASE u = s
            <6>1. j = i BY Zenon, <1>1, <3>4, <4>1, <4>4, <5>1
            <6> QED BY Zenon, <3>3, <6>1
          <5>2. CASE u # s BY Zenon, <1>1, <1>3, <4>4, <5>2
          <5> QED BY Zenon, <5>1, <5>2
        <4> QED BY Zenon, <1>1, <4>2, <4>3, <4>4 DEF ReleaseEvents
      <3> QED BY Zenon, <1>a, <1>3, <1>4, <2>1, <2>3, <3>2, <3>5, ReleaseGoes
    <2>4. NgapMoves(0, {"SendUEContextRelease"}) BY Zenon, <2>1 DEF B
    <2> QED BY Zenon, <1>a, <1>3, <1>4, <2>3, <2>4, GoesStep DEF More
  <1> QED BY Zenon, <1>5, <1>6

\* The order to delete an association is carried out, or is for one that is gone.
LEMMA DeleteEventMore ==
    ASSUME TableInv, TypeOK', More, HandleIKEDeleteEvt
    PROVE  More'
  <1>s. PICK s : s = ikeEvt[1].spi BY Zenon
  <1>a. TypeOK /\ MapsAgree /\ DeleteComesLast BY Zenon DEF TableInv
  <1>b. IkeEvent("IKEDeleteRequest") BY Zenon DEF HandleIKEDeleteEvt
  <1>c. /\ 1 \in Ike /\ Head(ikeEvt).spi = s /\ ikeEvt[1].type = "IKEDeleteRequest" /\ s \in Spi
    BY Zenon, <1>a, <1>b, <1>s, IkeTaken
  <1>d. \A i \in RanId : NGAPIdToIKESPI[i] # s BY Zenon, <1>a, <1>c, <1>s DEF DeleteComesLast
  <1>1. /\ procUp' /\ UNCHANGED <<NGAPIdToIKESPI, RANUePool, ranUe, amf, ngapEvt>>
    BY Zenon, <1>b DEF HandleIKEDeleteEvt, IkeEvent, ranVars
  <1>2. IkeMoves(1, {}) /\ NgapMoves(0, {"SendUEContextRelease"}) BY Zenon, <1>a, <1>b, <1>1, IkeTake, NgapSame
  <1>n. \A k \in Ngap' : ~ (Len(ngapEvt) < k + 0)
    <2>1. Len(ngapEvt) \in Nat BY Zenon, <1>a, Basics
    <2> QED BY ONLY <1>1, <2>1 DEF Ngap
  <1>e. RANUePool \subseteq RanId /\ IKEUePool \subseteq Spi BY Zenon, <1>a DEF TypeOK
  <1>z. 0 # 1 OBVIOUS
  <1>3. CASE s \notin IKEUePool /\ UNCHANGED <<saVars, ikeUp>>
    <2>1. UNCHANGED <<IKESA, sa, IKEUePool, IKESPIToNGAPId, ikeUp>> BY Zenon, <1>3 DEF saVars
    <2>2. SaQuiet BY Zenon, <2>1, SaSame
    <2>3. IkeGoes BY Zenon, <1>1, <2>1, <2>2 DEF IkeGoes
    <2>4. ReleaseEvents(1, 0)
      <3>1. ASSUME NEW u \in IKEUePool', NEW j \in RanId, IKESPIToNGAPId'[u] = j, amf'[j].phase = "rel"
            PROVE  /\ u \in IKEUePool /\ IKESPIToNGAPId[u] = j /\ amf[j].phase = "rel"
                   /\ ~ (IkeIs(1, "IKEDeleteRequest") /\ ikeEvt[1].spi = u)
        BY Zenon, <1>1, <1>3, <1>s, <2>1, <3>1
      <3>2. ASSUME NEW j \in RANUePool', NEW u \in Spi, NGAPIdToIKESPI'[j] = u, u \notin IKESA'
            PROVE  /\ j \in RANUePool /\ NGAPIdToIKESPI[j] = u /\ u \notin IKESA
                   /\ amf[j].relReq => amf'[j].relReq
        BY Zenon, <1>1, <2>1, <3>2
      <3>3. ikeUp' => ikeUp BY Zenon, <2>1
      <3> QED BY ONLY <3>1, <3>2, <3>3 DEF ReleaseEvents
    <2>5. ASSUME ReleaseInv PROVE ReleaseInv'
      BY Zenon, <1>a, <1>2, <1>n, <2>3, <2>4, <2>5, ReleaseGoes
    <2> QED BY Zenon, <1>a, <1>2, <2>3, <2>5, GoesStep DEF More
  <1>4. CASE ikeUp' = FALSE /\ UNCHANGED saVars
    <2>1. UNCHANGED <<IKESA, sa, IKEUePool, IKESPIToNGAPId>> BY Zenon, <1>4 DEF saVars
    <2>2. SaQuiet BY Zenon, <2>1, SaSame
    <2>3. IkeGoes BY Zenon, <1>1, <2>1, <2>2 DEF IkeGoes
    <2>4. ReleaseEvents(1, 0) BY Zenon, <1>4 DEF ReleaseEvents
    <2>5. ASSUME ReleaseInv PROVE ReleaseInv'
      BY <1>a, <1>2, <1>n, <2>3, <2>4, <2>5, ReleaseGoes
    <2> QED BY <1>a, <1>2, <2>3, <2>5, GoesStep DEF More
  <1>5. CASE \E ok \in RemoveOutcome : /\ RemoveIkeUe(s, ok, sa[s].InitiatorMessageID)
                                       /\ UNCHANGED ikeUp
    <2>1. PICK ok \in RemoveOutcome : RemoveIkeUe(s, ok, sa[s].InitiatorMessageID) BY Zenon, <1>5
    <2>2. /\ IkeGoes /\ IKESA' = IKESA \ {s} /\ ikeUp' = ikeUp
          /\ \A u \in Spi \ {s} : IKESPIToNGAPId'[u] = IKESPIToNGAPId[u]
          /\ ok => IKEUePool' = IKEUePool \ {s} /\ IKESPIToNGAPId'[s] = None
      BY Zenon, <1>a, <1>c, <1>1, <1>5, <2>1, RemoveQuiet
    <2>3. ASSUME ~ RemoveMayFail, ReleaseInv PROVE ReleaseInv'
      <3>1. IKEUePool' = IKEUePool \ {s} /\ IKESPIToNGAPId'[s] = None
        BY Zenon, <2>1, <2>2, <2>3 DEF RemoveOutcome
      <3>2. ASSUME NEW u \in IKEUePool', NEW j \in RanId, IKESPIToNGAPId'[u] = j, amf'[j].phase = "rel"
            PROVE  /\ u \in IKEUePool /\ IKESPIToNGAPId[u] = j /\ amf[j].phase = "rel"
                   /\ ~ (IkeIs(1, "IKEDeleteRequest") /\ ikeEvt[1].spi = u)
        <4>1. u \in IKEUePool /\ u # s BY Zenon, <3>1, <3>2
        <4> QED BY Zenon, <1>1, <1>e, <1>s, <2>2, <3>2, <4>1
      <3>3. ASSUME NEW j \in RANUePool', NEW u \in Spi, NGAPIdToIKESPI'[j] = u, u \notin IKESA'
            PROVE  /\ j \in RANUePool /\ NGAPIdToIKESPI[j] = u /\ u \notin IKESA
                   /\ amf[j].relReq => amf'[j].relReq
        BY Zenon, <1>1, <1>d, <1>e, <2>2, <3>3
      <3>4. ikeUp' => ikeUp BY Zenon, <2>2
      <3>5. ReleaseEvents(1, 0) BY ONLY <3>2, <3>3, <3>4 DEF ReleaseEvents
      <3> QED BY Zenon, <1>a, <1>2, <1>n, <2>2, <2>3, <3>5, ReleaseGoes
    <2> QED BY Zenon, <1>a, <1>2, <2>2, <2>3, GoesStep DEF More
  <1> QED BY Zenon, <1>c, <1>3, <1>4, <1>5 DEF HandleIKEDeleteEvt

\* An IKE loop that dies takes its events with it.
LEMMA PanicMore ==
    ASSUME TableInv, TypeOK', More, IkeServerPanics
    PROVE  More'
  <1>a. TypeOK /\ MapsAgree BY Zenon DEF TableInv
  <1>1. /\ procUp' /\ ikeUp' = FALSE /\ ikeEvt' = <<>>
        /\ UNCHANGED <<IKESA, sa, IKESPIToNGAPId, NGAPIdToIKESPI, RANUePool, ranUe, amf, ngapEvt>>
    BY Zenon DEF IkeServerPanics, ranVars
  <1>2. IkeMoves(0, {})
    <2>1. \A k \in Ike' : FALSE BY ONLY <1>1 DEF Ike
    <2> QED BY Zenon, <1>1, <2>1 DEF IkeMoves
  <1>3. NgapMoves(0, {"SendUEContextRelease"}) BY Zenon, <1>a, <1>1, NgapSame
  <1>n. \A k \in Ngap' : ~ (Len(ngapEvt) < k + 0)
    <2>1. Len(ngapEvt) \in Nat BY Zenon, <1>a, Basics
    <2> QED BY ONLY <1>1, <2>1 DEF Ngap
  <1>4. SaQuiet BY Zenon, <1>1, SaSame
  <1>5. IkeGoes BY Zenon, <1>1, <1>4 DEF IkeGoes
  <1>6. ReleaseEvents(0, 0) BY Zenon, <1>1 DEF ReleaseEvents
  <1>7. ASSUME ReleaseInv PROVE ReleaseInv'
    BY Zenon, <1>a, <1>2, <1>3, <1>n, <1>5, <1>6, <1>7, ReleaseGoes
  <1> QED BY Zenon, <1>a, <1>2, <1>3, <1>5, <1>7, GoesStep DEF More

\* The IKE UE is made and the RAN UE, which nobody else has heard of, announced.
LEMMA IkeUeMadeMore ==
    ASSUME TableInv, TypeOK', More, HandleUnmarshalEAP5GDataResponse
    PROVE  More'
  <1>s. PICK s : s = ikeEvt[1].spi BY Zenon
  <1>i. PICK i : i = ikeEvt[1].id BY Zenon
  <1> DEFINE e == NgapE("SendInitialUEMessage", i)
             B == {"SendInitialUEMessage"}
  <1>a. /\ TypeOK /\ MapsAgree /\ FirstNas /\ IkeUeFirst /\ Unannounced
        /\ KeyBeforeAuth /\ AnnouncedOnce /\ AnnouncedFirst /\ OneSuccess
    BY Zenon DEF TableInv, More, KeyInv
  <1>b. IkeEvent("UnmarshalEAP5GDataResponse") BY Zenon DEF HandleUnmarshalEAP5GDataResponse
  <1>c. /\ 1 \in Ike /\ Head(ikeEvt) = ikeEvt[1] /\ ikeEvt[1].type = "UnmarshalEAP5GDataResponse"
        /\ s \in Spi /\ i \in RanId
    BY Zenon, <1>a, <1>b, <1>s, <1>i, IkeTaken
  <1>1. /\ procUp' /\ UNCHANGED <<IKESA, RANUePool, ranUe, amf, ikeUp>>
        /\ IKEUePool' = IKEUePool \cup {s}
        /\ sa' = [sa EXCEPT ![s].IkeUE = TRUE, ![s].Kn3iwf = FALSE, ![s].IPSecInnerIP = FALSE]
        /\ IKESPIToNGAPId' = [IKESPIToNGAPId EXCEPT ![s] = i]
        /\ NGAPIdToIKESPI' = [NGAPIdToIKESPI EXCEPT ![i] = s]
        /\ ngapEvt' = Append(ngapEvt, e)
    BY Zenon, <1>b, <1>c, <1>s, <1>i
       DEF HandleUnmarshalEAP5GDataResponse, IkeEvent, ranVars, upVars, SendNgapEvt
  <1>d. Created(1) /\ Answered(1) BY Zenon, <1>c DEF Created, Answered
  <1>e. s \in IKESA /\ ~ sa[s].IkeUE BY Zenon, <1>a, <1>c, <1>d, <1>s DEF FirstNas, Waiting
  <1>f. /\ i \in RANUePool /\ NGAPIdToIKESPI[i] = None /\ amf[i].phase = "none"
        /\ \A l \in Ngap : ngapEvt[l].type # "UnmarshalEAP5GData" => ngapEvt[l].id # i
    BY Zenon, <1>a, <1>c, <1>d, <1>i DEF Unannounced, KnownOnlyHere
  <1>g. e \in NgapEvt /\ e.type \in B /\ e.type = "SendInitialUEMessage" /\ e.id = i
    BY Zenon, <1>c, EventTypes DEF NgapE, NgapEvtType
  <1>h. /\ IKESPIToNGAPId'[s] = i /\ \A u \in Spi \ {s} : IKESPIToNGAPId'[u] = IKESPIToNGAPId[u]
        /\ NGAPIdToIKESPI'[i] = s
        /\ \A j \in RanId \ {i} : NGAPIdToIKESPI'[j] = NGAPIdToIKESPI[j]
    BY Zenon, <1>a, <1>c, <1>1, MapType
  <1>k. sa[s].State < PostSignalling
    <2>1. sa[s].State \in Nat BY Zenon, <1>a, <1>c, StateType
    <2> QED BY <1>a, <1>e, <2>1 DEF KeyBeforeAuth, PostSignalling
  <1> HIDE DEF e, B
  <1>2. IkeMoves(1, {}) BY Zenon, <1>a, <1>b, IkeTake
  <1>3. /\ NgapMoves(0, B)
        /\ \A k \in Ngap' : \/ k \in Ngap /\ ngapEvt'[k] = ngapEvt[k]
                            \/ k = Len(ngapEvt) + 1 /\ ngapEvt'[k] = e
    BY Zenon, <1>a, <1>g, <1>1, NgapAdd
  <1>n. \A k \in Ngap' : Len(ngapEvt) < k + 0 => ngapEvt'[k] = e
    <2>1. Len(ngapEvt) \in Nat BY Zenon, <1>a, Basics
    <2>2. \A k \in Ngap' : Len(ngapEvt) < k + 0 => k \notin Ngap BY ONLY <2>1 DEF Ngap
    <2> QED BY Zenon, <1>3, <2>2
  <1>4. SaQuiet
    <2>0. sa \in [Spi -> SecurityAssociation] BY Zenon, <1>a, SaType
    <2>1. \A u \in Spi \ {s} : sa'[u] = sa[u] BY Zenon, <1>1, <2>0
    <2>2. sa'[s].State = sa[s].State /\ sa'[s].childAsked = sa[s].childAsked
      <3>1. sa[s] \in SecurityAssociation BY Zenon, <1>c, <2>0
      <3> QED BY Zenon, <1>c, <1>1, <2>0, <3>1 DEF SecurityAssociation
    <2> QED BY Zenon, <1>k, <2>1, <2>2 DEF SaQuiet
  <1>u. Unheard(i)
    <2>1. \A k \in Ngap' : ngapEvt'[k].id = i =>
            ngapEvt'[k].type \in {"UnmarshalEAP5GData", "SendInitialUEMessage"}
      BY Zenon, <1>f, <1>g, <1>3
    <2> QED BY Zenon, <1>1, <1>f, <2>1 DEF Unheard
  <1>m. MapKeeps BY Zenon, <1>h, <1>u DEF MapKeeps
  <1>5. AmfQuiet /\ RanQuiet /\ ExitOnlyAfterNasConnection'
    BY Zenon, <1>1, AmfSame, RanSame, Running
  <1>p. PoolGrows BY Zenon, <1>1 DEF PoolGrows
  <1>6. KeyInv'
    <2>1. KeyBeforeAuth'
      <3>1. IKESA' \subseteq IKESA BY Zenon, <1>1
      <3> QED BY Zenon, <1>a, <1>4, <3>1, KeyKept DEF More
    <2>2. AnnouncedOnce'
      <3>1. ASSUME NEW k \in Ngap', NgapIs(k, "SendInitialUEMessage")'
            PROVE  /\ \/ k \in Ngap /\ ngapEvt'[k] = ngapEvt[k] /\ ngapEvt[k].id # i
                      \/ k = Len(ngapEvt) + 1 /\ ngapEvt'[k].id = i
                   /\ amf'[ngapEvt'[k].id].phase = "none"
        <4>1. CASE k \in Ngap /\ ngapEvt'[k] = ngapEvt[k]
          <5>1. NgapIs(k, "SendInitialUEMessage") /\ ngapEvt[k].type # "UnmarshalEAP5GData"
            BY Zenon, <3>1, <4>1 DEF NgapIs
          <5> QED BY Zenon, <1>a, <1>f, <1>1, <4>1, <5>1 DEF AnnouncedOnce
        <4>2. CASE k = Len(ngapEvt) + 1 /\ ngapEvt'[k] = e BY Zenon, <1>f, <1>g, <1>1, <4>2
        <4> QED BY Zenon, <1>3, <4>1, <4>2
      <3>2. ASSUME NEW k \in Ngap', NEW l \in Ngap', NgapIs(k, "SendInitialUEMessage")',
                   NgapIs(l, "SendInitialUEMessage")', ngapEvt'[k].id = ngapEvt'[l].id
            PROVE  k = l
        <4>1. CASE ngapEvt'[k].id = i BY Zenon, <3>1, <3>2, <4>1
        <4>2. CASE ngapEvt'[k].id # i
          <5>1. /\ k \in Ngap /\ ngapEvt'[k] = ngapEvt[k]
                /\ l \in Ngap /\ ngapEvt'[l] = ngapEvt[l]
            BY Zenon, <3>1, <3>2, <4>2
          <5> QED BY Zenon, <1>a, <3>2, <5>1 DEF AnnouncedOnce, NgapIs
        <4> QED BY Zenon, <4>1, <4>2
      <3> QED BY Zenon, <3>1, <3>2 DEF AnnouncedOnce
    <2>f. ASSUME NEW k \in Ngap', NEW l \in Ngap', NgapIs(k, "SendInitialUEMessage")',
                 NgapIs(l, "SendUEContextRelease")', ngapEvt'[k].id = ngapEvt'[l].id
          PROVE  k < l
      <3>1. ngapEvt'[l].id # i BY Zenon, <1>u, <2>f DEF Unheard, NgapIs
      <3>2. /\ k \in Ngap /\ ngapEvt'[k] = ngapEvt[k]
            /\ l \in Ngap /\ ngapEvt'[l] = ngapEvt[l]
        BY Zenon, <1>3, <1>g, <2>f, <3>1
      <3>3. NgapIs(k, "SendInitialUEMessage") /\ NgapIs(l, "SendUEContextRelease")
        BY Zenon, <2>f, <3>2 DEF NgapIs
      <3> QED BY Zenon, <1>a, <2>f, <3>2, <3>3 DEF AnnouncedFirst
    <2>3. OneSuccess'
      <3>0. Values' BY Zenon, ValuesNext
      <3>1. \A k \in Ike' : k + 1 \in Ike /\ ikeEvt'[k] = ikeEvt[k + 1] BY Zenon, <1>2 DEF IkeMoves
      <3>2. \A u \in Spi : sa[u].State < PostSignalling => sa'[u].State < PostSignalling
        BY Zenon, <1>4 DEF SaQuiet
      <3>3. \A k \in Ike : IkeIs(k, "SendEAPSuccessMsg") => ikeEvt[k].spi # s
        BY Zenon, <1>a, <1>e DEF IkeUeFirst, Answered, Created, IkeIs
      <3>4. \A j \in RanId : NGAPIdToIKESPI'[j] # None /\ amf'[j].phase \in {"none", "ue"} =>
              /\ sa'[NGAPIdToIKESPI'[j]].State < PostSignalling
              /\ \A k \in Ike : IkeIs(k, "SendEAPSuccessMsg") => ikeEvt[k].spi # NGAPIdToIKESPI'[j]
        <4>1. sa'[s].State < PostSignalling BY Zenon, <1>c, <1>k, <3>2
        <4>2. ASSUME NEW j \in RanId \ {i}, NGAPIdToIKESPI[j] # None, amf[j].phase \in {"none", "ue"}
              PROVE  /\ sa'[NGAPIdToIKESPI[j]].State < PostSignalling
                     /\ \A k \in Ike : IkeIs(k, "SendEAPSuccessMsg") => ikeEvt[k].spi # NGAPIdToIKESPI[j]
          <5>1. NGAPIdToIKESPI[j] \in Spi BY Zenon, <1>a, <4>2, Basics
          <5> QED BY Zenon, <1>a, <3>2, <4>2, <5>1 DEF OneSuccess
        <4> QED BY Zenon, <1>1, <1>h, <3>3, <4>1, <4>2
      <3>5. /\ \A k \in Ike' : IkeIs(k, "SendEAPSuccessMsg")' =>
                 IkeIs(k + 1, "SendEAPSuccessMsg") /\ ikeEvt'[k].spi = ikeEvt[k + 1].spi
            /\ \A k \in Ike' : ikeEvt'[k].spi \in Spi /\ k \in Nat
        BY Zenon, <3>0, <3>1 DEF IkeIs, Values
      <3>6. \A k, l \in Ike' : /\ IkeIs(k, "SendEAPSuccessMsg")' /\ IkeIs(l, "SendEAPSuccessMsg")'
                               /\ ikeEvt'[k].spi = ikeEvt'[l].spi
                               => k = l
        <4>1. \A k, l \in Ike' : /\ IkeIs(k, "SendEAPSuccessMsg")' /\ IkeIs(l, "SendEAPSuccessMsg")'
                                 /\ ikeEvt'[k].spi = ikeEvt'[l].spi
                                 => k + 1 = l + 1
          <5>1. \A k, l \in Ike : /\ IkeIs(k, "SendEAPSuccessMsg") /\ IkeIs(l, "SendEAPSuccessMsg")
                                  /\ ikeEvt[k].spi = ikeEvt[l].spi
                                  => k = l
            BY Zenon, <1>a DEF OneSuccess
          <5>2. ASSUME NEW k \in Ike', NEW l \in Ike', IkeIs(k, "SendEAPSuccessMsg")',
                       IkeIs(l, "SendEAPSuccessMsg")', ikeEvt'[k].spi = ikeEvt'[l].spi
                PROVE  k + 1 = l + 1
            <6>1. /\ k + 1 \in Ike /\ IkeIs(k + 1, "SendEAPSuccessMsg")
                  /\ l + 1 \in Ike /\ IkeIs(l + 1, "SendEAPSuccessMsg")
                  /\ ikeEvt[k + 1].spi = ikeEvt[l + 1].spi
              BY Zenon, <3>1, <3>5, <5>2
            <6> QED BY Zenon, <5>1, <6>1
          <5> QED BY Zenon, <5>2
        <4> QED BY ONLY <3>5, <4>1
      <3>7. \A k \in Ike' : IkeIs(k, "SendEAPSuccessMsg")' => sa'[ikeEvt'[k].spi].State < PostSignalling
        BY Zenon, <1>a, <3>1, <3>2, <3>5 DEF OneSuccess
      <3> QED BY Zenon, <3>1, <3>4, <3>5, <3>6, <3>7 DEF OneSuccess
    <2> QED BY Zenon, <2>1, <2>2, <2>3, <2>f DEF KeyInv, AnnouncedFirst
  <1>7. NasInv'
    <2>1. \A k \in Ngap' : ~ (Len(ngapEvt) < k + 0 /\
                              NgapIs(k, "SendPDUSessionResourceSetupResponse")')
      BY Zenon, <1>g, <1>n DEF NgapIs
    <2>2. NasEvents(0, {}) BY <2>1 DEF NasEvents
    <2>3. NasTables
      <3>1. \A u \in Spi : Signalled(u)' <=> Signalled(u)
        BY Zenon, <1>a, <1>4, SignalledKept DEF SignalledSame
      <3>2. ~ Signalled(s)
        <4>1. sa[s].State \in Nat BY Zenon, <1>a, <1>c, StateType
        <4> QED BY ONLY <1>k, <4>1 DEF Signalled, PostSignalling, EndSignalling
      <3>3. RANUePool' \cap RANUePool \subseteq RanId BY Zenon DEF TypeOK
      <3> QED BY Zenon, <1>1, <1>h, <1>m, <1>5, <3>1, <3>2, <3>3 DEF NasTables, AmfQuiet, RanQuiet
    <2> QED BY Zenon, <1>a, <1>2, <1>3, <1>p, <2>2, <2>3, NasFrame DEF More
  <1>8. ExitInv'
    <2>0. \A u \in Spi : sa'[u].childAsked = sa[u].childAsked BY Zenon, <1>4 DEF SaQuiet
    <2>1. \A u \in Spi : sa[u].State = EndSignalling => sa'[u].State = EndSignalling
      BY <1>a, <1>4, StateType DEF SaQuiet, PostSignalling, EndSignalling
    <2>2. AskedTables BY Zenon, <1>m, <2>0, <2>1 DEF AskedTables
    <2>3. "GetNGAPContext" \notin B BY Zenon DEF B
    <2>4. AskedOnce' BY Zenon, <1>a, <1>2, <1>3, <2>2, <2>3, AskedKeeps DEF More, ExitInv
    <2>5. \A k \in Ngap' : ~ (Len(ngapEvt) < k + 0 /\ NgapIs(k, "SendNASMsg")')
      BY Zenon, <1>g, <1>n DEF NgapIs
    <2>6. \A j \in RANUePool' : NGAPIdToIKESPI[j] # None => NGAPIdToIKESPI'[j] = NGAPIdToIKESPI[j]
      <3>1. RANUePool' \subseteq RanId BY Zenon DEF TypeOK
      <3> QED BY Zenon, <1>f, <1>h, <3>1
    <2>7. NasAfterChildSa' BY Zenon, <1>a, <1>3, <1>p, <2>0, <2>5, <2>6, NasAfterFrame DEF More, ExitInv
    <2> QED BY Zenon, <1>5, <2>4, <2>7 DEF ExitInv
  <1>9. ASSUME ReleaseInv PROVE ReleaseInv'
    <2>1. ReleaseEvents(1, 0)
      <3>1. ASSUME NEW u \in IKEUePool', NEW j \in RanId, IKESPIToNGAPId'[u] = j, amf'[j].phase = "rel"
            PROVE  /\ u \in IKEUePool /\ IKESPIToNGAPId[u] = j /\ amf[j].phase = "rel"
                   /\ ~ (IkeIs(1, "IKEDeleteRequest") /\ ikeEvt[1].spi = u)
        <4>1. u # s BY Zenon, <1>1, <1>f, <1>h, <3>1
        <4>2. u \in Spi BY Zenon, <3>1 DEF TypeOK
        <4> QED BY Zenon, <1>1, <1>h, <1>s, <3>1, <4>1, <4>2
      <3>2. ASSUME NEW j \in RANUePool', NEW u \in Spi, NGAPIdToIKESPI'[j] = u, u \notin IKESA'
            PROVE  /\ j \in RANUePool /\ NGAPIdToIKESPI[j] = u /\ u \notin IKESA
                   /\ amf[j].relReq => amf'[j].relReq
        <4>1. j # i
          <5>1. j = i => u = s BY Zenon, <1>h, <3>2
          <5>2. s \in IKESA' BY Zenon, <1>1, <1>e
          <5> QED BY ONLY Zenon, <3>2, <5>1, <5>2
        <4>2. j \in RanId BY Zenon, <3>2 DEF TypeOK
        <4> QED BY Zenon, <1>1, <1>h, <3>2, <4>1, <4>2
      <3>3. ikeUp' => ikeUp BY Zenon, <1>1
      <3> QED BY ONLY <3>1, <3>2, <3>3 DEF ReleaseEvents
    <2>2. ReleaseTables(0)
      <3>1. \A j \in RanId : amf'[j].phase \in {"ue", "ics", "ready", "pdu"} => j \in RANUePool'
        BY Zenon, <1>1, <1>9 DEF ReleaseInv
      <3>2. \A j \in RanId : NGAPIdToIKESPI'[j] \in IKESA' =>
              IKESPIToNGAPId'[NGAPIdToIKESPI'[j]] = j
        <4>1. \A j \in RanId : NGAPIdToIKESPI[j] # s
          BY Zenon, <1>a, <1>c, <1>e, NoneNotSpi DEF IkeUeFirst
        <4>2. IKESA \subseteq Spi BY Zenon, <1>a DEF TypeOK
        <4>3. ASSUME NEW j \in RanId \ {i}, NEW u \in IKESA, NGAPIdToIKESPI[j] = u
              PROVE  IKESPIToNGAPId'[u] = j
          <5>1. u # s /\ u \in Spi /\ IKESPIToNGAPId[u] = j
            BY Zenon, <1>9, <4>1, <4>2, <4>3 DEF ReleaseInv
          <5> QED BY Zenon, <1>h, <5>1
        <4> QED BY Zenon, <1>1, <1>h, <4>3
      <3>3. \A k \in Ngap' : ~ (Len(ngapEvt) < k + 0 /\ NgapIs(k, "SendUEContextRelease")')
        BY Zenon, <1>g, <1>n DEF NgapIs
      <3>4. \A k \in Ngap' : NgapIs(k, "SendUEContextRelease")' => i # ngapEvt'[k].id
        BY Zenon, <1>u DEF Unheard, NgapIs
      <3> QED BY Zenon, <1>h, <3>1, <3>2, <3>3, <3>4 DEF ReleaseTables
    <2> QED BY Zenon, <1>a, <1>2, <1>3, <1>9, <2>1, <2>2, ReleaseFrame
  <1> QED BY Zenon, <1>6, <1>7, <1>8, <1>9 DEF More

\* EAP-Success takes an association past the signalling, with the key; it is the only one
\* for the association, which the AMF has set up the context for.
LEMMA SuccessMore ==
    ASSUME TableInv, TypeOK', More, HandleSendEAPSuccessMsg
    PROVE  More'
  <1>s. PICK s : s = ikeEvt[1].spi BY Zenon
  <1> DEFINE q == [sa[s] EXCEPT !.Kn3iwf = TRUE, !.LastEAPIdentifier = NextEAPIdentifier(s)]
             r == [q EXCEPT !.State = @ + 1]
  <1>a. /\ TypeOK /\ MapsAgree /\ IkeUeFirst
        /\ KeyBeforeAuth /\ AnnouncedOnce /\ AnnouncedFirst /\ OneSuccess
    BY Zenon DEF TableInv, More, KeyInv
  <1>b. IkeEvent("SendEAPSuccessMsg") BY Zenon DEF HandleSendEAPSuccessMsg
  <1>c. /\ 1 \in Ike /\ Head(ikeEvt).spi = s /\ IkeIs(1, "SendEAPSuccessMsg") /\ s \in Spi
    BY Zenon, <1>a, <1>b, <1>s, IkeTaken DEF IkeIs
  <1>1. /\ UNCHANGED Tables /\ UNCHANGED <<ranUe, amf, ngapEvt, procUp>>
        /\ sa' = [sa EXCEPT ![s] = r] \/ sa' = [sa EXCEPT ![s] = q]
    BY Zenon, <1>c DEF HandleSendEAPSuccessMsg, ranVars, upVars, Tables
  <1>d. sa[s] \in SecurityAssociation BY Zenon, <1>a, <1>c, SaType
  <1>e. /\ q.State = sa[s].State /\ q.childAsked = sa[s].childAsked
        /\ q.IkeUE = sa[s].IkeUE /\ q.Kn3iwf /\ q.IPSecInnerIP = sa[s].IPSecInnerIP
    BY Zenon, <1>d DEF SecurityAssociation
  <1>f. /\ r.State = sa[s].State + 1 /\ r.childAsked = sa[s].childAsked
        /\ r.IkeUE = sa[s].IkeUE /\ r.Kn3iwf /\ r.IPSecInnerIP = sa[s].IPSecInnerIP
    BY Zenon, <1>d DEF SecurityAssociation
  <1>g. sa[s].IkeUE BY Zenon, <1>a, <1>c, <1>s DEF IkeUeFirst, Answered, Created, IkeIs
  <1>h. sa[s].State < PostSignalling /\ sa[s].State \in Nat
    BY Zenon, <1>a, <1>c, <1>s, StateType DEF OneSuccess
  <1> HIDE DEF q, r
  <1>2. CASE sa' = [sa EXCEPT ![s] = q]
    <2>1. SaQuiet BY Zenon, <1>a, <1>c, <1>e, <1>2, SaSet
    <2> QED BY Zenon, <1>a, <1>b, <1>1, <2>1, QuietIkeEvent
  <1>3. CASE sa' = [sa EXCEPT ![s] = r]
    <2>0. UNCHANGED <<IKESA, IKESPIToNGAPId, NGAPIdToIKESPI, RANUePool>> BY Zenon, <1>1 DEF Tables
    <2>1. IkeMoves(1, {}) /\ NgapMoves(0, {}) BY Zenon, <1>a, <1>b, <1>1, IkeTake, NgapSame
    <2>2. AmfQuiet /\ RanQuiet /\ ExitOnlyAfterNasConnection'
      BY Zenon, <1>b, <1>1, AmfSame, RanSame, Running DEF IkeEvent
    <2>3. sa'[s] = r /\ \A u \in Spi \ {s} : sa'[u] = sa[u] BY Zenon, <1>a, <1>c, <1>3, SaType
    <2>4. KeyInv'
      <3>1. KeyBeforeAuth'
        <4>1. /\ sa'[s].IkeUE /\ sa'[s].Kn3iwf /\ sa'[s].State = sa[s].State + 1
          BY Zenon, <1>f, <1>g, <2>3
        <4>2. IKESA' = IKESA /\ IKESA \subseteq Spi BY Zenon, <1>a, <2>0 DEF TypeOK
        <4>3. KeyBeforeAuth BY Zenon, <1>a
        <4>4. \A u \in Spi \ {s} : sa'[u] = sa[u] BY Zenon, <2>3
        <4> QED BY ONLY <1>h, <4>1, <4>2, <4>3, <4>4
            DEF KeyBeforeAuth, PostSignalling, EndSignalling, HandleCreateChildSA
      <3>2. AnnouncedOnce' /\ AnnouncedFirst'
        BY Zenon, <1>a, <1>1 DEF AnnouncedOnce, AnnouncedFirst, NgapIs, Ngap
      <3>3. OneSuccess'
        <4>0. Values' BY Zenon, ValuesNext
        <4>1. \A k \in Ike' : k + 1 \in Ike /\ ikeEvt'[k] = ikeEvt[k + 1] BY Zenon, <2>1 DEF IkeMoves
        <4>2. ASSUME NEW k \in Ike', IkeIs(k, "SendEAPSuccessMsg")'
              PROVE  /\ IkeIs(k + 1, "SendEAPSuccessMsg") /\ ikeEvt'[k].spi = ikeEvt[k + 1].spi
                     /\ ikeEvt'[k].spi # s /\ sa'[ikeEvt'[k].spi].State < PostSignalling
          <5>1. IkeIs(k + 1, "SendEAPSuccessMsg") /\ ikeEvt'[k].spi = ikeEvt[k + 1].spi
            BY Zenon, <4>1, <4>2 DEF IkeIs
          <5>2. k + 1 # 1 BY ONLY k \in Ike' DEF Ike
          <5>3. ikeEvt'[k].spi # s
            BY Zenon, <1>a, <1>c, <1>s, <4>1, <5>1, <5>2 DEF OneSuccess
          <5>4. ikeEvt'[k].spi \in Spi /\ sa[ikeEvt'[k].spi].State < PostSignalling
            BY Zenon, <1>a, <4>0, <4>1, <5>1 DEF OneSuccess, Values
          <5> QED BY Zenon, <2>3, <5>1, <5>3, <5>4
        <4>3. ASSUME NEW k \in Ike', NEW l \in Ike', IkeIs(k, "SendEAPSuccessMsg")',
                     IkeIs(l, "SendEAPSuccessMsg")', ikeEvt'[k].spi = ikeEvt'[l].spi
              PROVE  k = l
          <5>1. /\ k + 1 \in Ike /\ IkeIs(k + 1, "SendEAPSuccessMsg")
                /\ l + 1 \in Ike /\ IkeIs(l + 1, "SendEAPSuccessMsg")
                /\ ikeEvt[k + 1].spi = ikeEvt[l + 1].spi
            BY Zenon, <4>1, <4>2, <4>3
          <5>2. k + 1 = l + 1 BY Zenon, <1>a, <5>1 DEF OneSuccess
          <5>3. k \in Nat /\ l \in Nat BY Zenon, <4>0 DEF Values
          <5> QED BY ONLY <5>2, <5>3
        <4>4. ASSUME NEW j \in RanId, NGAPIdToIKESPI[j] # None, amf[j].phase \in {"none", "ue"}
              PROVE  /\ sa'[NGAPIdToIKESPI[j]].State < PostSignalling
                     /\ \A k \in Ike' : IkeIs(k, "SendEAPSuccessMsg")' => ikeEvt'[k].spi # NGAPIdToIKESPI[j]
          <5>1. /\ sa[NGAPIdToIKESPI[j]].State < PostSignalling
                /\ \A k \in Ike : IkeIs(k, "SendEAPSuccessMsg") => ikeEvt[k].spi # NGAPIdToIKESPI[j]
            BY Zenon, <1>a, <4>4 DEF OneSuccess
          <5>2. NGAPIdToIKESPI[j] \in Spi \ {s} BY Zenon, <1>a, <1>c, <1>s, <4>4, <5>1, Basics
          <5> QED BY Zenon, <2>3, <4>1, <4>2, <5>1, <5>2
        <4> QED BY Zenon, <1>1, <2>0, <4>2, <4>3, <4>4 DEF OneSuccess
      <3> QED BY Zenon, <3>1, <3>2, <3>3 DEF KeyInv
    <2>n. \A k \in Ngap' : ~ (Len(ngapEvt) < k + 0)
      <3>1. Len(ngapEvt) \in Nat BY Zenon, <1>a, Basics
      <3> QED BY ONLY <1>1, <3>1 DEF Ngap
    <2>s. sa'[s].State = sa[s].State + 1 BY Zenon, <1>f, <2>3
    <2>5. NasInv'
      <3>1. NasEvents(0, {}) BY <2>n DEF NasEvents
      <3>2. \A u \in Spi : IKESPIToNGAPId'[u] \in {None, IKESPIToNGAPId[u]} BY Zenon, <2>0
      <3>3. SignalledSame
        <4>1. ~ Signalled(s) /\ ~ Signalled(s)'
          BY ONLY <1>h, <2>s DEF Signalled, PostSignalling, EndSignalling
        <4> QED BY Zenon, <2>3, <4>1 DEF SignalledSame, Signalled
      <3> QED BY Zenon, <1>a, <2>0, <2>1, <2>2, <3>1, <3>2, <3>3, NasQuiet DEF More
    <2>6. ExitInv'
      <3>1. \A u \in Spi : sa'[u].childAsked = sa[u].childAsked BY Zenon, <1>f, <2>3
      <3>2. sa[s].State # EndSignalling BY ONLY <1>h DEF PostSignalling, EndSignalling
      <3>3. AskedTables BY Zenon, <2>0, <2>3, <3>1, <3>2 DEF AskedTables, MapKeeps
      <3>4. AskedOnce' BY Zenon, <1>a, <2>1, <3>3, AskedKeeps DEF More, ExitInv
      <3>5. NasAfterChildSa' BY Zenon, <1>a, <2>0, <2>1, <3>1, NasAfterQuiet DEF More, ExitInv
      <3> QED BY Zenon, <2>2, <3>4, <3>5 DEF ExitInv
    <2>7. ASSUME ReleaseInv PROVE ReleaseInv'
      <3>1. ~ IkeIs(1, "IKEDeleteRequest") BY Zenon, <1>c DEF IkeIs
      <3> QED BY <1>a, <1>1, <2>1, <2>2, <2>7, <3>1, ReleaseQuiet
    <2> QED BY Zenon, <2>4, <2>5, <2>6, <2>7 DEF More
  <1> QED BY Zenon, <1>1, <1>2, <1>3

\* What the IKE loop sends while it asks the UE of s for child SAs.
ChildNgap == {"SendNASMsg", "SendPDUSessionResourceSetupResponse"}

\* The events of the NGAP loop a request for a child SA may send.
ChildEvents(s) ==
    /\ NgapMoves(0, ChildNgap)
    /\ \A k \in Ngap' : Len(ngapEvt) < k + 0 =>
         /\ ngapEvt'[k].id = IKESPIToNGAPId[s] /\ ngapEvt'[k].type \in ChildNgap
         /\ NgapIs(k, "SendNASMsg")' => sa[s].childAsked

\* The association of s becomes r: it may leave EndSignalling, and be asked for a child SA.
ChildSa(s, r) ==
    /\ sa' = [sa EXCEPT ![s] = r]
    /\ r.IkeUE = sa[s].IkeUE /\ r.Kn3iwf = sa[s].Kn3iwf /\ r.IPSecInnerIP = sa[s].IPSecInnerIP
    /\ sa[s].childAsked => r.childAsked
    /\ \/ r.State = sa[s].State
       \/ sa[s].State = EndSignalling /\ r.State = HandleCreateChildSA /\ Answering(1, s)

\* A step that asks a UE for a child SA keeps the invariant.
LEMMA ChildStep ==
    ASSUME TypeOK, TypeOK', MapsAgree, More, NEW t, IkeEvent(t), t # "IKEDeleteRequest",
           NEW s \in Spi, Signalled(s), NEW r, ChildSa(s, r), ChildEvents(s), RanQuiet,
           UNCHANGED Tables, UNCHANGED <<amf, procUp>>
    PROVE  More'
  <1>0. UNCHANGED <<IKESA, IKESPIToNGAPId, NGAPIdToIKESPI, RANUePool>> BY Zenon DEF Tables
  <1>a. IkeMoves(1, {}) /\ NgapMoves(0, ChildNgap) /\ 1 \in Ike /\ ikeEvt[1].type = t
    BY Zenon, IkeTake, IkeTaken DEF ChildEvents
  <1>b. AmfQuiet /\ ExitOnlyAfterNasConnection' BY Zenon, AmfSame, Running DEF IkeEvent
  <1>c. sa'[s] = r /\ \A u \in Spi \ {s} : sa'[u] = sa[u] BY Zenon, SaType DEF ChildSa
  <1>d. /\ sa'[s].IkeUE = sa[s].IkeUE /\ sa'[s].Kn3iwf = sa[s].Kn3iwf
        /\ sa'[s].IPSecInnerIP = sa[s].IPSecInnerIP
        /\ sa[s].childAsked => sa'[s].childAsked
        /\ \/ sa'[s].State = sa[s].State
           \/ sa[s].State = EndSignalling /\ sa'[s].State = HandleCreateChildSA
    BY Zenon, <1>c DEF ChildSa
  <1>e. /\ "SendEAPSuccessMsg" \notin {} /\ "SendInitialUEMessage" \notin ChildNgap
        /\ "GetNGAPContext" \notin ChildNgap /\ "SendUEContextRelease" \notin ChildNgap
    BY Zenon DEF ChildNgap
  <1>t. sa[s].State \in Nat /\ sa'[s].State \in Nat BY Zenon, StateType
  <1>f. sa[s].State >= EndSignalling BY Zenon DEF Signalled
  <1>1. KeyInv'
    <2>1. KeyBeforeAuth'
      <3>1. KeyBeforeAuth /\ IKESA \subseteq Spi BY Zenon DEF More, KeyInv, TypeOK
      <3> QED BY ONLY <1>0, <1>c, <1>d, <1>f, <1>t, <3>1
          DEF KeyBeforeAuth, PostSignalling, EndSignalling, HandleCreateChildSA
    <2>2. \A u \in Spi : sa[u].State < PostSignalling => sa'[u].State < PostSignalling
      <3>1. ~ (sa[s].State < PostSignalling) BY ONLY <1>f, <1>t DEF PostSignalling, EndSignalling
      <3> QED BY Zenon, <1>c, <3>1
    <2>3. /\ \A j \in RanId : NGAPIdToIKESPI'[j] \in {None, NGAPIdToIKESPI[j]}
          /\ \A j \in RanId : amf'[j].phase \in {"none", "ue"} => amf'[j].phase = amf[j].phase
          /\ \A j \in RanId : amf[j].phase = "none" => amf'[j].phase = "none"
      BY Zenon, <1>0
    <2> QED BY Zenon, <1>a, <1>e, <2>1, <2>2, <2>3, KeyFrame DEF More
  <1>2. NasInv'
    <2>1. \A k \in Ngap' : Len(ngapEvt) < k + 0 =>
            \E u \in Spi : IKESPIToNGAPId[u] = ngapEvt'[k].id /\ Signalled(u)
      BY Zenon DEF ChildEvents
    <2>2. NasEvents(0, {}) BY ONLY <2>1 DEF NasEvents
    <2>3. SignalledSame
      <3>1. Signalled(s)' BY ONLY <1>d, <1>f, <1>t DEF Signalled, EndSignalling, HandleCreateChildSA
      <3> QED BY Zenon, <1>c, <3>1 DEF SignalledSame, Signalled
    <2>4. \A u \in Spi : IKESPIToNGAPId'[u] \in {None, IKESPIToNGAPId[u]} BY Zenon, <1>0
    <2> QED BY Zenon, <1>0, <1>a, <1>b, <2>2, <2>3, <2>4, NasQuiet DEF More
  <1>3. ExitInv'
    <2>c. \A u \in Spi : sa[u].childAsked => sa'[u].childAsked BY Zenon, <1>c, <1>d
    <2>n. ASSUME NEW u \in Spi, NEW k \in Ngap', Asking(k, u)' PROVE k + 0 \in Ngap /\ Asking(k + 0, u)
      <3>1. NGAPIdToIKESPI[ngapEvt'[k].id] = u /\ ngapEvt'[k].type = "GetNGAPContext"
        BY Zenon, <1>0, <2>n DEF Asking, NgapIs
      <3>2. k + 0 \in Ngap /\ ngapEvt'[k] = ngapEvt[k + 0] BY Zenon, <1>a, <1>e, <3>1 DEF NgapMoves
      <3> QED BY Zenon, <3>1, <3>2 DEF Asking, NgapIs
    <2>i. ASSUME NEW u \in Spi, NEW k \in Ike', Answering(k, u)' PROVE k + 1 \in Ike /\ Answering(k + 1, u)
      BY Zenon, <1>a, <2>i DEF IkeMoves, Answering, IkeIs
    <2>1. ASSUME NEW u \in Spi, ~ sa'[u].childAsked PROVE AskedOnceAt(u)'
      <3>0. AskedOnceAt(u) BY Zenon, <2>1, <2>c DEF More, ExitInv, AskedOnce
      <3>1. CASE sa'[u].State = sa[u].State
        <4>1. sa[u].State = EndSignalling => sa'[u].State = EndSignalling BY Zenon, <3>1
        <4> QED BY Zenon, <2>i, <2>n, <3>0, <4>1, AskedFrame
      <3>2. CASE sa'[u].State # sa[u].State
        <4>1. u = s /\ Answering(1, s) BY Zenon, <1>c, <3>2 DEF ChildSa
        <4>2. \A k \in Ngap' : ~ Asking(k, u)' BY Zenon, <1>a, <2>n, <3>0, <4>1 DEF AskedOnceAt
        <4>3. \A k \in Ike' : ~ Answering(k, u)'
          <5>1. \A k \in Ike' : k + 1 # 1 BY ONLY TRUE DEF Ike
          <5> QED BY Zenon, <1>a, <2>i, <3>0, <4>1, <5>1 DEF AskedOnceAt
        <4> QED BY Zenon, <4>2, <4>3 DEF AskedOnceAt
      <3> QED BY Zenon, <3>1, <3>2
    <2>2. AskedOnce' BY Zenon, <2>1 DEF AskedOnce
    <2>3. ASSUME NEW k \in Ngap', Len(ngapEvt) < k + 0, NgapIs(k, "SendNASMsg")',
                 ngapEvt'[k].id \in RANUePool'
          PROVE  \E u \in Spi : NGAPIdToIKESPI'[ngapEvt'[k].id] = u /\ sa'[u].childAsked
      <3>1. ngapEvt'[k].id = IKESPIToNGAPId[s] /\ sa'[s].childAsked
        BY Zenon, <1>d, <2>3 DEF ChildEvents
      <3>2. IKESPIToNGAPId[s] \in RANUePool BY Zenon, <1>0, <2>3, <3>1
      <3>3. NGAPIdToIKESPI[IKESPIToNGAPId[s]] = s BY Zenon, <3>2 DEF MapsAgree
      <3> QED BY Zenon, <1>0, <3>1, <3>3
    <2>4. PoolGrows BY Zenon, <1>0 DEF PoolGrows
    <2>5. \A j \in RANUePool' : NGAPIdToIKESPI[j] # None => NGAPIdToIKESPI'[j] = NGAPIdToIKESPI[j]
      BY Zenon, <1>0
    <2>6. NasAfterChildSa' BY Zenon, <1>a, <2>c, <2>3, <2>4, <2>5, NasAfterFrame DEF More, ExitInv
    <2> QED BY Zenon, <1>b, <2>2, <2>6 DEF ExitInv
  <1>4. ASSUME ReleaseInv PROVE ReleaseInv'
    <2>1. ~ IkeIs(1, "IKEDeleteRequest") BY Zenon, <1>a DEF IkeIs
    <2> QED BY <1>a, <1>b, <1>e, <1>4, <2>1, ReleaseQuiet
  <1> QED BY Zenon, <1>1, <1>2, <1>3, <1>4 DEF More

\* The events of CreatePDUSessionChildSA.
LEMMA ChildSends ==
    ASSUME TypeOK, NEW s \in Spi, NEW q,
           \/ q = ngapEvt
           \/ /\ sa[s].childAsked /\ IKESPIToNGAPId[s] # None
              /\ q = Append(ngapEvt, NgapE("SendNASMsg", IKESPIToNGAPId[s])),
           \/ ngapEvt' = q
           \/ /\ IKESPIToNGAPId[s] # None
              /\ ngapEvt' = Append(q, NgapE("SendPDUSessionResourceSetupResponse",
                                            IKESPIToNGAPId[s]))
    PROVE  ChildEvents(s)
  <1>n. PICK n : n = NgapE("SendNASMsg", IKESPIToNGAPId[s]) BY Zenon
  <1>p. PICK p : p = NgapE("SendPDUSessionResourceSetupResponse", IKESPIToNGAPId[s]) BY Zenon
  <1>1. /\ n.type = "SendNASMsg" /\ n.id = IKESPIToNGAPId[s]
        /\ p.type = "SendPDUSessionResourceSetupResponse" /\ p.id = IKESPIToNGAPId[s]
    BY ONLY Zenon, <1>n, <1>p DEF NgapE
  <1>2. n.type \in ChildNgap /\ p.type \in ChildNgap /\ p.type # "SendNASMsg"
    BY Zenon, <1>1 DEF ChildNgap
  <1>t. {"SendNASMsg", "SendPDUSessionResourceSetupResponse"} \subseteq NgapEvtType
    BY Zenon DEF NgapEvtType
  <1>3. IKESPIToNGAPId[s] # None => n \in NgapEvt /\ p \in NgapEvt
    <2>1. IKESPIToNGAPId[s] # None => IKESPIToNGAPId[s] \in RanId BY Zenon, MapType
    <2> QED BY Zenon, <1>n, <1>p, <1>t, <2>1, EventTypes
  <1>4. \A k \in Ngap : ~ (Len(ngapEvt) < k + 0)
    <2>1. Len(ngapEvt) \in Nat BY Zenon, EvtType, Basics
    <2> QED BY ONLY <2>1 DEF Ngap
  <1>5. CASE ngapEvt' = ngapEvt
    <2>1. NgapMoves(0, ChildNgap) /\ \A k \in Ngap' : k \in Ngap
      BY Zenon, <1>5, NgapSame DEF Ngap
    <2> QED BY Zenon, <1>4, <2>1 DEF ChildEvents
  <1>6. CASE /\ sa[s].childAsked /\ IKESPIToNGAPId[s] # None /\ ngapEvt' = Append(ngapEvt, n)
    <2>1. /\ NgapMoves(0, ChildNgap)
          /\ \A k \in Ngap' : k \in Ngap \/ ngapEvt'[k] = n
      BY Zenon, <1>2, <1>3, <1>6, NgapAdd
    <2> QED BY Zenon, <1>1, <1>2, <1>4, <1>6, <2>1 DEF ChildEvents
  <1>7. CASE IKESPIToNGAPId[s] # None /\ ngapEvt' = Append(ngapEvt, p)
    <2>1. /\ NgapMoves(0, ChildNgap)
          /\ \A k \in Ngap' : k \in Ngap \/ ngapEvt'[k] = p
      BY Zenon, <1>2, <1>3, <1>7, NgapAdd
    <2> QED BY Zenon, <1>1, <1>2, <1>4, <2>1 DEF ChildEvents, NgapIs
  <1>8. CASE /\ sa[s].childAsked /\ IKESPIToNGAPId[s] # None
             /\ ngapEvt' = Append(Append(ngapEvt, n), p)
    <2>1. /\ NgapMoves(0, ChildNgap)
          /\ \A k \in Ngap' : k \in Ngap \/ ngapEvt'[k] = n \/ ngapEvt'[k] = p
      BY Zenon, <1>2, <1>3, <1>8, NgapAddTwo
    <2> QED BY Zenon, <1>1, <1>2, <1>4, <1>8, <2>1 DEF ChildEvents
  <1> QED BY Zenon, <1>n, <1>p, <1>5, <1>6, <1>7, <1>8

\* CreatePDUSessionChildSA, called with the association's own values or, for the answer in
\* EndSignalling, with the next State.
LEMMA ChildRequest ==
    ASSUME TypeOK, TypeOK', MapsAgree, More, NEW t, IkeEvent(t), t # "IKEDeleteRequest",
           NEW s \in Spi, Signalled(s), NEW i \in RanId, NEW r \in SecurityAssociation,
           r.IkeUE = sa[s].IkeUE, r.Kn3iwf = sa[s].Kn3iwf, r.IPSecInnerIP = sa[s].IPSecInnerIP,
           r.childAsked = sa[s].childAsked,
           \/ r.State = sa[s].State
           \/ sa[s].State = EndSignalling /\ r.State = HandleCreateChildSA /\ Answering(1, s),
           NEW q,
           \/ q = ngapEvt
           \/ /\ sa[s].childAsked /\ IKESPIToNGAPId[s] # None
              /\ q = Append(ngapEvt, NgapE("SendNASMsg", IKESPIToNGAPId[s])),
           CreatePDUSessionChildSA(s, i, r, q),
           UNCHANGED Tables, UNCHANGED <<amf, procUp>>
    PROVE  More'
  <1> DEFINE c == [r EXCEPT !.childAsked = TRUE]
  <1>1. /\ c.IkeUE = r.IkeUE /\ c.Kn3iwf = r.Kn3iwf /\ c.IPSecInnerIP = r.IPSecInnerIP
        /\ c.State = r.State /\ c.childAsked
    BY Zenon DEF SecurityAssociation
  <1>2. /\ sa' = [sa EXCEPT ![s] = r] \/ sa' = [sa EXCEPT ![s] = c]
        /\ \/ ngapEvt' = q
           \/ /\ IKESPIToNGAPId[s] # None
              /\ ngapEvt' = Append(q, NgapE("SendPDUSessionResourceSetupResponse",
                                            IKESPIToNGAPId[s]))
        /\ ranUe' = ranUe \/ \E n : ranUe' = [ranUe EXCEPT ![i].Index = n]
    BY Zenon DEF CreatePDUSessionChildSA
  <1> HIDE DEF c
  <1>3. ChildEvents(s) BY Zenon, <1>2, ChildSends
  <1>4. RanQuiet
    <2>1. ASSUME NEW n, ranUe' = [ranUe EXCEPT ![i].Index = n] PROVE RanQuiet
      <3>1. ranUe \in [RanId -> RanUe] BY Zenon, RanUeType
      <3>2. ranUe[i] \in RanUe /\ ranUe'[i] = [ranUe[i] EXCEPT !.Index = n] BY Zenon, <2>1, <3>1
      <3>3. ranUe'[i].IsNASTCPConnEstablished = ranUe[i].IsNASTCPConnEstablished
        BY Zenon, <3>2 DEF RanUe
      <3>4. \A j \in RanId \ {i} : ranUe'[j] = ranUe[j] BY Zenon, <2>1, <3>1
      <3> QED BY Zenon, <3>3, <3>4 DEF RanQuiet
    <2> QED BY Zenon, <1>2, <2>1, RanSame
  <1>5. ChildSa(s, r) \/ ChildSa(s, c) BY Zenon, <1>1, <1>2 DEF ChildSa
  <1>6. CASE ChildSa(s, r) BY Zenon, <1>3, <1>4, <1>6, ChildStep
  <1>7. CASE ChildSa(s, c) BY Zenon, <1>3, <1>4, <1>7, ChildStep
  <1> QED BY Zenon, <1>5, <1>6, <1>7

\* A UE is asked for child SAs only after it left the signalling, by CreatePDUSession and by
\* the answer about its NGAP context.
LEMMA ChildMore ==
    ASSUME TableInv, TypeOK', More,
           HandleCreatePDUSession \/ HandleGetNGAPContextResponse
    PROVE  More'
  <1>s. PICK s : s = ikeEvt[1].spi BY Zenon
  <1>i. PICK i : i = ikeEvt[1].id BY Zenon
  <1>a. TypeOK /\ MapsAgree /\ NasInv /\ AskedOnce BY Zenon DEF TableInv, More, ExitInv
  <1>0. UNCHANGED Tables /\ UNCHANGED <<amf, procUp>>
    BY Zenon DEF HandleCreatePDUSession, HandleGetNGAPContextResponse, upVars, Tables
  <1>1. CASE HandleCreatePDUSession
    <2>1. IkeEvent("CreatePDUSession") BY Zenon, <1>1 DEF HandleCreatePDUSession
    <2>2. /\ 1 \in Ike /\ Head(ikeEvt).spi = s /\ Head(ikeEvt).id = i
          /\ IkeIs(1, "CreatePDUSession") /\ s \in Spi /\ i \in RanId
      BY Zenon, <1>a, <1>s, <1>i, <2>1, IkeTaken, IkeHead DEF IkeIs
    <2>3. Signalled(s) BY Zenon, <1>a, <1>s, <2>2 DEF NasInv
    <2>4. sa[s] \in SecurityAssociation BY Zenon, <1>a, <2>2, SaType
    <2>5. CreatePDUSessionChildSA(s, i, sa[s], ngapEvt) BY Zenon, <1>1, <2>2 DEF HandleCreatePDUSession
    <2> QED BY Zenon, <1>a, <1>0, <2>1, <2>2, <2>3, <2>4, <2>5, ChildRequest
  <1>2. CASE HandleGetNGAPContextResponse
    <2>1. IkeEvent("GetNGAPContextResponse") BY Zenon, <1>2 DEF HandleGetNGAPContextResponse
    <2>2. /\ 1 \in Ike /\ Head(ikeEvt).spi = s /\ Head(ikeEvt).id = i
          /\ Answering(1, s) /\ s \in Spi /\ i \in RanId
      BY Zenon, <1>a, <1>s, <1>i, <2>1, IkeTaken, IkeHead DEF IkeIs, Answering
    <2>4. sa[s] \in SecurityAssociation BY Zenon, <1>a, <2>2, SaType
    <2>5. ~ sa[s].childAsked => sa[s].State = EndSignalling
      BY Zenon, <1>a, <2>2 DEF AskedOnce, AskedOnceAt
    <2> DEFINE r == [sa[s] EXCEPT !.State = @ + 1, !.dpd = "spawned"]
    <2>6. \/ sa[s].State = EndSignalling /\ CreatePDUSessionChildSA(s, i, r, ngapEvt)
          \/ sa[s].State = HandleCreateChildSA /\ continueCreateChildSA(s, i)
          \/ UNCHANGED <<sa, ranUe, ngapEvt>>
      BY Zenon, <1>2, <2>2 DEF HandleGetNGAPContextResponse
    <2>7. /\ r.IkeUE = sa[s].IkeUE /\ r.Kn3iwf = sa[s].Kn3iwf
          /\ r.IPSecInnerIP = sa[s].IPSecInnerIP /\ r.childAsked = sa[s].childAsked
          /\ r.State = sa[s].State + 1
      BY Zenon, <2>4 DEF SecurityAssociation
    <2>8. r \in SecurityAssociation BY Zenon, <2>4, SaFlags
    <2> HIDE DEF r
    <2>9. CASE UNCHANGED <<sa, ranUe, ngapEvt>>
      <3>1. SaQuiet BY Zenon, <2>9, SaSame
      <3> QED BY Zenon, <1>a, <1>0, <2>1, <2>9, <3>1, QuietIkeEvent
    <2>10. CASE sa[s].State = EndSignalling /\ CreatePDUSessionChildSA(s, i, r, ngapEvt)
      <3>1. r.State = HandleCreateChildSA /\ Signalled(s)
        BY ONLY <2>7, <2>10 DEF Signalled, EndSignalling, HandleCreateChildSA
      <3> QED BY Zenon, <1>a, <1>0, <2>1, <2>2, <2>7, <2>8, <2>10, <3>1, ChildRequest
    <2>11. CASE sa[s].State = HandleCreateChildSA /\ continueCreateChildSA(s, i)
      <3>1. Signalled(s) /\ HandleCreateChildSA # EndSignalling
        BY ONLY <2>11 DEF Signalled, EndSignalling, HandleCreateChildSA
      <3>2. sa[s].childAsked BY Zenon, <2>5, <2>11, <3>1
      <3>q. PICK q : q = Append(ngapEvt, NgapE("SendNASMsg", IKESPIToNGAPId[s])) BY Zenon
      <3>3. \/ UNCHANGED <<sa, ranUe, ngapEvt>>
            \/ IKESPIToNGAPId[s] # None /\ CreatePDUSessionChildSA(s, i, sa[s], q)
        BY Zenon, <2>11, <3>q DEF continueCreateChildSA
      <3>4. ASSUME IKESPIToNGAPId[s] # None, CreatePDUSessionChildSA(s, i, sa[s], q) PROVE More'
        BY Zenon, <1>a, <1>0, <2>1, <2>2, <2>4, <3>1, <3>2, <3>q, <3>4, ChildRequest
      <3> QED BY Zenon, <2>9, <3>3, <3>4
    <2> QED BY Zenon, <2>6, <2>9, <2>10, <2>11
  <1> QED BY Zenon, <1>1, <1>2

=============================================================================
