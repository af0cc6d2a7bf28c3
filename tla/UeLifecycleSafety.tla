-------------------------- MODULE UeLifecycleSafety -------------------------
(***************************************************************************)
(* Type correctness of UeLifecycle, for any set of UEs and any bounds, and *)
(* TableInv: the message IDs, the maps and the pending events of both      *)
(* loops fit together in every state.  First the types; then the kinds of  *)
(* steps that neither make nor end an IKE UE, by what they do to the       *)
(* tables and to the channels, each of which keeps TableInv; then the      *)
(* handlers of both loops.                                                 *)
(***************************************************************************)
EXTENDS UeLifecycleInv, TLAPS

-----------------------------------------------------------------------------
(* Channels.                                                               *)

\* Receiving: what is left of a channel after its head was taken.
LEMMA TailIndex ==
    ASSUME NEW S, NEW q \in Seq(S), q # <<>>
    PROVE  /\ Head(q) \in S /\ Head(q) = q[1] /\ 1 \in 1..Len(q)
           /\ Tail(q) \in Seq(S) /\ Len(Tail(q)) = Len(q) - 1 /\ Len(q) \in Nat
           /\ \A k \in 1..Len(Tail(q)) : Tail(q)[k] = q[k + 1] /\ k + 1 \in 1..Len(q)
  OBVIOUS

\* Sending: a channel after an event was added.
LEMMA AppendIndex ==
    ASSUME NEW S, NEW q \in Seq(S), NEW e \in S
    PROVE  /\ Append(q, e) \in Seq(S) /\ Len(Append(q, e)) = Len(q) + 1
           /\ Len(q) \in Nat
           /\ Append(q, e)[Len(q) + 1] = e
           /\ \A k \in 1..Len(q) : Append(q, e)[k] = q[k]
  OBVIOUS

\* Sending two events in a row.
LEMMA AppendTwo ==
    ASSUME NEW S, NEW q \in Seq(S), NEW d \in S, NEW e \in S
    PROVE  q \o <<d, e>> = Append(Append(q, d), e)
  OBVIOUS

\* The events the handlers build are events.
LEMMA EventTypes ==
    /\ \A t \in IkeEvtType, s \in Spi, i \in RanId : IkeE(t, s, i) \in IkeEvt
    /\ \A t \in NgapEvtType, i \in RanId : NgapE(t, i) \in NgapEvt
  BY Zenon DEF IkeE, IkeEvt, NgapE, NgapEvt

-----------------------------------------------------------------------------
(* Types.                                                                  *)

\* The conjuncts of the type invariant, one by one.  Associations keep theirs.
LEMMA SaType == TypeOK => sa \in [Spi -> SecurityAssociation]
  BY Zenon DEF TypeOK

\* RAN UEs keep the types of their fields.
LEMMA RanUeType == TypeOK => ranUe \in [RanId -> RanUe]
  BY Zenon DEF TypeOK

\* So do the UEs,
LEMMA UeType == TypeOK => ue \in [Spi -> [phase: UePhase, id: Nat]]
  BY Zenon DEF TypeOK

\* the AMF,
LEMMA AmfType ==
    TypeOK => amf \in [RanId -> [phase: AmfPhase, down: 0..MaxDown, relReq: BOOLEAN]]
  BY Zenon DEF TypeOK

\* the IKE messages in the network,
LEMMA PacketType == TypeOK => toN3iwf \in SUBSET Request /\ toUe \in SUBSET ToUe
  BY Zenon DEF TypeOK

\* the events in both channels,
LEMMA EvtType == TypeOK => ikeEvt \in Seq(IkeEvt) /\ ngapEvt \in Seq(NgapEvt)
  BY Zenon DEF TypeOK

\* and the two maps between SPIs and RAN-UE-NGAP-IDs.
LEMMA MapType ==
    TypeOK => /\ IKESPIToNGAPId \in [Spi -> RanId \cup {None}]
              /\ NGAPIdToIKESPI \in [RanId -> Spi \cup {None}]
  BY Zenon DEF TypeOK

\* UeReceive, UeDelete and UeReleased keep the types.
LEMMA EnvironmentTypeOK == TypeOK /\ Environment => TypeOK'
  <1> SUFFICES ASSUME TypeOK, NEW s \in Spi, UeReceive(s) \/ UeDelete(s) \/ UeReleased(s)
               PROVE  TypeOK'
    BY Zenon DEF Environment
  <1>1. CASE UeReceive(s)
    <2>1. ASSUME NEW k \in {"identity", "nas", "stop", "auth"}, NEW eap \in 0..1,
                 UeSend(s, k, eap)
          PROVE  ue' \in [Spi -> [phase: UePhase, id: Nat]] /\ toN3iwf' \in SUBSET Request
      BY <2>1, UeType, PacketType, ConstantsAssumption DEF UeSend, Request
    <2>2. ASSUME NEW ph \in UePhase, UeBecomes(s, ph)
          PROVE  ue' \in [Spi -> [phase: UePhase, id: Nat]] /\ toN3iwf' \in SUBSET Request
      BY Zenon, <2>2, UeType, PacketType DEF UeBecomes
    <2>3. ue' \in [Spi -> [phase: UePhase, id: Nat]] /\ toN3iwf' \in SUBSET Request
      <3>1. PICK m \in toUe :
               \/ m.kind = "init" /\ UeSend(s, "identity", 0)
               \/ m.kind \in {"start", "nas"} /\ UeSend(s, "nas", m.eap)
               \/ m.kind = "nas" /\ UeSend(s, "stop", m.eap)
               \/ m.kind = "success" /\ UeSend(s, "auth", 0)
               \/ UeBecomes(s, "up") \/ UeBecomes(s, "gone")
        BY Zenon, <1>1 DEF UeReceive
      <3>2. m.eap \in 0..1 BY Zenon, PacketType DEF ToUe
      <3> QED BY <2>1, <2>2, <3>1, <3>2 DEF UePhase
    <2> QED BY Zenon, <1>1, <2>3 DEF TypeOK, UeReceive, saVars, ranVars, evtVars, upVars
  <1>2. CASE UeDelete(s)
    BY <1>2 DEF TypeOK, UeDelete, Request, UePhase, saVars, ranVars, evtVars, upVars
  <1>3. CASE UeReleased(s)
    BY ZenonT(60), <1>3 DEF TypeOK, UeReleased, UeBecomes, UePhase, saVars, ranVars, evtVars, upVars
  <1> QED BY Zenon, <1>1, <1>2, <1>3

\* The goroutines beside the two loops keep the types.
LEMMA GoroutineTypeOK == TypeOK /\ Goroutine => TypeOK'
  <1> SUFFICES ASSUME TypeOK, Goroutine PROVE TypeOK' BY Zenon
  <1>1. ASSUME NEW s \in Spi, StartDPD(s) PROVE TypeOK'
    <2>1. sa' \in [Spi -> SecurityAssociation]
      BY <1>1, SaType DEF StartDPD, SecurityAssociation, DpdState
    <2> QED BY Zenon, <1>1, <2>1 DEF TypeOK, StartDPD, ranVars, evtVars, upVars, netVars
  <1>2. ASSUME NEW s \in Spi, DPDTimeout(s) PROVE TypeOK'
    <2>1. ngapEvt' \in Seq(NgapEvt)
      BY <1>2, AppendIndex, EventTypes DEF TypeOK, DPDTimeout, SendNgapEvt, NgapEvtType
    <2>2. sa' \in [Spi -> SecurityAssociation]
      BY <1>2, SaType DEF DPDTimeout, SecurityAssociation, DpdState
    <2> QED BY Zenon, <1>2, <2>1, <2>2 DEF TypeOK, DPDTimeout, ranVars, upVars, netVars
  <1>3. ASSUME NEW s \in Spi, listenAndServe(s) PROVE TypeOK'
    <2>1. ngapEvt' \in Seq(NgapEvt)
      BY Zenon, <1>3, AppendIndex, EventTypes DEF TypeOK, listenAndServe, SendNgapEvt, NgapEvtType
    <2> DEFINE i == IKESPIToNGAPId[s]
               n == ranUe[i].conns + 1
    <2>2. i \in RanId /\ n \in 0..MaxConn
      <3>1. i \in RanId BY Zenon, <1>3 DEF TypeOK, listenAndServe
      <3>2. ranUe[i].conns \in 0..MaxConn BY ZenonT(30), <3>1, RanUeType DEF RanUe
      <3>3. ranUe[i].conns < MaxConn BY Zenon, <1>3 DEF listenAndServe
      <3>4. MaxConn \in Nat BY Zenon, ConstantsAssumption
      <3> QED BY ONLY <3>1, <3>2, <3>3, <3>4
    <2>3. ranUe' = [ranUe EXCEPT ![i].TCPConnection = TRUE, ![i].conns = n]
      BY Zenon, <1>3 DEF listenAndServe
    <2> HIDE DEF i, n
    <2>4. ranUe' \in [RanId -> RanUe]
      BY ZenonT(60), <2>2, <2>3, RanUeType DEF RanUe
    <2> QED BY Zenon, <1>3, <2>1, <2>4 DEF TypeOK, listenAndServe, saVars, upVars, netVars
  <1>4. ASSUME NEW i \in RanId, serveConn(i) PROVE TypeOK'
    <2> DEFINE n == ranUe[i].conns - 1
    <2>1. n \in 0..MaxConn
      <3>1. ranUe[i].conns \in 0..MaxConn BY ZenonT(30), RanUeType DEF RanUe
      <3>2. ranUe[i].conns > 0 BY Zenon, <1>4 DEF serveConn
      <3>3. MaxConn \in Nat BY Zenon, ConstantsAssumption
      <3> QED BY ONLY <3>1, <3>2, <3>3
    <2>2. ranUe' = [ranUe EXCEPT ![i].TCPConnection = FALSE, ![i].conns = n]
      BY Zenon, <1>4 DEF serveConn
    <2> HIDE DEF n
    <2>3. ranUe' \in [RanId -> RanUe]
      BY ZenonT(60), <2>1, <2>2, RanUeType DEF RanUe
    <2> QED BY Zenon, <1>4, <2>3 DEF TypeOK, serveConn, saVars, evtVars, upVars, netVars
  <1> QED BY Zenon, <1>1, <1>2, <1>3, <1>4 DEF Goroutine

\* A message to a UE is a message.
LEMMA SendType ==
    ASSUME TypeOK, NEW s \in Spi, NEW id \in Nat, NEW eap \in 0..1,
           NEW k \in {"init", "start", "nas", "success", "failure", "auth",
                      "authFailed", "deleted", "ikeDelete"},
           SendIKEMessageToUE(s, k, id, eap)
    PROVE  toUe' \in SUBSET ToUe
  BY PacketType DEF SendIKEMessageToUE, ToUe

\* One association changes.
LEMMA SaUpdate ==
    ASSUME TypeOK, NEW s \in Spi, NEW r \in SecurityAssociation,
           sa' = [sa EXCEPT ![s] = r]
    PROVE  sa' \in [Spi -> SecurityAssociation]
  BY Zenon, SaType

\* What IKE handlers write into an association.
LEMMA SaFields ==
    ASSUME NEW r \in SecurityAssociation, NEW x \in Nat, NEW y \in 0..1
    PROVE  /\ [r EXCEPT !.InitiatorMessageID = x + 1] \in SecurityAssociation
           /\ [r EXCEPT !.State = x, !.LastEAPIdentifier = y] \in SecurityAssociation
           /\ [r EXCEPT !.LastEAPIdentifier = y] \in SecurityAssociation
           /\ [r EXCEPT !.Kn3iwf = TRUE, !.LastEAPIdentifier = y] \in SecurityAssociation
  <1>1. PICK id \in Nat \ {0} : id = x + 1 OBVIOUS
  <1>2. [r EXCEPT !.InitiatorMessageID = id] \in SecurityAssociation BY Zenon DEF SecurityAssociation
  <1>3. [r EXCEPT !.State = x, !.LastEAPIdentifier = y] \in SecurityAssociation
    BY Zenon DEF SecurityAssociation
  <1>4. [r EXCEPT !.LastEAPIdentifier = y] \in SecurityAssociation BY Zenon DEF SecurityAssociation
  <1>5. [r EXCEPT !.Kn3iwf = TRUE, !.LastEAPIdentifier = y] \in SecurityAssociation
    BY Zenon DEF SecurityAssociation
  <1> QED BY Zenon, <1>1, <1>2, <1>3, <1>4, <1>5

\* The same for values that do not depend on the request.
LEMMA SaFlags ==
    ASSUME NEW r \in SecurityAssociation
    PROVE  /\ [r EXCEPT !.State = @ + 1] \in SecurityAssociation
           /\ [r EXCEPT !.State = @ + 1, !.dpd = "spawned"] \in SecurityAssociation
           /\ [r EXCEPT !.IPSecInnerIP = TRUE] \in SecurityAssociation
           /\ [r EXCEPT !.childAsked = TRUE] \in SecurityAssociation
           /\ 1 - r.LastEAPIdentifier \in 0..1
           /\ r.InitiatorMessageID - 1 \in Nat
  <1>1. PICK st \in Nat : st = r.State + 1 BY DEF SecurityAssociation
  <1>2. [r EXCEPT !.State = st] \in SecurityAssociation BY Zenon DEF SecurityAssociation
  <1>3. [r EXCEPT !.State = st, !.dpd = "spawned"] \in SecurityAssociation
    BY Zenon DEF SecurityAssociation, DpdState
  <1>4. [r EXCEPT !.IPSecInnerIP = TRUE] \in SecurityAssociation BY Zenon DEF SecurityAssociation
  <1>5. [r EXCEPT !.childAsked = TRUE] \in SecurityAssociation BY Zenon DEF SecurityAssociation
  <1>6. 1 - r.LastEAPIdentifier \in 0..1 /\ r.InitiatorMessageID - 1 \in Nat
    BY DEF SecurityAssociation
  <1> QED BY Zenon, <1>1, <1>2, <1>3, <1>4, <1>5, <1>6

\* N3IWFIkeUe.Remove keeps the types.
LEMMA RemoveIkeUeType ==
    ASSUME TypeOK, NEW s \in Spi, NEW ok \in BOOLEAN, NEW id \in Nat \ {0},
           RemoveIkeUe(s, ok, id)
    PROVE  /\ IKESA' \in SUBSET Spi /\ IKEUePool' \in SUBSET Spi
           /\ sa' \in [Spi -> SecurityAssociation]
           /\ IKESPIToNGAPId' \in [Spi -> RanId \cup {None}]
  <1>1. sa' \in [Spi -> SecurityAssociation]
    <2>1. PICK d \in DpdState : d = IF sa[s].dpd \in {"on", "down"} THEN "closed"
                                                                 ELSE sa[s].dpd
      BY Zenon, SaType DEF SecurityAssociation, DpdState
    <2> DEFINE r == [sa[s] EXCEPT !.InitiatorMessageID = id, !.IPSecInnerIP = FALSE, !.dpd = d]
    <2>2. sa[s] \in SecurityAssociation BY Zenon, SaType
    <2>3. r \in SecurityAssociation
      BY ONLY Zenon, <2>2, id \in Nat \ {0}, d \in DpdState DEF SecurityAssociation
    <2>4. sa' = [sa EXCEPT ![s] = r]
      BY Zenon, <2>1, SaType DEF RemoveIkeUe
    <2> HIDE DEF r
    <2> QED BY Zenon, <2>3, <2>4, SaUpdate
  <1>2. IKESPIToNGAPId' \in [Spi -> RanId \cup {None}]
    BY Zenon, MapType DEF RemoveIkeUe
  <1> QED BY Zenon, <1>1, <1>2 DEF RemoveIkeUe, TypeOK

\* Packets of UEs keep the types.
LEMMA IkePacketTypeOK == TypeOK /\ IkePacket => TypeOK'
  <1> SUFFICES ASSUME TypeOK, IkePacket PROVE TypeOK' OBVIOUS
  <1>1. ASSUME NEW s \in Spi, HandleIKESAINIT(s) PROVE TypeOK'
    <2>1. NewSa \in SecurityAssociation
      BY DEF NewSa, SecurityAssociation, DpdState, PreSignalling
    <2>2. sa' \in [Spi -> SecurityAssociation]
      BY Zenon, <1>1, <2>1, SaUpdate DEF HandleIKESAINIT
    <2>3. ue' \in [Spi -> [phase: UePhase, id: Nat]]
      BY Zenon, <1>1, UeType DEF HandleIKESAINIT, UePhase
    <2>4. toUe' \in SUBSET ToUe
      BY <1>1, SendType DEF HandleIKESAINIT
    <2> QED BY Zenon, <1>1, <2>2, <2>3, <2>4 DEF TypeOK, HandleIKESAINIT, ranVars, evtVars, upVars
  <1>2. ASSUME NEW s \in Spi, HandleCREATECHILDSA(s) PROVE TypeOK'
    <2>1. ngapEvt' \in Seq(NgapEvt)
      BY <1>2, AppendIndex, EventTypes, EvtType, MapType
         DEF HandleCREATECHILDSA, SendNgapEvt, NgapEvtType
    <2> QED BY Zenon, <1>2, <2>1 DEF TypeOK, HandleCREATECHILDSA, saVars, ranVars, upVars, netVars
  <1>3. ASSUME NEW m \in toN3iwf, NEW st, IkeAuth(m, st),
               sa' \in [Spi -> SecurityAssociation], toUe' \in SUBSET ToUe,
               ngapEvt' \in Seq(NgapEvt)
        PROVE  TypeOK'
    BY Zenon, <1>3 DEF TypeOK, IkeAuth, ranVars, upVars
  <1>4. ASSUME NEW m \in toN3iwf
        PROVE  /\ m.spi \in Spi /\ m.id \in Nat /\ m.eap \in 0..1
               /\ sa[m.spi] \in SecurityAssociation
               /\ Consumed(m) \in SecurityAssociation
               /\ NextEAPIdentifier(m.spi) \in 0..1
    BY Zenon, <1>4, PacketType, SaType, SaFields, SaFlags DEF Request, Consumed, NextEAPIdentifier
  <1>5. ASSUME NEW m \in toN3iwf, HandleIKEAUTH_PreSignalling(m) PROVE TypeOK'
    <2>1. sa' \in [Spi -> SecurityAssociation]
      <3> DEFINE c == Consumed(m)
                 y == NextEAPIdentifier(m.spi)
                 r == [c EXCEPT !.State = EAPSignalling, !.LastEAPIdentifier = y]
      <3>1. sa' = [sa EXCEPT ![m.spi] = c] \/ sa' = [sa EXCEPT ![m.spi] = r]
        BY Zenon, <1>5 DEF HandleIKEAUTH_PreSignalling
      <3>2. c \in SecurityAssociation /\ y \in 0..1 BY Zenon, <1>4
      <3> HIDE DEF c, y
      <3>3. r \in SecurityAssociation BY Zenon, <3>2, SaFields DEF EAPSignalling
      <3> QED BY Zenon, <1>4, <3>1, <3>2, <3>3, SaUpdate
    <2>2. toUe' \in SUBSET ToUe
      BY Zenon, <1>4, <1>5, SendType, PacketType DEF HandleIKEAUTH_PreSignalling
    <2> QED BY Zenon, <1>3, <1>5, <2>1, <2>2, EvtType DEF HandleIKEAUTH_PreSignalling
  <1>6. ASSUME NEW m \in toN3iwf, HandleIKEAUTH_EAPSignalling(m) PROVE TypeOK'
    <2>1. sa' \in [Spi -> SecurityAssociation]
      BY Zenon, <1>4, <1>6, SaUpdate DEF HandleIKEAUTH_EAPSignalling
    <2>2. toUe' \in SUBSET ToUe
      BY <1>4, <1>6, SendType, PacketType DEF HandleIKEAUTH_EAPSignalling
    <2>3. ngapEvt' \in Seq(NgapEvt)
      <3> DEFINE e == [type |-> "UnmarshalEAP5GData", spi |-> m.spi,
                       id |-> NgapIdOrZero(m.spi), initial |-> sa[m.spi].IkeUE]
      <3>1. ngapEvt' = ngapEvt \/ ngapEvt' = Append(ngapEvt, e)
        BY Zenon, <1>6 DEF HandleIKEAUTH_EAPSignalling, SendNgapEvt
      <3>2. NgapIdOrZero(m.spi) \in RanId
        <4>1. 0 \in RanId BY ONLY ConstantsAssumption DEF RanId
        <4> QED BY Zenon, <1>4, <4>1, MapType DEF NgapIdOrZero
      <3>3. sa[m.spi].IkeUE \in BOOLEAN BY Zenon, <1>4 DEF SecurityAssociation
      <3>4. e \in NgapEvt BY Zenon, <1>4, <3>2, <3>3 DEF NgapEvt
      <3> HIDE DEF e
      <3> QED BY Zenon, <3>1, <3>4, EvtType, AppendIndex
    <2> QED BY Zenon, <1>3, <1>6, <2>1, <2>2, <2>3 DEF HandleIKEAUTH_EAPSignalling
  <1>7. ASSUME NEW m \in toN3iwf, HandleIKEAUTH_PostSignalling(m) PROVE TypeOK'
    <2> DEFINE s == m.spi
               c == Consumed(m)
               a == [c EXCEPT !.IPSecInnerIP = TRUE]
               r == [a EXCEPT !.State = @ + 1]
    <2>1. sa' \in [Spi -> SecurityAssociation]
      <3>1. \/ sa' = [sa EXCEPT ![s] = c] \/ sa' = [sa EXCEPT ![s] = a]
            \/ sa' = [sa EXCEPT ![s] = r]
        BY Zenon, <1>7 DEF HandleIKEAUTH_PostSignalling
      <3>2. c \in SecurityAssociation /\ s \in Spi BY Zenon, <1>4
      <3> HIDE DEF c, s
      <3>3. a \in SecurityAssociation BY Zenon, <3>2, SaFlags
      <3> HIDE DEF a
      <3>4. r \in SecurityAssociation BY Zenon, <3>3, SaFlags
      <3> QED BY Zenon, <3>1, <3>2, <3>3, <3>4, SaUpdate
    <2>2. toUe' \in SUBSET ToUe
      BY <1>4, <1>7, SendType, PacketType DEF HandleIKEAUTH_PostSignalling
    <2>3. ngapEvt' \in Seq(NgapEvt)
      <3> DEFINE d == NgapE("StartTCPSignalNASMsg", IKESPIToNGAPId[s])
                 e == NgapE("GetNGAPContext", IKESPIToNGAPId[s])
      <3>1. \/ ngapEvt' = ngapEvt
            \/ IKESPIToNGAPId[s] # None /\ ngapEvt' = ngapEvt \o <<d, e>>
        BY Zenon, <1>7 DEF HandleIKEAUTH_PostSignalling
      <3>2. IKESPIToNGAPId[s] # None => d \in NgapEvt /\ e \in NgapEvt
        BY Zenon, <1>4, MapType, EventTypes DEF NgapEvtType
      <3> HIDE DEF d, e
      <3>3. CASE IKESPIToNGAPId[s] # None
        <4>1. Append(ngapEvt, d) \in Seq(NgapEvt) BY Zenon, <3>2, <3>3, EvtType, AppendIndex
        <4>2. Append(Append(ngapEvt, d), e) \in Seq(NgapEvt)
          BY Zenon, <3>2, <3>3, <4>1, AppendIndex
        <4>3. ngapEvt \o <<d, e>> = Append(Append(ngapEvt, d), e)
          BY <3>2, <3>3, EvtType
        <4> QED BY Zenon, <3>1, <4>2, <4>3, EvtType
      <3> QED BY Zenon, <3>1, <3>3, EvtType
    <2> QED BY Zenon, <1>3, <1>7, <2>1, <2>2, <2>3 DEF HandleIKEAUTH_PostSignalling
  <1>8. ASSUME NEW m \in toN3iwf, HandleIKEAUTH_Late(m) PROVE TypeOK'
    <2>1. sa' \in [Spi -> SecurityAssociation]
      BY Zenon, <1>4, <1>8, SaUpdate DEF HandleIKEAUTH_Late
    <2> QED BY Zenon, <1>3, <1>8, <2>1, EvtType, PacketType DEF HandleIKEAUTH_Late
  <1>9. ASSUME NEW m \in toN3iwf, HandleInformational(m) PROVE TypeOK'
    <2>1. PICK ok \in BOOLEAN :
            /\ RemoveIkeUe(m.spi, ok, IF ok THEN m.id + 1 ELSE m.id)
            /\ IF ok
               THEN /\ SendNgapEvt(NgapE("SendUEContextRelease", IKESPIToNGAPId[m.spi]))
                    /\ SendIKEMessageToUE(m.spi, "deleted", m.id, 0)
               ELSE UNCHANGED <<ngapEvt, toUe>>
      BY Zenon, <1>9, ConstantsAssumption DEF HandleInformational, RemoveOutcome
    <2>2. (IF ok THEN m.id + 1 ELSE m.id) \in Nat \ {0}
      <3>1. m.id = sa[m.spi].InitiatorMessageID
        BY Zenon, <1>9 DEF HandleInformational, Dispatch, hasExpectedMessageID
      <3>2. m.id \in Nat \ {0} BY Zenon, <1>4, <3>1 DEF SecurityAssociation
      <3> QED BY ONLY <3>2
    <2>3. ngapEvt' \in Seq(NgapEvt)
      <3> DEFINE e == NgapE("SendUEContextRelease", IKESPIToNGAPId[m.spi])
      <3>1. e \in NgapEvt
        BY Zenon, <1>4, <1>9, EventTypes, MapType DEF HandleInformational, NgapEvtType
      <3>2. ngapEvt' = Append(ngapEvt, e) \/ ngapEvt' = ngapEvt
        BY Zenon, <2>1 DEF SendNgapEvt
      <3> HIDE DEF e
      <3> QED BY ZenonT(30), <3>1, <3>2, EvtType, AppendIndex
    <2>4. toUe' \in SUBSET ToUe
      BY <1>4, <2>1, SendType, PacketType
    <2>5. /\ IKESA' \in SUBSET Spi /\ IKEUePool' \in SUBSET Spi
          /\ sa' \in [Spi -> SecurityAssociation]
          /\ IKESPIToNGAPId' \in [Spi -> RanId \cup {None}]
      BY Zenon, <1>4, <2>1, <2>2, RemoveIkeUeType
    <2> QED BY Zenon, <1>9, <2>3, <2>4, <2>5 DEF TypeOK, HandleInformational, ranVars, upVars
  <1> QED BY Zenon, <1>1, <1>2, <1>5, <1>6, <1>7, <1>8, <1>9 DEF IkePacket

\* What an IKE event handler may rely on.
LEMMA IkeHead ==
    ASSUME TypeOK, ikeEvt # <<>>
    PROVE  /\ Head(ikeEvt).spi \in Spi /\ Head(ikeEvt).id \in RanId
           /\ Head(ikeEvt).type \in IkeEvtType
           /\ sa[Head(ikeEvt).spi] \in SecurityAssociation
           /\ Tail(ikeEvt) \in Seq(IkeEvt)
  <1>1. Head(ikeEvt) \in IkeEvt /\ Tail(ikeEvt) \in Seq(IkeEvt)
    BY Zenon, EvtType, TailIndex
  <1> QED BY Zenon, <1>1, SaType DEF IkeEvt

\* What an NGAP event handler may rely on.
LEMMA NgapHead ==
    ASSUME TypeOK, ngapEvt # <<>>
    PROVE  /\ Head(ngapEvt).id \in RanId
           /\ Head(ngapEvt).type = "UnmarshalEAP5GData" => Head(ngapEvt).spi \in Spi
           /\ Tail(ngapEvt) \in Seq(NgapEvt)
  <1>1. Head(ngapEvt) \in NgapEvt /\ Tail(ngapEvt) \in Seq(NgapEvt)
    BY Zenon, EvtType, TailIndex
  <1> QED BY Zenon, <1>1 DEF NgapEvt, NgapEvtType

\* The loop over the PDU sessions keeps the types.
LEMMA CreatePDUSessionType ==
    ASSUME TypeOK, NEW s \in Spi, NEW i \in RanId, NEW r \in SecurityAssociation,
           NEW q \in Seq(NgapEvt), CreatePDUSessionChildSA(s, i, r, q)
    PROVE  /\ sa' \in [Spi -> SecurityAssociation] /\ ranUe' \in [RanId -> RanUe]
           /\ ngapEvt' \in Seq(NgapEvt)
  <1>1. [r EXCEPT !.childAsked = TRUE] \in SecurityAssociation BY Zenon, SaFlags
  <1>2. sa' \in [Spi -> SecurityAssociation]
    BY Zenon, <1>1, SaUpdate DEF CreatePDUSessionChildSA
  <1>3. ASSUME NEW n \in 0..MaxSess, ranUe' = [ranUe EXCEPT ![i].Index = n]
        PROVE  ranUe' \in [RanId -> RanUe]
    BY ZenonT(30), <1>3, RanUeType DEF RanUe
  <1>4. /\ ranUe[i].Index \in 0..MaxSess /\ ranUe[i].UnactivatedPDUSession \in 0..MaxSess
    BY Zenon, RanUeType DEF RanUe
  <1>5. \A n \in ranUe[i].Index + 1 .. ranUe[i].UnactivatedPDUSession : n \in 0..MaxSess
    BY <1>4, ConstantsAssumption
  <1>6. ranUe' \in [RanId -> RanUe]
    BY Zenon, <1>3, <1>4, <1>5, RanUeType DEF CreatePDUSessionChildSA
  <1>7. ngapEvt' \in Seq(NgapEvt)
    <2> DEFINE e == NgapE("SendPDUSessionResourceSetupResponse", IKESPIToNGAPId[s])
    <2>1. ngapEvt' = q \/ (IKESPIToNGAPId[s] # None /\ ngapEvt' = Append(q, e))
      BY Zenon DEF CreatePDUSessionChildSA
    <2>2. IKESPIToNGAPId[s] # None => e \in NgapEvt
      BY Zenon, EventTypes, MapType DEF NgapEvtType
    <2> HIDE DEF e
    <2> QED BY ZenonT(30), <2>1, <2>2, AppendIndex
  <1> QED BY Zenon, <1>2, <1>6, <1>7

\* The handlers of IKE events keep the types.
LEMMA IkeHandleEventTypeOK == TypeOK /\ IkeHandleEvent => TypeOK'
  <1> SUFFICES ASSUME TypeOK, IkeHandleEvent, ikeEvt # <<>> PROVE TypeOK'
    BY Zenon DEF IkeHandleEvent, IkeServerPanics, IkeEvent, HandleUnmarshalEAP5GDataResponse,
       HandleSendEAP5GFailureMsg, HandleSendEAPSuccessMsg, HandleSendEAPNASMsg,
       HandleCreatePDUSession, HandleGetNGAPContextResponse, HandleIKEDeleteEvt,
       HandleIKEContextUpdate
  <1> DEFINE e == Head(ikeEvt)
             s == e.spi
  <1>0. /\ s \in Spi /\ e.id \in RanId /\ sa[s] \in SecurityAssociation
        /\ Tail(ikeEvt) \in Seq(IkeEvt)
        /\ NextEAPIdentifier(s) \in 0..1 /\ LastMessageID(s) \in Nat
    BY Zenon, IkeHead, SaFlags DEF NextEAPIdentifier, LastMessageID
  <1>1. CASE IkeServerPanics
    <2>1. ikeEvt' \in Seq(IkeEvt) BY <1>1 DEF IkeServerPanics
    <2> QED BY Zenon, <1>0, <1>1, <2>1 DEF TypeOK, IkeServerPanics, ranVars, netVars
  <1>2. CASE HandleUnmarshalEAP5GDataResponse
    <2>1. sa' \in [Spi -> SecurityAssociation]
      BY Zenon, <1>0, <1>2, SaType DEF HandleUnmarshalEAP5GDataResponse, SecurityAssociation
    <2>2. ngapEvt' \in Seq(NgapEvt)
      BY Zenon, <1>0, <1>2, EventTypes, EvtType, AppendIndex
         DEF HandleUnmarshalEAP5GDataResponse, SendNgapEvt, NgapEvtType
    <2>3. /\ IKESPIToNGAPId' \in [Spi -> RanId \cup {None}]
          /\ NGAPIdToIKESPI' \in [RanId -> Spi \cup {None}]
      BY Zenon, <1>0, <1>2, MapType DEF HandleUnmarshalEAP5GDataResponse
    <2>4. ikeEvt' \in Seq(IkeEvt)
      BY Zenon, <1>0, <1>2 DEF HandleUnmarshalEAP5GDataResponse, IkeEvent
    <2> QED BY Zenon, <1>0, <1>2, <2>1, <2>2, <2>3, <2>4
         DEF TypeOK, HandleUnmarshalEAP5GDataResponse, ranVars, upVars, netVars
  <1>3. CASE HandleSendEAP5GFailureMsg
    <2>1. toUe' \in SUBSET ToUe
      BY <1>0, <1>3, SendType DEF HandleSendEAP5GFailureMsg
    <2>2. ikeEvt' \in Seq(IkeEvt)
      BY Zenon, <1>0, <1>3 DEF HandleSendEAP5GFailureMsg, IkeEvent
    <2> QED BY Zenon, <1>3, <2>1, <2>2 DEF TypeOK, HandleSendEAP5GFailureMsg, saVars, ranVars, upVars
  <1>4. CASE HandleSendEAPSuccessMsg
    <2> DEFINE y == NextEAPIdentifier(s)
               r == [sa[s] EXCEPT !.Kn3iwf = TRUE, !.LastEAPIdentifier = y]
               t == [r EXCEPT !.State = @ + 1]
    <2>1. sa' = [sa EXCEPT ![s] = r] \/ sa' = [sa EXCEPT ![s] = t]
      BY Zenon, <1>4 DEF HandleSendEAPSuccessMsg
    <2>2. r \in SecurityAssociation BY Zenon, <1>0, SaFields
    <2> HIDE DEF r
    <2>3. t \in SecurityAssociation BY Zenon, <2>2, SaFlags
    <2>4. sa' \in [Spi -> SecurityAssociation] BY Zenon, <1>0, <2>1, <2>2, <2>3, SaUpdate
    <2>5. toUe' \in SUBSET ToUe
      BY Zenon, <1>0, <1>4, SendType, PacketType DEF HandleSendEAPSuccessMsg
    <2>6. ikeEvt' \in Seq(IkeEvt)
      BY Zenon, <1>0, <1>4 DEF HandleSendEAPSuccessMsg, IkeEvent
    <2> QED BY Zenon, <1>4, <2>4, <2>5, <2>6 DEF TypeOK, HandleSendEAPSuccessMsg, ranVars, upVars
  <1>5. CASE HandleSendEAPNASMsg
    <2>1. sa' \in [Spi -> SecurityAssociation]
      BY Zenon, <1>0, <1>5, SaType DEF HandleSendEAPNASMsg, SecurityAssociation
    <2>2. toUe' \in SUBSET ToUe
      BY Zenon, <1>0, <1>5, SendType DEF HandleSendEAPNASMsg
    <2>3. ikeEvt' \in Seq(IkeEvt)
      BY Zenon, <1>0, <1>5 DEF HandleSendEAPNASMsg, IkeEvent
    <2> QED BY Zenon, <1>5, <2>1, <2>2, <2>3 DEF TypeOK, HandleSendEAPNASMsg, ranVars, upVars
  <1>6. CASE HandleCreatePDUSession
    <2>1. CreatePDUSessionChildSA(s, e.id, sa[s], ngapEvt) /\ ikeEvt' = Tail(ikeEvt)
      BY Zenon, <1>6 DEF HandleCreatePDUSession, IkeEvent
    <2>2. /\ sa' \in [Spi -> SecurityAssociation] /\ ranUe' \in [RanId -> RanUe]
          /\ ngapEvt' \in Seq(NgapEvt)
      BY Zenon, <1>0, <2>1, CreatePDUSessionType, EvtType
    <2> QED BY Zenon, <1>0, <1>6, <2>1, <2>2 DEF TypeOK, HandleCreatePDUSession, upVars, netVars
  <1>7. CASE HandleGetNGAPContextResponse
    <2> DEFINE r == [sa[s] EXCEPT !.State = @ + 1, !.dpd = "spawned"]
               a == NgapE("SendNASMsg", IKESPIToNGAPId[s])
    <2>1. /\ ikeEvt' = Tail(ikeEvt)
          /\ \/ CreatePDUSessionChildSA(s, e.id, r, ngapEvt)
             \/ /\ IKESPIToNGAPId[s] # None
                /\ CreatePDUSessionChildSA(s, e.id, sa[s], Append(ngapEvt, a))
             \/ UNCHANGED <<sa, ranUe, ngapEvt>>
      BY Zenon, <1>7 DEF HandleGetNGAPContextResponse, IkeEvent, continueCreateChildSA
    <2>2. r \in SecurityAssociation BY Zenon, <1>0, SaFlags
    <2>3. IKESPIToNGAPId[s] # None => a \in NgapEvt
      BY Zenon, <1>0, MapType, EventTypes DEF NgapEvtType
    <2> HIDE DEF r, a
    <2>4. IKESPIToNGAPId[s] # None => Append(ngapEvt, a) \in Seq(NgapEvt)
      BY Zenon, <2>3, EvtType, AppendIndex
    <2>5. /\ sa' \in [Spi -> SecurityAssociation] /\ ranUe' \in [RanId -> RanUe]
          /\ ngapEvt' \in Seq(NgapEvt)
      BY Zenon, <1>0, <2>1, <2>2, <2>4, CreatePDUSessionType, EvtType, SaType, RanUeType
    <2> QED BY Zenon, <1>0, <1>7, <2>1, <2>5 DEF TypeOK, HandleGetNGAPContextResponse, upVars, netVars
  <1>8. CASE HandleIKEDeleteEvt
    <2>1. toUe' \in SUBSET ToUe
      BY <1>0, <1>8, SendType, PacketType DEF HandleIKEDeleteEvt
    <2>2. \/ UNCHANGED saVars
          \/ \E ok \in BOOLEAN : RemoveIkeUe(s, ok, sa[s].InitiatorMessageID)
      BY Zenon, <1>8, ConstantsAssumption DEF HandleIKEDeleteEvt, RemoveOutcome
    <2>3. sa[s].InitiatorMessageID \in Nat \ {0} BY Zenon, <1>0 DEF SecurityAssociation
    <2>4. /\ IKESA' \in SUBSET Spi /\ IKEUePool' \in SUBSET Spi
          /\ sa' \in [Spi -> SecurityAssociation]
          /\ IKESPIToNGAPId' \in [Spi -> RanId \cup {None}]
      <3>1. CASE UNCHANGED saVars BY Zenon, <3>1 DEF TypeOK, saVars
      <3> QED BY Zenon, <1>0, <2>2, <2>3, <3>1, RemoveIkeUeType
    <2>5. ikeUp' \in BOOLEAN BY Zenon, <1>8 DEF HandleIKEDeleteEvt, TypeOK
    <2>6. ikeEvt' \in Seq(IkeEvt) BY Zenon, <1>0, <1>8 DEF HandleIKEDeleteEvt, IkeEvent
    <2> QED BY Zenon, <1>8, <2>1, <2>4, <2>5, <2>6 DEF TypeOK, HandleIKEDeleteEvt, ranVars
  <1>9. CASE HandleIKEContextUpdate
    <2>1. sa' \in [Spi -> SecurityAssociation]
      BY Zenon, <1>0, <1>9, SaType DEF HandleIKEContextUpdate, SecurityAssociation
    <2>2. ikeEvt' \in Seq(IkeEvt) BY Zenon, <1>0, <1>9 DEF HandleIKEContextUpdate, IkeEvent
    <2> QED BY Zenon, <1>9, <2>1, <2>2 DEF TypeOK, HandleIKEContextUpdate, ranVars, upVars, netVars
  <1> QED BY Zenon, <1>1, <1>2, <1>3, <1>4, <1>5, <1>6, <1>7, <1>8, <1>9 DEF IkeHandleEvent

\* An event sent to the IKE loop keeps the type of its channel.
LEMMA SendIkeEvtType ==
    ASSUME TypeOK, NEW t \in IkeEvtType, NEW s \in Spi, NEW i \in RanId,
           SendIkeEvt(IkeE(t, s, i))
    PROVE  ikeEvt' \in Seq(IkeEvt)
  <1>1. IkeE(t, s, i) \in IkeEvt BY Zenon, EventTypes
  <1> QED BY Zenon, <1>1, EvtType, AppendIndex DEF SendIkeEvt

\* N3IWFRanUe.Remove keeps the types.
LEMMA RemoveRanUeType ==
    ASSUME TypeOK, NEW i \in RanId, NEW r \in RanUe, RemoveRanUe(i, r)
    PROVE  /\ RANUePool' \in SUBSET RanId /\ ranUe' \in [RanId -> RanUe]
           /\ NGAPIdToIKESPI' \in [RanId -> Spi \cup {None}]
  <1>1. [r EXCEPT !.TCPConnection = FALSE, !.conns = 0] \in RanUe
    <2>1. 0 \in 0..MaxConn BY ConstantsAssumption
    <2> QED BY Zenon, <2>1 DEF RanUe
  <1>2. ranUe' \in [RanId -> RanUe] BY Zenon, <1>1, RanUeType DEF RemoveRanUe
  <1>3. NGAPIdToIKESPI' \in [RanId -> Spi \cup {None}] BY Zenon, MapType DEF RemoveRanUe
  <1> QED BY Zenon, <1>2, <1>3 DEF RemoveRanUe, TypeOK

\* The handlers of NGAP events keep the types.
LEMMA NgapHandleEventTypeOK == TypeOK /\ NgapHandleEvent => TypeOK'
  <1> SUFFICES ASSUME TypeOK, NgapHandleEvent, ngapEvt # <<>>, ngapEvt' = Tail(ngapEvt)
               PROVE  TypeOK'
    BY Zenon DEF NgapHandleEvent, NgapEvent, HandleUnmarshalEAP5GData, HandleSendInitialUEMessage,
       HandleSendPDUSessionResourceSetupResponse, HandleSendNASMsg,
       HandleStartTCPSignalNASMsg, HandleNASTCPConnEstablishedComplete,
       HandleSendUEContextReleaseRequest, HandleSendSendUEContextRelease,
       HandleGetNGAPContext
  <1> DEFINE e == Head(ngapEvt)
             i == e.id
  <1>0. i \in RanId /\ ngapEvt' \in Seq(NgapEvt)
    BY Zenon, NgapHead
  <1>a. ASSUME NEW ph \in AmfPhase, amf' = [amf EXCEPT ![i].phase = ph]
        PROVE  amf' \in [RanId -> [phase: AmfPhase, down: 0..MaxDown, relReq: BOOLEAN]]
    BY Zenon, <1>0, <1>a, AmfType
  <1>b. ASSUME amf' = [amf EXCEPT ![i].relReq = TRUE]
        PROVE  amf' \in [RanId -> [phase: AmfPhase, down: 0..MaxDown, relReq: BOOLEAN]]
    BY Zenon, <1>0, <1>b, AmfType
  <1>1. CASE HandleUnmarshalEAP5GData
    <2>1. CASE UNCHANGED <<ranVars, ikeEvt>>
      BY Zenon, <1>0, <1>1, <2>1 DEF TypeOK, HandleUnmarshalEAP5GData, saVars, ranVars, upVars, netVars
    <2>2. CASE SendIkeEvt(IkeE("SendEAP5GFailureMsg", e.spi, 0)) /\ UNCHANGED ranVars
      <3>1. e.spi \in Spi /\ 0 \in RanId
        BY <1>1, NgapHead, ConstantsAssumption DEF HandleUnmarshalEAP5GData, NgapEvent, RanId
      <3>2. ikeEvt' \in Seq(IkeEvt) BY Zenon, <2>2, <3>1, SendIkeEvtType DEF IkeEvtType
      <3> QED BY Zenon, <1>0, <1>1, <2>2, <3>2
           DEF TypeOK, HandleUnmarshalEAP5GData, saVars, ranVars, upVars, netVars
    <2>3. CASE /\ nextRanId <= MaxRanId
               /\ RANUePool' = RANUePool \cup {nextRanId}
               /\ ranUe' = [ranUe EXCEPT ![nextRanId] = NewRanUe]
               /\ nextRanId' = nextRanId + 1
               /\ SendIkeEvt(IkeE("UnmarshalEAP5GDataResponse", e.spi, nextRanId))
      <3>1. e.spi \in Spi /\ nextRanId \in RanId /\ nextRanId' \in 0..(MaxRanId + 1)
        <4>1. e.spi \in Spi BY Zenon, <1>1, NgapHead DEF HandleUnmarshalEAP5GData, NgapEvent
        <4>2. nextRanId \in 0..(MaxRanId + 1) BY Zenon DEF TypeOK
        <4> QED BY <2>3, <4>1, <4>2, ConstantsAssumption DEF RanId
      <3>2. ikeEvt' \in Seq(IkeEvt) BY Zenon, <2>3, <3>1, SendIkeEvtType DEF IkeEvtType
      <3>3. NewRanUe \in RanUe BY ConstantsAssumption DEF NewRanUe, RanUe
      <3>4. ranUe' \in [RanId -> RanUe] BY Zenon, <2>3, <3>1, <3>3, RanUeType
      <3> QED BY Zenon, <1>0, <1>1, <2>3, <3>1, <3>2, <3>4
           DEF TypeOK, HandleUnmarshalEAP5GData, saVars, upVars, netVars
    <2> QED BY Zenon, <1>1, <2>1, <2>2, <2>3 DEF HandleUnmarshalEAP5GData
  <1>2. CASE HandleSendInitialUEMessage
    <2>1. amf' \in [RanId -> [phase: AmfPhase, down: 0..MaxDown, relReq: BOOLEAN]]
      BY Zenon, <1>2, <1>a, AmfType DEF HandleSendInitialUEMessage, AmfPhase
    <2> QED BY Zenon, <1>0, <1>2, <2>1
         DEF TypeOK, HandleSendInitialUEMessage, saVars, ranVars, upVars, netVars
  <1>3. CASE HandleSendPDUSessionResourceSetupResponse
    <2>1. amf' \in [RanId -> [phase: AmfPhase, down: 0..MaxDown, relReq: BOOLEAN]]
      BY Zenon, <1>3, <1>a, AmfType DEF HandleSendPDUSessionResourceSetupResponse, AmfPhase
    <2> QED BY Zenon, <1>0, <1>3, <2>1
         DEF TypeOK, HandleSendPDUSessionResourceSetupResponse, saVars, ranVars, upVars, netVars
  <1>4. CASE HandleSendNASMsg
    <2>1. ranUe' \in [RanId -> RanUe]
      <3>1. ASSUME ranUe' = [ranUe EXCEPT ![i].TemporaryCachedNASMessage = FALSE]
            PROVE  ranUe' \in [RanId -> RanUe]
        BY ZenonT(30), <1>0, <3>1, RanUeType DEF RanUe
      <3> QED BY Zenon, <1>4, <3>1, RanUeType DEF HandleSendNASMsg
    <2>2. procUp' \in BOOLEAN BY Zenon, <1>4 DEF HandleSendNASMsg, Exit
    <2> QED BY Zenon, <1>0, <1>4, <2>1, <2>2 DEF TypeOK, HandleSendNASMsg, saVars, netVars
  <1>5. CASE HandleStartTCPSignalNASMsg
    <2>1. ranUe' \in [RanId -> RanUe]
      BY ZenonT(60), <1>0, <1>5, RanUeType DEF HandleStartTCPSignalNASMsg, RanUe
    <2> QED BY Zenon, <1>0, <1>5, <2>1 DEF TypeOK, HandleStartTCPSignalNASMsg, saVars, upVars, netVars
  <1>6. CASE HandleNASTCPConnEstablishedComplete
    <2>1. ranUe' \in [RanId -> RanUe]
      <3>1. ASSUME ranUe' = [ranUe EXCEPT ![i].IsNASTCPConnEstablishedComplete = TRUE,
                                          ![i].TemporaryCachedNASMessage = FALSE]
            PROVE  ranUe' \in [RanId -> RanUe]
        BY ZenonT(60), <1>0, <3>1, RanUeType DEF RanUe
      <3> QED BY Zenon, <1>6, <3>1, RanUeType DEF HandleNASTCPConnEstablishedComplete
    <2>2. procUp' \in BOOLEAN BY Zenon, <1>6 DEF HandleNASTCPConnEstablishedComplete, Exit
    <2> QED BY Zenon, <1>0, <1>6, <2>1, <2>2
         DEF TypeOK, HandleNASTCPConnEstablishedComplete, saVars, netVars
  <1>7. CASE HandleSendUEContextReleaseRequest
    <2>1. amf' \in [RanId -> [phase: AmfPhase, down: 0..MaxDown, relReq: BOOLEAN]]
      BY Zenon, <1>7, <1>b, AmfType DEF HandleSendUEContextReleaseRequest
    <2> QED BY Zenon, <1>0, <1>7, <2>1
         DEF TypeOK, HandleSendUEContextReleaseRequest, saVars, ranVars, upVars, netVars
  <1>8. CASE HandleSendSendUEContextRelease
    <2>1. amf' \in [RanId -> [phase: AmfPhase, down: 0..MaxDown, relReq: BOOLEAN]]
      BY Zenon, <1>8, <1>a, <1>b, AmfType DEF HandleSendSendUEContextRelease, AmfPhase
    <2>2. [ranUe[i] EXCEPT !.UeCtxRelState = FALSE] \in RanUe
      BY ZenonT(60), <1>0, RanUeType DEF RanUe
    <2>3. ASSUME ranUe' = [ranUe EXCEPT ![i].UeCtxRelState = TRUE]
          PROVE  ranUe' \in [RanId -> RanUe]
      BY ZenonT(30), <1>0, <2>3, RanUeType DEF RanUe
    <2>4. /\ RANUePool' \in SUBSET RanId /\ ranUe' \in [RanId -> RanUe]
          /\ NGAPIdToIKESPI' \in [RanId -> Spi \cup {None}]
      <3>1. CASE UNCHANGED <<RANUePool, NGAPIdToIKESPI>> /\ ranUe' \in [RanId -> RanUe]
        BY Zenon, <3>1 DEF TypeOK
      <3>2. CASE RemoveRanUe(i, [ranUe[i] EXCEPT !.UeCtxRelState = FALSE])
        BY Zenon, <1>0, <2>2, <3>2, RemoveRanUeType
      <3> QED BY Zenon, <1>8, <2>3, <3>1, <3>2, RanUeType DEF HandleSendSendUEContextRelease
    <2> QED BY Zenon, <1>0, <1>8, <2>1, <2>4
         DEF TypeOK, HandleSendSendUEContextRelease, saVars, upVars, netVars
  <1>9. CASE HandleGetNGAPContext
    <2>1. ikeEvt' \in Seq(IkeEvt)
      BY Zenon, <1>0, <1>9, SendIkeEvtType, MapType, EvtType DEF HandleGetNGAPContext, IkeEvtType
    <2> QED BY Zenon, <1>0, <1>9, <2>1
         DEF TypeOK, HandleGetNGAPContext, saVars, ranVars, upVars, netVars
  <1> QED BY Zenon, <1>1, <1>2, <1>3, <1>4, <1>5, <1>6, <1>7, <1>8, <1>9 DEF NgapHandleEvent

\* The messages of the AMF keep the types.
LEMMA NgapMessageTypeOK == TypeOK /\ NgapMessage => TypeOK'
  <1> SUFFICES ASSUME TypeOK, NEW i \in RanId,
                      \/ HandleDownlinkNASTransport(i) \/ HandleInitialContextSetupRequest(i)
                      \/ HandleUEContextModificationRequest(i)
                      \/ HandlePDUSessionResourceSetupRequest(i)
                      \/ HandleUEContextReleaseCommand(i) \/ HandleNGReset(i)
               PROVE  TypeOK'
    BY Zenon DEF NgapMessage
  <1> DEFINE Amf == [RanId -> [phase: AmfPhase, down: 0..MaxDown, relReq: BOOLEAN]]
  <1>a. ASSUME NEW ph \in AmfPhase, amf' = [amf EXCEPT ![i].phase = ph] PROVE amf' \in Amf
    BY Zenon, <1>a, AmfType
  <1>b. NGAPIdToIKESPI[i] # None => NGAPIdToIKESPI[i] \in Spi BY Zenon, MapType
  <1>1. CASE HandleDownlinkNASTransport(i)
    <2>1. amf' \in Amf
      <3>1. PICK n \in 0..MaxDown : n = amf[i].down + 1
        BY <1>1, AmfType, ConstantsAssumption DEF HandleDownlinkNASTransport
      <3> QED BY Zenon, <1>1, <3>1, AmfType DEF HandleDownlinkNASTransport
    <2>2. ikeEvt' \in Seq(IkeEvt)
      BY Zenon, <1>1, <1>b, SendIkeEvtType, EvtType DEF HandleDownlinkNASTransport, IkeEvtType
    <2>3. ranUe' \in [RanId -> RanUe]
      <3> DEFINE r == [ranUe[i] EXCEPT !.AmfUeNgapId = TRUE]
                 c == [r EXCEPT !.TemporaryCachedNASMessage = TRUE]
      <3>1. r \in RanUe BY Zenon, RanUeType DEF RanUe
      <3>2. ranUe' = [ranUe EXCEPT ![i] = c] \/ ranUe' = [ranUe EXCEPT ![i] = r]
        BY Zenon, <1>1 DEF HandleDownlinkNASTransport
      <3> HIDE DEF r
      <3>3. c \in RanUe BY Zenon, <3>1 DEF RanUe
      <3> HIDE DEF c
      <3> QED BY Zenon, <3>1, <3>2, <3>3, RanUeType
    <2>4. procUp' \in BOOLEAN BY Zenon, <1>1 DEF HandleDownlinkNASTransport, Exit
    <2> QED BY Zenon, <1>1, <2>1, <2>2, <2>3, <2>4
         DEF TypeOK, HandleDownlinkNASTransport, saVars, netVars
  <1>2. CASE HandleInitialContextSetupRequest(i)
    <2>1. amf' \in Amf BY Zenon, <1>2, <1>a DEF HandleInitialContextSetupRequest, AmfPhase
    <2>2. ikeEvt' \in Seq(IkeEvt)
      BY Zenon, <1>2, <1>b, SendIkeEvtType, EvtType DEF HandleInitialContextSetupRequest, IkeEvtType
    <2>3. ranUe' \in [RanId -> RanUe]
      <3>1. ASSUME NEW n \in 0..MaxSess,
                   ranUe' = [ranUe EXCEPT ![i].Index = 0, ![i].UnactivatedPDUSession = n]
            PROVE  ranUe' \in [RanId -> RanUe]
        <4>1. 0 \in 0..MaxSess BY ConstantsAssumption
        <4> QED BY ZenonT(30), <3>1, <4>1, RanUeType DEF RanUe
      <3> QED BY Zenon, <1>2, <3>1, RanUeType DEF HandleInitialContextSetupRequest
    <2> QED BY Zenon, <1>2, <2>1, <2>2, <2>3
         DEF TypeOK, HandleInitialContextSetupRequest, saVars, upVars, netVars
  <1>3. CASE HandleUEContextModificationRequest(i)
    <2>1. ikeEvt' \in Seq(IkeEvt)
      BY Zenon, <1>3, <1>b, SendIkeEvtType DEF HandleUEContextModificationRequest, IkeEvtType
    <2> QED BY Zenon, <1>3, <2>1
         DEF TypeOK, HandleUEContextModificationRequest, saVars, ranVars, upVars, netVars
  <1>4. CASE HandlePDUSessionResourceSetupRequest(i)
    <2>1. amf' \in Amf BY Zenon, <1>4, <1>a DEF HandlePDUSessionResourceSetupRequest, AmfPhase
    <2>2. ikeEvt' \in Seq(IkeEvt)
      BY Zenon, <1>4, <1>b, SendIkeEvtType, EvtType DEF HandlePDUSessionResourceSetupRequest, IkeEvtType
    <2>3. ranUe' \in [RanId -> RanUe]
      <3> DEFINE r(n) == [ranUe[i] EXCEPT !.Index = 0, !.UnactivatedPDUSession = n]
                 c(n) == [r(n) EXCEPT !.TemporaryCachedNASMessage = TRUE]
      <3>1. ASSUME NEW n \in 0..MaxSess PROVE r(n) \in RanUe
        <4>1. 0 \in 0..MaxSess BY ConstantsAssumption
        <4> QED BY Zenon, <4>1, RanUeType DEF RanUe
      <3>2. \/ ranUe' = ranUe
            \/ \E n \in 0..MaxSess : \/ ranUe' = [ranUe EXCEPT ![i] = r(n)]
                                     \/ ranUe' = [ranUe EXCEPT ![i] = c(n)]
        BY Zenon, <1>4 DEF HandlePDUSessionResourceSetupRequest
      <3> HIDE DEF r
      <3>3. ASSUME NEW n \in 0..MaxSess PROVE c(n) \in RanUe
        <4>1. PICK v \in RanUe : v = r(n) BY Zenon, <3>1
        <4>2. [v EXCEPT !.TemporaryCachedNASMessage = TRUE] \in RanUe BY Zenon DEF RanUe
        <4> QED BY Zenon, <4>1, <4>2
      <3> HIDE DEF c
      <3> QED BY Zenon, <3>1, <3>2, <3>3, RanUeType
    <2> QED BY Zenon, <1>4, <2>1, <2>2, <2>3
         DEF TypeOK, HandlePDUSessionResourceSetupRequest, saVars, upVars, netVars
  <1>5. CASE HandleUEContextReleaseCommand(i)
    <2>1. amf' \in Amf BY Zenon, <1>5, <1>a DEF HandleUEContextReleaseCommand, AmfPhase
    <2>2. ikeEvt' \in Seq(IkeEvt)
      BY Zenon, <1>5, <1>b, SendIkeEvtType, EvtType DEF HandleUEContextReleaseCommand, IkeEvtType
    <2>3. [ranUe[i] EXCEPT !.UeCtxRelState = TRUE] \in RanUe BY Zenon, RanUeType DEF RanUe
    <2>4. /\ RANUePool' \in SUBSET RanId /\ ranUe' \in [RanId -> RanUe]
          /\ NGAPIdToIKESPI' \in [RanId -> Spi \cup {None}]
      <3>1. CASE UNCHANGED <<RANUePool, NGAPIdToIKESPI, ranUe>> BY Zenon, <3>1 DEF TypeOK
      <3> QED BY Zenon, <1>5, <2>3, <3>1, RemoveRanUeType DEF HandleUEContextReleaseCommand
    <2> QED BY Zenon, <1>5, <2>1, <2>2, <2>4
         DEF TypeOK, HandleUEContextReleaseCommand, saVars, upVars, netVars
  <1>6. CASE HandleNGReset(i)
    <2>1. amf' \in Amf BY Zenon, <1>6, <1>a DEF HandleNGReset, AmfPhase
    <2>2. ranUe[i] \in RanUe BY Zenon, RanUeType
    <2>3. /\ RANUePool' \in SUBSET RanId /\ ranUe' \in [RanId -> RanUe]
          /\ NGAPIdToIKESPI' \in [RanId -> Spi \cup {None}]
      BY Zenon, <1>6, <2>2, RemoveRanUeType DEF HandleNGReset
    <2> QED BY Zenon, <1>6, <2>1, <2>3 DEF TypeOK, HandleNGReset, saVars, evtVars, upVars, netVars
  <1> QED BY Zenon, <1>1, <1>2, <1>3, <1>4, <1>5, <1>6

\* Init and every step keep the types.
LEMMA InitTypeOK == Init => TypeOK
  <1> SUFFICES ASSUME Init PROVE TypeOK BY Zenon
  <1>1. NewSa \in SecurityAssociation
    BY DEF NewSa, SecurityAssociation, DpdState, PreSignalling
  <1>2. NewRanUe \in RanUe BY ConstantsAssumption DEF NewRanUe, RanUe
  <1>3. sa \in [Spi -> SecurityAssociation] BY Zenon, <1>1 DEF Init
  <1>4. ranUe \in [RanId -> RanUe] BY Zenon, <1>2 DEF Init
  <1>5. amf \in [RanId -> [phase: AmfPhase, down: 0..MaxDown, relReq: BOOLEAN]]
    BY ConstantsAssumption DEF Init, AmfPhase
  <1>6. ikeEvt \in Seq(IkeEvt) /\ ngapEvt \in Seq(NgapEvt) BY DEF Init
  <1>7. ue \in [Spi -> [phase: UePhase, id: Nat]] BY Zenon DEF Init, UePhase
  <1> QED BY <1>3, <1>4, <1>5, <1>6, <1>7, ConstantsAssumption DEF Init, TypeOK

\* No step of either loop, of a goroutine or of the environment breaks a type.
LEMMA NextTypeOK == TypeOK /\ [Next]_vars => TypeOK'
  <1> SUFFICES ASSUME TypeOK, [Next]_vars PROVE TypeOK' BY Zenon
  <1>1. CASE UNCHANGED vars
    BY Zenon, <1>1 DEF TypeOK, vars, saVars, ranVars, evtVars, upVars, netVars
  <1> QED BY Zenon, <1>1, IkePacketTypeOK, IkeHandleEventTypeOK, NgapHandleEventTypeOK,
       NgapMessageTypeOK, GoroutineTypeOK, EnvironmentTypeOK DEF Next

\* Every handler of both loops keeps every table, association, channel and counter
\* within its type.
THEOREM TypeCorrect == Spec => []TypeOK
  BY InitTypeOK, NextTypeOK, PTL DEF Spec

-----------------------------------------------------------------------------
(* What the inductive invariant of UeLifecycleInv mentions.                *)

\* What the type invariant says of the values the invariant mentions.
LEMMA Basics ==
    ASSUME TypeOK
    PROVE  /\ Len(ikeEvt) \in Nat /\ Len(ngapEvt) \in Nat
           /\ \A k \in Ike : ikeEvt[k].spi \in Spi /\ ikeEvt[k].id \in RanId
           /\ \A k \in Ngap :
                /\ ngapEvt[k].id \in RanId
                /\ ngapEvt[k].type = "UnmarshalEAP5GData" => ngapEvt[k].spi \in Spi
           /\ \A s \in Spi : /\ ue[s].id \in Nat /\ sa[s].InitiatorMessageID \in Nat
                             /\ IKESPIToNGAPId[s] \in RanId \cup {None}
           /\ \A i \in RanId : NGAPIdToIKESPI[i] \in Spi \cup {None}
           /\ nextRanId \in Nat /\ RanId \subseteq Nat
           /\ IKESA \subseteq Spi /\ RANUePool \subseteq RanId
           /\ \A m \in toN3iwf : m.spi \in Spi /\ m.id \in Nat
           /\ \A m \in toUe : m.spi \in Spi /\ m.id \in Nat
           /\ None \notin Spi /\ None \notin RanId
  <1>1. Len(ikeEvt) \in Nat /\ \A k \in Ike : ikeEvt[k] \in IkeEvt BY EvtType DEF Ike
  <1>2. Len(ngapEvt) \in Nat /\ \A k \in Ngap : ngapEvt[k] \in NgapEvt BY EvtType DEF Ngap
  <1>3. \A k \in Ike : ikeEvt[k].spi \in Spi /\ ikeEvt[k].id \in RanId BY Zenon, <1>1 DEF IkeEvt
  <1>4. \A k \in Ngap :
          /\ ngapEvt[k].id \in RanId
          /\ ngapEvt[k].type = "UnmarshalEAP5GData" => ngapEvt[k].spi \in Spi
    BY Zenon, <1>2 DEF NgapEvt, NgapEvtType
  <1>5. \A s \in Spi : ue[s].id \in Nat BY Zenon, UeType
  <1>6. \A s \in Spi : sa[s].InitiatorMessageID \in Nat BY Zenon, SaType DEF SecurityAssociation
  <1>7. nextRanId \in Nat /\ RanId \subseteq Nat
    <2>1. nextRanId \in 0..(MaxRanId + 1) BY Zenon DEF TypeOK
    <2> QED BY <2>1, ConstantsAssumption DEF RanId
  <1>8. \A m \in toN3iwf : m.spi \in Spi /\ m.id \in Nat BY Zenon, PacketType DEF Request
  <1>9. \A m \in toUe : m.spi \in Spi /\ m.id \in Nat BY Zenon, PacketType DEF ToUe
  <1>10. IKESA \subseteq Spi /\ RANUePool \subseteq RanId BY Zenon DEF TypeOK
  <1> QED BY Zenon, <1>1, <1>2, <1>3, <1>4, <1>5, <1>6, <1>7, <1>8, <1>9, <1>10, MapType,
       ConstantsAssumption, NoneAssumption

\* Nothing but the message sent is added to what the network holds.
LEMMA SentOnly ==
    ASSUME NEW s, NEW k, NEW id, NEW eap, SendIKEMessageToUE(s, k, id, eap)
    PROVE  \A m \in toUe' : m \in toUe \/ (m.spi = s /\ m.id = id)
  BY DEF SendIKEMessageToUE

\* A step that adds no first NAS message and no answer to one, taking the first c events
\* of the NGAP loop and the first d of the IKE loop, keeps FirstNas if the UEs in K,
\* whom those that stay concern, go on waiting.
LEMMA FirstNasKept ==
    ASSUME FirstNas, NEW c \in {0, 1}, NEW d \in {0, 1}, NEW K, \A u \in K : Waiting(u)',
           \A k \in Ngap' : Asked(k)' => /\ k + c \in Ngap /\ Asked(k + c)
                                         /\ ngapEvt'[k] = ngapEvt[k + c]
                                         /\ ngapEvt[k + c].spi \in K,
           \A k \in Ike' : Answered(k)' => /\ k + d \in Ike /\ Answered(k + d)
                                           /\ ikeEvt'[k] = ikeEvt[k + d]
                                           /\ ikeEvt[k + d].spi \in K
    PROVE  FirstNas'
  <1>a. /\ \A k, l \in Ngap' : k + c = l + c => k = l
        /\ \A k, l \in Ike' : k + d = l + d => k = l
    BY DEF Ngap, Ike
  <1>1. \A k \in Ngap' : Asked(k)' => ngapEvt'[k].spi \in K BY Zenon
  <1>2. \A k \in Ike' : Answered(k)' => ikeEvt'[k].spi \in K BY Zenon
  <1>3. ASSUME NEW k \in Ngap', NEW l \in Ngap', Asked(k)', Asked(l)',
               ngapEvt'[k].spi = ngapEvt'[l].spi
        PROVE  k = l
    <2>1. k + c = l + c BY Zenon, <1>3 DEF FirstNas
    <2> QED BY Zenon, <1>a, <2>1
  <1>4. ASSUME NEW k \in Ike', NEW l \in Ike', Answered(k)', Answered(l)',
               ikeEvt'[k].spi = ikeEvt'[l].spi
        PROVE  k = l
    <2>1. k + d = l + d BY Zenon, <1>4 DEF FirstNas
    <2> QED BY Zenon, <1>a, <2>1
  <1>5. ASSUME NEW k \in Ngap', NEW l \in Ike', Asked(k)', Answered(l)'
        PROVE  ngapEvt'[k].spi # ikeEvt'[l].spi
    <2>1. k + c \in Ngap /\ Asked(k + c) /\ ngapEvt'[k] = ngapEvt[k + c] BY Zenon, <1>5
    <2>2. l + d \in Ike /\ Answered(l + d) /\ ikeEvt'[l] = ikeEvt[l + d] BY Zenon, <1>5
    <2>3. ngapEvt[k + c].spi # ikeEvt[l + d].spi BY Zenon, <2>1, <2>2 DEF FirstNas
    <2> QED BY Zenon, <2>1, <2>2, <2>3
  <1> QED BY Zenon, <1>1, <1>2, <1>3, <1>4, <1>5 DEF FirstNas

-----------------------------------------------------------------------------
(* Kinds of steps.                                                         *)

\* An association keeps what the invariant says of it.
SaKeeps ==
    \A s \in Spi :
      /\ sa'[s].InitiatorMessageID = sa[s].InitiatorMessageID
      /\ sa'[s].IkeUE = sa[s].IkeUE
      /\ sa'[s].dpd = "closed" => sa[s].dpd = "closed"
      /\ ue[s].phase = "idle" => sa'[s] = sa[s]

\* The first d events of a channel are taken, d being 0 or 1.
IkeTakes(d) ==
    /\ Len(ikeEvt') = Len(ikeEvt) - d /\ d <= Len(ikeEvt)
    /\ \A k \in 1..Len(ikeEvt') : ikeEvt'[k] = ikeEvt[k + d]

NgapTakes(d) ==
    /\ Len(ngapEvt') = Len(ngapEvt) - d /\ d <= Len(ngapEvt)
    /\ \A k \in 1..Len(ngapEvt') : ngapEvt'[k] = ngapEvt[k + d]

\* The IKE side adds events about mapped RAN UEs.
NgapAdds ==
    /\ Len(ngapEvt') \in Nat /\ Len(ngapEvt) <= Len(ngapEvt')
    /\ \A k \in 1..Len(ngapEvt) : ngapEvt'[k] = ngapEvt[k]
    /\ \A k \in Len(ngapEvt) + 1 .. Len(ngapEvt') :
         /\ ngapEvt'[k].type # "UnmarshalEAP5GData"
         /\ ngapEvt'[k].id # None /\ \E s \in Spi : ngapEvt'[k].id = IKESPIToNGAPId[s]

\* Answers go to UEs that have an IKE UE.
ToUeAdds ==
    \A m \in toUe' : \/ m \in toUe
                     \/ /\ m.spi \in Spi /\ sa[m.spi].IkeUE
                        /\ m.id < sa[m.spi].InitiatorMessageID

\* A step of the IKE side that neither creates nor deletes anything.
LEMMA IkeSideStep ==
    ASSUME TableInv, TypeOK', NEW d \in {0, 1}, IkeTakes(d), d = 1 => ~ Created(1),
           SaKeeps, NgapAdds, ToUeAdds,
           ikeUp' = ikeUp \/ (~ ikeUp' /\ \E s \in Spi : ue[s].phase = "deleting"),
           UNCHANGED <<IKESA, IKESPIToNGAPId, NGAPIdToIKESPI, RANUePool, nextRanId,
                       ue, toN3iwf, amf>>
    PROVE  TableInv'
  <1> USE DEF TableInv
  <1>a. TypeOK BY Zenon
  <1>n. /\ Len(ikeEvt) \in Nat /\ Len(ngapEvt) \in Nat /\ d \in {0, 1}
        /\ IkeTakes(d) /\ NgapAdds
    BY Zenon, <1>a, Basics
  <1>b. \A k \in Ike' : k + d \in Ike /\ ikeEvt'[k] = ikeEvt[k + d] /\ k \in Nat
    BY ONLY <1>n DEF IkeTakes, Ike
  <1>c. \A k \in Ike : ikeEvt[k].spi \in Spi BY Zenon, Basics
  <1>i. \A k \in Ngap' : \/ k \in Ngap /\ ngapEvt'[k] = ngapEvt[k]
                         \/ /\ ngapEvt'[k].type # "UnmarshalEAP5GData" /\ ngapEvt'[k].id # None
                            /\ \E s \in Spi : ngapEvt'[k].id = IKESPIToNGAPId[s]
    BY ONLY <1>n DEF NgapAdds, Ngap
  <1>1. RequestIds'
    <2>1. \A m \in toUe' : m.id < sa'[m.spi].InitiatorMessageID
      BY Zenon, <1>a, Basics DEF RequestIds, SaKeeps, ToUeAdds
    <2>2. \A s \in Spi :
            /\ ue[s].id <= sa'[s].InitiatorMessageID
            /\ sa'[s].InitiatorMessageID <= ue[s].id + 1
            /\ ue[s].phase = "up" => sa'[s].InitiatorMessageID = ue[s].id + 1
            /\ ue[s].phase = "idle" => sa'[s] = NewSa /\ ue[s].id = 0 /\ s \notin IKESA
      BY Zenon DEF RequestIds, SaKeeps
    <2> QED BY Zenon, <2>1, <2>2 DEF RequestIds
  <1>2. FirstNas'
    <2>1. ASSUME NEW s \in Spi, Waiting(s) PROVE Waiting(s)'
      BY Zenon, <2>1 DEF Waiting, SaKeeps, ToUeAdds
    <2>2. \A k \in Ngap' : Asked(k)' => k \in Ngap /\ Asked(k) /\ ngapEvt'[k] = ngapEvt[k]
      BY Zenon, <1>i DEF Asked
    <2>3. \A k \in Ike' : Answered(k)' = Answered(k + d)
      BY Zenon, <1>b DEF Answered, Created
    <2>4. \A k \in Ngap : Asked(k) => ngapEvt[k].spi \in Spi BY Zenon, Basics DEF Asked
    <2> DEFINE K == {s \in Spi : Waiting(s)}
    <2>5. \A k \in Ngap' : k + 0 = k BY ONLY TRUE DEF Ngap
    <2>6. \A k \in Ngap : Asked(k) => ngapEvt[k].spi \in K BY Zenon, <2>4 DEF FirstNas
    <2>7. \A k \in Ike : Answered(k) => ikeEvt[k].spi \in K BY Zenon, <1>c DEF FirstNas
    <2>8. \A u \in K : Waiting(u)' BY Zenon, <2>1
    <2> HIDE DEF K
    <2>9. \A k \in Ngap' : Asked(k)' => /\ k + 0 \in Ngap /\ Asked(k + 0)
                                        /\ ngapEvt'[k] = ngapEvt[k + 0]
                                        /\ ngapEvt[k + 0].spi \in K
      BY ONLY Zenon, <2>2, <2>5, <2>6
    <2>10. \A k \in Ike' : Answered(k)' => /\ k + d \in Ike /\ Answered(k + d)
                                           /\ ikeEvt'[k] = ikeEvt[k + d]
                                           /\ ikeEvt[k + d].spi \in K
      BY ONLY Zenon, <1>b, <2>3, <2>7
    <2>11. FirstNas /\ 0 \in {0, 1} BY Zenon
    <2> QED BY ONLY Zenon, <1>n, <2>8, <2>9, <2>10, <2>11, FirstNasKept
  <1>3. IkeUeFirst'
    <2>1. \A k \in Ike : sa'[ikeEvt[k].spi].IkeUE = sa[ikeEvt[k].spi].IkeUE
      BY Zenon, <1>c DEF SaKeeps
    <2>2. \A i \in RanId : NGAPIdToIKESPI[i] # None =>
            sa'[NGAPIdToIKESPI[i]].IkeUE = sa[NGAPIdToIKESPI[i]].IkeUE
      BY Zenon, Basics DEF SaKeeps
    <2>3. ASSUME NEW k \in Ike', ~ Answered(k)' PROVE sa'[ikeEvt'[k].spi].IkeUE
      <3>1. k + d \in Ike /\ ikeEvt'[k] = ikeEvt[k + d] /\ ~ Answered(k + d)
        BY Zenon, <1>b, <2>3 DEF Answered, Created
      <3>2. sa[ikeEvt[k + d].spi].IkeUE BY Zenon, <3>1 DEF IkeUeFirst
      <3> QED BY ONLY Zenon, <2>1, <3>1, <3>2
    <2> QED BY Zenon, <2>2, <2>3 DEF IkeUeFirst, SaKeeps
  <1>4. FreshIds'
    <2>1. ASSUME NEW k \in Ngap', ~ Asked(k)' PROVE ngapEvt'[k].id < nextRanId
      BY Zenon, <1>i, <2>1 DEF FreshIds, Asked
    <2> QED BY Zenon, <2>1 DEF FreshIds
  <1>5. Unannounced'
    <2>1. \A k \in Ike' : Created(k)' = Created(k + d) BY Zenon, <1>b DEF Created
    <2>2. SUFFICES ASSUME NEW k \in Ike', Created(k + d)
                   PROVE  KnownOnlyHere(k)'
      BY Zenon, <2>1 DEF Unannounced
    <2>3. KnownOnlyHere(k + d) BY Zenon, <1>b, <2>2 DEF Unannounced
    <2>4. \A l \in Ngap' : ngapEvt'[l].type # "UnmarshalEAP5GData" =>
                              ngapEvt'[l].id # ikeEvt[k + d].id
      BY ZenonT(30), <1>i, <2>3 DEF KnownOnlyHere
    <2>5. \A l \in Ike' : Created(l)' /\ ikeEvt'[l].id = ikeEvt[k + d].id => l = k
      BY ONLY <1>b, <1>n, <2>1, <2>2, <2>3 DEF KnownOnlyHere
    <2> QED BY Zenon, <1>b, <2>3, <2>4, <2>5 DEF KnownOnlyHere
  <1>6. OneMapping' BY Zenon DEF OneMapping
  <1>7. MapsAgree'
    <2>1. ASSUME NEW i \in RANUePool, NEW k \in Ike, Created(k), ikeEvt[k].id = i
          PROVE  \E l \in Ike' : ikeEvt'[l].type = "UnmarshalEAP5GDataResponse" /\ ikeEvt'[l].id = i
      <3>1. k - d \in Ike' /\ (k - d) + d = k
        <4>1. k \in Ike /\ (d = 0 \/ k # 1) BY Zenon, <1>n, <2>1
        <4> QED BY ONLY <1>n, <4>1 DEF IkeTakes, Ike
      <3> QED BY Zenon, <1>b, <2>1, <3>1 DEF Created
    <2>2. ASSUME NEW i \in RANUePool, ikeUp, NGAPIdToIKESPI[i] = None
          PROVE  \E l \in Ike' : ikeEvt'[l].type = "UnmarshalEAP5GDataResponse" /\ ikeEvt'[l].id = i
      <3>1. \E k \in Ike : ikeEvt[k].type = "UnmarshalEAP5GDataResponse" /\ ikeEvt[k].id = i
        BY Zenon, <2>2 DEF MapsAgree, Ike
      <3> QED BY Zenon, <2>1, <3>1 DEF Created
    <2>3. ikeUp' => ikeUp BY Zenon
    <2> QED BY Zenon, <2>2, <2>3 DEF MapsAgree, Ike
  <1>8. UplinkToOwnRanUe' BY ZenonT(30), <1>i DEF UplinkToOwnRanUe, Ngap
  <1>9. ClosedSaGone' BY Zenon, Basics DEF ClosedSaGone, SaKeeps
  <1>10. DeleteComesLast'
    <2>1. DeleteComesLast /\ UNCHANGED NGAPIdToIKESPI BY Zenon
    <2> QED BY ONLY <1>b, <1>n, <2>1 DEF DeleteComesLast, UsesSa
  <1>11. UsedSaExists' BY Zenon, <1>b DEF UsedSaExists, UsesSa
  <1>12. MappedSaExists' BY Zenon DEF MappedSaExists
  <1>13. IkeServerSurvives' BY Zenon DEF IkeServerSurvives
  <1> QED BY Zenon, <1>1, <1>2, <1>3, <1>4, <1>5, <1>6, <1>7, <1>8, <1>9, <1>10, <1>11, <1>12, <1>13

\* The NGAP side sends at most one event, about a mapped RAN UE; a Delete goes with
\* the removal of the RAN UE, in R.
IkeAdds(R) ==
    /\ Len(ikeEvt') \in {Len(ikeEvt), Len(ikeEvt) + 1}
    /\ \A k \in 1..Len(ikeEvt) : ikeEvt'[k] = ikeEvt[k]
    /\ Len(ikeEvt') = Len(ikeEvt) + 1 =>
         LET e == ikeEvt'[Len(ikeEvt) + 1] IN
         /\ e.id \in RanId /\ NGAPIdToIKESPI[e.id] # None
         /\ e.spi = NGAPIdToIKESPI[e.id]
         /\ e.type \notin {"UnmarshalEAP5GDataResponse", "SendEAP5GFailureMsg"}
         /\ e.type = "IKEDeleteRequest" => e.id \in R

\* The AMF knows only RAN UEs that were announced to it.
AmfKeeps ==
    \A i \in RanId : amf'[i].phase # "none" =>
      i < nextRanId /\ \A k \in Ike : Created(k) => ikeEvt[k].id # i

\* A step of the NGAP side that creates no RAN UE; those in R are removed.
LEMMA NgapSideStep ==
    ASSUME TableInv, TypeOK', NEW d \in {0, 1}, NgapTakes(d), NEW R \in SUBSET RanId,
           \A k \in Ike : Created(k) => ikeEvt[k].id \notin R,
           RANUePool' = RANUePool \ R,
           \A i \in RanId : NGAPIdToIKESPI'[i] = IF i \in R THEN None ELSE NGAPIdToIKESPI[i],
           IkeAdds(R), AmfKeeps,
           UNCHANGED <<IKESA, sa, IKESPIToNGAPId, nextRanId, ikeUp, ue, toN3iwf, toUe>>
    PROVE  TableInv'
  <1> USE DEF TableInv
  <1>a. TypeOK BY Zenon
  <1>t. /\ Len(ikeEvt) \in Nat /\ Len(ngapEvt) \in Nat /\ d \in {0, 1}
        /\ NgapTakes(d) /\ IkeAdds(R)
    BY Zenon, <1>a, Basics
  <1>b. \A k \in Ngap' : k + d \in Ngap /\ ngapEvt'[k] = ngapEvt[k + d] /\ k \in Nat
    BY ONLY <1>t DEF NgapTakes, Ngap
  <1> DEFINE n == Len(ikeEvt) + 1
             e == ikeEvt'[n]
  <1>c. \A k \in Ike' : k \in Nat /\ ((k \in Ike /\ ikeEvt'[k] = ikeEvt[k]) \/ k = n)
    BY ONLY <1>t DEF IkeAdds, Ike
  <1>d. n \in Ike' =>
          /\ e.id \in RanId /\ NGAPIdToIKESPI[e.id] # None
          /\ e.spi = NGAPIdToIKESPI[e.id] /\ e.spi \in Spi
          /\ e.type \notin {"UnmarshalEAP5GDataResponse", "SendEAP5GFailureMsg"}
          /\ e.type = "IKEDeleteRequest" => e.id \in R
    <2>1. n \in Ike' => Len(ikeEvt') = Len(ikeEvt) + 1 BY ONLY <1>t DEF IkeAdds, Ike
    <2> QED BY Zenon, <1>a, <2>1, Basics DEF IkeAdds
  <1>e. \A k \in Ike : ikeEvt[k].spi \in Spi /\ k \in Nat /\ k < n
    <2>1. \A k \in Ike : k \in Nat /\ k < n BY ONLY <1>t DEF Ike
    <2> QED BY Zenon, <1>a, <2>1, Basics
  <1>f. \A i \in RanId : NGAPIdToIKESPI'[i] # None =>
          i \notin R /\ NGAPIdToIKESPI'[i] = NGAPIdToIKESPI[i] /\ NGAPIdToIKESPI[i] # None
    BY Zenon
  <1> HIDE DEF n, e
  <1>1. RequestIds' BY Zenon DEF RequestIds
  <1>2. FirstNas'
    <2>1. \A s \in Spi : Waiting(s)' = Waiting(s) BY Zenon DEF Waiting
    <2>2. \A k \in Ngap' : Asked(k)' = Asked(k + d) BY Zenon, <1>b DEF Asked
    <2>3. \A k \in Ike' : Answered(k)' => k \in Ike /\ Answered(k) /\ ikeEvt'[k] = ikeEvt[k]
      BY Zenon, <1>c, <1>d DEF Answered, Created, e
    <2>4. \A k \in Ngap : Asked(k) => ngapEvt[k].spi \in Spi BY Zenon, Basics DEF Asked
    <2> DEFINE K == {s \in Spi : Waiting(s)}
    <2>5. \A k \in Ike' : k + 0 = k BY ONLY <1>c
    <2>6. \A k \in Ngap : Asked(k) => ngapEvt[k].spi \in K BY Zenon, <2>4 DEF FirstNas
    <2>7. \A k \in Ike : Answered(k) => ikeEvt[k].spi \in K BY Zenon, <1>e DEF FirstNas
    <2>8. \A u \in K : Waiting(u)' BY Zenon, <2>1
    <2> HIDE DEF K
    <2>9. \A k \in Ngap' : Asked(k)' => /\ k + d \in Ngap /\ Asked(k + d)
                                        /\ ngapEvt'[k] = ngapEvt[k + d]
                                        /\ ngapEvt[k + d].spi \in K
      BY ONLY Zenon, <1>b, <2>2, <2>6
    <2>10. \A k \in Ike' : Answered(k)' => /\ k + 0 \in Ike /\ Answered(k + 0)
                                           /\ ikeEvt'[k] = ikeEvt[k + 0]
                                           /\ ikeEvt[k + 0].spi \in K
      BY ONLY Zenon, <2>3, <2>5, <2>7
    <2>11. FirstNas /\ 0 \in {0, 1} BY Zenon
    <2> QED BY ONLY Zenon, <1>t, <2>8, <2>9, <2>10, <2>11, FirstNasKept
  <1>3. IkeUeFirst'
    <2>1. \A k \in Ike' : ~ Answered(k)' => sa[ikeEvt'[k].spi].IkeUE
      BY Zenon, <1>c, <1>d DEF IkeUeFirst, Answered, Created, e
    <2> QED BY Zenon, <1>f, <2>1 DEF IkeUeFirst
  <1>4. FreshIds' BY ZenonT(30), <1>b DEF FreshIds, AmfKeeps, Asked
  <1>5. Unannounced'
    <2>1. \A k \in Ike' : Created(k)' => k \in Ike /\ Created(k) /\ ikeEvt'[k] = ikeEvt[k]
      BY Zenon, <1>c, <1>d DEF Created, e
    <2>2. SUFFICES ASSUME NEW k \in Ike, Created(k), ikeEvt'[k] = ikeEvt[k]
                   PROVE  KnownOnlyHere(k)'
      BY Zenon, <2>1 DEF Unannounced
    <2>3. KnownOnlyHere(k) /\ ikeEvt[k].id \in RanId BY Zenon, <2>2, Basics DEF Unannounced
    <2>4. amf'[ikeEvt[k].id].phase = "none" BY Zenon, <2>2, <2>3 DEF AmfKeeps
    <2>5. \A l \in Ngap' : ngapEvt'[l].type # "UnmarshalEAP5GData" =>
                              ngapEvt'[l].id # ikeEvt[k].id
      BY ZenonT(30), <1>b, <2>3 DEF KnownOnlyHere
    <2>6. \A l \in Ike' : Created(l)' /\ ikeEvt'[l].id = ikeEvt[k].id => l = k
      BY Zenon, <2>1, <2>3 DEF KnownOnlyHere
    <2>7. ikeEvt[k].id \in RANUePool' /\ NGAPIdToIKESPI'[ikeEvt[k].id] = None
      BY Zenon, <2>2, <2>3 DEF KnownOnlyHere
    <2> QED BY Zenon, <2>2, <2>3, <2>4, <2>5, <2>6, <2>7 DEF KnownOnlyHere
  <1>6. OneMapping' BY Zenon, <1>f DEF OneMapping
  <1>7. MapsAgree'
    <2>1. \A s \in Spi : LET i == IKESPIToNGAPId[s] IN
            /\ i \in RANUePool' => NGAPIdToIKESPI'[i] = s
            /\ i # None => \A u \in Spi \ {s} : IKESPIToNGAPId[u] # i
      BY Zenon, Basics DEF MapsAgree
    <2>2. \A i \in RanId : NGAPIdToIKESPI'[i] # None => i \in RANUePool'
      BY Zenon, <1>f DEF MapsAgree
    <2>3. ASSUME NEW i \in RANUePool', ikeUp, NGAPIdToIKESPI'[i] = None
          PROVE  \E k \in Ike' : ikeEvt'[k].type = "UnmarshalEAP5GDataResponse"
                                 /\ ikeEvt'[k].id = i
      <3>1. i \in RANUePool /\ NGAPIdToIKESPI[i] = None BY Zenon, <2>3, Basics
      <3>2. PICK k \in Ike : Created(k) /\ ikeEvt[k].id = i
        BY Zenon, <2>3, <3>1 DEF MapsAgree, Ike, Created
      <3>3. k \in Ike' /\ ikeEvt'[k] = ikeEvt[k]
        <4>1. k \in Ike BY Zenon
        <4> QED BY ONLY <1>t, <4>1 DEF IkeAdds, Ike
      <3> QED BY Zenon, <3>2, <3>3 DEF Created
    <2> QED BY Zenon, <2>1, <2>2, <2>3 DEF MapsAgree, Ike
  <1>8. UplinkToOwnRanUe'
    <2>1. ASSUME NEW k \in Ngap', ngapEvt'[k].type = "UnmarshalEAP5GData",
                 ngapEvt'[k].initial, ngapEvt'[k].id \in RANUePool'
          PROVE  NGAPIdToIKESPI'[ngapEvt'[k].id] = ngapEvt'[k].spi
      <3>1. k + d \in Ngap /\ ngapEvt'[k] = ngapEvt[k + d] BY Zenon, <1>b
      <3>2. ngapEvt[k + d].id \in RANUePool /\ ngapEvt[k + d].id \in RanId \ R
        BY Zenon, <1>a, <2>1, <3>1, Basics
      <3>3. NGAPIdToIKESPI[ngapEvt[k + d].id] = ngapEvt[k + d].spi
        BY Zenon, <2>1, <3>1, <3>2 DEF UplinkToOwnRanUe, Ngap
      <3> QED BY Zenon, <3>1, <3>2, <3>3
    <2> QED BY Zenon, <2>1 DEF UplinkToOwnRanUe, Ngap
  <1>9. ClosedSaGone' BY Zenon DEF ClosedSaGone
  <1>10. DeleteComesLast'
    <2>1. ASSUME NEW k \in Ike', ikeEvt'[k].type = "IKEDeleteRequest", NEW i \in RanId
          PROVE  NGAPIdToIKESPI'[i] # ikeEvt'[k].spi
      <3>1. CASE k \in Ike /\ ikeEvt'[k] = ikeEvt[k]
        <4>1. NGAPIdToIKESPI[i] # ikeEvt[k].spi BY Zenon, <2>1, <3>1 DEF DeleteComesLast
        <4>2. ikeEvt[k].spi # None BY Zenon, <1>e, <3>1, ConstantsAssumption
        <4> QED BY Zenon, <1>f, <2>1, <3>1, <4>1, <4>2
      <3>2. CASE k = n
        <4>1. e.id \in R /\ e.id \in RanId /\ e.spi = NGAPIdToIKESPI[e.id] /\ e.spi # None
          BY Zenon, <1>d, <2>1, <3>2 DEF e
        <4>2. ASSUME NGAPIdToIKESPI'[i] = e.spi PROVE FALSE
          <5>1. i \notin R /\ NGAPIdToIKESPI[i] = e.spi BY Zenon, <1>f, <4>1, <4>2
          <5>2. i = e.id BY ZenonT(30), <4>1, <5>1 DEF OneMapping
          <5> QED BY Zenon, <4>1, <5>1, <5>2
        <4> QED BY Zenon, <3>2, <4>2 DEF e
      <3> QED BY Zenon, <1>c, <3>1, <3>2
    <2>2. ASSUME NEW k \in Ike', ikeEvt'[k].type = "IKEDeleteRequest",
                 NEW l \in Ike', k < l, UsesSa(l)'
          PROVE  ikeEvt'[l].spi # ikeEvt'[k].spi
      <3>1. k \in Ike /\ ikeEvt'[k] = ikeEvt[k]
        <4>1. CASE k = n
          <5>1. l \in Nat /\ (l \in Ike \/ l = n) BY Zenon, <1>c
          <5>2. l <= n /\ n \in Nat BY ONLY <1>e, <1>t, <5>1 DEF n
          <5> QED BY ONLY <2>2, <4>1, <5>1, <5>2
        <4> QED BY Zenon, <1>c, <4>1
      <3>2. CASE l \in Ike /\ ikeEvt'[l] = ikeEvt[l]
        BY Zenon, <2>2, <3>1, <3>2 DEF DeleteComesLast, UsesSa
      <3>3. CASE l = n
        BY ZenonT(30), <1>d, <2>2, <3>1, <3>3 DEF DeleteComesLast, e
      <3> QED BY Zenon, <1>c, <3>2, <3>3
    <2> QED BY Zenon, <2>1, <2>2 DEF DeleteComesLast
  <1>11. UsedSaExists'
    <2>1. ASSUME NEW k \in Ike', UsesSa(k)', ue[ikeEvt'[k].spi].phase # "deleting"
          PROVE  ikeEvt'[k].spi \in IKESA
      <3>1. CASE k \in Ike /\ ikeEvt'[k] = ikeEvt[k]
        BY Zenon, <2>1, <3>1 DEF UsedSaExists, UsesSa
      <3>2. CASE k = n BY Zenon, <1>d, <2>1, <3>2 DEF MappedSaExists, e
      <3> QED BY Zenon, <1>c, <3>1, <3>2
    <2> QED BY Zenon, <2>1 DEF UsedSaExists
  <1>12. MappedSaExists' BY Zenon, <1>f DEF MappedSaExists
  <1>13. IkeServerSurvives' BY Zenon DEF IkeServerSurvives
  <1> QED BY Zenon, <1>1, <1>2, <1>3, <1>4, <1>5, <1>6, <1>7, <1>8, <1>9, <1>10, <1>11, <1>12, <1>13

\* The UE sends its next request, or learns how it stands.
LEMMA UeStep ==
    ASSUME TableInv, TypeOK', NEW s \in Spi,
           \A u \in Spi \ {s} : ue'[u] = ue[u],
           ue[s].phase \notin {"idle", "deleting"}, ue'[s].phase # "idle",
           \/ /\ ue'[s].id = ue[s].id + 1 /\ ue'[s].phase # "up"
              /\ sa[s].InitiatorMessageID = ue[s].id + 1 /\ ~ Waiting(s)
           \/ /\ ue'[s].id = ue[s].id
              /\ ue'[s].phase = "up" =>
                   sa[s].InitiatorMessageID = ue[s].id + 1 /\ ~ Waiting(s),
           \A m \in toN3iwf' :
             \/ m \in toN3iwf
             \/ /\ m.spi = s /\ m.id = ue[s].id + 1 /\ ue'[s].id = m.id
                /\ m.kind = "delete" => ue'[s].phase = "deleting",
           UNCHANGED <<IKESA, sa, IKESPIToNGAPId, NGAPIdToIKESPI, RANUePool, nextRanId,
                       ikeEvt, ngapEvt, ikeUp, toUe, amf>>
    PROVE  TableInv'
  <1> USE DEF TableInv
  <1>a. TypeOK BY Zenon
  <1>b. \A u \in Spi : ue'[u].phase # "deleting" => ue[u].phase # "deleting" BY Zenon
  <1>c. /\ ue[s].id \in Nat /\ sa[s].InitiatorMessageID \in Nat /\ s \in Spi
        /\ ue'[s].id \in {ue[s].id, ue[s].id + 1}
    BY Zenon, <1>a, Basics
  <1>1. RequestIds'
    <2>1. \A m \in toN3iwf' : /\ 0 < m.id /\ m.id <= ue'[m.spi].id
                              /\ m.kind = "delete" => ue'[m.spi].phase = "deleting"
      <3>1. ASSUME NEW m \in toN3iwf
            PROVE  /\ 0 < m.id /\ m.id <= ue'[m.spi].id
                   /\ m.kind = "delete" => ue'[m.spi].phase = "deleting"
        <4>1. /\ 0 < m.id /\ m.id <= ue[m.spi].id /\ m.spi \in Spi /\ m.id \in Nat
              /\ m.kind = "delete" => ue[m.spi].phase = "deleting"
          BY Zenon, <1>a, <3>1, Basics DEF RequestIds
        <4>2. CASE m.spi = s
          <5>1. m.kind # "delete" BY Zenon, <4>1, <4>2
          <5> QED BY ONLY <1>c, <4>1, <4>2, <5>1
        <4>3. CASE m.spi # s BY Zenon, <4>1, <4>3
        <4> QED BY Zenon, <4>2, <4>3
      <3>2. ASSUME NEW m, m.spi = s, m.id = ue[s].id + 1, ue'[s].id = m.id,
                   m.kind = "delete" => ue'[s].phase = "deleting"
            PROVE  /\ 0 < m.id /\ m.id <= ue'[m.spi].id
                   /\ m.kind = "delete" => ue'[m.spi].phase = "deleting"
        BY ONLY <1>c, <3>2
      <3> QED BY Zenon, <3>1, <3>2
    <2>2. \A u \in Spi :
            /\ ue'[u].id <= sa[u].InitiatorMessageID
            /\ sa[u].InitiatorMessageID <= ue'[u].id + 1
            /\ ue'[u].phase = "up" => sa[u].InitiatorMessageID = ue'[u].id + 1
            /\ ue'[u].phase = "idle" => sa[u] = NewSa /\ ue'[u].id = 0 /\ u \notin IKESA
      <3>1. ASSUME NEW u \in Spi \ {s}
            PROVE  /\ ue'[u].id <= sa[u].InitiatorMessageID
                   /\ sa[u].InitiatorMessageID <= ue'[u].id + 1
                   /\ ue'[u].phase = "up" => sa[u].InitiatorMessageID = ue'[u].id + 1
                   /\ ue'[u].phase = "idle" => sa[u] = NewSa /\ ue'[u].id = 0 /\ u \notin IKESA
        BY Zenon DEF RequestIds
      <3>2. /\ ue[s].id <= sa[s].InitiatorMessageID /\ sa[s].InitiatorMessageID <= ue[s].id + 1
            /\ ue'[s].phase # "idle"
            /\ \/ ue'[s].id = ue[s].id + 1 /\ ue'[s].phase # "up"
                  /\ sa[s].InitiatorMessageID = ue[s].id + 1
               \/ ue'[s].id = ue[s].id
                  /\ (ue'[s].phase = "up" => sa[s].InitiatorMessageID = ue[s].id + 1)
        BY Zenon DEF RequestIds
      <3>3. /\ ue'[s].id <= sa[s].InitiatorMessageID
            /\ sa[s].InitiatorMessageID <= ue'[s].id + 1
            /\ ue'[s].phase = "up" => sa[s].InitiatorMessageID = ue'[s].id + 1
        BY ONLY <1>c, <3>2
      <3> QED BY Zenon, <3>1, <3>2, <3>3
    <2> QED BY Zenon, <2>1, <2>2 DEF RequestIds
  <1>2. FirstNas'
    <2>1. \A u \in Spi : Waiting(u) => Waiting(u)' BY Zenon DEF Waiting
    <2>2. \A k \in Ngap : Asked(k) => ngapEvt[k].spi \in Spi BY Zenon, Basics DEF Asked
    <2>3. \A k \in Ike : ikeEvt[k].spi \in Spi BY Zenon, Basics
    <2>4. /\ Ngap' = Ngap /\ \A k \in Ngap : Asked(k)' = Asked(k)
          /\ Ike' = Ike /\ \A k \in Ike : Answered(k)' = Answered(k)
      BY Zenon DEF Ngap, Ike, Asked, Answered, Created
    <2> QED BY Zenon, <2>1, <2>2, <2>3, <2>4 DEF FirstNas
  <1>3. IkeUeFirst' BY Zenon DEF IkeUeFirst, Ike, Answered, Created
  <1>4. FreshIds' BY Zenon DEF FreshIds, Ngap, Asked
  <1>5. Unannounced' BY Zenon DEF Unannounced, KnownOnlyHere, Ike, Ngap, Created
  <1>6. OneMapping' BY Zenon DEF OneMapping
  <1>7. MapsAgree' BY ZenonT(30) DEF MapsAgree
  <1>8. UplinkToOwnRanUe' BY Zenon DEF UplinkToOwnRanUe
  <1>9. ClosedSaGone' BY Zenon DEF ClosedSaGone
  <1>10. DeleteComesLast' BY Zenon DEF DeleteComesLast, Ike, UsesSa
  <1>11. UsedSaExists' BY Zenon, <1>b, Basics DEF UsedSaExists, Ike, UsesSa
  <1>12. MappedSaExists' BY Zenon, <1>b, Basics DEF MappedSaExists
  <1>13. IkeServerSurvives' BY Zenon DEF IkeServerSurvives
  <1> QED BY Zenon, <1>1, <1>2, <1>3, <1>4, <1>5, <1>6, <1>7, <1>8, <1>9, <1>10, <1>11, <1>12, <1>13

-----------------------------------------------------------------------------
(* The handlers of both loops keep TableInv.                               *)

\* IKE_SA_INIT: an association appears, as NewSa.
LEMMA SaInitStep ==
    ASSUME TableInv, TypeOK', NEW s \in Spi, HandleIKESAINIT(s)
    PROVE  TableInv'
  <1> USE DEF TableInv
  <1>a. TypeOK BY Zenon
  <1>b. /\ ue[s].phase = "idle" /\ ue'[s].phase = "wait" /\ ue'[s].id = ue[s].id
        /\ \A u \in Spi \ {s} : ue'[u] = ue[u]
    BY Zenon, UeType DEF HandleIKESAINIT
  <1>c. sa[s] = NewSa /\ sa[s].InitiatorMessageID = 1 /\ ~ sa[s].IkeUE /\ sa[s].dpd = "off"
    <2>1. NewSa.InitiatorMessageID = 1 /\ ~ NewSa.IkeUE /\ NewSa.dpd = "off" BY Zenon DEF NewSa
    <2>2. sa[s] = NewSa BY Zenon, <1>b DEF RequestIds
    <2> QED BY Zenon, <2>1, <2>2
  <1>d. sa' = sa BY Zenon, <1>c, SaType DEF HandleIKESAINIT
  <1>e. /\ IKESA' = IKESA \cup {s}
        /\ UNCHANGED <<IKESPIToNGAPId, NGAPIdToIKESPI, RANUePool, nextRanId, ikeEvt,
                       ngapEvt, ikeUp, toN3iwf, amf>>
    BY Zenon DEF HandleIKESAINIT, ranVars, evtVars, upVars
  <1>f. \A m \in toUe' : m \in toUe \/ (m.spi = s /\ m.id = 0)
    <2>1. SendIKEMessageToUE(s, "init", 0, 0) BY Zenon DEF HandleIKESAINIT
    <2> QED BY Zenon, <2>1, SentOnly
  <1>g. \A u \in Spi : ue'[u].phase # "deleting" => ue[u].phase # "deleting" BY Zenon, <1>b
  <1>1. RequestIds'
    <2>1. \A m \in toN3iwf : /\ 0 < m.id /\ m.id <= ue'[m.spi].id
                             /\ m.kind = "delete" => ue'[m.spi].phase = "deleting"
      BY Zenon, <1>a, <1>b, Basics DEF RequestIds
    <2>2. \A m \in toUe' : m.id < sa[m.spi].InitiatorMessageID
      <3>1. 0 < sa[s].InitiatorMessageID BY ONLY <1>c
      <3> QED BY Zenon, <1>f, <3>1 DEF RequestIds
    <2>3. \A u \in Spi :
            /\ ue'[u].id <= sa[u].InitiatorMessageID
            /\ sa[u].InitiatorMessageID <= ue'[u].id + 1
            /\ ue'[u].phase = "up" => sa[u].InitiatorMessageID = ue'[u].id + 1
            /\ ue'[u].phase = "idle" => sa[u] = NewSa /\ ue'[u].id = 0 /\ u \notin IKESA'
      BY ZenonT(30), <1>b, <1>e DEF RequestIds
    <2> QED BY Zenon, <1>d, <1>e, <2>1, <2>2, <2>3 DEF RequestIds
  <1>2. FirstNas'
    <2>1. \A u \in Spi : Waiting(u) => Waiting(u)' BY Zenon, <1>b, <1>d, <1>e, <1>f DEF Waiting
    <2>2. \A k \in Ngap : Asked(k) => ngapEvt[k].spi \in Spi BY Zenon, Basics DEF Asked
    <2>3. \A k \in Ike : ikeEvt[k].spi \in Spi BY Zenon, Basics
    <2>4. /\ Ngap' = Ngap /\ \A k \in Ngap : Asked(k)' = Asked(k)
          /\ Ike' = Ike /\ \A k \in Ike : Answered(k)' = Answered(k)
      BY Zenon, <1>e DEF Ngap, Ike, Asked, Answered, Created
    <2> QED BY Zenon, <1>e, <2>1, <2>2, <2>3, <2>4 DEF FirstNas
  <1>3. IkeUeFirst' BY Zenon, <1>c, <1>d, <1>e DEF IkeUeFirst, Ike, Answered, Created
  <1>4. FreshIds' BY Zenon, <1>e DEF FreshIds, Ngap, Asked
  <1>5. Unannounced' BY Zenon, <1>e DEF Unannounced, KnownOnlyHere, Ike, Ngap, Created
  <1>6. OneMapping' BY Zenon, <1>e DEF OneMapping
  <1>7. MapsAgree' BY Zenon, <1>e DEF MapsAgree
  <1>8. UplinkToOwnRanUe' BY Zenon, <1>e DEF UplinkToOwnRanUe
  <1>9. ClosedSaGone' BY Zenon, <1>c, <1>d, <1>e DEF ClosedSaGone
  <1>10. DeleteComesLast' BY Zenon, <1>e DEF DeleteComesLast, Ike, UsesSa
  <1>11. UsedSaExists' BY Zenon, <1>e, <1>g, Basics DEF UsedSaExists, Ike, UsesSa
  <1>12. MappedSaExists' BY Zenon, <1>e, <1>g, Basics DEF MappedSaExists
  <1>13. IkeServerSurvives' BY Zenon, <1>b, <1>e DEF IkeServerSurvives
  <1> QED BY Zenon, <1>1, <1>2, <1>3, <1>4, <1>5, <1>6, <1>7, <1>8, <1>9, <1>10, <1>11, <1>12, <1>13

\* HandleIKEAUTH hands a NAS message of the UE to the NGAP loop.
NasForwarded(s) ==
    /\ Len(ngapEvt') = Len(ngapEvt) + 1
    /\ \A k \in 1..Len(ngapEvt) : ngapEvt'[k] = ngapEvt[k]
    /\ LET e == ngapEvt'[Len(ngapEvt) + 1] IN
       /\ e.type = "UnmarshalEAP5GData" /\ e.spi = s /\ e.id = NgapIdOrZero(s)
       /\ e.initial = sa[s].IkeUE
    /\ toUe' = toUe

\* HandleIKEAUTH: a request consumes its message ID and is answered, or handed to
\* the NGAP loop.
LEMMA IkeAuthStep ==
    ASSUME TableInv, TypeOK', NEW req \in toN3iwf, NEW s, s = req.spi,
           s \in IKESA, req.id = sa[s].InitiatorMessageID,
           \A u \in Spi \ {s} : sa'[u] = sa[u],
           sa'[s].InitiatorMessageID = req.id + 1,
           sa'[s].IkeUE = sa[s].IkeUE, sa'[s].dpd = sa[s].dpd,
           \A x \in toUe' : x \in toUe \/ (x.spi = s /\ x.id = req.id),
           NgapAdds \/ NasForwarded(s),
           UNCHANGED <<IKESA, IKESPIToNGAPId, NGAPIdToIKESPI, RANUePool, nextRanId,
                       ikeEvt, ikeUp, ue, toN3iwf, amf>>
    PROVE  TableInv'
  <1> USE DEF TableInv
  <1>a. TypeOK /\ s \in Spi BY Zenon, Basics
  <1>b. /\ sa[s].InitiatorMessageID = ue[s].id /\ ue[s].phase \notin {"idle", "up"}
        /\ sa[s].InitiatorMessageID \in Nat /\ ue[s].id \in Nat
    <2>1. /\ req.id <= ue[s].id /\ ue[s].id <= sa[s].InitiatorMessageID
          /\ req.id \in Nat /\ ue[s].id \in Nat /\ sa[s].InitiatorMessageID \in Nat
          /\ ue[s].phase = "up" => sa[s].InitiatorMessageID = ue[s].id + 1
          /\ ue[s].phase # "idle" /\ req.id = sa[s].InitiatorMessageID
      BY Zenon, <1>a, Basics DEF RequestIds
    <2> QED BY ONLY <2>1
  <1>c. \A u \in Spi : sa'[u].IkeUE = sa[u].IkeUE /\ sa'[u].dpd = sa[u].dpd BY Zenon, <1>a
  <1>d. ~ Waiting(s)
    <2>1. sa[s].InitiatorMessageID # ue[s].id + 1 BY ONLY <1>b
    <2> QED BY Zenon, <2>1 DEF Waiting
  <1>e. \A k \in Ike : ikeEvt[k].spi \in Spi BY Zenon, Basics
  <1>n. Len(ngapEvt) \in Nat /\ (NgapAdds \/ NasForwarded(s)) BY Zenon, <1>a, Basics
  <1>f. \A k \in Ngap : k \in Ngap' /\ ngapEvt'[k] = ngapEvt[k]
    BY ONLY <1>n DEF NgapAdds, NasForwarded, Ngap
  <1>g. \A k \in Ngap' : ngapEvt'[k].type # "UnmarshalEAP5GData" =>
          \/ k \in Ngap
          \/ \E u \in Spi : IKESPIToNGAPId[u] # None /\ ngapEvt'[k].id = IKESPIToNGAPId[u]
    BY ONLY <1>n DEF NgapAdds, NasForwarded, Ngap
  <1>h. \A k \in Ngap' : ngapEvt'[k].type = "UnmarshalEAP5GData" =>
          \/ k \in Ngap
          \/ /\ k = Len(ngapEvt) + 1 /\ ngapEvt'[k].spi = s
             /\ ngapEvt'[k].id = NgapIdOrZero(s) /\ ngapEvt'[k].initial = sa[s].IkeUE
             /\ toUe' = toUe
    BY ONLY <1>n DEF NgapAdds, NasForwarded, Ngap
  <1>i. sa[s].IkeUE => IKESPIToNGAPId[s] # None /\ NgapIdOrZero(s) = IKESPIToNGAPId[s]
    BY Zenon, <1>a DEF IkeUeFirst, NgapIdOrZero
  <1>m. req.id \in Nat /\ sa'[s].InitiatorMessageID = req.id + 1 BY Zenon, <1>b
  <1>1. RequestIds'
    <2>1. ASSUME NEW x \in toUe' PROVE x.id < sa'[x.spi].InitiatorMessageID
      <3>1. CASE x \in toUe /\ x.spi # s BY Zenon, <3>1, Basics DEF RequestIds
      <3>2. CASE x \in toUe /\ x.spi = s
        <4>1. x.id \in Nat /\ x.id < req.id BY ZenonT(30), <1>a, <3>2, Basics DEF RequestIds
        <4> QED BY ONLY <1>m, <3>2, <4>1
      <3>3. CASE x.spi = s /\ x.id = req.id BY ONLY <1>m, <3>3
      <3> QED BY Zenon, <3>1, <3>2, <3>3
    <2>2. \A u \in Spi : /\ ue[u].id <= sa'[u].InitiatorMessageID
                         /\ sa'[u].InitiatorMessageID <= ue[u].id + 1
                         /\ ue[u].phase = "up" => sa'[u].InitiatorMessageID = ue[u].id + 1
      <3>1. \A u \in Spi \ {s} :
              /\ ue[u].id <= sa'[u].InitiatorMessageID
              /\ sa'[u].InitiatorMessageID <= ue[u].id + 1
              /\ ue[u].phase = "up" => sa'[u].InitiatorMessageID = ue[u].id + 1
        BY Zenon DEF RequestIds
      <3>2. req.id = ue[s].id BY Zenon, <1>b
      <3>3. ue[s].id <= sa'[s].InitiatorMessageID /\ sa'[s].InitiatorMessageID <= ue[s].id + 1
        BY ONLY <1>m, <3>2
      <3> QED BY Zenon, <1>b, <3>1, <3>3
    <2>3. \A u \in Spi : ue[u].phase = "idle" =>
            sa'[u] = NewSa /\ ue[u].id = 0 /\ u \notin IKESA
      BY Zenon, <1>a, <1>b DEF RequestIds
    <2>4. \A x \in toN3iwf : /\ 0 < x.id /\ x.id <= ue[x.spi].id
                             /\ x.kind = "delete" => ue[x.spi].phase = "deleting"
      BY Zenon DEF RequestIds
    <2> QED BY Zenon, <2>1, <2>2, <2>3, <2>4 DEF RequestIds
  <1>2. FirstNas'
    <2>1. \A u \in Spi : Waiting(u) => u # s /\ Waiting(u)' BY ZenonT(30), <1>d DEF Waiting
    <2>2. ~ sa[s].IkeUE /\ toUe' = toUe => Waiting(s)'
      <3>1. \A x \in toUe : x.spi = s => x.id # ue[s].id
        <4>1. ASSUME NEW x \in toUe, x.spi = s PROVE x.id # ue[s].id
          <5>1. x.id \in Nat /\ x.id < sa[s].InitiatorMessageID BY Zenon, <1>a, <4>1, Basics DEF RequestIds
          <5> QED BY ONLY <1>b, <5>1
        <4> QED BY Zenon, <4>1
      <3>2. sa'[s].InitiatorMessageID = ue[s].id + 1 BY Zenon, <1>b, <1>m
      <3> QED BY Zenon, <1>b, <3>1, <3>2 DEF Waiting
    <2>3. \A k \in Ngap : Asked(k) => ngapEvt[k].spi \in Spi BY Zenon, Basics DEF Asked
    <2>4. \A k \in Ngap' : Asked(k)' =>
            \/ k \in Ngap /\ Asked(k) /\ ngapEvt'[k] = ngapEvt[k]
            \/ k = Len(ngapEvt) + 1 /\ ngapEvt'[k].spi = s /\ ~ sa[s].IkeUE /\ toUe' = toUe
      BY Zenon, <1>f, <1>h DEF Asked
    <2>5. \A k \in Ike : Answered(k)' = Answered(k) BY Zenon DEF Answered, Created
    <2>6. Ike' = Ike BY Zenon DEF Ike
    <2>7. \A k \in Ngap', u \in Spi : Asked(k)' /\ u = ngapEvt'[k].spi => Waiting(u)'
      BY ZenonT(30), <2>1, <2>2, <2>3, <2>4 DEF FirstNas
    <2>10. \A k \in Ngap' : Asked(k)' => ngapEvt'[k].spi \in Spi BY Zenon, Basics, <1>a, <2>3, <2>4
    <2>8. \A k, l \in Ngap' :
            Asked(k)' /\ Asked(l)' /\ ngapEvt'[k].spi = ngapEvt'[l].spi => k = l
      <3>1. \A k \in Ngap : Asked(k) => ngapEvt[k].spi # s BY Zenon, <2>1, <2>3 DEF FirstNas
      <3>2. \A k, l \in Ngap : Asked(k) /\ Asked(l) /\ ngapEvt[k].spi = ngapEvt[l].spi => k = l
        BY Zenon DEF FirstNas
      <3> QED BY ONLY ZenonT(30), <2>4, <3>1, <3>2
    <2>9. \A k \in Ngap', l \in Ike :
            Asked(k)' /\ Answered(l) => ngapEvt'[k].spi # ikeEvt[l].spi
      <3>1. \A l \in Ike : Answered(l) => ikeEvt[l].spi # s BY Zenon, <1>e, <2>1 DEF FirstNas
      <3>2. \A k \in Ngap, l \in Ike : Asked(k) /\ Answered(l) => ngapEvt[k].spi # ikeEvt[l].spi
        BY Zenon DEF FirstNas
      <3> QED BY ONLY ZenonT(30), <2>4, <3>1, <3>2
    <2> QED BY ZenonT(30), <1>e, <2>1, <2>5, <2>6, <2>7, <2>8, <2>9, <2>10 DEF FirstNas
  <1>3. IkeUeFirst'
    <2>1. \A i \in RanId : NGAPIdToIKESPI[i] # None =>
            sa'[NGAPIdToIKESPI[i]].IkeUE = sa[NGAPIdToIKESPI[i]].IkeUE
      BY Zenon, <1>c, Basics
    <2> QED BY Zenon, <1>c, <1>e, <2>1 DEF IkeUeFirst, Ike, Answered, Created
  <1>4. FreshIds'
    <2>1. ASSUME NEW k \in Ngap', ~ Asked(k)' PROVE ngapEvt'[k].id < nextRanId
      <3>1. CASE k \in Ngap BY Zenon, <1>f, <2>1, <3>1 DEF FreshIds, Asked
      <3>2. CASE k \notin Ngap /\ ngapEvt'[k].type # "UnmarshalEAP5GData"
        BY Zenon, <1>g, <3>2 DEF FreshIds
      <3>3. CASE k \notin Ngap /\ ngapEvt'[k].type = "UnmarshalEAP5GData"
        <4>1. /\ ngapEvt'[k].id = NgapIdOrZero(s) /\ ngapEvt'[k].initial = sa[s].IkeUE
          BY Zenon, <1>h, <3>3
        <4>2. sa[s].IkeUE BY Zenon, <2>1, <3>3, <4>1 DEF Asked
        <4> QED BY Zenon, <1>a, <1>i, <4>1, <4>2 DEF FreshIds
      <3> QED BY Zenon, <3>1, <3>2, <3>3
    <2> QED BY Zenon, <2>1 DEF FreshIds
  <1>5. Unannounced'
    <2>1. ASSUME NEW k \in Ike, KnownOnlyHere(k),
                 NEW l \in Ngap', ngapEvt'[l].type # "UnmarshalEAP5GData"
          PROVE  ngapEvt'[l].id # ikeEvt[k].id
      <3>1. CASE l \in Ngap BY Zenon, <1>f, <2>1, <3>1 DEF KnownOnlyHere
      <3>2. CASE l \notin Ngap BY Zenon, <1>g, <2>1, <3>2 DEF KnownOnlyHere
      <3> QED BY Zenon, <3>1, <3>2
    <2> QED BY ZenonT(30), <2>1 DEF Unannounced, KnownOnlyHere, Ike, Created
  <1>6. OneMapping' BY Zenon DEF OneMapping
  <1>7. MapsAgree' BY Zenon DEF MapsAgree
  <1>8. UplinkToOwnRanUe'
    <2>1. ASSUME NEW k \in Ngap', ngapEvt'[k].type = "UnmarshalEAP5GData",
                 ngapEvt'[k].initial, ngapEvt'[k].id \in RANUePool
          PROVE  NGAPIdToIKESPI[ngapEvt'[k].id] = ngapEvt'[k].spi
      <3>1. CASE k \in Ngap BY ZenonT(30), <1>f, <2>1, <3>1 DEF UplinkToOwnRanUe, Ngap
      <3>2. CASE k \notin Ngap
        <4>1. /\ ngapEvt'[k].spi = s /\ ngapEvt'[k].id = NgapIdOrZero(s)
              /\ ngapEvt'[k].initial = sa[s].IkeUE
          BY Zenon, <1>h, <2>1, <3>2
        <4>2. ngapEvt'[k].id = IKESPIToNGAPId[s] BY Zenon, <1>i, <2>1, <4>1
        <4>3. IKESPIToNGAPId[s] \in RANUePool BY Zenon, <2>1, <4>2
        <4>4. NGAPIdToIKESPI[IKESPIToNGAPId[s]] = s BY Zenon, <1>a, <4>3 DEF MapsAgree
        <4> QED BY ONLY Zenon, <4>1, <4>2, <4>4
      <3> QED BY Zenon, <3>1, <3>2
    <2> QED BY Zenon, <2>1 DEF UplinkToOwnRanUe, Ngap
  <1>9. ClosedSaGone' BY Zenon, <1>c, Basics DEF ClosedSaGone
  <1>10. DeleteComesLast' BY Zenon DEF DeleteComesLast, Ike, UsesSa
  <1>11. UsedSaExists' BY Zenon DEF UsedSaExists, Ike, UsesSa
  <1>12. MappedSaExists' BY Zenon DEF MappedSaExists
  <1>13. IkeServerSurvives' BY Zenon DEF IkeServerSurvives
  <1> QED BY Zenon, <1>1, <1>2, <1>3, <1>4, <1>5, <1>6, <1>7, <1>8, <1>9, <1>10, <1>11, <1>12, <1>13

-----------------------------------------------------------------------------
(* RAN UEs and IKE UEs are made, refused and removed; the IKE loop ends.   *)

\* HandleUnmarshalEAP5GData answers a UE's first NAS message, with a failure or with
\* a new RAN UE.
LEMMA FirstNasStep ==
    ASSUME TableInv, TypeOK', ngapEvt # <<>>, NgapTakes(1), Asked(1), NEW e \in IkeEvt,
           e.spi = ngapEvt[1].spi,
           ikeEvt' = IF ikeUp THEN Append(ikeEvt, e) ELSE ikeEvt,
           \/ /\ e.type = "SendEAP5GFailureMsg"
              /\ UNCHANGED <<RANUePool, nextRanId>>
           \/ /\ e.type = "UnmarshalEAP5GDataResponse" /\ e.id = nextRanId
              /\ RANUePool' = RANUePool \cup {nextRanId} /\ nextRanId' = nextRanId + 1,
           UNCHANGED <<IKESA, sa, IKESPIToNGAPId, NGAPIdToIKESPI, ikeUp, ue, toN3iwf,
                       toUe, amf>>
    PROVE  TableInv'
  <1> USE DEF TableInv
  <1> DEFINE s == ngapEvt[1].spi
             n == Len(ikeEvt) + 1
  <1>a. TypeOK /\ Len(ikeEvt) \in Nat /\ nextRanId \in Nat BY Zenon, Basics
  <1>b. 1 \in Ngap /\ \A k \in Ngap' : k + 1 \in Ngap /\ ngapEvt'[k] = ngapEvt[k + 1]
                                       /\ k + 1 # 1 /\ k \in Nat
    <2>1. Len(ngapEvt) \in Nat /\ NgapTakes(1) BY Zenon, <1>a, Basics
    <2> QED BY ONLY <2>1 DEF NgapTakes, Ngap
  <1>c. /\ \A k \in Ike : k \in Ike' /\ ikeEvt'[k] = ikeEvt[k]
        /\ \A k \in Ike' : k \in Ike \/ (k = n /\ ikeUp /\ ikeEvt'[k] = e)
        /\ ikeUp => n \in Ike' /\ ikeEvt'[n] = e
        /\ n \notin Ike
    <2>1. CASE ikeUp
      <3>1. Len(ikeEvt') = n BY <1>a, <2>1, EvtType
      <3>2. \A k \in 1..n : ikeEvt'[k] = IF k = n THEN e ELSE ikeEvt[k]
        BY <1>a, <2>1, EvtType
      <3> QED BY <1>a, <2>1, <3>1, <3>2 DEF Ike
    <2>2. CASE ~ ikeUp BY <1>a, <2>2 DEF Ike
    <2> QED BY Zenon, <2>1, <2>2
  <1>d. s \in Spi /\ Waiting(s) /\ e.spi = s
    BY Zenon, <1>a, <1>b, Basics DEF FirstNas, Asked
  <1>e. \A k \in Ike : ikeEvt[k].spi \in Spi /\ ikeEvt[k].id \in RanId BY Zenon, Basics
  <1>f. /\ \A k \in Ike : Answered(k) => ikeEvt[k].spi # s
        /\ \A k \in Ngap' : Asked(k)' => ngapEvt'[k].spi # s
    <2>1. \A k \in Ike : Answered(k) => ikeEvt[k].spi # s BY Zenon, <1>b DEF FirstNas
    <2>2. \A k \in Ngap : Asked(k) /\ k # 1 => ngapEvt[k].spi # s BY Zenon, <1>b DEF FirstNas
    <2> QED BY Zenon, <1>b, <2>1, <2>2 DEF Asked
  <1>g. /\ nextRanId' \in Nat /\ nextRanId <= nextRanId'
        /\ \A i \in RANUePool' : i < nextRanId' /\ (i \in RANUePool \/ i = nextRanId)
        /\ RANUePool \subseteq RANUePool'
    BY <1>a, Basics DEF FreshIds
  <1> HIDE DEF s, n
  <1>1. RequestIds' BY Zenon DEF RequestIds
  <1>2. FirstNas'
    <2>1. \A u \in Spi : Waiting(u)' = Waiting(u) BY Zenon DEF Waiting
    <2>2. \A k \in Ngap' : Asked(k)' = Asked(k + 1) BY Zenon, <1>b DEF Asked
    <2>3. \A k \in Ike' : Answered(k)' =>
            \/ k \in Ike /\ Answered(k) /\ ikeEvt'[k] = ikeEvt[k]
            \/ k = n /\ ikeEvt'[k].spi = s
      BY Zenon, <1>c DEF Answered, Created, s
    <2>4. \A k \in Ngap : Asked(k) => ngapEvt[k].spi \in Spi BY Zenon, <1>a, Basics DEF Asked
    <2>5. \A k \in Ngap', u \in Spi : Asked(k)' /\ u = ngapEvt'[k].spi => Waiting(u)'
      <3>1. \A k \in Ngap, u \in Spi : Asked(k) /\ u = ngapEvt[k].spi => Waiting(u)
        BY Zenon DEF FirstNas
      <3> QED BY ONLY ZenonT(30), <1>b, <2>1, <2>2, <3>1
    <2>6. ASSUME NEW k \in Ike', NEW u \in Spi, Answered(k)', u = ikeEvt'[k].spi
          PROVE  Waiting(u)'
      <3>1. Waiting(u) BY Zenon, <1>d, <2>3, <2>6 DEF FirstNas
      <3> QED BY Zenon, <2>1, <3>1
    <2>7. /\ \A k \in Ngap' : Asked(k)' => ngapEvt'[k].spi \in Spi
          /\ \A k \in Ike' : Answered(k)' => ikeEvt'[k].spi \in Spi
      BY Zenon, <1>b, <1>d, <1>e, <2>2, <2>3, <2>4
    <2>8. \A k, l \in Ngap' :
            Asked(k)' /\ Asked(l)' /\ ngapEvt'[k].spi = ngapEvt'[l].spi => k = l
      <3>1. \A k, l \in Ngap : Asked(k) /\ Asked(l) /\ ngapEvt[k].spi = ngapEvt[l].spi => k = l
        BY Zenon DEF FirstNas
      <3> QED BY ONLY <1>b, <2>2, <3>1
    <2>9. \A k, l \in Ike' :
            Answered(k)' /\ Answered(l)' /\ ikeEvt'[k].spi = ikeEvt'[l].spi => k = l
      <3>1. \A k, l \in Ike : Answered(k) /\ Answered(l) /\ ikeEvt[k].spi = ikeEvt[l].spi => k = l
        BY Zenon DEF FirstNas
      <3> QED BY ONLY Zenon, <1>f, <2>3, <3>1
    <2>10. \A k \in Ngap', l \in Ike' :
            Asked(k)' /\ Answered(l)' => ngapEvt'[k].spi # ikeEvt'[l].spi
      <3>1. \A k \in Ngap, l \in Ike : Asked(k) /\ Answered(l) => ngapEvt[k].spi # ikeEvt[l].spi
        BY Zenon DEF FirstNas
      <3> QED BY ONLY <1>b, <1>f, <2>2, <2>3, <3>1
    <2> QED BY Zenon, <2>5, <2>6, <2>7, <2>8, <2>9, <2>10 DEF FirstNas
  <1>3. IkeUeFirst' BY Zenon, <1>c DEF IkeUeFirst, Answered, Created
  <1>4. FreshIds'
    <2>1. \A k \in Ngap' : ~ Asked(k)' => ngapEvt'[k].id < nextRanId
      BY Zenon, <1>b DEF FreshIds, Asked
    <2>2. \A k \in Ngap' : ngapEvt'[k].id \in Nat BY Zenon, <1>b, Basics
    <2>6. nextRanId \in Nat /\ RanId \subseteq Nat
          /\ \A u \in Spi : IKESPIToNGAPId[u] # None => IKESPIToNGAPId[u] \in RanId
      BY Zenon, <1>a, Basics
    <2>7. \A i \in RanId : amf[i].phase # "none" => i < nextRanId BY Zenon DEF FreshIds
    <2>8. \A u \in Spi : IKESPIToNGAPId[u] # None => IKESPIToNGAPId[u] < nextRanId
      BY Zenon DEF FreshIds
    <2>3. \A i \in RanId : amf[i].phase # "none" => i < nextRanId' BY ONLY <1>g, <2>6, <2>7
    <2>9. \A i \in RanId : i < nextRanId => i < nextRanId' BY ONLY <1>g, <2>6
    <2>4. \A u \in Spi : IKESPIToNGAPId[u] # None => IKESPIToNGAPId[u] < nextRanId'
      BY ONLY Zenon, <2>6, <2>8, <2>9
    <2>5. \A k \in Ngap' : ~ Asked(k)' => ngapEvt'[k].id < nextRanId'
      BY ONLY <1>a, <1>g, <2>1, <2>2
    <2> QED BY Zenon, <1>g, <2>3, <2>4, <2>5 DEF FreshIds

  <1>5. Unannounced'
    <2>1. ASSUME NEW k \in Ike', Created(k)' PROVE KnownOnlyHere(k)'
      <3> DEFINE i == ikeEvt'[k].id
      <3>1. \A l \in Ngap' : ngapEvt'[l].type # "UnmarshalEAP5GData" =>
              /\ l + 1 \in Ngap /\ ngapEvt[l + 1].type # "UnmarshalEAP5GData"
              /\ ngapEvt'[l].id = ngapEvt[l + 1].id /\ ngapEvt'[l].id < nextRanId
        BY Zenon, <1>b DEF FreshIds, Asked
      <3>2. \A l \in Ike : Created(l) => ikeEvt[l].id \in RANUePool /\ ikeEvt[l].id < nextRanId
        BY Zenon, <1>e DEF Unannounced, KnownOnlyHere, FreshIds
      <3>3. CASE k \in Ike
        <4>1. Created(k) /\ i = ikeEvt[k].id /\ i \in RANUePool BY Zenon, <1>c, <2>1, <3>2, <3>3 DEF Created
        <4>2. KnownOnlyHere(k) BY Zenon, <3>3, <4>1 DEF Unannounced
        <4>3. i < nextRanId BY Zenon, <3>2, <3>3, <4>1
        <4>4. \A l \in Ike' : Created(l)' /\ ikeEvt'[l].id = i => l = k
          <5>1. ASSUME NEW l \in Ike', Created(l)', ikeEvt'[l].id = i PROVE l = k
            <6>1. CASE l \in Ike BY Zenon, <1>c, <4>1, <4>2, <5>1, <6>1 DEF Created, KnownOnlyHere
            <6>2. CASE l \notin Ike
              <7>1. ikeEvt'[l] = e /\ e.type = "UnmarshalEAP5GDataResponse"
                BY Zenon, <1>c, <5>1, <6>2 DEF Created
              <7>2. e.id = nextRanId BY Zenon, <7>1
              <7> QED BY ONLY <1>a, <4>3, <5>1, <7>1, <7>2
            <6> QED BY Zenon, <6>1, <6>2
          <5> QED BY Zenon, <5>1
        <4>5. \A l \in Ngap' : ngapEvt'[l].type # "UnmarshalEAP5GData" => ngapEvt'[l].id # i
          BY Zenon, <3>1, <4>1, <4>2 DEF KnownOnlyHere
        <4> QED BY Zenon, <1>g, <4>1, <4>2, <4>4, <4>5 DEF KnownOnlyHere
      <3>4. CASE k \notin Ike
        <4>1. ikeEvt'[k] = e /\ k = n BY Zenon, <1>c, <3>4
        <4>2. i = nextRanId /\ i \in RANUePool' /\ i \in RanId
          <5>1. e.type = "UnmarshalEAP5GDataResponse" BY Zenon, <2>1, <4>1 DEF Created
          <5>2. e.id = nextRanId /\ nextRanId \in RANUePool' BY Zenon, <5>1
          <5> QED BY ONLY Zenon, <4>1, <5>2, e \in IkeEvt DEF IkeEvt
        <4> HIDE DEF i
        <4>9. ~ (i < nextRanId) BY ONLY <1>a, <4>2
        <4>3. i \notin RANUePool BY Zenon, <4>2, <4>9 DEF FreshIds
        <4>4. NGAPIdToIKESPI[i] = None BY Zenon, <4>2, <4>3 DEF MapsAgree
        <4>5. amf[i].phase = "none" BY Zenon, <4>2, <4>9 DEF FreshIds
        <4>6. \A u \in Spi : IKESPIToNGAPId[u] # i
          BY Zenon, <4>2, <4>9, NoneAssumption DEF FreshIds
        <4>7. \A l \in Ngap' : ngapEvt'[l].type # "UnmarshalEAP5GData" => ngapEvt'[l].id # i
          BY Zenon, <3>1, <4>9
        <4>8. \A l \in Ike' : Created(l)' /\ ikeEvt'[l].id = i => l = k
          BY Zenon, <1>c, <3>2, <4>1, <4>3 DEF Created
        <4> QED BY Zenon, <4>2, <4>4, <4>5, <4>6, <4>7, <4>8 DEF KnownOnlyHere, i
      <3> QED BY Zenon, <3>3, <3>4
    <2> QED BY Zenon, <2>1 DEF Unannounced
  <1>6. OneMapping' BY Zenon DEF OneMapping
  <1>7. MapsAgree'
    <2>1. ASSUME NEW u \in Spi, IKESPIToNGAPId[u] \in RANUePool'
          PROVE  NGAPIdToIKESPI[IKESPIToNGAPId[u]] = u
      <3>1. IKESPIToNGAPId[u] # None BY Zenon, <2>1, <1>a, Basics, NoneAssumption DEF TypeOK
      <3>2. IKESPIToNGAPId[u] \in Nat /\ IKESPIToNGAPId[u] < nextRanId
        BY Zenon, <3>1, Basics DEF FreshIds
      <3>3. IKESPIToNGAPId[u] \in RANUePool BY ONLY <1>a, <1>g, <2>1, <3>2
      <3> QED BY Zenon, <3>3 DEF MapsAgree
    <2>2. \A i \in RanId : NGAPIdToIKESPI[i] # None => i \in RANUePool'
      BY Zenon, <1>g DEF MapsAgree
    <2>3. ASSUME NEW i \in RANUePool', ikeUp, NGAPIdToIKESPI[i] = None
          PROVE  \E k \in Ike' : /\ ikeEvt'[k].type = "UnmarshalEAP5GDataResponse"
                                 /\ ikeEvt'[k].id = i
      <3>1. CASE i \in RANUePool
        <4>1. PICK k \in Ike : /\ ikeEvt[k].type = "UnmarshalEAP5GDataResponse"
                               /\ ikeEvt[k].id = i
          BY Zenon, <2>3, <3>1 DEF MapsAgree, Ike
        <4> QED BY Zenon, <1>c, <4>1
      <3>2. CASE i \notin RANUePool
        <4>1. i = nextRanId /\ e.type = "UnmarshalEAP5GDataResponse" /\ e.id = i
          BY Zenon, <1>g, <2>3, <3>2
        <4> QED BY Zenon, <1>c, <2>3, <4>1
      <3> QED BY Zenon, <3>1, <3>2
    <2> QED BY Zenon, <2>1, <2>2, <2>3 DEF MapsAgree, Ike
  <1>8. UplinkToOwnRanUe'
    <2>1. ASSUME NEW k \in Ngap', ngapEvt'[k].type = "UnmarshalEAP5GData",
                 ngapEvt'[k].initial, ngapEvt'[k].id \in RANUePool'
          PROVE  NGAPIdToIKESPI[ngapEvt'[k].id] = ngapEvt'[k].spi
      <3>1. ngapEvt[k + 1].id < nextRanId BY Zenon, <1>b, <2>1 DEF FreshIds, Asked
      <3>2. ngapEvt'[k].id \in RANUePool
        <4>1. ngapEvt'[k] = ngapEvt[k + 1] /\ ngapEvt'[k].id \in RANUePool' BY Zenon, <1>b, <2>1
        <4> QED BY ONLY <1>a, <1>g, <3>1, <4>1
      <3> QED BY ZenonT(30), <1>b, <2>1, <3>2 DEF UplinkToOwnRanUe, Ngap
    <2> QED BY Zenon, <2>1 DEF UplinkToOwnRanUe, Ngap
  <1>9. ClosedSaGone' BY Zenon DEF ClosedSaGone
  <1>10. DeleteComesLast'
    <2>1. \A k \in Ike : ikeEvt[k].type = "IKEDeleteRequest" => ikeEvt[k].spi # s
      BY Zenon, <1>d DEF IkeUeFirst, Answered, Created, Waiting
    <2>2. ASSUME NEW k \in Ike', ikeEvt'[k].type = "IKEDeleteRequest",
                 NEW l \in Ike', k < l, UsesSa(l)'
          PROVE  ikeEvt'[l].spi # ikeEvt'[k].spi
      <3>1. k \in Ike /\ ikeEvt'[k] = ikeEvt[k] BY Zenon, <1>c, <2>2
      <3>2. CASE l \in Ike
        <4>1. ikeEvt'[l] = ikeEvt[l] /\ UsesSa(l) BY Zenon, <1>c, <2>2, <3>2 DEF UsesSa
        <4> QED BY Zenon, <2>2, <3>1, <3>2, <4>1 DEF DeleteComesLast
      <3>3. CASE l \notin Ike BY Zenon, <1>c, <1>d, <2>1, <2>2, <3>1, <3>3
      <3> QED BY Zenon, <3>2, <3>3
    <2>3. ASSUME NEW k \in Ike', ikeEvt'[k].type = "IKEDeleteRequest", NEW i \in RanId
          PROVE  NGAPIdToIKESPI[i] # ikeEvt'[k].spi
      <3>1. k \in Ike /\ ikeEvt'[k] = ikeEvt[k] BY Zenon, <1>c, <2>3
      <3> QED BY Zenon, <2>3, <3>1 DEF DeleteComesLast
    <2> QED BY Zenon, <2>2, <2>3 DEF DeleteComesLast
  <1>11. UsedSaExists' BY Zenon, <1>c, <1>d DEF UsedSaExists, UsesSa, Waiting, s
  <1>12. MappedSaExists' BY Zenon DEF MappedSaExists
  <1>13. IkeServerSurvives' BY Zenon DEF IkeServerSurvives
  <1> QED BY Zenon, <1>1, <1>2, <1>3, <1>4, <1>5, <1>6, <1>7, <1>8, <1>9, <1>10, <1>11, <1>12, <1>13

\* HandleUnmarshalEAP5GDataResponse makes the IKE UE and maps it to its RAN UE.
LEMMA IkeUeMadeStep ==
    ASSUME TableInv, TypeOK', 1 \in Ike, Created(1), IkeTakes(1),
           NEW s \in Spi, s = ikeEvt[1].spi, NEW i \in RanId, i = ikeEvt[1].id,
           \A u \in Spi : /\ sa'[u].InitiatorMessageID = sa[u].InitiatorMessageID
                          /\ sa'[u].dpd = sa[u].dpd
                          /\ u # s => sa'[u] = sa[u],
           sa'[s].IkeUE,
           \A u \in Spi : IKESPIToNGAPId'[u] = IF u = s THEN i ELSE IKESPIToNGAPId[u],
           \A j \in RanId : NGAPIdToIKESPI'[j] = IF j = i THEN s ELSE NGAPIdToIKESPI[j],
           Len(ngapEvt') = Len(ngapEvt) + 1,
           \A k \in Ngap : ngapEvt'[k] = ngapEvt[k],
           ngapEvt'[Len(ngapEvt) + 1].type # "UnmarshalEAP5GData",
           ngapEvt'[Len(ngapEvt) + 1].id = i,
           UNCHANGED <<IKESA, RANUePool, nextRanId, ikeUp, ue, toN3iwf, toUe, amf>>
    PROVE  TableInv'
  <1> USE DEF TableInv
  <1>a. TypeOK BY Zenon
  <1>b. \A k \in Ike' : k \in Nat /\ k + 1 \in Ike /\ ikeEvt'[k] = ikeEvt[k + 1] /\ k + 1 # 1
    <2>1. Len(ikeEvt) \in Nat /\ IkeTakes(1) BY Zenon, <1>a, Basics
    <2> QED BY ONLY <2>1 DEF IkeTakes, Ike
  <1>c. /\ Waiting(s) /\ s \in IKESA /\ ~ sa[s].IkeUE /\ ue[s].phase # "idle"
        /\ IKESPIToNGAPId[s] = None /\ \A j \in RanId : NGAPIdToIKESPI[j] # s
    <2>1. Waiting(s) BY Zenon DEF FirstNas, Answered
    <2>2. s \in IKESA /\ ~ sa[s].IkeUE /\ ue[s].phase # "idle" BY Zenon, <2>1 DEF Waiting
    <2>3. s # None BY Zenon, ConstantsAssumption
    <2> QED BY Zenon, <2>1, <2>2, <2>3 DEF IkeUeFirst
  <1>d. KnownOnlyHere(1) BY Zenon DEF Unannounced
  <1>e. i \in RANUePool /\ NGAPIdToIKESPI[i] = None /\ \A u \in Spi : IKESPIToNGAPId[u] # i
    BY ZenonT(30), <1>d DEF KnownOnlyHere
  <1>f. \A k \in Ngap' : \/ k \in Ngap /\ ngapEvt'[k] = ngapEvt[k]
                         \/ ngapEvt'[k].type # "UnmarshalEAP5GData" /\ ngapEvt'[k].id = i
    <2>1. /\ Len(ngapEvt) \in Nat /\ Len(ngapEvt') = Len(ngapEvt) + 1
          /\ \A k \in Ngap : ngapEvt'[k] = ngapEvt[k]
          /\ ngapEvt'[Len(ngapEvt) + 1].type # "UnmarshalEAP5GData"
          /\ ngapEvt'[Len(ngapEvt) + 1].id = i
      BY Zenon, <1>a, Basics
    <2> QED BY ONLY <2>1 DEF Ngap
  <1>g. \A k \in Ike' : Created(k)' =>
          /\ k + 1 \in Ike /\ Created(k + 1) /\ ikeEvt'[k] = ikeEvt[k + 1]
          /\ ikeEvt[k + 1].id # i
    <2>1. \A k \in Ike : Created(k) /\ k # 1 => ikeEvt[k].id # i BY Zenon, <1>d DEF KnownOnlyHere
    <2> QED BY Zenon, <1>b, <2>1 DEF Created
  <1>h. \A u \in Spi : sa[u].IkeUE => sa'[u].IkeUE BY Zenon
  <1>i. i # None /\ s # None BY Zenon, ConstantsAssumption, NoneAssumption
  <1>1. RequestIds'
    <2>1. \A m \in toUe : m.id < sa'[m.spi].InitiatorMessageID
      BY Zenon, <1>a, Basics DEF RequestIds
    <2>2. \A u \in Spi :
            /\ ue[u].id <= sa'[u].InitiatorMessageID
            /\ sa'[u].InitiatorMessageID <= ue[u].id + 1
            /\ ue[u].phase = "up" => sa'[u].InitiatorMessageID = ue[u].id + 1
            /\ ue[u].phase = "idle" => sa'[u] = NewSa /\ ue[u].id = 0 /\ u \notin IKESA
      <3>1. ASSUME NEW u \in Spi
            PROVE  /\ sa'[u].InitiatorMessageID = sa[u].InitiatorMessageID
                   /\ ue[u].phase = "idle" => sa'[u] = sa[u]
        BY Zenon, <1>c
      <3>2. RequestIds BY Zenon
      <3> QED BY ONLY Zenon, <3>1, <3>2 DEF RequestIds
    <2> QED BY Zenon, <2>1, <2>2 DEF RequestIds
  <1>2. FirstNas'
    <2>1. \A u \in Spi : Waiting(u) /\ u # s => Waiting(u)' BY Zenon DEF Waiting
    <2>2. \A k \in Ngap' : Asked(k)' =>
            /\ k \in Ngap /\ Asked(k) /\ ngapEvt'[k] = ngapEvt[k]
            /\ ngapEvt[k].spi # s /\ ngapEvt[k].spi \in Spi
      <3>1. \A k \in Ngap : Asked(k) => ngapEvt[k].spi # s /\ ngapEvt[k].spi \in Spi
        BY ZenonT(30), <1>a, Basics DEF Asked, FirstNas, Answered
      <3> QED BY Zenon, <1>f, <3>1 DEF Asked
    <2>3. \A k \in Ike' : Answered(k)' =>
            /\ k + 1 \in Ike /\ Answered(k + 1) /\ ikeEvt'[k] = ikeEvt[k + 1]
            /\ ikeEvt[k + 1].spi # s /\ ikeEvt[k + 1].spi \in Spi
      <3>1. \A k \in Ike : Answered(k) /\ k # 1 => ikeEvt[k].spi # s /\ ikeEvt[k].spi \in Spi
        BY ZenonT(30), <1>a, Basics DEF FirstNas, Answered
      <3> QED BY ZenonT(30), <1>b, <3>1 DEF Answered, Created
    <2> DEFINE K == {u \in Spi : Waiting(u) /\ u # s}
    <2>4. \A k \in Ngap' : k + 0 = k BY ONLY TRUE DEF Ngap
    <2>5. \A k \in Ngap : Asked(k) => Waiting(ngapEvt[k].spi) BY Zenon DEF FirstNas
    <2>6. \A k \in Ike : Answered(k) => Waiting(ikeEvt[k].spi) BY Zenon DEF FirstNas
    <2>7. \A u \in K : Waiting(u)' BY Zenon, <2>1
    <2>8. \A k \in Ngap' : Asked(k)' => /\ k + 0 \in Ngap /\ Asked(k + 0)
                                        /\ ngapEvt'[k] = ngapEvt[k + 0]
                                        /\ ngapEvt[k + 0].spi \in K
      BY ONLY Zenon, <2>2, <2>4, <2>5
    <2>9. \A k \in Ike' : Answered(k)' => /\ k + 1 \in Ike /\ Answered(k + 1)
                                          /\ ikeEvt'[k] = ikeEvt[k + 1]
                                          /\ ikeEvt[k + 1].spi \in K
      BY ONLY Zenon, <2>3, <2>6
    <2>10. FirstNas /\ 0 \in {0, 1} /\ 1 \in {0, 1} BY Zenon
    <2> HIDE DEF K
    <2> QED BY ONLY Zenon, <2>7, <2>8, <2>9, <2>10, FirstNasKept
  <1>3. IkeUeFirst'
    <2>1. ASSUME NEW k \in Ike', ~ Answered(k)' PROVE sa'[ikeEvt'[k].spi].IkeUE
      <3>1. k + 1 \in Ike /\ ikeEvt'[k] = ikeEvt[k + 1] /\ ~ Answered(k + 1)
        BY Zenon, <1>b, <2>1 DEF Answered, Created
      <3>2. sa[ikeEvt[k + 1].spi].IkeUE /\ ikeEvt[k + 1].spi \in Spi
        BY Zenon, <1>a, <3>1, Basics DEF IkeUeFirst
      <3> QED BY ONLY Zenon, <1>h, <3>1, <3>2
    <2>2. \A j \in RanId : NGAPIdToIKESPI'[j] # None => sa'[NGAPIdToIKESPI'[j]].IkeUE
      <3>1. ASSUME NEW j \in RanId, j # i, NGAPIdToIKESPI[j] # None
            PROVE  sa'[NGAPIdToIKESPI[j]].IkeUE
        <4>1. NGAPIdToIKESPI[j] \in Spi /\ sa[NGAPIdToIKESPI[j]].IkeUE
          BY Zenon, <1>a, <3>1, Basics DEF IkeUeFirst
        <4> QED BY Zenon, <1>h, <4>1
      <3> QED BY Zenon, <3>1
    <2>3. \A u \in Spi : /\ IKESPIToNGAPId'[u] # None => sa'[u].IkeUE
                         /\ u \in IKESA /\ sa'[u].IkeUE => IKESPIToNGAPId'[u] # None
      BY ZenonT(30), <1>i DEF IkeUeFirst
    <2> QED BY Zenon, <2>1, <2>2, <2>3 DEF IkeUeFirst
  <1>4. FreshIds'
    <2>1. i < nextRanId BY Zenon, <1>e DEF FreshIds
    <2>2. \A u \in Spi : IKESPIToNGAPId'[u] # None => IKESPIToNGAPId'[u] < nextRanId
      BY Zenon, <2>1 DEF FreshIds
    <2>3. \A k \in Ngap' : ~ Asked(k)' => ngapEvt'[k].id < nextRanId
      BY Zenon, <1>f, <2>1 DEF FreshIds, Asked
    <2> QED BY Zenon, <2>2, <2>3 DEF FreshIds
  <1>5. Unannounced'
    <2>1. ASSUME NEW k \in Ike', Created(k)' PROVE KnownOnlyHere(k)'
      <3>1. k + 1 \in Ike /\ Created(k + 1) /\ ikeEvt'[k] = ikeEvt[k + 1] BY Zenon, <1>g, <2>1
      <3>2. ikeEvt[k + 1].id # i /\ ikeEvt[k + 1].id \in RanId BY Zenon, <1>a, <1>g, <2>1, <3>1, Basics
      <3>3. KnownOnlyHere(k + 1) BY Zenon, <3>1 DEF Unannounced
      <3>4. \A l \in Ngap' : ngapEvt'[l].type # "UnmarshalEAP5GData" =>
                                ngapEvt'[l].id # ikeEvt'[k].id
        <4>1. \A l \in Ngap : ngapEvt[l].type # "UnmarshalEAP5GData" => ngapEvt[l].id # ikeEvt[k + 1].id
          BY Zenon, <3>3 DEF KnownOnlyHere
        <4> QED BY ONLY Zenon, <1>f, <3>1, <3>2, <4>1
      <3>5. \A l \in Ike' : Created(l)' /\ ikeEvt'[l].id = ikeEvt'[k].id => l = k
        <4>1. ASSUME NEW l \in Ike', Created(l)', ikeEvt'[l].id = ikeEvt'[k].id PROVE l = k
          <5>1. l + 1 \in Ike /\ Created(l + 1) /\ ikeEvt'[l] = ikeEvt[l + 1] BY Zenon, <1>g, <4>1
          <5>2. l + 1 = k + 1 BY ONLY Zenon, <3>1, <3>3, <4>1, <5>1 DEF KnownOnlyHere
          <5>3. l \in Nat /\ k \in Nat BY Zenon, <1>b
          <5> QED BY ONLY <5>2, <5>3
        <4> QED BY Zenon, <4>1
      <3>6. /\ ikeEvt'[k].id \in RANUePool' /\ NGAPIdToIKESPI'[ikeEvt'[k].id] = None
            /\ amf'[ikeEvt'[k].id].phase = "none"
            /\ \A u \in Spi : IKESPIToNGAPId'[u] # ikeEvt'[k].id
        <4>1. LET j == ikeEvt[k + 1].id IN
              /\ j \in RANUePool /\ NGAPIdToIKESPI[j] = None /\ amf[j].phase = "none"
              /\ \A u \in Spi : IKESPIToNGAPId[u] # j
          BY ONLY Zenon, <3>3 DEF KnownOnlyHere
        <4>2. NGAPIdToIKESPI'[ikeEvt[k + 1].id] = NGAPIdToIKESPI[ikeEvt[k + 1].id] BY Zenon, <3>2
        <4>3. \A u \in Spi : IKESPIToNGAPId'[u] # ikeEvt[k + 1].id BY Zenon, <3>2, <4>1
        <4>4. amf' = amf /\ RANUePool' = RANUePool BY Zenon
        <4> QED BY ONLY Zenon, <3>1, <4>1, <4>2, <4>3, <4>4
      <3> QED BY Zenon, <3>4, <3>5, <3>6 DEF KnownOnlyHere
    <2> QED BY Zenon, <2>1 DEF Unannounced
  <1>6. OneMapping'
    <2>1. \A j \in RanId : NGAPIdToIKESPI'[j] = s => j = i BY Zenon, <1>c
    <2>2. ASSUME NEW j \in RanId, NEW k \in RanId, NGAPIdToIKESPI'[j] = NGAPIdToIKESPI'[k],
                 NGAPIdToIKESPI'[j] # None
          PROVE  j = k
      <3>1. CASE NGAPIdToIKESPI'[j] = s BY Zenon, <2>1, <2>2, <3>1
      <3>2. CASE NGAPIdToIKESPI'[j] # s
        <4>1. NGAPIdToIKESPI[j] = NGAPIdToIKESPI'[j] /\ NGAPIdToIKESPI[k] = NGAPIdToIKESPI'[k]
              /\ j \in RanId /\ k \in RanId
          BY Zenon, <2>2, <3>2
        <4>2. OneMapping BY Zenon
        <4> QED BY ONLY Zenon, <2>2, <4>1, <4>2 DEF OneMapping
      <3> QED BY Zenon, <3>1, <3>2
    <2> QED BY Zenon, <2>2 DEF OneMapping
  <1>7. MapsAgree'
    <2>1. \A u \in Spi : IKESPIToNGAPId'[u] \in RANUePool => NGAPIdToIKESPI'[IKESPIToNGAPId'[u]] = u
      <3>1. ASSUME NEW u \in Spi, u # s, IKESPIToNGAPId[u] \in RANUePool
            PROVE  NGAPIdToIKESPI'[IKESPIToNGAPId[u]] = u
        <4>1. NGAPIdToIKESPI[IKESPIToNGAPId[u]] = u BY Zenon, <3>1 DEF MapsAgree
        <4>2. IKESPIToNGAPId[u] \in RanId /\ IKESPIToNGAPId[u] # i BY Zenon, <1>a, <1>e, <3>1, Basics
        <4> QED BY ZenonT(30), <4>1, <4>2
      <3> QED BY ZenonT(30), <3>1
    <2>2. \A u, v \in Spi : /\ IKESPIToNGAPId'[u] # None /\ u # v
                            => IKESPIToNGAPId'[v] # IKESPIToNGAPId'[u]
      <3>1. \A u, v \in Spi : IKESPIToNGAPId[u] # None /\ u # v => IKESPIToNGAPId[v] # IKESPIToNGAPId[u]
        BY Zenon DEF MapsAgree
      <3>2. s \in Spi /\ \A u \in Spi : IKESPIToNGAPId'[u] = IF u = s THEN i ELSE IKESPIToNGAPId[u]
        BY Zenon
      <3> QED BY ONLY <1>e, <3>1, <3>2
    <2>3. \A j \in RanId : NGAPIdToIKESPI'[j] # None => j \in RANUePool
      BY Zenon, <1>e DEF MapsAgree
    <2>4. ASSUME NEW j \in RANUePool, ikeUp, NGAPIdToIKESPI'[j] = None
          PROVE  \E k \in Ike' : /\ ikeEvt'[k].type = "UnmarshalEAP5GDataResponse"
                                 /\ ikeEvt'[k].id = j
      <3>1. j # i /\ NGAPIdToIKESPI[j] = None BY Zenon, <1>a, <1>i, <2>4, Basics
      <3>2. PICK k \in Ike : /\ ikeEvt[k].type = "UnmarshalEAP5GDataResponse"
                             /\ ikeEvt[k].id = j
        BY Zenon, <2>4, <3>1 DEF MapsAgree, Ike
      <3>3. k # 1 BY Zenon, <3>1, <3>2
      <3>4. k - 1 \in Ike' /\ ikeEvt'[k - 1] = ikeEvt[k]
        <4>1. Len(ikeEvt) \in Nat /\ IkeTakes(1) /\ k \in Ike BY Zenon, <1>a, Basics
        <4> QED BY ONLY <3>3, <4>1 DEF IkeTakes, Ike
      <3> QED BY ONLY Zenon, <3>2, <3>4
    <2> QED BY ZenonT(30), <2>1, <2>2, <2>3, <2>4 DEF MapsAgree, Ike
  <1>8. UplinkToOwnRanUe'
    <2>1. ASSUME NEW k \in Ngap', ngapEvt'[k].type = "UnmarshalEAP5GData",
                 ngapEvt'[k].initial, ngapEvt'[k].id \in RANUePool
          PROVE  NGAPIdToIKESPI'[ngapEvt'[k].id] = ngapEvt'[k].spi
      <3>1. k \in Ngap /\ ngapEvt'[k] = ngapEvt[k] BY Zenon, <1>f, <2>1
      <3>2. NGAPIdToIKESPI[ngapEvt[k].id] = ngapEvt[k].spi /\ ngapEvt[k].spi \in Spi
        BY ZenonT(30), <1>a, <2>1, <3>1, Basics DEF UplinkToOwnRanUe, Ngap
      <3>3. ngapEvt[k].id # i BY Zenon, <1>e, <3>2, ConstantsAssumption
      <3>4. ngapEvt[k].id \in RanId BY Zenon, <1>a, <3>1, Basics
      <3> QED BY Zenon, <3>1, <3>2, <3>3, <3>4
    <2> QED BY Zenon, <2>1 DEF UplinkToOwnRanUe, Ngap
  <1>9. ClosedSaGone' BY Zenon, <1>a, Basics DEF ClosedSaGone
  <1>10. DeleteComesLast'
    <2>1. \A k \in Ike : ikeEvt[k].type = "IKEDeleteRequest" => ikeEvt[k].spi # s
      BY Zenon, <1>c DEF IkeUeFirst, Answered, Created
    <2>2. \A j \in RanId, k \in Ike : ikeEvt[k].type = "IKEDeleteRequest" =>
            NGAPIdToIKESPI'[j] # ikeEvt[k].spi
      <3>1. ASSUME NEW j \in RanId, NEW k \in Ike, ikeEvt[k].type = "IKEDeleteRequest"
            PROVE  NGAPIdToIKESPI'[j] # ikeEvt[k].spi
        <4>1. NGAPIdToIKESPI[j] # ikeEvt[k].spi BY Zenon, <3>1 DEF DeleteComesLast
        <4>2. ikeEvt[k].spi # s BY Zenon, <2>1, <3>1
        <4>3. NGAPIdToIKESPI'[j] \in {s, NGAPIdToIKESPI[j]} BY Zenon
        <4> QED BY ONLY Zenon, <4>1, <4>2, <4>3
      <3> QED BY Zenon, <3>1
    <2>3. \A k, l \in Ike : ikeEvt[k].type = "IKEDeleteRequest" /\ k < l /\ UsesSa(l) =>
            ikeEvt[l].spi # ikeEvt[k].spi
      BY Zenon DEF DeleteComesLast
    <2>4. \A k, l \in Ike' : k < l => k + 1 < l + 1 BY ONLY <1>b
    <2>5. \A k, l \in Ike' : ikeEvt'[k].type = "IKEDeleteRequest" /\ k < l /\ UsesSa(l)' =>
            ikeEvt'[l].spi # ikeEvt'[k].spi
      <3>1. ASSUME NEW k \in Ike', NEW l \in Ike', ikeEvt'[k].type = "IKEDeleteRequest",
                   k < l, UsesSa(l)'
            PROVE  ikeEvt'[l].spi # ikeEvt'[k].spi
        <4>1. k + 1 \in Ike /\ ikeEvt'[k] = ikeEvt[k + 1] /\ k + 1 < l + 1 BY Zenon, <1>b, <2>4, <3>1
        <4>2. l + 1 \in Ike /\ ikeEvt'[l] = ikeEvt[l + 1] /\ UsesSa(l + 1)
          BY Zenon, <1>b, <3>1 DEF UsesSa
        <4> QED BY ONLY Zenon, <2>3, <3>1, <4>1, <4>2
      <3> QED BY Zenon, <3>1
    <2>6. \A j \in RanId, k \in Ike' : ikeEvt'[k].type = "IKEDeleteRequest" =>
            NGAPIdToIKESPI'[j] # ikeEvt'[k].spi
      BY ONLY Zenon, <1>b, <2>2
    <2> QED BY ONLY Zenon, <2>5, <2>6 DEF DeleteComesLast
  <1>11. UsedSaExists'
    <2>1. ASSUME NEW k \in Ike', UsesSa(k)', ue[ikeEvt'[k].spi].phase # "deleting"
          PROVE  ikeEvt'[k].spi \in IKESA
      <3>1. k + 1 \in Ike /\ ikeEvt'[k] = ikeEvt[k + 1] /\ UsesSa(k + 1)
        BY Zenon, <1>b, <2>1 DEF UsesSa
      <3>2. UsedSaExists BY Zenon
      <3> QED BY ONLY Zenon, <2>1, <3>1, <3>2 DEF UsedSaExists
    <2> QED BY Zenon, <2>1 DEF UsedSaExists
  <1>12. MappedSaExists' BY Zenon, <1>c DEF MappedSaExists
  <1>13. IkeServerSurvives' BY Zenon DEF IkeServerSurvives
  <1> QED BY Zenon, <1>1, <1>2, <1>3, <1>4, <1>5, <1>6, <1>7, <1>8, <1>9, <1>10, <1>11, <1>12, <1>13

\* HandleSendEAP5GFailureMsg answers the first NAS message of a UE with a failure.
LEMMA FailureStep ==
    ASSUME TableInv, TypeOK', 1 \in Ike, ikeEvt[1].type = "SendEAP5GFailureMsg", IkeTakes(1),
           NEW s \in Spi, s = ikeEvt[1].spi,
           \A m \in toUe' : m \in toUe \/ (m.spi = s /\ m.id = LastMessageID(s)),
           UNCHANGED <<IKESA, sa, IKESPIToNGAPId, NGAPIdToIKESPI, RANUePool, nextRanId,
                       ngapEvt, ikeUp, ue, toN3iwf, amf>>
    PROVE  TableInv'
  <1> USE DEF TableInv
  <1>a. TypeOK BY Zenon
  <1>n. Len(ikeEvt) \in Nat /\ IkeTakes(1) BY Zenon, <1>a, Basics
  <1>b. \A k \in Ike' : k \in Nat /\ k + 1 \in Ike /\ ikeEvt'[k] = ikeEvt[k + 1] /\ k + 1 # 1
    BY ONLY <1>n DEF IkeTakes, Ike
  <1>1. RequestIds'
    <2>1. LastMessageID(s) < sa[s].InitiatorMessageID
      <3>1. sa[s].InitiatorMessageID \in Nat BY Zenon, <1>a, Basics
      <3> QED BY ONLY <3>1 DEF LastMessageID
    <2> QED BY Zenon, <2>1 DEF RequestIds
  <1>2. FirstNas'
    <2>1. \A u \in Spi : Waiting(u) /\ u # s => Waiting(u)' BY Zenon DEF Waiting
    <2>2. \A k \in Ngap : Asked(k) => ngapEvt[k].spi # s /\ ngapEvt[k].spi \in Spi
      BY ZenonT(30), <1>a, Basics DEF Asked, FirstNas, Answered
    <2>3. \A k \in Ike' : Answered(k)' =>
            /\ k + 1 \in Ike /\ Answered(k + 1) /\ ikeEvt'[k] = ikeEvt[k + 1]
            /\ ikeEvt[k + 1].spi # s /\ ikeEvt[k + 1].spi \in Spi
      <3>1. \A k \in Ike : Answered(k) /\ k # 1 => ikeEvt[k].spi # s /\ ikeEvt[k].spi \in Spi
        BY ZenonT(30), <1>a, Basics DEF FirstNas, Answered
      <3> QED BY Zenon, <1>b, <3>1 DEF Answered, Created
    <2> DEFINE K == {u \in Spi : Waiting(u) /\ u # s}
    <2>4. \A k \in Ngap : k + 0 = k BY ONLY TRUE DEF Ngap
    <2>5. \A k \in Ngap : Asked(k) => Waiting(ngapEvt[k].spi) BY Zenon DEF FirstNas
    <2>6. \A k \in Ike : Answered(k) => Waiting(ikeEvt[k].spi) BY Zenon DEF FirstNas
    <2>7. \A u \in K : Waiting(u)' BY Zenon, <2>1
    <2>8. /\ Ngap' = Ngap /\ ngapEvt' = ngapEvt /\ FirstNas /\ 0 \in {0, 1} /\ 1 \in {0, 1}
          /\ \A k \in Ngap : Asked(k)' = Asked(k)
      BY Zenon DEF Ngap, Asked
    <2>9. \A k \in Ngap' : Asked(k)' => /\ k + 0 \in Ngap /\ Asked(k + 0)
                                        /\ ngapEvt'[k] = ngapEvt[k + 0]
                                        /\ ngapEvt[k + 0].spi \in K
      BY ONLY Zenon, <2>2, <2>4, <2>5, <2>8
    <2>10. \A k \in Ike' : Answered(k)' => /\ k + 1 \in Ike /\ Answered(k + 1)
                                           /\ ikeEvt'[k] = ikeEvt[k + 1]
                                           /\ ikeEvt[k + 1].spi \in K
      BY ONLY Zenon, <2>3, <2>6
    <2> HIDE DEF K
    <2> QED BY ONLY Zenon, <2>7, <2>8, <2>9, <2>10, FirstNasKept
  <1>3. IkeUeFirst' BY ZenonT(30), <1>b DEF IkeUeFirst, Answered, Created
  <1>4. FreshIds' BY Zenon DEF FreshIds, Ngap, Asked
  <1>5. Unannounced'
    <2>1. ASSUME NEW k \in Ike', Created(k)' PROVE KnownOnlyHere(k)'
      <3>1. k + 1 \in Ike /\ ikeEvt'[k] = ikeEvt[k + 1] /\ Created(k + 1)
        BY Zenon, <1>b, <2>1 DEF Created
      <3>2. KnownOnlyHere(k + 1) BY Zenon, <3>1 DEF Unannounced
      <3>3. ASSUME NEW l \in Ike', Created(l)', ikeEvt'[l].id = ikeEvt'[k].id PROVE l = k
        <4>1. l + 1 \in Ike /\ Created(l + 1) /\ ikeEvt'[l] = ikeEvt[l + 1]
          BY Zenon, <1>b, <3>3 DEF Created
        <4>2. l + 1 = k + 1 BY ONLY Zenon, <3>1, <3>2, <3>3, <4>1 DEF KnownOnlyHere
        <4>3. l \in Nat /\ k \in Nat BY Zenon, <1>b
        <4> QED BY ONLY <4>2, <4>3
      <3> QED BY Zenon, <3>1, <3>2, <3>3 DEF KnownOnlyHere, Ngap
    <2> QED BY Zenon, <2>1 DEF Unannounced
  <1>6. OneMapping' BY Zenon DEF OneMapping
  <1>7. MapsAgree'
    <2>1. ASSUME NEW j \in RANUePool, ikeUp, NGAPIdToIKESPI[j] = None
          PROVE  \E k \in Ike' : /\ ikeEvt'[k].type = "UnmarshalEAP5GDataResponse"
                                 /\ ikeEvt'[k].id = j
      <3>1. PICK k \in Ike : /\ ikeEvt[k].type = "UnmarshalEAP5GDataResponse"
                             /\ ikeEvt[k].id = j
        BY Zenon, <2>1 DEF MapsAgree, Ike
      <3>2. k # 1 BY Zenon, <3>1
      <3>3. k - 1 \in Ike' /\ ikeEvt'[k - 1] = ikeEvt[k]
        <4>1. k \in Ike BY Zenon
        <4> QED BY ONLY <1>n, <3>2, <4>1 DEF IkeTakes, Ike
      <3> QED BY Zenon, <3>1, <3>3
    <2> QED BY Zenon, <2>1 DEF MapsAgree, Ike
  <1>8. UplinkToOwnRanUe' BY Zenon DEF UplinkToOwnRanUe
  <1>9. ClosedSaGone' BY Zenon DEF ClosedSaGone
  <1>10. DeleteComesLast'
    <2>1. DeleteComesLast /\ UNCHANGED NGAPIdToIKESPI BY Zenon
    <2> QED BY ONLY <1>b, <2>1 DEF DeleteComesLast, UsesSa
  <1>11. UsedSaExists' BY Zenon, <1>b DEF UsedSaExists, UsesSa
  <1>12. MappedSaExists' BY Zenon DEF MappedSaExists
  <1>13. IkeServerSurvives' BY Zenon DEF IkeServerSurvives
  <1> QED BY Zenon, <1>1, <1>2, <1>3, <1>4, <1>5, <1>6, <1>7, <1>8, <1>9, <1>10, <1>11, <1>12, <1>13

\* A nil dereference ends the IKE loop: only the SA of a UE that deletes it itself
\* can be missing.
LEMMA PanicStep ==
    ASSUME TableInv, TypeOK', IkeServerPanics
    PROVE  TableInv'
  <1> USE DEF TableInv
  <1>a. TypeOK /\ ikeEvt # <<>> BY Zenon DEF IkeServerPanics
  <1>b. /\ UNCHANGED <<IKESA, sa, IKESPIToNGAPId, NGAPIdToIKESPI, RANUePool, nextRanId,
                       ngapEvt, ue, toN3iwf, toUe, amf>>
        /\ ikeUp' = FALSE /\ ikeEvt' = <<>>
    BY Zenon DEF IkeServerPanics, ranVars, netVars
  <1>c. Ike' = {} BY <1>b DEF Ike
  <1>d. 1 \in Ike /\ Head(ikeEvt) = ikeEvt[1] BY <1>a, EvtType DEF Ike
  <1>e. ikeEvt[1].spi \in Spi BY Zenon, <1>a, <1>d, Basics
  <1>f. NilDereference(ikeEvt[1]) BY Zenon, <1>d DEF IkeServerPanics
  <1>g. \/ UsesSa(1) /\ ikeEvt[1].spi \notin IKESA
        \/ ~ Answered(1) /\ ~ sa[ikeEvt[1].spi].IkeUE
    BY Zenon, <1>f DEF NilDereference, UsesSa, NeedsIkeUe, Answered, Created
  <1>h. ue[ikeEvt[1].spi].phase = "deleting"
    BY Zenon, <1>d, <1>g DEF UsedSaExists, IkeUeFirst
  <1>1. RequestIds' BY Zenon, <1>b DEF RequestIds
  <1>2. FirstNas' BY Zenon, <1>b, <1>c DEF FirstNas, Waiting, Asked, Ngap
  <1>3. IkeUeFirst' BY Zenon, <1>b, <1>c DEF IkeUeFirst
  <1>4. FreshIds' BY Zenon, <1>b DEF FreshIds, Ngap, Asked
  <1>5. Unannounced' BY Zenon, <1>c DEF Unannounced
  <1>6. OneMapping' BY Zenon, <1>b DEF OneMapping
  <1>7. MapsAgree' BY Zenon, <1>b DEF MapsAgree
  <1>8. UplinkToOwnRanUe' BY Zenon, <1>b DEF UplinkToOwnRanUe
  <1>9. ClosedSaGone' BY Zenon, <1>b DEF ClosedSaGone
  <1>10. DeleteComesLast' BY Zenon, <1>c DEF DeleteComesLast
  <1>11. UsedSaExists' BY Zenon, <1>c DEF UsedSaExists
  <1>12. MappedSaExists' BY Zenon, <1>b DEF MappedSaExists
  <1>13. IkeServerSurvives' BY Zenon, <1>b, <1>e, <1>h DEF IkeServerSurvives
  <1> QED BY Zenon, <1>1, <1>2, <1>3, <1>4, <1>5, <1>6, <1>7, <1>8, <1>9, <1>10, <1>11, <1>12, <1>13

\* N3IWFIkeUe.Remove: the UE asked for it, or nothing needs the association any more.
LEMMA RemoveStep ==
    ASSUME TableInv, TypeOK', NEW d \in {0, 1}, IkeTakes(d), d = 1 => ~ Created(1),
           NgapAdds, NEW s \in Spi, sa[s].IkeUE, sa'[s].IkeUE, IKESA' = IKESA \ {s},
           \A u \in Spi \ {s} :
             sa'[u] = sa[u] /\ IKESPIToNGAPId'[u] = IKESPIToNGAPId[u],
           IKESPIToNGAPId'[s] \in {IKESPIToNGAPId[s], None},
           \/ sa'[s].InitiatorMessageID = sa[s].InitiatorMessageID
           \/ /\ sa'[s].InitiatorMessageID = sa[s].InitiatorMessageID + 1
              /\ ue[s].phase = "deleting" /\ sa[s].InitiatorMessageID = ue[s].id,
           \A m \in toUe' : \/ m \in toUe
                            \/ m.spi = s /\ m.id < sa'[s].InitiatorMessageID,
           \/ ue[s].phase = "deleting"
           \/ /\ \A i \in RanId : NGAPIdToIKESPI[i] # s
              /\ \A k \in Ike' : UsesSa(k)' => ikeEvt'[k].spi # s,
           UNCHANGED <<NGAPIdToIKESPI, RANUePool, nextRanId, ikeUp, ue, toN3iwf, amf>>
    PROVE  TableInv'
  <1> USE DEF TableInv
  <1>a. TypeOK BY Zenon
  <1>b. /\ \A k \in Ike' : k + d \in Ike /\ ikeEvt'[k] = ikeEvt[k + d] /\ k \in Nat
        /\ \A k, l \in Ike' : (k + d = l + d => k = l) /\ (k < l => k + d < l + d)
    <2>1. Len(ikeEvt) \in Nat BY Zenon, <1>a, Basics
    <2> QED BY ONLY <2>1, IkeTakes(d), d \in {0, 1} DEF IkeTakes, Ike
  <1>c. \A k \in Ike : ikeEvt[k].spi \in Spi /\ ikeEvt[k].id \in RanId BY Zenon, <1>a, Basics
  <1>d. \A u \in Spi : sa'[u].IkeUE = sa[u].IkeUE
    <2>1. sa'[s].IkeUE \in BOOLEAN /\ sa[s].IkeUE \in BOOLEAN
      BY Zenon, <1>a, SaType, TypeOK' DEF SecurityAssociation, TypeOK
    <2> QED BY Zenon, <2>1
  <1>e. \A u \in Spi : Waiting(u) => u # s BY Zenon DEF Waiting
  <1>f. ue[s].phase # "idle"
    <2>1. ~ NewSa.IkeUE BY Zenon DEF NewSa
    <2> QED BY Zenon, <2>1 DEF RequestIds
  <1>g. \A u \in Spi : IKESPIToNGAPId'[u] \in {IKESPIToNGAPId[u], None} BY Zenon
  <1>h. \A k \in Ngap' : \/ k \in Ngap /\ ngapEvt'[k] = ngapEvt[k]
                        \/ /\ ngapEvt'[k].type # "UnmarshalEAP5GData" /\ ngapEvt'[k].id # None
                           /\ \E u \in Spi : ngapEvt'[k].id = IKESPIToNGAPId[u]
    <2>1. Len(ngapEvt) \in Nat BY Zenon, <1>a, Basics
    <2> QED BY ONLY <2>1, NgapAdds DEF NgapAdds, Ngap
  <1>1. RequestIds'
    <2>1. ASSUME NEW m \in toUe' PROVE m.id < sa'[m.spi].InitiatorMessageID
      <3>1. CASE m \in toUe /\ m.spi # s BY ZenonT(30), <1>a, <3>1, Basics DEF RequestIds
      <3>2. CASE m \in toUe /\ m.spi = s
        <4>1. m.id \in Nat /\ m.id < sa[s].InitiatorMessageID BY Zenon, <1>a, <3>2, Basics DEF RequestIds
        <4>2. /\ sa[s].InitiatorMessageID \in Nat
              /\ \/ sa'[s].InitiatorMessageID = sa[s].InitiatorMessageID
                 \/ sa'[s].InitiatorMessageID = sa[s].InitiatorMessageID + 1
          BY Zenon, <1>a, Basics
        <4> QED BY ONLY <3>2, <4>1, <4>2
      <3>3. CASE m.spi = s /\ m.id < sa'[s].InitiatorMessageID BY ZenonT(30), <3>3
      <3> QED BY Zenon, <3>1, <3>2, <3>3
    <2>2. \A u \in Spi :
            /\ ue[u].id <= sa'[u].InitiatorMessageID
            /\ sa'[u].InitiatorMessageID <= ue[u].id + 1
            /\ ue[u].phase = "up" => sa'[u].InitiatorMessageID = ue[u].id + 1
      <3>1. \A u \in Spi \ {s} :
              /\ ue[u].id <= sa'[u].InitiatorMessageID
              /\ sa'[u].InitiatorMessageID <= ue[u].id + 1
              /\ ue[u].phase = "up" => sa'[u].InitiatorMessageID = ue[u].id + 1
        BY ZenonT(30) DEF RequestIds
      <3>2. /\ ue[s].id <= sa[s].InitiatorMessageID /\ sa[s].InitiatorMessageID <= ue[s].id + 1
            /\ ue[s].phase = "up" => sa[s].InitiatorMessageID = ue[s].id + 1
            /\ ue[s].id \in Nat /\ sa[s].InitiatorMessageID \in Nat
            /\ \/ sa'[s].InitiatorMessageID = sa[s].InitiatorMessageID
               \/ /\ sa'[s].InitiatorMessageID = sa[s].InitiatorMessageID + 1
                  /\ ue[s].phase = "deleting" /\ sa[s].InitiatorMessageID = ue[s].id
        BY Zenon, <1>a, Basics DEF RequestIds
      <3>3. /\ ue[s].id <= sa'[s].InitiatorMessageID
            /\ sa'[s].InitiatorMessageID <= ue[s].id + 1
            /\ ue[s].phase = "up" => sa'[s].InitiatorMessageID = ue[s].id + 1
        BY ONLY <3>2
      <3> QED BY ONLY Zenon, <3>1, <3>3
    <2>3. \A u \in Spi : ue[u].phase = "idle" =>
            sa'[u] = NewSa /\ ue[u].id = 0 /\ u \notin IKESA'
      BY Zenon, <1>f DEF RequestIds
    <2> QED BY Zenon, <2>1, <2>2, <2>3 DEF RequestIds
  <1>2. FirstNas'
    <2>1. ASSUME NEW u \in Spi, Waiting(u) PROVE Waiting(u)'
      BY Zenon, <1>e, <2>1 DEF Waiting
    <2>2. \A k \in Ngap' : Asked(k)' => k \in Ngap /\ Asked(k) /\ ngapEvt'[k] = ngapEvt[k]
      BY Zenon, <1>h DEF Asked
    <2>3. \A k \in Ike' : Answered(k)' = Answered(k + d)
      BY Zenon, <1>b DEF Answered, Created
    <2>4. \A k \in Ngap : Asked(k) => ngapEvt[k].spi \in Spi BY Zenon, <1>a, Basics DEF Asked
    <2>5. /\ \A k \in Ngap' : Asked(k)' => ngapEvt'[k].spi \in Spi
          /\ \A k \in Ike' : ikeEvt'[k].spi \in Spi
      BY ZenonT(30), <1>b, <1>c, <2>2, <2>4
    <2>6. \A k \in Ngap', u \in Spi : Asked(k)' /\ u = ngapEvt'[k].spi => Waiting(u)'
      BY ZenonT(30), <2>1, <2>2 DEF FirstNas
    <2>7. ASSUME NEW k \in Ike', NEW u \in Spi, Answered(k)', u = ikeEvt'[k].spi
          PROVE  Waiting(u)'
      <3>1. k + d \in Ike /\ Answered(k + d) /\ u = ikeEvt[k + d].spi
        BY Zenon, <1>b, <2>3, <2>7
      <3>2. Waiting(u) BY Zenon, <3>1 DEF FirstNas
      <3> QED BY Zenon, <2>1, <3>2
    <2>8. ASSUME NEW k \in Ngap', NEW l \in Ngap', Asked(k)', Asked(l)',
                 ngapEvt'[k].spi = ngapEvt'[l].spi
          PROVE  k = l
      <3>1. /\ k \in Ngap /\ l \in Ngap /\ Asked(k) /\ Asked(l)
            /\ ngapEvt[k].spi = ngapEvt[l].spi
        <4>1. k \in Ngap /\ Asked(k) /\ ngapEvt'[k] = ngapEvt[k] BY Zenon, <2>2, <2>8
        <4>2. l \in Ngap /\ Asked(l) /\ ngapEvt'[l] = ngapEvt[l] BY Zenon, <2>2, <2>8
        <4> QED BY Zenon, <2>8, <4>1, <4>2
      <3> QED BY ONLY Zenon, FirstNas, <3>1 DEF FirstNas
    <2>9. ASSUME NEW k \in Ike', NEW l \in Ike', Answered(k)', Answered(l)',
                 ikeEvt'[k].spi = ikeEvt'[l].spi
          PROVE  k = l
      <3>1. /\ k + d \in Ike /\ l + d \in Ike /\ Answered(k + d) /\ Answered(l + d)
            /\ ikeEvt[k + d].spi = ikeEvt[l + d].spi
        <4>1. k + d \in Ike /\ Answered(k + d) /\ ikeEvt'[k] = ikeEvt[k + d]
          BY Zenon, <1>b, <2>3, <2>9
        <4>2. l + d \in Ike /\ Answered(l + d) /\ ikeEvt'[l] = ikeEvt[l + d]
          BY Zenon, <1>b, <2>3, <2>9
        <4> QED BY Zenon, <2>9, <4>1, <4>2
      <3>2. k + d = l + d BY ONLY Zenon, FirstNas, <3>1 DEF FirstNas
      <3> QED BY Zenon, <1>b, <3>2
    <2>10. ASSUME NEW k \in Ngap', NEW l \in Ike', Asked(k)', Answered(l)'
           PROVE  ngapEvt'[k].spi # ikeEvt'[l].spi
      <3>1. k \in Ngap /\ Asked(k) /\ ngapEvt'[k] = ngapEvt[k] BY Zenon, <2>2, <2>10
      <3>2. l + d \in Ike /\ Answered(l + d) /\ ikeEvt'[l] = ikeEvt[l + d]
        BY Zenon, <1>b, <2>3, <2>10
      <3>3. ngapEvt[k].spi # ikeEvt[l + d].spi BY ONLY Zenon, FirstNas, <3>1, <3>2 DEF FirstNas
      <3> QED BY Zenon, <3>1, <3>2, <3>3
    <2> QED BY Zenon, <2>5, <2>6, <2>7, <2>8, <2>9, <2>10 DEF FirstNas
  <1>3. IkeUeFirst'
    <2>1. ASSUME NEW k \in Ike', ~ Answered(k)' PROVE sa'[ikeEvt'[k].spi].IkeUE
      <3>1. ~ Answered(k + d) BY Zenon, <1>b, <2>1 DEF Answered, Created
      <3>2. sa[ikeEvt[k + d].spi].IkeUE BY Zenon, <1>b, <3>1 DEF IkeUeFirst
      <3> QED BY ZenonT(60), <1>b, <1>c, <1>d, <3>2
    <2>2. \A i \in RanId : NGAPIdToIKESPI[i] # None => sa'[NGAPIdToIKESPI[i]].IkeUE
      BY Zenon, <1>a, <1>d, Basics DEF IkeUeFirst
    <2> QED BY Zenon, <1>d, <2>1, <2>2 DEF IkeUeFirst
  <1>4. FreshIds'
    <2>1. ASSUME NEW k \in Ngap', ~ Asked(k)' PROVE ngapEvt'[k].id < nextRanId
      <3>1. CASE k \in Ngap /\ ngapEvt'[k] = ngapEvt[k]
        BY Zenon, <2>1, <3>1 DEF FreshIds, Asked
      <3>2. CASE ngapEvt'[k].id # None /\ \E u \in Spi : ngapEvt'[k].id = IKESPIToNGAPId[u]
        BY Zenon, <3>2 DEF FreshIds
      <3> QED BY Zenon, <1>h, <3>1, <3>2
    <2> QED BY Zenon, <1>g, <2>1 DEF FreshIds
  <1>5. Unannounced'
    <2>1. \A k \in Ike' : Created(k)' = Created(k + d) BY ZenonT(30), <1>b DEF Created
    <2>2. ASSUME NEW k \in Ike', Created(k + d) PROVE KnownOnlyHere(k)'
      <3>1. KnownOnlyHere(k + d) /\ ikeEvt'[k] = ikeEvt[k + d] BY Zenon, <1>b, <2>2 DEF Unannounced
      <3>2. ASSUME NEW l \in Ngap', ngapEvt'[l].type # "UnmarshalEAP5GData"
            PROVE  ngapEvt'[l].id # ikeEvt[k + d].id
        <4>1. CASE l \in Ngap /\ ngapEvt'[l] = ngapEvt[l]
          BY ZenonT(30), <3>1, <3>2, <4>1 DEF KnownOnlyHere
        <4>2. CASE \E u \in Spi : ngapEvt'[l].id = IKESPIToNGAPId[u]
          BY Zenon, <3>1, <4>2 DEF KnownOnlyHere
        <4> QED BY Zenon, <1>h, <4>1, <4>2
      <3>3. ASSUME NEW l \in Ike', Created(l)', ikeEvt'[l].id = ikeEvt'[k].id PROVE l = k
        <4>1. l + d \in Ike /\ Created(l + d) /\ ikeEvt[l + d].id = ikeEvt[k + d].id
          <5>1. ikeEvt'[l] = ikeEvt[l + d] /\ l + d \in Ike BY Zenon, <1>b
          <5>2. Created(l + d) BY Zenon, <2>1, <3>3
          <5> QED BY Zenon, <3>1, <3>3, <5>1, <5>2
        <4>2. l + d = k + d BY ONLY ZenonT(30), <3>1, <4>1 DEF KnownOnlyHere
        <4> QED BY Zenon, <1>b, <4>2
      <3>4. \A u \in Spi : IKESPIToNGAPId'[u] # ikeEvt[k + d].id
        <4>1. \A u \in Spi : IKESPIToNGAPId[u] # ikeEvt[k + d].id
          BY ONLY Zenon, <3>1 DEF KnownOnlyHere
        <4>2. ikeEvt[k + d].id # None BY ZenonT(30), <1>b, <1>c, NoneAssumption
        <4> QED BY ONLY Zenon, <1>g, <4>1, <4>2
      <3>5. UNCHANGED <<RANUePool, NGAPIdToIKESPI, amf>> BY Zenon
      <3> QED BY ONLY Zenon, <3>1, <3>2, <3>3, <3>4, <3>5 DEF KnownOnlyHere
    <2> QED BY Zenon, <2>1, <2>2 DEF Unannounced
  <1>6. OneMapping' BY Zenon DEF OneMapping
  <1>7. MapsAgree'
    <2>1. \A u \in Spi : LET i == IKESPIToNGAPId'[u] IN
            /\ i \in RANUePool => NGAPIdToIKESPI[i] = u
            /\ i # None => \A v \in Spi \ {u} : IKESPIToNGAPId'[v] # i
      <3>1. ASSUME NEW u \in Spi, IKESPIToNGAPId'[u] \in RANUePool
            PROVE  NGAPIdToIKESPI[IKESPIToNGAPId'[u]] = u
        <4>1. IKESPIToNGAPId'[u] = IKESPIToNGAPId[u]
          <5>1. None \notin RANUePool BY Zenon, <1>a, Basics
          <5> QED BY ONLY Zenon, <1>g, <3>1, <5>1, u \in Spi
        <4> QED BY Zenon, <3>1, <4>1 DEF MapsAgree
      <3>2. ASSUME NEW u \in Spi, IKESPIToNGAPId'[u] # None, NEW v \in Spi \ {u}
            PROVE  IKESPIToNGAPId'[v] # IKESPIToNGAPId'[u]
        <4>1. IKESPIToNGAPId'[u] = IKESPIToNGAPId[u] BY Zenon, <1>g, <3>2
        <4>2. IKESPIToNGAPId[v] # IKESPIToNGAPId[u] BY Zenon, <3>2, <4>1 DEF MapsAgree
        <4>3. IKESPIToNGAPId'[v] \in {IKESPIToNGAPId[v], None} BY Zenon, <1>g
        <4> QED BY ONLY Zenon, <3>2, <4>1, <4>2, <4>3
      <3> QED BY Zenon, <3>1, <3>2
    <2>2. ASSUME NEW i \in RANUePool, ikeUp, NGAPIdToIKESPI[i] = None
          PROVE  \E k \in Ike' : /\ ikeEvt'[k].type = "UnmarshalEAP5GDataResponse"
                                 /\ ikeEvt'[k].id = i
      <3>1. PICK k \in Ike : Created(k) /\ ikeEvt[k].id = i
        BY Zenon, <2>2 DEF MapsAgree, Ike, Created
      <3>2. k - d \in Ike' /\ ikeEvt'[k - d] = ikeEvt[k]
        <4>1. d = 0 \/ k # 1 BY Zenon, <3>1
        <4>2. Len(ikeEvt) \in Nat BY Zenon, <1>a, Basics
        <4> QED BY ONLY k \in Ike, <4>1, <4>2, d \in {0, 1}, IkeTakes(d) DEF IkeTakes, Ike
      <3> QED BY Zenon, <3>1, <3>2 DEF Created
    <2> QED BY ZenonT(30), <2>1, <2>2 DEF MapsAgree, Ike
  <1>8. UplinkToOwnRanUe'
    BY ZenonT(30), <1>h DEF UplinkToOwnRanUe, Ngap
  <1>9. ClosedSaGone' BY Zenon, <1>a, Basics DEF ClosedSaGone
  <1>u. ASSUME NEW k \in Ike'
        PROVE  /\ k + d \in Ike /\ ikeEvt'[k] = ikeEvt[k + d]
               /\ UsesSa(k)' => UsesSa(k + d)
    <2>1. k + d \in Ike /\ ikeEvt'[k] = ikeEvt[k + d] BY Zenon, <1>b
    <2> QED BY Zenon, <2>1 DEF UsesSa
  <1>10. DeleteComesLast'
    <2>1. ASSUME NEW k \in Ike', ikeEvt'[k].type = "IKEDeleteRequest"
          PROVE  /\ \A i \in RanId : NGAPIdToIKESPI[i] # ikeEvt'[k].spi
                 /\ \A l \in Ike' : k < l /\ UsesSa(l)' => ikeEvt'[l].spi # ikeEvt'[k].spi
      <3>1. k + d \in Ike /\ ikeEvt'[k] = ikeEvt[k + d] BY Zenon, <1>u
      <3>2. /\ \A i \in RanId : NGAPIdToIKESPI[i] # ikeEvt[k + d].spi
            /\ \A l \in Ike : k + d < l /\ UsesSa(l) => ikeEvt[l].spi # ikeEvt[k + d].spi
        BY ZenonT(30), <2>1, <3>1 DEF DeleteComesLast
      <3>3. ASSUME NEW l \in Ike', k < l, UsesSa(l)' PROVE ikeEvt'[l].spi # ikeEvt'[k].spi
        <4>1. k + d < l + d BY Zenon, <1>b, <3>3
        <4>2. l + d \in Ike /\ ikeEvt'[l] = ikeEvt[l + d] /\ UsesSa(l + d) BY Zenon, <1>u, <3>3
        <4> QED BY ZenonT(60), <3>1, <3>2, <4>1, <4>2
      <3> QED BY Zenon, <3>1, <3>2, <3>3
    <2> QED BY Zenon, <2>1 DEF DeleteComesLast
  <1>11. UsedSaExists'
    <2>1. ASSUME NEW k \in Ike', UsesSa(k)', ue[ikeEvt'[k].spi].phase # "deleting"
          PROVE  ikeEvt'[k].spi \in IKESA'
      <3>1. ikeEvt'[k].spi \in IKESA
        <4>1. k + d \in Ike /\ ikeEvt'[k] = ikeEvt[k + d] /\ UsesSa(k + d) BY Zenon, <1>u, <2>1
        <4> QED BY ZenonT(30), <2>1, <4>1 DEF UsedSaExists
      <3>2. ikeEvt'[k].spi # s BY Zenon, <2>1
      <3> QED BY Zenon, <3>1, <3>2
    <2> QED BY Zenon, <2>1 DEF UsedSaExists
  <1>12. MappedSaExists' BY Zenon DEF MappedSaExists
  <1>13. IkeServerSurvives' BY Zenon DEF IkeServerSurvives
  <1> QED BY Zenon, <1>1, <1>2, <1>3, <1>4, <1>5, <1>6, <1>7, <1>8, <1>9, <1>10, <1>11, <1>12, <1>13

-----------------------------------------------------------------------------
(* What the handlers do to the channels and to the associations.           *)

\* The IKE loop takes the first of its events.
LEMMA IkeTaken ==
    ASSUME TypeOK, NEW t, IkeEvent(t)
    PROVE  /\ 1 \in Ike /\ Head(ikeEvt) = ikeEvt[1] /\ ikeEvt[1].type = t /\ IkeTakes(1)
           /\ ikeEvt[1].spi \in Spi /\ ikeEvt[1].id \in RanId
  <1>1. ikeEvt \in Seq(IkeEvt) /\ ikeEvt # <<>> /\ ikeEvt' = Tail(ikeEvt) /\ Head(ikeEvt).type = t
    BY Zenon, EvtType DEF IkeEvent
  <1>2. 1 \in Ike /\ Head(ikeEvt) = ikeEvt[1] BY Zenon, <1>1, TailIndex DEF Ike
  <1>3. IkeTakes(1) BY <1>1, TailIndex DEF IkeTakes
  <1> QED BY Zenon, <1>1, <1>2, <1>3, Basics

\* The IKE loop handles a packet, or another goroutine runs: no event is taken.
LEMMA IkeNotTaken ==
    ASSUME TypeOK, UNCHANGED ikeEvt PROVE IkeTakes(0)
  BY Basics DEF IkeTakes

\* The NGAP loop takes the first of its events.
LEMMA NgapTaken ==
    ASSUME TypeOK, NEW t, NgapEvent(t)
    PROVE  /\ 1 \in Ngap /\ Head(ngapEvt) = ngapEvt[1] /\ ngapEvt[1].type = t
           /\ NgapTakes(1) /\ ngapEvt # <<>> /\ ngapEvt[1].id \in RanId
  <1>1. ngapEvt \in Seq(NgapEvt) /\ ngapEvt # <<>> /\ ngapEvt' = Tail(ngapEvt) /\ Head(ngapEvt).type = t
    BY Zenon, EvtType DEF NgapEvent
  <1>2. 1 \in Ngap /\ Head(ngapEvt) = ngapEvt[1] BY Zenon, <1>1, TailIndex DEF Ngap
  <1>3. NgapTakes(1) BY <1>1, TailIndex DEF NgapTakes
  <1> QED BY Zenon, <1>1, <1>2, <1>3, Basics

\* The NGAP loop handles a message: no event is taken.
LEMMA NgapNotTaken ==
    ASSUME TypeOK, UNCHANGED ngapEvt PROVE NgapTakes(0)
  BY Basics DEF NgapTakes

\* The IKE side sends nothing.
LEMMA NgapNotSent ==
    ASSUME TypeOK, ngapEvt' = ngapEvt PROVE NgapAdds
  BY Basics DEF NgapAdds

\* The IKE side sends an event about a mapped RAN UE.
LEMMA NgapSentOne ==
    ASSUME TypeOK, NEW s \in Spi, IKESPIToNGAPId[s] # None, NEW t \in NgapEvtType,
           ngapEvt' = Append(ngapEvt, NgapE(t, IKESPIToNGAPId[s]))
    PROVE  NgapAdds
  <1> DEFINE e == NgapE(t, IKESPIToNGAPId[s])
  <1>1. IKESPIToNGAPId[s] \in RanId BY Zenon, Basics
  <1>2. e \in NgapEvt /\ e.type = t /\ e.id = IKESPIToNGAPId[s] BY Zenon, <1>1, EventTypes DEF NgapE
  <1>3. t # "UnmarshalEAP5GData" BY Zenon DEF NgapEvtType
  <1> HIDE DEF e
  <1>4. /\ Len(ngapEvt') = Len(ngapEvt) + 1 /\ Len(ngapEvt) \in Nat
        /\ ngapEvt'[Len(ngapEvt) + 1] = e
        /\ \A k \in 1..Len(ngapEvt) : ngapEvt'[k] = ngapEvt[k]
    BY SMTT(30), <1>2, EvtType, AppendIndex DEF e
  <1> QED BY <1>2, <1>3, <1>4 DEF NgapAdds

\* The IKE side sends two events about a mapped RAN UE.
LEMMA NgapSentTwo ==
    ASSUME TypeOK, NEW s \in Spi, IKESPIToNGAPId[s] # None,
           NEW t \in NgapEvtType, NEW v \in NgapEvtType,
           ngapEvt' = Append(Append(ngapEvt, NgapE(t, IKESPIToNGAPId[s])),
                             NgapE(v, IKESPIToNGAPId[s]))
    PROVE  NgapAdds
  <1> DEFINE e == NgapE(t, IKESPIToNGAPId[s])
             f == NgapE(v, IKESPIToNGAPId[s])
             q == Append(ngapEvt, e)
  <1>1. IKESPIToNGAPId[s] \in RanId BY Zenon, Basics
  <1>2. e \in NgapEvt /\ e.type = t /\ e.id = IKESPIToNGAPId[s] BY Zenon, <1>1, EventTypes DEF NgapE
  <1>3. f \in NgapEvt /\ f.type = v /\ f.id = IKESPIToNGAPId[s] BY Zenon, <1>1, EventTypes DEF NgapE
  <1>4. t # "UnmarshalEAP5GData" /\ v # "UnmarshalEAP5GData" BY Zenon DEF NgapEvtType
  <1>5. ngapEvt' = Append(q, f) /\ q = Append(ngapEvt, e) BY Zenon
  <1> HIDE DEF e, f, q
  <1>6. /\ q \in Seq(NgapEvt) /\ Len(q) = Len(ngapEvt) + 1 /\ Len(ngapEvt) \in Nat
        /\ q[Len(ngapEvt) + 1] = e
        /\ \A k \in 1..Len(ngapEvt) : q[k] = ngapEvt[k]
    BY SMTT(30), <1>2, <1>5, EvtType, AppendIndex
  <1>7. /\ Len(ngapEvt') = Len(q) + 1 /\ ngapEvt'[Len(q) + 1] = f
        /\ \A k \in 1..Len(q) : ngapEvt'[k] = q[k]
    BY SMTT(30), <1>3, <1>5, <1>6, AppendIndex
  <1> QED BY <1>2, <1>3, <1>4, <1>6, <1>7 DEF NgapAdds

\* The NGAP side sends nothing.
LEMMA IkeNotSent ==
    ASSUME TypeOK, NEW R, ikeEvt' = ikeEvt PROVE IkeAdds(R)
  BY Basics DEF IkeAdds

\* The NGAP side sends an event about a mapped RAN UE.
LEMMA IkeSentOne ==
    ASSUME TypeOK, NEW R, NEW i \in RanId, NGAPIdToIKESPI[i] # None,
           NEW t \in IkeEvtType \ {"UnmarshalEAP5GDataResponse", "SendEAP5GFailureMsg"},
           t = "IKEDeleteRequest" => i \in R,
           SendIkeEvt(IkeE(t, NGAPIdToIKESPI[i], i))
    PROVE  IkeAdds(R)
  <1> DEFINE e == IkeE(t, NGAPIdToIKESPI[i], i)
  <1>1. NGAPIdToIKESPI[i] \in Spi BY Zenon, Basics
  <1>2. e \in IkeEvt /\ e.type = t /\ e.id = i /\ e.spi = NGAPIdToIKESPI[i]
    BY Zenon, <1>1, EventTypes DEF IkeE
  <1> HIDE DEF e
  <1>3. CASE ikeUp
    <2>1. ikeEvt' = Append(ikeEvt, e) BY Zenon, <1>3 DEF SendIkeEvt, e
    <2>2. /\ Len(ikeEvt') = Len(ikeEvt) + 1 /\ Len(ikeEvt) \in Nat
          /\ ikeEvt'[Len(ikeEvt) + 1] = e
          /\ \A k \in 1..Len(ikeEvt) : ikeEvt'[k] = ikeEvt[k]
      BY SMTT(30), <1>2, <2>1, EvtType, AppendIndex
    <2> QED BY Zenon, <1>2, <2>2 DEF IkeAdds
  <1>4. CASE ~ ikeUp BY <1>4, Basics DEF IkeAdds, SendIkeEvt
  <1> QED BY Zenon, <1>3, <1>4

\* A UE whose IKE UE exists has begun.
LEMMA NotIdle ==
    ASSUME TableInv, NEW s \in Spi, sa[s].IkeUE
    PROVE  ue[s].phase # "idle"
  <1>1. ~ NewSa.IkeUE BY Zenon DEF NewSa
  <1> QED BY Zenon, <1>1 DEF TableInv, RequestIds

\* An association is changed in what the invariant does not mention.
LEMMA SaChanged ==
    ASSUME TableInv, NEW s \in Spi, sa[s].IkeUE, NEW r, sa' = [sa EXCEPT ![s] = r],
           r.InitiatorMessageID = sa[s].InitiatorMessageID,
           r.IkeUE = sa[s].IkeUE, r.dpd = "closed" => sa[s].dpd = "closed"
    PROVE  SaKeeps
  <1>1. sa \in [Spi -> SecurityAssociation] BY Zenon, SaType DEF TableInv
  <1> QED BY Zenon, <1>1, NotIdle DEF SaKeeps

\* No association is changed.
LEMMA SaUnchanged == ASSUME sa' = sa PROVE SaKeeps
  BY Zenon DEF SaKeeps

\* An IKE event handler answers the last request of the UE.
LEMMA LastRequestAnswered ==
    ASSUME TypeOK, NEW s \in Spi, sa[s].IkeUE, NEW k, NEW eap,
           SendIKEMessageToUE(s, k, LastMessageID(s), eap)
    PROVE  ToUeAdds
  <1>1. LastMessageID(s) < sa[s].InitiatorMessageID BY Basics DEF LastMessageID
  <1>2. \A m \in toUe' : m \in toUe \/ (m.spi = s /\ m.id = LastMessageID(s)) BY Zenon, SentOnly
  <1> QED BY Zenon, <1>1, <1>2 DEF ToUeAdds

-----------------------------------------------------------------------------
(* The IKE loop.                                                           *)

\* HandleIKEAUTH, given the association r it leaves.
LEMMA IkeAuthKind ==
    ASSUME TableInv, TypeOK', NEW m \in toN3iwf, NEW st, IkeAuth(m, st),
           NEW r, sa' = [sa EXCEPT ![m.spi] = r], r.InitiatorMessageID = m.id + 1,
           r.IkeUE = sa[m.spi].IkeUE, r.dpd = sa[m.spi].dpd,
           \A x \in toUe' : x \in toUe \/ (x.spi = m.spi /\ x.id = m.id),
           NgapAdds \/ NasForwarded(m.spi)
    PROVE  TableInv'
  <1>1. m.spi \in Spi /\ sa \in [Spi -> SecurityAssociation] BY Zenon, Basics, SaType DEF TableInv
  <1>2. /\ m.spi \in IKESA /\ m.id = sa[m.spi].InitiatorMessageID
        /\ UNCHANGED <<IKESA, IKESPIToNGAPId, NGAPIdToIKESPI, RANUePool, nextRanId,
                       ikeEvt, ikeUp, ue, toN3iwf, amf>>
    BY Zenon DEF IkeAuth, Dispatch, hasExpectedMessageID, ranVars, upVars
  <1>3. \A u \in Spi \ {m.spi} : sa'[u] = sa[u] BY Zenon, <1>1
  <1>4. sa'[m.spi] = r BY Zenon, <1>1
  <1> QED BY <1>2, <1>3, <1>4, IkeAuthStep

\* What HandleIKEAUTH leaves alone in an association.
LEMMA ConsumedKeeps ==
    ASSUME TypeOK, NEW m \in toN3iwf, NEW x, NEW y
    PROVE  \A r \in {Consumed(m), [Consumed(m) EXCEPT !.State = x, !.LastEAPIdentifier = y],
                     [Consumed(m) EXCEPT !.IPSecInnerIP = x],
                     [[Consumed(m) EXCEPT !.IPSecInnerIP = x] EXCEPT !.State = y]} :
             /\ r.InitiatorMessageID = m.id + 1
             /\ r.IkeUE = sa[m.spi].IkeUE /\ r.dpd = sa[m.spi].dpd
  <1>1. sa[m.spi] \in SecurityAssociation BY Zenon, Basics, SaType
  <1> QED BY Zenon, <1>1 DEF Consumed, SecurityAssociation

\* HandleIKEAUTH preserves the invariant, whatever the state of the association.
LEMMA IkeAuthTableInv ==
    ASSUME TableInv, TypeOK', NEW m \in toN3iwf,
           \/ HandleIKEAUTH_PreSignalling(m) \/ HandleIKEAUTH_EAPSignalling(m)
           \/ HandleIKEAUTH_PostSignalling(m) \/ HandleIKEAUTH_Late(m)
    PROVE  TableInv'
  <1> DEFINE s == m.spi
             c == Consumed(m)
             Answer == \A x \in toUe' : x \in toUe \/ (x.spi = s /\ x.id = m.id)
  <1>a. TypeOK /\ s \in Spi BY Zenon, Basics DEF TableInv
  <1>b. ASSUME toUe' = toUe PROVE Answer BY Zenon, <1>b
  <1>c. ASSUME NEW k, NEW eap, SendIKEMessageToUE(s, k, m.id, eap) PROVE Answer
    BY Zenon, <1>c, SentOnly
  <1>d. /\ c.InitiatorMessageID = m.id + 1 /\ c.IkeUE = sa[s].IkeUE /\ c.dpd = sa[s].dpd
    BY Zenon, <1>a, ConsumedKeeps
  <1>1. CASE HandleIKEAUTH_PreSignalling(m)
    <2>1. IkeAuth(m, {PreSignalling}) /\ ngapEvt' = ngapEvt
      BY Zenon, <1>1 DEF HandleIKEAUTH_PreSignalling
    <2>2. NgapAdds BY Zenon, <1>a, <2>1, NgapNotSent
    <2>3. CASE /\ sa' = [sa EXCEPT ![s] = [c EXCEPT !.State = EAPSignalling,
                                             !.LastEAPIdentifier = NextEAPIdentifier(s)]]
               /\ SendIKEMessageToUE(s, "start", m.id, NextEAPIdentifier(s))
      <3> DEFINE r == [c EXCEPT !.State = EAPSignalling,
                                !.LastEAPIdentifier = NextEAPIdentifier(s)]
      <3>1. Answer BY Zenon, <1>c, <2>3
      <3>2. r.InitiatorMessageID = m.id + 1 /\ r.IkeUE = sa[s].IkeUE /\ r.dpd = sa[s].dpd
        BY <1>a, ConsumedKeeps
      <3>3. sa' = [sa EXCEPT ![s] = r] BY Zenon, <2>3
      <3> HIDE DEF r
      <3> QED BY Zenon, <2>1, <2>2, <3>1, <3>2, <3>3, IkeAuthKind
    <2>4. CASE sa' = [sa EXCEPT ![s] = c] /\ UNCHANGED toUe
      <3>1. Answer BY Zenon, <1>b, <2>4
      <3> HIDE DEF c
      <3> QED BY Zenon, <1>d, <2>1, <2>2, <2>4, <3>1, IkeAuthKind
    <2> QED BY Zenon, <1>1, <2>3, <2>4 DEF HandleIKEAUTH_PreSignalling
  <1>2. CASE HandleIKEAUTH_EAPSignalling(m)
    <2>1. IkeAuth(m, {EAPSignalling}) /\ sa' = [sa EXCEPT ![s] = c]
      BY Zenon, <1>2 DEF HandleIKEAUTH_EAPSignalling
    <2>2. Answer /\ (NgapAdds \/ NasForwarded(s))
      <3>1. CASE UNCHANGED <<ngapEvt, toUe>> BY Zenon, <1>a, <1>b, <3>1, NgapNotSent
      <3>2. CASE SendIKEMessageToUE(s, "failure", m.id, 0) /\ UNCHANGED ngapEvt
        BY Zenon, <1>a, <1>c, <3>2, NgapNotSent
      <3>3. CASE /\ SendNgapEvt([type |-> "UnmarshalEAP5GData", spi |-> s,
                                 id |-> NgapIdOrZero(s), initial |-> sa[s].IkeUE])
                 /\ UNCHANGED toUe
        <4> DEFINE e == [type |-> "UnmarshalEAP5GData", spi |-> s,
                         id |-> NgapIdOrZero(s), initial |-> sa[s].IkeUE]
        <4>1. NgapIdOrZero(s) \in RanId /\ sa[s].IkeUE \in BOOLEAN
          <5>1. 0 \in RanId BY ConstantsAssumption DEF RanId
          <5> QED BY Zenon, <1>a, <5>1, SaType, Basics DEF NgapIdOrZero, SecurityAssociation
        <4>2. e \in NgapEvt BY Zenon, <1>a, <4>1 DEF NgapEvt
        <4>3. /\ e.type = "UnmarshalEAP5GData" /\ e.spi = s /\ e.id = NgapIdOrZero(s)
              /\ e.initial = sa[s].IkeUE
          BY Zenon
        <4>4. ngapEvt' = Append(ngapEvt, e) BY Zenon, <3>3 DEF SendNgapEvt
        <4> HIDE DEF e
        <4>5. /\ Len(ngapEvt') = Len(ngapEvt) + 1 /\ ngapEvt'[Len(ngapEvt) + 1] = e
              /\ \A k \in 1..Len(ngapEvt) : ngapEvt'[k] = ngapEvt[k]
          BY <1>a, <4>2, <4>4, EvtType, AppendIndex
        <4> QED BY Zenon, <1>b, <3>3, <4>3, <4>5 DEF NasForwarded
      <3> QED BY Zenon, <1>2, <3>1, <3>2, <3>3 DEF HandleIKEAUTH_EAPSignalling
    <2> HIDE DEF c
    <2> QED BY Zenon, <1>d, <2>1, <2>2, IkeAuthKind
  <1>3. CASE HandleIKEAUTH_PostSignalling(m)
    <2> DEFINE a == [c EXCEPT !.IPSecInnerIP = TRUE]
               b == [a EXCEPT !.State = @ + 1]
    <2>1. IkeAuth(m, {PostSignalling}) BY Zenon, <1>3 DEF HandleIKEAUTH_PostSignalling
    <2>2. /\ a.InitiatorMessageID = m.id + 1 /\ a.IkeUE = sa[s].IkeUE /\ a.dpd = sa[s].dpd
          /\ b.InitiatorMessageID = m.id + 1 /\ b.IkeUE = sa[s].IkeUE /\ b.dpd = sa[s].dpd
      BY <1>a, ConsumedKeeps
    <2>3. PICK r \in {c, a, b} :
            /\ sa' = [sa EXCEPT ![s] = r]
            /\ \/ UNCHANGED toUe
               \/ SendIKEMessageToUE(s, "authFailed", m.id, 0)
               \/ SendIKEMessageToUE(s, "auth", m.id, 0)
            /\ \/ UNCHANGED ngapEvt
               \/ /\ IKESPIToNGAPId[s] # None
                  /\ ngapEvt' = ngapEvt \o <<NgapE("StartTCPSignalNASMsg", IKESPIToNGAPId[s]),
                                             NgapE("GetNGAPContext", IKESPIToNGAPId[s])>>
      BY Zenon, <1>3 DEF HandleIKEAUTH_PostSignalling
    <2>4. Answer BY Zenon, <1>b, <1>c, <2>3
    <2>5. NgapAdds
      <3>1. CASE UNCHANGED ngapEvt BY Zenon, <1>a, <3>1, NgapNotSent
      <3>2. CASE /\ IKESPIToNGAPId[s] # None
                 /\ ngapEvt' = ngapEvt \o <<NgapE("StartTCPSignalNASMsg", IKESPIToNGAPId[s]),
                                            NgapE("GetNGAPContext", IKESPIToNGAPId[s])>>
        <4> DEFINE d == NgapE("StartTCPSignalNASMsg", IKESPIToNGAPId[s])
                   e == NgapE("GetNGAPContext", IKESPIToNGAPId[s])
        <4>1. IKESPIToNGAPId[s] \in RanId BY Zenon, <1>a, <3>2, Basics
        <4>2. d \in NgapEvt /\ e \in NgapEvt BY Zenon, <4>1, EventTypes DEF NgapEvtType
        <4>3. ngapEvt' = ngapEvt \o <<d, e>> BY Zenon, <3>2
        <4>4. ngapEvt' = Append(Append(ngapEvt, d), e)
          BY <1>a, <4>2, <4>3, EvtType, AppendTwo
        <4> QED BY Zenon, <1>a, <3>2, <4>4, NgapSentTwo DEF NgapEvtType
      <3> QED BY Zenon, <2>3, <3>1, <3>2
    <2>6. r.InitiatorMessageID = m.id + 1 /\ r.IkeUE = sa[s].IkeUE /\ r.dpd = sa[s].dpd
      BY Zenon, <1>d, <2>2
    <2> HIDE DEF a, b
    <2> QED BY Zenon, <2>1, <2>3, <2>4, <2>5, <2>6, IkeAuthKind
  <1>4. CASE HandleIKEAUTH_Late(m)
    <2>1. /\ IkeAuth(m, {EndSignalling, HandleCreateChildSA})
          /\ sa' = [sa EXCEPT ![s] = c] /\ UNCHANGED <<ngapEvt, toUe>>
      BY Zenon, <1>4 DEF HandleIKEAUTH_Late
    <2>2. Answer /\ NgapAdds BY Zenon, <1>a, <1>b, <2>1, NgapNotSent
    <2> HIDE DEF c
    <2> QED BY Zenon, <1>d, <2>1, <2>2, IkeAuthKind
  <1> QED BY Zenon, <1>1, <1>2, <1>3, <1>4

\* What N3IWFIkeUe.Remove does to the tables.
LEMMA Removed ==
    ASSUME TypeOK, NEW s \in Spi, NEW ok, NEW id, RemoveIkeUe(s, ok, id)
    PROVE  /\ IKESA' = IKESA \ {s}
           /\ \A u \in Spi \ {s} : /\ sa'[u] = sa[u]
                                   /\ IKESPIToNGAPId'[u] = IKESPIToNGAPId[u]
           /\ IKESPIToNGAPId'[s] \in {IKESPIToNGAPId[s], None}
           /\ sa'[s].InitiatorMessageID = id /\ sa'[s].IkeUE = sa[s].IkeUE
  <1>1. sa \in [Spi -> SecurityAssociation] BY Zenon, SaType
  <1>2. IKESPIToNGAPId \in [Spi -> RanId \cup {None}] BY Zenon, MapType
  <1>3. \A u \in Spi \ {s} : sa'[u] = sa[u] BY Zenon, <1>1 DEF RemoveIkeUe
  <1>4. sa'[s].InitiatorMessageID = id /\ sa'[s].IkeUE = sa[s].IkeUE
    BY ZenonT(30), <1>1 DEF RemoveIkeUe, SecurityAssociation
  <1>5. /\ IKESPIToNGAPId'[s] \in {IKESPIToNGAPId[s], None}
        /\ \A u \in Spi \ {s} : IKESPIToNGAPId'[u] = IKESPIToNGAPId[u]
    BY Zenon, <1>2 DEF RemoveIkeUe
  <1>6. IKESA' = IKESA \ {s} BY Zenon DEF RemoveIkeUe
  <1> QED BY Zenon, <1>3, <1>4, <1>5, <1>6

\* HandleInformational preserves the invariant: it is the UE that deletes.
LEMMA InformationalTableInv ==
    ASSUME TableInv, TypeOK', NEW m \in toN3iwf, HandleInformational(m)
    PROVE  TableInv'
  <1> DEFINE s == m.spi
  <1>a. TypeOK /\ s \in Spi /\ m.id \in Nat BY Zenon, Basics DEF TableInv
  <1>b. /\ m.id = sa[s].InitiatorMessageID /\ ue[s].phase = "deleting" /\ sa[s].IkeUE
        /\ IKESPIToNGAPId[s] # None
    BY Zenon DEF HandleInformational, Dispatch, hasExpectedMessageID, TableInv, RequestIds
  <1>c. sa[s].InitiatorMessageID = ue[s].id
    BY <1>a, <1>b, Basics DEF TableInv, RequestIds
  <1>d. UNCHANGED <<NGAPIdToIKESPI, RANUePool, nextRanId, ikeEvt, ikeUp, ue, toN3iwf, amf>>
    BY Zenon DEF HandleInformational, ranVars, upVars
  <1>e. IkeTakes(0) BY Zenon, <1>a, <1>d, IkeNotTaken
  <1>f. PICK ok \in RemoveOutcome :
          /\ RemoveIkeUe(s, ok, IF ok THEN m.id + 1 ELSE m.id)
          /\ IF ok
             THEN /\ SendNgapEvt(NgapE("SendUEContextRelease", IKESPIToNGAPId[s]))
                  /\ SendIKEMessageToUE(s, "deleted", m.id, 0)
             ELSE UNCHANGED <<ngapEvt, toUe>>
    BY Zenon DEF HandleInformational
  <1>1. CASE ok
    <2>1. RemoveIkeUe(s, ok, m.id + 1) BY Zenon, <1>f, <1>1
    <2>2. NgapAdds
      <3>1. ngapEvt' = Append(ngapEvt, NgapE("SendUEContextRelease", IKESPIToNGAPId[s]))
        BY Zenon, <1>f, <1>1 DEF SendNgapEvt
      <3> QED BY Zenon, <1>a, <1>b, <3>1, NgapSentOne DEF NgapEvtType
    <2>3. SendIKEMessageToUE(s, "deleted", m.id, 0) BY Zenon, <1>f, <1>1
    <2>4. \A x \in toUe' : x \in toUe \/ (x.spi = s /\ x.id = m.id) BY Zenon, <2>3, SentOnly
    <2>5. /\ IKESA' = IKESA \ {s}
          /\ \A u \in Spi \ {s} : /\ sa'[u] = sa[u]
                                  /\ IKESPIToNGAPId'[u] = IKESPIToNGAPId[u]
          /\ IKESPIToNGAPId'[s] \in {IKESPIToNGAPId[s], None}
          /\ sa'[s].InitiatorMessageID = m.id + 1 /\ sa'[s].IkeUE = sa[s].IkeUE
      BY Zenon, <1>a, <2>1, Removed
    <2>6. m.id < sa'[s].InitiatorMessageID BY <1>a, <2>5
    <2>7. sa'[s].IkeUE /\ sa'[s].InitiatorMessageID = sa[s].InitiatorMessageID + 1
      BY Zenon, <1>b, <2>5
    <2>8. \A x \in toUe' : \/ x \in toUe
                           \/ x.spi = s /\ x.id < sa'[s].InitiatorMessageID
      BY Zenon, <2>4, <2>6
    <2> HIDE DEF s
    <2> QED BY SMTT(30), <1>a, <1>b, <1>c, <1>d, <1>e, <2>2, <2>5, <2>7, <2>8, RemoveStep
  <1>2. CASE ~ ok
    <2>1. RemoveIkeUe(s, ok, m.id) /\ ngapEvt' = ngapEvt /\ toUe' = toUe BY Zenon, <1>f, <1>2
    <2>2. NgapAdds BY Zenon, <1>a, <2>1, NgapNotSent
    <2>3. /\ IKESA' = IKESA \ {s}
          /\ \A u \in Spi \ {s} : /\ sa'[u] = sa[u]
                                  /\ IKESPIToNGAPId'[u] = IKESPIToNGAPId[u]
          /\ IKESPIToNGAPId'[s] \in {IKESPIToNGAPId[s], None}
          /\ sa'[s].InitiatorMessageID = m.id /\ sa'[s].IkeUE = sa[s].IkeUE
      BY Zenon, <1>a, <2>1, Removed
    <2>4. sa'[s].IkeUE /\ sa'[s].InitiatorMessageID = sa[s].InitiatorMessageID
      BY Zenon, <1>b, <2>3
    <2> HIDE DEF s
    <2> QED BY SMTT(30), <1>a, <1>b, <1>c, <1>d, <1>e, <2>1, <2>2, <2>3, <2>4, RemoveStep
  <1> QED BY Zenon, <1>1, <1>2

\* Packets preserve the invariant.
LEMMA IkePacketTableInv ==
    ASSUME TableInv, TypeOK', IkePacket PROVE TableInv'
  <1>1. ASSUME NEW s \in Spi, HandleCREATECHILDSA(s) PROVE TableInv'
    <2>1. TypeOK BY Zenon DEF TableInv
    <2>2. /\ IKESPIToNGAPId[s] # None
          /\ ngapEvt' = Append(ngapEvt, NgapE("GetNGAPContext", IKESPIToNGAPId[s]))
          /\ UNCHANGED <<IKESA, sa, IKESPIToNGAPId, NGAPIdToIKESPI, RANUePool, nextRanId,
                         ikeEvt, ikeUp, ue, toN3iwf, toUe, amf>>
      BY Zenon, <1>1 DEF HandleCREATECHILDSA, SendNgapEvt, saVars, ranVars, upVars, netVars
    <2>3. NgapAdds BY Zenon, <2>1, <2>2, NgapSentOne DEF NgapEvtType
    <2>4. IkeTakes(0) /\ SaKeeps /\ ToUeAdds
      BY Zenon, <2>1, <2>2, IkeNotTaken, SaUnchanged DEF ToUeAdds
    <2> QED BY <2>2, <2>3, <2>4, IkeSideStep
  <1> QED BY Zenon, <1>1, SaInitStep, IkeAuthTableInv, InformationalTableInv DEF IkePacket

\* CreatePDUSessionChildSA changes an association and sends events about its RAN UE.
LEMMA ChildSaKind ==
    ASSUME TableInv, NEW s \in Spi, NEW i, sa[s].IkeUE, NEW r \in SecurityAssociation,
           r.InitiatorMessageID = sa[s].InitiatorMessageID, r.IkeUE = sa[s].IkeUE,
           r.dpd = "closed" => sa[s].dpd = "closed", NEW q,
           \/ q = ngapEvt
           \/ /\ IKESPIToNGAPId[s] # None
              /\ q = Append(ngapEvt, NgapE("SendNASMsg", IKESPIToNGAPId[s])),
           CreatePDUSessionChildSA(s, i, r, q)
    PROVE  SaKeeps /\ NgapAdds
  <1> DEFINE c == [r EXCEPT !.childAsked = TRUE]
  <1>a. TypeOK BY Zenon DEF TableInv
  <1>b. /\ c.InitiatorMessageID = sa[s].InitiatorMessageID /\ c.IkeUE = sa[s].IkeUE
        /\ c.dpd = r.dpd
    BY Zenon DEF SecurityAssociation
  <1>1. /\ sa' = [sa EXCEPT ![s] = r] \/ sa' = [sa EXCEPT ![s] = c]
        /\ \/ ngapEvt' = q
           \/ /\ IKESPIToNGAPId[s] # None
              /\ ngapEvt' = Append(q, NgapE("SendPDUSessionResourceSetupResponse",
                                            IKESPIToNGAPId[s]))
    BY Zenon DEF CreatePDUSessionChildSA
  <1> HIDE DEF c
  <1>2. SaKeeps BY Zenon, <1>b, <1>1, SaChanged
  <1>3. NgapAdds
    <2>1. CASE ngapEvt' = ngapEvt BY Zenon, <1>a, <2>1, NgapNotSent
    <2>2. CASE \E t \in NgapEvtType : /\ IKESPIToNGAPId[s] # None
                                      /\ ngapEvt' = Append(ngapEvt, NgapE(t, IKESPIToNGAPId[s]))
      BY Zenon, <1>a, <2>2, NgapSentOne
    <2>3. CASE /\ IKESPIToNGAPId[s] # None
               /\ ngapEvt' = Append(Append(ngapEvt, NgapE("SendNASMsg", IKESPIToNGAPId[s])),
                                    NgapE("SendPDUSessionResourceSetupResponse",
                                          IKESPIToNGAPId[s]))
      BY Zenon, <1>a, <2>3, NgapSentTwo DEF NgapEvtType
    <2> QED BY Zenon, <1>1, <2>1, <2>2, <2>3 DEF NgapEvtType
  <1> QED BY Zenon, <1>2, <1>3

\* The IKE events that neither make nor remove an IKE UE preserve the invariant.
LEMMA IkeSideEventTableInv ==
    ASSUME TableInv, TypeOK',
           \/ HandleSendEAPSuccessMsg \/ HandleSendEAPNASMsg \/ HandleCreatePDUSession
           \/ HandleGetNGAPContextResponse \/ HandleIKEContextUpdate
    PROVE  TableInv'
  <1> DEFINE s == ikeEvt[1].spi
             Same == UNCHANGED <<IKESA, IKESPIToNGAPId, NGAPIdToIKESPI, RANUePool, nextRanId,
                                 ikeUp, ue, toN3iwf, amf>>
  <1>a. TypeOK BY Zenon DEF TableInv
  <1>b. ASSUME NEW t \in IkeEvtType \ {"UnmarshalEAP5GDataResponse", "SendEAP5GFailureMsg"},
               IkeEvent(t)
        PROVE  /\ s \in Spi /\ sa[s].IkeUE /\ sa[s] \in SecurityAssociation
               /\ IkeTakes(1) /\ ~ Created(1) /\ Head(ikeEvt) = ikeEvt[1]
    <2>1. /\ 1 \in Ike /\ Head(ikeEvt) = ikeEvt[1] /\ ikeEvt[1].type = t /\ IkeTakes(1)
          /\ s \in Spi
      BY Zenon, <1>a, <1>b, IkeTaken
    <2>2. ~ Answered(1) /\ ~ Created(1) BY Zenon, <1>b, <2>1 DEF Answered, Created
    <2>3. sa[s].IkeUE BY Zenon, <2>1, <2>2 DEF TableInv, IkeUeFirst
    <2> QED BY Zenon, <1>a, <2>1, <2>2, <2>3, SaType
  <1>c. ASSUME IkeTakes(1), ~ Created(1), SaKeeps, NgapAdds, ToUeAdds, Same PROVE TableInv'
    BY Zenon, <1>c, IkeSideStep
  <1>d. ASSUME toUe' = toUe PROVE ToUeAdds BY Zenon, <1>d DEF ToUeAdds
  <1>1. CASE HandleSendEAPSuccessMsg
    <2>1. IkeEvent("SendEAPSuccessMsg") /\ Same /\ ngapEvt' = ngapEvt
      BY Zenon, <1>1 DEF HandleSendEAPSuccessMsg, ranVars, upVars
    <2>2. /\ s \in Spi /\ sa[s].IkeUE /\ sa[s] \in SecurityAssociation
          /\ IkeTakes(1) /\ ~ Created(1) /\ Head(ikeEvt) = ikeEvt[1]
      BY Zenon, <1>b, <2>1 DEF IkeEvtType
    <2> DEFINE r == [sa[s] EXCEPT !.Kn3iwf = TRUE, !.LastEAPIdentifier = NextEAPIdentifier(s)]
               p == [r EXCEPT !.State = @ + 1]
    <2>3. \/ /\ SendIKEMessageToUE(s, "success", LastMessageID(s), NextEAPIdentifier(s))
             /\ sa' = [sa EXCEPT ![s] = p]
          \/ sa' = [sa EXCEPT ![s] = r] /\ toUe' = toUe
      BY Zenon, <1>1, <2>2 DEF HandleSendEAPSuccessMsg
    <2>4. /\ r.InitiatorMessageID = sa[s].InitiatorMessageID /\ r.IkeUE = sa[s].IkeUE
          /\ r.dpd = sa[s].dpd
          /\ p.InitiatorMessageID = sa[s].InitiatorMessageID /\ p.IkeUE = sa[s].IkeUE
          /\ p.dpd = sa[s].dpd
      BY Zenon, <2>2 DEF SecurityAssociation
    <2> HIDE DEF r, p
    <2>5. SaKeeps BY ZenonT(30), <2>2, <2>3, <2>4, SaChanged
    <2>6. ToUeAdds BY Zenon, <1>a, <1>d, <2>2, <2>3, LastRequestAnswered
    <2> QED BY Zenon, <1>a, <1>c, <2>1, <2>2, <2>5, <2>6, NgapNotSent
  <1>2. CASE HandleSendEAPNASMsg
    <2>1. IkeEvent("SendEAPNASMsg") /\ Same /\ ngapEvt' = ngapEvt
      BY Zenon, <1>2 DEF HandleSendEAPNASMsg, ranVars, upVars
    <2>2. /\ s \in Spi /\ sa[s].IkeUE /\ sa[s] \in SecurityAssociation
          /\ IkeTakes(1) /\ ~ Created(1) /\ Head(ikeEvt) = ikeEvt[1]
      BY Zenon, <1>b, <2>1 DEF IkeEvtType
    <2> DEFINE r == [sa[s] EXCEPT !.LastEAPIdentifier = NextEAPIdentifier(s)]
    <2>3. /\ SendIKEMessageToUE(s, "nas", LastMessageID(s), NextEAPIdentifier(s))
          /\ sa' = [sa EXCEPT ![s] = r]
      BY Zenon, <1>2, <2>2 DEF HandleSendEAPNASMsg
    <2>4. /\ r.InitiatorMessageID = sa[s].InitiatorMessageID /\ r.IkeUE = sa[s].IkeUE
          /\ r.dpd = sa[s].dpd
      BY Zenon, <2>2 DEF SecurityAssociation
    <2> HIDE DEF r
    <2>5. SaKeeps BY Zenon, <2>2, <2>3, <2>4, SaChanged
    <2>6. ToUeAdds BY Zenon, <1>a, <2>2, <2>3, LastRequestAnswered
    <2> QED BY Zenon, <1>a, <1>c, <2>1, <2>2, <2>5, <2>6, NgapNotSent
  <1>3. CASE HandleCreatePDUSession
    <2>1. IkeEvent("CreatePDUSession") /\ Same /\ toUe' = toUe
      BY Zenon, <1>3 DEF HandleCreatePDUSession, upVars, netVars
    <2>2. /\ s \in Spi /\ sa[s].IkeUE /\ sa[s] \in SecurityAssociation
          /\ IkeTakes(1) /\ ~ Created(1) /\ Head(ikeEvt) = ikeEvt[1]
      BY Zenon, <1>b, <2>1 DEF IkeEvtType
    <2>3. CreatePDUSessionChildSA(s, ikeEvt[1].id, sa[s], ngapEvt)
      BY Zenon, <1>3, <2>2 DEF HandleCreatePDUSession
    <2>4. SaKeeps /\ NgapAdds BY Zenon, <2>2, <2>3, ChildSaKind
    <2> QED BY Zenon, <1>c, <1>d, <2>1, <2>2, <2>4
  <1>4. CASE HandleGetNGAPContextResponse
    <2>1. IkeEvent("GetNGAPContextResponse") /\ Same /\ toUe' = toUe
      BY Zenon, <1>4 DEF HandleGetNGAPContextResponse, upVars, netVars
    <2>2. /\ s \in Spi /\ sa[s].IkeUE /\ sa[s] \in SecurityAssociation
          /\ IkeTakes(1) /\ ~ Created(1) /\ Head(ikeEvt) = ikeEvt[1]
      BY Zenon, <1>b, <2>1 DEF IkeEvtType
    <2> DEFINE r == [sa[s] EXCEPT !.State = @ + 1, !.dpd = "spawned"]
    <2>3. \/ CreatePDUSessionChildSA(s, ikeEvt[1].id, r, ngapEvt)
          \/ continueCreateChildSA(s, ikeEvt[1].id)
          \/ UNCHANGED <<sa, ranUe, ngapEvt>>
      BY Zenon, <1>4, <2>2 DEF HandleGetNGAPContextResponse
    <2>4. /\ r.InitiatorMessageID = sa[s].InitiatorMessageID /\ r.IkeUE = sa[s].IkeUE
          /\ r.dpd # "closed"
      BY Zenon, <2>2 DEF SecurityAssociation
    <2>5. r \in SecurityAssociation BY Zenon, <2>2, SaFlags
    <2> HIDE DEF r
    <2>6. CASE CreatePDUSessionChildSA(s, ikeEvt[1].id, r, ngapEvt)
      <3>1. SaKeeps /\ NgapAdds BY Zenon, <2>2, <2>4, <2>5, <2>6, ChildSaKind
      <3> QED BY Zenon, <1>c, <1>d, <2>1, <2>2, <3>1
    <2>7. CASE UNCHANGED <<sa, ranUe, ngapEvt>>
      <3>1. SaKeeps /\ NgapAdds BY Zenon, <1>a, <2>7, SaUnchanged, NgapNotSent
      <3> QED BY Zenon, <1>c, <1>d, <2>1, <2>2, <3>1
    <2>8. CASE /\ IKESPIToNGAPId[s] # None
               /\ CreatePDUSessionChildSA(s, ikeEvt[1].id, sa[s],
                    Append(ngapEvt, NgapE("SendNASMsg", IKESPIToNGAPId[s])))
      <3>1. SaKeeps /\ NgapAdds BY Zenon, <2>2, <2>8, ChildSaKind
      <3> QED BY Zenon, <1>c, <1>d, <2>1, <2>2, <3>1
    <2> QED BY Zenon, <2>3, <2>6, <2>7, <2>8 DEF continueCreateChildSA
  <1>5. CASE HandleIKEContextUpdate
    <2>1. IkeEvent("IKEContextUpdate") /\ Same /\ toUe' = toUe /\ ngapEvt' = ngapEvt
      BY Zenon, <1>5 DEF HandleIKEContextUpdate, ranVars, upVars, netVars
    <2>2. /\ s \in Spi /\ sa[s].IkeUE /\ sa[s] \in SecurityAssociation
          /\ IkeTakes(1) /\ ~ Created(1) /\ Head(ikeEvt) = ikeEvt[1]
      BY Zenon, <1>b, <2>1 DEF IkeEvtType
    <2> DEFINE r == [sa[s] EXCEPT !.Kn3iwf = TRUE]
    <2>3. sa' = [sa EXCEPT ![s] = r] \/ sa' = sa
      BY Zenon, <1>5, <2>2 DEF HandleIKEContextUpdate
    <2>4. /\ r.InitiatorMessageID = sa[s].InitiatorMessageID /\ r.IkeUE = sa[s].IkeUE
          /\ r.dpd = sa[s].dpd
      BY Zenon, <2>2 DEF SecurityAssociation
    <2> HIDE DEF r
    <2>5. SaKeeps BY ZenonT(30), <2>2, <2>3, <2>4, SaChanged, SaUnchanged
    <2> QED BY Zenon, <1>a, <1>c, <1>d, <2>1, <2>2, <2>5, NgapNotSent
  <1> QED BY Zenon, <1>1, <1>2, <1>3, <1>4, <1>5

\* HandleIKEDeleteEvt preserves the invariant.
LEMMA DeleteEventTableInv ==
    ASSUME TableInv, TypeOK', HandleIKEDeleteEvt PROVE TableInv'
  <1> DEFINE s == ikeEvt[1].spi
  <1>a. TypeOK BY Zenon DEF TableInv
  <1>b. IkeEvent("IKEDeleteRequest") BY Zenon DEF HandleIKEDeleteEvt
  <1>c. /\ 1 \in Ike /\ Head(ikeEvt) = ikeEvt[1] /\ ikeEvt[1].type = "IKEDeleteRequest"
        /\ IkeTakes(1) /\ s \in Spi
    BY Zenon, <1>a, <1>b, IkeTaken
  <1>d. ~ Created(1) /\ sa[s].IkeUE /\ UsesSa(1)
    BY Zenon, <1>c DEF TableInv, IkeUeFirst, Answered, Created, UsesSa
  <1>e. /\ UNCHANGED <<NGAPIdToIKESPI, RANUePool, nextRanId, ue, toN3iwf, amf>>
        /\ ngapEvt' = ngapEvt
    BY Zenon DEF HandleIKEDeleteEvt, ranVars
  <1>f. NgapAdds BY Zenon, <1>a, <1>e, NgapNotSent
  <1>g. 0 < sa[s].InitiatorMessageID
    BY <1>a, <1>c, SaType DEF SecurityAssociation
  <1>1. CASE s \notin IKEUePool /\ UNCHANGED <<saVars, ikeUp, toUe>>
    <2>1. UNCHANGED <<IKESA, sa, IKESPIToNGAPId, ikeUp, toUe>> BY Zenon, <1>1 DEF saVars
    <2>2. SaKeeps /\ ToUeAdds BY Zenon, <2>1, SaUnchanged DEF ToUeAdds
    <2> QED BY Zenon, <1>c, <1>d, <1>e, <1>f, <2>1, <2>2, IkeSideStep
  <1>2. CASE s \in IKEUePool /\ SendIKEMessageToUE(s, "ikeDelete", 0, 0)
    <2>1. \A m \in toUe' : m \in toUe \/ (m.spi = s /\ m.id = 0) BY Zenon, <1>2, SentOnly
    <2>2. CASE sa[s].dpd = "closed" /\ ikeUp' = FALSE /\ UNCHANGED saVars
      <3>1. UNCHANGED <<IKESA, sa, IKESPIToNGAPId>> BY Zenon, <2>2 DEF saVars
      <3>2. s \notin IKESA BY Zenon, <2>2 DEF TableInv, ClosedSaGone
      <3>3. ue[s].phase = "deleting" BY Zenon, <1>c, <1>d, <3>2 DEF TableInv, UsedSaExists
      <3>4. SaKeeps BY Zenon, <3>1, SaUnchanged
      <3>5. ToUeAdds BY Zenon, <1>c, <1>d, <1>g, <2>1 DEF ToUeAdds
      <3>6. ~ ikeUp' /\ \E u \in Spi : ue[u].phase = "deleting" BY Zenon, <1>c, <2>2, <3>3
      <3> QED BY Zenon, <1>c, <1>d, <1>e, <1>f, <3>1, <3>4, <3>5, <3>6, IkeSideStep
    <2>3. CASE \E ok \in RemoveOutcome : /\ RemoveIkeUe(s, ok, sa[s].InitiatorMessageID)
                                         /\ UNCHANGED ikeUp
      <3>1. PICK ok \in RemoveOutcome : RemoveIkeUe(s, ok, sa[s].InitiatorMessageID) BY Zenon, <2>3
      <3>2. /\ IKESA' = IKESA \ {s}
            /\ \A u \in Spi \ {s} : /\ sa'[u] = sa[u]
                                    /\ IKESPIToNGAPId'[u] = IKESPIToNGAPId[u]
            /\ IKESPIToNGAPId'[s] \in {IKESPIToNGAPId[s], None}
            /\ sa'[s].InitiatorMessageID = sa[s].InitiatorMessageID
            /\ sa'[s].IkeUE = sa[s].IkeUE
        BY Zenon, <1>a, <1>c, <3>1, Removed
      <3>3. sa'[s].IkeUE BY Zenon, <1>d, <3>2
      <3>4. \A m \in toUe' : \/ m \in toUe
                             \/ m.spi = s /\ m.id < sa'[s].InitiatorMessageID
        BY Zenon, <1>g, <2>1, <3>2
      <3>5. /\ \A i \in RanId : NGAPIdToIKESPI[i] # s
            /\ \A k \in Ike' : UsesSa(k)' => ikeEvt'[k].spi # s
        <4>1. \A k \in Ike' : k + 1 \in Ike /\ 1 < k + 1 /\ ikeEvt'[k] = ikeEvt[k + 1]
          BY <1>a, <1>c, Basics DEF IkeTakes, Ike
        <4>2. \A k \in Ike' : UsesSa(k)' = UsesSa(k + 1) BY Zenon, <4>1 DEF UsesSa
        <4> QED BY SMTT(30), <1>c, <4>1, <4>2 DEF TableInv, DeleteComesLast
      <3>6. ikeUp' = ikeUp BY Zenon, <2>3
      <3> HIDE DEF s
      <3> QED BY Zenon, <1>c, <1>d, <1>e, <1>f, <3>2, <3>3, <3>4, <3>5, <3>6, RemoveStep
    <2> QED BY Zenon, <1>2, <1>c, <2>2, <2>3 DEF HandleIKEDeleteEvt
  <1> QED BY Zenon, <1>1, <1>2, <1>c DEF HandleIKEDeleteEvt

\* The IKE event handlers preserve the invariant.
LEMMA IkeHandleEventTableInv ==
    ASSUME TableInv, TypeOK', IkeHandleEvent PROVE TableInv'
  <1> DEFINE s == ikeEvt[1].spi
             i == ikeEvt[1].id
  <1>a. TypeOK BY Zenon DEF TableInv
  <1>1. CASE HandleUnmarshalEAP5GDataResponse
    <2>1. IkeEvent("UnmarshalEAP5GDataResponse") BY Zenon, <1>1 DEF HandleUnmarshalEAP5GDataResponse
    <2>2. /\ 1 \in Ike /\ Head(ikeEvt) = ikeEvt[1] /\ Created(1) /\ IkeTakes(1)
          /\ s \in Spi /\ i \in RanId
      BY Zenon, <1>a, <2>1, IkeTaken DEF Created
    <2>3. /\ sa' = [sa EXCEPT ![s].IkeUE = TRUE, ![s].Kn3iwf = FALSE, ![s].IPSecInnerIP = FALSE]
          /\ IKESPIToNGAPId' = [IKESPIToNGAPId EXCEPT ![s] = i]
          /\ NGAPIdToIKESPI' = [NGAPIdToIKESPI EXCEPT ![i] = s]
          /\ ngapEvt' = Append(ngapEvt, NgapE("SendInitialUEMessage", i))
          /\ UNCHANGED <<IKESA, RANUePool, nextRanId, ikeUp, ue, toN3iwf, toUe, amf>>
      BY Zenon, <1>1, <2>2 DEF HandleUnmarshalEAP5GDataResponse, SendNgapEvt, ranVars, upVars, netVars
    <2> DEFINE e == NgapE("SendInitialUEMessage", i)
    <2>4. e \in NgapEvt /\ e.type # "UnmarshalEAP5GData" /\ e.id = i
      BY Zenon, <2>2, EventTypes DEF NgapE, NgapEvtType
    <2>5. ngapEvt' = Append(ngapEvt, e) BY Zenon, <2>3
    <2> HIDE DEF e, s, i
    <2>6. /\ Len(ngapEvt') = Len(ngapEvt) + 1 /\ ngapEvt'[Len(ngapEvt) + 1] = e
          /\ \A k \in Ngap : ngapEvt'[k] = ngapEvt[k]
      BY <1>a, <2>4, <2>5, EvtType, AppendIndex DEF Ngap
    <2>7. sa \in [Spi -> SecurityAssociation] BY Zenon, <1>a, SaType
    <2>8. \A u \in Spi : /\ sa'[u].InitiatorMessageID = sa[u].InitiatorMessageID
                         /\ sa'[u].dpd = sa[u].dpd
                         /\ u # s => sa'[u] = sa[u]
      BY ZenonT(30), <2>2, <2>3, <2>7 DEF SecurityAssociation
    <2>9. sa'[s].IkeUE BY Zenon, <2>2, <2>3, <2>7 DEF SecurityAssociation
    <2>10. \A u \in Spi : IKESPIToNGAPId'[u] = IF u = s THEN i ELSE IKESPIToNGAPId[u]
      BY Zenon, <1>a, <2>2, <2>3, MapType
    <2>11. \A j \in RanId : NGAPIdToIKESPI'[j] = IF j = i THEN s ELSE NGAPIdToIKESPI[j]
      BY Zenon, <1>a, <2>2, <2>3, MapType
    <2>12. s = ikeEvt[1].spi /\ i = ikeEvt[1].id BY Zenon DEF s, i
    <2>13. UNCHANGED <<IKESA, RANUePool, nextRanId, ikeUp, ue, toN3iwf, toUe, amf>> BY Zenon, <2>3
    <2>14. /\ ngapEvt'[Len(ngapEvt) + 1].type # "UnmarshalEAP5GData"
           /\ ngapEvt'[Len(ngapEvt) + 1].id = i
      BY Zenon, <2>4, <2>6
    <2> QED BY SMTT(30), <2>2, <2>6, <2>8, <2>9, <2>10, <2>11, <2>12, <2>13, <2>14, IkeUeMadeStep
  <1>2. CASE HandleSendEAP5GFailureMsg
    <2>1. IkeEvent("SendEAP5GFailureMsg") BY Zenon, <1>2 DEF HandleSendEAP5GFailureMsg
    <2>2. /\ 1 \in Ike /\ Head(ikeEvt) = ikeEvt[1] /\ IkeTakes(1) /\ s \in Spi
          /\ ikeEvt[1].type = "SendEAP5GFailureMsg"
      BY Zenon, <1>a, <2>1, IkeTaken
    <2>3. /\ SendIKEMessageToUE(s, "failure", LastMessageID(s), 0)
          /\ UNCHANGED <<IKESA, sa, IKESPIToNGAPId, NGAPIdToIKESPI, RANUePool, nextRanId,
                         ngapEvt, ikeUp, ue, toN3iwf, amf>>
      BY Zenon, <1>2, <2>2 DEF HandleSendEAP5GFailureMsg, saVars, ranVars, upVars
    <2>4. \A m \in toUe' : m \in toUe \/ (m.spi = s /\ m.id = LastMessageID(s))
      BY Zenon, <2>3, SentOnly
    <2> QED BY Zenon, <2>2, <2>3, <2>4, FailureStep
  <1> QED BY Zenon, <1>1, <1>2, PanicStep, IkeSideEventTableInv, DeleteEventTableInv DEF IkeHandleEvent

-----------------------------------------------------------------------------
(* The NGAP loop.                                                          *)

\* A RAN UE that the AMF, or an event of the IKE loop, names is announced.
LEMMA Announced ==
    ASSUME TableInv, NEW i \in RanId,
           \/ amf[i].phase # "none"
           \/ \E k \in Ngap : ngapEvt[k].type # "UnmarshalEAP5GData" /\ ngapEvt[k].id = i
    PROVE  i < nextRanId /\ \A k \in Ike : Created(k) => ikeEvt[k].id # i
  <1>1. i < nextRanId BY Zenon DEF TableInv, FreshIds, Asked
  <1>2. \A k \in Ike : Created(k) => ikeEvt[k].id # i BY Zenon DEF TableInv, Unannounced, KnownOnlyHere
  <1> QED BY Zenon, <1>1, <1>2

\* The AMF is told something about an announced RAN UE, or nothing.
LEMMA AmfTold ==
    ASSUME TableInv, NEW i \in RanId, \A j \in RanId \ {i} : amf'[j] = amf[j],
           amf'[i].phase # "none" =>
             i < nextRanId /\ \A k \in Ike : Created(k) => ikeEvt[k].id # i
    PROVE  AmfKeeps
  BY Zenon, Announced DEF AmfKeeps

\* A handler of the NGAP loop that removes no RAN UE.
LEMMA NgapKeepsRanUes ==
    ASSUME TableInv, TypeOK', NEW d \in {0, 1}, NgapTakes(d), IkeAdds({}), AmfKeeps,
           UNCHANGED <<IKESA, sa, IKESPIToNGAPId, NGAPIdToIKESPI, RANUePool, nextRanId,
                       ikeUp, ue, toN3iwf, toUe>>
    PROVE  TableInv'
  <1>1. {} \in SUBSET RanId /\ RANUePool' = RANUePool \ {} BY Zenon
  <1>2. \A i \in RanId : NGAPIdToIKESPI'[i] = IF i \in {} THEN None ELSE NGAPIdToIKESPI[i]
    BY Zenon
  <1> QED BY Zenon, <1>1, <1>2, NgapSideStep

\* A handler of the NGAP loop that removes the RAN UE i.
LEMMA NgapRemoves ==
    ASSUME TableInv, TypeOK', NEW d \in {0, 1}, NgapTakes(d), NEW i \in RanId,
           \A k \in Ike : Created(k) => ikeEvt[k].id # i,
           NEW r, RemoveRanUe(i, r), IkeAdds({i}), AmfKeeps,
           UNCHANGED <<IKESA, sa, IKESPIToNGAPId, nextRanId, ikeUp, ue, toN3iwf, toUe>>
    PROVE  TableInv'
  <1>1. NGAPIdToIKESPI \in [RanId -> Spi \cup {None}] BY Zenon, MapType DEF TableInv
  <1>2. /\ RANUePool' = RANUePool \ {i}
        /\ \A j \in RanId : NGAPIdToIKESPI'[j] = IF j \in {i} THEN None ELSE NGAPIdToIKESPI[j]
    BY Zenon, <1>1 DEF RemoveRanUe
  <1>3. {i} \in SUBSET RanId /\ \A k \in Ike : Created(k) => ikeEvt[k].id \notin {i} BY Zenon
  <1> QED BY Zenon, <1>2, <1>3, NgapSideStep

\* HandleUnmarshalEAP5GData preserves the invariant.
LEMMA UnmarshalTableInv ==
    ASSUME TableInv, TypeOK', HandleUnmarshalEAP5GData PROVE TableInv'
  <1> DEFINE e == ngapEvt[1]
  <1>a. TypeOK BY Zenon DEF TableInv
  <1>b. NgapEvent("UnmarshalEAP5GData") BY Zenon DEF HandleUnmarshalEAP5GData
  <1>c. /\ 1 \in Ngap /\ Head(ngapEvt) = e /\ e.type = "UnmarshalEAP5GData"
        /\ NgapTakes(1) /\ ngapEvt # <<>> /\ e.spi \in Spi
    BY Zenon, <1>a, <1>b, NgapTaken, Basics
  <1>d. UNCHANGED <<IKESA, sa, IKESPIToNGAPId, NGAPIdToIKESPI, ikeUp, ue, toN3iwf, toUe, amf>>
    BY Zenon DEF HandleUnmarshalEAP5GData, saVars, upVars, netVars
  <1>1. CASE UNCHANGED <<ranVars, ikeEvt>>
    <2>1. UNCHANGED <<RANUePool, nextRanId>> BY Zenon, <1>1 DEF ranVars
    <2>2. AmfKeeps BY Zenon, <1>d, Announced DEF AmfKeeps
    <2>3. IkeAdds({}) BY Zenon, <1>1, <1>a, IkeNotSent
    <2> QED BY Zenon, <1>c, <1>d, <2>1, <2>2, <2>3, NgapKeepsRanUes
  <1>2. CASE /\ ~ e.initial /\ SendIkeEvt(IkeE("SendEAP5GFailureMsg", e.spi, 0))
             /\ UNCHANGED ranVars
    <2> DEFINE f == IkeE("SendEAP5GFailureMsg", e.spi, 0)
    <2>1. 0 \in RanId BY ConstantsAssumption DEF RanId
    <2>2. f \in IkeEvt /\ f.type = "SendEAP5GFailureMsg" /\ f.spi = e.spi
      BY Zenon, <1>c, <2>1, EventTypes DEF IkeE, IkeEvtType
    <2>3. /\ ikeEvt' = IF ikeUp THEN Append(ikeEvt, f) ELSE ikeEvt
          /\ UNCHANGED <<RANUePool, nextRanId>>
      BY Zenon, <1>2 DEF SendIkeEvt, ranVars
    <2>4. Asked(1) BY Zenon, <1>2, <1>c DEF Asked
    <2> HIDE DEF f
    <2> QED BY Zenon, <1>c, <1>d, <2>2, <2>3, <2>4, FirstNasStep
  <1>3. CASE /\ ~ e.initial /\ nextRanId <= MaxRanId
             /\ RANUePool' = RANUePool \cup {nextRanId} /\ nextRanId' = nextRanId + 1
             /\ SendIkeEvt(IkeE("UnmarshalEAP5GDataResponse", e.spi, nextRanId))
    <2> DEFINE f == IkeE("UnmarshalEAP5GDataResponse", e.spi, nextRanId)
    <2>1. nextRanId \in RanId BY SMTT(30), <1>3, <1>a, Basics, ConstantsAssumption DEF RanId
    <2>2. /\ f \in IkeEvt /\ f.type = "UnmarshalEAP5GDataResponse" /\ f.spi = e.spi
          /\ f.id = nextRanId
      BY Zenon, <1>c, <2>1, EventTypes DEF IkeE, IkeEvtType
    <2>3. ikeEvt' = IF ikeUp THEN Append(ikeEvt, f) ELSE ikeEvt
      BY Zenon, <1>3 DEF SendIkeEvt
    <2>4. Asked(1) BY Zenon, <1>3, <1>c DEF Asked
    <2> HIDE DEF f
    <2> QED BY Zenon, <1>3, <1>c, <1>d, <2>2, <2>3, <2>4, FirstNasStep
  <1> QED BY Zenon, <1>1, <1>2, <1>3, <1>c DEF HandleUnmarshalEAP5GData

\* The NGAP event handlers preserve the invariant.
LEMMA NgapHandleEventTableInv ==
    ASSUME TableInv, TypeOK', NgapHandleEvent PROVE TableInv'
  <1> DEFINE i == ngapEvt[1].id
             Same == UNCHANGED <<IKESA, sa, IKESPIToNGAPId, nextRanId, ikeUp, ue, toN3iwf, toUe>>
  <1>a. TypeOK /\ amf \in [RanId -> [phase: AmfPhase, down: 0..MaxDown, relReq: BOOLEAN]]
    BY Zenon, AmfType DEF TableInv
  <1>b. ASSUME NEW t \in NgapEvtType, NgapEvent(t)
        PROVE  /\ NgapTakes(1) /\ Head(ngapEvt) = ngapEvt[1] /\ i \in RanId
               /\ i < nextRanId /\ \A k \in Ike : Created(k) => ikeEvt[k].id # i
    <2>1. /\ 1 \in Ngap /\ Head(ngapEvt) = ngapEvt[1] /\ ngapEvt[1].type = t
          /\ NgapTakes(1) /\ i \in RanId
      BY Zenon, <1>a, <1>b, NgapTaken
    <2>2. ngapEvt[1].type # "UnmarshalEAP5GData" BY Zenon, <2>1 DEF NgapEvtType
    <2> QED BY Zenon, <2>1, <2>2, Announced
  <1>c. ASSUME NEW t \in NgapEvtType, NgapEvent(t), UNCHANGED <<RANUePool, NGAPIdToIKESPI>>,
               Same, IkeAdds({}), \A j \in RanId \ {i} : amf'[j] = amf[j]
        PROVE  TableInv'
    <2>1. AmfKeeps BY Zenon, <1>b, <1>c, AmfTold
    <2> QED BY Zenon, <1>b, <1>c, <2>1, NgapKeepsRanUes
  <1>1. CASE HandleSendInitialUEMessage
    <2>1. /\ NgapEvent("SendInitialUEMessage") /\ Same /\ ikeEvt' = ikeEvt
          /\ UNCHANGED <<RANUePool, NGAPIdToIKESPI>>
      BY Zenon, <1>1 DEF HandleSendInitialUEMessage, saVars, ranVars, upVars, netVars
    <2>2. \A j \in RanId \ {i} : amf'[j] = amf[j]
      BY Zenon, <1>1, <1>a, <1>b, <2>1 DEF HandleSendInitialUEMessage, NgapEvtType
    <2> QED BY Zenon, <1>a, <1>c, <2>1, <2>2, IkeNotSent DEF NgapEvtType
  <1>2. CASE HandleSendPDUSessionResourceSetupResponse
    <2>1. /\ NgapEvent("SendPDUSessionResourceSetupResponse") /\ Same /\ ikeEvt' = ikeEvt
          /\ UNCHANGED <<RANUePool, NGAPIdToIKESPI>>
      BY Zenon, <1>2 DEF HandleSendPDUSessionResourceSetupResponse, saVars, ranVars, upVars, netVars
    <2>2. \A j \in RanId \ {i} : amf'[j] = amf[j]
      BY Zenon, <1>2, <1>a, <1>b, <2>1 DEF HandleSendPDUSessionResourceSetupResponse, NgapEvtType
    <2> QED BY Zenon, <1>a, <1>c, <2>1, <2>2, IkeNotSent DEF NgapEvtType
  <1>3. CASE HandleSendNASMsg
    <2>1. /\ NgapEvent("SendNASMsg") /\ Same /\ ikeEvt' = ikeEvt /\ amf' = amf
          /\ UNCHANGED <<RANUePool, NGAPIdToIKESPI>>
      BY Zenon, <1>3 DEF HandleSendNASMsg, saVars, netVars
    <2> QED BY Zenon, <1>a, <1>c, <2>1, IkeNotSent DEF NgapEvtType
  <1>4. CASE HandleStartTCPSignalNASMsg
    <2>1. /\ NgapEvent("StartTCPSignalNASMsg") /\ Same /\ ikeEvt' = ikeEvt /\ amf' = amf
          /\ UNCHANGED <<RANUePool, NGAPIdToIKESPI>>
      BY Zenon, <1>4 DEF HandleStartTCPSignalNASMsg, saVars, upVars, netVars
    <2> QED BY Zenon, <1>a, <1>c, <2>1, IkeNotSent DEF NgapEvtType
  <1>5. CASE HandleNASTCPConnEstablishedComplete
    <2>1. /\ NgapEvent("NASTCPConnEstablishedComplete") /\ Same /\ ikeEvt' = ikeEvt
          /\ amf' = amf /\ UNCHANGED <<RANUePool, NGAPIdToIKESPI>>
      BY Zenon, <1>5 DEF HandleNASTCPConnEstablishedComplete, saVars, netVars
    <2> QED BY Zenon, <1>a, <1>c, <2>1, IkeNotSent DEF NgapEvtType
  <1>6. CASE HandleSendUEContextReleaseRequest
    <2>1. /\ NgapEvent("SendUEContextReleaseRequest") /\ Same /\ ikeEvt' = ikeEvt
          /\ UNCHANGED <<RANUePool, NGAPIdToIKESPI>>
      BY Zenon, <1>6 DEF HandleSendUEContextReleaseRequest, saVars, ranVars, upVars, netVars
    <2>2. \A j \in RanId \ {i} : amf'[j] = amf[j]
      BY Zenon, <1>6, <1>a, <1>b, <2>1 DEF HandleSendUEContextReleaseRequest, NgapEvtType
    <2> QED BY Zenon, <1>a, <1>c, <2>1, <2>2, IkeNotSent DEF NgapEvtType
  <1>7. CASE HandleSendSendUEContextRelease
    <2>1. NgapEvent("SendUEContextRelease") /\ Same /\ ikeEvt' = ikeEvt
      BY Zenon, <1>7 DEF HandleSendSendUEContextRelease, saVars, upVars, netVars
    <2>2. /\ NgapTakes(1) /\ Head(ngapEvt) = ngapEvt[1] /\ i \in RanId
          /\ i < nextRanId /\ \A k \in Ike : Created(k) => ikeEvt[k].id # i
      BY Zenon, <1>b, <2>1 DEF NgapEvtType
    <2>3. CASE RemoveRanUe(i, [ranUe[i] EXCEPT !.UeCtxRelState = FALSE])
               /\ amf' = [amf EXCEPT ![i].phase = "rel"]
      <3>1. AmfKeeps BY Zenon, <1>a, <2>2, <2>3, AmfTold
      <3>2. IkeAdds({i}) BY Zenon, <1>a, <2>1, IkeNotSent
      <3> QED BY Zenon, <2>1, <2>2, <2>3, <3>1, <3>2, NgapRemoves
    <2>4. CASE UNCHANGED <<RANUePool, NGAPIdToIKESPI>> /\ (\A j \in RanId \ {i} : amf'[j] = amf[j])
      BY Zenon, <1>a, <1>c, <2>1, <2>4, IkeNotSent DEF NgapEvtType
    <2> QED BY Zenon, <1>7, <1>a, <2>2, <2>3, <2>4 DEF HandleSendSendUEContextRelease
  <1>8. CASE HandleGetNGAPContext
    <2>1. /\ NgapEvent("GetNGAPContext") /\ Same /\ amf' = amf
          /\ UNCHANGED <<RANUePool, NGAPIdToIKESPI>>
      BY Zenon, <1>8 DEF HandleGetNGAPContext, saVars, ranVars, upVars, netVars
    <2>2. Head(ngapEvt) = ngapEvt[1] /\ i \in RanId BY Zenon, <1>b, <2>1 DEF NgapEvtType
    <2>3. IkeAdds({})
      <3>1. CASE ikeEvt' = ikeEvt BY Zenon, <1>a, <3>1, IkeNotSent
      <3>2. CASE /\ NGAPIdToIKESPI[i] # None
                 /\ SendIkeEvt(IkeE("GetNGAPContextResponse", NGAPIdToIKESPI[i], i))
        BY <1>a, <2>2, <3>2, IkeSentOne DEF IkeEvtType
      <3> QED BY Zenon, <1>8, <2>2, <3>1, <3>2 DEF HandleGetNGAPContext
    <2> QED BY Zenon, <1>c, <2>1, <2>3 DEF NgapEvtType
  <1> QED BY Zenon, <1>1, <1>2, <1>3, <1>4, <1>5, <1>6, <1>7, <1>8, UnmarshalTableInv DEF NgapHandleEvent

\* The handlers of NGAP messages preserve the invariant.
LEMMA NgapMessageTableInv ==
    ASSUME TableInv, TypeOK', NgapMessage PROVE TableInv'
  <1> DEFINE Same == UNCHANGED <<IKESA, sa, IKESPIToNGAPId, nextRanId, ngapEvt, ikeUp, ue,
                                 toN3iwf, toUe>>
  <1>a. TypeOK /\ amf \in [RanId -> [phase: AmfPhase, down: 0..MaxDown, relReq: BOOLEAN]]
    BY Zenon, AmfType DEF TableInv
  <1> SUFFICES ASSUME NEW i \in RanId,
                 \/ HandleDownlinkNASTransport(i) \/ HandleInitialContextSetupRequest(i)
                 \/ HandleUEContextModificationRequest(i)
                 \/ HandlePDUSessionResourceSetupRequest(i)
                 \/ HandleUEContextReleaseCommand(i) \/ HandleNGReset(i)
               PROVE  TableInv'
    BY Zenon DEF NgapMessage
  <1>b. amf[i].phase # "none"
    BY Zenon DEF HandleDownlinkNASTransport, HandleInitialContextSetupRequest,
           HandleUEContextModificationRequest, HandlePDUSessionResourceSetupRequest,
           HandleUEContextReleaseCommand, HandleNGReset, AmfSends
  <1>c. i < nextRanId /\ \A k \in Ike : Created(k) => ikeEvt[k].id # i BY Zenon, <1>b, Announced
  <1>d. ASSUME Same, UNCHANGED <<RANUePool, NGAPIdToIKESPI>>, IkeAdds({}),
               \A j \in RanId \ {i} : amf'[j] = amf[j]
        PROVE  TableInv'
    <2>1. AmfKeeps BY Zenon, <1>c, <1>d, AmfTold
    <2>2. NgapTakes(0) BY Zenon, <1>a, <1>d, NgapNotTaken
    <2> QED BY Zenon, <1>d, <2>1, <2>2, NgapKeepsRanUes
  <1>e. ASSUME NEW t \in {"SendEAPNASMsg", "SendEAPSuccessMsg", "IKEContextUpdate",
                          "CreatePDUSession"},
               \/ ikeEvt' = ikeEvt
               \/ NGAPIdToIKESPI[i] # None /\ SendIkeEvt(IkeE(t, NGAPIdToIKESPI[i], i))
        PROVE  IkeAdds({})
    <2>1. CASE ikeEvt' = ikeEvt BY Zenon, <1>a, <2>1, IkeNotSent
    <2>2. CASE NGAPIdToIKESPI[i] # None /\ SendIkeEvt(IkeE(t, NGAPIdToIKESPI[i], i))
      <3>1. /\ t \in IkeEvtType \ {"UnmarshalEAP5GDataResponse", "SendEAP5GFailureMsg"}
            /\ t # "IKEDeleteRequest"
        BY Zenon, <1>e DEF IkeEvtType
      <3> QED BY Zenon, <1>a, <2>2, <3>1, IkeSentOne
    <2> QED BY Zenon, <1>e, <2>1, <2>2
  <1>f. ASSUME Same, NEW r, RemoveRanUe(i, r), IkeAdds({i}),
               \A j \in RanId \ {i} : amf'[j] = amf[j]
        PROVE  TableInv'
    <2>1. AmfKeeps BY Zenon, <1>c, <1>f, AmfTold
    <2>2. NgapTakes(0) BY Zenon, <1>a, <1>f, NgapNotTaken
    <2> QED BY Zenon, <1>c, <1>f, <2>1, <2>2, NgapRemoves
  <1>1. CASE HandleDownlinkNASTransport(i)
    <2>1. /\ Same /\ UNCHANGED <<RANUePool, NGAPIdToIKESPI>>
          /\ \A j \in RanId \ {i} : amf'[j] = amf[j]
      BY Zenon, <1>1, <1>a DEF HandleDownlinkNASTransport, saVars, netVars
    <2>2. \/ ikeEvt' = ikeEvt
          \/ /\ NGAPIdToIKESPI[i] # None
             /\ SendIkeEvt(IkeE("SendEAPNASMsg", NGAPIdToIKESPI[i], i))
      BY Zenon, <1>1 DEF HandleDownlinkNASTransport
    <2> QED BY Zenon, <1>d, <1>e, <2>1, <2>2
  <1>2. CASE HandleInitialContextSetupRequest(i)
    <2>1. /\ Same /\ UNCHANGED <<RANUePool, NGAPIdToIKESPI>>
          /\ \A j \in RanId \ {i} : amf'[j] = amf[j]
      BY Zenon, <1>2, <1>a DEF HandleInitialContextSetupRequest, saVars, upVars, netVars
    <2>2. \/ ikeEvt' = ikeEvt
          \/ /\ NGAPIdToIKESPI[i] # None
             /\ SendIkeEvt(IkeE("SendEAPSuccessMsg", NGAPIdToIKESPI[i], i))
      BY Zenon, <1>2 DEF HandleInitialContextSetupRequest
    <2> QED BY Zenon, <1>d, <1>e, <2>1, <2>2
  <1>3. CASE HandleUEContextModificationRequest(i)
    <2>1. /\ Same /\ UNCHANGED <<RANUePool, NGAPIdToIKESPI>>
          /\ \A j \in RanId \ {i} : amf'[j] = amf[j]
      BY Zenon, <1>3 DEF HandleUEContextModificationRequest, saVars, ranVars, upVars, netVars
    <2>2. /\ NGAPIdToIKESPI[i] # None
          /\ SendIkeEvt(IkeE("IKEContextUpdate", NGAPIdToIKESPI[i], i))
      BY Zenon, <1>3 DEF HandleUEContextModificationRequest
    <2> QED BY Zenon, <1>d, <1>e, <2>1, <2>2
  <1>4. CASE HandlePDUSessionResourceSetupRequest(i)
    <2>1. /\ Same /\ UNCHANGED <<RANUePool, NGAPIdToIKESPI>>
          /\ \A j \in RanId \ {i} : amf'[j] = amf[j]
      BY Zenon, <1>4, <1>a DEF HandlePDUSessionResourceSetupRequest, saVars, upVars, netVars
    <2>2. \/ ikeEvt' = ikeEvt
          \/ /\ NGAPIdToIKESPI[i] # None
             /\ SendIkeEvt(IkeE("CreatePDUSession", NGAPIdToIKESPI[i], i))
      BY Zenon, <1>4 DEF HandlePDUSessionResourceSetupRequest
    <2> QED BY Zenon, <1>d, <1>e, <2>1, <2>2
  <1>5. CASE HandleUEContextReleaseCommand(i)
    <2>1. Same /\ \A j \in RanId \ {i} : amf'[j] = amf[j]
      BY Zenon, <1>5, <1>a DEF HandleUEContextReleaseCommand, saVars, upVars, netVars
    <2>2. CASE UNCHANGED <<ikeEvt, RANUePool, NGAPIdToIKESPI, ranUe>>
      BY Zenon, <1>a, <1>d, <2>1, <2>2, IkeNotSent
    <2>3. CASE /\ \/ ikeEvt' = ikeEvt
                  \/ /\ NGAPIdToIKESPI[i] # None
                     /\ SendIkeEvt(IkeE("IKEDeleteRequest", NGAPIdToIKESPI[i], i))
               /\ RemoveRanUe(i, [ranUe[i] EXCEPT !.UeCtxRelState = TRUE])
      <3>1. IkeAdds({i})
        <4>1. CASE ikeEvt' = ikeEvt BY Zenon, <1>a, <4>1, IkeNotSent
        <4>2. CASE /\ NGAPIdToIKESPI[i] # None
                   /\ SendIkeEvt(IkeE("IKEDeleteRequest", NGAPIdToIKESPI[i], i))
          BY Zenon, <1>a, <4>2, IkeSentOne DEF IkeEvtType
        <4> QED BY Zenon, <2>3, <4>1, <4>2
      <3> QED BY Zenon, <1>f, <2>1, <2>3, <3>1
    <2> QED BY Zenon, <1>5, <2>2, <2>3 DEF HandleUEContextReleaseCommand
  <1>6. CASE HandleNGReset(i)
    <2>1. /\ Same /\ ikeEvt' = ikeEvt /\ RemoveRanUe(i, ranUe[i])
          /\ \A j \in RanId \ {i} : amf'[j] = amf[j]
      BY Zenon, <1>6, <1>a DEF HandleNGReset, saVars, evtVars, upVars, netVars
    <2> QED BY Zenon, <1>a, <1>f, <2>1, IkeNotSent
  <1> QED BY Zenon, <1>1, <1>2, <1>3, <1>4, <1>5, <1>6

-----------------------------------------------------------------------------
(* The other goroutines, the environment, and the theorems.                *)

\* Dead peer detection and the NAS connections preserve the invariant.
LEMMA GoroutineTableInv ==
    ASSUME TableInv, TypeOK', Goroutine PROVE TableInv'
  <1> DEFINE Same == UNCHANGED <<IKESA, IKESPIToNGAPId, NGAPIdToIKESPI, RANUePool, nextRanId,
                                 ikeEvt, ikeUp, ue, toN3iwf, toUe, amf>>
  <1>a. TypeOK /\ sa \in [Spi -> SecurityAssociation] BY Zenon, SaType DEF TableInv
  <1>b. ASSUME Same, SaKeeps, NgapAdds PROVE TableInv'
    <2>1. IkeTakes(0) /\ ToUeAdds BY Zenon, <1>a, <1>b, IkeNotTaken DEF ToUeAdds
    <2> QED BY <1>b, <2>1, IkeSideStep
  <1>c. ASSUME NEW s \in Spi, sa[s].dpd # "off", NEW x \in DpdState \ {"closed"},
               sa' = [sa EXCEPT ![s].dpd = x]
        PROVE  SaKeeps
    <2>1. NewSa.dpd = "off" BY Zenon DEF NewSa
    <2>2. ue[s].phase # "idle" BY Zenon, <1>c, <2>1 DEF TableInv, RequestIds
    <2>3. \A u \in Spi : /\ sa'[u].InitiatorMessageID = sa[u].InitiatorMessageID
                         /\ sa'[u].IkeUE = sa[u].IkeUE
      BY Zenon, <1>a, <1>c DEF SecurityAssociation
    <2>4. \A u \in Spi : sa'[u].dpd = "closed" => sa[u].dpd = "closed"
      BY Zenon, <1>a, <1>c DEF SecurityAssociation
    <2> QED BY Zenon, <1>a, <1>c, <2>2, <2>3, <2>4 DEF SaKeeps
  <1>1. ASSUME NEW s \in Spi, StartDPD(s) PROVE TableInv'
    <2>1. Same /\ ngapEvt' = ngapEvt
      BY Zenon, <1>1 DEF StartDPD, ranVars, evtVars, upVars, netVars
    <2>2. \E x \in DpdState \ {"closed"} : sa' = [sa EXCEPT ![s].dpd = x]
      BY Zenon, <1>1 DEF StartDPD, DpdState
    <2>3. sa[s].dpd # "off" BY Zenon, <1>1 DEF StartDPD
    <2>4. SaKeeps BY Zenon, <1>c, <2>2, <2>3
    <2> QED BY Zenon, <1>a, <1>b, <2>1, <2>4, NgapNotSent
  <1>2. ASSUME NEW s \in Spi, DPDTimeout(s) PROVE TableInv'
    <2>1. /\ Same /\ IKESPIToNGAPId[s] # None
          /\ ngapEvt' = Append(ngapEvt, NgapE("SendUEContextReleaseRequest", IKESPIToNGAPId[s]))
      BY Zenon, <1>2 DEF DPDTimeout, SendNgapEvt, ranVars, upVars, netVars
    <2>2. sa' = [sa EXCEPT ![s].dpd = "down"] /\ sa[s].dpd # "off" BY Zenon, <1>2 DEF DPDTimeout
    <2>3. SaKeeps BY Zenon, <1>c, <2>2 DEF DpdState
    <2>4. NgapAdds BY Zenon, <1>a, <2>1, NgapSentOne DEF NgapEvtType
    <2> QED BY Zenon, <1>b, <2>1, <2>3, <2>4
  <1>3. ASSUME NEW s \in Spi, listenAndServe(s) PROVE TableInv'
    <2>1. /\ Same /\ sa' = sa /\ IKESPIToNGAPId[s] # None
          /\ ngapEvt' = Append(ngapEvt, NgapE("NASTCPConnEstablishedComplete", IKESPIToNGAPId[s]))
      BY Zenon, <1>3 DEF listenAndServe, SendNgapEvt, saVars, upVars, netVars
    <2>2. NgapAdds BY Zenon, <1>a, <2>1, NgapSentOne DEF NgapEvtType
    <2> QED BY Zenon, <1>b, <2>1, <2>2, SaUnchanged
  <1>4. ASSUME NEW i \in RanId, serveConn(i) PROVE TableInv'
    <2>1. Same /\ sa' = sa /\ ngapEvt' = ngapEvt
      BY Zenon, <1>4 DEF serveConn, saVars, evtVars, upVars, netVars
    <2> QED BY Zenon, <1>a, <1>b, <2>1, SaUnchanged, NgapNotSent
  <1> QED BY Zenon, <1>1, <1>2, <1>3, <1>4 DEF Goroutine

\* The UEs preserve the invariant.
LEMMA EnvironmentTableInv ==
    ASSUME TableInv, TypeOK', Environment PROVE TableInv'
  <1> DEFINE Same == UNCHANGED <<IKESA, sa, IKESPIToNGAPId, NGAPIdToIKESPI, RANUePool,
                                 nextRanId, ikeEvt, ngapEvt, ikeUp, toUe, amf>>
  <1>a. TypeOK /\ ue \in [Spi -> [phase: UePhase, id: Nat]] BY Zenon, UeType DEF TableInv
  <1>1. ASSUME NEW s \in Spi, UeReceive(s) PROVE TableInv'
    <2>1. Same /\ ue[s].phase = "wait"
      BY Zenon, <1>1 DEF UeReceive, saVars, ranVars, evtVars, upVars
    <2>2. PICK m \in toUe : m.spi = s /\ m.id = ue[s].id BY Zenon, <1>1 DEF UeReceive
    <2>3. sa[s].InitiatorMessageID = ue[s].id + 1
      BY SMTT(30), <1>a, <2>2, Basics DEF TableInv, RequestIds
    <2>4. ~ Waiting(s) BY Zenon, <2>2 DEF Waiting
    <2>5. \/ \E k \in {"identity", "nas", "stop", "auth"} : \E eap : UeSend(s, k, eap)
          \/ \E ph \in {"up", "gone"} : UeBecomes(s, ph)
      BY Zenon, <1>1 DEF UeReceive
    <2>6. CASE \E k \in {"identity", "nas", "stop", "auth"} : \E eap : UeSend(s, k, eap)
      <3>1. PICK k \in {"identity", "nas", "stop", "auth"} : \E eap : UeSend(s, k, eap) BY Zenon, <2>6
      <3>2. PICK eap : UeSend(s, k, eap) BY Zenon, <3>1
      <3>3. /\ ue' = [ue EXCEPT ![s].id = @ + 1]
            /\ \A x \in toN3iwf' : \/ x \in toN3iwf
                                   \/ x.spi = s /\ x.id = ue[s].id + 1 /\ x.kind = k
        BY <3>2 DEF UeSend
      <3>4. /\ \A u \in Spi \ {s} : ue'[u] = ue[u]
            /\ ue'[s].phase = "wait" /\ ue'[s].id = ue[s].id + 1
        BY Zenon, <1>a, <2>1, <3>3
      <3> QED BY Zenon, <2>1, <2>3, <2>4, <3>3, <3>4, UeStep
    <2>7. CASE \E ph \in {"up", "gone"} : UeBecomes(s, ph)
      <3>1. PICK ph \in {"up", "gone"} :
              ue' = [ue EXCEPT ![s].phase = ph] /\ toN3iwf' = toN3iwf
        BY Zenon, <2>7 DEF UeBecomes
      <3>2. /\ \A u \in Spi \ {s} : ue'[u] = ue[u]
            /\ ue'[s].phase = ph /\ ue'[s].id = ue[s].id
        BY Zenon, <1>a, <3>1
      <3> QED BY Zenon, <2>1, <2>3, <2>4, <3>1, <3>2, UeStep
    <2> QED BY Zenon, <2>5, <2>6, <2>7
  <1>2. ASSUME NEW s \in Spi, UeDelete(s) PROVE TableInv'
    <2>1. /\ Same /\ ue[s].phase = "up"
          /\ ue' = [ue EXCEPT ![s] = [phase |-> "deleting", id |-> ue[s].id + 1]]
          /\ \A x \in toN3iwf' : x \in toN3iwf \/ (x.spi = s /\ x.id = ue[s].id + 1)
      BY SMTT(30), <1>2, <1>a DEF UeDelete, saVars, ranVars, evtVars, upVars
    <2>2. sa[s].InitiatorMessageID = ue[s].id + 1 /\ ~ Waiting(s)
      BY Zenon, <2>1 DEF TableInv, RequestIds, Waiting
    <2>3. /\ \A u \in Spi \ {s} : ue'[u] = ue[u]
          /\ ue'[s].phase = "deleting" /\ ue'[s].id = ue[s].id + 1
      BY Zenon, <1>a, <2>1
    <2> QED BY Zenon, <2>1, <2>2, <2>3, UeStep
  <1>3. ASSUME NEW s \in Spi, UeReleased(s) PROVE TableInv'
    <2>1. /\ Same /\ ue[s].phase \in {"wait", "up"}
          /\ ue' = [ue EXCEPT ![s].phase = "gone"] /\ toN3iwf' = toN3iwf
      BY Zenon, <1>3 DEF UeReleased, UeBecomes, saVars, ranVars, evtVars, upVars
    <2>2. /\ \A u \in Spi \ {s} : ue'[u] = ue[u]
          /\ ue'[s].phase = "gone" /\ ue'[s].id = ue[s].id
      BY Zenon, <1>a, <2>1
    <2> QED BY Zenon, <2>1, <2>2, UeStep
  <1> QED BY Zenon, <1>1, <1>2, <1>3 DEF Environment

\* The invariant holds when the process starts.
LEMMA InitTableInv == Init => TableInv
  <1> SUFFICES ASSUME Init PROVE TableInv BY Zenon
  <1>a. TypeOK BY Zenon, InitTypeOK
  <1>b. /\ ikeEvt = <<>> /\ ngapEvt = <<>> /\ IKESA = {} /\ RANUePool = {} /\ toUe = {}
        /\ toN3iwf = {} /\ ikeUp /\ nextRanId = 0
        /\ \A s \in Spi : sa[s] = NewSa /\ IKESPIToNGAPId[s] = None
        /\ \A s \in Spi : ue[s].phase = "idle" /\ ue[s].id = 0
        /\ \A i \in RanId : NGAPIdToIKESPI[i] = None /\ amf[i].phase = "none"
    BY Zenon DEF Init
  <1>c. Ike = {} /\ Ngap = {}
    <2>1. ikeEvt = <<>> /\ ngapEvt = <<>> BY Zenon, <1>b
    <2> QED BY ONLY <2>1 DEF Ike, Ngap
  <1>d. NewSa.InitiatorMessageID = 1 /\ ~ NewSa.IkeUE BY Zenon DEF NewSa
  <1>1. RequestIds BY <1>b, <1>d DEF RequestIds
  <1>2. FirstNas /\ Unannounced /\ DeleteComesLast /\ UsedSaExists
    BY Zenon, <1>c DEF FirstNas, Unannounced, DeleteComesLast, UsedSaExists
  <1>3. IkeUeFirst /\ MappedSaExists /\ ClosedSaGone /\ OneMapping
    BY Zenon, <1>b, <1>c DEF IkeUeFirst, MappedSaExists, ClosedSaGone, OneMapping
  <1>4. FreshIds BY Zenon, <1>b, <1>c DEF FreshIds
  <1>5. MapsAgree BY Zenon, <1>b DEF MapsAgree
  <1>6. UplinkToOwnRanUe BY Zenon, <1>c DEF UplinkToOwnRanUe, Ngap
  <1>7. IkeServerSurvives BY Zenon, <1>b DEF IkeServerSurvives
  <1> QED BY Zenon, <1>a, <1>1, <1>2, <1>3, <1>4, <1>5, <1>6, <1>7 DEF TableInv

\* The invariant is inductive.
LEMMA NextTableInv == TableInv /\ [Next]_vars => TableInv'
  <1> SUFFICES ASSUME TableInv, [Next]_vars PROVE TableInv' BY Zenon
  <1>1. TypeOK /\ TypeOK' BY Zenon, NextTypeOK DEF TableInv
  <1>2. CASE UNCHANGED vars
    <2>1. /\ UNCHANGED <<IKESA, sa, IKESPIToNGAPId, NGAPIdToIKESPI, RANUePool, nextRanId,
                         ikeEvt, ikeUp, ue, toN3iwf, toUe, amf>>
          /\ ngapEvt' = ngapEvt
      BY Zenon, <1>2 DEF vars, saVars, ranVars, evtVars, upVars, netVars
    <2>2. IkeTakes(0) /\ SaKeeps /\ NgapAdds /\ ToUeAdds
      BY Zenon, <1>1, <2>1, IkeNotTaken, SaUnchanged, NgapNotSent DEF ToUeAdds
    <2>3. 0 \in {0, 1} /\ 0 # 1 OBVIOUS
    <2>4. UNCHANGED <<IKESA, IKESPIToNGAPId, NGAPIdToIKESPI, RANUePool, nextRanId, ue, toN3iwf,
                      amf>>
          /\ ikeUp' = ikeUp
      BY ONLY <2>1, Zenon
    <2> QED BY Zenon, <1>1, <2>2, <2>3, <2>4, IkeSideStep
  <1> QED BY Zenon, <1>1, <1>2, IkePacketTableInv, IkeHandleEventTableInv, NgapHandleEventTableInv,
       NgapMessageTableInv, GoroutineTableInv, EnvironmentTableInv DEF Next

\* The message IDs, the maps and the events pending for both loops fit together in
\* every state, for any number of UEs and any length of the channels.
THEOREM TablesFit == Spec => []TableInv
  BY InitTableInv, NextTableInv, PTL DEF Spec

\* The handlers of IKE events, which do not look whether IKESALoad found anything,
\* end the IKE server goroutine only when a UE has deleted its IKE SA by itself.
THEOREM IkeServerSafe == Spec => []IkeServerSurvives
  <1>1. TableInv => IkeServerSurvives BY Zenon DEF TableInv
  <1> QED BY <1>1, TablesFit, PTL

\* IKESPIToNGAPId and NGAPIdToIKESPI agree on every live UE, in every state.
THEOREM MapsAlwaysAgree == Spec => []MapsAgree
  <1>1. TableInv => MapsAgree BY Zenon DEF TableInv
  <1> QED BY <1>1, TablesFit, PTL

\* However EAP-5G packets are repeated, delayed or reordered, an IKE SA is given at
\* most one RAN UE.
THEOREM AtMostOneRanUe == Spec => []OneRanUePerSpi
  <1>1. TableInv => OneRanUePerSpi
    <2> SUFFICES ASSUME TableInv PROVE OneRanUePerSpi OBVIOUS
    <2>a. TypeOK BY Zenon DEF TableInv
    <2>1. \A i, j \in RANUePool :
            NGAPIdToIKESPI[i] = NGAPIdToIKESPI[j] /\ NGAPIdToIKESPI[i] # None => i = j
      BY Zenon, <2>a, Basics DEF TableInv, OneMapping
    <2>2. ASSUME NEW k \in Ike, Created(k), NEW i \in RANUePool
          PROVE  NGAPIdToIKESPI[i] # ikeEvt[k].spi
      <3>1. i \in RanId /\ ikeEvt[k].spi \in Spi /\ None \notin Spi BY Zenon, <2>a, Basics
      <3>2. ~ sa[ikeEvt[k].spi].IkeUE BY Zenon, <2>2 DEF TableInv, FirstNas, Answered, Waiting
      <3> QED BY Zenon, <3>1, <3>2 DEF TableInv, IkeUeFirst
    <2>3. ASSUME NEW k \in Ike, Created(k), NEW l \in Ike,
                 ikeEvt[l].type = ikeEvt[k].type, ikeEvt[l].spi = ikeEvt[k].spi
          PROVE  l = k
      BY Zenon, <2>3 DEF TableInv, FirstNas, Answered, Created
    <2> QED BY Zenon, <2>1, <2>2, <2>3 DEF OneRanUePerSpi, Created, Ike
  <1> QED BY <1>1, TablesFit, PTL

\* An uplink NAS message is forwarded for the RAN UE of the UE that sent it.
THEOREM UplinkForwardedToOwn == Spec => []UplinkToOwnRanUe
  <1>1. TableInv => UplinkToOwnRanUe BY Zenon DEF TableInv
  <1> QED BY <1>1, TablesFit, PTL

=============================================================================
