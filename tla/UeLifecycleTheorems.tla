------------------------- MODULE UeLifecycleTheorems ------------------------
(***************************************************************************)
(* The NGAP loop keeps the inductive invariant; so it holds in every state, *)
(* and with it what the IKE and the NGAP loop promise each other about     *)
(* registration, NAS over TCP and release.                                 *)
(***************************************************************************)
EXTENDS UeLifecycleIkeLoop

\* The IKE loop.
LEMMA IkeLoopMore ==
    ASSUME TableInv, TypeOK', More, IkePacket \/ IkeHandleEvent PROVE More'
  <1>1. CASE IkePacket
    BY Zenon, <1>1, SaInitMore, CreateChildSaMore, IkeAuthMore, InformationalMore DEF IkePacket
  <1>2. CASE IkeHandleEvent
    BY Zenon, <1>2, PanicMore, IkeUeMadeMore, QuietIkeEventMore, SuccessMore, ChildMore,
       DeleteEventMore DEF IkeHandleEvent
  <1> QED BY Zenon, <1>1, <1>2

\* A RAN UE changes, without falling back to EAP.
LEMMA RanSet ==
    ASSUME TypeOK, NEW i \in RanId, NEW r, ranUe' = [ranUe EXCEPT ![i] = r],
           ranUe[i].IsNASTCPConnEstablished => r.IsNASTCPConnEstablished
    PROVE  RanQuiet
  <1>1. ranUe \in [RanId -> RanUe] BY Zenon, RanUeType
  <1>2. ranUe'[i] = r /\ \A j \in RanId \ {i} : ranUe'[j] = ranUe[j] BY Zenon, <1>1
  <1> QED BY Zenon, <1>2 DEF RanQuiet

\* The other goroutines: DPD and the NAS connections.
LEMMA GoroutineMore ==
    ASSUME TableInv, TypeOK', More, Goroutine PROVE More'
  <1> DEFINE Same == /\ procUp' /\ UNCHANGED Tables /\ UNCHANGED <<ikeEvt, amf>>
  <1>a. TypeOK /\ MapsAgree /\ sa \in [Spi -> SecurityAssociation] /\ ranUe \in [RanId -> RanUe]
    BY Zenon, SaType, RanUeType DEF TableInv
  <1>b. ASSUME Same, SaQuiet, RanQuiet, NgapMoves(0, QuietNgap) PROVE More'
    <2>1. AmfQuiet /\ ExitOnlyAfterNasConnection' BY Zenon, <1>b, AmfSame, Running
    <2>2. IkeMoves(0, QuietIke) BY Zenon, <1>a, <1>b, IkeSame
    <2> QED BY <1>a, <1>b, <2>1, <2>2, QuietStep
  <1>c. ASSUME NEW s \in Spi, NEW x, sa' = [sa EXCEPT ![s].dpd = x] PROVE SaQuiet
    <2>1. sa[s] \in SecurityAssociation BY Zenon, <1>a
    <2>r. PICK r : r = [sa[s] EXCEPT !.dpd = x] BY Zenon
    <2>2. /\ r.State = sa[s].State /\ r.childAsked = sa[s].childAsked /\ r.IkeUE = sa[s].IkeUE
          /\ r.Kn3iwf = sa[s].Kn3iwf /\ r.IPSecInnerIP = sa[s].IPSecInnerIP
      BY Zenon, <2>1, <2>r DEF SecurityAssociation
    <2>3. sa' = [sa EXCEPT ![s] = r] BY Zenon, <1>c, <2>r
    <2> QED BY Zenon, <1>a, <2>2, <2>3, SaSet
  <1>d. ASSUME NEW t \in QuietNgap \cap NgapEvtType, NEW i \in RanId, ngapEvt' = Append(ngapEvt, NgapE(t, i))
        PROVE  NgapMoves(0, QuietNgap)
    <2>e. PICK e : e = NgapE(t, i) BY Zenon
    <2>1. e \in NgapEvt /\ e.type = t BY Zenon, <2>e, EventTypes DEF NgapE
    <2> QED BY Zenon, <1>a, <1>d, <2>e, <2>1, NgapAdd
  <1>e. {"SendUEContextReleaseRequest", "NASTCPConnEstablishedComplete"} \subseteq QuietNgap \cap NgapEvtType
    BY Zenon DEF QuietNgap, NgapEvtType
  <1>1. ASSUME NEW s \in Spi, StartDPD(s) PROVE More'
    <2>1. /\ Same /\ ranUe' = ranUe /\ ngapEvt' = ngapEvt
          /\ sa' = [sa EXCEPT ![s].dpd = IF LivenessCheck THEN "on" ELSE "off"]
      BY Zenon, <1>1 DEF StartDPD, ranVars, evtVars, upVars, Tables
    <2>2. SaQuiet BY Zenon, <1>c, <2>1
    <2> QED BY Zenon, <1>a, <1>b, <2>1, <2>2, RanSame, NgapSame
  <1>2. ASSUME NEW s \in Spi, DPDTimeout(s) PROVE More'
    <2>1. /\ Same /\ ranUe' = ranUe /\ IKESPIToNGAPId[s] # None
          /\ ngapEvt' = Append(ngapEvt, NgapE("SendUEContextReleaseRequest", IKESPIToNGAPId[s]))
          /\ sa' = [sa EXCEPT ![s].dpd = "down"]
      BY Zenon, <1>2 DEF DPDTimeout, SendNgapEvt, ranVars, upVars, Tables
    <2>2. SaQuiet BY Zenon, <1>c, <2>1
    <2>3. IKESPIToNGAPId[s] \in RanId BY Zenon, <1>a, <2>1, MapType
    <2>4. NgapMoves(0, QuietNgap) BY Zenon, <1>d, <1>e, <2>1, <2>3
    <2> QED BY Zenon, <1>b, <2>1, <2>2, <2>4, RanSame
  <1>3. ASSUME NEW s \in Spi, listenAndServe(s) PROVE More'
    <2>i. PICK i : i = IKESPIToNGAPId[s] BY Zenon
    <2>1. /\ Same /\ sa' = sa /\ i # None /\ i \in RANUePool
          /\ ngapEvt' = Append(ngapEvt, NgapE("NASTCPConnEstablishedComplete", i))
          /\ ranUe' = [ranUe EXCEPT ![i].TCPConnection = TRUE, ![i].conns = @ + 1]
      BY Zenon, <1>3, <2>i DEF listenAndServe, SendNgapEvt, saVars, upVars, Tables
    <2>2. i \in RanId /\ ranUe[i] \in RanUe BY Zenon, <1>a, <2>1 DEF TypeOK
    <2>3. RanQuiet BY Zenon, <1>a, <2>1, <2>2 DEF RanUe, RanQuiet
    <2>4. NgapMoves(0, QuietNgap) BY Zenon, <1>d, <1>e, <2>1, <2>2
    <2> QED BY Zenon, <1>b, <2>1, <2>3, <2>4, SaSame
  <1>4. ASSUME NEW i \in RanId, serveConn(i) PROVE More'
    <2>1. /\ Same /\ sa' = sa /\ ngapEvt' = ngapEvt
          /\ ranUe' = [ranUe EXCEPT ![i].TCPConnection = FALSE, ![i].conns = @ - 1]
      BY Zenon, <1>4 DEF serveConn, saVars, evtVars, upVars, Tables
    <2>3. RanQuiet BY Zenon, <1>a, <2>1 DEF RanUe, RanQuiet
    <2> QED BY Zenon, <1>a, <1>b, <2>1, <2>3, SaSame, NgapSame
  <1> QED BY Zenon, <1>1, <1>2, <1>3, <1>4 DEF Goroutine

\* The UEs, and a step that changes nothing.
LEMMA OutsideMore ==
    ASSUME TableInv, TypeOK', More, Environment \/ UNCHANGED vars PROVE More'
  <1>a. TypeOK /\ MapsAgree /\ ExitOnlyAfterNasConnection BY Zenon DEF TableInv, More, ExitInv
  <1>1. /\ UNCHANGED <<IKESA, sa, IKEUePool, IKESPIToNGAPId, NGAPIdToIKESPI, RANUePool, ranUe>>
        /\ UNCHANGED <<ikeEvt, ngapEvt, ikeUp, procUp, amf>>
    BY Zenon DEF Environment, UeReceive, UeDelete, UeReleased, vars, saVars, ranVars, evtVars, upVars
  <1>2. UNCHANGED Tables BY Zenon, <1>1 DEF Tables
  <1>3. SaQuiet /\ AmfQuiet /\ RanQuiet /\ IkeMoves(0, QuietIke) /\ NgapMoves(0, QuietNgap)
    BY Zenon, <1>a, <1>1, SaSame, AmfSame, RanSame, IkeSame, NgapSame
  <1>4. ExitOnlyAfterNasConnection' BY Zenon, <1>a, <1>1 DEF ExitOnlyAfterNasConnection
  <1> QED BY <1>a, <1>2, <1>3, <1>4, QuietStep

-----------------------------------------------------------------------------
(* The NGAP loop leaves the IKE side alone but for its events.             *)

\* It takes e events and sends events with types in A; the RAN UEs that stay keep their SPI.
NgapSide(e, A) ==
    /\ UNCHANGED <<IKESA, sa, IKEUePool, IKESPIToNGAPId, ikeUp>>
    /\ IkeMoves(0, A) /\ NgapMoves(e, {}) /\ PoolGrows
    /\ \A i \in RanId : NGAPIdToIKESPI'[i] \in {None, NGAPIdToIKESPI[i]}
    /\ \A i \in RANUePool' : NGAPIdToIKESPI'[i] = NGAPIdToIKESPI[i]

\* It adds nothing to its own channel.
LEMMA NgapSideAddsNothing ==
    ASSUME TypeOK, NEW e \in {0, 1}, NgapMoves(e, {}), NEW k \in Ngap'
    PROVE  k + e \in Ngap /\ ngapEvt'[k] = ngapEvt[k + e] /\ ~ (Len(ngapEvt) < k + e)
  <1>1. k + e \in Ngap /\ ngapEvt'[k] = ngapEvt[k + e] BY Zenon DEF NgapMoves
  <1>2. Len(ngapEvt) \in Nat BY Zenon, Basics
  <1> QED BY ONLY <1>1, <1>2 DEF Ngap

\* A step of the NGAP loop keeps KeyInv when the AMF hears of no RAN UE for the first time,
LEMMA NgapSideKey ==
    ASSUME TypeOK, TypeOK', KeyInv, NEW e \in {0, 1}, NEW A, NgapSide(e, A),
           "SendEAPSuccessMsg" \notin A,
           \A i \in RanId : amf'[i].phase \in {"none", "ue"} => amf'[i].phase = amf[i].phase,
           \A i \in RanId : amf[i].phase = "none" => amf'[i].phase = "none"
    PROVE  KeyInv'
  <1>1. KeyBeforeAuth' BY Zenon DEF NgapSide, KeyInv, KeyBeforeAuth
  <1>2. /\ \A s \in Spi : sa[s].State < PostSignalling => sa'[s].State < PostSignalling
        /\ \A i \in RanId : NGAPIdToIKESPI'[i] \in {None, NGAPIdToIKESPI[i]}
        /\ IkeMoves(0, A) /\ NgapMoves(e, {}) /\ "SendInitialUEMessage" \notin {}
    BY Zenon DEF NgapSide
  <1> QED BY Zenon, <1>1, <1>2, KeyFrame

\* NasInv when it keeps NAS over TCP,
LEMMA NgapSideNas ==
    ASSUME TypeOK, TypeOK', MapsAgree, NasInv, NEW e \in {0, 1}, NEW A, NgapSide(e, A),
           \A k \in Ike' : ikeEvt'[k].type \in A /\ IkeIs(k, "CreatePDUSession")' =>
             Signalled(ikeEvt'[k].spi),
           e = 1 /\ NgapIs(1, "StartTCPSignalNASMsg") /\ ngapEvt[1].id \in RANUePool' =>
             ranUe'[ngapEvt[1].id].IsNASTCPConnEstablished,
           \A i \in RANUePool' \cap RANUePool :
             ranUe[i].IsNASTCPConnEstablished => ranUe'[i].IsNASTCPConnEstablished,
           \A i \in RanId : amf'[i].phase \in {"ready", "pdu"} =>
             \/ amf[i].phase \in {"ready", "pdu"}
             \/ /\ i \in RANUePool' => ranUe'[i].IsNASTCPConnEstablished
                /\ NGAPIdToIKESPI[i] # None => Signalled(NGAPIdToIKESPI[i])
    PROVE  NasInv'
  <1>1. IkeMoves(0, A) /\ NgapMoves(e, {}) /\ PoolGrows BY Zenon DEF NgapSide
  <1>2. NasEvents(e, A) BY Zenon, <1>1, NgapSideAddsNothing DEF NasEvents
  <1>3. NasTables BY Zenon DEF NgapSide, NasTables, MapKeeps, Signalled
  <1> QED BY Zenon, <1>1, <1>2, <1>3, NasFrame

\* NasAfterChildSa in any case,
LEMMA NgapSideNasAfter ==
    ASSUME TypeOK, TypeOK', NasAfterChildSa, NEW e \in {0, 1}, NEW A, NgapSide(e, A)
    PROVE  NasAfterChildSa'
  <1>1. /\ NgapMoves(e, {}) /\ PoolGrows
        /\ \A s \in Spi : sa[s].childAsked => sa'[s].childAsked
        /\ \A i \in RANUePool' : NGAPIdToIKESPI[i] # None => NGAPIdToIKESPI'[i] = NGAPIdToIKESPI[i]
    BY Zenon DEF NgapSide
  <1>2. \A k \in Ngap' : ~ (Len(ngapEvt) < k + e) BY Zenon, <1>1, NgapSideAddsNothing
  <1> QED BY Zenon, <1>1, <1>2, NasAfterFrame

\* ExitInv when it answers no GetNGAPContext,
LEMMA NgapSideExit ==
    ASSUME TypeOK, TypeOK', ExitInv, NEW e \in {0, 1}, NEW A, NgapSide(e, A),
           "GetNGAPContextResponse" \notin A, ExitOnlyAfterNasConnection'
    PROVE  ExitInv'
  <1>1. IkeMoves(0, A) /\ NgapMoves(e, {}) /\ "GetNGAPContext" \notin {} BY Zenon DEF NgapSide
  <1>2. AskedTables BY Zenon DEF NgapSide, AskedTables, MapKeeps
  <1>3. AskedOnce' BY Zenon, <1>1, <1>2, AskedKeeps DEF ExitInv
  <1>4. NasAfterChildSa' BY Zenon, NgapSideNasAfter DEF ExitInv
  <1> QED BY Zenon, <1>3, <1>4 DEF ExitInv

\* and ReleaseInv when nothing is left half released.
LEMMA NgapSideRelease ==
    ASSUME TypeOK, TypeOK', ReleaseInv, NEW e \in {0, 1}, NEW A, NgapSide(e, A),
           \A i \in RanId : amf'[i].phase \in {"ue", "ics", "ready", "pdu"} => i \in RANUePool',
           ReleaseEvents(0, e)
    PROVE  ReleaseInv'
  <1>1. IkeMoves(0, A) /\ NgapMoves(e, {}) BY Zenon DEF NgapSide
  <1>2. ReleaseTables(e)
    <2>1. None \notin IKESA BY Zenon, NoneNotSpi DEF TypeOK
    <2>2. \A i \in RanId : NGAPIdToIKESPI'[i] \in IKESA' => IKESPIToNGAPId'[NGAPIdToIKESPI'[i]] = i
      BY Zenon, <2>1 DEF NgapSide, ReleaseInv
    <2>3. \A k \in Ngap' : ~ (Len(ngapEvt) < k + e) BY Zenon, <1>1, NgapSideAddsNothing
    <2> QED BY Zenon, <2>2, <2>3 DEF ReleaseTables, NgapSide
  <1> QED BY Zenon, <1>1, <1>2, ReleaseFrame

-----------------------------------------------------------------------------
(* The handlers of the NGAP loop that leave the tables alone.              *)

\* A quiet step of the NGAP loop keeps the invariant.
LEMMA QuietNgapStep ==
    ASSUME TypeOK, TypeOK', MapsAgree, More, UNCHANGED Tables, sa' = sa, AmfQuiet, RanQuiet,
           ExitOnlyAfterNasConnection', IkeMoves(0, QuietIke),
           \/ ngapEvt' = ngapEvt
           \/ \E t : NgapEvent(t) /\ t # "SendUEContextRelease" /\ t # "StartTCPSignalNASMsg"
    PROVE  More'
  <1>1. SaQuiet BY Zenon, SaSame
  <1>2. CASE ngapEvt' = ngapEvt
    <2>1. NgapMoves(0, QuietNgap) BY Zenon, <1>2, NgapSame
    <2> QED BY <1>1, <2>1, QuietStep
  <1>3. ASSUME NEW t, NgapEvent(t), t # "SendUEContextRelease", t # "StartTCPSignalNASMsg"
        PROVE  More'
    <2>1. NgapMoves(1, QuietNgap) /\ ngapEvt[1].type = t BY Zenon, <1>3, NgapTake, NgapTaken
    <2>2. ~ NgapIs(1, "SendUEContextRelease") /\ ~ NgapIs(1, "StartTCPSignalNASMsg")
      BY Zenon, <1>3, <2>1 DEF NgapIs
    <2> QED BY <1>1, <2>1, <2>2, QuietStep
  <1> QED BY Zenon, <1>2, <1>3

\* An event of the IKE loop that leaves the tables alone.
LEMMA QuietIkeSent ==
    ASSUME TypeOK, NEW t \in QuietIke, NEW s \in Spi, NEW i \in RanId, SendIkeEvt(IkeE(t, s, i))
    PROVE  IkeMoves(0, QuietIke)
  <1>1. t \in IkeEvtType BY Zenon DEF QuietIke, IkeEvtType
  <1> QED BY Zenon, <1>1, IkeAdd

\* The process exits when a RAN UE without a connection is sent NAS that the IKE loop
\* forwards, which it does after a child SA was asked for; or when the cached NAS finds that
\* connection, accepted before, closed again.
LEMMA NasSentMore ==
    ASSUME TableInv, TypeOK', More,
           HandleSendNASMsg \/ HandleNASTCPConnEstablishedComplete
    PROVE  More'
  <1>i. PICK i : i = ngapEvt[1].id BY Zenon
  <1>a. TypeOK /\ MapsAgree /\ NasAfterChildSa BY Zenon DEF TableInv, More, ExitInv
  <1>b. \E t : NgapEvent(t) /\ t # "SendUEContextRelease" /\ t # "StartTCPSignalNASMsg"
    <2>1. NgapEvent("SendNASMsg") \/ NgapEvent("NASTCPConnEstablishedComplete")
      BY Zenon DEF HandleSendNASMsg, HandleNASTCPConnEstablishedComplete
    <2> QED BY Zenon, <2>1
  <1>c. /\ UNCHANGED Tables /\ UNCHANGED <<sa, amf, ikeEvt>> /\ procUp
    BY Zenon DEF HandleSendNASMsg, HandleNASTCPConnEstablishedComplete, saVars, NgapEvent, Tables
  <1>d. AmfQuiet /\ IkeMoves(0, QuietIke) BY Zenon, <1>a, <1>c, AmfSame, IkeSame
  <1>e. 1 \in Ngap /\ Head(ngapEvt).id = i /\ i \in RanId BY Zenon, <1>a, <1>b, <1>i, NgapTaken
  <1>f. ranUe \in [RanId -> RanUe] /\ ranUe[i] \in RanUe BY Zenon, <1>a, <1>e, RanUeType
  <1>u. UNCHANGED <<RANUePool, NGAPIdToIKESPI>> BY Zenon, <1>c DEF Tables
  <1>1. CASE HandleSendNASMsg
    <2>1. /\ Exit(i \in RANUePool /\ ~ ranUe[i].TCPConnection)
          /\ \/ ranUe' = ranUe
             \/ /\ i \in RANUePool /\ ranUe[i].TCPConnection
                /\ ranUe' = [ranUe EXCEPT ![i].TemporaryCachedNASMessage = FALSE]
      BY Zenon, <1>1, <1>e DEF HandleSendNASMsg
    <2>2. RanQuiet BY ZenonT(30), <1>e, <1>f, <2>1 DEF RanUe, RanQuiet
    <2>3. ASSUME ~ procUp' PROVE ExitOnlyAfterNasConnection'
      <3>1. i \in RANUePool /\ ~ ranUe[i].TCPConnection /\ ranUe' = ranUe
        BY Zenon, <1>c, <2>1, <2>3 DEF Exit
      <3>2. NgapEvent("SendNASMsg") BY Zenon, <1>1 DEF HandleSendNASMsg
      <3>3. NgapIs(1, "SendNASMsg") BY Zenon, <1>a, <3>2, NgapTaken DEF NgapIs
      <3>4. \E s \in Spi : NGAPIdToIKESPI[i] = s /\ sa[s].childAsked
        BY Zenon, <1>a, <1>e, <1>i, <3>1, <3>3 DEF NasAfterChildSa
      <3> QED BY Zenon, <1>c, <1>u, <3>1, <3>4 DEF ExitOnlyAfterNasConnection
    <2>4. ExitOnlyAfterNasConnection' BY ZenonT(30), <2>3, Running
    <2> QED BY Zenon, <1>a, <1>b, <1>c, <1>d, <2>2, <2>4, QuietNgapStep
  <1>2. CASE HandleNASTCPConnEstablishedComplete
    <2> DEFINE r == [ranUe[i] EXCEPT !.IsNASTCPConnEstablishedComplete = TRUE,
                                     !.TemporaryCachedNASMessage = FALSE]
    <2>1. /\ Exit(/\ i \in RANUePool
                  /\ ranUe[i].TemporaryCachedNASMessage /\ ~ ranUe[i].TCPConnection)
          /\ ranUe' = IF i \in RANUePool
                      THEN [ranUe EXCEPT ![i].IsNASTCPConnEstablishedComplete = TRUE,
                                         ![i].TemporaryCachedNASMessage = FALSE]
                      ELSE ranUe
      BY Zenon, <1>2, <1>e DEF HandleNASTCPConnEstablishedComplete
    <2>2. /\ i \notin RANUePool => ranUe' = ranUe
          /\ i \in RANUePool => ranUe' = [ranUe EXCEPT ![i] = r]
      BY Zenon, <1>e, <1>f, <2>1
    <2>3. /\ r.IsNASTCPConnEstablishedComplete /\ r.TCPConnection = ranUe[i].TCPConnection
          /\ r.IsNASTCPConnEstablished = ranUe[i].IsNASTCPConnEstablished
      BY Zenon, <1>f DEF RanUe
    <2> HIDE DEF r
    <2>4. RanQuiet BY Zenon, <1>a, <1>e, <2>2, <2>3, RanSame, RanSet
    <2>5. ASSUME ~ procUp' PROVE ExitOnlyAfterNasConnection'
      <3>1. i \in RANUePool /\ ~ ranUe[i].TCPConnection BY Zenon, <1>c, <2>1, <2>5 DEF Exit
      <3>2. ranUe'[i] = r BY Zenon, <1>e, <1>f, <2>2, <3>1
      <3> QED BY Zenon, <1>u, <2>3, <3>1, <3>2 DEF ExitOnlyAfterNasConnection
    <2>6. ExitOnlyAfterNasConnection' BY Zenon, <2>5, Running
    <2> QED BY <1>a, <1>b, <1>c, <1>d, <2>4, <2>6, QuietNgapStep
  <1> QED BY Zenon, <1>1, <1>2

\* A release request, and a context modification.
LEMMA RequestMore ==
    ASSUME TableInv, TypeOK', More,
           \/ HandleSendUEContextReleaseRequest
           \/ \E i \in RanId : HandleUEContextModificationRequest(i)
    PROVE  More'
  <1>a. TypeOK /\ MapsAgree BY Zenon DEF TableInv
  <1>1. CASE HandleSendUEContextReleaseRequest
    <2>i. PICK i : i = ngapEvt[1].id BY Zenon
    <2>1. NgapEvent("SendUEContextReleaseRequest") BY Zenon, <1>1 DEF HandleSendUEContextReleaseRequest
    <2>2. Head(ngapEvt).id = i /\ i \in RanId BY Zenon, <1>a, <2>i, <2>1, NgapTaken
    <2>3. /\ UNCHANGED Tables /\ UNCHANGED <<sa, ranUe, ikeEvt>> /\ procUp'
          /\ amf' = IF i \in RANUePool THEN [amf EXCEPT ![i].relReq = TRUE] ELSE amf
      BY Zenon, <1>1, <2>1, <2>2
         DEF HandleSendUEContextReleaseRequest, saVars, ranVars, upVars, Tables, NgapEvent
    <2>4. AmfQuiet BY Zenon, <1>a, <2>2, <2>3, AmfType DEF AmfQuiet
    <2>5. RanQuiet /\ IkeMoves(0, QuietIke) /\ ExitOnlyAfterNasConnection'
      BY Zenon, <1>a, <2>3, RanSame, IkeSame, Running
    <2>6. \E t : NgapEvent(t) /\ t # "SendUEContextRelease" /\ t # "StartTCPSignalNASMsg"
      BY Zenon, <2>1
    <2> QED BY Zenon, <1>a, <2>3, <2>4, <2>5, <2>6, QuietNgapStep
  <1>2. ASSUME NEW i \in RanId, HandleUEContextModificationRequest(i) PROVE More'
    <2>1. /\ UNCHANGED Tables /\ UNCHANGED <<sa, ranUe, amf, ngapEvt>> /\ procUp'
          /\ NGAPIdToIKESPI[i] # None
          /\ SendIkeEvt(IkeE("IKEContextUpdate", NGAPIdToIKESPI[i], i))
      BY Zenon, <1>2
         DEF HandleUEContextModificationRequest, saVars, ranVars, upVars, Tables, AmfSends
    <2>2. NGAPIdToIKESPI[i] \in Spi BY Zenon, <1>a, <2>1, MapType
    <2>3. IkeMoves(0, QuietIke) BY Zenon, <1>a, <2>1, <2>2, QuietIkeSent DEF QuietIke
    <2>4. AmfQuiet /\ RanQuiet /\ ExitOnlyAfterNasConnection' BY Zenon, <2>1, AmfSame, RanSame, Running
    <2> QED BY Zenon, <1>a, <2>1, <2>3, <2>4, QuietNgapStep
  <1> QED BY Zenon, <1>1, <1>2

\* A downlink NAS message is written to a connection that was accepted before.
LEMMA DownlinkMore ==
    ASSUME TableInv, TypeOK', More, NEW i \in RanId, HandleDownlinkNASTransport(i)
    PROVE  More'
  <1> DEFINE r == [ranUe[i] EXCEPT !.AmfUeNgapId = TRUE]
             c == [r EXCEPT !.TemporaryCachedNASMessage = TRUE]
  <1>a. TypeOK /\ MapsAgree BY Zenon DEF TableInv
  <1>b. ranUe \in [RanId -> RanUe] /\ ranUe[i] \in RanUe BY Zenon, <1>a, RanUeType
  <1>1. /\ UNCHANGED Tables /\ UNCHANGED <<sa, ngapEvt>> /\ procUp /\ i \in RANUePool
        /\ amf' = [amf EXCEPT ![i].down = @ + 1]
        /\ \/ ikeEvt' = ikeEvt
           \/ /\ NGAPIdToIKESPI[i] # None
              /\ SendIkeEvt(IkeE("SendEAPNASMsg", NGAPIdToIKESPI[i], i))
        /\ ranUe' = [ranUe EXCEPT ![i] = r] \/ ranUe' = [ranUe EXCEPT ![i] = c]
        /\ procUp' = (procUp /\ ~ (/\ NGAPIdToIKESPI[i] # None /\ r.IsNASTCPConnEstablished
                                   /\ r.IsNASTCPConnEstablishedComplete /\ ~ r.TCPConnection))
    BY Zenon DEF HandleDownlinkNASTransport, saVars, Tables, AmfSends, Exit
  <1>2. /\ r.IsNASTCPConnEstablishedComplete = c.IsNASTCPConnEstablishedComplete
        /\ r.TCPConnection = c.TCPConnection
        /\ r.IsNASTCPConnEstablished = ranUe[i].IsNASTCPConnEstablished
        /\ c.IsNASTCPConnEstablished = ranUe[i].IsNASTCPConnEstablished
    BY Zenon, <1>b DEF RanUe
  <1> HIDE DEF r, c
  <1>3. RanQuiet BY Zenon, <1>a, <1>1, <1>2, RanSet
  <1>4. AmfQuiet BY Zenon, <1>a, <1>1, AmfType DEF AmfQuiet
  <1>5. IkeMoves(0, QuietIke)
    <2>1. NGAPIdToIKESPI[i] # None => NGAPIdToIKESPI[i] \in Spi BY Zenon, <1>a, MapType
    <2> QED BY Zenon, <1>a, <1>1, <2>1, IkeSame, QuietIkeSent DEF QuietIke
  <1>6. ASSUME ~ procUp' PROVE ExitOnlyAfterNasConnection'
    <2>1. r.IsNASTCPConnEstablishedComplete /\ ~ r.TCPConnection BY Zenon, <1>1, <1>6
    <2>2. ranUe'[i] = r \/ ranUe'[i] = c BY Zenon, <1>b, <1>1
    <2>3. i \in RANUePool' BY Zenon, <1>1 DEF Tables
    <2> QED BY Zenon, <1>2, <2>1, <2>2, <2>3 DEF ExitOnlyAfterNasConnection
  <1>7. ExitOnlyAfterNasConnection' BY Zenon, <1>6, Running
  <1> QED BY Zenon, <1>a, <1>1, <1>3, <1>4, <1>5, <1>7, QuietNgapStep

-----------------------------------------------------------------------------
(* The handlers of the NGAP loop that change a table.                      *)

\* The tables stay, or one RAN UE is removed.
TablesShrink ==
    \/ UNCHANGED <<RANUePool, NGAPIdToIKESPI>>
    \/ \E i \in RanId : \E r : RemoveRanUe(i, r)

\* Then the RAN UEs that stay keep their SPI.
LEMMA Shrunk ==
    ASSUME TypeOK, TablesShrink
    PROVE  /\ PoolGrows
           /\ \A i \in RanId : NGAPIdToIKESPI'[i] \in {None, NGAPIdToIKESPI[i]}
           /\ \A i \in RANUePool' : NGAPIdToIKESPI'[i] = NGAPIdToIKESPI[i]
  <1>1. ASSUME NEW i \in RanId, NEW r, RemoveRanUe(i, r)
        PROVE  /\ RANUePool' = RANUePool \ {i} /\ NGAPIdToIKESPI'[i] = None
               /\ \A j \in RanId \ {i} : NGAPIdToIKESPI'[j] = NGAPIdToIKESPI[j]
    BY Zenon, <1>1, MapType DEF RemoveRanUe
  <1>2. RANUePool \subseteq RanId BY Zenon DEF TypeOK
  <1> QED BY Zenon, <1>1, <1>2 DEF PoolGrows, TablesShrink

\* A handler of one of the NGAP loop's events, and one of a message of the AMF.
LEMMA NgapEventSide ==
    ASSUME TypeOK, NEW t, NgapEvent(t), NEW A, IkeMoves(0, A), UNCHANGED <<saVars, ikeUp>>,
           TablesShrink
    PROVE  NgapSide(1, A) /\ 1 \in Ngap /\ NgapIs(1, t)
  <1>1. NgapMoves(1, {}) /\ 1 \in Ngap /\ NgapIs(1, t) BY Zenon, NgapTake, NgapTaken DEF NgapIs
  <1> QED BY Zenon, <1>1, Shrunk DEF NgapSide, saVars

\* The handler of a message of the AMF.
LEMMA NgapMessageSide ==
    ASSUME TypeOK, ngapEvt' = ngapEvt, NEW A, IkeMoves(0, A), UNCHANGED <<saVars, ikeUp>>,
           TablesShrink
    PROVE  NgapSide(0, A)
  BY Zenon, NgapSame, Shrunk DEF NgapSide, saVars

\* When the AMF is told nothing of a release.
LEMMA NoRelease ==
    ASSUME TypeOK, UNCHANGED <<saVars, ikeUp, RANUePool, NGAPIdToIKESPI>>, NEW e \in {0, 1},
           e = 1 => ~ NgapIs(1, "SendUEContextRelease"),
           \A j \in RanId : /\ amf'[j].phase = "rel" => amf[j].phase = "rel"
                            /\ amf[j].relReq => amf'[j].relReq
    PROVE  ReleaseEvents(0, e)
  <1>1. UNCHANGED <<IKESA, IKEUePool, IKESPIToNGAPId>> BY Zenon DEF saVars
  <1>2. RANUePool \subseteq RanId BY Zenon DEF TypeOK
  <1>3. 0 # 1 OBVIOUS
  <1> QED BY Zenon, <1>1, <1>2, <1>3 DEF ReleaseEvents

\* From StartTCPSignalNASMsg on, NAS goes over TCP.
LEMMA StartMore ==
    ASSUME TableInv, TypeOK', More, HandleStartTCPSignalNASMsg PROVE More'
  <1>i. PICK i : i = ngapEvt[1].id BY Zenon
  <1>a. TypeOK /\ MapsAgree BY Zenon DEF TableInv
  <1>b. NgapEvent("StartTCPSignalNASMsg") BY Zenon DEF HandleStartTCPSignalNASMsg
  <1>c. Head(ngapEvt).id = i /\ i \in RanId BY Zenon, <1>a, <1>b, <1>i, NgapTaken
  <1>1. /\ UNCHANGED <<saVars, ikeUp>> /\ UNCHANGED <<RANUePool, NGAPIdToIKESPI>>
        /\ UNCHANGED <<ikeEvt, amf>> /\ procUp'
        /\ ranUe' = IF i \in RANUePool
                    THEN [ranUe EXCEPT ![i].IsNASTCPConnEstablished = TRUE] ELSE ranUe
    BY Zenon, <1>b, <1>c DEF HandleStartTCPSignalNASMsg, upVars, NgapEvent
  <1>2. IkeMoves(0, {}) /\ TablesShrink BY Zenon, <1>a, <1>1, IkeSame DEF TablesShrink
  <1>3. NgapSide(1, {}) /\ NgapIs(1, "StartTCPSignalNASMsg")
    BY Zenon, <1>a, <1>b, <1>1, <1>2, NgapEventSide
  <1>4. ranUe \in [RanId -> RanUe] BY Zenon, <1>a, RanUeType
  <1>5. i \in RANUePool => ranUe'[i].IsNASTCPConnEstablished
    BY Zenon, <1>c, <1>1, <1>4 DEF RanUe
  <1>6. \A j \in RanId \ {i} : ranUe'[j] = ranUe[j] BY Zenon, <1>c, <1>1, <1>4
  <1>7. RANUePool' = RANUePool /\ RANUePool \subseteq RanId BY ZenonT(30), <1>a, <1>1 DEF TypeOK
  <1>8. KeyInv' BY Zenon, <1>a, <1>1, <1>3, NgapSideKey DEF More
  <1>9. NasInv'
    <2>1. \A j \in RANUePool' \cap RANUePool :
            ranUe[j].IsNASTCPConnEstablished => ranUe'[j].IsNASTCPConnEstablished
      BY Zenon, <1>5, <1>6, <1>7
    <2>2. ngapEvt[1].id \in RANUePool' => ranUe'[ngapEvt[1].id].IsNASTCPConnEstablished
      BY Zenon, <1>i, <1>5, <1>7
    <2> QED BY <1>a, <1>1, <1>3, <2>1, <2>2, NgapSideNas DEF More
  <1>10. ExitInv'
    <2>1. ExitOnlyAfterNasConnection' BY Zenon, <1>1, Running
    <2> QED BY Zenon, <1>a, <1>3, <2>1, NgapSideExit DEF More
  <1>11. ASSUME ReleaseInv PROVE ReleaseInv'
    <2>1. ~ NgapIs(1, "SendUEContextRelease") BY Zenon, <1>3 DEF NgapIs
    <2>2. ReleaseEvents(0, 1) BY Zenon, <1>a, <1>1, <2>1, NoRelease
    <2>3. \A j \in RanId : amf'[j].phase \in {"ue", "ics", "ready", "pdu"} => j \in RANUePool'
      BY Zenon, <1>1, <1>7, <1>11 DEF ReleaseInv
    <2> QED BY Zenon, <1>a, <1>3, <1>11, <2>2, <2>3, NgapSideRelease
  <1> QED BY Zenon, <1>8, <1>9, <1>10, <1>11 DEF More

\* The phase of one RAN UE at the AMF.
LEMMA AmfSet ==
    ASSUME TypeOK, NEW i \in RanId, NEW p, amf' = [amf EXCEPT ![i].phase = p]
    PROVE  /\ amf'[i].phase = p /\ amf'[i].relReq = amf[i].relReq
           /\ \A j \in RanId \ {i} : amf'[j] = amf[j]
           /\ \A j \in RanId : amf'[j].relReq = amf[j].relReq
  <1>1. amf \in [RanId -> [phase: AmfPhase, down: 0..MaxDown, relReq: BOOLEAN]] BY Zenon, AmfType
  <1>2. amf'[i].phase = p /\ amf'[i].relReq = amf[i].relReq BY Zenon, <1>1
  <1>3. \A j \in RanId \ {i} : amf'[j] = amf[j] BY ZenonT(30), <1>1
  <1> QED BY Zenon, <1>2, <1>3

\* The AMF learns that the context is set up, after NAS over TCP was started.
LEMMA ReadyMore ==
    ASSUME TableInv, TypeOK', More, HandleSendPDUSessionResourceSetupResponse PROVE More'
  <1>i. PICK i : i = ngapEvt[1].id BY Zenon
  <1>a. TypeOK /\ MapsAgree /\ NasInv BY Zenon DEF TableInv, More
  <1>b. NgapEvent("SendPDUSessionResourceSetupResponse")
    BY Zenon DEF HandleSendPDUSessionResourceSetupResponse
  <1>c. Head(ngapEvt).id = i /\ i \in RanId BY Zenon, <1>a, <1>b, <1>i, NgapTaken
  <1>1. /\ UNCHANGED <<saVars, ikeUp>> /\ UNCHANGED <<RANUePool, NGAPIdToIKESPI>>
        /\ UNCHANGED <<ikeEvt, ranUe>> /\ procUp'
        /\ \/ amf' = amf
           \/ /\ i \in RANUePool /\ amf[i].phase = "ics"
              /\ amf' = [amf EXCEPT ![i].phase = "ready"]
    BY Zenon, <1>b, <1>c DEF HandleSendPDUSessionResourceSetupResponse, ranVars, upVars, NgapEvent
  <1>2. IkeMoves(0, {}) /\ TablesShrink BY Zenon, <1>a, <1>1, IkeSame DEF TablesShrink
  <1>3. NgapSide(1, {}) /\ 1 \in Ngap /\ NgapIs(1, "SendPDUSessionResourceSetupResponse")
    BY Zenon, <1>a, <1>b, <1>1, <1>2, NgapEventSide
  <1>4. /\ \A j \in RanId : amf'[j].relReq = amf[j].relReq
        /\ \A j \in RanId : \/ amf'[j].phase = amf[j].phase
                            \/ /\ j = i /\ i \in RANUePool
                               /\ amf[j].phase = "ics" /\ amf'[j].phase = "ready"
    <2>1. CASE amf' = amf BY Zenon, <2>1
    <2>2. CASE /\ i \in RANUePool /\ amf[i].phase = "ics"
               /\ amf' = [amf EXCEPT ![i].phase = "ready"]
      <3>1. /\ amf'[i].phase = "ready" /\ \A j \in RanId \ {i} : amf'[j] = amf[j]
            /\ \A j \in RanId : amf'[j].relReq = amf[j].relReq
        BY ZenonT(30), <1>a, <1>c, <2>2, AmfSet
      <3> QED BY Zenon, <2>2, <3>1
    <2> QED BY Zenon, <1>1, <2>1, <2>2
  <1>5. RANUePool' = RANUePool BY Zenon, <1>1
  <1>6. KeyInv'
    <2>1. \A j \in RanId : amf'[j].phase \in {"none", "ue"} => amf'[j].phase = amf[j].phase
      BY Zenon, <1>4
    <2>2. \A j \in RanId : amf[j].phase = "none" => amf'[j].phase = "none" BY Zenon, <1>4
    <2> QED BY Zenon, <1>a, <1>3, <2>1, <2>2, NgapSideKey DEF More
  <1>7. NasInv'
    <2>1. i \in RANUePool => ranUe[i].IsNASTCPConnEstablished
      <3>1. i \in RANUePool => Started(i, 1) BY Zenon, <1>a, <1>i, <1>3 DEF NasInv
      <3>2. \A l \in Ngap : ~ (l < 1) BY ONLY TRUE DEF Ngap
      <3> QED BY Zenon, <3>1, <3>2 DEF Started
    <2>2. NGAPIdToIKESPI[i] # None => Signalled(NGAPIdToIKESPI[i]) BY Zenon, <1>a, <1>i, <1>3 DEF NasInv
    <2>3. \A j \in RanId : amf'[j].phase \in {"ready", "pdu"} =>
            \/ amf[j].phase \in {"ready", "pdu"}
            \/ /\ j \in RANUePool' => ranUe'[j].IsNASTCPConnEstablished
               /\ NGAPIdToIKESPI[j] # None => Signalled(NGAPIdToIKESPI[j])
      BY Zenon, <1>1, <1>4, <2>1, <2>2
    <2>4. ~ NgapIs(1, "StartTCPSignalNASMsg") BY Zenon, <1>3 DEF NgapIs
    <2> QED BY <1>a, <1>1, <1>3, <2>3, <2>4, NgapSideNas
  <1>8. ExitInv'
    <2>1. ExitOnlyAfterNasConnection' BY Zenon, <1>1, Running
    <2> QED BY Zenon, <1>a, <1>3, <2>1, NgapSideExit DEF More
  <1>9. ASSUME ReleaseInv PROVE ReleaseInv'
    <2>1. ~ NgapIs(1, "SendUEContextRelease") BY Zenon, <1>3 DEF NgapIs
    <2>2. \A j \in RanId : /\ amf'[j].phase = "rel" => amf[j].phase = "rel"
                           /\ amf[j].relReq => amf'[j].relReq
      BY Zenon, <1>4
    <2>3. ReleaseEvents(0, 1) BY Zenon, <1>a, <1>1, <2>1, <2>2, NoRelease
    <2>4. \A j \in RanId : amf'[j].phase \in {"ue", "ics", "ready", "pdu"} => j \in RANUePool'
      BY ZenonT(30), <1>4, <1>5, <1>9 DEF ReleaseInv
    <2> QED BY Zenon, <1>a, <1>3, <1>9, <2>3, <2>4, NgapSideRelease
  <1> QED BY Zenon, <1>6, <1>7, <1>8, <1>9 DEF More

\* The Initial UE Message, of which there is one for a RAN UE.
LEMMA InitialMore ==
    ASSUME TableInv, TypeOK', More, HandleSendInitialUEMessage PROVE More'
  <1>i. PICK i : i = ngapEvt[1].id BY Zenon
  <1>a. /\ TypeOK /\ MapsAgree /\ NasInv
        /\ KeyBeforeAuth /\ AnnouncedOnce /\ AnnouncedFirst /\ OneSuccess
    BY Zenon DEF TableInv, More, KeyInv
  <1>b. NgapEvent("SendInitialUEMessage") BY Zenon DEF HandleSendInitialUEMessage
  <1>c. Head(ngapEvt).id = i /\ i \in RanId BY Zenon, <1>a, <1>b, <1>i, NgapTaken
  <1>1. /\ UNCHANGED <<saVars, ikeUp>> /\ UNCHANGED <<RANUePool, NGAPIdToIKESPI>>
        /\ UNCHANGED <<ikeEvt, ranUe>> /\ procUp'
        /\ \/ amf' = amf
           \/ i \in RANUePool /\ amf' = [amf EXCEPT ![i].phase = "ue"]
    BY Zenon, <1>b, <1>c DEF HandleSendInitialUEMessage, ranVars, upVars, NgapEvent
  <1>2. IkeMoves(0, {}) /\ TablesShrink BY Zenon, <1>a, <1>1, IkeSame DEF TablesShrink
  <1>3. NgapSide(1, {}) /\ 1 \in Ngap /\ NgapIs(1, "SendInitialUEMessage")
    BY Zenon, <1>a, <1>b, <1>1, <1>2, NgapEventSide
  <1>p. amf[i].phase = "none" BY Zenon, <1>a, <1>i, <1>3 DEF AnnouncedOnce
  <1>4. /\ \A j \in RanId : amf'[j].relReq = amf[j].relReq
        /\ \A j \in RanId : \/ amf'[j].phase = amf[j].phase
                            \/ j = i /\ i \in RANUePool /\ amf'[j].phase = "ue"
    BY ZenonT(30), <1>a, <1>c, <1>1, AmfSet
  <1>5. RANUePool' = RANUePool BY Zenon, <1>1
  <1>6. KeyInv'
    <2>1. KeyBeforeAuth' BY Zenon, <1>a, <1>1 DEF KeyBeforeAuth, saVars
    <2>2. ASSUME NEW k \in Ngap' PROVE k + 1 \in Ngap /\ ngapEvt'[k] = ngapEvt[k + 1] /\ k + 1 # 1
      <3>1. k + 1 \in Ngap /\ ngapEvt'[k] = ngapEvt[k + 1]
        BY Zenon, <1>3 DEF NgapSide, NgapMoves
      <3>2. k + 1 # 1 BY ONLY k \in Ngap' DEF Ngap
      <3> QED BY Zenon, <3>1, <3>2
    <2>3. ASSUME NEW k \in Ngap', NgapIs(k, "SendInitialUEMessage")'
          PROVE  amf'[ngapEvt'[k].id].phase = "none"
      <3>1. NgapIs(k + 1, "SendInitialUEMessage") /\ ngapEvt'[k].id = ngapEvt[k + 1].id
        BY Zenon, <2>2, <2>3 DEF NgapIs
      <3>2. ngapEvt[k + 1].id # i /\ amf[ngapEvt[k + 1].id].phase = "none"
        BY Zenon, <1>a, <1>i, <1>3, <2>2, <3>1 DEF AnnouncedOnce
      <3>3. ngapEvt[k + 1].id \in RanId BY Zenon, <1>a, <2>2, TypeGivesValues DEF Values
      <3> QED BY Zenon, <1>4, <3>1, <3>2, <3>3
    <2>4. ASSUME NEW k \in Ngap', NEW l \in Ngap', NgapIs(k, "SendInitialUEMessage")',
                 NgapIs(l, "SendInitialUEMessage")', ngapEvt'[k].id = ngapEvt'[l].id
          PROVE  k = l
      <3>1. k + 1 = l + 1 BY Zenon, <1>a, <2>2, <2>4 DEF AnnouncedOnce, NgapIs
      <3> QED BY ONLY k \in Ngap', l \in Ngap', <3>1 DEF Ngap
    <2>5. AnnouncedOnce' BY Zenon, <2>3, <2>4 DEF AnnouncedOnce
    <2>f. ASSUME NEW k \in Ngap', NEW l \in Ngap', NgapIs(k, "SendInitialUEMessage")',
                 NgapIs(l, "SendUEContextRelease")', ngapEvt'[k].id = ngapEvt'[l].id
          PROVE  k < l
      <3>1. k + 1 < l + 1 BY Zenon, <1>a, <2>2, <2>f DEF AnnouncedFirst, NgapIs
      <3> QED BY ONLY k \in Ngap', l \in Ngap', <3>1 DEF Ngap
    <2>6. OneSuccess'
      <3>1. UNCHANGED <<ikeEvt, sa, NGAPIdToIKESPI>> BY Zenon, <1>1 DEF saVars
      <3>2. \A j \in RanId : amf'[j].phase \in {"none", "ue"} => amf[j].phase \in {"none", "ue"}
        BY Zenon, <1>4, <1>p
      <3> QED BY Zenon, <1>a, <3>1, <3>2 DEF OneSuccess, Ike, IkeIs
    <2> QED BY Zenon, <2>1, <2>5, <2>6, <2>f DEF KeyInv, AnnouncedFirst
  <1>7. NasInv'
    <2>1. \A j \in RanId : amf'[j].phase \in {"ready", "pdu"} => amf[j].phase \in {"ready", "pdu"}
      BY Zenon, <1>4
    <2>2. ~ NgapIs(1, "StartTCPSignalNASMsg") BY Zenon, <1>3 DEF NgapIs
    <2> QED BY <1>a, <1>1, <1>3, <2>1, <2>2, NgapSideNas
  <1>8. ExitInv'
    <2>1. ExitOnlyAfterNasConnection' BY Zenon, <1>1, Running
    <2> QED BY Zenon, <1>a, <1>3, <2>1, NgapSideExit DEF More
  <1>9. ASSUME ReleaseInv PROVE ReleaseInv'
    <2>1. ~ NgapIs(1, "SendUEContextRelease") BY Zenon, <1>3 DEF NgapIs
    <2>2. \A j \in RanId : /\ amf'[j].phase = "rel" => amf[j].phase = "rel"
                           /\ amf[j].relReq => amf'[j].relReq
      BY Zenon, <1>4
    <2>3. ReleaseEvents(0, 1) BY Zenon, <1>a, <1>1, <2>1, <2>2, NoRelease
    <2>4. \A j \in RanId : amf'[j].phase \in {"ue", "ics", "ready", "pdu"} => j \in RANUePool'
      BY ZenonT(30), <1>4, <1>5, <1>9 DEF ReleaseInv
    <2> QED BY Zenon, <1>a, <1>3, <1>9, <2>3, <2>4, NgapSideRelease
  <1> QED BY Zenon, <1>6, <1>7, <1>8, <1>9 DEF More

\* A release the UE asked for: the AMF is asked, or is being asked already.
LEMMA ReleaseMore ==
    ASSUME TableInv, TypeOK', More, HandleSendSendUEContextRelease PROVE More'
  <1>i. PICK i : i = ngapEvt[1].id BY Zenon
  <1>a. TypeOK /\ MapsAgree /\ NasInv BY Zenon DEF TableInv, More
  <1>b. NgapEvent("SendUEContextRelease") BY Zenon DEF HandleSendSendUEContextRelease
  <1>c. Head(ngapEvt).id = i /\ i \in RanId BY Zenon, <1>a, <1>b, <1>i, NgapTaken
  <1>d. ranUe \in [RanId -> RanUe] BY Zenon, <1>a, RanUeType
  <1> DEFINE Absent == i \notin RANUePool /\ UNCHANGED <<RANUePool, NGAPIdToIKESPI, ranUe, amf>>
             Gone == /\ RemoveRanUe(i, [ranUe[i] EXCEPT !.UeCtxRelState = FALSE])
                     /\ amf' = [amf EXCEPT ![i].phase = "rel"]
             AmfAsked == /\ ranUe' = [ranUe EXCEPT ![i].UeCtxRelState = TRUE]
                         /\ amf' = [amf EXCEPT ![i].relReq = TRUE]
                         /\ UNCHANGED <<RANUePool, NGAPIdToIKESPI>>
  <1>1. /\ UNCHANGED <<saVars, ikeUp>> /\ ikeEvt' = ikeEvt /\ procUp'
        /\ Absent \/ Gone \/ AmfAsked
    BY Zenon, <1>b, <1>c DEF HandleSendSendUEContextRelease, upVars, NgapEvent
  <1>2. IkeMoves(0, {}) /\ TablesShrink BY Zenon, <1>a, <1>c, <1>1, IkeSame DEF TablesShrink
  <1>3. NgapSide(1, {}) /\ 1 \in Ngap /\ NgapIs(1, "SendUEContextRelease")
    BY Zenon, <1>a, <1>b, <1>1, <1>2, NgapEventSide
  <1>4. /\ \A j \in RanId : amf'[j].phase = amf[j].phase \/ (Gone /\ j = i /\ amf'[j].phase = "rel")
        /\ \A j \in RanId : amf[j].relReq => amf'[j].relReq
    <2>1. CASE Absent BY Zenon, <2>1
    <2>2. CASE Gone
      <3>1. /\ amf'[i].phase = "rel" /\ \A j \in RanId \ {i} : amf'[j] = amf[j]
            /\ \A j \in RanId : amf'[j].relReq = amf[j].relReq
        BY ZenonT(30), <1>a, <1>c, <2>2, AmfSet
      <3> QED BY Zenon, <2>2, <3>1
    <2>3. CASE AmfAsked
      <3>1. /\ amf'[i].phase = amf[i].phase /\ amf'[i].relReq
            /\ \A j \in RanId \ {i} : amf'[j] = amf[j]
        BY Zenon, <1>a, <1>c, <2>3, AmfType
      <3> QED BY Zenon, <3>1
    <2> QED BY Zenon, <1>1, <2>1, <2>2, <2>3
  <1>5. \A j \in RANUePool' \cap RANUePool :
          ranUe[j].IsNASTCPConnEstablished => ranUe'[j].IsNASTCPConnEstablished
    <2>1. RANUePool \subseteq RanId BY Zenon, <1>a DEF TypeOK
    <2>2. CASE Absent BY Zenon, <2>2
    <2>3. CASE Gone
      <3>1. i \notin RANUePool' /\ \A j \in RanId \ {i} : ranUe'[j] = ranUe[j]
        BY Zenon, <1>c, <1>d, <2>3 DEF RemoveRanUe
      <3> QED BY Zenon, <2>1, <3>1
    <2>4. CASE AmfAsked BY Zenon, <1>c, <1>d, <2>1, <2>4 DEF RanUe
    <2> QED BY Zenon, <1>1, <2>2, <2>3, <2>4
  <1>6. Gone => RANUePool' = RANUePool \ {i} BY Zenon DEF RemoveRanUe
  <1>r. ASSUME AmfAsked PROVE amf'[i].relReq
    <2>1. amf' = [amf EXCEPT ![i].relReq = TRUE] BY Zenon, <1>r
    <2> QED BY Zenon, <1>a, <1>c, <2>1, AmfType
  <1>g. ASSUME Gone PROVE amf'[i].phase = "rel"
    <2>1. amf' = [amf EXCEPT ![i].phase = "rel"] BY Zenon, <1>g
    <2> QED BY ZenonT(30), <1>a, <1>c, <2>1, AmfSet
  <1>7. KeyInv'
    <2>1. KeyBeforeAuth' BY Zenon, <1>1 DEF More, KeyInv, KeyBeforeAuth, saVars
    <2>2. \A j \in RanId : amf'[j].phase \in {"none", "ue"} => amf'[j].phase = amf[j].phase
      BY Zenon, <1>4
    <2>3. ASSUME NEW k \in Ngap', NgapIs(k, "SendInitialUEMessage")', amf[ngapEvt'[k].id].phase = "none"
          PROVE  amf'[ngapEvt'[k].id].phase = "none"
      <3>1. k + 1 \in Ngap /\ ngapEvt'[k] = ngapEvt[k + 1]
        BY Zenon, <1>3 DEF NgapSide, NgapMoves
      <3>2. ~ (k + 1 < 1) BY ONLY k \in Ngap' DEF Ngap
      <3>3. NgapIs(k + 1, "SendInitialUEMessage") BY Zenon, <2>3, <3>1 DEF NgapIs
      <3>4. ngapEvt'[k].id # i
        BY ZenonT(30), <1>i, <1>3, <3>1, <3>2, <3>3 DEF More, KeyInv, AnnouncedFirst
      <3>5. ngapEvt'[k].id \in RanId BY Zenon, ValuesNext, <2>3 DEF Values
      <3> QED BY Zenon, <1>4, <2>3, <3>4, <3>5
    <2>4. /\ \A s \in Spi : sa[s].State < PostSignalling => sa'[s].State < PostSignalling
          /\ \A j \in RanId : NGAPIdToIKESPI'[j] \in {None, NGAPIdToIKESPI[j]}
          /\ NgapMoves(1, {}) /\ "SendInitialUEMessage" \notin {} /\ "SendEAPSuccessMsg" \notin {}
      BY Zenon, <1>3 DEF NgapSide
    <2> QED BY Zenon, <1>a, <1>2, <2>1, <2>2, <2>3, <2>4, KeyFrameAnnounced DEF More
  <1>8. NasInv'
    <2>1. \A j \in RanId : amf'[j].phase \in {"ready", "pdu"} => amf[j].phase \in {"ready", "pdu"}
      BY Zenon, <1>4
    <2>2. ~ NgapIs(1, "StartTCPSignalNASMsg") BY Zenon, <1>3 DEF NgapIs
    <2> QED BY <1>a, <1>3, <1>5, <2>1, <2>2, NgapSideNas
  <1>9. ExitInv'
    <2>1. ExitOnlyAfterNasConnection' BY Zenon, <1>1, Running
    <2> QED BY Zenon, <1>a, <1>3, <2>1, NgapSideExit DEF More
  <1>10. ASSUME ReleaseInv PROVE ReleaseInv'
    <2>1. \A j \in RanId : amf'[j].phase \in {"ue", "ics", "ready", "pdu"} => j \in RANUePool'
      <3>1. ASSUME NEW j \in RanId, amf'[j].phase \in {"ue", "ics", "ready", "pdu"}
            PROVE  j \in RANUePool'
        <4>1. amf'[j].phase = amf[j].phase /\ ~ (Gone /\ j = i)
          BY Zenon, <1>g, <1>4, <3>1
        <4>2. j \in RANUePool BY Zenon, <1>10, <3>1, <4>1 DEF ReleaseInv
        <4> QED BY Zenon, <1>1, <1>6, <4>1, <4>2
      <3> QED BY Zenon, <3>1
    <2>2. ASSUME NEW s \in IKEUePool', NEW j \in RanId, IKESPIToNGAPId'[s] = j, amf'[j].phase = "rel"
          PROVE  s \in IKEUePool /\ IKESPIToNGAPId[s] = j /\ amf[j].phase = "rel"
      <3>1. s \in IKEUePool /\ IKESPIToNGAPId[s] = j /\ s \in Spi
        BY ZenonT(30), <1>a, <1>1, <2>2 DEF saVars, TypeOK
      <3>2. j # i BY Zenon, <1>i, <1>3, <1>10, <3>1 DEF ReleaseInv
      <3> QED BY ZenonT(30), <1>4, <2>2, <3>1, <3>2
    <2>3. ASSUME NEW j \in RANUePool', NEW s \in Spi, NGAPIdToIKESPI'[j] = s, s \notin IKESA'
          PROVE  \/ /\ j \in RANUePool /\ NGAPIdToIKESPI[j] = s /\ s \notin IKESA
                    /\ ngapEvt[1].id # j /\ (amf[j].relReq => amf'[j].relReq)
                 \/ amf'[j].relReq
      <3>1. j \in RANUePool /\ j \in RanId BY ZenonT(30), <1>a, <1>1, <1>6, <2>3 DEF TypeOK
      <3>2. NGAPIdToIKESPI[j] = s /\ s \notin IKESA BY Zenon, <1>3, <2>3 DEF NgapSide
      <3>3. j = i => AmfAsked BY Zenon, <1>1, <1>6, <2>3, <3>1
      <3> QED BY ZenonT(30), <1>i, <1>r, <1>4, <3>1, <3>2, <3>3
    <2>4. ikeUp' => ikeUp BY Zenon, <1>1
    <2> HIDE DEF Absent, Gone, AmfAsked
    <2>5. ReleaseEvents(0, 1) BY ONLY <2>2, <2>3, <2>4 DEF ReleaseEvents
    <2> QED BY Zenon, <1>a, <1>3, <1>10, <2>1, <2>5, NgapSideRelease
  <1> QED BY Zenon, <1>7, <1>8, <1>9, <1>10 DEF More

\* The NGAP context the IKE loop asked for: the question goes, the answer comes.
LEMMA ContextMore ==
    ASSUME TableInv, TypeOK', More, HandleGetNGAPContext PROVE More'
  <1>i. PICK i : i = ngapEvt[1].id BY Zenon
  <1>s. PICK s : s = NGAPIdToIKESPI[i] BY Zenon
  <1>a. TypeOK /\ MapsAgree /\ NasInv /\ AskedOnce BY Zenon DEF TableInv, More, ExitInv
  <1>b. NgapEvent("GetNGAPContext") BY Zenon DEF HandleGetNGAPContext
  <1>c. Head(ngapEvt).id = i /\ i \in RanId BY Zenon, <1>a, <1>b, <1>i, NgapTaken
  <1>1. /\ UNCHANGED <<saVars, ikeUp>> /\ UNCHANGED <<RANUePool, NGAPIdToIKESPI>>
        /\ UNCHANGED <<amf, ranUe>> /\ procUp'
        /\ \/ ikeEvt' = ikeEvt
           \/ s # None /\ SendIkeEvt(IkeE("GetNGAPContextResponse", s, i))
    BY Zenon, <1>b, <1>c, <1>s DEF HandleGetNGAPContext, ranVars, upVars, NgapEvent
  <1>u. UNCHANGED sa /\ UNCHANGED NGAPIdToIKESPI BY Zenon, <1>1 DEF saVars
  <1> DEFINE A == {"GetNGAPContextResponse"}
             f == IkeE("GetNGAPContextResponse", s, i)
  <1>2. /\ IkeMoves(0, A) /\ TablesShrink
        /\ \A k \in Ike' : \/ k \in Ike /\ ikeEvt'[k] = ikeEvt[k]
                           \/ k = Len(ikeEvt) + 1 /\ s # None /\ ikeEvt'[k] = f
    <2>1. TablesShrink BY Zenon, <1>1 DEF TablesShrink
    <2>2. CASE ikeEvt' = ikeEvt BY ZenonT(30), <1>a, <2>1, <2>2, IkeSame DEF Ike
    <2>3. CASE s # None /\ SendIkeEvt(f)
      <3>1. s \in Spi BY ZenonT(30), <1>a, <1>c, <1>s, <2>3, MapType
      <3>2. "GetNGAPContextResponse" \in IkeEvtType BY Zenon DEF IkeEvtType
      <3>3. "GetNGAPContextResponse" \in A BY Zenon
      <3> QED BY ZenonT(30), <1>a, <1>c, <2>1, <2>3, <3>1, <3>2, <3>3, IkeAdd
    <2> QED BY Zenon, <1>1, <2>2, <2>3
  <1>f. f.spi = s BY ONLY Zenon, TRUE DEF IkeE
  <1>d. "SendEAPSuccessMsg" \notin A /\ "CreatePDUSession" \notin A BY Zenon
  <1> HIDE DEF A, f
  <1>3. NgapSide(1, A) /\ 1 \in Ngap /\ NgapIs(1, "GetNGAPContext")
    BY ZenonT(30), <1>a, <1>b, <1>1, <1>2, NgapEventSide
  <1>4. KeyInv' BY Zenon, <1>a, <1>d, <1>1, <1>3, NgapSideKey DEF More
  <1>5. NasInv'
    <2>1. ~ NgapIs(1, "StartTCPSignalNASMsg") BY Zenon, <1>3 DEF NgapIs
    <2>2. \A k \in Ike' : ~ (ikeEvt'[k].type \in A /\ IkeIs(k, "CreatePDUSession")')
      BY Zenon, <1>d DEF IkeIs
    <2> QED BY Zenon, <1>a, <1>1, <1>3, <2>1, <2>2, NgapSideNas
  <1>6. AskedOnce'
    <2>n. ASSUME NEW u \in Spi, NEW k \in Ngap', Asking(k, u)'
          PROVE  k + 1 \in Ngap /\ Asking(k + 1, u) /\ k + 1 # 1
      <3>1. k + 1 \in Ngap /\ ngapEvt'[k] = ngapEvt[k + 1] BY Zenon, <1>3 DEF NgapSide, NgapMoves
      <3>2. k + 1 # 1 BY ONLY k \in Ngap' DEF Ngap
      <3> QED BY ZenonT(30), <1>u, <2>n, <3>1, <3>2 DEF Asking, NgapIs
    <2>i. ASSUME NEW u \in Spi, NEW k \in Ike', Answering(k, u)'
          PROVE  \/ k \in Ike /\ Answering(k, u)
                 \/ k = Len(ikeEvt) + 1 /\ u = s
      BY Zenon, <1>2, <1>f, <2>i DEF Answering, IkeIs
    <2>0. \A k \in Ike' : k + 0 = k BY ONLY TRUE DEF Ike
    <2>1. ASSUME NEW u \in Spi, ~ sa'[u].childAsked PROVE AskedOnceAt(u)'
      <3>0. AskedOnceAt(u) BY Zenon, <1>a, <1>u, <2>1 DEF AskedOnce
      <3>1. CASE u # s
        <4>1. \A k \in Ike' : Answering(k, u)' => k + 0 \in Ike /\ Answering(k + 0, u)
          BY Zenon, <2>0, <2>i, <3>1
        <4>2. sa[u].State = EndSignalling => sa'[u].State = EndSignalling BY Zenon, <1>u
        <4>3. \A k \in Ngap' : Asking(k, u)' => k + 1 \in Ngap /\ Asking(k + 1, u) BY Zenon, <2>n
        <4> QED BY Zenon, <1>a, <3>0, <4>1, <4>2, <4>3, AskedFrame
      <3>2. CASE u = s
        <4>1. Asking(1, u) BY Zenon, <1>i, <1>s, <1>3, <3>2 DEF Asking
        <4>2. \A k \in Ngap' : ~ Asking(k, u)' BY Zenon, <1>3, <2>n, <3>0, <4>1 DEF AskedOnceAt
        <4>3. \A k \in Ike' : Answering(k, u)' => k = Len(ikeEvt) + 1
          BY Zenon, <1>3, <2>i, <3>0, <4>1 DEF AskedOnceAt
        <4>4. sa'[u].State = EndSignalling BY Zenon, <1>3, <1>u, <3>0, <4>1 DEF AskedOnceAt
        <4> QED BY Zenon, <4>2, <4>3, <4>4 DEF AskedOnceAt
      <3> QED BY Zenon, <3>1, <3>2
    <2> QED BY Zenon, <2>1 DEF AskedOnce
  <1>7. ExitInv'
    <2>1. ExitOnlyAfterNasConnection' BY Zenon, <1>1, Running
    <2>2. NasAfterChildSa' BY Zenon, <1>a, <1>3, NgapSideNasAfter DEF More, ExitInv
    <2> QED BY Zenon, <1>6, <2>1, <2>2 DEF ExitInv
  <1>8. ASSUME ReleaseInv PROVE ReleaseInv'
    <2>1. ~ NgapIs(1, "SendUEContextRelease") BY Zenon, <1>3 DEF NgapIs
    <2>2. ReleaseEvents(0, 1) BY Zenon, <1>a, <1>1, <2>1, NoRelease
    <2>3. \A j \in RanId : amf'[j].phase \in {"ue", "ics", "ready", "pdu"} => j \in RANUePool'
      BY Zenon, <1>1, <1>8 DEF ReleaseInv
    <2> QED BY Zenon, <1>a, <1>3, <1>8, <2>2, <2>3, NgapSideRelease
  <1> QED BY Zenon, <1>4, <1>5, <1>7, <1>8 DEF More

\* The next RAN-UE-NGAP-ID is known to nobody.
LEMMA FreshId ==
    ASSUME TableInv, NEW i, i = nextRanId, i \in RanId
    PROVE  /\ i \notin RANUePool /\ NGAPIdToIKESPI[i] = None /\ amf[i].phase = "none"
           /\ \A s \in Spi : IKESPIToNGAPId[s] # i
           /\ \A k \in Ngap : ngapEvt[k].type # "UnmarshalEAP5GData" => ngapEvt[k].id # i
  <1>a. TypeOK /\ FreshIds /\ MapsAgree BY Zenon DEF TableInv
  <1>b. ~ (i < i) /\ i # None BY ConstantsAssumption, NoneAssumption DEF RanId
  <1>1. i \notin RANUePool /\ amf[i].phase = "none" BY Zenon, <1>a, <1>b DEF FreshIds
  <1>2. NGAPIdToIKESPI[i] = None BY Zenon, <1>a, <1>1 DEF MapsAgree
  <1>3. \A s \in Spi : IKESPIToNGAPId[s] # i BY Zenon, <1>a, <1>b DEF FreshIds
  <1>4. \A k \in Ngap : ngapEvt[k].type # "UnmarshalEAP5GData" => ngapEvt[k].id # i
    BY Zenon, <1>a, <1>b DEF FreshIds, Asked
  <1> QED BY Zenon, <1>1, <1>2, <1>3, <1>4

\* The first NAS message of a UE makes its RAN UE; or it is refused or dropped.
LEMMA UnmarshalMore ==
    ASSUME TableInv, TypeOK', More, HandleUnmarshalEAP5GData PROVE More'
  <1>i. PICK i : i = nextRanId BY Zenon
  <1>s. PICK s : s = ngapEvt[1].spi BY Zenon
  <1>a. TypeOK /\ MapsAgree /\ NasInv BY Zenon DEF TableInv, More
  <1>b. NgapEvent("UnmarshalEAP5GData") BY Zenon DEF HandleUnmarshalEAP5GData
  <1>c. /\ 1 \in Ngap /\ Head(ngapEvt).spi = s /\ s \in Spi /\ NgapMoves(1, {})
        /\ NgapIs(1, "UnmarshalEAP5GData")
    BY ZenonT(30), <1>a, <1>b, <1>s, NgapTaken, NgapTake, Basics DEF NgapIs
  <1>d. UNCHANGED <<saVars, NGAPIdToIKESPI, ikeUp, amf>> /\ procUp'
    BY Zenon, <1>b DEF HandleUnmarshalEAP5GData, upVars, NgapEvent
  <1>e. ExitOnlyAfterNasConnection' BY Zenon, <1>d, Running
  <1>1. ASSUME UNCHANGED ranVars,
               ikeEvt' = ikeEvt \/ SendIkeEvt(IkeE("SendEAP5GFailureMsg", s, 0))
        PROVE  More'
    <2>1. 0 \in RanId BY ConstantsAssumption DEF RanId
    <2>2. IkeMoves(0, QuietIke) BY ZenonT(30), <1>a, <1>c, <1>1, <2>1, IkeSame, QuietIkeSent DEF QuietIke
    <2>3. UNCHANGED Tables /\ sa' = sa /\ ranUe' = ranUe BY Zenon, <1>d, <1>1 DEF saVars, ranVars, Tables
    <2>4. AmfQuiet /\ RanQuiet BY Zenon, <1>d, <2>3, AmfSame, RanSame
    <2>5. \E t : NgapEvent(t) /\ t # "SendUEContextRelease" /\ t # "StartTCPSignalNASMsg"
      BY ZenonT(30), <1>b
    <2> QED BY Zenon, <1>a, <1>e, <2>2, <2>3, <2>4, <2>5, QuietNgapStep
  <1>2. ASSUME nextRanId <= MaxRanId, RANUePool' = RANUePool \cup {i},
               ranUe' = [ranUe EXCEPT ![i] = NewRanUe],
               SendIkeEvt(IkeE("UnmarshalEAP5GDataResponse", s, i))
        PROVE  More'
    <2>1. i \in RanId BY <1>a, <1>i, <1>2, Basics, ConstantsAssumption DEF RanId
    <2>2. /\ i \notin RANUePool /\ NGAPIdToIKESPI[i] = None /\ amf[i].phase = "none"
          /\ \A u \in Spi : IKESPIToNGAPId[u] # i
          /\ \A k \in Ngap : ngapEvt[k].type # "UnmarshalEAP5GData" => ngapEvt[k].id # i
      BY Zenon, <1>i, <2>1, FreshId
    <2> DEFINE A == {"UnmarshalEAP5GDataResponse"}
    <2>3. IkeMoves(0, A)
      <3>1. "UnmarshalEAP5GDataResponse" \in IkeEvtType /\ "UnmarshalEAP5GDataResponse" \in A
        BY Zenon DEF IkeEvtType
      <3> QED BY ZenonT(30), <1>a, <1>c, <1>2, <2>1, <3>1, IkeAdd
    <2>d. /\ "SendEAPSuccessMsg" \notin A /\ "CreatePDUSession" \notin A
          /\ "GetNGAPContextResponse" \notin A
      BY Zenon
    <2> HIDE DEF A
    <2>4. PoolGrows
      <3>1. amf'[i].phase = "none" /\ \A u \in Spi : IKESPIToNGAPId'[u] # i
        BY Zenon, <1>d, <2>2 DEF saVars
      <3>0. ASSUME NEW k \in Ngap' PROVE k + 1 \in Ngap /\ ngapEvt'[k] = ngapEvt[k + 1]
        BY Zenon, <1>c DEF NgapMoves
      <3>2. \A k \in Ngap' : ngapEvt'[k].type # "UnmarshalEAP5GData" => ngapEvt'[k].id # i
        BY Zenon, <2>2, <3>0
      <3> QED BY Zenon, <1>2, <3>1, <3>2 DEF PoolGrows
    <2>5. NgapSide(1, A)
      BY Zenon, <1>c, <1>d, <2>3, <2>4 DEF NgapSide, saVars
    <2>6. \A j \in RANUePool' \cap RANUePool : ranUe'[j] = ranUe[j]
      <3>1. RANUePool \subseteq RanId /\ ranUe \in [RanId -> RanUe] BY ZenonT(30), <1>a, RanUeType DEF TypeOK
      <3>2. \A j \in RanId \ {i} : ranUe'[j] = ranUe[j] BY Zenon, <1>2, <2>1, <3>1
      <3> QED BY ZenonT(30), <2>2, <3>1, <3>2
    <2>7. KeyInv' BY Zenon, <1>a, <1>d, <2>d, <2>5, NgapSideKey DEF More
    <2>8. NasInv'
      <3>1. ~ NgapIs(1, "StartTCPSignalNASMsg") BY Zenon, <1>c DEF NgapIs
      <3>2. \A k \in Ike' : ~ (ikeEvt'[k].type \in A /\ IkeIs(k, "CreatePDUSession")')
        BY Zenon, <2>d DEF IkeIs
      <3> QED BY Zenon, <1>a, <1>d, <2>5, <2>6, <3>1, <3>2, NgapSideNas
    <2>9. ExitInv' BY Zenon, <1>a, <1>e, <2>d, <2>5, NgapSideExit DEF More
    <2>10. ASSUME ReleaseInv PROVE ReleaseInv'
      <3>1. \A j \in RanId : amf'[j].phase \in {"ue", "ics", "ready", "pdu"} => j \in RANUePool'
        BY Zenon, <1>d, <1>2, <2>10 DEF ReleaseInv
      <3>2. ReleaseEvents(0, 1)
        <4>0. UNCHANGED <<IKESA, IKEUePool, IKESPIToNGAPId, NGAPIdToIKESPI, ikeUp, amf>>
          BY Zenon, <1>d DEF saVars
        <4>1. ~ NgapIs(1, "SendUEContextRelease") /\ 0 # 1 BY <1>c DEF NgapIs
        <4>2. \A j \in RANUePool' : NGAPIdToIKESPI[j] # None => j \in RANUePool BY Zenon, <1>2, <2>2
        <4>3. None \notin Spi BY Zenon, NoneNotSpi
        <4> QED BY Zenon, <4>0, <4>1, <4>2, <4>3 DEF ReleaseEvents
      <3> QED BY Zenon, <1>a, <2>5, <2>10, <3>1, <3>2, NgapSideRelease
    <2> QED BY Zenon, <2>7, <2>8, <2>9, <2>10 DEF More
  <1> QED BY ZenonT(30), <1>b, <1>c, <1>i, <1>1, <1>2 DEF HandleUnmarshalEAP5GData

\* A RAN UE gets its sessions to set up.
LEMMA RanSessions ==
    ASSUME TypeOK, NEW i \in RanId, NEW n, NEW c,
           \/ ranUe' = ranUe
           \/ ranUe' = [ranUe EXCEPT ![i].Index = 0, ![i].UnactivatedPDUSession = n]
           \/ ranUe' = [ranUe EXCEPT ![i] = [ranUe[i] EXCEPT !.Index = 0, !.UnactivatedPDUSession = n]]
           \/ ranUe' = [ranUe EXCEPT ![i] = c]
              /\ c.IsNASTCPConnEstablished = ranUe[i].IsNASTCPConnEstablished
    PROVE  \A j \in RanId : ranUe'[j].IsNASTCPConnEstablished = ranUe[j].IsNASTCPConnEstablished
  <1>1. ranUe \in [RanId -> RanUe] /\ ranUe[i] \in RanUe BY Zenon, RanUeType
  <1> QED BY Zenon, <1>1 DEF RanUe

\* What a message of the AMF that leaves the tables alone and moves one RAN UE on does.
LEMMA MessageMore ==
    ASSUME TypeOK, TypeOK', MapsAgree, More, NEW A, IkeMoves(0, A), KeyInv',
           "GetNGAPContextResponse" \notin A,
           \A k \in Ike' : ikeEvt'[k].type \in A /\ IkeIs(k, "CreatePDUSession")' =>
             Signalled(ikeEvt'[k].spi),
           UNCHANGED <<saVars, NGAPIdToIKESPI, RANUePool, ngapEvt, ikeUp>>, procUp',
           \A j \in RanId : ranUe'[j].IsNASTCPConnEstablished = ranUe[j].IsNASTCPConnEstablished,
           NEW i \in RanId, amf[i].phase = "ue" \/ amf[i].phase = "ready",
           NEW p, p = "ics" \/ (p = "pdu" /\ amf[i].phase = "ready"),
           amf' = [amf EXCEPT ![i].phase = p]
    PROVE  More'
  <1>0. TablesShrink BY Zenon DEF TablesShrink
  <1>1. NgapSide(0, A) BY Zenon, <1>0, NgapMessageSide
  <1>2. /\ amf'[i].phase = p /\ \A j \in RanId \ {i} : amf'[j] = amf[j]
        /\ \A j \in RanId : amf'[j].relReq = amf[j].relReq
    BY Zenon, AmfSet
  <1>3. \A j \in RanId : \/ amf'[j].phase = amf[j].phase
                         \/ j = i /\ amf'[j].phase = p
    BY Zenon, <1>2
  <1>4. 0 # 1 OBVIOUS
  <1>5. NasInv'
    <2>1. \A j \in RanId : amf'[j].phase \in {"ready", "pdu"} => amf[j].phase \in {"ready", "pdu"}
      BY ZenonT(30), <1>2, <1>3
    <2>2. \A j \in RANUePool' \cap RANUePool :
            ranUe[j].IsNASTCPConnEstablished => ranUe'[j].IsNASTCPConnEstablished
      BY Zenon DEF TypeOK
    <2> QED BY Zenon, <1>1, <1>4, <2>1, <2>2, NgapSideNas DEF More
  <1>6. ExitInv'
    <2>1. ExitOnlyAfterNasConnection' BY Zenon, Running
    <2> QED BY Zenon, <1>1, <2>1, NgapSideExit DEF More
  <1>7. ASSUME ReleaseInv PROVE ReleaseInv'
    <2>1. \A j \in RanId : /\ amf'[j].phase = "rel" => amf[j].phase = "rel"
                           /\ amf[j].relReq => amf'[j].relReq
      BY Zenon, <1>2, <1>3
    <2>2. ReleaseEvents(0, 0) BY Zenon, <1>4, <2>1, NoRelease
    <2>3. \A j \in RanId : amf'[j].phase \in {"ue", "ics", "ready", "pdu"} => j \in RANUePool'
      BY ZenonT(30), <1>2, <1>3, <1>7 DEF ReleaseInv
    <2> QED BY Zenon, <1>1, <1>7, <2>2, <2>3, NgapSideRelease
  <1> QED BY Zenon, <1>5, <1>6, <1>7 DEF More

\* The initial context setup sends the UE the one EAP-Success of its association.
LEMMA ContextSetupMore ==
    ASSUME TableInv, TypeOK', More, NEW i \in RanId, HandleInitialContextSetupRequest(i)
    PROVE  More'
  <1>s. PICK s : s = NGAPIdToIKESPI[i] BY Zenon
  <1>a. /\ TypeOK /\ MapsAgree /\ OneMapping
        /\ KeyBeforeAuth /\ AnnouncedOnce /\ AnnouncedFirst /\ OneSuccess
    BY Zenon DEF TableInv, More, KeyInv
  <1>1. /\ UNCHANGED <<saVars, NGAPIdToIKESPI, RANUePool, ngapEvt, ikeUp>> /\ procUp'
        /\ amf[i].phase = "ue" /\ amf' = [amf EXCEPT ![i].phase = "ics"]
        /\ \/ ikeEvt' = ikeEvt
           \/ s # None /\ SendIkeEvt(IkeE("SendEAPSuccessMsg", s, i))
        /\ \/ ranUe' = ranUe
           \/ \E n \in 0..MaxSess :
                ranUe' = [ranUe EXCEPT ![i].Index = 0, ![i].UnactivatedPDUSession = n]
    BY Zenon, <1>s DEF HandleInitialContextSetupRequest, AmfSends, upVars
  <1> DEFINE A == {"SendEAPSuccessMsg"}
             f == IkeE("SendEAPSuccessMsg", s, i)
  <1>2. /\ IkeMoves(0, A)
        /\ \A k \in Ike' : \/ k \in Ike /\ ikeEvt'[k] = ikeEvt[k]
                           \/ k = Len(ikeEvt) + 1 /\ s # None /\ ikeEvt'[k] = f
    <2>1. CASE ikeEvt' = ikeEvt BY Zenon, <1>a, <2>1, IkeSame DEF Ike
    <2>2. CASE s # None /\ SendIkeEvt(f)
      <3>1. s \in Spi BY Zenon, <1>a, <1>s, <2>2, MapType
      <3>2. "SendEAPSuccessMsg" \in IkeEvtType /\ "SendEAPSuccessMsg" \in A BY Zenon DEF IkeEvtType
      <3> QED BY ZenonT(30), <1>a, <2>2, <3>1, <3>2, IkeAdd
    <2> QED BY Zenon, <1>1, <2>1, <2>2
  <1>f. f.spi = s BY ONLY Zenon, TRUE DEF IkeE
  <1>d. "GetNGAPContextResponse" \notin A /\ "CreatePDUSession" \notin A BY Zenon
  <1> HIDE DEF A, f
  <1>3. \A j \in RanId : ranUe'[j].IsNASTCPConnEstablished = ranUe[j].IsNASTCPConnEstablished
    BY Zenon, <1>a, <1>1, RanSessions
  <1>4. amf'[i].phase = "ics" /\ \A j \in RanId \ {i} : amf'[j] = amf[j] BY Zenon, <1>a, <1>1, AmfSet
  <1>u. sa' = sa /\ NGAPIdToIKESPI' = NGAPIdToIKESPI /\ ngapEvt' = ngapEvt BY Zenon, <1>1 DEF saVars
  <1>5. AnnouncedOnce'
    <2>1. ASSUME NEW k \in Ngap, NgapIs(k, "SendInitialUEMessage") PROVE amf'[ngapEvt[k].id].phase = "none"
      <3>1. ngapEvt[k].id \in RanId BY Zenon, <1>a, TypeGivesValues DEF Values
      <3>2. amf[ngapEvt[k].id].phase = "none" /\ ngapEvt[k].id # i
        BY ZenonT(30), <1>a, <1>1, <2>1 DEF AnnouncedOnce
      <3> QED BY Zenon, <1>4, <3>1, <3>2
    <2> QED BY Zenon, <1>a, <1>u, <2>1 DEF AnnouncedOnce, Ngap, NgapIs
  <1>6. OneSuccess'
    <2>0. s # None => /\ sa[s].State < PostSignalling
                      /\ \A k \in Ike : IkeIs(k, "SendEAPSuccessMsg") => ikeEvt[k].spi # s
      BY Zenon, <1>a, <1>s, <1>1 DEF OneSuccess
    <2>1. ASSUME NEW k \in Ike', IkeIs(k, "SendEAPSuccessMsg")'
          PROVE  \/ k \in Ike /\ IkeIs(k, "SendEAPSuccessMsg") /\ ikeEvt'[k].spi = ikeEvt[k].spi
                 \/ k = Len(ikeEvt) + 1 /\ s # None /\ ikeEvt'[k].spi = s
      BY Zenon, <1>2, <1>f, <2>1 DEF IkeIs
    <2>2. \A k \in Ike' : IkeIs(k, "SendEAPSuccessMsg")' => sa'[ikeEvt'[k].spi].State < PostSignalling
      BY Zenon, <1>a, <1>u, <2>0, <2>1 DEF OneSuccess
    <2>3. ASSUME NEW k \in Ike', NEW l \in Ike', IkeIs(k, "SendEAPSuccessMsg")',
                 IkeIs(l, "SendEAPSuccessMsg")', ikeEvt'[k].spi = ikeEvt'[l].spi
          PROVE  k = l
      BY Zenon, <1>a, <2>0, <2>1, <2>3 DEF OneSuccess
    <2>4. ASSUME NEW j \in RanId, NGAPIdToIKESPI'[j] # None, amf'[j].phase \in {"none", "ue"}
          PROVE  /\ sa'[NGAPIdToIKESPI'[j]].State < PostSignalling
                 /\ \A k \in Ike' : IkeIs(k, "SendEAPSuccessMsg")' => ikeEvt'[k].spi # NGAPIdToIKESPI'[j]
      <3>1. j # i /\ amf[j].phase \in {"none", "ue"} BY Zenon, <1>4, <2>4
      <3>2. s # NGAPIdToIKESPI[j] BY ZenonT(30), <1>a, <1>s, <1>u, <2>4, <3>1 DEF OneMapping
      <3>3. /\ sa[NGAPIdToIKESPI[j]].State < PostSignalling
            /\ \A k \in Ike : IkeIs(k, "SendEAPSuccessMsg") => ikeEvt[k].spi # NGAPIdToIKESPI[j]
        BY ZenonT(30), <1>a, <1>u, <2>4, <3>1 DEF OneSuccess
      <3> QED BY Zenon, <1>u, <2>1, <3>2, <3>3
    <2> QED BY Zenon, <2>2, <2>3, <2>4 DEF OneSuccess
  <1>7. KeyInv'
    <2>1. KeyBeforeAuth' BY Zenon, <1>a, <1>1 DEF KeyBeforeAuth, saVars
    <2>2. AnnouncedFirst' BY Zenon, <1>a, <1>u DEF AnnouncedFirst, Ngap, NgapIs
    <2> QED BY ZenonT(30), <1>5, <1>6, <2>1, <2>2 DEF KeyInv
  <1>8. \A k \in Ike' : ~ (ikeEvt'[k].type \in A /\ IkeIs(k, "CreatePDUSession")')
    BY Zenon, <1>d DEF IkeIs
  <1> QED BY Zenon, <1>a, <1>d, <1>1, <1>2, <1>3, <1>7, <1>8, MessageMore

\* A PDU session is asked for over an association past the signalling.
LEMMA SessionSetupMore ==
    ASSUME TableInv, TypeOK', More, NEW i \in RanId, HandlePDUSessionResourceSetupRequest(i)
    PROVE  More'
  <1>s. PICK s : s = NGAPIdToIKESPI[i] BY Zenon
  <1>a. TypeOK /\ MapsAgree /\ NasInv BY Zenon DEF TableInv, More
  <1>r. ranUe[i] \in RanUe BY Zenon, <1>a, RanUeType
  <1>1. PICK n, c :
        /\ UNCHANGED <<saVars, NGAPIdToIKESPI, RANUePool, ngapEvt, ikeUp>> /\ procUp'
        /\ amf[i].phase = "ready" /\ amf' = [amf EXCEPT ![i].phase = "pdu"]
        /\ \/ ikeEvt' = ikeEvt
           \/ s # None /\ SendIkeEvt(IkeE("CreatePDUSession", s, i))
        /\ \/ ranUe' = ranUe
           \/ ranUe' = [ranUe EXCEPT ![i] = [ranUe[i] EXCEPT !.Index = 0, !.UnactivatedPDUSession = n]]
           \/ ranUe' = [ranUe EXCEPT ![i] = c]
              /\ c.IsNASTCPConnEstablished = ranUe[i].IsNASTCPConnEstablished
    <2>1. PICK n \in 0..MaxSess :
          \/ UNCHANGED <<ranUe, ikeEvt>>
          \/ /\ ranUe' = [ranUe EXCEPT ![i] = [ranUe[i] EXCEPT !.Index = 0, !.UnactivatedPDUSession = n]]
             /\ UNCHANGED ikeEvt
          \/ /\ ranUe' = [ranUe EXCEPT ![i] =
                            [[ranUe[i] EXCEPT !.Index = 0, !.UnactivatedPDUSession = n]
                              EXCEPT !.TemporaryCachedNASMessage = TRUE]]
             /\ s # None /\ SendIkeEvt(IkeE("CreatePDUSession", s, i))
      BY Zenon, <1>s DEF HandlePDUSessionResourceSetupRequest
    <2>2. PICK c : c = [[ranUe[i] EXCEPT !.Index = 0, !.UnactivatedPDUSession = n]
                          EXCEPT !.TemporaryCachedNASMessage = TRUE]
      BY Zenon
    <2>3. c.IsNASTCPConnEstablished = ranUe[i].IsNASTCPConnEstablished BY Zenon, <1>r, <2>2 DEF RanUe
    <2>4. /\ UNCHANGED <<saVars, NGAPIdToIKESPI, RANUePool, ngapEvt, ikeUp>> /\ procUp'
          /\ amf[i].phase = "ready" /\ amf' = [amf EXCEPT ![i].phase = "pdu"]
      BY Zenon DEF HandlePDUSessionResourceSetupRequest, AmfSends, upVars
    <2> QED BY Zenon, <2>1, <2>2, <2>3, <2>4
  <1> DEFINE A == {"CreatePDUSession"}
             f == IkeE("CreatePDUSession", s, i)
  <1>2. /\ IkeMoves(0, A)
        /\ \A k \in Ike' : \/ k \in Ike /\ ikeEvt'[k] = ikeEvt[k]
                           \/ s # None /\ ikeEvt'[k] = f
    <2>1. CASE ikeEvt' = ikeEvt BY Zenon, <1>a, <2>1, IkeSame DEF Ike
    <2>2. CASE s # None /\ SendIkeEvt(f)
      <3>1. s \in Spi BY Zenon, <1>a, <1>s, <2>2, MapType
      <3>2. "CreatePDUSession" \in IkeEvtType /\ "CreatePDUSession" \in A BY Zenon DEF IkeEvtType
      <3> QED BY ZenonT(30), <1>a, <2>2, <3>1, <3>2, IkeAdd
    <2> QED BY Zenon, <1>1, <2>1, <2>2
  <1>f. f.spi = s BY ONLY Zenon, TRUE DEF IkeE
  <1>d. "GetNGAPContextResponse" \notin A /\ "SendEAPSuccessMsg" \notin A BY Zenon
  <1> HIDE DEF A, f
  <1>3. \A j \in RanId : ranUe'[j].IsNASTCPConnEstablished = ranUe[j].IsNASTCPConnEstablished
    BY Zenon, <1>a, <1>1, RanSessions
  <1>4. amf'[i].phase = "pdu" /\ \A j \in RanId \ {i} : amf'[j] = amf[j] BY Zenon, <1>a, <1>1, AmfSet
  <1>5. \A k \in Ike' : IkeIs(k, "CreatePDUSession")' => Signalled(ikeEvt'[k].spi)
    <2>1. s # None => Signalled(s) BY Zenon, <1>a, <1>s, <1>1 DEF NasInv
    <2> QED BY ZenonT(30), <1>a, <1>2, <1>f, <2>1 DEF NasInv, IkeIs
  <1>6. KeyInv'
    <2>1. TablesShrink BY Zenon, <1>1 DEF TablesShrink
    <2>2. NgapSide(0, A) BY ZenonT(30), <1>a, <1>1, <1>2, <2>1, NgapMessageSide
    <2>3. \A j \in RanId : amf'[j].phase \in {"none", "ue"} => amf'[j].phase = amf[j].phase
      BY Zenon, <1>4
    <2>4. \A j \in RanId : amf[j].phase = "none" => amf'[j].phase = "none" BY Zenon, <1>1, <1>4
    <2> QED BY Zenon, <1>a, <1>d, <2>2, <2>3, <2>4, NgapSideKey DEF More
  <1> QED BY Zenon, <1>a, <1>d, <1>1, <1>2, <1>3, <1>5, <1>6, MessageMore

\* The AMF ends its context of a RAN UE, which is removed; after a release the order to
\* delete its association is on its way.
LEMMA RemovedMore ==
    ASSUME TableInv, TypeOK', More, NEW i \in RanId, NEW r, NEW p, p = "rel" \/ p = "reset",
           amf[i].phase \in {"ue", "ics", "ready", "pdu"}, amf' = [amf EXCEPT ![i].phase = p],
           \/ i \notin RANUePool /\ UNCHANGED <<RANUePool, NGAPIdToIKESPI, ranUe>>
           \/ RemoveRanUe(i, r),
           UNCHANGED <<saVars, ngapEvt, ikeUp>>, procUp', IkeMoves(0, {"IKEDeleteRequest"}),
           NEW q, q = NGAPIdToIKESPI[i],
           p = "rel" /\ ikeUp /\ i \in RANUePool /\ q # None => IkePending("IKEDeleteRequest", q)'
    PROVE  More'
  <1>a. TypeOK /\ MapsAgree /\ RANUePool \subseteq RanId BY Zenon DEF TableInv, TypeOK
  <1> DEFINE A == {"IKEDeleteRequest"}
  <1>d. /\ "SendEAPSuccessMsg" \notin A /\ "CreatePDUSession" \notin A
        /\ "GetNGAPContextResponse" \notin A
    BY Zenon
  <1>0. IkeMoves(0, A) BY Zenon
  <1> HIDE DEF A
  <1>1. TablesShrink BY Zenon DEF TablesShrink
  <1>2. NgapSide(0, A) BY ZenonT(30), <1>a, <1>0, <1>1, NgapMessageSide
  <1>3. /\ amf'[i].phase = p /\ \A j \in RanId \ {i} : amf'[j] = amf[j]
        /\ \A j \in RanId : amf'[j].relReq = amf[j].relReq
    BY Zenon, <1>a, AmfSet
  <1>4. RANUePool' = RANUePool \ {i} BY Zenon DEF RemoveRanUe
  <1>5. \A j \in RANUePool' : ranUe'[j] = ranUe[j]
    <2>1. ranUe \in [RanId -> RanUe] BY Zenon, <1>a, RanUeType
    <2>2. ASSUME RemoveRanUe(i, r) PROVE \A j \in RanId \ {i} : ranUe'[j] = ranUe[j]
      BY Zenon, <2>1, <2>2 DEF RemoveRanUe
    <2> QED BY Zenon, <1>a, <1>4, <2>2
  <1>6. KeyInv'
    <2>1. \A j \in RanId : amf'[j].phase \in {"none", "ue"} => amf'[j].phase = amf[j].phase
      BY Zenon, <1>3
    <2>2. \A j \in RanId : amf[j].phase = "none" => amf'[j].phase = "none" BY Zenon, <1>3
    <2> QED BY Zenon, <1>a, <1>d, <1>2, <2>1, <2>2, NgapSideKey DEF More
  <1>7. NasInv'
    <2>1. \A j \in RanId : amf'[j].phase \in {"ready", "pdu"} => amf[j].phase \in {"ready", "pdu"}
      BY Zenon, <1>3
    <2>2. \A k \in Ike' : ~ (ikeEvt'[k].type \in A /\ IkeIs(k, "CreatePDUSession")')
      BY Zenon, <1>d DEF IkeIs
    <2>3. 0 # 1 OBVIOUS
    <2> QED BY Zenon, <1>a, <1>2, <1>5, <2>1, <2>2, <2>3, NgapSideNas DEF More
  <1>8. ExitInv'
    <2>1. ExitOnlyAfterNasConnection' BY Zenon, Running
    <2> QED BY Zenon, <1>a, <1>d, <1>2, <2>1, NgapSideExit DEF More
  <1>9. ASSUME ReleaseInv PROVE ReleaseInv'
    <2>0. i \in RANUePool BY Zenon, <1>9 DEF ReleaseInv
    <2>1. \A j \in RanId : amf'[j].phase \in {"ue", "ics", "ready", "pdu"} => j \in RANUePool'
      BY Zenon, <1>3, <1>4, <1>9 DEF ReleaseInv
    <2>2. ASSUME NEW s \in IKEUePool', NEW j \in RanId, ikeUp', IKESPIToNGAPId'[s] = j,
                 amf'[j].phase = "rel"
          PROVE  \/ s \in IKEUePool /\ IKESPIToNGAPId[s] = j /\ amf[j].phase = "rel"
                 \/ IkePending("IKEDeleteRequest", s)'
      <3>1. s \in IKEUePool /\ IKESPIToNGAPId[s] = j /\ s \in Spi /\ ikeUp
        BY ZenonT(30), <1>a, <2>2 DEF saVars, TypeOK
      <3>2. CASE j # i BY ZenonT(30), <1>3, <2>2, <3>1, <3>2
      <3>3. CASE j = i
        <4>0. IKESPIToNGAPId[s] = i /\ IKESPIToNGAPId[s] \in RANUePool BY Zenon, <2>0, <3>1, <3>3
        <4>1. NGAPIdToIKESPI[i] = s
          <5>1. NGAPIdToIKESPI[IKESPIToNGAPId[s]] = s BY ZenonT(30), <1>a, <3>1, <4>0 DEF MapsAgree
          <5> QED BY Zenon, <4>0, <5>1
        <4>2. p = "rel" /\ s # None BY ZenonT(30), <1>3, <2>2, <3>1, <3>3, NoneNotSpi
        <4>3. IkePending("IKEDeleteRequest", q)' BY ZenonT(30), <2>0, <3>1, <4>1, <4>2
        <4>4. q = s BY Zenon, <4>1
        <4> QED BY Zenon, <4>3, <4>4 DEF IkePending
      <3> QED BY ZenonT(30), <3>2, <3>3
    <2>3. ASSUME NEW j \in RANUePool', NEW s \in Spi, NGAPIdToIKESPI'[j] = s, s \notin IKESA'
          PROVE  /\ j \in RANUePool /\ NGAPIdToIKESPI[j] = s /\ s \notin IKESA
                 /\ amf[j].relReq => amf'[j].relReq
      BY ZenonT(30), <1>a, <1>2, <1>3, <1>4, <2>3 DEF NgapSide
    <2>4. ikeUp' => ikeUp BY Zenon
    <2>5. ReleaseEvents(0, 0) BY ONLY <2>2, <2>3, <2>4 DEF ReleaseEvents
    <2> QED BY Zenon, <1>a, <1>2, <1>9, <2>1, <2>5, NgapSideRelease
  <1> QED BY ZenonT(30), <1>6, <1>7, <1>8, <1>9 DEF More

\* A release by the AMF, and a reset.
LEMMA ReleasedMore ==
    ASSUME TableInv, TypeOK', More, NEW i \in RanId,
           HandleUEContextReleaseCommand(i) \/ HandleNGReset(i)
    PROVE  More'
  <1>s. PICK s : s = NGAPIdToIKESPI[i] BY Zenon
  <1>a. TypeOK BY Zenon DEF TableInv
  <1>1. CASE HandleUEContextReleaseCommand(i)
    <2>r. PICK r : r = [ranUe[i] EXCEPT !.UeCtxRelState = TRUE] BY Zenon
    <2>1. /\ amf[i].phase \in {"ue", "ics", "ready", "pdu"} /\ amf' = [amf EXCEPT ![i].phase = "rel"]
          /\ UNCHANGED <<saVars, ngapEvt, ikeUp>> /\ procUp'
          /\ \/ /\ i \notin RANUePool /\ UNCHANGED <<RANUePool, NGAPIdToIKESPI, ranUe>>
                /\ ikeEvt' = ikeEvt
             \/ /\ RemoveRanUe(i, r)
                /\ \/ s = None /\ ikeEvt' = ikeEvt
                   \/ s # None /\ SendIkeEvt(IkeE("IKEDeleteRequest", s, i))
      BY Zenon, <1>1, <1>s, <2>r DEF HandleUEContextReleaseCommand, AmfSends, upVars
    <2>2. /\ IkeMoves(0, {"IKEDeleteRequest"})
          /\ ikeUp /\ i \in RANUePool /\ s # None => IkePending("IKEDeleteRequest", s)'
      <3>1. CASE ikeEvt' = ikeEvt /\ (i \notin RANUePool \/ s = None) BY Zenon, <1>a, <3>1, IkeSame
      <3>2. CASE s # None /\ SendIkeEvt(IkeE("IKEDeleteRequest", s, i))
        <4>1. s \in Spi BY Zenon, <1>a, <1>s, <3>2, MapType
        <4>2. "IKEDeleteRequest" \in IkeEvtType BY Zenon DEF IkeEvtType
        <4>3. "IKEDeleteRequest" \in {"IKEDeleteRequest"} BY Zenon
        <4> QED BY ZenonT(30), <1>a, <3>2, <4>1, <4>2, <4>3, IkeAdd
      <3> QED BY Zenon, <2>1, <3>1, <3>2
    <2> QED BY Zenon, <1>s, <2>1, <2>2, RemovedMore
  <1>2. CASE HandleNGReset(i)
    <2>r. PICK r : r = ranUe[i] BY Zenon
    <2>1. /\ amf[i].phase \in {"ue", "ics", "ready", "pdu"} /\ amf' = [amf EXCEPT ![i].phase = "reset"]
          /\ UNCHANGED <<saVars, ngapEvt, ikeUp>> /\ procUp' /\ RemoveRanUe(i, r) /\ ikeEvt' = ikeEvt
      BY Zenon, <1>2, <2>r DEF HandleNGReset, AmfSends, upVars, evtVars
    <2>2. IkeMoves(0, {"IKEDeleteRequest"}) BY Zenon, <1>a, <2>1, IkeSame
    <2>3. "reset" # "rel" BY Zenon
    <2> QED BY ZenonT(30), <1>s, <2>1, <2>2, <2>3, RemovedMore
  <1> QED BY Zenon, <1>1, <1>2

-----------------------------------------------------------------------------
(* The whole invariant.                                                    *)

\* The handlers of the NGAP loop preserve it.
LEMMA NgapLoopMore ==
    ASSUME TableInv, TypeOK', More, NgapHandleEvent \/ NgapMessage PROVE More'
  <1>1. CASE NgapHandleEvent
    BY ZenonT(30), <1>1, UnmarshalMore, InitialMore, ReadyMore, NasSentMore, StartMore, RequestMore,
       ReleaseMore, ContextMore DEF NgapHandleEvent
  <1>2. CASE NgapMessage
    <2>1. PICK i \in RanId :
          \/ HandleDownlinkNASTransport(i) \/ HandleInitialContextSetupRequest(i)
          \/ HandleUEContextModificationRequest(i)
          \/ HandlePDUSessionResourceSetupRequest(i)
          \/ HandleUEContextReleaseCommand(i) \/ HandleNGReset(i)
      BY Zenon, <1>2 DEF NgapMessage
    <2> QED BY ZenonT(30), <2>1, DownlinkMore, ContextSetupMore, RequestMore, SessionSetupMore, ReleasedMore
  <1> QED BY Zenon, <1>1, <1>2

\* It holds initially.
LEMMA InitMore == ASSUME Init PROVE More
  <1>a. TypeOK BY Zenon, InitTypeOK
  <1>1. /\ IKEUePool = {} /\ RANUePool = {} /\ ikeEvt = <<>> /\ ngapEvt = <<>> /\ procUp
        /\ IKESA = {} /\ sa = [s \in Spi |-> NewSa] /\ IKESPIToNGAPId = [s \in Spi |-> None]
        /\ NGAPIdToIKESPI = [i \in RanId |-> None]
        /\ \A i \in RanId : amf[i].phase = "none"
    BY Zenon DEF Init
  <1>2. Ike = {} /\ Ngap = {} BY ONLY <1>1 DEF Ike, Ngap
  <1>3. \A s \in Spi : sa[s] = NewSa /\ IKESPIToNGAPId[s] = None BY Zenon, <1>1
  <1>4. \A i \in RanId : NGAPIdToIKESPI[i] = None BY Zenon, <1>1
  <1>5. KeyInv
    <2>1. KeyBeforeAuth BY Zenon, <1>1, <1>3 DEF KeyBeforeAuth, NewSa
    <2> QED BY Zenon, <1>2, <1>4, <2>1 DEF KeyInv, AnnouncedOnce, AnnouncedFirst, OneSuccess
  <1>6. NasInv
    <2>1. NoEapAfterContextSetup BY Zenon, <1>1 DEF NoEapAfterContextSetup
    <2> QED BY Zenon, <1>1, <1>2, <1>4, <2>1 DEF NasInv
  <1>7. ExitInv
    <2>1. ExitOnlyAfterNasConnection BY Zenon, <1>1 DEF ExitOnlyAfterNasConnection
    <2> QED BY Zenon, <1>2, <2>1 DEF ExitInv, AskedOnce, AskedOnceAt, NasAfterChildSa
  <1>8. ReleaseInv
    <2>1. NoHalfReleasedUe BY Zenon, <1>1 DEF NoHalfReleasedUe
    <2> QED BY Zenon, <1>1, <1>2, <2>1 DEF ReleaseInv
  <1> QED BY Zenon, <1>5, <1>6, <1>7, <1>8 DEF More

\* The invariant is inductive.
LEMMA InductiveMore == TableInv /\ More /\ [Next]_vars => More'
  <1> SUFFICES ASSUME TableInv, More, [Next]_vars PROVE More' BY Zenon
  <1>1. TypeOK' BY Zenon, NextTypeOK DEF TableInv
  <1> QED BY ZenonT(30), <1>1, IkeLoopMore, NgapLoopMore, GoroutineMore, OutsideMore DEF Next

\* The invariant holds in every state, for any number of UEs and any length of the
\* channels; its part about releases when Remove does not fail.
THEOREM Invariance == Spec => []IInv
  <1>1. Init => IInv BY Zenon, InitTableInv, InitMore DEF IInv, More
  <1>2. IInv /\ [Next]_vars => IInv' BY Zenon, NextTableInv, InductiveMore DEF IInv, More
  <1> QED BY <1>1, <1>2, PTL DEF Spec

\* The PostSignalling branch of HandleIKEAUTH finds the IKE UE and its Kn3iwf, and the
\* EndSignalling branch the inner address: an association is taken there by one EAP-Success,
\* sent after the one initial context setup of its RAN UE.
THEOREM KeyAlwaysBeforeAuth == Spec => []KeyBeforeAuth
  <1>1. IInv => KeyBeforeAuth BY Zenon DEF IInv, KeyInv
  <1> QED BY <1>1, Invariance, PTL

\* The AMF does not learn that a context is set up before StartTCPSignalNASMsg was handled.
THEOREM NasOverTcpAfterSetup == Spec => []NoEapAfterContextSetup
  <1>1. IInv => NoEapAfterContextSetup BY ZenonT(30) DEF IInv, NasInv
  <1> QED BY <1>1, Invariance, PTL

\* The process exits for a missing NAS connection only when that connection was accepted
\* before or its UE was asked for the child SA of a PDU session.
THEOREM ExitsOnlyAfterNas == Spec => []ExitOnlyAfterNasConnection
  <1>1. IInv => ExitOnlyAfterNasConnection BY Zenon DEF IInv, ExitInv
  <1> QED BY <1>1, Invariance, PTL

\* When Remove does not fail, no UE is left half released by either side.
THEOREM NeverHalfReleased == ASSUME ~ RemoveMayFail PROVE Spec => []NoHalfReleasedUe
  <1>1. IInv => NoHalfReleasedUe BY Zenon DEF IInv, ReleaseInv
  <1> QED BY <1>1, Invariance, PTL

=============================================================================
