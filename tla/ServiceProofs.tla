----------------------------- MODULE ServiceProofs -----------------------------
(***************************************************************************)
(* Why terminateProcedure panics only for a cause, for every number of     *)
(* AMFs, every capacity of the channels and every bound.                   *)
(***************************************************************************)
EXTENDS Service, TLAPS

History == [bound: Bound, early: BOOLEAN, ikePanic: BOOLEAN, readErr: BOOLEAN,
            lateAmf: SUBSET Amf, latePort: SUBSET Port, lateConn: BOOLEAN]

\* listenShutdownEvent is not started before initDefaultXfrmInterface has returned; Stop,
\* unless the signal came early, runs beside a Run that waits: every socket is open.
AllStarted ==
    /\ run = "xfrm" => stop = "no"
    /\ stop \notin {"no", "wait"} => hist.early \/ run = "wait"

\* The IKE server ends by a panic, or because Stop of IKE has told it to.
ServerEnds == ikeLoop \in {"close1", "close2", "down"} => hist.ikePanic \/ stop = "done"

IInv ==
    /\ hist \in History
    /\ FatalNeedsCause
    /\ exit = "no" => AllStarted /\ ServerEnds

-----------------------------------------------------------------------------
\* The process starts in the invariant.
LEMMA InitIInv == Init => IInv
<1> SUFFICES ASSUME Init PROVE IInv OBVIOUS
<1>1. PICK b \in Bounds :
        hist = [bound |-> b, early |-> FALSE, ikePanic |-> FALSE, readErr |-> FALSE,
                lateAmf |-> {}, latePort |-> {}, lateConn |-> FALSE]
  BY ZenonT(30) DEF Init
<1>2. b \in Bound BY ServiceAssumption
<1>3. hist \in History BY <1>1, <1>2 DEF History
<1> QED BY <1>3 DEF Init, IInv, FatalNeedsCause, AllStarted, ServerEnds

\* A step that leaves the history alone and does not end the process, in which Run does not
\* stop waiting, terminateProcedure has not begun or goes no further, and the IKE server
\* does not end, keeps the invariant.
LEMMA Quiet ==
  ASSUME IInv, Up, exit' = exit, hist' = hist, stop' = stop,
         run = "wait" => run' = "wait", run' # "xfrm" \/ run' = run,
         ikeLoop' \in {"close1", "close2", "down"} => ikeLoop \in {"close1", "close2", "down"}
  PROVE  IInv'
<1>1. AllStarted /\ AllStarted' BY DEF IInv, AllStarted, Up
<1>2. ServerEnds' BY DEF IInv, ServerEnds, Up
<1>3. FatalNeedsCause' BY DEF IInv, FatalNeedsCause, Up
<1> QED BY <1>1, <1>2, <1>3 DEF IInv

\* Starting the servers keeps the invariant: until listenShutdownEvent is told to stop,
\* nothing is claimed, and from then on Run only goes forward.
LEMMA StartKeeps == ASSUME IInv, Start PROVE IInv'
<1>1. CASE RunXfrm
  BY <1>1 DEF RunXfrm, IInv, FatalNeedsCause, AllStarted, ServerEnds, Up, ikeVars
<1>2. CASE RunNgap
  BY <1>2, Quiet DEF RunNgap, ikeVars
<1>3. CASE RunNwu
  BY <1>3, Quiet DEF RunNwu, ikeVars
<1>4. CASE RunIke
  BY <1>4, Quiet DEF RunIke
<1> QED BY <1>1, <1>2, <1>3, <1>4 DEF Start

\* The end of the process for any reason but a panic of terminateProcedure.
LEMMA ExitKeeps ==
  ASSUME IInv, NEW how \in {"error", "returned", "panic"}, Exits(how)
  PROVE  IInv'
BY DEF IInv, Exits, FatalNeedsCause

\* The NGAP receivers and the NGAP loop touch neither Run, nor Stop, nor the IKE server.
LEMMA NgapKeeps ==
  ASSUME IInv,
         \/ \E a \in Amf : RegisterConn(a) \/ NgapReceiver(a) \/ AmfCloses(a)
         \/ runNgapEventHandler \/ NgapSent \/ NgapCloses
  PROVE  IInv'
<1>1. CASE \E a \in Amf : RegisterConn(a) \/ AmfCloses(a)
  BY <1>1, Quiet DEF RegisterConn, AmfCloses, startVars, ikeVars
<1>2. ASSUME NEW a \in Amf, NgapReceiver(a) PROVE IInv'
  <2>1. UNCHANGED <<run, stop, exit, ikeLoop>> /\ Up
    BY <1>2 DEF NgapReceiver, startVars, ikeVars
  <2>2. hist' = hist \/ hist' = [hist EXCEPT !.readErr = TRUE]
    BY <1>2 DEF NgapReceiver
  <2>3. CASE hist' = hist BY <2>1, <2>3, Quiet
  <2>4. CASE hist' = [hist EXCEPT !.readErr = TRUE]
    <3>1. hist' \in History /\ hist'.early = hist.early /\ hist'.ikePanic = hist.ikePanic
      BY ZenonT(30), <2>4 DEF IInv, History
    <3> QED BY <2>1, <3>1 DEF IInv, FatalNeedsCause, AllStarted, ServerEnds
  <2> QED BY <2>2, <2>3, <2>4
<1>3. CASE runNgapEventHandler \/ NgapSent \/ NgapCloses
  BY <1>3, Quiet DEF runNgapEventHandler, NgapSent, NgapCloses, startVars, ikeVars
<1> QED BY <1>1, <1>2, <1>3

\* The goroutines of NWu likewise.
LEMMA NwuKeeps == ASSUME IInv, Accept \/ ServeConn \/ UeCloses PROVE IInv'
BY Quiet DEF Accept, ServeConn, UeCloses, startVars, ikeVars

\* The IKE server ends only in a panic, which is recorded.
LEMMA IkeKeeps ==
  ASSUME IInv,
         \/ \E p \in Port : RegisterListener(p) \/ IkeReceiver(p)
         \/ server \/ IkeSent \/ IkeCloses
  PROVE  IInv'
<1>1. CASE \E p \in Port : RegisterListener(p) \/ IkeReceiver(p)
  BY <1>1, Quiet DEF RegisterListener, IkeReceiver, startVars
<1>2. CASE IkeSent \/ IkeCloses
  BY <1>2, Quiet DEF IkeSent, IkeCloses, startVars
<1>3. CASE server
  <2>1. UNCHANGED <<run, stop, exit>> /\ Up
    BY <1>3 DEF server, startVars
  <2>2. \/ hist' = hist /\ ikeLoop' \in {"idle", "send"}
        \/ hist' = [hist EXCEPT !.ikePanic = TRUE]
    BY <1>3 DEF server, Dispatch, SendNgapEvt
  <2>3. CASE hist' = hist /\ ikeLoop' \in {"idle", "send"} BY <2>1, <2>3, Quiet
  <2>4. CASE hist' = [hist EXCEPT !.ikePanic = TRUE]
    <3>1. hist' \in History /\ hist'.early = hist.early /\ hist'.ikePanic
      BY ZenonT(30), <2>4 DEF IInv, History
    <3> QED BY <2>1, <3>1 DEF IInv, FatalNeedsCause, AllStarted, ServerEnds
  <2> QED BY <2>2, <2>3, <2>4
<1> QED BY <1>1, <1>2, <1>3

\* terminateProcedure: a nil listener means that Run was not waiting, hence an early signal;
\* a closed StopServer, that the server had ended before Stop told it to, hence a panic.
LEMMA StopKeeps ==
  ASSUME IInv, listenShutdownEvent \/ StopNgap \/ StopNwu \/ StopIke
  PROVE  IInv'
<1>1. CASE listenShutdownEvent
  <2>1. hist' = [hist EXCEPT !.early = (run # "wait")] /\ UNCHANGED <<run, exit, ikeLoop>>
        /\ exit = "no" /\ stop = "wait"
    BY <1>1 DEF listenShutdownEvent, startVars, ikeVars, Up
  <2>2. hist' \in History /\ hist'.early = (run # "wait") /\ hist'.ikePanic = hist.ikePanic
    BY ZenonT(30), <2>1 DEF IInv, History
  <2> QED BY ZenonT(30), <2>1, <2>2 DEF IInv, FatalNeedsCause, AllStarted, ServerEnds
<1>2. CASE StopNgap
  <2> DEFINE late == {a \in Amf : amfRcv[a] \in {"no", "open"}}
  <2>1. hist' = [hist EXCEPT !.lateAmf = late] /\ UNCHANGED <<run, exit, ikeLoop>>
        /\ exit = "no" /\ stop = "ngap"
    BY <1>2 DEF StopNgap, startVars, ikeVars, Up
  <2>2. hist' \in History /\ hist'.early = hist.early /\ hist'.ikePanic = hist.ikePanic
    BY <2>1 DEF IInv, History
  <2> QED BY <2>1, <2>2 DEF IInv, FatalNeedsCause, AllStarted, ServerEnds
<1>3. CASE StopNwu
  <2>1. CASE Exits("stop")
    <3>1. hist.early
      BY <1>3, <2>1 DEF StopNwu, IInv, AllStarted, Up, Exits
    <3> QED BY <2>1, <3>1 DEF IInv, Exits, FatalNeedsCause
  <2>2. CASE ~Exits("stop")
    <3>1. UNCHANGED <<run, exit, ikeLoop>> /\ exit = "no" /\ stop \in {"nwucp", "conns", "nwuup"}
      BY <1>3, <2>2 DEF StopNwu, startVars, ikeVars, Up
    <3>2. hist' = hist \/ hist' = [hist EXCEPT !.lateConn = (conn = "accepted")]
      BY <1>3, <2>2 DEF StopNwu
    <3>3. hist' \in History /\ hist'.early = hist.early /\ hist'.ikePanic = hist.ikePanic
      BY ZenonT(30), <3>2 DEF IInv, History
    <3> QED BY <3>1, <3>3 DEF IInv, FatalNeedsCause, AllStarted, ServerEnds
  <2> QED BY <2>1, <2>2
<1>4. CASE StopIke
  <2>1. CASE stop = "listeners"
    <3>1. hist' = [hist EXCEPT !.latePort = {p \in Port : ikeRcv[p] \in {"no", "open"}}]
          /\ UNCHANGED <<run, exit, ikeLoop>> /\ exit = "no"
      BY <1>4, <2>1 DEF StopIke, startVars, ikeVars, Up
    <3>2. hist' \in History /\ hist'.early = hist.early /\ hist'.ikePanic = hist.ikePanic
      BY <3>1 DEF IInv, History
    <3> QED BY <2>1, <3>1, <3>2 DEF IInv, FatalNeedsCause, AllStarted, ServerEnds
  <2>2. CASE stop = "ike" /\ ikeLoop = "idle"
    BY <1>4, <2>2 DEF StopIke, startVars, IInv, FatalNeedsCause, AllStarted, ServerEnds, Up
  <2>3. CASE stop = "ike" /\ ikeLoop = "down"
    <3>1. hist.ikePanic /\ Exits("stop")
      BY <1>4, <2>3 DEF StopIke, IInv, ServerEnds, Up
    <3> QED BY <3>1 DEF IInv, Exits, FatalNeedsCause
  <2> QED BY <1>4, <2>1, <2>2, <2>3 DEF StopIke
<1> QED BY <1>1, <1>2, <1>3, <1>4

\* terminateProcedure panics only if the signal came before the servers were up or if the
\* IKE server had ended in a panic before: a listener that Stop finds nil, or the closed
\* StopServer, has no other cause (Stop of NWu-CP, NWu-UP and IKE).
THEOREM StopPanicsForACause == Spec => []FatalNeedsCause
<1>1. Init => IInv BY InitIInv
<1>2. IInv /\ [Next]_vars => IInv'
  <2> SUFFICES ASSUME IInv, [Next]_vars PROVE IInv' OBVIOUS
  <2>1. CASE UNCHANGED vars
    BY <2>1 DEF vars, IInv, FatalNeedsCause, AllStarted, ServerEnds
  <2>2. CASE Start BY <2>2, StartKeeps
  <2>3. CASE RunFails \/ Panic \/ WaitRoutineStopped
    BY <2>3, ExitKeeps DEF RunFails, Panic, WaitRoutineStopped
  <2>4. CASE Accept \/ ServeConn \/ UeCloses BY <2>4, NwuKeeps
  <2>5. CASE \/ \E a \in Amf : RegisterConn(a) \/ NgapReceiver(a) \/ AmfCloses(a)
             \/ runNgapEventHandler \/ NgapSent \/ NgapCloses
    BY <2>5, NgapKeeps
  <2>6. CASE \/ \E p \in Port : RegisterListener(p) \/ IkeReceiver(p)
             \/ server \/ IkeSent \/ IkeCloses
    BY <2>6, IkeKeeps
  <2>7. CASE listenShutdownEvent \/ StopNgap \/ StopNwu \/ StopIke
    BY <2>7, StopKeeps
  <2> QED BY <2>1, <2>2, <2>3, <2>4, <2>5, <2>6, <2>7 DEF Next, Environment
<1>3. IInv => FatalNeedsCause BY DEF IInv
<1> QED BY <1>1, <1>2, <1>3, PTL DEF Spec
=============================================================================
