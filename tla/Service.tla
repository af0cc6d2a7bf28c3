-------------------------------- MODULE Service --------------------------------
(***************************************************************************)
(* The process: how Run starts the servers, how their goroutines receive,  *)
(* exchange events through channels of bounded capacity, and how           *)
(* terminateProcedure stops them while each may be anywhere.               *)
(*                                                                         *)
(* What messages and events say is left out: a handler may send the other  *)
(* loop an event, or panic.  The metrics server is left out.               *)
(***************************************************************************)
EXTENDS Integers, Sequences, FiniteSets

CONSTANTS
    NumAmf,   \* AMFs a configuration may have
    Cap,      \* capacity of each channel (512 in the code)
    Bounds    \* bounds on a behaviour; Init chooses one of them

\* amfs: AMFs of the configuration; msgs: messages read and events sent by event handlers;
\* busy: whether there are connections of UEs, associations AMFs close and failures, and
\* anything at all before Run waits.
Bound == [amfs: 1..NumAmf, msgs: Nat, busy: BOOLEAN]

ASSUME ServiceAssumption == NumAmf \in Nat \ {0} /\ Cap \in Nat \ {0} /\ Bounds \subseteq Bound

Amf  == 1..NumAmf
Port == {500, 4500}

VARIABLES
    run, listening,       \* how far Run has got; IKE ports open so far
    stop,                 \* how far listenShutdownEvent has got; it waits for a signal first
    exit,                 \* how the process ended
    amfRcv, sctpClosed,   \* the receivers of NGAP, and the associations that are closed
    ngapPkt, ngapEvt,     \* NGAP rcvPktCh, and the number of events in rcvEvtCh
    ngapLoop, ngapClosed, \* runNgapEventHandler; which of its channels are closed
    ikeRcv,               \* the receivers of IKE
    ikePkt, ikeEvt,       \* the number of messages and events in the channels of IKE
    ikeLoop, ikeClosed,   \* server; which of its channels are closed
    running,              \* other goroutines counted in wg
    conn,                 \* a NAS connection of a UE, as far as listenAndServe has got with it
    msgs,                 \* messages and events counted
    hist                  \* the bounds, and history

startVars == <<run, listening>>
ngapVars  == <<amfRcv, sctpClosed, ngapPkt, ngapEvt, ngapLoop, ngapClosed>>
ikeVars   == <<ikeRcv, ikePkt, ikeEvt, ikeLoop, ikeClosed>>
upVars    == <<running, conn>>
vars == <<run, listening, stop, exit, amfRcv, sctpClosed, ngapPkt, ngapEvt,
          ngapLoop, ngapClosed, ikeRcv, ikePkt, ikeEvt, ikeLoop, ikeClosed,
          running, conn, msgs, hist>>

-----------------------------------------------------------------------------
(* A receiver is "open" once its socket is, and registered for Stop when   *)
(* it reads; "send" and "eof": it is blocked in Send.  A loop is blocked   *)
(* in "send"; its deferred function closes one channel after the other.    *)

Receiver == {"no", "open", "read", "send", "eof", "down"}
Loop == {"no", "idle", "send", "close1", "close2", "down"}

Init ==
    /\ run = "xfrm" /\ listening = {} /\ stop = "no" /\ exit = "no"
    /\ sctpClosed = {}
    /\ ngapPkt = <<>> /\ ngapEvt = 0 /\ ngapLoop = "no" /\ ngapClosed = {}
    /\ ikeRcv = [p \in Port |-> "no"]
    /\ ikePkt = 0 /\ ikeEvt = 0 /\ ikeLoop = "no" /\ ikeClosed = {}
    /\ running = {} /\ conn = "no" /\ msgs = 0
    /\ \E b \in Bounds :
         /\ amfRcv = [a \in Amf |-> IF a <= b.amfs THEN "no" ELSE "down"]
         /\ hist = [bound |-> b, early |-> FALSE, ikePanic |-> FALSE, readErr |-> FALSE,
                    lateAmf |-> {}, latePort |-> {}, lateConn |-> FALSE]

Up == exit = "no"

\* Whether another message comes.
Message == msgs < hist.bound.msgs /\ msgs' = msgs + 1 /\ (hist.bound.busy \/ run = "wait")

\* The process ends, and its goroutines, channels and sockets are gone.
Exits(how) ==
    /\ exit' = how /\ run' = "gone" /\ listening' = {} /\ stop' = "gone"
    /\ amfRcv' = [a \in Amf |-> "down"] /\ sctpClosed' = Amf
    /\ ngapPkt' = <<>> /\ ngapEvt' = 0 /\ ngapLoop' = "down" /\ ngapClosed' = {"evt", "pkt"}
    /\ ikeRcv' = [p \in Port |-> "down"]
    /\ ikePkt' = 0 /\ ikeEvt' = 0 /\ ikeLoop' = "down" /\ ikeClosed' = {"evt", "pkt"}
    /\ running' = {} /\ conn' = "gone" /\ msgs' = 0
    /\ UNCHANGED hist

-----------------------------------------------------------------------------
(* Start.                                                                  *)

\* Run returns an error, and the process ends as it is.
RunFails == Up /\ hist.bound.busy /\ run # "wait" /\ Exits("error")

\* initDefaultXfrmInterface, and listenShutdownEvent is started.
RunXfrm ==
    /\ Up /\ run = "xfrm" /\ run' = "ngap" /\ stop' = "wait"
    /\ UNCHANGED <<listening, exit, ngapVars, ikeVars, upVars, msgs, hist>>

\* Run of NGAP: one AMF after the other is dialled; Run goes on when the errChan of the
\* receiver is closed.  Then comes the event handler.
RunNgap ==
    /\ Up /\ run = "ngap"
    /\ \/ \E a \in Amf :
            /\ amfRcv[a] = "no" /\ \A b \in 1..(a - 1) : amfRcv[b] # "no"
            /\ amfRcv' = [amfRcv EXCEPT ![a] = "open"]
            /\ UNCHANGED <<run, ngapLoop>>
       \/ /\ \A a \in Amf : amfRcv[a] # "no"
          /\ ngapLoop' = "idle" /\ run' = "nwucp" /\ UNCHANGED amfRcv
    /\ UNCHANGED <<listening, stop, exit, sctpClosed, ngapPkt, ngapEvt, ngapClosed,
                   ikeVars, upVars, msgs, hist>>

RunNwu ==
    /\ Up
    /\ \/ run = "nwucp" /\ run' = "nwuup" /\ running' = running \cup {"nas"}
       \/ run = "nwuup" /\ run' = "ike" /\ running' = running \cup {"nwuup"}
    /\ UNCHANGED <<listening, stop, exit, ngapVars, ikeVars, conn, msgs, hist>>

\* Run of IKE: the two receivers, then server.
RunIke ==
    /\ Up /\ run = "ike"
    /\ \/ \E p \in Port :
            /\ p \notin listening /\ (p = 4500 => 500 \in listening)
            /\ listening' = listening \cup {p}
            /\ ikeRcv' = [ikeRcv EXCEPT ![p] = "open"]
            /\ UNCHANGED <<run, ikeLoop>>
       \/ /\ listening = Port
          /\ ikeLoop' = "idle" /\ run' = "wait" /\ UNCHANGED <<listening, ikeRcv>>
    /\ UNCHANGED <<stop, exit, ngapVars, ikePkt, ikeEvt, ikeClosed,
                   upVars, msgs, hist>>

\* The counter of wg.
Stopped ==
    /\ stop = "done" /\ ngapLoop = "down" /\ ikeLoop = "down" /\ running = {}
    /\ \A a \in Amf : amfRcv[a] = "down"
    /\ \A p \in Port : ikeRcv[p] = "down"

\* WaitRoutineStopped; removeIPsecInterfaces ends the process.
WaitRoutineStopped == Up /\ run = "wait" /\ Stopped /\ Exits("returned")

-----------------------------------------------------------------------------
(* NGAP.                                                                   *)

\* The association is registered for Stop; reading begins.
RegisterConn(a) ==
    /\ Up /\ amfRcv[a] = "open" /\ amfRcv' = [amfRcv EXCEPT ![a] = "read"]
    /\ UNCHANGED <<startVars, stop, exit, sctpClosed, ngapPkt, ngapEvt, ngapLoop,
                   ngapClosed, ikeVars, upVars, msgs, hist>>

\* SafeCh.Send (external) to rcvPktCh: nothing happens when it is closed; a full channel
\* blocks, in state `full`; otherwise the receiver goes on in state `sent`.
SendNgapPkt(a, item, sent, full) ==
    IF "pkt" \in ngapClosed THEN amfRcv' = [amfRcv EXCEPT ![a] = sent] /\ UNCHANGED ngapPkt
    ELSE IF Len(ngapPkt) < Cap
    THEN amfRcv' = [amfRcv EXCEPT ![a] = sent] /\ ngapPkt' = Append(ngapPkt, item)
    ELSE amfRcv' = [amfRcv EXCEPT ![a] = full] /\ UNCHANGED ngapPkt

\* Mutant: the end of the association is not told.
SendClosed_untold(a) == amfRcv' = [amfRcv EXCEPT ![a] = "down"] /\ UNCHANGED ngapPkt

\* The empty packet a receiver sends at the end of its association.
SendClosed(a) == SendNgapPkt(a, "closed", "down", "eof")

\* listenAndServe: a packet; the end of the association; another error, of which nobody
\* is told; a receiver that was blocked goes on.
NgapReceiver(a) ==
    /\ Up
    /\ \/ /\ amfRcv[a] = "read" /\ a \notin sctpClosed /\ Message
          /\ SendNgapPkt(a, "pkt", "read", "send") /\ UNCHANGED hist
       \/ /\ amfRcv[a] = "read" /\ a \in sctpClosed
          /\ SendClosed(a) /\ UNCHANGED <<msgs, hist>>
       \/ /\ amfRcv[a] = "read" /\ (a \in sctpClosed \/ hist.bound.busy)
          /\ amfRcv' = [amfRcv EXCEPT ![a] = "down"]
          /\ hist' = [hist EXCEPT !.readErr = TRUE] /\ UNCHANGED <<ngapPkt, msgs>>
       \/ /\ amfRcv[a] = "send" /\ Len(ngapPkt) < Cap /\ ngapPkt' = Append(ngapPkt, "pkt")
          /\ amfRcv' = [amfRcv EXCEPT ![a] = "read"] /\ UNCHANGED <<msgs, hist>>
       \/ /\ amfRcv[a] = "eof" /\ Len(ngapPkt) < Cap /\ ngapPkt' = Append(ngapPkt, "closed")
          /\ amfRcv' = [amfRcv EXCEPT ![a] = "down"] /\ UNCHANGED <<msgs, hist>>
    /\ UNCHANGED <<startVars, stop, exit, sctpClosed, ngapEvt, ngapLoop, ngapClosed,
                   ikeVars, upVars>>

\* external: an AMF closes its association.
AmfCloses(a) ==
    /\ Up /\ hist.bound.busy /\ amfRcv[a] # "no" /\ a \notin sctpClosed /\ sctpClosed' = sctpClosed \cup {a}
    /\ UNCHANGED <<startVars, stop, exit, amfRcv, ngapPkt, ngapEvt, ngapLoop,
                   ngapClosed, ikeVars, upVars, msgs, hist>>

\* SendIkeEvt by a handler of the NGAP loop.
SendIkeEvt ==
    IF "evt" \in ikeClosed THEN ngapLoop' = "idle" /\ UNCHANGED ikeEvt
    ELSE IF ikeEvt < Cap THEN ngapLoop' = "idle" /\ ikeEvt' = ikeEvt + 1
    ELSE ngapLoop' = "send" /\ UNCHANGED ikeEvt

\* runNgapEventHandler: it takes a packet or an event, whichever select picks; the empty
\* packet ends it.
runNgapEventHandler ==
    /\ Up /\ ngapLoop = "idle"
    /\ \/ /\ ngapPkt # <<>> /\ ngapPkt' = Tail(ngapPkt) /\ UNCHANGED <<ngapEvt, msgs>>
          /\ IF Head(ngapPkt) = "closed" THEN ngapLoop' = "close1" /\ UNCHANGED ikeEvt
             ELSE SendIkeEvt \/ UNCHANGED <<ngapLoop, ikeEvt>>
       \/ /\ ngapEvt > 0 /\ ngapEvt' = ngapEvt - 1 /\ UNCHANGED ngapPkt
          /\ \/ Message /\ SendIkeEvt
             \/ UNCHANGED <<msgs, ngapLoop, ikeEvt>>
    /\ UNCHANGED <<startVars, stop, exit, amfRcv, sctpClosed, ngapClosed, ikeRcv,
                   ikePkt, ikeLoop, ikeClosed, upVars, hist>>

\* The NGAP loop was blocked and goes on.
NgapSent ==
    /\ Up /\ ngapLoop = "send" /\ ikeEvt < Cap /\ ngapLoop' = "idle" /\ ikeEvt' = ikeEvt + 1
    /\ UNCHANGED <<startVars, stop, exit, amfRcv, sctpClosed, ngapPkt, ngapEvt,
                   ngapClosed, ikeRcv, ikePkt, ikeLoop, ikeClosed, upVars, msgs, hist>>

\* Whether somebody is blocked in Send to a channel; SafeCh.Close (external) waits for them.
ToNgapEvt == ikeLoop = "send" \/ conn = "send"
ToNgapPkt == \E a \in Amf : amfRcv[a] \in {"send", "eof"}
ToIkePkt  == \E p \in Port : ikeRcv[p] = "send"
ToIkeEvt  == ngapLoop = "send"

\* The deferred function of runNgapEventHandler: rcvEvtCh.Close, rcvPktCh.Close.
NgapCloses ==
    /\ Up
    /\ \/ /\ ngapLoop = "close1" /\ ~ToNgapEvt
          /\ ngapLoop' = "close2" /\ ngapClosed' = ngapClosed \cup {"evt"}
       \/ /\ ngapLoop = "close2" /\ ~ToNgapPkt
          /\ ngapLoop' = "down" /\ ngapClosed' = ngapClosed \cup {"pkt"}
    /\ UNCHANGED <<startVars, stop, exit, amfRcv, sctpClosed, ngapPkt, ngapEvt,
                   ikeVars, upVars, msgs, hist>>

\* A panic in a handler of the NGAP loop, or in a goroutine of NWu: Fatalf.
Panic ==
    /\ Up /\ hist.bound.busy
    /\ \/ ngapLoop = "idle" /\ (ngapEvt > 0 \/ (ngapPkt # <<>> /\ Head(ngapPkt) = "pkt"))
       \/ running # {}
    /\ Exits("panic")

-----------------------------------------------------------------------------
(* NWu.  The goroutines of running read from a socket until Stop closes it *)
(* (those for GRE and GTP-U are one); closing it ends them, unless they    *)
(* are not reading.                                                        *)

ListenerOpen == stop \in {"wait", "ngap", "nwucp"}

\* listenAndServe of NWu-CP accepts a connection; it stores it in the RAN UE, tells the
\* NGAP loop, and starts serveConn.
Accept ==
    /\ Up /\ hist.bound.busy
    /\ "nas" \in running /\ ListenerOpen /\ conn = "no" /\ conn' = "accepted"
    /\ Message
    /\ UNCHANGED <<startVars, stop, exit, ngapVars, ikeVars, running, hist>>

\* serveConn goes on as long as the connection is open: Stop closes one stored before.
Served ==
    /\ conn' = "served"
    /\ running' = (IF ListenerOpen \/ stop = "conns" \/ conn = "accepted"
                   THEN running \cup {"conn"} ELSE running)
                  \ (IF ListenerOpen THEN {} ELSE {"nas"})

ServeConn ==
    /\ Up
    /\ \/ conn = "accepted" /\ "evt" \in ngapClosed /\ Served /\ UNCHANGED ngapEvt
       \/ conn \in {"accepted", "send"} /\ "evt" \notin ngapClosed /\ ngapEvt < Cap
          /\ Served /\ ngapEvt' = ngapEvt + 1
       \/ conn = "accepted" /\ "evt" \notin ngapClosed /\ ngapEvt = Cap
          /\ conn' = "send" /\ UNCHANGED <<running, ngapEvt>>
    /\ UNCHANGED <<startVars, stop, exit, amfRcv, sctpClosed, ngapPkt, ngapLoop,
                   ngapClosed, ikeVars, msgs, hist>>

\* external: a UE closes its connection.
UeCloses ==
    /\ Up /\ "conn" \in running /\ running' = running \ {"conn"}
    /\ UNCHANGED <<startVars, stop, exit, ngapVars, ikeVars, conn, msgs, hist>>

-----------------------------------------------------------------------------
(* IKE.                                                                    *)

\* The listener is registered for Stop; reading begins.
RegisterListener(p) ==
    /\ Up /\ ikeRcv[p] = "open" /\ ikeRcv' = [ikeRcv EXCEPT ![p] = "read"]
    /\ UNCHANGED <<startVars, stop, exit, ngapVars, ikePkt, ikeEvt,
                   ikeLoop, ikeClosed, upVars, msgs, hist>>

\* SafeCh.Send to rcvPktCh of IKE.
SendIkePkt(p) ==
    IF "pkt" \in ikeClosed THEN ikeRcv' = [ikeRcv EXCEPT ![p] = "read"] /\ UNCHANGED ikePkt
    ELSE IF ikePkt < Cap THEN ikeRcv' = [ikeRcv EXCEPT ![p] = "read"] /\ ikePkt' = ikePkt + 1
    ELSE ikeRcv' = [ikeRcv EXCEPT ![p] = "send"] /\ UNCHANGED ikePkt

\* Stop of IKE has closed a port.
UdpClosed(p) == stop \in {"ike", "done"} /\ p \notin hist.latePort

\* receiver: a message; the error a closed listener gives; the end of a block.
IkeReceiver(p) ==
    /\ Up
    /\ \/ /\ ikeRcv[p] = "read" /\ ~UdpClosed(p) /\ Message
          /\ SendIkePkt(p)
       \/ /\ ikeRcv[p] = "read" /\ UdpClosed(p)
          /\ ikeRcv' = [ikeRcv EXCEPT ![p] = "down"] /\ UNCHANGED <<ikePkt, msgs>>
       \/ /\ ikeRcv[p] = "send" /\ ikePkt < Cap /\ ikePkt' = ikePkt + 1
          /\ ikeRcv' = [ikeRcv EXCEPT ![p] = "read"] /\ UNCHANGED msgs
    /\ UNCHANGED <<startVars, stop, exit, ngapVars, ikeEvt, ikeLoop, ikeClosed, upVars, hist>>

\* SendNgapEvt by a handler of the IKE loop.
SendNgapEvt ==
    IF "evt" \in ngapClosed THEN ikeLoop' = "idle" /\ UNCHANGED ngapEvt
    ELSE IF ngapEvt < Cap THEN ikeLoop' = "idle" /\ ngapEvt' = ngapEvt + 1
    ELSE ikeLoop' = "send" /\ UNCHANGED ngapEvt

\* Mutant: a panic in the handler of a message is not recovered from.
Dispatch_panics == SendNgapEvt \/ (ikeLoop' \in {"idle", "close1"} /\ UNCHANGED ngapEvt)

\* Dispatch recovers from a panic.
Dispatch == SendNgapEvt \/ (ikeLoop' = "idle" /\ UNCHANGED ngapEvt)

\* server takes a message or an event.  A panic in HandleEvent ends it.
server ==
    /\ Up /\ ikeLoop = "idle"
    /\ \/ /\ ikePkt > 0 /\ ikePkt' = ikePkt - 1 /\ UNCHANGED <<ikeEvt, msgs, hist>>
          /\ Dispatch
       \/ /\ ikeEvt > 0 /\ ikeEvt' = ikeEvt - 1 /\ UNCHANGED ikePkt
          /\ \/ Message /\ SendNgapEvt /\ UNCHANGED hist
             \/ UNCHANGED <<msgs, ikeLoop, ngapEvt, hist>>
             \/ /\ ikeLoop' = "close1" /\ hist' = [hist EXCEPT !.ikePanic = TRUE]
                /\ UNCHANGED <<msgs, ngapEvt>>
    /\ UNCHANGED <<startVars, stop, exit, amfRcv, sctpClosed, ngapPkt, ngapLoop,
                   ngapClosed, ikeRcv, ikeClosed, upVars>>

\* The IKE loop was blocked and goes on.
IkeSent ==
    /\ Up /\ ikeLoop = "send" /\ ngapEvt < Cap /\ ikeLoop' = "idle" /\ ngapEvt' = ngapEvt + 1
    /\ UNCHANGED <<startVars, stop, exit, amfRcv, sctpClosed, ngapPkt, ngapLoop,
                   ngapClosed, ikeRcv, ikePkt, ikeEvt, ikeClosed, upVars, msgs, hist>>

\* The deferred function of server: rcvPktCh.Close, then rcvEvtCh.Close and close(StopServer).
IkeCloses ==
    /\ Up
    /\ \/ /\ ikeLoop = "close1" /\ ~ToIkePkt
          /\ ikeLoop' = "close2" /\ ikeClosed' = ikeClosed \cup {"pkt"}
       \/ /\ ikeLoop = "close2" /\ ~ToIkeEvt
          /\ ikeLoop' = "down" /\ ikeClosed' = ikeClosed \cup {"evt"}
    /\ UNCHANGED <<startVars, stop, exit, ngapVars, ikeRcv, ikePkt,
                   ikeEvt, upVars, msgs, hist>>

-----------------------------------------------------------------------------
(* Shutdown: the Stop functions, in the order of terminateProcedure.       *)

\* A signal cancels the context, for which listenShutdownEvent waits.
listenShutdownEvent ==
    /\ Up /\ stop = "wait" /\ stop' = "ngap" /\ (hist.bound.busy \/ run = "wait")
    /\ hist' = [hist EXCEPT !.early = (run # "wait")]
    /\ UNCHANGED <<startVars, exit, ngapVars, ikeVars, upVars, msgs>>

\* Stop of NGAP closes the associations registered by now.
StopNgap ==
    LET late == {a \in Amf : amfRcv[a] \in {"no", "open"}} IN
    /\ Up /\ stop = "ngap" /\ stop' = "nwucp"
    /\ sctpClosed' = sctpClosed \cup (Amf \ late)
    /\ hist' = [hist EXCEPT !.lateAmf = late]
    /\ UNCHANGED <<startVars, exit, amfRcv, ngapPkt, ngapEvt, ngapLoop, ngapClosed,
                   ikeVars, upVars, msgs>>

\* Stop of NWu-CP and NWu-UP: a socket that is not open yet is a nil pointer, and the
\* panic ends the process.
StopNwu ==
    /\ Up
    /\ \/ stop = "nwucp" /\ run \in {"ngap", "nwucp"} /\ Exits("stop")
       \/ stop = "nwuup" /\ run = "nwuup" /\ Exits("stop")
       \/ /\ \/ /\ stop = "nwucp" /\ run \notin {"ngap", "nwucp"} /\ stop' = "conns"
                /\ running' = IF conn \in {"accepted", "send"} THEN running ELSE running \ {"nas"}
                /\ UNCHANGED hist
             \/ /\ stop = "conns" /\ stop' = "nwuup" /\ running' = running \ {"conn"}
                /\ hist' = [hist EXCEPT !.lateConn = (conn = "accepted")]
             \/ /\ stop = "nwuup" /\ run # "nwuup" /\ stop' = "listeners"
                /\ running' = running \ {"nwuup"} /\ UNCHANGED hist
          /\ UNCHANGED <<startVars, exit, ngapVars, ikeVars, conn, msgs>>

\* Stop of IKE closes the listeners registered by now and waits for the server to take the
\* stop; once StopServer is closed, the send panics.
StopIke ==
    /\ Up
    /\ \/ /\ stop = "listeners" /\ stop' = "ike"
          /\ hist' = [hist EXCEPT !.latePort = {p \in Port : ikeRcv[p] \in {"no", "open"}}]
          /\ UNCHANGED <<startVars, exit, ngapVars, ikeVars, upVars, msgs>>
       \/ /\ stop = "ike" /\ ikeLoop = "idle" /\ ikeLoop' = "close1" /\ stop' = "done"
          /\ UNCHANGED <<startVars, exit, ngapVars, ikeRcv, ikePkt,
                         ikeEvt, ikeClosed, upVars, msgs, hist>>
       \/ stop = "ike" /\ ikeLoop = "down" /\ Exits("stop")

-----------------------------------------------------------------------------
Start == RunXfrm \/ RunNgap \/ RunNwu \/ RunIke

Environment == RunFails \/ listenShutdownEvent \/ Panic \/ Accept \/ UeCloses \/ \E a \in Amf : AmfCloses(a)

Next ==
    \/ Start \/ Environment \/ WaitRoutineStopped
    \/ \E a \in Amf : RegisterConn(a) \/ NgapReceiver(a)
    \/ runNgapEventHandler \/ NgapSent \/ NgapCloses
    \/ ServeConn
    \/ \E p \in Port : RegisterListener(p) \/ IkeReceiver(p)
    \/ server \/ IkeSent \/ IkeCloses
    \/ StopNgap \/ StopNwu \/ StopIke

\* Every goroutine that can go on does: Go's scheduler is fair, and closed sockets end reads.
\* The environment owes nothing.
Fairness ==
    /\ WF_vars(Start) /\ WF_vars(WaitRoutineStopped)
    /\ \A a \in Amf : WF_vars(RegisterConn(a)) /\ WF_vars((a \in sctpClosed \/ amfRcv[a] # "read") /\ NgapReceiver(a))
    /\ WF_vars(runNgapEventHandler) /\ WF_vars(NgapSent) /\ WF_vars(NgapCloses)
    /\ WF_vars(ServeConn)
    /\ \A p \in Port : WF_vars(RegisterListener(p)) /\ WF_vars((UdpClosed(p) \/ ikeRcv[p] # "read") /\ IkeReceiver(p))
    /\ WF_vars(server) /\ WF_vars(IkeSent) /\ WF_vars(IkeCloses)
    /\ WF_vars(StopNgap \/ StopNwu \/ StopIke)

Spec == Init /\ [][Next]_vars /\ Fairness

-----------------------------------------------------------------------------
(* Properties.                                                             *)

\* A channel is full and those who could take from it wait for each other, or for the
\* sender: the loops are both blocked in Send, or one that has ended waits in Close.
Deadlocked ==
    \/ ikeLoop = "send" /\ ngapLoop = "send"
    \/ ngapLoop = "close1" /\ ToNgapEvt
    \/ ngapLoop = "close2" /\ ToNgapPkt
    \/ ikeLoop = "close1" /\ ToIkePkt
    \/ ikeLoop = "close2" /\ ToIkeEvt

\* A socket is open that was not registered when Stop closed the others.
Missed ==
    \/ \E a \in hist.lateAmf : amfRcv[a] # "down" /\ a \notin sctpClosed
    \/ \E p \in hist.latePort : ikeRcv[p] # "down"
    \/ hist.lateConn /\ "conn" \in running

\* No receiver is left to end the NGAP loop, after one has failed to read.
NotTold ==
    /\ hist.readErr /\ ngapLoop \notin {"close1", "close2", "down"}
    /\ \A a \in Amf : amfRcv[a] = "down"

\* A process that is told to terminate ends, unless the loops or their senders block each
\* other on a full channel, Stop has missed a socket that was only being opened, or no
\* receiver told the NGAP loop that its association ended (terminateProcedure, the Stop
\* functions and the deferred functions of the goroutines; main.go: "Notify each goroutine
\* and wait them stopped").
Terminates == [](stop \notin {"no", "wait"} => <>(exit # "no") \/ <>[](Deadlocked \/ Missed \/ NotTold))

\* terminateProcedure panics, which ends the process with Fatalf and leaves the interfaces
\* behind, only if the signal came before the servers were up or if the IKE server had
\* ended in a panic before (Stop of IKE, nil listeners in Stop of NWu).
FatalNeedsCause == exit = "stop" => hist.early \/ hist.ikePanic
=============================================================================
