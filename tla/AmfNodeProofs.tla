---------------------------- MODULE AmfNodeProofs ---------------------------
(***************************************************************************)
(* What holds of the NG interface for every set of AMFs, every capacity of *)
(* the channel and every bound: types, RAN UEs and crashes; and that every *)
(* step keeps at most one token of a procedure with an AMF, so there is one *)
(* NG Setup at a time, and no request before the end of the time to wait.  *)
(***************************************************************************)
EXTENDS AmfNode, TLAPS

-----------------------------------------------------------------------------
(* Types.                                                                  *)

AmfState == [refused: 0..MaxRefuse, dead: BOOLEAN, resets: Int, up: BOOLEAN,
             final: BOOLEAN, update: BOOLEAN]
History == [omitted: BOOLEAN, rans: 0..MaxRan, sent: 0..MaxSent, closed: 0..MaxClose]

\* A write keeps the type of what is under way.
LEMMA WriteType ==
  ASSUME TypeOK, NEW a \in Amf, NEW k \in ToAmf, Write(a, k)
  PROVE  toAmf' \in [Amf -> Seq(ToAmf)]
<1>1. toAmf[a] \in Seq(ToAmf) BY Zenon DEF TypeOK
<1>2. Append(toAmf[a], k) \in Seq(ToAmf) BY <1>1
<1> QED BY Zenon, <1>1, <1>2 DEF TypeOK, Write

\* The kinds of messages that TimerKind and the acknowledgements name.
LEMMA Kinds ==
  TimerKind = {"setup", "update"} /\ TimerKind \subseteq ToAmf
  /\ {"resetAck", "error", "configAck"} \subseteq ToAmf
BY Zenon DEF TimerKind, ToAmf

\* The event handler takes a message of a.
LEMMA DispatchedType ==
  ASSUME TypeOK, NEW a \in Amf, NEW k, Dispatched(a, k)
  PROVE  /\ Msg \in ToN3iwf /\ Msg.kind = k /\ Head(rcvPktCh) \in Packet
         /\ Head(rcvPktCh).conn = a
         /\ rcvPktCh' \in Seq(Packet) /\ Len(rcvPktCh') <= PktChLen
         /\ run = "running"
         /\ UNCHANGED <<dial, conn, amf, toN3iwf, hist>>
<1>1. rcvPktCh \in Seq(Packet) /\ rcvPktCh # <<>> /\ rcvPktCh' = Tail(rcvPktCh)
  BY Zenon DEF TypeOK, Dispatched
<1>2. Head(rcvPktCh) \in Packet /\ rcvPktCh' \in Seq(Packet) /\ Len(rcvPktCh') <= Len(rcvPktCh)
  BY <1>1
<1>3. Len(rcvPktCh') <= PktChLen
  BY <1>1, <1>2, AmfNodeAssumption DEF TypeOK
<1>4. Head(rcvPktCh).conn = a /\ a # None
  BY Zenon, AmfNodeAssumption DEF Dispatched
<1>5. Msg \in ToN3iwf
  BY Zenon, <1>2, <1>4 DEF Packet, Msg
<1> QED BY Zenon, <1>2, <1>3, <1>4, <1>5 DEF Dispatched, Msg

\* What the messages hold that a context stores.
LEMMA Fields ==
  ASSUME NEW m \in ToN3iwf
  PROVE  /\ m.kind = "setupResponse" => m.served \in Served
         /\ m.kind = "configUpdate" => m.served \in Served /\ m.add \in BOOLEAN /\ m.remove \in BOOLEAN
         /\ m.kind = "overloadStart" => m.content \in BOOLEAN
         /\ m.kind = "errorIndication" => m.id \in RanId
BY Zenon DEF ToN3iwf

LEMMA MergeType ==
  ASSUME NEW old \in Served, NEW new \in Served PROVE Merge(old, new) \in Served
BY Zenon DEF Merge, Served

\* A handler keeps the types when it changes the contexts, timers, RAN UEs and what is under
\* way within theirs.
LEMMA HandlerType ==
  ASSUME TypeOK, NEW a \in Amf, NEW k, Dispatched(a, k),
         run' \in {"running", "crashed"},
         AMFPool' \in [Amf -> AmfCtx \cup {None}],
         available' \in [Amf -> BOOLEAN], timers' \in [Amf -> [TimerKind -> Nat]],
         RanUePool' \in [RanId -> Amf \cup {None}],
         toAmf' \in [Amf -> Seq(ToAmf)]
  PROVE  TypeOK'
BY Zenon, DispatchedType DEF TypeOK

LEMMA NewAmfType == ASSUME TypeOK, NEW a \in Amf PROVE NewN3iwfAmf(a) \in AmfCtx
<1>1. [served |-> NoLists, tnl |-> FALSE, overload |-> FALSE] \in AmfCtx
  BY Zenon DEF AmfCtx, NoLists, Served
<1>2. AMFPool[a] # None => AMFPool[a] \in AmfCtx BY Zenon DEF TypeOK
<1> QED BY Zenon, <1>1, <1>2 DEF NewN3iwfAmf

LEMMA StartWaitType ==
  ASSUME TypeOK, NEW a \in Amf, NEW k \in TimerKind, StartWait(a, k)
  PROVE  /\ available' \in [Amf -> BOOLEAN] /\ timers' \in [Amf -> [TimerKind -> Nat]]
         /\ toAmf' = toAmf
<1>1. timers[a] \in [TimerKind -> Nat] /\ timers[a][k] + 1 \in Nat BY DEF TypeOK
<1>2. [timers[a] EXCEPT ![k] = timers[a][k] + 1] \in [TimerKind -> Nat] BY Zenon, <1>1
<1>3. timers' = [timers EXCEPT ![a] = [timers[a] EXCEPT ![k] = timers[a][k] + 1]]
  BY Zenon DEF StartWait
<1>4. timers' \in [Amf -> [TimerKind -> Nat]] BY Zenon, <1>2, <1>3 DEF TypeOK
<1>5. available' \in [Amf -> BOOLEAN] BY Zenon DEF TypeOK, StartWait
<1> QED BY Zenon, <1>4, <1>5 DEF StartWait

\* The handlers that concern the NG Setup and the AMF's configuration keep the types.
LEMMA ContextHandlersType ==
  ASSUME TypeOK, NEW a \in Amf,
         \/ HandleNGSetupResponse(a) \/ HandleNGSetupFailure(a)
         \/ HandleAMFConfigurationUpdate(a) \/ HandleOverload(a)
         \/ HandleRANConfigurationUpdateFailure(a)
         \/ HandleRANConfigurationUpdateAcknowledge(a)
  PROVE  TypeOK'
<1> USE Kinds
<1>0. /\ AMFPool \in [Amf -> AmfCtx \cup {None}]
      /\ available \in [Amf -> BOOLEAN] /\ timers \in [Amf -> [TimerKind -> Nat]]
      /\ RanUePool \in [RanId -> Amf \cup {None}] /\ toAmf \in [Amf -> Seq(ToAmf)]
  BY Zenon DEF TypeOK
<1>1. CASE HandleNGSetupResponse(a)
  <2>1. Dispatched(a, "setupResponse") BY Zenon, <1>1 DEF HandleNGSetupResponse
  <2>2. Msg.served \in Served /\ run = "running" BY Zenon, <2>1, DispatchedType, Fields
  <2>3. NewN3iwfAmf(a) \in AmfCtx BY Zenon, NewAmfType
  <2>4. [NewN3iwfAmf(a) EXCEPT !.served = Merge(@, Msg.served)] \in AmfCtx
    BY Zenon, <2>2, <2>3, MergeType DEF AmfCtx
  <2>5. AMFPool' \in [Amf -> AmfCtx \cup {None}] BY Zenon, <1>0, <1>1, <2>4 DEF HandleNGSetupResponse
  <2>6. toAmf' \in [Amf -> Seq(ToAmf)] BY Zenon, <1>0, <1>1, WriteType DEF HandleNGSetupResponse
  <2> QED BY Zenon, <1>0, <1>1, <2>1, <2>2, <2>5, <2>6, HandlerType DEF HandleNGSetupResponse
<1>2. CASE HandleNGSetupFailure(a)
  <2>1. Dispatched(a, "setupFailure") BY Zenon, <1>2 DEF HandleNGSetupFailure
  <2>2. run = "running" BY Zenon, <2>1, DispatchedType
  <2>3. /\ available' \in [Amf -> BOOLEAN] /\ timers' \in [Amf -> [TimerKind -> Nat]]
        /\ toAmf' \in [Amf -> Seq(ToAmf)]
    BY Zenon, <1>0, <1>2, WriteType, StartWaitType DEF HandleNGSetupFailure
  <2> QED BY Zenon, <1>0, <1>2, <2>1, <2>2, <2>3, HandlerType DEF HandleNGSetupFailure
<1>3. CASE HandleAMFConfigurationUpdate(a)
  <2>1. Dispatched(a, "configUpdate") BY Zenon, <1>3 DEF HandleAMFConfigurationUpdate
  <2>2. run = "running" /\ Msg.served \in Served /\ Msg.add \in BOOLEAN /\ Msg.remove \in BOOLEAN
    BY Zenon, <2>1, DispatchedType, Fields
  <2>3. ASSUME AMFPool[a] # None
        PROVE  Reconfigured(AMFPool[a], Msg) \in AmfCtx
    <3>1. AMFPool[a] \in AmfCtx BY Zenon, <1>0, <2>3
    <3> QED BY Zenon, <2>2, <3>1, MergeType DEF AmfCtx, Reconfigured
  <2>4. AMFPool' \in [Amf -> AmfCtx \cup {None}]
    BY Zenon, <1>0, <1>3, <2>3 DEF HandleAMFConfigurationUpdate
  <2>5. toAmf' \in [Amf -> Seq(ToAmf)] BY Zenon, <1>0, <1>3, WriteType DEF HandleAMFConfigurationUpdate
  <2> QED BY Zenon, <1>0, <1>3, <2>1, <2>2, <2>4, <2>5, HandlerType DEF HandleAMFConfigurationUpdate
<1>4. CASE HandleOverload(a)
  <2>1. PICK k \in {"overloadStart", "overloadStop"} : Dispatched(a, k) BY Zenon, <1>4 DEF HandleOverload
  <2>2. run = "running" BY Zenon, <2>1, DispatchedType
  <2>3. Dispatched(a, "overloadStart") => Msg.content \in BOOLEAN BY Zenon, DispatchedType, Fields
  <2>4. ASSUME AMFPool[a] # None, NEW b \in BOOLEAN
        PROVE  [AMFPool EXCEPT ![a].overload = b] \in [Amf -> AmfCtx \cup {None}]
    <3>1. AMFPool[a] \in AmfCtx BY Zenon, <1>0, <2>4
    <3>2. [AMFPool[a] EXCEPT !.overload = b] \in AmfCtx BY Zenon, <3>1 DEF AmfCtx
    <3> QED BY Zenon, <1>0, <3>2
  <2>5. AMFPool' \in [Amf -> AmfCtx \cup {None}]
    <3>1. CASE AMFPool[a] = None BY Zenon, <1>0, <1>4, <3>1 DEF HandleOverload
    <3>2. CASE AMFPool[a] # None
      <4>1. AMFPool[a].overload \in BOOLEAN BY Zenon, <1>0, <3>2 DEF AmfCtx
      <4>2. CASE Dispatched(a, "overloadStart") /\ AMFPool' = [AMFPool EXCEPT ![a].overload = @ \/ Msg.content]
        <5>1. (AMFPool[a].overload \/ Msg.content) \in BOOLEAN BY Zenon, <2>3, <4>1, <4>2
        <5>2. AMFPool' = [AMFPool EXCEPT ![a].overload = (AMFPool[a].overload \/ Msg.content)]
          BY Zenon, <4>2
        <5> QED BY Zenon, <2>4, <3>2, <5>1, <5>2
      <4>3. CASE AMFPool' = [AMFPool EXCEPT ![a].overload = FALSE]
        BY Zenon, <2>4, <3>2, <4>3
      <4> QED BY Zenon, <1>4, <3>2, <4>2, <4>3 DEF HandleOverload
    <3> QED BY Zenon, <3>1, <3>2
  <2> QED BY Zenon, <1>0, <1>4, <2>1, <2>2, <2>5, HandlerType DEF HandleOverload
<1>5. CASE HandleRANConfigurationUpdateFailure(a)
  <2>1. Dispatched(a, "updateFailure") BY Zenon, <1>5 DEF HandleRANConfigurationUpdateFailure
  <2>2. run = "running" BY Zenon, <2>1, DispatchedType
  <2>3. /\ available' \in [Amf -> BOOLEAN] /\ timers' \in [Amf -> [TimerKind -> Nat]]
        /\ toAmf' \in [Amf -> Seq(ToAmf)]
    BY Zenon, <1>0, <1>5, WriteType, StartWaitType DEF HandleRANConfigurationUpdateFailure, SendIfAvailable
  <2> QED BY Zenon, <1>0, <1>5, <2>1, <2>2, <2>3, HandlerType DEF HandleRANConfigurationUpdateFailure
<1>6. CASE HandleRANConfigurationUpdateAcknowledge(a)
  BY Zenon, <1>0, <1>6, HandlerType, DispatchedType DEF HandleRANConfigurationUpdateAcknowledge, ctxVars
<1> QED BY Zenon, <1>1, <1>2, <1>3, <1>4, <1>5, <1>6

\* So do the handlers that concern RAN UEs.
LEMMA ResetHandlersType ==
  ASSUME TypeOK, NEW a \in Amf,
         HandleNGResetAll(a) \/ HandleNGResetPart(a) \/ HandleErrorIndication(a)
  PROVE  TypeOK'
<1> USE Kinds
<1>0. /\ AMFPool \in [Amf -> AmfCtx \cup {None}]
      /\ available \in [Amf -> BOOLEAN] /\ timers \in [Amf -> [TimerKind -> Nat]]
      /\ RanUePool \in [RanId -> Amf \cup {None}] /\ toAmf \in [Amf -> Seq(ToAmf)]
  BY Zenon DEF TypeOK
<1>1. CASE HandleNGResetAll(a)
  <2>1. Dispatched(a, "resetAll") /\ run = "running" BY Zenon, <1>1, DispatchedType DEF HandleNGResetAll
  <2>2. toAmf' \in [Amf -> Seq(ToAmf)] BY Zenon, <1>0, <1>1, WriteType DEF HandleNGResetAll, ResetDone
  <2> QED BY Zenon, <1>0, <1>1, <2>1, <2>2, HandlerType DEF HandleNGResetAll, ctxVars
<1>2. CASE HandleNGResetPart(a)
  <2>1. Dispatched(a, "resetPart") /\ run = "running" BY Zenon, <1>2, DispatchedType DEF HandleNGResetPart
  <2>2. toAmf' \in [Amf -> Seq(ToAmf)] BY Zenon, <1>0, <1>2, WriteType DEF HandleNGResetPart, ResetDone
  <2>3. RanUePool' \in [RanId -> Amf \cup {None}] BY Zenon, <1>0, <1>2 DEF HandleNGResetPart
  <2> QED BY Zenon, <1>0, <1>2, <2>1, <2>2, <2>3, HandlerType DEF HandleNGResetPart, ctxVars
<1>3. CASE HandleErrorIndication(a)
  <2>1. Dispatched(a, "errorIndication") /\ run = "running"
    BY Zenon, <1>3, DispatchedType DEF HandleErrorIndication
  <2>2. RanUePool' \in [RanId -> Amf \cup {None}] BY Zenon, <1>0, <1>3 DEF HandleErrorIndication
  <2> QED BY Zenon, <1>0, <1>3, <2>1, <2>2, HandlerType DEF HandleErrorIndication, ctxVars
<1> QED BY Zenon, <1>1, <1>2, <1>3

\* Dialling, the receivers and the end of the event handler keep the types.
LEMMA ServerType ==
  ASSUME TypeOK,
         \/ DialSCTP \/ runNgapEventHandler \/ ReceiverClosed
         \/ \E a \in Amf : Receive(a) \/ ReceiveEnds(a)
  PROVE  TypeOK'
<1>0. AmfSctpAddrs \in Seq(Amf) /\ Len(AmfSctpAddrs) \in Nat /\ PktChLen \in Nat
  BY AmfNodeAssumption
<1>1. CASE DialSCTP
  <2> DEFINE a == AmfSctpAddrs[dial.next]
  <2>1. dial.next \in 1..Len(AmfSctpAddrs) /\ dial.tries \in 0..2
        /\ dial \in [next: 1..Len(AmfSctpAddrs) + 1, tries: 0..2]
    BY <1>0, <1>1 DEF TypeOK, DialSCTP
  <2>2. a \in Amf BY <1>0, <2>1
  <2>3. dial' \in [next: 1..Len(AmfSctpAddrs) + 1, tries: 0..2]
    <3>1. [next |-> dial.next + 1, tries |-> 0] \in [next: 1..Len(AmfSctpAddrs) + 1, tries: 0..2]
      BY <1>0, <2>1
    <3>2. dial.tries < 2 => [dial EXCEPT !.tries = @ + 1] \in [next: 1..Len(AmfSctpAddrs) + 1, tries: 0..2]
      BY <1>0, <2>1
    <3> QED BY Zenon, <1>1, <2>1, <3>1, <3>2 DEF DialSCTP
  <2>4. conn' \in [Amf -> {"none", "open", "closed", "broken"}]
    BY Zenon, <1>1, <2>2 DEF TypeOK, DialSCTP
  <2>5. toAmf' \in [Amf -> Seq(ToAmf)]
    <3>1. toAmf[a] \in Seq(ToAmf) /\ Append(toAmf[a], "setup") \in Seq(ToAmf)
      BY <2>2 DEF TypeOK, ToAmf
    <3>2. toAmf' = toAmf \/ toAmf' = [toAmf EXCEPT ![a] = toAmf[a]]
          \/ toAmf' = [toAmf EXCEPT ![a] = Append(toAmf[a], "setup")]
      BY Zenon, <1>1 DEF DialSCTP
    <3> QED BY Zenon, <2>2, <3>1, <3>2 DEF TypeOK
  <2>6. run' \in {"dialing", "failed"} /\ UNCHANGED <<rcvPktCh, ctxVars, RanUePool, amf, toN3iwf, hist>>
    BY Zenon, <1>1 DEF DialSCTP
  <2> QED BY Zenon, <2>3, <2>4, <2>5, <2>6 DEF TypeOK, ctxVars
<1>2. CASE runNgapEventHandler
  BY Zenon, <1>2 DEF TypeOK, runNgapEventHandler, ctxVars, netVars
<1>3. CASE ReceiverClosed
  BY <1>0, <1>3 DEF TypeOK, ReceiverClosed, ctxVars, netVars
<1>4. ASSUME NEW a \in Amf, Receive(a) PROVE TypeOK'
  <2>1. toN3iwf[a] \in Seq(ToN3iwf) /\ toN3iwf[a] # <<>> BY Zenon, <1>4 DEF TypeOK, Receive
  <2>2. Tail(toN3iwf[a]) \in Seq(ToN3iwf) /\ Head(toN3iwf[a]) \in ToN3iwf BY <2>1
  <2>3. [conn |-> a, msg |-> Head(toN3iwf[a])] \in Packet BY Zenon, <2>2 DEF Packet
  <2>4. toN3iwf' \in [Amf -> Seq(ToN3iwf)] BY Zenon, <1>4, <2>2 DEF TypeOK, Receive
  <2>5. rcvPktCh' \in Seq(Packet) /\ Len(rcvPktCh') <= PktChLen
    <3>1. rcvPktCh \in Seq(Packet) /\ Len(rcvPktCh) \in Nat /\ Len(rcvPktCh) <= PktChLen BY DEF TypeOK
    <3>2. CASE rcvPktCh' = rcvPktCh BY Zenon, <3>1, <3>2
    <3>3. CASE HasRoom /\ rcvPktCh' = Append(rcvPktCh, [conn |-> a, msg |-> Head(toN3iwf[a])])
      BY <1>0, <2>3, <3>1, <3>3 DEF HasRoom
    <3> QED BY Zenon, <1>4, <3>2, <3>3 DEF Receive
  <2> QED BY Zenon, <1>4, <2>4, <2>5 DEF TypeOK, Receive, srvVars, ctxVars
<1>5. ASSUME NEW a \in Amf, ReceiveEnds(a) PROVE TypeOK'
  <2>1. EmptyPacket \in Packet BY Zenon DEF EmptyPacket, Packet
  <2>2. rcvPktCh' \in Seq(Packet) /\ Len(rcvPktCh') <= PktChLen
    <3>1. rcvPktCh \in Seq(Packet) /\ Len(rcvPktCh) \in Nat /\ Len(rcvPktCh) <= PktChLen BY DEF TypeOK
    <3>2. CASE rcvPktCh' = rcvPktCh BY <3>1, <3>2
    <3>3. CASE HasRoom /\ rcvPktCh' = Append(rcvPktCh, EmptyPacket)
      BY <1>0, <2>1, <3>1, <3>3 DEF HasRoom
    <3>4. rcvPktCh' = rcvPktCh \/ (HasRoom /\ rcvPktCh' = Append(rcvPktCh, EmptyPacket))
      BY Zenon, <1>5 DEF ReceiveEnds
    <3> QED BY Zenon, <3>2, <3>3, <3>4
  <2>3. conn' \in [Amf -> {"none", "open", "closed", "broken"}]
    <3>1. conn \in [Amf -> {"none", "open", "closed", "broken"}] BY Zenon DEF TypeOK
    <3>2. conn' = [conn EXCEPT ![a] = "closed"] \/ conn' = [conn EXCEPT ![a] = "broken"]
      BY Zenon, <1>5 DEF ReceiveEnds
    <3> QED BY Zenon, <3>1, <3>2
  <2> QED BY Zenon, <1>5, <2>2, <2>3 DEF TypeOK, ReceiveEnds, ctxVars, netVars
<1> QED BY Zenon, <1>1, <1>2, <1>3, <1>4, <1>5

\* A waiting time that is over, and the selection of an AMF, keep the types.
LEMMA WaitSelectType ==
  ASSUME TypeOK, Registers \/ \E a \in Amf, k \in TimerKind : WaitOver(a, k)
  PROVE  TypeOK'
<1>1. ASSUME NEW a \in Amf, NEW k \in TimerKind, WaitOver(a, k) PROVE TypeOK'
  <2>1. timers[a] \in [TimerKind -> Nat] /\ timers[a][k] - 1 \in Nat BY <1>1 DEF TypeOK, WaitOver
  <2>2. [timers[a] EXCEPT ![k] = timers[a][k] - 1] \in [TimerKind -> Nat] BY Zenon, <2>1
  <2>3. timers' = [timers EXCEPT ![a] = [timers[a] EXCEPT ![k] = timers[a][k] - 1]]
    BY Zenon, <1>1 DEF WaitOver, Expired
  <2>4. timers' \in [Amf -> [TimerKind -> Nat]] BY Zenon, <2>2, <2>3 DEF TypeOK
  <2>5. toAmf' \in [Amf -> Seq(ToAmf)]
    BY Zenon, <1>1, WriteType, Kinds DEF WaitOver, SendIfAvailable
  <2>6. available' \in [Amf -> BOOLEAN] BY Zenon, <1>1 DEF TypeOK, WaitOver
  <2> QED BY Zenon, <1>1, <2>4, <2>5, <2>6 DEF TypeOK, WaitOver, srvVars
<1>2. ASSUME NEW g \in Guami, NEW p \in Plmn, HandleUnmarshalEAP5GData(g, p) PROVE TypeOK'
  <2>1. /\ UNCHANGED <<dial, conn, rcvPktCh, ctxVars, amf, netVars>>
        /\ run' \in {"running", "crashed"} /\ run = "running" /\ hist.rans < MaxRan
    BY Zenon, <1>2 DEF HandleUnmarshalEAP5GData
  <2>2. CASE UNCHANGED <<RanUePool, hist>>
    BY Zenon, <2>1, <2>2 DEF TypeOK, ctxVars, netVars
  <2>3. CASE \E a \in AMFSelection(g, p) :
               /\ RanUePool' = [RanUePool EXCEPT ![hist.rans + 1] = a]
               /\ hist' = [hist EXCEPT !.rans = @ + 1]
    <3>1. PICK a \in AMFSelection(g, p) :
               /\ RanUePool' = [RanUePool EXCEPT ![hist.rans + 1] = a]
               /\ hist' = [hist EXCEPT !.rans = @ + 1]
      BY Zenon, <2>3
    <3>2. a \in Amf BY Zenon, <3>1 DEF AMFSelection, Pool
    <3>3. RanUePool' \in [RanId -> Amf \cup {None}] BY Zenon, <3>1, <3>2 DEF TypeOK
    <3>4. hist.rans + 1 \in 0..MaxRan BY <2>1, AmfNodeAssumption DEF TypeOK
    <3>5. hist' \in [omitted: BOOLEAN, rans: 0..MaxRan, sent: 0..MaxSent, closed: 0..MaxClose]
      BY Zenon, <3>1, <3>4 DEF TypeOK
    <3> QED BY Zenon, <2>1, <3>3, <3>5 DEF TypeOK, ctxVars, netVars
  <2> QED BY Zenon, <1>2, <2>2, <2>3 DEF HandleUnmarshalEAP5GData
<1> QED BY Zenon, <1>1, <1>2 DEF Registers

-----------------------------------------------------------------------------
(* What AMFs say.                                                          *)

\* m leaves out what a handler, or the AMF selection later, takes for granted.
Omits(m) ==
    \/ m.kind = "resetAll" /\ ~m.cause
    \/ m.kind = "errorIndication" /\ m.ids \in IdsMissing
    \/ m.kind = "setupResponse" /\ m.ok /\ m.served.guami = None

\* The answer to an NG Setup Request.
LEMMA SetupSays ==
  ASSUME TypeOK, NEW a \in Amf, AnswerSetup(a)
  PROVE  \E m \in ToN3iwf, e \in AmfState, o \in BOOLEAN :
            /\ Say(a, m, e, o, 0) /\ (Omits(m) => o)
            /\ m.kind \in {"setupResponse", "setupFailure"} /\ e.update = amf[a].update
<1>0. amf[a] \in AmfState BY Zenon DEF TypeOK, AmfState
<1>1. ASSUME NEW s \in Offer,
             Say(a, [kind |-> "setupResponse", served |-> s, ok |-> TRUE],
                 [amf[a] EXCEPT !.up = TRUE], s.guami = None, 0)
      PROVE  \E m \in ToN3iwf, e \in AmfState, o \in BOOLEAN :
                /\ Say(a, m, e, o, 0) /\ (Omits(m) => o)
                /\ m.kind \in {"setupResponse", "setupFailure"} /\ e.update = amf[a].update
  <2> DEFINE m == [kind |-> "setupResponse", served |-> s, ok |-> TRUE]
             e == [amf[a] EXCEPT !.up = TRUE]
  <2>1. s \in Served BY Zenon, ContextAssumption
  <2>2. m \in ToN3iwf BY Zenon, <2>1 DEF ToN3iwf
  <2>3. e \in AmfState /\ e.update = amf[a].update BY Zenon, <1>0 DEF AmfState
  <2>4. Omits(m) => s.guami = None BY Zenon DEF Omits
  <2>5. (s.guami = None) \in BOOLEAN BY Zenon
  <2>6. m.kind = "setupResponse" BY Zenon
  <2>7. Say(a, m, e, s.guami = None, 0) BY Zenon, <1>1
  <2> HIDE DEF m, e
  <2> QED BY Zenon, <2>2, <2>3, <2>4, <2>5, <2>6, <2>7
<1>2. ASSUME Say(a, [kind |-> "setupResponse", served |-> NoLists, ok |-> FALSE],
                 [amf[a] EXCEPT !.up = TRUE, !.final = TRUE], FALSE, 0)
      PROVE  \E m \in ToN3iwf, e \in AmfState, o \in BOOLEAN :
                /\ Say(a, m, e, o, 0) /\ (Omits(m) => o)
                /\ m.kind \in {"setupResponse", "setupFailure"} /\ e.update = amf[a].update
  <2> DEFINE m == [kind |-> "setupResponse", served |-> NoLists, ok |-> FALSE]
             e == [amf[a] EXCEPT !.up = TRUE, !.final = TRUE]
  <2>1. NoLists \in Served BY Zenon DEF NoLists, Served
  <2>2. m \in ToN3iwf BY Zenon, <2>1 DEF ToN3iwf
  <2>3. e \in AmfState /\ e.update = amf[a].update BY Zenon, <1>0 DEF AmfState
  <2>4. ~Omits(m) BY Zenon DEF Omits
  <2>5. m.kind = "setupResponse" BY Zenon
  <2>6. Say(a, m, e, FALSE, 0) BY Zenon, <1>2
  <2> HIDE DEF m, e
  <2> QED BY Zenon, <2>2, <2>3, <2>4, <2>5, <2>6
<1>3. ASSUME NEW wait \in BOOLEAN, NEW ok \in BOOLEAN, amf[a].refused < MaxRefuse,
             Say(a, [kind |-> "setupFailure", wait |-> wait, ok |-> ok],
                 [amf[a] EXCEPT !.refused = @ + 1, !.final = ~wait], FALSE, 0)
      PROVE  \E m \in ToN3iwf, e \in AmfState, o \in BOOLEAN :
                /\ Say(a, m, e, o, 0) /\ (Omits(m) => o)
                /\ m.kind \in {"setupResponse", "setupFailure"} /\ e.update = amf[a].update
  <2> DEFINE m == [kind |-> "setupFailure", wait |-> wait, ok |-> ok]
             e == [amf[a] EXCEPT !.refused = @ + 1, !.final = ~wait]
  <2>1. amf[a].refused + 1 \in 0..MaxRefuse BY <1>0, <1>3, AmfNodeAssumption DEF AmfState
  <2>2. m \in ToN3iwf BY Zenon DEF ToN3iwf
  <2>3. e \in AmfState /\ e.update = amf[a].update BY Zenon, <1>0, <2>1 DEF AmfState
  <2>4. ~Omits(m) BY Zenon DEF Omits
  <2>5. m.kind = "setupFailure" BY Zenon
  <2>6. Say(a, m, e, FALSE, 0) BY Zenon, <1>3
  <2> HIDE DEF m, e
  <2> QED BY Zenon, <2>2, <2>3, <2>4, <2>5, <2>6
<1> QED BY Zenon, <1>1, <1>2, <1>3 DEF AnswerSetup

\* The answer to a RAN Configuration Update; an acknowledgement ends the procedure.
LEMMA UpdateSays ==
  ASSUME TypeOK, NEW a \in Amf, AnswerUpdate(a)
  PROVE  \E m \in ToN3iwf, e \in AmfState :
            /\ Say(a, m, e, FALSE, 0) /\ ~Omits(m) /\ e.up = amf[a].up
            /\ \/ m.kind = "updateAcknowledge"
               \/ m.kind = "updateFailure" /\ e.update
<1>0. amf[a] \in AmfState BY DEF TypeOK, AmfState
<1> DEFINE d == [amf[a] EXCEPT !.update = FALSE]
<1>1. d \in AmfState /\ d.up = amf[a].up /\ d.refused = amf[a].refused BY Zenon, <1>0 DEF AmfState
<1>2. CASE Say(a, [kind |-> "updateAcknowledge"], d, FALSE, 0)
  <2> DEFINE m == [kind |-> "updateAcknowledge"]
  <2>1. m \in ToN3iwf /\ ~Omits(m) /\ m.kind = "updateAcknowledge" BY Zenon DEF ToN3iwf, Omits
  <2>2. Say(a, m, d, FALSE, 0) BY Zenon, <1>2
  <2> HIDE DEF m, d
  <2> QED BY Zenon, <1>1, <2>1, <2>2
<1>3. ASSUME NEW wait \in BOOLEAN, amf[a].refused < MaxRefuse,
             Say(a, [kind |-> "updateFailure", wait |-> wait],
                 [d EXCEPT !.refused = @ + 1, !.update = TRUE], FALSE, 0)
      PROVE  \E m \in ToN3iwf, e \in AmfState :
                /\ Say(a, m, e, FALSE, 0) /\ ~Omits(m) /\ e.up = amf[a].up
                /\ \/ m.kind = "updateAcknowledge"
                   \/ m.kind = "updateFailure" /\ e.update
  <2> DEFINE m == [kind |-> "updateFailure", wait |-> wait]
             e == [d EXCEPT !.refused = @ + 1, !.update = TRUE]
  <2>1. d.refused + 1 \in 0..MaxRefuse BY <1>0, <1>1, <1>3, AmfNodeAssumption DEF AmfState
  <2>2. m \in ToN3iwf /\ ~Omits(m) /\ m.kind = "updateFailure" BY Zenon DEF ToN3iwf, Omits
  <2>3. e \in AmfState /\ e.update /\ e.up = amf[a].up
    <3> HIDE DEF d
    <3> QED BY Zenon, <1>1, <2>1 DEF AmfState
  <2>4. Say(a, m, e, FALSE, 0) BY Zenon, <1>3
  <2> HIDE DEF m, e, d
  <2> QED BY Zenon, <2>2, <2>3, <2>4
<1> QED BY Zenon, <1>2, <1>3 DEF AnswerUpdate

\* A procedure that an AMF starts, as far as it matters here: it is no NG Setup, and a RAN
\* Configuration Update Failure starts an update that is not going on.
Starts(a, m, e, o) ==
    /\ Say(a, m, e, o, 1) /\ (Omits(m) => o) /\ e.up = amf[a].up
    /\ m.kind \notin {"setupResponse", "setupFailure"}
    /\ IF m.kind = "updateFailure" THEN ~amf[a].update /\ e.update ELSE e.update = amf[a].update

LEMMA ProcedureSays ==
  ASSUME TypeOK, NEW a \in Amf, Procedure(a)
  PROVE  \E m \in ToN3iwf, e \in AmfState, o \in BOOLEAN : Starts(a, m, e, o)
<1> DEFINE reset == [amf[a] EXCEPT !.resets = @ + 1]
           P == \E m \in ToN3iwf, e \in AmfState, o \in BOOLEAN : Starts(a, m, e, o)
<1>0. amf[a] \in AmfState BY DEF TypeOK, AmfState
<1>r. reset \in AmfState /\ reset.up = amf[a].up /\ reset.update = amf[a].update
  BY <1>0 DEF AmfState
<1>g. ASSUME NEW m \in ToN3iwf, NEW o \in BOOLEAN, NEW e \in {amf[a], reset}, Say(a, m, e, o, 1),
             Omits(m) => o, m.kind \notin {"setupResponse", "setupFailure", "updateFailure"}
      PROVE  P
  <2>1. e \in AmfState /\ e.up = amf[a].up /\ e.update = amf[a].update BY Zenon, <1>0, <1>r
  <2> HIDE DEF reset
  <2> QED BY Zenon, <1>g, <2>1 DEF Starts
<1>1. ASSUME NEW ok \in BOOLEAN, NEW cause \in BOOLEAN,
             Say(a, [kind |-> "resetAll", ok |-> ok, cause |-> cause],
                 IF ok THEN reset ELSE amf[a], ~cause, 1)
      PROVE  P
  <2> DEFINE m == [kind |-> "resetAll", ok |-> ok, cause |-> cause]
             e == IF ok THEN reset ELSE amf[a]
  <2>1. m \in ToN3iwf /\ m.kind = "resetAll" BY Zenon DEF ToN3iwf
  <2>2. Omits(m) => ~cause BY Zenon DEF Omits
  <2>3. (~cause) \in BOOLEAN BY Zenon
  <2>4. Say(a, m, e, ~cause, 1) BY Zenon, <1>1
  <2>5. e \in {amf[a], reset} BY Zenon
  <2> HIDE DEF m, e, P, reset
  <2> QED BY Zenon, <1>g, <2>1, <2>2, <2>3, <2>4, <2>5
<1>2. ASSUME NEW items \in {<<[by |-> "ran", id |-> r], [by |-> "none"]>> : r \in RanId}
                            \cup {<<[by |-> "amf"]>>},
             Say(a, [kind |-> "resetPart", items |-> items], reset, FALSE, 1)
      PROVE  P
  <2> DEFINE m == [kind |-> "resetPart", items |-> items]
  <2>1. items \in Seq(Item)
    <3>1. CASE items = <<[by |-> "amf"]>>
      <4>1. [by |-> "amf"] \in Item BY Zenon DEF Item
      <4> QED BY <3>1, <4>1
    <3>2. ASSUME NEW r \in RanId, items = <<[by |-> "ran", id |-> r], [by |-> "none"]>>
          PROVE  items \in Seq(Item)
      <4>1. [by |-> "ran", id |-> r] \in Item /\ [by |-> "none"] \in Item BY Zenon DEF Item
      <4> QED BY <3>2, <4>1
    <3> QED BY Zenon, <3>1, <3>2
  <2>2. m \in ToN3iwf /\ m.kind = "resetPart" BY Zenon, <2>1 DEF ToN3iwf
  <2>3. ~Omits(m) BY Zenon DEF Omits
  <2>4. Say(a, m, reset, FALSE, 1) BY Zenon, <1>2
  <2> HIDE DEF m, P, reset
  <2> QED BY Zenon, <1>g, <2>2, <2>3, <2>4
<1>3. ASSUME NEW ids \in {"none", "one", "both"}, NEW r \in RanId,
             Say(a, [kind |-> "errorIndication", ids |-> ids, id |-> r], amf[a], ids = "none", 1)
      PROVE  P
  <2> DEFINE m == [kind |-> "errorIndication", ids |-> ids, id |-> r]
  <2>1. m \in ToN3iwf /\ m.kind = "errorIndication" BY Zenon DEF ToN3iwf
  <2>2. Omits(m) => ids = "none" BY Zenon DEF Omits, IdsMissing
  <2>3. (ids = "none") \in BOOLEAN BY Zenon
  <2>4. Say(a, m, amf[a], ids = "none", 1) BY Zenon, <1>3
  <2> HIDE DEF m, P, reset
  <2> QED BY Zenon, <1>g, <2>1, <2>2, <2>3, <2>4
<1>4. ASSUME NEW s \in Offer, NEW add \in BOOLEAN, NEW remove \in BOOLEAN,
             Say(a, [kind |-> "configUpdate", served |-> s, add |-> add, remove |-> remove],
                 amf[a], FALSE, 1)
      PROVE  P
  <2> DEFINE m == [kind |-> "configUpdate", served |-> s, add |-> add, remove |-> remove]
  <2>0. s \in Served BY Zenon, ContextAssumption
  <2>1. m \in ToN3iwf /\ m.kind = "configUpdate" BY Zenon, <2>0 DEF ToN3iwf
  <2>2. ~Omits(m) BY Zenon DEF Omits
  <2>3. Say(a, m, amf[a], FALSE, 1) BY Zenon, <1>4
  <2> HIDE DEF m, P, reset
  <2> QED BY Zenon, <1>g, <2>1, <2>2, <2>3
<1>5. ASSUME NEW c \in BOOLEAN, Say(a, [kind |-> "overloadStart", content |-> c], amf[a], FALSE, 1)
      PROVE  P
  <2> DEFINE m == [kind |-> "overloadStart", content |-> c]
  <2>1. m \in ToN3iwf /\ m.kind = "overloadStart" BY Zenon DEF ToN3iwf
  <2>2. ~Omits(m) BY Zenon DEF Omits
  <2>3. Say(a, m, amf[a], FALSE, 1) BY Zenon, <1>5
  <2> HIDE DEF m, P, reset
  <2> QED BY Zenon, <1>g, <2>1, <2>2, <2>3
<1>6. ASSUME Say(a, [kind |-> "overloadStop"], amf[a], FALSE, 1)
      PROVE  P
  <2> DEFINE m == [kind |-> "overloadStop"]
  <2>1. m \in ToN3iwf /\ m.kind = "overloadStop" BY Zenon DEF ToN3iwf
  <2>2. ~Omits(m) BY Zenon DEF Omits
  <2>3. Say(a, m, amf[a], FALSE, 1) BY Zenon, <1>6
  <2> HIDE DEF m, P, reset
  <2> QED BY Zenon, <1>g, <2>1, <2>2, <2>3
<1>7. ASSUME NEW wait \in BOOLEAN, ~amf[a].update,
             Say(a, [kind |-> "updateFailure", wait |-> wait],
                 [amf[a] EXCEPT !.update = TRUE], FALSE, 1)
      PROVE  P
  <2> DEFINE m == [kind |-> "updateFailure", wait |-> wait]
             e == [amf[a] EXCEPT !.update = TRUE]
  <2>1. m \in ToN3iwf /\ m.kind = "updateFailure" BY Zenon DEF ToN3iwf
  <2>2. ~Omits(m) BY Zenon DEF Omits
  <2>3. e \in AmfState /\ e.update /\ e.up = amf[a].up BY Zenon, <1>0 DEF AmfState
  <2>4. Say(a, m, e, FALSE, 1) BY Zenon, <1>7
  <2>5. Starts(a, m, e, FALSE)
    <3> HIDE DEF m, e
    <3> QED BY Zenon, <1>7, <2>1, <2>2, <2>3, <2>4 DEF Starts
  <2> HIDE DEF m, e
  <2> QED BY Zenon, <2>1, <2>3, <2>5
<1>8. P
  <2> HIDE DEF P
  <2>1. CASE \E ok, cause \in BOOLEAN :
               /\ ok \/ cause
               /\ Say(a, [kind |-> "resetAll", ok |-> ok, cause |-> cause],
                      IF ok THEN reset ELSE amf[a], ~cause, 1)
    BY Zenon, <1>1, <2>1
  <2>2. CASE \E items \in {<<[by |-> "ran", id |-> r], [by |-> "none"]>> : r \in RanId}
                           \cup {<<[by |-> "amf"]>>} :
               Say(a, [kind |-> "resetPart", items |-> items], reset, FALSE, 1)
    BY Zenon, <1>2, <2>2
  <2>3. CASE \E ids \in {"none", "one", "both"}, r \in RanId :
               Say(a, [kind |-> "errorIndication", ids |-> ids, id |-> r], amf[a], ids = "none", 1)
    BY Zenon, <1>3, <2>3
  <2>4. CASE \E s \in Offer, add, remove \in BOOLEAN :
               /\ add # remove
               /\ Say(a, [kind |-> "configUpdate", served |-> s, add |-> add, remove |-> remove],
                      amf[a], FALSE, 1)
    BY Zenon, <1>4, <2>4
  <2>5. CASE \E c \in BOOLEAN : Say(a, [kind |-> "overloadStart", content |-> c], amf[a], FALSE, 1)
    BY Zenon, <1>5, <2>5
  <2>6. CASE /\ ~amf[a].update
             /\ \E wait \in BOOLEAN :
                  Say(a, [kind |-> "updateFailure", wait |-> wait],
                      [amf[a] EXCEPT !.update = TRUE], FALSE, 1)
    BY Zenon, <1>7, <2>6
  <2> QED BY Zenon, <1>6, <2>1, <2>2, <2>3, <2>4, <2>5, <2>6 DEF Procedure
<1> QED BY Zenon, <1>8

\* Saying something keeps the types.
LEMMA SayType ==
  ASSUME TypeOK, NEW a \in Amf, NEW m \in ToN3iwf, NEW e \in AmfState, NEW o \in BOOLEAN,
         NEW n \in {0, 1}, n = 1 => hist.sent < MaxSent, Say(a, m, e, o, n)
  PROVE  /\ toN3iwf' \in [Amf -> Seq(ToN3iwf)] /\ amf' \in [Amf -> AmfState]
         /\ hist' \in History /\ hist'.omitted = (hist.omitted \/ o)
<1>1. toN3iwf[a] \in Seq(ToN3iwf) BY Zenon DEF TypeOK
<1>2. Append(toN3iwf[a], m) \in Seq(ToN3iwf) BY <1>1
<1>3. toN3iwf' \in [Amf -> Seq(ToN3iwf)] BY Zenon, <1>2 DEF TypeOK, Say
<1>4. amf' \in [Amf -> AmfState] BY Zenon DEF TypeOK, AmfState, Say
<1>5. hist \in History /\ hist.omitted \in BOOLEAN BY Zenon DEF TypeOK, History
<1>6. hist.sent + n \in 0..MaxSent BY <1>5, AmfNodeAssumption DEF History
<1>7. hist' = [hist EXCEPT !.omitted = (hist.omitted \/ o), !.sent = hist.sent + n] BY Zenon DEF Say
<1>8. (hist.omitted \/ o) \in BOOLEAN BY Zenon
<1>9. hist' \in History /\ hist'.omitted = (hist.omitted \/ o) BY Zenon, <1>5, <1>6, <1>7, <1>8 DEF History
<1> QED BY Zenon, <1>3, <1>4, <1>9

\* The AMFs keep the types.
LEMMA AmfType ==
  ASSUME TypeOK, NEW a \in Amf, AmfHandles(a) \/ AmfStarts(a) \/ AmfCloses(a)
  PROVE  TypeOK'
<1>0. TypeOK =
        (/\ TypeOK
         /\ amf \in [Amf -> AmfState] /\ hist \in History)
  BY Zenon DEF TypeOK, AmfState, History
<1>1. CASE AmfHandles(a)
  <2>1. toAmf[a] \in Seq(ToAmf) /\ toAmf[a] # <<>> BY Zenon, <1>1 DEF TypeOK, AmfHandles
  <2>2. Tail(toAmf[a]) \in Seq(ToAmf) BY <2>1
  <2>3. toAmf' \in [Amf -> Seq(ToAmf)] BY Zenon, <1>1, <2>2 DEF TypeOK, AmfHandles
  <2>4. toN3iwf' \in [Amf -> Seq(ToN3iwf)] /\ amf' \in [Amf -> AmfState] /\ hist' \in History
    <3>1. CASE AnswerSetup(a) BY <3>1, SetupSays, SayType
    <3>2. CASE AnswerUpdate(a)
      <4>1. PICK m \in ToN3iwf, e \in AmfState : Say(a, m, e, FALSE, 0) BY Zenon, <3>2, UpdateSays
      <4>2. FALSE \in BOOLEAN /\ 0 \in {0, 1} /\ 0 # 1 OBVIOUS
      <4> QED BY Zenon, <4>1, <4>2, SayType
    <3>3. CASE amf' = [amf EXCEPT ![a].resets = @ - 1] /\ UNCHANGED <<toN3iwf, hist>>
      <4>1. amf[a] \in AmfState /\ amf[a].resets - 1 \in Int BY <1>0 DEF AmfState
      <4>2. [amf[a] EXCEPT !.resets = amf[a].resets - 1] \in AmfState BY Zenon, <4>1 DEF AmfState
      <4>3. amf' = [amf EXCEPT ![a] = [amf[a] EXCEPT !.resets = amf[a].resets - 1]] BY Zenon, <3>3
      <4>4. amf' \in [Amf -> AmfState] BY Zenon, <1>0, <4>2, <4>3
      <4> QED BY Zenon, <3>3, <4>4, <1>0 DEF TypeOK
    <3>4. CASE UNCHANGED <<amf, toN3iwf, hist>> BY Zenon, <1>0, <3>4 DEF TypeOK
    <3> QED BY Zenon, <1>1, <3>1, <3>2, <3>3, <3>4 DEF AmfHandles
  <2> QED BY Zenon, <1>1, <2>3, <2>4 DEF TypeOK, AmfHandles, AmfState, History, srvVars, ctxVars
<1>2. CASE AmfStarts(a)
  <2>1. hist.sent < MaxSent /\ Procedure(a) BY Zenon, <1>2 DEF AmfStarts
  <2>2. toN3iwf' \in [Amf -> Seq(ToN3iwf)] /\ amf' \in [Amf -> AmfState] /\ hist' \in History
    <3>1. PICK m \in ToN3iwf, e \in AmfState, o \in BOOLEAN : Starts(a, m, e, o)
      BY Zenon, <2>1, ProcedureSays
    <3>2. Say(a, m, e, o, 1) BY Zenon, <3>1 DEF Starts
    <3> QED BY Zenon, <2>1, <3>2, SayType
  <2> QED BY Zenon, <1>2, <2>2 DEF TypeOK, AmfStarts, AmfState, History, srvVars, ctxVars
<1>3. CASE AmfCloses(a)
  <2>1. [amf[a] EXCEPT !.dead = TRUE] \in AmfState BY Zenon, <1>0 DEF AmfState
  <2>2. amf' \in [Amf -> AmfState] BY Zenon, <1>0, <1>3, <2>1 DEF AmfCloses
  <2>3. hist.closed + 1 \in 0..MaxClose BY <1>0, <1>3, AmfNodeAssumption DEF AmfCloses, History
  <2>4. hist' \in History BY Zenon, <1>0, <1>3, <2>3 DEF AmfCloses, History
  <2>5. toAmf' \in [Amf -> Seq(ToAmf)] BY <1>3 DEF TypeOK, AmfCloses
  <2> QED BY Zenon, <1>3, <2>2, <2>4, <2>5 DEF TypeOK, AmfCloses, AmfState, History, srvVars, ctxVars
<1> QED BY Zenon, <1>1, <1>2, <1>3

LEMMA InitType == Init => TypeOK
<1> SUFFICES ASSUME Init PROVE TypeOK BY Zenon
<1>1. dial \in [next: 1..Len(AmfSctpAddrs) + 1, tries: 0..2]
  BY AmfNodeAssumption DEF Init
<1>2. amf \in [Amf -> AmfState]
  BY AmfNodeAssumption DEF Init, AmfState
<1>3. hist \in History BY AmfNodeAssumption DEF Init, History
<1>4. rcvPktCh \in Seq(Packet) /\ Len(rcvPktCh) <= PktChLen BY AmfNodeAssumption DEF Init
<1>5. timers \in [Amf -> [TimerKind -> Nat]] BY Zenon DEF Init
<1>6. toAmf \in [Amf -> Seq(ToAmf)] /\ toN3iwf \in [Amf -> Seq(ToN3iwf)] BY DEF Init
<1> QED BY Zenon, <1>1, <1>2, <1>3, <1>4, <1>5, <1>6 DEF Init, TypeOK, AmfState, History

\* The steps of the event handler, by the message.
Handles(a) ==
    \/ HandleNGSetupResponse(a) \/ HandleNGSetupFailure(a)
    \/ HandleNGResetAll(a) \/ HandleNGResetPart(a) \/ HandleErrorIndication(a)
    \/ HandleAMFConfigurationUpdate(a) \/ HandleOverload(a)
    \/ HandleRANConfigurationUpdateFailure(a)
    \/ HandleRANConfigurationUpdateAcknowledge(a)

\* The steps of Next that are none of the event handler's.
LEMMA Steps ==
  ASSUME Next
  PROVE  \/ DialSCTP \/ runNgapEventHandler \/ ReceiverClosed \/ Registers
         \/ \E a \in Amf :
              \/ Handles(a) \/ Receive(a) \/ ReceiveEnds(a)
              \/ \E k \in TimerKind : WaitOver(a, k)
              \/ AmfHandles(a) \/ AmfStarts(a) \/ AmfCloses(a)
BY Zenon DEF Next, Dispatch, Handles

LEMMA NextType == ASSUME TypeOK, [Next]_vars PROVE TypeOK'
<1>1. CASE UNCHANGED vars BY Zenon, <1>1 DEF vars, TypeOK
<1>2. CASE DialSCTP \/ runNgapEventHandler \/ ReceiverClosed
           \/ \E a \in Amf : Receive(a) \/ ReceiveEnds(a)
  BY Zenon, <1>2, ServerType
<1>3. CASE Registers \/ \E a \in Amf, k \in TimerKind : WaitOver(a, k)
  BY Zenon, <1>3, WaitSelectType
<1>4. ASSUME NEW a \in Amf, Handles(a) PROVE TypeOK'
  BY Zenon, <1>4, ContextHandlersType, ResetHandlersType DEF Handles
<1>5. ASSUME NEW a \in Amf, AmfHandles(a) \/ AmfStarts(a) \/ AmfCloses(a) PROVE TypeOK'
  BY Zenon, <1>5, AmfType
<1> QED BY Zenon, <1>1, <1>2, <1>3, <1>4, <1>5, Steps

\* Every context, channel and message keeps its type; in particular the receivers never
\* put more into the channel than it holds.
THEOREM TypeCorrect == Spec => []TypeOK
<1>1. Init => TypeOK BY Zenon, InitType
<1>2. TypeOK /\ [Next]_vars => TypeOK' BY Zenon, NextType
<1> QED BY <1>1, <1>2, PTL DEF Spec

-----------------------------------------------------------------------------
(* RAN UEs.                                                                *)

\* A step removes the RAN UEs that the handled message names, and no other.
LEMMA NextRemovesNamed == ASSUME TypeOK, Next PROVE RemovesNamed
<1> SUFFICES ASSUME NEW r \in RanId, RanUePool[r] # None, RanUePool'[r] = None
             PROVE  \/ /\ Msg.kind = "resetPart"
                       /\ \E n \in DOMAIN Msg.items : Msg.items[n] = [by |-> "ran", id |-> r]
                    \/ Msg.kind = "errorIndication" /\ Msg.ids = "both" /\ r = Msg.id
  BY Zenon DEF RemovesNamed
<1>0. RanUePool \in [RanId -> Amf \cup {None}] /\ RanUePool' # RanUePool BY Zenon DEF TypeOK
<1>1. CASE Registers
  <2>1. PICK g \in Guami, p \in Plmn : HandleUnmarshalEAP5GData(g, p) BY Zenon, <1>1 DEF Registers
  <2>2. PICK a \in AMFSelection(g, p) : RanUePool' = [RanUePool EXCEPT ![hist.rans + 1] = a]
    BY Zenon, <1>0, <2>1 DEF HandleUnmarshalEAP5GData
  <2>3. a \in Amf BY Zenon, <2>2 DEF AMFSelection, Pool
  <2>4. a # None BY Zenon, <2>3, AmfNodeAssumption
  <2> QED BY Zenon, <1>0, <2>2, <2>4
<1>2. ASSUME NEW a \in Amf, HandleNGResetPart(a)
      PROVE  /\ Msg.kind = "resetPart"
             /\ \E n \in DOMAIN Msg.items : Msg.items[n] = [by |-> "ran", id |-> r]
  <2>1. Msg.kind = "resetPart" BY Zenon, <1>2, DispatchedType DEF HandleNGResetPart
  <2>2. r \in Resets(Msg.items) BY Zenon, <1>0, <1>2 DEF HandleNGResetPart
  <2> QED BY Zenon, <2>1, <2>2 DEF Resets
<1>3. ASSUME NEW a \in Amf, HandleErrorIndication(a)
      PROVE  Msg.kind = "errorIndication" /\ Msg.ids = "both" /\ r = Msg.id
  <2>1. Msg.kind = "errorIndication" BY Zenon, <1>3, DispatchedType DEF HandleErrorIndication
  <2>2. Msg.ids = "both" /\ RanUePool' = [RanUePool EXCEPT ![Msg.id] = None]
    BY Zenon, <1>0, <1>3 DEF HandleErrorIndication
  <2> QED BY Zenon, <1>0, <2>1, <2>2
<1>4. CASE DialSCTP \/ runNgapEventHandler \/ ReceiverClosed
  BY Zenon, <1>0, <1>4 DEF DialSCTP, runNgapEventHandler, ReceiverClosed
<1>5. ASSUME NEW a \in Amf,
             \/ Receive(a) \/ ReceiveEnds(a) \/ AmfHandles(a) \/ AmfStarts(a) \/ AmfCloses(a)
             \/ \E k \in TimerKind : WaitOver(a, k)
      PROVE  FALSE
  BY Zenon, <1>0, <1>5 DEF Receive, ReceiveEnds, AmfHandles, AmfStarts, AmfCloses, WaitOver
<1>6. ASSUME NEW a \in Amf, Handles(a), ~HandleNGResetPart(a), ~HandleErrorIndication(a)
      PROVE  FALSE
  BY Zenon, <1>0, <1>6
     DEF Handles, HandleNGSetupResponse, HandleNGSetupFailure, HandleNGResetAll,
         HandleAMFConfigurationUpdate, HandleOverload, HandleRANConfigurationUpdateFailure,
         HandleRANConfigurationUpdateAcknowledge
<1> QED BY Zenon, <1>1, <1>2, <1>3, <1>4, <1>5, <1>6, Steps

\* A reset or an Error Indication of an AMF removes only RAN UEs that it names, whatever else
\* is in the channel and however the removals interleave with registrations
\* (HandleNGReset, HandleErrorIndication).
THEOREM NamedOnlyAlways == Spec => NamedOnly
<1>1. TypeOK /\ [Next]_vars => [RemovesNamed]_vars
  BY Zenon, NextRemovesNamed
<1> QED BY <1>1, TypeCorrect, PTL DEF Spec, NamedOnly

-----------------------------------------------------------------------------
(* Crashes.  What a handler takes for granted is there, in every message   *)
(* under way and in every context of the pool, until an AMF leaves it out. *)

Complete ==
    /\ \A a \in Amf : \A n \in DOMAIN toN3iwf[a] : ~Omits(toN3iwf[a][n])
    /\ \A n \in DOMAIN rcvPktCh : rcvPktCh[n].conn # None => ~Omits(rcvPktCh[n].msg)
    /\ \A a \in Amf : AMFPool[a] # None => ~NoGuamis(a)

CrashInv == hist.omitted \/ (Complete /\ run # "crashed")

\* The message the event handler takes is complete as long as all are.
LEMMA HandledComplete ==
  ASSUME TypeOK, Complete, NEW a \in Amf, NEW k, Dispatched(a, k)
  PROVE  /\ ~Omits(Msg)
         /\ \A n \in DOMAIN rcvPktCh' : rcvPktCh'[n].conn # None => ~Omits(rcvPktCh'[n].msg)
<1>1. rcvPktCh \in Seq(Packet) /\ rcvPktCh # <<>> /\ rcvPktCh' = Tail(rcvPktCh)
  BY Zenon DEF TypeOK, Dispatched
<1>2. 1 \in DOMAIN rcvPktCh /\ rcvPktCh[1] = Head(rcvPktCh) BY <1>1
<1>3. Head(rcvPktCh).conn # None BY Zenon, AmfNodeAssumption DEF Dispatched
<1>4. ~Omits(Msg) BY Zenon, <1>2, <1>3 DEF Complete, Msg
<1>5. ASSUME NEW n \in DOMAIN rcvPktCh', rcvPktCh'[n].conn # None PROVE ~Omits(rcvPktCh'[n].msg)
  <2>1. n + 1 \in DOMAIN rcvPktCh /\ rcvPktCh'[n] = rcvPktCh[n + 1] BY <1>1
  <2> QED BY Zenon, <1>5, <2>1 DEF Complete
<1> QED BY Zenon, <1>4, <1>5

\* The handlers of complete messages neither crash nor store a context without GUAMIs.
LEMMA HandlesComplete ==
  ASSUME TypeOK, Complete, run # "crashed", NEW a \in Amf, Handles(a)
  PROVE  Complete' /\ run' # "crashed"
<1>1. PICK k : Dispatched(a, k)
  BY Zenon DEF Handles, HandleNGSetupResponse, HandleNGSetupFailure, HandleNGResetAll,
        HandleNGResetPart, HandleErrorIndication, HandleAMFConfigurationUpdate, HandleOverload,
        HandleRANConfigurationUpdateFailure, HandleRANConfigurationUpdateAcknowledge
<1>2. /\ ~Omits(Msg) /\ Msg.kind = k /\ toN3iwf' = toN3iwf
      /\ \A n \in DOMAIN rcvPktCh' : rcvPktCh'[n].conn # None => ~Omits(rcvPktCh'[n].msg)
  BY Zenon, <1>1, HandledComplete, DispatchedType
<1>3. SUFFICES /\ run' # "crashed"
               /\ \A b \in Amf : AMFPool'[b] # None => AMFPool'[b].served.guami # None
  BY Zenon, <1>2 DEF Complete, NoGuamis
<1>4. \A b \in Amf : AMFPool[b] # None => AMFPool[b].served.guami # None BY Zenon DEF Complete, NoGuamis
<1>5. AMFPool \in [Amf -> AmfCtx \cup {None}] BY Zenon DEF TypeOK
<1>6. CASE HandleNGSetupResponse(a)
  <2>1. Dispatched(a, "setupResponse") /\ run' = run BY Zenon, <1>6 DEF HandleNGSetupResponse
  <2>2. Msg.kind = "setupResponse" /\ Msg \in ToN3iwf BY Zenon, <2>1, DispatchedType
  <2>3. CASE Msg.ok
    <3>1. Msg.served.guami # None BY Zenon, <1>2, <2>2, <2>3 DEF Omits
    <3>2. Merge(NewN3iwfAmf(a).served, Msg.served).guami # None BY Zenon, <3>1 DEF Merge
    <3>3. NewN3iwfAmf(a) \in AmfCtx BY Zenon, NewAmfType
    <3>4. AMFPool' = [AMFPool EXCEPT ![a] =
             [NewN3iwfAmf(a) EXCEPT !.served = Merge(NewN3iwfAmf(a).served, Msg.served)]]
      BY Zenon, <1>6, <2>3 DEF HandleNGSetupResponse
    <3>5. [NewN3iwfAmf(a) EXCEPT !.served = Merge(NewN3iwfAmf(a).served, Msg.served)].served.guami # None
      BY Zenon, <3>2, <3>3 DEF AmfCtx
    <3> QED BY Zenon, <1>4, <1>5, <2>1, <3>4, <3>5
  <2>4. CASE ~Msg.ok BY Zenon, <1>4, <1>6, <2>1, <2>4 DEF HandleNGSetupResponse
  <2> QED BY Zenon, <2>3, <2>4
<1>7. CASE HandleAMFConfigurationUpdate(a)
  <2>1. CASE AMFPool[a] = None BY Zenon, <1>4, <1>7, <2>1 DEF HandleAMFConfigurationUpdate
  <2>2. CASE AMFPool[a] # None
    <3>1. AMFPool[a] \in AmfCtx /\ AMFPool[a].served.guami # None BY Zenon, <1>4, <1>5, <2>2
    <3>2. Reconfigured(AMFPool[a], Msg).served = Merge(AMFPool[a].served, Msg.served)
      BY Zenon, <3>1 DEF AmfCtx, Reconfigured
    <3>3. Merge(AMFPool[a].served, Msg.served).guami # None BY Zenon, <3>1 DEF Merge
    <3>4. AMFPool' = [AMFPool EXCEPT ![a] = Reconfigured(AMFPool[a], Msg)] /\ run' = run
      BY Zenon, <1>7, <2>2 DEF HandleAMFConfigurationUpdate
    <3> QED BY Zenon, <1>4, <1>5, <3>2, <3>3, <3>4
  <2> QED BY Zenon, <2>1, <2>2
<1>8. CASE HandleOverload(a)
  <2>1. ASSUME NEW x PROVE \A b \in Amf : [AMFPool EXCEPT ![a].overload = x][b] # None /\ AMFPool[a] # None
                             => [AMFPool EXCEPT ![a].overload = x][b].served.guami # None
    BY Zenon, <1>4, <1>5 DEF AmfCtx
  <2>2. run' = run /\ (AMFPool' = AMFPool \/ (AMFPool[a] # None /\ \E x : AMFPool' = [AMFPool EXCEPT ![a].overload = x]))
    BY Zenon, <1>8 DEF HandleOverload
  <2> QED BY Zenon, <1>4, <2>1, <2>2
<1>9. CASE HandleNGResetAll(a)
  <2>1. Dispatched(a, "resetAll") BY Zenon, <1>9 DEF HandleNGResetAll
  <2>2. Msg.kind = "resetAll" BY Zenon, <2>1, DispatchedType
  <2>3. Msg.cause BY Zenon, <1>2, <2>2 DEF Omits
  <2>4. run' = run /\ AMFPool' = AMFPool BY Zenon, <1>9, <2>3 DEF HandleNGResetAll, ctxVars
  <2> QED BY Zenon, <1>4, <2>4
<1>10. CASE HandleErrorIndication(a)
  <2>1. Dispatched(a, "errorIndication") BY Zenon, <1>10 DEF HandleErrorIndication
  <2>2. Msg.kind = "errorIndication" BY Zenon, <2>1, DispatchedType
  <2>3. Msg.ids \notin IdsMissing BY Zenon, <1>2, <2>2 DEF Omits
  <2>4. run' = run /\ AMFPool' = AMFPool BY Zenon, <1>10, <2>3 DEF HandleErrorIndication, ctxVars
  <2> QED BY <1>4, <2>4
<1>11. CASE \/ HandleNGSetupFailure(a) \/ HandleNGResetPart(a)
            \/ HandleRANConfigurationUpdateFailure(a) \/ HandleRANConfigurationUpdateAcknowledge(a)
  <2>1. run' = run /\ AMFPool' = AMFPool
    BY Zenon, <1>11 DEF HandleNGSetupFailure, HandleNGResetPart, HandleRANConfigurationUpdateFailure,
         HandleRANConfigurationUpdateAcknowledge, ctxVars
  <2> QED BY <1>4, <2>1
<1> QED BY Zenon, <1>6, <1>7, <1>8, <1>9, <1>10, <1>11 DEF Handles

\* Whoever says something incomplete is recorded.
LEMMA SayComplete ==
  ASSUME TypeOK, Complete, NEW a \in Amf, NEW m \in ToN3iwf, NEW e \in AmfState, NEW o \in BOOLEAN,
         NEW n \in {0, 1}, n = 1 => hist.sent < MaxSent, Say(a, m, e, o, n), Omits(m) => o
  PROVE  hist'.omitted \/ \A b \in Amf : \A i \in DOMAIN toN3iwf'[b] : ~Omits(toN3iwf'[b][i])
<1>1. CASE o BY Zenon, <1>1, SayType
<1>2. CASE ~o
  <2>1. ~Omits(m) BY Zenon, <1>2
  <2>2. SUFFICES ASSUME NEW b \in Amf, NEW i \in DOMAIN toN3iwf'[b] PROVE ~Omits(toN3iwf'[b][i])
    BY Zenon
  <2>3. toN3iwf \in [Amf -> Seq(ToN3iwf)] /\ toN3iwf' = [toN3iwf EXCEPT ![a] = Append(toN3iwf[a], m)]
    BY Zenon DEF TypeOK, Say
  <2>4. \A j \in DOMAIN toN3iwf[b] : ~Omits(toN3iwf[b][j]) BY Zenon DEF Complete
  <2>5. toN3iwf'[b][i] = m \/ (i \in DOMAIN toN3iwf[b] /\ toN3iwf'[b][i] = toN3iwf[b][i]) BY <2>3
  <2> QED BY Zenon, <2>1, <2>4, <2>5
<1> QED BY Zenon, <1>1, <1>2

LEMMA NextCrash == ASSUME TypeOK, CrashInv, [Next]_vars PROVE CrashInv'
<1>1. CASE hist.omitted
  <2>1. hist'.omitted
    <3>1. CASE hist' = hist BY Zenon, <1>1, <3>1
    <3>2. CASE hist' # hist
      <4>0. hist \in History BY Zenon DEF TypeOK, History
      <4>1. CASE Registers
        BY Zenon, <1>1, <3>2, <4>0, <4>1 DEF Registers, HandleUnmarshalEAP5GData, History
      <4>2. ASSUME NEW a \in Amf, NEW m, NEW e, NEW o \in BOOLEAN, NEW n, Say(a, m, e, o, n)
            PROVE  hist'.omitted
        BY Zenon, <1>1, <4>0, <4>2 DEF Say, History
      <4>3. ASSUME NEW a \in Amf, AmfHandles(a) PROVE hist'.omitted
        <5>1. AnswerSetup(a) \/ AnswerUpdate(a) BY Zenon, <3>2, <4>3 DEF AmfHandles
        <5>2. FALSE \in BOOLEAN BY Zenon
        <5> QED BY Zenon, <4>2, <5>1, <5>2, SetupSays, UpdateSays
      <4>4. ASSUME NEW a \in Amf, AmfStarts(a) PROVE hist'.omitted
        BY Zenon, <4>2, <4>4, ProcedureSays DEF AmfStarts, Starts
      <4>5. ASSUME NEW a \in Amf, AmfCloses(a) PROVE hist'.omitted
        BY Zenon, <1>1, <4>0, <4>5 DEF AmfCloses, History
      <4>6. Registers \/ \E a \in Amf : AmfHandles(a) \/ AmfStarts(a) \/ AmfCloses(a)
        <5>1. ~UNCHANGED vars BY Zenon, <3>2 DEF vars
        <5>2. ~(DialSCTP \/ runNgapEventHandler \/ ReceiverClosed)
          BY Zenon, <3>2 DEF DialSCTP, runNgapEventHandler, ReceiverClosed
        <5>3. ASSUME NEW a \in Amf, Receive(a) \/ ReceiveEnds(a) \/ \E k \in TimerKind : WaitOver(a, k)
              PROVE  FALSE
          BY Zenon, <3>2, <5>3 DEF Receive, ReceiveEnds, WaitOver
        <5>4. ASSUME NEW a \in Amf, Handles(a) PROVE FALSE
          BY Zenon, <3>2, <5>4 DEF Handles, HandleNGSetupResponse, HandleNGSetupFailure, HandleNGResetAll,
             HandleNGResetPart, HandleErrorIndication, HandleAMFConfigurationUpdate, HandleOverload,
             HandleRANConfigurationUpdateFailure, HandleRANConfigurationUpdateAcknowledge, Dispatched
        <5> QED BY Zenon, <5>1, <5>2, <5>3, <5>4, Steps
      <4> QED BY Zenon, <4>1, <4>3, <4>4, <4>5, <4>6
    <3> QED BY Zenon, <3>1, <3>2
  <2> QED BY Zenon, <2>1 DEF CrashInv
<1>2. CASE Complete /\ run # "crashed"
  <2>1. CASE UNCHANGED vars BY Zenon, <1>2, <2>1 DEF vars, CrashInv, Complete, NoGuamis
  <2>2. CASE DialSCTP \/ runNgapEventHandler
    <3>1. UNCHANGED <<toN3iwf, rcvPktCh, AMFPool>> /\ run' # "crashed"
      BY Zenon, <1>2, <2>2 DEF DialSCTP, runNgapEventHandler, ctxVars, netVars
    <3> QED BY Zenon, <1>2, <3>1 DEF CrashInv, Complete, NoGuamis
  <2>3. CASE ReceiverClosed
    <3>1. UNCHANGED <<toN3iwf, AMFPool>> /\ rcvPktCh' = <<>> /\ run' # "crashed"
      BY Zenon, <2>3 DEF ReceiverClosed, ctxVars, netVars
    <3> QED BY <1>2, <3>1 DEF CrashInv, Complete, NoGuamis
  <2>4. CASE Registers
    <3>1. ~\E a \in Pool : NoGuamis(a) BY Zenon, <1>2 DEF Pool, Complete
    <3>2. UNCHANGED <<toN3iwf, rcvPktCh, AMFPool, run>>
      BY Zenon, <2>4, <3>1 DEF Registers, HandleUnmarshalEAP5GData, ctxVars, netVars
    <3> QED BY Zenon, <1>2, <3>2 DEF CrashInv, Complete, NoGuamis
  <2>5. ASSUME NEW a \in Amf, Handles(a) PROVE CrashInv'
    BY Zenon, <1>2, <2>5, HandlesComplete DEF CrashInv
  <2>6. ASSUME NEW a \in Amf, Receive(a) PROVE CrashInv'
    <3>1. UNCHANGED <<AMFPool, run>> BY Zenon, <2>6 DEF Receive, srvVars, ctxVars
    <3>2. toN3iwf \in [Amf -> Seq(ToN3iwf)] /\ toN3iwf[a] # <<>>
          /\ toN3iwf' = [toN3iwf EXCEPT ![a] = Tail(toN3iwf[a])]
      BY Zenon, <2>6 DEF TypeOK, Receive
    <3>3. ASSUME NEW b \in Amf, NEW n \in DOMAIN toN3iwf'[b] PROVE ~Omits(toN3iwf'[b][n])
      <4>1. \A j \in DOMAIN toN3iwf[b] : ~Omits(toN3iwf[b][j]) BY Zenon, <1>2 DEF Complete
      <4>2. CASE b = a
        <5>1. n + 1 \in DOMAIN toN3iwf[b] /\ toN3iwf'[b][n] = toN3iwf[b][n + 1] BY <3>2, <3>3, <4>2
        <5> QED BY Zenon, <4>1, <5>1
      <4>3. CASE b # a BY Zenon, <3>2, <4>1, <4>3
      <4> QED BY Zenon, <4>2, <4>3
    <3>4. ~Omits(Head(toN3iwf[a]))
      <4>1. 1 \in DOMAIN toN3iwf[a] /\ toN3iwf[a][1] = Head(toN3iwf[a]) BY <3>2
      <4> QED BY Zenon, <1>2, <4>1 DEF Complete
    <3>5. ASSUME NEW n \in DOMAIN rcvPktCh', rcvPktCh'[n].conn # None PROVE ~Omits(rcvPktCh'[n].msg)
      <4>1. \A j \in DOMAIN rcvPktCh : rcvPktCh[j].conn # None => ~Omits(rcvPktCh[j].msg)
        BY Zenon, <1>2 DEF Complete
      <4>2. rcvPktCh \in Seq(Packet) BY Zenon DEF TypeOK
      <4>3. CASE rcvPktCh' = Append(rcvPktCh, [conn |-> a, msg |-> Head(toN3iwf[a])])
        <5>1. rcvPktCh'[n] = [conn |-> a, msg |-> Head(toN3iwf[a])]
              \/ (n \in DOMAIN rcvPktCh /\ rcvPktCh'[n] = rcvPktCh[n])
          <6>1. PICK x : x = [conn |-> a, msg |-> Head(toN3iwf[a])] BY Zenon
          <6>2. rcvPktCh' = Append(rcvPktCh, x) BY Zenon, <4>3, <6>1
          <6>3. n \in DOMAIN rcvPktCh' BY Zenon, <3>5
          <6>4. rcvPktCh'[n] = x \/ (n \in DOMAIN rcvPktCh /\ rcvPktCh'[n] = rcvPktCh[n])
            BY ONLY <4>2, <6>2, <6>3
          <6> QED BY Zenon, <6>1, <6>4
        <5>2. CASE rcvPktCh'[n] = [conn |-> a, msg |-> Head(toN3iwf[a])]
          <6>1. rcvPktCh'[n].msg = Head(toN3iwf[a]) BY ONLY <5>2
          <6> QED BY ONLY Zenon, <3>4, <6>1
        <5>3. CASE n \in DOMAIN rcvPktCh /\ rcvPktCh'[n] = rcvPktCh[n] BY ONLY Zenon, <3>5, <4>1, <5>3
        <5> QED BY Zenon, <5>1, <5>2, <5>3
      <4>4. CASE rcvPktCh' = rcvPktCh BY Zenon, <3>5, <4>1, <4>4
      <4> QED BY Zenon, <2>6, <4>3, <4>4 DEF Receive
    <3> QED BY Zenon, <1>2, <3>1, <3>3, <3>5 DEF CrashInv, Complete, NoGuamis
  <2>7. ASSUME NEW a \in Amf, ReceiveEnds(a) PROVE CrashInv'
    <3>1. UNCHANGED <<AMFPool, run, toN3iwf>> BY Zenon, <2>7 DEF ReceiveEnds, ctxVars, netVars
    <3>2. rcvPktCh' = rcvPktCh \/ rcvPktCh' = Append(rcvPktCh, EmptyPacket) BY Zenon, <2>7 DEF ReceiveEnds
    <3>3. ASSUME NEW n \in DOMAIN rcvPktCh', rcvPktCh'[n].conn # None PROVE ~Omits(rcvPktCh'[n].msg)
      <4>1. \A j \in DOMAIN rcvPktCh : rcvPktCh[j].conn # None => ~Omits(rcvPktCh[j].msg)
        BY <1>2 DEF Complete
      <4>2. rcvPktCh \in Seq(Packet) BY DEF TypeOK
      <4>3. rcvPktCh'[n] = EmptyPacket \/ (n \in DOMAIN rcvPktCh /\ rcvPktCh'[n] = rcvPktCh[n])
        BY <3>2, <3>3, <4>2
      <4> QED BY <3>3, <4>1, <4>3 DEF EmptyPacket
    <3> QED BY Zenon, <1>2, <3>1, <3>3 DEF CrashInv, Complete, NoGuamis
  <2>8. ASSUME NEW a \in Amf, (\E k \in TimerKind : WaitOver(a, k)) \/ AmfCloses(a) PROVE CrashInv'
    <3>1. UNCHANGED <<AMFPool, run, toN3iwf, rcvPktCh>>
      BY Zenon, <2>8 DEF WaitOver, AmfCloses, srvVars, ctxVars
    <3> QED BY Zenon, <1>2, <3>1 DEF CrashInv, Complete, NoGuamis
  <2>9. ASSUME NEW a \in Amf, AmfHandles(a) \/ AmfStarts(a) PROVE CrashInv'
    <3>1. UNCHANGED <<AMFPool, run, rcvPktCh>>
      BY Zenon, <2>9 DEF AmfHandles, AmfStarts, srvVars, ctxVars
    <3>2. 0 \in {0, 1} /\ 1 \in {0, 1} /\ 0 # 1 /\ FALSE \in BOOLEAN OBVIOUS
    <3>3. hist'.omitted \/ \A b \in Amf : \A i \in DOMAIN toN3iwf'[b] : ~Omits(toN3iwf'[b][i])
      <4>1. CASE AnswerSetup(a) BY Zenon, <1>2, <3>2, <4>1, SetupSays, SayComplete
      <4>2. CASE AnswerUpdate(a) BY Zenon, <1>2, <3>2, <4>2, UpdateSays, SayComplete
      <4>3. CASE AmfStarts(a)
        BY Zenon, <1>2, <3>2, <4>3, ProcedureSays, SayComplete DEF AmfStarts, Starts
      <4>4. CASE toN3iwf' = toN3iwf BY Zenon, <1>2, <4>4 DEF Complete
      <4> QED BY Zenon, <2>9, <4>1, <4>2, <4>3, <4>4 DEF AmfHandles
    <3> QED BY Zenon, <1>2, <3>1, <3>3 DEF CrashInv, Complete, NoGuamis
  <2> QED BY Zenon, <2>1, <2>2, <2>3, <2>4, <2>5, <2>6, <2>7, <2>8, <2>9, Steps
<1> QED BY Zenon, <1>1, <1>2 DEF CrashInv

\* The process ends by a nil dereference only after an AMF has left out a ServedGUAMIList, the
\* cause of a reset, or both UE IDs of an Error Indication: no order of complete messages,
\* updates that leave a list out included, makes a handler or AMFSelection dereference nil.
THEOREM CrashOnlyAfterOmission == Spec => []CrashNeedsOmission
<1>1. Init => CrashInv BY DEF Init, CrashInv, Complete
<1>2. TypeOK /\ CrashInv /\ [Next]_vars => CrashInv' BY Zenon, NextCrash
<1>3. CrashInv => CrashNeedsOmission BY Zenon DEF CrashInv, CrashNeedsOmission
<1> QED BY <1>1, <1>2, <1>3, TypeCorrect, PTL DEF Spec

-----------------------------------------------------------------------------
(* Procedures with waiting times.  Of a procedure with an AMF there is at  *)
(* most one token: a request, an answer under way or in the channel, or a  *)
(* timer.                                                                  *)

At(s, V) == {n \in DOMAIN s : s[n] \in V}
Unique(X) == \A m, n \in X : m = n

\* Nothing is added from X to Y.
Shrinks(X, Y) == (X = {} => Y = {}) /\ (Unique(X) => Unique(Y))

\* Appending e to s.
LEMMA AppendAt ==
  ASSUME NEW S, NEW s \in Seq(S), NEW e \in S, NEW V
  PROVE  /\ e \notin V => At(Append(s, e), V) = At(s, V)
         /\ At(s, V) = {} => Unique(At(Append(s, e), V))
<1>1. DOMAIN Append(s, e) = 1..Len(s) + 1 /\ DOMAIN s = 1..Len(s) /\ Len(s) \in Nat
      /\ \A n \in 1..Len(s) : Append(s, e)[n] = s[n]
      /\ Append(s, e)[Len(s) + 1] = e
  OBVIOUS
<1>2. ASSUME e \notin V PROVE At(Append(s, e), V) = At(s, V)
  BY <1>1, <1>2 DEF At
<1>3. ASSUME At(s, V) = {} PROVE Unique(At(Append(s, e), V))
  <2>1. ASSUME NEW n \in At(Append(s, e), V) PROVE n = Len(s) + 1
    BY <1>1, <1>3, <2>1 DEF At
  <2> QED BY Zenon, <2>1 DEF Unique
<1> QED BY Zenon, <1>2, <1>3

\* Taking the first element of s.
LEMMA TailAt ==
  ASSUME NEW S, NEW s \in Seq(S), s # <<>>, NEW V
  PROVE  /\ Shrinks(At(s, V), At(Tail(s), V))
         /\ Head(s) \in V => At(s, V) # {}
         /\ Head(s) \in V /\ Unique(At(s, V)) => At(Tail(s), V) = {}
<1>1. DOMAIN s = 1..Len(s) /\ Len(s) \in Nat /\ 1 \in DOMAIN s /\ Head(s) = s[1]
      /\ DOMAIN Tail(s) = 1..Len(s) - 1
      /\ \A n \in 1..Len(s) - 1 : Tail(s)[n] = s[n + 1]
  OBVIOUS
<1>2. \A n \in At(Tail(s), V) : n \in Nat /\ n + 1 \in At(s, V) /\ n + 1 # 1 BY <1>1 DEF At
<1>3. Head(s) \in V => 1 \in At(s, V) BY Zenon, <1>1 DEF At
<1>4. Unique(At(s, V)) => Unique(At(Tail(s), V))
  <2> SUFFICES ASSUME Unique(At(s, V)), NEW m \in At(Tail(s), V), NEW n \in At(Tail(s), V)
               PROVE  m = n
    BY Zenon DEF Unique
  <2>1. m + 1 = n + 1 BY Zenon, <1>2 DEF Unique
  <2> QED BY <1>2, <2>1
<1>5. At(s, V) = {} => At(Tail(s), V) = {} BY Zenon, <1>2
<1>6. Head(s) \in V /\ Unique(At(s, V)) => At(Tail(s), V) = {} BY Zenon, <1>2, <1>3 DEF Unique
<1> QED BY Zenon, <1>3, <1>4, <1>5, <1>6 DEF Shrinks

AnswerMsgs(k) == {m \in ToN3iwf : m.kind \in Answers(k)}
AnswerPkts(a, k) == {p \in Packet : p.conn = a /\ p.msg.kind \in Answers(k)}

\* The places of a procedure's messages, before and after a step.
LEMMA Places ==
  ASSUME TypeOK, TypeOK', NEW a \in Amf, NEW k
  PROVE  /\ Asked(a, k) = At(toAmf[a], {k}) /\ Asked(a, k)' = At(toAmf'[a], {k})
         /\ Answered(a, k) = At(toN3iwf[a], AnswerMsgs(k))
         /\ Answered(a, k)' = At(toN3iwf'[a], AnswerMsgs(k))
         /\ Queued(a, k) = At(rcvPktCh, AnswerPkts(a, k))
         /\ Queued(a, k)' = At(rcvPktCh', AnswerPkts(a, k))
<1>1. Asked(a, k) = At(toAmf[a], {k}) /\ Asked(a, k)' = At(toAmf'[a], {k}) BY Zenon DEF Asked, At
<1>2. toN3iwf[a] \in Seq(ToN3iwf) /\ toN3iwf'[a] \in Seq(ToN3iwf)
      /\ rcvPktCh \in Seq(Packet) /\ rcvPktCh' \in Seq(Packet)
  BY Zenon DEF TypeOK
<1>3. ASSUME NEW s \in Seq(ToN3iwf)
      PROVE  {n \in DOMAIN s : s[n].kind \in Answers(k)} = At(s, AnswerMsgs(k))
  <2>1. \A n \in DOMAIN s : s[n] \in ToN3iwf OBVIOUS
  <2> QED BY Zenon, <2>1 DEF At, AnswerMsgs
<1>4. ASSUME NEW s \in Seq(Packet)
      PROVE  {n \in DOMAIN s : s[n].conn = a /\ s[n].msg.kind \in Answers(k)} = At(s, AnswerPkts(a, k))
  <2>1. \A n \in DOMAIN s : s[n] \in Packet OBVIOUS
  <2> QED BY Zenon, <2>1 DEF At, AnswerPkts
<1>5. Answered(a, k) = At(toN3iwf[a], AnswerMsgs(k)) /\ Answered(a, k)' = At(toN3iwf'[a], AnswerMsgs(k))
  BY Zenon, <1>2, <1>3 DEF Answered
<1>6. Queued(a, k) = At(rcvPktCh, AnswerPkts(a, k)) /\ Queued(a, k)' = At(rcvPktCh', AnswerPkts(a, k))
  BY Zenon, <1>2, <1>4 DEF Queued
<1> QED BY Zenon, <1>1, <1>5, <1>6

NoMessage(a, k) == Asked(a, k) = {} /\ Answered(a, k) = {} /\ Queued(a, k) = {}
Idle(a, k) == NoMessage(a, k) /\ timers[a][k] = 0

\* At most one token.
Alone(a, k) ==
    /\ Unique(Asked(a, k)) /\ Unique(Answered(a, k)) /\ Unique(Queued(a, k))
    /\ Asked(a, k) = {} \/ Answered(a, k) = {}
    /\ Asked(a, k) = {} \/ Queued(a, k) = {}
    /\ Answered(a, k) = {} \/ Queued(a, k) = {}
    /\ timers[a][k] = 0 \/ (timers[a][k] = 1 /\ NoMessage(a, k))

\* The NG Setup ends when the AMF is in the pool, and an update when the AMF acknowledges it;
\* only an AMF in the pool is sent updates.  No timer runs while Run dials, and an AMF that
\* is not connected has neither sent nor been sent anything.
AmfInv(a) ==
    /\ Alone(a, "setup") /\ Alone(a, "update")
    /\ AMFPool[a] # None => Idle(a, "setup")
    /\ ~amf[a].update => Idle(a, "update")
    /\ timers[a]["update"] # 0 => AMFPool[a] # None
    /\ run = "dialing" => timers[a]["setup"] = 0 /\ timers[a]["update"] = 0
    /\ conn[a] = "none" => Idle(a, "setup") /\ Idle(a, "update") /\ AMFPool[a] = None /\ ~amf[a].up

PendingInv ==
    /\ \A a \in Amf : AmfInv(a)
    /\ run = "dialing" => \A n \in dial.next..Len(AmfSctpAddrs) : conn[AmfSctpAddrs[n]] = "none"

\* A step adds no token.
Kept(a, k) ==
    /\ Shrinks(Asked(a, k), Asked(a, k)') /\ Shrinks(Answered(a, k), Answered(a, k)')
    /\ Shrinks(Queued(a, k), Queued(a, k)') /\ timers'[a][k] = timers[a][k]

LEMMA ShrinksSame == \A X : Shrinks(X, X) BY Zenon DEF Shrinks

LEMMA KeptAlone ==
  ASSUME NEW a \in Amf, NEW k, Kept(a, k)
  PROVE  (Alone(a, k) => Alone(a, k)') /\ (Idle(a, k) => Idle(a, k)')
         /\ (NoMessage(a, k) => NoMessage(a, k)')
<1>1. NoMessage(a, k) => NoMessage(a, k)' BY Zenon DEF Kept, Shrinks, NoMessage
<1>2. Idle(a, k) => Idle(a, k)' BY Zenon, <1>1 DEF Kept, Idle
<1>3. Alone(a, k) => Alone(a, k)' BY Zenon, <1>1 DEF Kept, Shrinks, Alone
<1> QED BY Zenon, <1>1, <1>2, <1>3

\* A step that adds no token for a, and otherwise leaves it alone, keeps its invariant.
LEMMA KeptInv ==
  ASSUME NEW a \in Amf, AmfInv(a), Kept(a, "setup"), Kept(a, "update"),
         (AMFPool'[a] = None) <=> (AMFPool[a] = None),
         amf'[a].update <=> amf[a].update, amf'[a].up <=> amf[a].up,
         conn'[a] = "none" => conn[a] = "none", run' = "dialing" => run = "dialing"
  PROVE  AmfInv(a)'
<1>1. /\ Alone(a, "setup") => Alone(a, "setup")'
      /\ Alone(a, "update") => Alone(a, "update")'
      /\ Idle(a, "setup") => Idle(a, "setup")'
      /\ Idle(a, "update") => Idle(a, "update")'
  BY Zenon, KeptAlone
<1>2. timers'[a]["setup"] = timers[a]["setup"] /\ timers'[a]["update"] = timers[a]["update"]
  BY Zenon DEF Kept
<1> QED BY Zenon, <1>1, <1>2 DEF AmfInv

\* What a step does to the messages of the AMFs it does not touch.
LEMMA SameKept ==
  ASSUME TypeOK, TypeOK', NEW a \in Amf, NEW k,
         toAmf'[a] = toAmf[a], toN3iwf'[a] = toN3iwf[a],
         Shrinks(Queued(a, k), Queued(a, k)'), timers'[a][k] = timers[a][k]
  PROVE  Kept(a, k)
<1>1. Asked(a, k)' = Asked(a, k) /\ Answered(a, k)' = Answered(a, k) BY Zenon DEF Asked, Answered
<1> QED BY Zenon, <1>1, ShrinksSame DEF Kept

LEMMA SameQueue ==
  ASSUME NEW a \in Amf, NEW k, rcvPktCh' = rcvPktCh
  PROVE  Queued(a, k)' = Queued(a, k) /\ Shrinks(Queued(a, k), Queued(a, k)')
BY Zenon, ShrinksSame DEF Queued

\* Writing to a.
LEMMA WriteAsked ==
  ASSUME TypeOK, TypeOK', NEW a \in Amf, NEW x \in ToAmf, Write(a, x)
  PROVE  /\ \A b \in Amf : \A k : b # a \/ k # x => Asked(b, k)' = Asked(b, k)
         /\ Asked(a, x) = {} => Unique(Asked(a, x)')
<1>1. toAmf \in [Amf -> Seq(ToAmf)] BY Zenon DEF TypeOK
<1>2. toAmf' = toAmf \/ toAmf' = [toAmf EXCEPT ![a] = Append(toAmf[a], x)] BY Zenon, <1>1 DEF Write
<1>3. CASE toAmf' = toAmf BY Zenon, <1>3 DEF Asked, Unique
<1>4. CASE toAmf' = [toAmf EXCEPT ![a] = Append(toAmf[a], x)]
  <2>1. ASSUME NEW b \in Amf, NEW k, b # a \/ k # x PROVE Asked(b, k)' = Asked(b, k)
    <3>1. CASE b # a BY Zenon, <1>1, <1>4, <3>1 DEF Asked
    <3>2. CASE b = a /\ k # x
      <4>1. toAmf[a] \in Seq(ToAmf) /\ toAmf'[a] = Append(toAmf[a], x) /\ x \notin {k}
        BY Zenon, <1>1, <1>4, <3>2
      <4>2. At(Append(toAmf[a], x), {k}) = At(toAmf[a], {k}) BY Zenon, <4>1, AppendAt
      <4>3. Asked(a, k) = At(toAmf[a], {k}) /\ Asked(a, k)' = At(toAmf'[a], {k}) BY Zenon, Places
      <4> QED BY Zenon, <3>2, <4>1, <4>2, <4>3
    <3> QED BY Zenon, <2>1, <3>1, <3>2
  <2>2. ASSUME Asked(a, x) = {} PROVE Unique(Asked(a, x)')
    <3>1. toAmf[a] \in Seq(ToAmf) /\ toAmf'[a] = Append(toAmf[a], x) BY Zenon, <1>1, <1>4
    <3>2. Asked(a, x) = At(toAmf[a], {x}) /\ Asked(a, x)' = At(toAmf'[a], {x}) BY Zenon, Places
    <3>3. At(toAmf[a], {x}) = {} => Unique(At(Append(toAmf[a], x), {x})) BY Zenon, <3>1, AppendAt
    <3> QED BY Zenon, <2>2, <3>1, <3>2, <3>3
  <2> QED BY Zenon, <2>1, <2>2
<1> QED BY Zenon, <1>2, <1>3, <1>4

\* a says m.
LEMMA SayAnswered ==
  ASSUME TypeOK, TypeOK', NEW a \in Amf, NEW m \in ToN3iwf,
         toN3iwf' = [toN3iwf EXCEPT ![a] = Append(@, m)]
  PROVE  /\ \A b \in Amf : \A k : b # a \/ m.kind \notin Answers(k) => Answered(b, k)' = Answered(b, k)
         /\ \A k : Answered(a, k) = {} => Unique(Answered(a, k)')
<1>1. toN3iwf \in [Amf -> Seq(ToN3iwf)] BY Zenon DEF TypeOK
<1>2. toN3iwf[a] \in Seq(ToN3iwf) /\ toN3iwf'[a] = Append(toN3iwf[a], m)
      /\ \A b \in Amf : b # a => toN3iwf'[b] = toN3iwf[b]
  BY Zenon, <1>1
<1>3. ASSUME NEW b \in Amf, NEW k, b # a \/ m.kind \notin Answers(k)
      PROVE  Answered(b, k)' = Answered(b, k)
  <2>1. CASE b # a BY Zenon, <1>2, <2>1 DEF Answered
  <2>2. CASE b = a /\ m.kind \notin Answers(k)
    <3>1. m \notin AnswerMsgs(k) BY Zenon, <2>2 DEF AnswerMsgs
    <3>2. /\ Answered(a, k) = At(toN3iwf[a], AnswerMsgs(k))
          /\ Answered(a, k)' = At(toN3iwf'[a], AnswerMsgs(k))
      BY Zenon, Places
    <3>3. At(Append(toN3iwf[a], m), AnswerMsgs(k)) = At(toN3iwf[a], AnswerMsgs(k))
      BY Zenon, <1>2, <3>1, AppendAt
    <3> QED BY Zenon, <1>2, <2>2, <3>2, <3>3
  <2> QED BY Zenon, <1>3, <2>1, <2>2
<1>4. ASSUME NEW k, Answered(a, k) = {} PROVE Unique(Answered(a, k)')
  <2>1. /\ Answered(a, k) = At(toN3iwf[a], AnswerMsgs(k))
        /\ Answered(a, k)' = At(toN3iwf'[a], AnswerMsgs(k))
    BY Zenon, Places
  <2>2. At(toN3iwf[a], AnswerMsgs(k)) = {} => Unique(At(Append(toN3iwf[a], m), AnswerMsgs(k)))
    BY Zenon, <1>2, AppendAt
  <2> QED BY Zenon, <1>2, <1>4, <2>1, <2>2
<1> QED BY Zenon, <1>3, <1>4

\* A step that moves or consumes the token of a's procedure k, and adds none to the other
\* procedure j, keeps the invariant of a.
LEMMA MovedInv ==
  ASSUME NEW a \in Amf, NEW k \in TimerKind, NEW j \in TimerKind, j # k,
         AmfInv(a), ~Idle(a, k), Alone(a, k)', Kept(a, j),
         AMFPool'[a] # None => AMFPool[a] # None \/ Idle(a, "setup")',
         AMFPool[a] # None => AMFPool'[a] # None,
         timers'[a]["update"] # 0 => timers[a]["update"] # 0 \/ AMFPool'[a] # None,
         ~amf'[a].update => ~amf[a].update \/ Idle(a, "update")',
         conn'[a] = "none" => conn[a] = "none",
         run' = "dialing" => run = "dialing" /\ timers'[a][k] = timers[a][k]
  PROVE  AmfInv(a)'
<1>1. (Alone(a, j) => Alone(a, j)') /\ (Idle(a, j) => Idle(a, j)') /\ timers'[a][j] = timers[a][j]
  BY Zenon, KeptAlone DEF Kept
<1>2. conn[a] # "none" /\ conn'[a] # "none"
  <2>1. k = "setup" \/ k = "update" BY Zenon, Kinds
  <2> QED BY Zenon, <2>1 DEF AmfInv
<1>3. CASE k = "setup" /\ j = "update"
  BY Zenon, <1>1, <1>2, <1>3 DEF AmfInv
<1>4. CASE k = "update" /\ j = "setup"
  BY Zenon, <1>1, <1>2, <1>4 DEF AmfInv
<1> QED BY Zenon, <1>3, <1>4, Kinds

\* The event handler takes a message of a.
LEMMA TakenQueue ==
  ASSUME TypeOK, TypeOK', NEW a \in Amf, NEW kind, Dispatched(a, kind)
  PROVE  /\ \A b \in Amf : \A k : Shrinks(Queued(b, k), Queued(b, k)')
         /\ \A k : kind \in Answers(k) =>
               Queued(a, k) # {} /\ (Unique(Queued(a, k)) => Queued(a, k)' = {})
<1>1. rcvPktCh \in Seq(Packet) /\ rcvPktCh # <<>> /\ rcvPktCh' = Tail(rcvPktCh)
  BY Zenon DEF TypeOK, Dispatched
<1>2. ASSUME NEW b \in Amf, NEW k PROVE Shrinks(Queued(b, k), Queued(b, k)')
  <2>1. /\ Queued(b, k) = At(rcvPktCh, AnswerPkts(b, k))
        /\ Queued(b, k)' = At(rcvPktCh', AnswerPkts(b, k))
    BY Zenon, Places
  <2>2. Shrinks(At(rcvPktCh, AnswerPkts(b, k)), At(Tail(rcvPktCh), AnswerPkts(b, k)))
    BY Zenon, <1>1, TailAt
  <2> QED BY Zenon, <1>1, <2>1, <2>2
<1>3. ASSUME NEW k, kind \in Answers(k)
      PROVE  Queued(a, k) # {} /\ (Unique(Queued(a, k)) => Queued(a, k)' = {})
  <2>1. /\ Queued(a, k) = At(rcvPktCh, AnswerPkts(a, k))
        /\ Queued(a, k)' = At(rcvPktCh', AnswerPkts(a, k))
    BY Zenon, Places
  <2>2. Head(rcvPktCh) \in AnswerPkts(a, k)
    BY Zenon, <1>3, DispatchedType DEF AnswerPkts, Msg
  <2>3. /\ At(rcvPktCh, AnswerPkts(a, k)) # {}
        /\ Unique(At(rcvPktCh, AnswerPkts(a, k))) => At(Tail(rcvPktCh), AnswerPkts(a, k)) = {}
    BY Zenon, <1>1, <2>2, TailAt
  <2> QED BY Zenon, <1>1, <2>1, <2>3
<1> QED BY Zenon, <1>2, <1>3

\* A message that answers procedure k is a's only token.
LEMMA TakenToken ==
  ASSUME TypeOK, TypeOK', NEW a \in Amf, NEW kind, NEW k \in TimerKind, kind \in Answers(k),
         Dispatched(a, kind), AmfInv(a)
  PROVE  /\ Asked(a, k) = {} /\ Answered(a, k)' = {} /\ Queued(a, k)' = {} /\ timers[a][k] = 0
         /\ ~Idle(a, k)
<1>1. Queued(a, k) # {} /\ (Unique(Queued(a, k)) => Queued(a, k)' = {}) BY Zenon, TakenQueue
<1>2. Alone(a, k) BY Zenon, Kinds DEF AmfInv
<1>3. Answered(a, k)' = Answered(a, k)
  <2>1. toN3iwf' = toN3iwf BY Zenon DEF Dispatched
  <2> QED BY Zenon, <2>1 DEF Answered
<1> QED BY Zenon, <1>1, <1>2, <1>3 DEF Alone, NoMessage, Idle

\* An AMF whose messages are not handled is left alone.
LEMMA OthersKept ==
  ASSUME TypeOK, TypeOK', NEW a \in Amf, NEW kind, Dispatched(a, kind),
         NEW b \in Amf, b # a, AmfInv(b),
         toAmf'[b] = toAmf[b], timers'[b] = timers[b], AMFPool'[b] = AMFPool[b],
         run' # "dialing"
  PROVE  AmfInv(b)'
<1>1. toN3iwf' = toN3iwf /\ amf' = amf /\ conn' = conn /\ run = "running" BY Zenon DEF Dispatched
<1>2. \A k : Shrinks(Queued(b, k), Queued(b, k)') BY Zenon, TakenQueue
<1>3. Kept(b, "setup") /\ Kept(b, "update") BY Zenon, <1>1, <1>2, SameKept
<1> QED BY Zenon, <1>1, <1>3, KeptInv

-----------------------------------------------------------------------------
(* Procedures with an AMF, step by step.                                   *)

\* A handler touches its own AMF only.
LEMMA HandlesOwn ==
  ASSUME TypeOK, NEW a \in Amf, Handles(a), NEW b \in Amf, b # a
  PROVE  /\ toAmf'[b] = toAmf[b] /\ timers'[b] = timers[b] /\ AMFPool'[b] = AMFPool[b]
         /\ run' # "dialing"
<1>0. /\ toAmf \in [Amf -> Seq(ToAmf)] /\ timers \in [Amf -> [TimerKind -> Nat]]
      /\ AMFPool \in [Amf -> AmfCtx \cup {None}]
  BY Zenon DEF TypeOK
<1>w. ASSUME NEW x, Write(a, x) PROVE toAmf'[b] = toAmf[b] BY Zenon, <1>0, <1>w DEF Write
<1>s. ASSUME NEW k, StartWait(a, k) PROVE toAmf'[b] = toAmf[b] /\ timers'[b] = timers[b]
  BY Zenon, <1>0, <1>s DEF StartWait
<1>1. CASE HandleNGSetupResponse(a)
  BY Zenon, <1>0, <1>1, <1>w DEF HandleNGSetupResponse, Dispatched
<1>2. CASE HandleNGSetupFailure(a)
  BY Zenon, <1>2, <1>w, <1>s DEF HandleNGSetupFailure, Dispatched
<1>3. CASE HandleNGResetAll(a) \/ HandleNGResetPart(a) \/ HandleErrorIndication(a)
  BY Zenon, <1>3, <1>w DEF HandleNGResetAll, HandleNGResetPart, HandleErrorIndication, Dispatched, ResetDone, ctxVars
<1>4. CASE HandleAMFConfigurationUpdate(a)
  BY Zenon, <1>0, <1>4, <1>w DEF HandleAMFConfigurationUpdate, Dispatched
<1>5. CASE HandleOverload(a)
  BY Zenon, <1>0, <1>5 DEF HandleOverload, Dispatched
<1>6. CASE HandleRANConfigurationUpdateFailure(a)
  BY Zenon, <1>6, <1>w, <1>s DEF HandleRANConfigurationUpdateFailure, Dispatched, SendIfAvailable
<1>7. CASE HandleRANConfigurationUpdateAcknowledge(a)
  BY Zenon, <1>7 DEF HandleRANConfigurationUpdateAcknowledge, Dispatched, ctxVars
<1> QED BY Zenon, <1>1, <1>2, <1>3, <1>4, <1>5, <1>6, <1>7 DEF Handles

\* A handler that starts no wait, writes no request and keeps a in or out of the pool.
LEMMA QuietHandled ==
  ASSUME TypeOK, TypeOK', NEW a \in Amf, NEW kind, Dispatched(a, kind), AmfInv(a),
         timers' = timers, toAmf' = toAmf \/ \E x \in ToAmf \ TimerKind : Write(a, x),
         (AMFPool'[a] = None) <=> (AMFPool[a] = None), run' # "dialing"
  PROVE  AmfInv(a)'
<1>1. toN3iwf' = toN3iwf /\ amf' = amf /\ conn' = conn BY Zenon DEF Dispatched
<1>2. ASSUME NEW k \in TimerKind PROVE Kept(a, k)
  <2>1. Asked(a, k)' = Asked(a, k)
    <3>1. CASE toAmf' = toAmf BY Zenon, <3>1 DEF Asked
    <3>2. ASSUME NEW x \in ToAmf \ TimerKind, Write(a, x) PROVE Asked(a, k)' = Asked(a, k)
      <4>1. x \in ToAmf /\ k # x BY Zenon, <3>2
      <4> QED BY Zenon, <3>2, <4>1, WriteAsked
    <3> QED BY Zenon, <3>1, <3>2
  <2>2. Answered(a, k)' = Answered(a, k) BY Zenon, <1>1 DEF Answered
  <2>3. Shrinks(Queued(a, k), Queued(a, k)') BY Zenon, TakenQueue
  <2> QED BY Zenon, <2>1, <2>2, <2>3, ShrinksSame DEF Kept
<1>3. Kept(a, "setup") /\ Kept(a, "update") BY Zenon, <1>2, Kinds
<1> QED BY Zenon, <1>1, <1>3, KeptInv

\* a is told to wait: its token becomes a timer.
LEMMA WaitHandled ==
  ASSUME TypeOK, TypeOK', NEW a \in Amf, NEW kind, NEW k \in TimerKind, kind \in Answers(k),
         Dispatched(a, kind), AmfInv(a), StartWait(a, k), AMFPool' = AMFPool, run' # "dialing",
         k = "update" => AMFPool[a] # None
  PROVE  AmfInv(a)'
<1>1. toN3iwf' = toN3iwf /\ amf' = amf /\ conn' = conn /\ toAmf' = toAmf BY Zenon DEF Dispatched, StartWait
<1>2. /\ Asked(a, k) = {} /\ Answered(a, k)' = {} /\ Queued(a, k)' = {} /\ timers[a][k] = 0
      /\ ~Idle(a, k)
  BY Zenon, TakenToken
<1>3. timers'[a][k] = 1 /\ \A j \in TimerKind : j # k => timers'[a][j] = timers[a][j]
  <2>1. timers \in [Amf -> [TimerKind -> Nat]] /\ timers' = [timers EXCEPT ![a][k] = @ + 1]
    BY Zenon DEF TypeOK, StartWait
  <2> QED BY <1>2, <2>1
<1>4. Alone(a, k)'
  <2>1. Asked(a, k)' = Asked(a, k) BY Zenon, <1>1 DEF Asked
  <2> QED BY Zenon, <1>2, <1>3, <2>1 DEF Alone, NoMessage, Unique
<1>5. PICK j \in TimerKind : j # k BY Zenon, Kinds
<1>6. Kept(a, j)
  <2>1. Shrinks(Queued(a, j), Queued(a, j)') BY Zenon, TakenQueue
  <2> QED BY Zenon, <1>1, <1>3, <1>5, <2>1, SameKept
<1>7. timers'[a]["update"] # 0 => timers[a]["update"] # 0 \/ AMFPool'[a] # None
  BY Zenon, <1>3, <1>5, Kinds
<1> QED BY Zenon, <1>1, <1>2, <1>4, <1>5, <1>6, <1>7, MovedInv

\* The handlers keep the invariant of their AMF.
LEMMA HandlesPending ==
  ASSUME TypeOK, TypeOK', NEW a \in Amf, Handles(a), AmfInv(a)
  PROVE  AmfInv(a)'
<1>0. AMFPool \in [Amf -> AmfCtx \cup {None}] /\ AMFPool' \in [Amf -> AmfCtx \cup {None}] BY Zenon DEF TypeOK
<1>k. /\ "setup" \in TimerKind /\ "update" \in TimerKind /\ "setup" # "update"
      /\ "error" \in ToAmf \ TimerKind /\ "resetAck" \in ToAmf \ TimerKind /\ "configAck" \in ToAmf \ TimerKind
      /\ "setupResponse" \in Answers("setup") /\ "setupFailure" \in Answers("setup")
      /\ "updateFailure" \in Answers("update") /\ "update" \in ToAmf
  BY Zenon DEF TimerKind, ToAmf, Answers
<1>1. CASE HandleNGSetupResponse(a)
  <2>1. Dispatched(a, "setupResponse") /\ run' # "dialing" /\ timers' = timers
    BY Zenon, <1>1 DEF HandleNGSetupResponse, Dispatched
  <2>2. CASE ~Msg.ok
    <3>1. Write(a, "error") /\ AMFPool' = AMFPool BY Zenon, <1>1, <2>2 DEF HandleNGSetupResponse
    <3> QED BY Zenon, <1>k, <2>1, <3>1, QuietHandled
  <2>3. CASE Msg.ok
    <3>1. toAmf' = toAmf /\ toN3iwf' = toN3iwf /\ amf' = amf /\ conn' = conn
      BY Zenon, <1>1, <2>1, <2>3 DEF HandleNGSetupResponse, Dispatched
    <3>2. /\ Asked(a, "setup") = {} /\ Answered(a, "setup")' = {} /\ Queued(a, "setup")' = {}
          /\ timers[a]["setup"] = 0 /\ ~Idle(a, "setup")
      BY Zenon, <1>k, <2>1, TakenToken
    <3>3. Idle(a, "setup")'
      <4>1. Asked(a, "setup")' = Asked(a, "setup") BY Zenon, <3>1 DEF Asked
      <4> QED BY Zenon, <2>1, <3>2, <4>1 DEF Idle, NoMessage
    <3>4. Alone(a, "setup")' BY Zenon, <3>3 DEF Idle, NoMessage, Alone, Unique
    <3>5. Kept(a, "update")
      <4>1. Shrinks(Queued(a, "update"), Queued(a, "update")') BY Zenon, <2>1, TakenQueue
      <4> QED BY Zenon, <2>1, <3>1, <4>1, SameKept
    <3>6. AMFPool[a] = None BY Zenon, <3>2 DEF AmfInv
    <3> QED BY Zenon, <1>k, <2>1, <3>1, <3>2, <3>3, <3>4, <3>5, <3>6, MovedInv
  <2> QED BY Zenon, <2>2, <2>3
<1>2. CASE HandleNGSetupFailure(a)
  <2>1. Dispatched(a, "setupFailure") /\ run' # "dialing" /\ AMFPool' = AMFPool
    BY Zenon, <1>2 DEF HandleNGSetupFailure, Dispatched
  <2>2. CASE StartWait(a, "setup") BY Zenon, <1>k, <2>1, <2>2, WaitHandled
  <2>3. CASE timers' = timers /\ (toAmf' = toAmf \/ Write(a, "error"))
    BY Zenon, <1>k, <2>1, <2>3, QuietHandled
  <2> QED BY Zenon, <1>2, <2>2, <2>3 DEF HandleNGSetupFailure
<1>3. CASE HandleNGResetAll(a)
  <2>1. /\ Dispatched(a, "resetAll") /\ run' # "dialing" /\ AMFPool' = AMFPool /\ timers' = timers
        /\ toAmf' = toAmf \/ Write(a, "error") \/ Write(a, "resetAck")
    BY Zenon, <1>3 DEF HandleNGResetAll, Dispatched, ResetDone, ctxVars
  <2> QED BY Zenon, <1>k, <2>1, QuietHandled
<1>4. CASE HandleNGResetPart(a)
  <2>1. /\ Dispatched(a, "resetPart") /\ run' # "dialing" /\ AMFPool' = AMFPool /\ timers' = timers
        /\ toAmf' = toAmf \/ Write(a, "resetAck")
    BY Zenon, <1>4 DEF HandleNGResetPart, Dispatched, ResetDone, ctxVars
  <2> QED BY Zenon, <1>k, <2>1, QuietHandled
<1>5. CASE HandleErrorIndication(a)
  <2>1. /\ Dispatched(a, "errorIndication") /\ run' # "dialing" /\ AMFPool' = AMFPool
        /\ timers' = timers /\ toAmf' = toAmf
    BY Zenon, <1>5 DEF HandleErrorIndication, Dispatched, ctxVars
  <2> QED BY Zenon, <1>k, <2>1, QuietHandled
<1>6. CASE HandleAMFConfigurationUpdate(a)
  <2>1. Dispatched(a, "configUpdate") /\ run' # "dialing" /\ timers' = timers
        /\ (toAmf' = toAmf \/ Write(a, "configAck"))
    BY Zenon, <1>6 DEF HandleAMFConfigurationUpdate, Dispatched
  <2>2. (AMFPool'[a] = None) <=> (AMFPool[a] = None)
    <3>1. CASE AMFPool[a] = None BY Zenon, <1>6, <3>1 DEF HandleAMFConfigurationUpdate
    <3>2. CASE AMFPool[a] # None
      <4>1. Msg.served \in Served /\ Msg.add \in BOOLEAN /\ Msg.remove \in BOOLEAN
        BY Zenon, <2>1, DispatchedType, Fields
      <4>2. AMFPool[a] \in AmfCtx BY Zenon, <1>0, <3>2
      <4>3. Reconfigured(AMFPool[a], Msg) \in AmfCtx BY Zenon, <4>1, <4>2, MergeType DEF AmfCtx, Reconfigured
      <4>4. AMFPool'[a] = Reconfigured(AMFPool[a], Msg) BY Zenon, <1>0, <1>6, <3>2 DEF HandleAMFConfigurationUpdate
      <4> QED BY Zenon, <3>2, <4>3, <4>4, ContextAssumption
    <3> QED BY Zenon, <3>1, <3>2
  <2> QED BY Zenon, <1>k, <2>1, <2>2, QuietHandled
<1>7. CASE HandleOverload(a)
  <2>1. /\ run' # "dialing" /\ timers' = timers /\ toAmf' = toAmf
        /\ Dispatched(a, "overloadStart") \/ Dispatched(a, "overloadStop")
    BY Zenon, <1>7 DEF HandleOverload, Dispatched
  <2>2. (AMFPool'[a] = None) <=> (AMFPool[a] = None)
    <3>1. CASE AMFPool[a] = None BY Zenon, <1>7, <3>1 DEF HandleOverload
    <3>2. CASE AMFPool[a] # None
      <4>1. AMFPool[a] \in AmfCtx BY <1>0, <3>2
      <4>2. ASSUME Dispatched(a, "overloadStart"),
                   AMFPool' = [AMFPool EXCEPT ![a].overload = @ \/ Msg.content]
            PROVE  AMFPool'[a] \in AmfCtx
        <5>1. Msg.content \in BOOLEAN BY Zenon, <4>2, DispatchedType, Fields
        <5>2. AMFPool'[a] = [AMFPool[a] EXCEPT !.overload = AMFPool[a].overload \/ Msg.content]
          BY Zenon, <1>0, <4>2
        <5>3. (AMFPool[a].overload \/ Msg.content) \in BOOLEAN BY Zenon
        <5> QED BY Zenon, <4>1, <5>2, <5>3 DEF AmfCtx
      <4>3. ASSUME AMFPool' = [AMFPool EXCEPT ![a].overload = FALSE] PROVE AMFPool'[a] \in AmfCtx
        <5>1. AMFPool'[a] = [AMFPool[a] EXCEPT !.overload = FALSE] BY Zenon, <1>0, <4>3
        <5> QED BY Zenon, <4>1, <5>1 DEF AmfCtx
      <4>4. AMFPool'[a] \in AmfCtx BY Zenon, <1>7, <3>2, <4>2, <4>3 DEF HandleOverload
      <4> QED BY Zenon, <3>2, <4>4, ContextAssumption
    <3> QED BY <3>1, <3>2
  <2> QED BY Zenon, <1>k, <2>1, <2>2, QuietHandled
<1>8. CASE HandleRANConfigurationUpdateFailure(a)
  <2>1. Dispatched(a, "updateFailure") /\ run' # "dialing" /\ AMFPool' = AMFPool
    BY Zenon, <1>8 DEF HandleRANConfigurationUpdateFailure, Dispatched
  <2>2. CASE StartWait(a, "update") /\ AMFPool[a] # None BY Zenon, <1>k, <2>1, <2>2, WaitHandled
  <2>3. CASE timers' = timers /\ toAmf' = toAmf BY Zenon, <1>k, <2>1, <2>3, QuietHandled
  <2>4. CASE AMFPool[a] # None /\ timers' = timers /\ Write(a, "update")
    <3>1. toN3iwf' = toN3iwf /\ amf' = amf /\ conn' = conn BY Zenon, <2>1 DEF Dispatched
    <3>2. /\ Asked(a, "update") = {} /\ Answered(a, "update")' = {} /\ Queued(a, "update")' = {}
          /\ timers[a]["update"] = 0 /\ ~Idle(a, "update")
      BY Zenon, <1>k, <2>1, TakenToken
    <3>3. Unique(Asked(a, "update")') /\ Asked(a, "setup")' = Asked(a, "setup")
      <4>1. Asked(a, "update") = {} => Unique(Asked(a, "update")') BY Zenon, <1>k, <2>4, WriteAsked
      <4>2. \A k : k # "update" => Asked(a, k)' = Asked(a, k) BY Zenon, <1>k, <2>4, WriteAsked
      <4> QED BY Zenon, <1>k, <3>2, <4>1, <4>2
    <3>4. Alone(a, "update")' BY Zenon, <2>4, <3>2, <3>3 DEF Alone, NoMessage, Unique
    <3>5. Kept(a, "setup")
      <4>1. Shrinks(Queued(a, "setup"), Queued(a, "setup")') BY Zenon, <2>1, TakenQueue
      <4>2. Answered(a, "setup")' = Answered(a, "setup") BY Zenon, <3>1 DEF Answered
      <4> QED BY Zenon, <2>4, <3>3, <4>1, <4>2, ShrinksSame DEF Kept
    <3> QED BY Zenon, <1>k, <2>1, <2>4, <3>1, <3>2, <3>4, <3>5, MovedInv
  <2> QED BY Zenon, <1>8, <2>2, <2>3, <2>4 DEF HandleRANConfigurationUpdateFailure, SendIfAvailable
<1>9. CASE HandleRANConfigurationUpdateAcknowledge(a)
  <2>1. /\ Dispatched(a, "updateAcknowledge") /\ run' # "dialing" /\ AMFPool' = AMFPool
        /\ timers' = timers /\ toAmf' = toAmf
    BY Zenon, <1>9 DEF HandleRANConfigurationUpdateAcknowledge, Dispatched, ctxVars
  <2> QED BY Zenon, <2>1, QuietHandled
<1> QED BY Zenon, <1>1, <1>2, <1>3, <1>4, <1>5, <1>6, <1>7, <1>8, <1>9 DEF Handles

\* A step that leaves the messages, the timers and the context of b alone.
LEMMA FrameInv ==
  ASSUME TypeOK, TypeOK', NEW b \in Amf, AmfInv(b),
         toAmf'[b] = toAmf[b], toN3iwf'[b] = toN3iwf[b], timers'[b] = timers[b],
         AMFPool'[b] = AMFPool[b], amf'[b] = amf[b],
         conn'[b] = "none" => conn[b] = "none", run' = "dialing" => run = "dialing",
         \A k : Shrinks(Queued(b, k), Queued(b, k)')
  PROVE  AmfInv(b)'
<1>1. Kept(b, "setup") /\ Kept(b, "update") BY Zenon, SameKept
<1> QED BY Zenon, <1>1, KeptInv

\* The server's steps other than the receivers'.
LEMMA ServerPending ==
  ASSUME TypeOK, TypeOK', PendingInv, DialSCTP \/ runNgapEventHandler \/ ReceiverClosed \/ Registers
  PROVE  PendingInv'
<1>0. /\ \A b \in Amf : AmfInv(b)
      /\ run = "dialing" => \A n \in dial.next..Len(AmfSctpAddrs) : conn[AmfSctpAddrs[n]] = "none"
  BY Zenon DEF PendingInv
<1>1. CASE ReceiverClosed
  <2>1. /\ UNCHANGED <<toAmf, toN3iwf, timers, AMFPool, amf, conn>> /\ run' # "dialing"
        /\ rcvPktCh' = <<>>
    BY Zenon, <1>1 DEF ReceiverClosed, ctxVars, netVars
  <2>2. \A b \in Amf : \A k : Queued(b, k)' = {} BY <2>1 DEF Queued
  <2>3. \A b \in Amf : \A k : Shrinks(Queued(b, k), Queued(b, k)') BY Zenon, <2>2 DEF Shrinks, Unique
  <2>4. \A b \in Amf : AmfInv(b)' BY Zenon, <1>0, <2>1, <2>3, FrameInv
  <2> QED BY Zenon, <2>1, <2>4 DEF PendingInv
<1>2. CASE runNgapEventHandler \/ Registers
  <2>1. /\ UNCHANGED <<toAmf, toN3iwf, timers, AMFPool, amf, conn, rcvPktCh>> /\ run' # "dialing"
    BY Zenon, <1>2 DEF runNgapEventHandler, Registers, HandleUnmarshalEAP5GData, ctxVars, netVars
  <2>2. \A b \in Amf : \A k : Shrinks(Queued(b, k), Queued(b, k)') BY Zenon, <2>1, SameQueue
  <2>3. \A b \in Amf : AmfInv(b)' BY Zenon, <1>0, <2>1, <2>2, FrameInv
  <2> QED BY Zenon, <2>1, <2>3 DEF PendingInv
<1>3. CASE DialSCTP
  <2>1. /\ UNCHANGED <<toN3iwf, timers, AMFPool, amf, rcvPktCh>> /\ run = "dialing"
        /\ dial.next <= Len(AmfSctpAddrs)
    BY Zenon, <1>3 DEF DialSCTP, ctxVars
  <2>2. \A b \in Amf : \A k : Shrinks(Queued(b, k), Queued(b, k)') BY Zenon, <2>1, SameQueue
  <2>3. CASE conn' = conn /\ toAmf' = toAmf /\ (run' = "failed" \/ dial'.next = dial.next)
    <3>1. \A b \in Amf : AmfInv(b)' BY Zenon, <1>0, <2>1, <2>2, <2>3, FrameInv
    <3> QED BY Zenon, <1>0, <2>1, <2>3, <3>1 DEF PendingInv
  <2>i. /\ AmfSctpAddrs \in Seq(Amf) /\ dial.next \in 1..Len(AmfSctpAddrs)
        /\ \A n \in 1..Len(AmfSctpAddrs) : AmfSctpAddrs[n] \in Amf
        /\ \A m, n \in 1..Len(AmfSctpAddrs) : AmfSctpAddrs[m] = AmfSctpAddrs[n] => m = n
    <3>1. AmfSctpAddrs \in Seq(Amf) BY Zenon, AmfNodeAssumption
    <3>2. DOMAIN AmfSctpAddrs = 1..Len(AmfSctpAddrs) /\ Len(AmfSctpAddrs) \in Nat BY <3>1
    <3>3. \A m, n \in DOMAIN AmfSctpAddrs : AmfSctpAddrs[m] = AmfSctpAddrs[n] => m = n
      BY Zenon, AmfNodeAssumption
    <3>4. \A m, n \in 1..Len(AmfSctpAddrs) : AmfSctpAddrs[m] = AmfSctpAddrs[n] => m = n
      BY Zenon, <3>2, <3>3
    <3>5. dial.next \in 1..Len(AmfSctpAddrs) + 1 BY Zenon DEF TypeOK
    <3>6. dial.next \in 1..Len(AmfSctpAddrs) BY <2>1, <3>2, <3>5
    <3> QED BY <3>1, <3>4, <3>6
  <2>a. PICK a \in Amf : a = AmfSctpAddrs[dial.next] BY Zenon, <2>i
  <2>4. CASE /\ conn' = [conn EXCEPT ![a] = "open"] /\ dial' = [next |-> dial.next + 1, tries |-> 0]
             /\ toAmf' = [toAmf EXCEPT ![a] = IF available[a] THEN Append(@, "setup") ELSE @]
             /\ run' = run
    <3>1. a \in Amf /\ \A n \in 1..Len(AmfSctpAddrs) : n # dial.next => AmfSctpAddrs[n] # a
      BY Zenon, <2>i, <2>a
    <3>2. conn[a] = "none" BY <1>0, <2>1, <2>i, <2>a
    <3>3. conn \in [Amf -> {"none", "open", "closed", "broken"}] /\ toAmf \in [Amf -> Seq(ToAmf)]
      BY Zenon DEF TypeOK
    <3>4. /\ conn'[a] = "open" /\ \A b \in Amf : b # a => conn'[b] = conn[b] /\ toAmf'[b] = toAmf[b]
      BY Zenon, <2>4, <3>1, <3>3
    <3>5. ASSUME NEW b \in Amf, b # a PROVE AmfInv(b)'
      BY Zenon, <1>0, <2>1, <2>2, <2>4, <3>4, <3>5, FrameInv
    <3>6. AmfInv(a)'
      <4>1. Idle(a, "setup") /\ Idle(a, "update") /\ AMFPool[a] = None BY Zenon, <1>0, <3>1, <3>2 DEF AmfInv
      <4>2. toAmf[a] \in Seq(ToAmf) /\ (toAmf'[a] = toAmf[a] \/ toAmf'[a] = Append(toAmf[a], "setup"))
            /\ "setup" \in ToAmf /\ "setup" \notin {"update"}
        BY Zenon, <2>4, <3>1, <3>3 DEF ToAmf
      <4>3. /\ Asked(a, "setup") = At(toAmf[a], {"setup"}) /\ Asked(a, "setup")' = At(toAmf'[a], {"setup"})
            /\ Asked(a, "update") = At(toAmf[a], {"update"}) /\ Asked(a, "update")' = At(toAmf'[a], {"update"})
        BY Zenon, <3>1, Places
      <4>4. /\ At(toAmf[a], {"setup"}) = {} => Unique(At(Append(toAmf[a], "setup"), {"setup"}))
            /\ At(Append(toAmf[a], "setup"), {"update"}) = At(toAmf[a], {"update"})
        BY Zenon, <4>2, AppendAt
      <4>5. Unique(Asked(a, "setup")')
        BY Zenon, <4>1, <4>2, <4>3, <4>4 DEF Unique, Idle, NoMessage
      <4>6. Asked(a, "update")' = {} BY Zenon, <4>1, <4>2, <4>3, <4>4 DEF Idle, NoMessage
      <4>7. \A k : Queued(a, k)' = Queued(a, k) /\ Answered(a, k)' = Answered(a, k)
        BY Zenon, <2>1 DEF Queued, Answered
      <4>8. Idle(a, "update")' BY Zenon, <2>1, <4>1, <4>6, <4>7 DEF Idle, NoMessage
      <4>9. Alone(a, "setup")' /\ Alone(a, "update")'
        BY Zenon, <2>1, <4>1, <4>5, <4>7, <4>8 DEF Idle, NoMessage, Alone, Unique
      <4>10. timers'[a]["setup"] = 0 /\ timers'[a]["update"] = 0 BY Zenon, <2>1, <4>1 DEF Idle
      <4>11. AMFPool'[a] = None /\ conn'[a] # "none" BY Zenon, <2>1, <3>4, <4>1
      <4> QED BY Zenon, <4>8, <4>9, <4>10, <4>11 DEF AmfInv
    <3>7. \A n \in dial'.next..Len(AmfSctpAddrs) : conn'[AmfSctpAddrs[n]] = "none"
      <4> SUFFICES ASSUME NEW n \in dial'.next..Len(AmfSctpAddrs) PROVE conn'[AmfSctpAddrs[n]] = "none"
        BY Zenon
      <4>1. n \in dial.next..Len(AmfSctpAddrs) /\ n # dial.next /\ n \in 1..Len(AmfSctpAddrs)
        BY <2>4, <2>i
      <4> QED BY Zenon, <1>0, <2>1, <2>i, <3>1, <3>4, <4>1
    <3> QED BY Zenon, <3>5, <3>6, <3>7 DEF PendingInv
  <2>5. dial' = [dial EXCEPT !.tries = @ + 1] => dial'.next = dial.next BY Zenon DEF TypeOK
  <2> QED BY Zenon, <1>3, <2>a, <2>3, <2>4, <2>5 DEF DialSCTP
<1> QED BY Zenon, <1>1, <1>2, <1>3

\* The receivers: a message in the channel is still the only token.
LEMMA ReceiveInv ==
  ASSUME TypeOK, TypeOK', NEW a \in Amf, Receive(a), AmfInv(a)
  PROVE  AmfInv(a)'
<1>1. /\ UNCHANGED <<toAmf, timers, AMFPool, amf, conn, run>>
  BY Zenon DEF Receive, srvVars, ctxVars
<1>2. /\ toN3iwf[a] \in Seq(ToN3iwf) /\ toN3iwf[a] # <<>> /\ toN3iwf'[a] = Tail(toN3iwf[a])
      /\ Head(toN3iwf[a]) \in ToN3iwf /\ rcvPktCh \in Seq(Packet)
  BY DEF TypeOK, Receive
<1>3. PICK m \in ToN3iwf : m = Head(toN3iwf[a]) BY Zenon, <1>2
<1>4. PICK p \in Packet : p = [conn |-> a, msg |-> m] BY Zenon DEF Packet
<1>5. ASSUME NEW k
      PROVE  /\ Shrinks(Answered(a, k), Answered(a, k)')
             /\ m.kind \in Answers(k) => Answered(a, k) # {}
             /\ m.kind \in Answers(k) /\ Unique(Answered(a, k)) => Answered(a, k)' = {}
  <2>1. /\ Answered(a, k) = At(toN3iwf[a], AnswerMsgs(k))
        /\ Answered(a, k)' = At(toN3iwf'[a], AnswerMsgs(k))
    BY Zenon, Places
  <2>2. m.kind \in Answers(k) => m \in AnswerMsgs(k) BY Zenon DEF AnswerMsgs
  <2>3. /\ Shrinks(At(toN3iwf[a], AnswerMsgs(k)), At(Tail(toN3iwf[a]), AnswerMsgs(k)))
        /\ Head(toN3iwf[a]) \in AnswerMsgs(k) => At(toN3iwf[a], AnswerMsgs(k)) # {}
        /\ Head(toN3iwf[a]) \in AnswerMsgs(k) /\ Unique(At(toN3iwf[a], AnswerMsgs(k))) =>
              At(Tail(toN3iwf[a]), AnswerMsgs(k)) = {}
    BY Zenon, <1>2, TailAt
  <2> QED BY Zenon, <1>2, <1>3, <2>1, <2>2, <2>3
<1>6. ASSUME NEW k, Shrinks(Queued(a, k), Queued(a, k)') PROVE Kept(a, k)
  <2>1. Asked(a, k)' = Asked(a, k) BY Zenon, <1>1 DEF Asked
  <2> QED BY Zenon, <1>1, <1>5, <1>6, <2>1, ShrinksSame DEF Kept
<1>7. CASE rcvPktCh' = rcvPktCh
  <2>1. Kept(a, "setup") /\ Kept(a, "update") BY Zenon, <1>6, <1>7, SameQueue
  <2> QED BY Zenon, <1>1, <2>1, KeptInv
<1>8. CASE rcvPktCh' = Append(rcvPktCh, p)
  <2>1. ASSUME NEW k
        PROVE  /\ m.kind \notin Answers(k) => Queued(a, k)' = Queued(a, k)
               /\ Queued(a, k) = {} => Unique(Queued(a, k)')
    <3>1. /\ Queued(a, k) = At(rcvPktCh, AnswerPkts(a, k))
          /\ Queued(a, k)' = At(rcvPktCh', AnswerPkts(a, k))
      BY Zenon, Places
    <3>2. m.kind \notin Answers(k) => p \notin AnswerPkts(a, k) BY Zenon, <1>4 DEF AnswerPkts
    <3>3. /\ p \notin AnswerPkts(a, k) =>
               At(Append(rcvPktCh, p), AnswerPkts(a, k)) = At(rcvPktCh, AnswerPkts(a, k))
          /\ At(rcvPktCh, AnswerPkts(a, k)) = {} => Unique(At(Append(rcvPktCh, p), AnswerPkts(a, k)))
      BY Zenon, <1>2, AppendAt
    <3> QED BY Zenon, <1>8, <3>1, <3>2, <3>3
  <2>2. ASSUME NEW k, m.kind \notin Answers(k) PROVE Kept(a, k)
    BY Zenon, <1>6, <2>1, <2>2, ShrinksSame
  <2>3. ASSUME NEW k \in TimerKind, NEW j \in TimerKind, j # k, m.kind \in Answers(k),
               m.kind \notin Answers(j)
        PROVE  AmfInv(a)'
    <3>1. Alone(a, k) BY Zenon, Kinds DEF AmfInv
    <3>2. Answered(a, k) # {} /\ Answered(a, k)' = {} BY Zenon, <1>5, <2>3, <3>1 DEF Alone
    <3>3. Asked(a, k) = {} /\ Queued(a, k) = {} /\ timers[a][k] = 0 /\ ~Idle(a, k)
      BY Zenon, <3>1, <3>2 DEF Alone, NoMessage, Idle
    <3>4. Asked(a, k)' = Asked(a, k) BY Zenon, <1>1 DEF Asked
    <3>5. Unique(Queued(a, k)') BY Zenon, <2>1, <3>3
    <3>6. Alone(a, k)' BY Zenon, <1>1, <3>2, <3>3, <3>4, <3>5 DEF Alone, Unique
    <3>7. Kept(a, j) BY Zenon, <2>2, <2>3
    <3> QED BY Zenon, <1>1, <2>3, <3>3, <3>6, <3>7, MovedInv
  <2>4. /\ "setup" \in TimerKind /\ "update" \in TimerKind /\ "setup" # "update"
        /\ m.kind \notin Answers("setup") \/ m.kind \notin Answers("update")
    BY Zenon DEF TimerKind, Answers
  <2>5. CASE m.kind \notin Answers("setup") /\ m.kind \notin Answers("update")
    <3>1. Kept(a, "setup") /\ Kept(a, "update") BY Zenon, <2>2, <2>5
    <3> QED BY Zenon, <1>1, <3>1, KeptInv
  <2> QED BY Zenon, <2>3, <2>4, <2>5
<1> QED BY Zenon, <1>3, <1>4, <1>7, <1>8 DEF Receive

LEMMA ReceivePending ==
  ASSUME TypeOK, TypeOK', PendingInv, NEW a \in Amf, Receive(a) \/ ReceiveEnds(a)
  PROVE  PendingInv'
<1>0. /\ \A b \in Amf : AmfInv(b)
      /\ run = "dialing" => \A n \in dial.next..Len(AmfSctpAddrs) : conn[AmfSctpAddrs[n]] = "none"
  BY Zenon DEF PendingInv
<1>1. /\ UNCHANGED <<toAmf, timers, AMFPool, amf, run, dial>> /\ rcvPktCh \in Seq(Packet)
      /\ conn[a] = "open" /\ conn \in [Amf -> {"none", "open", "closed", "broken"}]
  BY Zenon DEF Receive, ReceiveEnds, srvVars, ctxVars, netVars, TypeOK
<1>2. \A b \in Amf : (conn'[b] = "none" <=> conn[b] = "none")
  <2>1. CASE Receive(a) BY Zenon, <2>1 DEF Receive, srvVars
  <2>2. CASE ReceiveEnds(a) BY Zenon, <1>1, <2>2 DEF ReceiveEnds
  <2> QED BY Zenon, <2>1, <2>2
<1>3. run' = "dialing" => \A n \in dial'.next..Len(AmfSctpAddrs) : conn'[AmfSctpAddrs[n]] = "none"
  <2>1. \A n \in dial.next..Len(AmfSctpAddrs) : AmfSctpAddrs[n] \in Amf
    <3>1. dial.next \in 1..Len(AmfSctpAddrs) + 1 /\ AmfSctpAddrs \in Seq(Amf)
      BY Zenon, AmfNodeAssumption DEF TypeOK
    <3> QED BY <3>1
  <2> QED BY Zenon, <1>0, <1>1, <1>2, <2>1
<1>4. ASSUME NEW b \in Amf, toN3iwf'[b] = toN3iwf[b], NEW p \in Packet, p.conn # b,
             rcvPktCh' = rcvPktCh \/ rcvPktCh' = Append(rcvPktCh, p)
      PROVE  AmfInv(b)'
  <2>1. ASSUME NEW k PROVE Queued(b, k)' = Queued(b, k)
    <3>1. /\ Queued(b, k) = At(rcvPktCh, AnswerPkts(b, k))
          /\ Queued(b, k)' = At(rcvPktCh', AnswerPkts(b, k))
      BY Zenon, Places
    <3>2. p \notin AnswerPkts(b, k) BY Zenon, <1>4 DEF AnswerPkts
    <3>3. At(Append(rcvPktCh, p), AnswerPkts(b, k)) = At(rcvPktCh, AnswerPkts(b, k))
      BY Zenon, <1>1, <3>2, AppendAt
    <3> QED BY Zenon, <1>4, <3>1, <3>3
  <2>2. \A k : Shrinks(Queued(b, k), Queued(b, k)') BY Zenon, <2>1, ShrinksSame
  <2> QED BY Zenon, <1>0, <1>1, <1>2, <1>4, <2>2, FrameInv
<1>5. ASSUME NEW b \in Amf PROVE AmfInv(b)'
  <2>1. CASE Receive(a)
    <3>1. CASE b = a BY Zenon, <1>0, <2>1, <3>1, ReceiveInv
    <3>2. CASE b # a
      <4>1. toN3iwf'[b] = toN3iwf[b] BY Zenon, <2>1, <3>2 DEF Receive, TypeOK
      <4>2. [conn |-> a, msg |-> Head(toN3iwf[a])] \in Packet
        <5>1. toN3iwf[a] \in Seq(ToN3iwf) /\ toN3iwf[a] # <<>> BY Zenon, <2>1 DEF Receive, TypeOK
        <5>2. Head(toN3iwf[a]) \in ToN3iwf BY <5>1
        <5> QED BY Zenon, <5>2 DEF Packet
      <4>3. PICK p \in Packet : p = [conn |-> a, msg |-> Head(toN3iwf[a])] BY Zenon, <4>2
      <4>4. p.conn # b BY Zenon, <3>2, <4>3
      <4>5. rcvPktCh' = rcvPktCh \/ rcvPktCh' = Append(rcvPktCh, p) BY Zenon, <2>1, <4>3 DEF Receive
      <4> QED BY Zenon, <1>4, <4>1, <4>4, <4>5
    <3> QED BY Zenon, <3>1, <3>2
  <2>2. CASE ReceiveEnds(a)
    <3>1. EmptyPacket \in Packet /\ EmptyPacket.conn # b BY Zenon, AmfNodeAssumption DEF Packet, EmptyPacket
    <3>2. toN3iwf' = toN3iwf /\ (rcvPktCh' = rcvPktCh \/ rcvPktCh' = Append(rcvPktCh, EmptyPacket))
      BY Zenon, <2>2 DEF ReceiveEnds, netVars
    <3> QED BY Zenon, <1>4, <3>1, <3>2
  <2> QED BY Zenon, <2>1, <2>2
<1> QED BY Zenon, <1>3, <1>5 DEF PendingInv

\* The end of a waiting time: the timer becomes a request.
LEMMA WaitOverPending ==
  ASSUME TypeOK, TypeOK', PendingInv, NEW a \in Amf, NEW k \in TimerKind, WaitOver(a, k)
  PROVE  PendingInv' /\ \A j \in TimerKind : timers'[a][j] = IF j = k THEN 0 ELSE timers[a][j]
<1>0. \A b \in Amf : AmfInv(b) BY Zenon DEF PendingInv
<1>1. UNCHANGED <<toN3iwf, AMFPool, amf, conn, run, dial, rcvPktCh>> /\ Write(a, k)
      /\ run # "dialing" /\ timers[a][k] > 0
  BY Zenon DEF WaitOver, srvVars, SendIfAvailable
<1>2. timers[a][k] = 1 /\ NoMessage(a, k)
  <2>1. Alone(a, k) BY Zenon, <1>0, Kinds DEF AmfInv
  <2> QED BY <1>1, <2>1 DEF Alone
<1>3. /\ \A j \in TimerKind : timers'[a][j] = IF j = k THEN 0 ELSE timers[a][j]
      /\ \A b \in Amf : b # a => timers'[b] = timers[b]
  <2>1. timers \in [Amf -> [TimerKind -> Nat]] /\ timers' = [timers EXCEPT ![a][k] = @ - 1]
    BY Zenon DEF TypeOK, WaitOver, Expired
  <2> QED BY <1>2, <2>1
<1>4. \A b \in Amf : \A j : Queued(b, j)' = Queued(b, j) /\ Answered(b, j)' = Answered(b, j)
  BY Zenon, <1>1 DEF Queued, Answered
<1>5. \A b \in Amf : b # a => toAmf'[b] = toAmf[b] BY Zenon, <1>1 DEF Write, TypeOK
<1>6. ASSUME NEW b \in Amf, b # a PROVE AmfInv(b)'
  <2>1. \A j : Shrinks(Queued(b, j), Queued(b, j)') BY Zenon, <1>4, ShrinksSame
  <2> QED BY Zenon, <1>0, <1>1, <1>3, <1>5, <1>6, <2>1, FrameInv
<1>7. AmfInv(a)'
  <2>1. k \in ToAmf BY Zenon DEF TimerKind, ToAmf
  <2>2. Asked(a, k) = {} => Unique(Asked(a, k)') BY Zenon, <1>1, <2>1, WriteAsked
  <2>3. Unique(Asked(a, k)') BY Zenon, <1>2, <2>2 DEF NoMessage
  <2>4. Alone(a, k)' BY Zenon, <1>2, <1>3, <1>4, <2>3 DEF Alone, NoMessage, Unique
  <2>5. PICK j \in TimerKind : j # k BY Zenon, Kinds
  <2>6. Kept(a, j)
    <3>1. \A i : i # k => Asked(a, i)' = Asked(a, i) BY Zenon, <1>1, <2>1, WriteAsked
    <3>2. timers'[a][j] = timers[a][j] BY Zenon, <1>3, <2>5
    <3> QED BY Zenon, <1>4, <2>5, <3>1, <3>2, ShrinksSame DEF Kept
  <2>7. ~Idle(a, k) BY <1>2 DEF Idle
  <2>8. timers'[a]["update"] # 0 => timers[a]["update"] # 0 BY Zenon, <1>3, Kinds
  <2> QED BY Zenon, <1>0, <1>1, <2>4, <2>5, <2>6, <2>7, <2>8, MovedInv
<1> QED BY Zenon, <1>1, <1>3, <1>6, <1>7 DEF PendingInv

\* What a message of AMF a leaves alone.
LEMMA SayOwn ==
  ASSUME TypeOK, NEW a \in Amf, NEW m, NEW e, NEW o, NEW n, Say(a, m, e, o, n)
  PROVE  /\ amf'[a] = e /\ toN3iwf' = [toN3iwf EXCEPT ![a] = Append(@, m)]
         /\ \A b \in Amf : b # a => amf'[b] = amf[b] /\ toN3iwf'[b] = toN3iwf[b]
BY Zenon DEF TypeOK, Say

\* AMF a takes its next request.
LEMMA TakenRequest ==
  ASSUME TypeOK, TypeOK', NEW a \in Amf, toAmf[a] # <<>>, toAmf' = [toAmf EXCEPT ![a] = Tail(@)]
  PROVE  /\ \A k : Shrinks(Asked(a, k), Asked(a, k)')
         /\ \A k : Head(toAmf[a]) = k =>
               Asked(a, k) # {} /\ (Unique(Asked(a, k)) => Asked(a, k)' = {})
         /\ \A b \in Amf : b # a => toAmf'[b] = toAmf[b]
<1>1. /\ toAmf[a] \in Seq(ToAmf) /\ toAmf'[a] = Tail(toAmf[a])
      /\ \A b \in Amf : b # a => toAmf'[b] = toAmf[b]
  BY Zenon DEF TypeOK
<1>2. ASSUME NEW k
      PROVE  /\ Shrinks(Asked(a, k), Asked(a, k)')
             /\ Head(toAmf[a]) = k =>
                  Asked(a, k) # {} /\ (Unique(Asked(a, k)) => Asked(a, k)' = {})
  <2>1. Asked(a, k) = At(toAmf[a], {k}) /\ Asked(a, k)' = At(toAmf'[a], {k}) BY Zenon, Places
  <2>2. /\ Shrinks(At(toAmf[a], {k}), At(Tail(toAmf[a]), {k}))
        /\ Head(toAmf[a]) \in {k} => At(toAmf[a], {k}) # {}
        /\ Head(toAmf[a]) \in {k} /\ Unique(At(toAmf[a], {k})) => At(Tail(toAmf[a]), {k}) = {}
    BY Zenon, <1>1, TailAt
  <2> QED BY Zenon, <1>1, <2>1, <2>2
<1> QED BY Zenon, <1>1, <1>2

\* The answer m of AMF a to a request of procedure k: it is the only token, or none is left.
LEMMA AnsweredInv ==
  ASSUME TypeOK, TypeOK', NEW a \in Amf, AmfInv(a), NEW k \in TimerKind, NEW j \in TimerKind, j # k,
         toAmf[a] # <<>>, Head(toAmf[a]) = k, toAmf' = [toAmf EXCEPT ![a] = Tail(@)],
         NEW m \in ToN3iwf, toN3iwf' = [toN3iwf EXCEPT ![a] = Append(@, m)],
         m.kind \notin Answers(j),
         ~amf'[a].update => ~amf[a].update \/ (k = "update" /\ m.kind \notin Answers(k)),
         UNCHANGED <<timers, AMFPool, conn, run, rcvPktCh>>
  PROVE  AmfInv(a)'
<1>1. Alone(a, k) BY Zenon, Kinds DEF AmfInv
<1>2. Asked(a, k) # {} /\ Asked(a, k)' = {} BY Zenon, <1>1, TakenRequest DEF Alone
<1>3. Answered(a, k) = {} /\ Queued(a, k) = {} /\ timers[a][k] = 0 /\ ~Idle(a, k)
  BY Zenon, <1>1, <1>2 DEF Alone, NoMessage, Idle
<1>4. Unique(Answered(a, k)') /\ (m.kind \notin Answers(k) => Answered(a, k)' = {})
  BY Zenon, <1>3, SayAnswered
<1>5. \A i : Queued(a, i)' = Queued(a, i) BY Zenon DEF Queued
<1>6. Alone(a, k)' BY Zenon, <1>2, <1>3, <1>4, <1>5 DEF Alone, Unique
<1>7. Kept(a, j)
  <2>1. Answered(a, j)' = Answered(a, j) BY Zenon, SayAnswered
  <2>2. Shrinks(Asked(a, j), Asked(a, j)') BY Zenon, TakenRequest
  <2> QED BY Zenon, <1>5, <2>1, <2>2, ShrinksSame DEF Kept
<1>8. m.kind \notin Answers(k) => Idle(a, k)' BY Zenon, <1>2, <1>3, <1>4, <1>5 DEF Idle, NoMessage
<1> QED BY Zenon, <1>3, <1>6, <1>7, <1>8, MovedInv

LEMMA AmfHandlesPending ==
  ASSUME TypeOK, TypeOK', PendingInv, NEW a \in Amf, AmfHandles(a)
  PROVE  PendingInv'
<1>0. \A b \in Amf : AmfInv(b) BY Zenon DEF PendingInv
<1>1. /\ UNCHANGED <<timers, AMFPool, conn, run, dial, rcvPktCh>> /\ toAmf[a] # <<>>
      /\ toAmf' = [toAmf EXCEPT ![a] = Tail(@)]
  BY Zenon DEF AmfHandles, srvVars, ctxVars
<1>2. \A b \in Amf : \A k : Shrinks(Queued(b, k), Queued(b, k)') BY Zenon, <1>1, SameQueue
<1>3. \A b \in Amf : b # a => toAmf'[b] = toAmf[b] BY Zenon, <1>1, TakenRequest
<1>4. ASSUME \A b \in Amf : b # a => amf'[b] = amf[b] /\ toN3iwf'[b] = toN3iwf[b], AmfInv(a)'
      PROVE  PendingInv'
  <2>1. ASSUME NEW b \in Amf, b # a PROVE AmfInv(b)'
    BY Zenon, <1>0, <1>1, <1>2, <1>3, <1>4, <2>1, FrameInv
  <2> QED BY Zenon, <1>1, <1>4, <2>1 DEF PendingInv
<1>k. /\ "setup" \in TimerKind /\ "update" \in TimerKind /\ "setup" # "update"
      /\ Answers("setup") = {"setupResponse", "setupFailure"} /\ Answers("update") = {"updateFailure"}
  BY Zenon DEF TimerKind, Answers
<1>5. CASE Head(toAmf[a]) = "setup" /\ AnswerSetup(a)
  <2>1. PICK m \in ToN3iwf, e \in AmfState, o \in BOOLEAN :
            /\ Say(a, m, e, o, 0) /\ m.kind \in {"setupResponse", "setupFailure"}
            /\ e.update = amf[a].update
    BY Zenon, <1>5, SetupSays
  <2>2. /\ amf'[a] = e /\ toN3iwf' = [toN3iwf EXCEPT ![a] = Append(@, m)]
        /\ \A b \in Amf : b # a => amf'[b] = amf[b] /\ toN3iwf'[b] = toN3iwf[b]
    BY Zenon, <2>1, SayOwn
  <2>3. m.kind \notin Answers("update") BY Zenon, <1>k, <2>1
  <2>4. AmfInv(a)' BY Zenon, <1>0, <1>1, <1>5, <1>k, <2>1, <2>2, <2>3, AnsweredInv
  <2> QED BY Zenon, <1>4, <2>2, <2>4
<1>6. CASE Head(toAmf[a]) = "update" /\ AnswerUpdate(a)
  <2>1. PICK m \in ToN3iwf, e \in AmfState :
            /\ Say(a, m, e, FALSE, 0)
            /\ m.kind = "updateAcknowledge" \/ (m.kind = "updateFailure" /\ e.update)
    BY Zenon, <1>6, UpdateSays
  <2>2. /\ amf'[a] = e /\ toN3iwf' = [toN3iwf EXCEPT ![a] = Append(@, m)]
        /\ \A b \in Amf : b # a => amf'[b] = amf[b] /\ toN3iwf'[b] = toN3iwf[b]
    BY Zenon, <2>1, SayOwn
  <2>3. m.kind \notin Answers("setup") /\ (m.kind = "updateAcknowledge" => m.kind \notin Answers("update"))
    BY Zenon, <1>k, <2>1
  <2>4. AmfInv(a)' BY Zenon, <1>0, <1>1, <1>6, <1>k, <2>1, <2>2, <2>3, AnsweredInv
  <2> QED BY Zenon, <1>4, <2>2, <2>4
<1>7. CASE toN3iwf' = toN3iwf /\ (amf' = amf \/ amf' = [amf EXCEPT ![a].resets = @ - 1])
  <2>1. /\ \A b \in Amf : b # a => amf'[b] = amf[b]
        /\ amf'[a].update = amf[a].update /\ amf'[a].up = amf[a].up
    <3>1. amf \in [Amf -> AmfState] BY Zenon DEF TypeOK, AmfState
    <3>2. CASE amf' = amf BY Zenon, <3>2
    <3>3. CASE amf' = [amf EXCEPT ![a].resets = @ - 1] BY Zenon, <3>1, <3>3 DEF AmfState
    <3> QED BY Zenon, <1>7, <3>2, <3>3
  <2>2. ASSUME NEW k PROVE Kept(a, k)
    <3>1. Answered(a, k)' = Answered(a, k) BY Zenon, <1>7 DEF Answered
    <3>2. Shrinks(Asked(a, k), Asked(a, k)') BY Zenon, <1>1, TakenRequest
    <3> QED BY Zenon, <1>1, <1>2, <3>1, <3>2, ShrinksSame DEF Kept
  <2>3. AmfInv(a)' BY Zenon, <1>0, <1>1, <2>1, <2>2, KeptInv
  <2> QED BY Zenon, <1>4, <1>7, <2>1, <2>3
<1> QED BY Zenon, <1>5, <1>6, <1>7 DEF AmfHandles

LEMMA AmfStartsPending ==
  ASSUME TypeOK, TypeOK', PendingInv, NEW a \in Amf, AmfStarts(a)
  PROVE  PendingInv'
<1>0. \A b \in Amf : AmfInv(b) BY DEF PendingInv
<1>1. UNCHANGED <<timers, AMFPool, conn, run, dial, rcvPktCh, toAmf>> /\ amf[a].up
  BY Zenon DEF AmfStarts, srvVars, ctxVars
<1>2. PICK m \in ToN3iwf, e \in AmfState, o \in BOOLEAN : Starts(a, m, e, o)
  BY Zenon, ProcedureSays DEF AmfStarts
<1>3. /\ amf'[a] = e /\ toN3iwf' = [toN3iwf EXCEPT ![a] = Append(@, m)]
      /\ \A b \in Amf : b # a => amf'[b] = amf[b] /\ toN3iwf'[b] = toN3iwf[b]
  BY Zenon, <1>2, SayOwn DEF Starts
<1>4. \A b \in Amf : \A k : Queued(b, k)' = Queued(b, k) /\ Asked(b, k)' = Asked(b, k)
  BY Zenon, <1>1 DEF Queued, Asked
<1>5. ASSUME NEW b \in Amf, b # a PROVE AmfInv(b)'
  <2>1. \A k : Shrinks(Queued(b, k), Queued(b, k)') BY Zenon, <1>4, ShrinksSame
  <2> QED BY Zenon, <1>0, <1>1, <1>3, <1>5, <2>1, FrameInv
<1>6. ASSUME NEW k, m.kind \notin Answers(k) PROVE Kept(a, k)
  <2>1. Answered(a, k)' = Answered(a, k) BY Zenon, <1>3, <1>6, SayAnswered
  <2> QED BY Zenon, <1>1, <1>4, <2>1, ShrinksSame DEF Kept
<1>7. m.kind \notin Answers("setup") /\ (m.kind # "updateFailure" => m.kind \notin Answers("update"))
  BY Zenon, <1>2 DEF Starts, Answers
<1>8. CASE m.kind # "updateFailure"
  <2>1. amf'[a].update = amf[a].update /\ amf'[a].up = amf[a].up BY Zenon, <1>2, <1>3, <1>8 DEF Starts
  <2>2. AmfInv(a)' BY Zenon, <1>0, <1>1, <1>6, <1>7, <1>8, <2>1, KeptInv
  <2> QED BY Zenon, <1>1, <1>5, <2>2, <1>0 DEF PendingInv
<1>9. CASE m.kind = "updateFailure"
  <2>1. ~amf[a].update /\ amf'[a].update BY Zenon, <1>2, <1>3, <1>9 DEF Starts
  <2>2. Idle(a, "update") BY Zenon, <1>0, <2>1 DEF AmfInv
  <2>3. Unique(Answered(a, "update")') BY Zenon, <1>3, <2>2, SayAnswered DEF Idle, NoMessage
  <2>4. Alone(a, "update")' BY Zenon, <1>1, <1>4, <2>2, <2>3 DEF Alone, Idle, NoMessage, Unique
  <2>5. Kept(a, "setup") BY Zenon, <1>6, <1>7
  <2>6. (Alone(a, "setup") => Alone(a, "setup")') /\ (Idle(a, "setup") => Idle(a, "setup")')
    BY Zenon, <2>5, KeptAlone
  <2>7. conn'[a] # "none" BY Zenon, <1>0, <1>1 DEF AmfInv
  <2>8. AmfInv(a)' BY Zenon, <1>0, <1>1, <2>1, <2>4, <2>6, <2>7 DEF AmfInv
  <2> QED BY <1>1, <1>5, <2>8, <1>0 DEF PendingInv
<1> QED BY Zenon, <1>8, <1>9

LEMMA AmfClosesPending ==
  ASSUME TypeOK, TypeOK', PendingInv, NEW a \in Amf, AmfCloses(a)
  PROVE  PendingInv'
<1>0. \A b \in Amf : AmfInv(b) BY DEF PendingInv
<1>1. UNCHANGED <<timers, AMFPool, conn, run, dial, rcvPktCh, toN3iwf>>
  BY Zenon DEF AmfCloses, srvVars, ctxVars
<1>2. /\ toAmf'[a] = <<>> /\ amf'[a].update = amf[a].update /\ amf'[a].up = amf[a].up
      /\ \A b \in Amf : b # a => toAmf'[b] = toAmf[b] /\ amf'[b] = amf[b]
  BY DEF AmfCloses, TypeOK
<1>3. \A b \in Amf : \A k : Queued(b, k)' = Queued(b, k) /\ Answered(b, k)' = Answered(b, k)
  BY Zenon, <1>1 DEF Queued, Answered
<1>4. ASSUME NEW b \in Amf PROVE AmfInv(b)'
  <2>1. CASE b = a
    <3>1. ASSUME NEW k PROVE Kept(a, k)
      <4>1. Asked(a, k)' = {} BY <1>2 DEF Asked
      <4>2. Shrinks(Asked(a, k), Asked(a, k)') BY Zenon, <4>1 DEF Shrinks, Unique
      <4> QED BY Zenon, <1>1, <1>3, <4>2, ShrinksSame DEF Kept
    <3> QED BY Zenon, <1>0, <1>1, <1>2, <2>1, <3>1, KeptInv
  <2>2. CASE b # a
    <3>1. \A k : Shrinks(Queued(b, k), Queued(b, k)') BY Zenon, <1>3, ShrinksSame
    <3> QED BY Zenon, <1>0, <1>1, <1>2, <2>2, <3>1, FrameInv
  <2> QED BY Zenon, <2>1, <2>2
<1> QED BY Zenon, <1>1, <1>4 DEF PendingInv

LEMMA InitPending == Init => PendingInv
<1> SUFFICES ASSUME Init PROVE PendingInv BY Zenon
<1>1. ASSUME NEW a \in Amf, NEW k \in TimerKind PROVE Idle(a, k) /\ Alone(a, k)
  <2>1. toAmf[a] = <<>> /\ toN3iwf[a] = <<>> /\ rcvPktCh = <<>> /\ timers[a][k] = 0 BY Zenon DEF Init
  <2>2. NoMessage(a, k) BY <2>1 DEF NoMessage, Asked, Answered, Queued
  <2> QED BY Zenon, <2>1, <2>2 DEF Idle, Alone, NoMessage, Unique
<1>2. ASSUME NEW a \in Amf
      PROVE  AMFPool[a] = None /\ timers[a]["setup"] = 0 /\ timers[a]["update"] = 0 /\ ~amf[a].up
  BY Zenon, Kinds DEF Init
<1>3. \A a \in Amf : AmfInv(a) BY Zenon, <1>1, <1>2, Kinds DEF AmfInv
<1>4. \A n \in dial.next..Len(AmfSctpAddrs) : conn[AmfSctpAddrs[n]] = "none"
  <2>1. dial.next = 1 /\ AmfSctpAddrs \in Seq(Amf) /\ \A a \in Amf : conn[a] = "none"
    <3>1. AmfSctpAddrs \in Seq(Amf) BY Zenon, AmfNodeAssumption
    <3>2. dial = [next |-> 1, tries |-> 0] /\ conn = [a \in Amf |-> "none"] BY Zenon DEF Init
    <3> QED BY Zenon, <3>1, <3>2
  <2>2. \A n \in 1..Len(AmfSctpAddrs) : AmfSctpAddrs[n] \in Amf BY <2>1
  <2> QED BY Zenon, <2>1, <2>2
<1> QED BY Zenon, <1>3, <1>4 DEF PendingInv

LEMMA NextPending == ASSUME TypeOK, TypeOK', PendingInv, [Next]_vars PROVE PendingInv'
<1>0. \A b \in Amf : AmfInv(b) BY Zenon DEF PendingInv
<1>1. CASE UNCHANGED vars
  <2>1. UNCHANGED <<timers, AMFPool, conn, run, dial, rcvPktCh, toN3iwf, toAmf, amf>>
    BY Zenon, <1>1 DEF vars, srvVars, ctxVars, netVars
  <2>2. \A b \in Amf : \A k : Shrinks(Queued(b, k), Queued(b, k)') BY Zenon, <2>1, SameQueue
  <2>3. \A b \in Amf : AmfInv(b)' BY Zenon, <1>0, <2>1, <2>2, FrameInv
  <2> QED BY Zenon, <2>1, <2>3 DEF PendingInv
<1>2. CASE Next
  <2>1. ASSUME NEW a \in Amf, Handles(a) PROVE PendingInv'
    <3>1. AmfInv(a)' BY Zenon, <1>0, <2>1, HandlesPending
    <3>2. \E kind : Dispatched(a, kind)
      BY Zenon, <2>1 DEF Handles, HandleNGSetupResponse, HandleNGSetupFailure, HandleNGResetAll,
         HandleNGResetPart, HandleErrorIndication, HandleAMFConfigurationUpdate, HandleOverload,
         HandleRANConfigurationUpdateFailure, HandleRANConfigurationUpdateAcknowledge
    <3>3. ASSUME NEW b \in Amf, b # a PROVE AmfInv(b)' /\ run' # "dialing"
      BY Zenon, <1>0, <2>1, <3>2, <3>3, HandlesOwn, OthersKept
    <3>4. run' # "dialing"
      BY Zenon, <2>1 DEF Handles, Dispatched, HandleNGSetupResponse, HandleNGSetupFailure, HandleNGResetAll,
         HandleNGResetPart, HandleErrorIndication, HandleAMFConfigurationUpdate, HandleOverload,
         HandleRANConfigurationUpdateFailure, HandleRANConfigurationUpdateAcknowledge
    <3> QED BY Zenon, <3>1, <3>3, <3>4 DEF PendingInv
  <2> QED BY Zenon, <1>2, <2>1, Steps, ServerPending, ReceivePending, WaitOverPending,
             AmfHandlesPending, AmfStartsPending, AmfClosesPending
<1> QED BY Zenon, <1>1, <1>2

\* One NG Setup is going on with an AMF at a time, however messages of several AMFs, waiting
\* times and the end of connections interleave: at most one NG Setup Request, answer or timer
\* of an AMF exists, and none once HandleNGSetupResponse has put the AMF into the pool.
THEOREM OneSetupAtATime == Spec => []OneSetupPending
<1>1. PendingInv => OneSetupPending
  <2> SUFFICES ASSUME PendingInv, NEW a \in Amf
               PROVE  /\ \A x, y \in Pending(a, "setup") : x = y
                      /\ AMFPool[a] # None => Pending(a, "setup") = {}
    BY Zenon DEF OneSetupPending
  <2>1. Alone(a, "setup") /\ (AMFPool[a] # None => Idle(a, "setup")) BY Zenon DEF PendingInv, AmfInv
  <2>2. ASSUME NEW x \in Pending(a, "setup")
        PROVE  \/ x[1] = "asked" /\ x[2] \in Asked(a, "setup") /\ x = <<x[1], x[2]>>
               \/ x[1] = "answered" /\ x[2] \in Answered(a, "setup") /\ x = <<x[1], x[2]>>
               \/ x[1] = "queued" /\ x[2] \in Queued(a, "setup") /\ x = <<x[1], x[2]>>
               \/ x[1] = "timer" /\ x[2] \in 1..timers[a]["setup"] /\ x = <<x[1], x[2]>>
    <3>1. ASSUME NEW s, NEW S, x \in {s} \X S PROVE x[1] = s /\ x[2] \in S /\ x = <<x[1], x[2]>>
      BY <3>1
    <3>2. \/ x \in {"asked"} \X Asked(a, "setup") \/ x \in {"answered"} \X Answered(a, "setup")
          \/ x \in {"queued"} \X Queued(a, "setup") \/ x \in {"timer"} \X (1..timers[a]["setup"])
      BY Zenon, <2>2 DEF Pending
    <3>3. CASE x \in {"asked"} \X Asked(a, "setup") BY Zenon, <3>1, <3>3
    <3>4. CASE x \in {"answered"} \X Answered(a, "setup") BY Zenon, <3>1, <3>4
    <3>5. CASE x \in {"queued"} \X Queued(a, "setup") BY Zenon, <3>1, <3>5
    <3>6. CASE x \in {"timer"} \X (1..timers[a]["setup"]) BY Zenon, <3>1, <3>6
    <3> QED BY Zenon, <3>2, <3>3, <3>4, <3>5, <3>6
  <2>3. AMFPool[a] # None => Pending(a, "setup") = {} BY <2>1, <2>2 DEF Idle, NoMessage
  <2>4. ASSUME NEW x \in Pending(a, "setup"), NEW y \in Pending(a, "setup") PROVE x = y
    <3>1. timers[a]["setup"] \in {0, 1} /\ (timers[a]["setup"] # 0 => NoMessage(a, "setup"))
      BY Zenon, <2>1 DEF Alone
    <3>2. \A n \in 1..timers[a]["setup"] : n = 1 /\ NoMessage(a, "setup") BY <3>1
    <3>3. x[1] = y[1]
      <4>1. ASSUME NEW z \in Pending(a, "setup")
            PROVE  /\ z[1] \in {"asked", "answered", "queued", "timer"}
                   /\ z[1] = "asked" => Asked(a, "setup") # {}
                   /\ z[1] = "answered" => Answered(a, "setup") # {}
                   /\ z[1] = "queued" => Queued(a, "setup") # {}
                   /\ z[1] = "timer" => NoMessage(a, "setup")
        <5>1. CASE z[1] = "asked" /\ z[2] \in Asked(a, "setup") BY Zenon, <5>1
        <5>2. CASE z[1] = "answered" /\ z[2] \in Answered(a, "setup") BY Zenon, <5>2
        <5>3. CASE z[1] = "queued" /\ z[2] \in Queued(a, "setup") BY Zenon, <5>3
        <5>4. CASE z[1] = "timer" /\ z[2] \in 1..timers[a]["setup"] BY Zenon, <3>2, <5>4
        <5> QED BY Zenon, <2>2, <4>1, <5>1, <5>2, <5>3, <5>4
      <4>2. /\ Asked(a, "setup") = {} \/ Answered(a, "setup") = {}
            /\ Asked(a, "setup") = {} \/ Queued(a, "setup") = {}
            /\ Answered(a, "setup") = {} \/ Queued(a, "setup") = {}
        BY Zenon, <2>1 DEF Alone
      <4> QED BY <4>1, <4>2 DEF NoMessage
    <3>4. x[2] = y[2]
      <4>1. "asked" # "answered" /\ "asked" # "queued" /\ "asked" # "timer" /\ "answered" # "queued"
            /\ "answered" # "timer" /\ "queued" # "timer"
        BY Zenon
      <4>2. /\ Unique(Asked(a, "setup")) /\ Unique(Answered(a, "setup")) /\ Unique(Queued(a, "setup"))
            /\ Unique(1..timers[a]["setup"])
        BY Zenon, <2>1, <3>2 DEF Alone, Unique
      <4>3. \/ x[2] \in Asked(a, "setup") /\ y[2] \in Asked(a, "setup")
            \/ x[2] \in Answered(a, "setup") /\ y[2] \in Answered(a, "setup")
            \/ x[2] \in Queued(a, "setup") /\ y[2] \in Queued(a, "setup")
            \/ x[2] \in 1..timers[a]["setup"] /\ y[2] \in 1..timers[a]["setup"]
        BY Zenon, <2>2, <3>3, <4>1
      <4> QED BY Zenon, <4>2, <4>3 DEF Unique
    <3> QED BY Zenon, <2>2, <3>3, <3>4
  <2> QED BY Zenon, <2>3, <2>4
<1>2. TypeOK /\ TypeOK' /\ PendingInv /\ [Next]_vars => PendingInv' BY Zenon, NextPending
<1> QED BY <1>1, <1>2, InitPending, TypeCorrect, PTL DEF Spec

\* A write to c is seen by c only, and last.
LEMMA WriteLast ==
  ASSUME TypeOK, NEW c \in Amf, NEW x \in ToAmf, Write(c, x), NEW a \in Amf,
         Len(toAmf'[a]) > Len(toAmf[a])
  PROVE  a = c /\ toAmf'[a][Len(toAmf'[a])] = x
<1>1. toAmf \in [Amf -> Seq(ToAmf)] BY Zenon DEF TypeOK
<1>2. toAmf[a] \in Seq(ToAmf) /\ ~(Len(toAmf[a]) > Len(toAmf[a])) BY <1>1
<1>3. toAmf'[a] = toAmf[a] \/ (a = c /\ toAmf'[a] = Append(toAmf[a], x)) BY Zenon, <1>1 DEF Write
<1>4. a = c /\ toAmf'[a] = Append(toAmf[a], x) BY Zenon, <1>2, <1>3
<1> QED BY <1>2, <1>4

\* A RAN Configuration Update is only written to an AMF in the pool.
LEMMA UpdatesToPool ==
  ASSUME TypeOK, PendingInv, Next, NEW a \in Amf,
         Len(toAmf'[a]) > Len(toAmf[a]), toAmf'[a][Len(toAmf'[a])] = "update"
  PROVE  AMFPool'[a] # None
<1>1. /\ toAmf \in [Amf -> Seq(ToAmf)] /\ Len(toAmf[a]) \in Nat /\ ~(Len(toAmf[a]) > Len(toAmf[a]))
      /\ toAmf'[a] # toAmf[a]
  BY DEF TypeOK
<1>2. \A x \in ToAmf, c \in Amf : Write(c, x) => a = c /\ x = "update" BY Zenon, WriteLast
<1>k. {"setup", "update", "error", "resetAck", "configAck"} \subseteq ToAmf
      /\ "setup" # "update" /\ "error" # "update" /\ "resetAck" # "update" /\ "configAck" # "update"
  BY Zenon DEF ToAmf
<1>w. ASSUME NEW c \in Amf
      PROVE  ~Write(c, "error") /\ ~Write(c, "resetAck") /\ ~Write(c, "configAck") /\ ~Write(c, "setup")
  BY Zenon, <1>2, <1>k
<1>3. CASE DialSCTP
  <2>1. \E c : toAmf' = [toAmf EXCEPT ![c] = IF available[c] THEN Append(@, "setup") ELSE @]
    BY Zenon, <1>1, <1>3 DEF DialSCTP
  <2>2. toAmf'[a] = Append(toAmf[a], "setup") BY Zenon, <1>1, <2>1
  <2>3. toAmf'[a][Len(toAmf'[a])] = "setup" BY <1>1, <2>2
  <2> QED BY Zenon, <1>k, <2>3
<1>4. CASE runNgapEventHandler \/ ReceiverClosed \/ Registers \/ \E c \in Amf : Receive(c) \/ ReceiveEnds(c) \/ AmfStarts(c)
  <2>1. toAmf' = toAmf
    BY Zenon, <1>4 DEF runNgapEventHandler, ReceiverClosed, Registers, HandleUnmarshalEAP5GData,
       Receive, ReceiveEnds, AmfStarts, netVars
  <2> QED BY Zenon, <1>1, <2>1
<1>5. ASSUME NEW c \in Amf, AmfHandles(c) \/ AmfCloses(c) PROVE FALSE
  <2>1. CASE AmfHandles(c)
    <3>1. toAmf[c] \in Seq(ToAmf) /\ toAmf[c] # <<>> /\ toAmf' = [toAmf EXCEPT ![c] = Tail(toAmf[c])]
      BY Zenon, <1>1, <2>1 DEF AmfHandles
    <3>2. toAmf'[a] = toAmf[a] \/ (a = c /\ toAmf'[a] = Tail(toAmf[c])) BY Zenon, <1>1, <3>1
    <3>3. Len(Tail(toAmf[c])) = Len(toAmf[c]) - 1 BY <3>1
    <3>4. Len(toAmf'[a]) = Len(toAmf[a]) - 1 BY Zenon, <1>1, <3>2, <3>3
    <3> QED BY <1>1, <3>4
  <2>2. CASE AmfCloses(c)
    <3>1. toAmf'[a] = toAmf[a] \/ toAmf'[a] = <<>> BY Zenon, <1>1, <2>2 DEF AmfCloses
    <3> QED BY <1>1, <3>1
  <2> QED BY Zenon, <1>5, <2>1, <2>2
<1>6. ASSUME NEW c \in Amf, NEW k \in TimerKind, WaitOver(c, k) PROVE AMFPool'[a] # None
  <2>1. Write(c, k) /\ AMFPool' = AMFPool /\ timers[c][k] > 0 BY Zenon, <1>6 DEF WaitOver, SendIfAvailable
  <2>2. k \in ToAmf BY Zenon DEF ToAmf, TimerKind
  <2>3. a = c /\ k = "update" BY Zenon, <1>2, <2>1, <2>2
  <2>4. timers[a]["update"] # 0 BY <2>1, <2>3
  <2> QED BY Zenon, <2>1, <2>4 DEF PendingInv, AmfInv
<1>7. ASSUME NEW c \in Amf, Handles(c) PROVE AMFPool'[a] # None
  <2>1. toAmf' # toAmf BY Zenon, <1>1
  <2>2. HandleRANConfigurationUpdateFailure(c)
    BY Zenon, <1>7, <1>w, <2>1 DEF Handles, HandleNGSetupResponse, HandleNGSetupFailure, HandleNGResetAll,
       HandleNGResetPart, HandleErrorIndication, HandleAMFConfigurationUpdate, HandleOverload,
       HandleRANConfigurationUpdateAcknowledge, ResetDone, StartWait
  <2>3. Write(c, "update") /\ AMFPool[c] # None /\ AMFPool' = AMFPool
    BY Zenon, <2>1, <2>2 DEF HandleRANConfigurationUpdateFailure, SendIfAvailable, StartWait
  <2>4. "update" \in ToAmf BY Zenon DEF ToAmf
  <2>5. a = c BY Zenon, <1>2, <2>3, <2>4
  <2> QED BY Zenon, <2>3, <2>5
<1> QED BY Zenon, <1>3, <1>4, <1>5, <1>6, <1>7, Steps

\* The waiting time an AMF gives is respected: whoever writes an NG Setup Request or a RAN
\* Configuration Update to it, Run, a timer's goroutine or the handler of a failure, does so
\* when no timer of that AMF runs.
THEOREM WaitAlwaysRespected == Spec => WaitRespected
<1>1. ASSUME TypeOK, TypeOK', PendingInv, PendingInv', Next PROVE WrittenAfterWait
  <2> SUFFICES ASSUME NEW a \in Amf, Len(toAmf'[a]) > Len(toAmf[a]), toAmf'[a][Len(toAmf'[a])] \in TimerKind
               PROVE  \A k \in TimerKind : timers'[a][k] = 0
    BY Zenon DEF WrittenAfterWait
  <2>1. PICK w \in TimerKind : toAmf'[a][Len(toAmf'[a])] = w BY Zenon
  <2>2. Asked(a, w)' # {}
    <3>1. toAmf'[a] \in Seq(ToAmf) /\ Len(toAmf[a]) \in Nat BY <1>1 DEF TypeOK
    <3>2. Len(toAmf'[a]) \in DOMAIN toAmf'[a] /\ toAmf'[a][Len(toAmf'[a])] = w BY <2>1, <3>1
    <3> QED BY Zenon, <3>2 DEF Asked
  <2>3. /\ Alone(a, "setup")' /\ Alone(a, "update")'
        /\ AMFPool'[a] # None => Idle(a, "setup")'
        /\ timers'[a]["update"] # 0 => AMFPool'[a] # None
    BY Zenon, <1>1 DEF PendingInv, AmfInv
  <2>4. CASE w = "setup"
    <3>1. timers'[a]["setup"] = 0 BY Zenon, <2>2, <2>3, <2>4 DEF Alone, NoMessage
    <3>2. ~Idle(a, "setup")' BY Zenon, <2>2, <2>4 DEF Idle, NoMessage
    <3> QED BY Zenon, <2>3, <3>1, <3>2, Kinds
  <2>5. CASE w = "update"
    <3>1. timers'[a]["update"] = 0 BY Zenon, <2>2, <2>3, <2>5 DEF Alone, NoMessage
    <3>2. AMFPool'[a] # None BY Zenon, <1>1, <2>1, <2>5, UpdatesToPool
    <3>3. timers'[a]["setup"] = 0 BY Zenon, <2>3, <3>2 DEF Idle
    <3> QED BY Zenon, <3>1, <3>3, Kinds
  <2> QED BY Zenon, <2>4, <2>5, Kinds
<1>2. ASSUME UNCHANGED vars PROVE WrittenAfterWait
  <2>1. toAmf' = toAmf BY Zenon, <1>2 DEF vars, netVars
  <2> QED BY <2>1 DEF WrittenAfterWait
<1>3. TypeOK /\ TypeOK' /\ PendingInv /\ PendingInv' /\ [Next]_vars => [WrittenAfterWait]_vars
  BY Zenon, <1>1
<1>4. TypeOK /\ TypeOK' /\ PendingInv /\ [Next]_vars => PendingInv' BY Zenon, NextPending
<1> QED BY <1>3, <1>4, InitPending, TypeCorrect, PTL DEF Spec, WaitRespected

=============================================================================
