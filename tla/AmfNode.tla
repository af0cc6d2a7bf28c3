-------------------------------- MODULE AmfNode --------------------------------
(***************************************************************************)
(* The NG interface: the SCTP connections to the AMFs, the NG Setup with   *)
(* its waiting times, and the procedures that concern an AMF as a whole    *)
(* (NG Reset, Error Indication, configuration updates, overload).          *)
(*                                                                         *)
(* Each connection has a receiver goroutine; the receivers feed one        *)
(* bounded channel, which the NGAP event handler empties.  An empty packet *)
(* on the channel, sent by the receiver whose connection is closed, ends   *)
(* the event handler.                                                      *)
(*                                                                         *)
(* SCTP delivers the messages of a connection in order and loses none.     *)
(***************************************************************************)
EXTENDS Integers, Sequences, FiniteSets

CONSTANTS
    Amf,             \* AMF SCTP addresses
    AmfSctpAddrs,    \* the configured order of the addresses
    Active,          \* the AMFs that start procedures of their own
    Guami, Plmn,     \* what AMFs serve and UEs ask for
    Offer,           \* what an AMF may say it serves
    None,
    PktChLen,        \* RECEIVE_NGAPPACKET_CHANNEL_LEN
    MaxRan,          \* bound on the RAN UEs
    MaxRefuse,       \* bound on the NG Setup Failures of an AMF
    MaxSent,         \* bound on the procedures all AMFs start
    MaxClose         \* bound on the connections that end

ASSUME AmfNodeAssumption ==
    /\ IsFiniteSet(Amf) /\ Active \subseteq Amf /\ AmfSctpAddrs \in Seq(Amf)
    /\ {AmfSctpAddrs[n] : n \in DOMAIN AmfSctpAddrs} = Amf
    /\ \A m, n \in DOMAIN AmfSctpAddrs : AmfSctpAddrs[m] = AmfSctpAddrs[n] => m = n
    /\ None \notin Amf \cup Plmn
    /\ PktChLen \in Nat \ {0} /\ MaxRan \in Nat /\ MaxRefuse \in Nat /\ MaxSent \in Nat /\ MaxClose \in Nat

VARIABLES
    run,          \* the NGAP server: "dialing", "running", "stopped", "failed", "crashed"
    dial,         \* Run: the address dialled next, and the attempts made for it
    conn,         \* connections and their receivers
    rcvPktCh,     \* the packet channel
    AMFPool,      \* N3IWFContext.AMFPool
    available,    \* N3IWFContext.AMFReInitAvailableList
    timers,       \* pending time.AfterFunc calls
    RanUePool,    \* the AMF of every RAN UE
    amf,          \* environment: the AMFs
    toAmf, toN3iwf, \* environment: messages under way
    hist          \* history: whether an AMF left out something a handler takes for
                  \* granted, and what counts against the bounds

srvVars == <<run, dial, conn>>
ctxVars == <<AMFPool, available, timers>>
netVars == <<toAmf, toN3iwf>>
vars == <<run, dial, conn, rcvPktCh, AMFPool, available, timers, RanUePool, amf,
          toAmf, toN3iwf, hist>>

-----------------------------------------------------------------------------
RanId == 1..MaxRan   \* RAN UE NGAP IDs, in the order they are allocated

\* What an AMF says it serves; None stands for a ServedGUAMIList that is nil.  The
\* PLMNSupportList is always there, with or without the UE's PLMN.
Served == [guami: {None} \cup SUBSET Guami, plmn: SUBSET Plmn]

NoLists == [guami |-> None, plmn |-> {}]

\* An AMF context.  tnl abstracts AMFTNLAssociationList to the presence of one
\* additional address, overload AMFOverloadContent to its presence.
AmfCtx == [served: Served, tnl: BOOLEAN, overload: BOOLEAN]

ASSUME ContextAssumption == Offer \subseteq Served /\ None \notin AmfCtx

\* An item of a partial reset holds a RAN UE NGAP ID, or else an AMF UE NGAP ID (by
\* "amf"), or neither.
Item == [by: {"ran"}, id: RanId] \cup [by: {"amf", "none"}]

ToN3iwf ==
    [kind: {"setupResponse"}, served: Served, ok: BOOLEAN]
    \cup [kind: {"setupFailure"}, wait: BOOLEAN, ok: BOOLEAN]
    \cup [kind: {"resetAll"}, ok: BOOLEAN, cause: BOOLEAN]
    \cup [kind: {"resetPart"}, items: Seq(Item)]
    \cup [kind: {"errorIndication"}, ids: {"none", "one", "both"}, id: RanId]
    \cup [kind: {"configUpdate"}, served: Served, add: BOOLEAN, remove: BOOLEAN]
    \cup [kind: {"overloadStart"}, content: BOOLEAN]
    \cup [kind: {"overloadStop"}]
    \cup [kind: {"updateFailure"}, wait: BOOLEAN]
    \cup [kind: {"updateAcknowledge"}]

ToAmf == {"setup", "update", "resetAck", "error", "configAck"}

Packet == [conn: Amf, msg: ToN3iwf] \cup [conn: {None}]
EmptyPacket == [conn |-> None]

TimerKind == {"setup", "update"}

\* Every context, channel and message has its type.
TypeOK ==
    /\ run \in {"dialing", "running", "stopped", "failed", "crashed"}
    /\ dial \in [next: 1..Len(AmfSctpAddrs) + 1, tries: 0..2]
    /\ conn \in [Amf -> {"none", "open", "closed", "broken"}]
    /\ rcvPktCh \in Seq(Packet) /\ Len(rcvPktCh) <= PktChLen
    /\ AMFPool \in [Amf -> AmfCtx \cup {None}]
    /\ available \in [Amf -> BOOLEAN]
    /\ timers \in [Amf -> [TimerKind -> Nat]]
    /\ RanUePool \in [RanId -> Amf \cup {None}]
    /\ amf \in [Amf -> [refused: 0..MaxRefuse, dead: BOOLEAN, resets: Int, up: BOOLEAN,
                         final: BOOLEAN, update: BOOLEAN]]
    /\ toAmf \in [Amf -> Seq(ToAmf)] /\ toN3iwf \in [Amf -> Seq(ToN3iwf)]
    /\ hist \in [omitted: BOOLEAN, rans: 0..MaxRan, sent: 0..MaxSent, closed: 0..MaxClose]

Init ==
    /\ run = "dialing" /\ dial = [next |-> 1, tries |-> 0]
    /\ conn = [a \in Amf |-> "none"] /\ rcvPktCh = <<>>
    /\ AMFPool = [a \in Amf |-> None] /\ available = [a \in Amf |-> TRUE]
    /\ timers = [a \in Amf |-> [k \in TimerKind |-> 0]]
    /\ RanUePool = [r \in RanId |-> None]
    /\ amf = [a \in Amf |-> [refused |-> 0, dead |-> FALSE, resets |-> 0, up |-> FALSE,
                       final |-> FALSE, update |-> FALSE]]
    /\ toAmf = [a \in Amf |-> <<>>] /\ toN3iwf = [a \in Amf |-> <<>>]
    /\ hist = [omitted |-> FALSE, rans |-> 0, sent |-> 0, closed |-> 0]

-----------------------------------------------------------------------------
(* Sending to an AMF.                                                      *)

\* A write to a connection that has ended fails and is only logged.
Write(a, k) ==
    toAmf' = [toAmf EXCEPT ![a] = IF conn[a] = "open" /\ ~amf[a].dead THEN Append(@, k) ELSE @]

\* SendNGSetupRequest and SendRANConfigurationUpdate, when the flag is avail.
SendIfAvailable(a, k, avail) == IF avail THEN Write(a, k) ELSE UNCHANGED toAmf

-----------------------------------------------------------------------------
(* The server: dialling, receivers, event handler.                         *)

\* Run dials the addresses one after the other and starts the event handler when
\* all are connected.  listenAndServe sends the NG Setup Request as soon as its
\* connection is there.  Run fails when the third attempt does, or when the parameters
\* of the socket cannot be set after any of them.
DialSCTP ==
    /\ run = "dialing" /\ dial.next <= Len(AmfSctpAddrs)
    /\ LET a == AmfSctpAddrs[dial.next] IN
       \/ /\ conn' = [conn EXCEPT ![a] = "open"]
          /\ dial' = [next |-> dial.next + 1, tries |-> 0]
          /\ toAmf' = [toAmf EXCEPT ![a] = IF available[a] THEN Append(@, "setup") ELSE @]
          /\ UNCHANGED run
       \/ /\ dial.tries < 2
          /\ dial' = [dial EXCEPT !.tries = @ + 1]
          /\ UNCHANGED <<conn, toAmf, run>>
       \/ /\ run' = "failed"
          /\ UNCHANGED <<conn, toAmf, dial>>
    /\ UNCHANGED <<rcvPktCh, ctxVars, RanUePool, amf, toN3iwf, hist>>

runNgapEventHandler ==
    /\ run = "dialing" /\ dial.next > Len(AmfSctpAddrs)
    /\ run' = "running"
    /\ UNCHANGED <<dial, conn, rcvPktCh, ctxVars, RanUePool, amf, netVars, hist>>

\* Mutant: off by one.
HasRoom_offByOne == Len(rcvPktCh) <= PktChLen

HasRoom == Len(rcvPktCh) < PktChLen

\* The receiver of a moves a message to the channel; it waits while the channel is
\* full, and a closed channel discards the message.
Receive(a) ==
    /\ conn[a] = "open" /\ toN3iwf[a] # <<>>
    /\ toN3iwf' = [toN3iwf EXCEPT ![a] = Tail(@)]
    /\ IF run = "stopped" THEN UNCHANGED rcvPktCh
       ELSE /\ HasRoom
            /\ rcvPktCh' = Append(rcvPktCh, [conn |-> a, msg |-> Head(toN3iwf[a])])
    /\ UNCHANGED <<srvVars, ctxVars, RanUePool, amf, toAmf, hist>>

\* The AMF has closed the connection: the receiver closes its end and sends the
\* empty packet.  Any other read error ends the receiver alone.
ReceiveEnds(a) ==
    /\ conn[a] = "open" /\ toN3iwf[a] = <<>> /\ amf[a].dead
    /\ \/ /\ conn' = [conn EXCEPT ![a] = "closed"]
          /\ IF run = "stopped" THEN UNCHANGED rcvPktCh
             ELSE /\ HasRoom
                  /\ rcvPktCh' = Append(rcvPktCh, EmptyPacket)
       \/ /\ conn' = [conn EXCEPT ![a] = "broken"]
          /\ UNCHANGED rcvPktCh
    /\ UNCHANGED <<run, dial, ctxVars, RanUePool, amf, netVars, hist>>

\* The event handler ends and closes the channel, with what is in it.
ReceiverClosed ==
    /\ run = "running" /\ rcvPktCh # <<>> /\ Head(rcvPktCh) = EmptyPacket
    /\ run' = "stopped" /\ rcvPktCh' = <<>>
    /\ UNCHANGED <<dial, conn, ctxVars, RanUePool, amf, netVars, hist>>

-----------------------------------------------------------------------------
(* The event handler: messages of AMF a.  NGAPDispatch looks the AMF up by *)
(* the address of the connection.                                          *)

\* The message m of AMF a that is handled now.
Dispatched(a, k) ==
    /\ run = "running" /\ rcvPktCh # <<>> /\ Head(rcvPktCh).conn = a
    /\ Head(rcvPktCh).msg.kind = k
    /\ rcvPktCh' = Tail(rcvPktCh)
    /\ UNCHANGED <<dial, conn, amf, toN3iwf, hist>>

Msg == Head(rcvPktCh).msg

\* What an AMF context serves after a message; an absent list leaves the old one.
Merge(old, new) ==
    [guami |-> IF new.guami = None THEN old.guami ELSE new.guami, plmn |-> new.plmn]

\* NewN3iwfAmf keeps an entry that exists.
NewN3iwfAmf(a) ==
    IF AMFPool[a] # None THEN AMFPool[a]
    ELSE [served |-> NoLists, tnl |-> FALSE, overload |-> FALSE]

\* A response with an empty mandatory element is answered with an Error Indication
\* on the connection; one that leaves the element out is not.
HandleNGSetupResponse(a) ==
    /\ Dispatched(a, "setupResponse")
    /\ IF Msg.ok
       THEN /\ AMFPool' = [AMFPool EXCEPT ![a] =
                  [NewN3iwfAmf(a) EXCEPT !.served = Merge(@, Msg.served)]]
            /\ UNCHANGED toAmf
       ELSE Write(a, "error") /\ UNCHANGED AMFPool
    /\ UNCHANGED <<run, available, timers, RanUePool>>

\* Mutant: the AMF is asked again at once, too.
StartWait_atOnce(a, k) ==
    /\ available' = [available EXCEPT ![a] = FALSE]
    /\ timers' = [timers EXCEPT ![a][k] = @ + 1]
    /\ Write(a, k)

\* Mutant: no call is scheduled for the end of the waiting time.
StartWait_forgets(a, k) ==
    /\ available' = [available EXCEPT ![a] = FALSE]
    /\ UNCHANGED <<timers, toAmf>>

\* The AMF must not be asked again before the waiting time has passed.
StartWait(a, k) ==
    /\ available' = [available EXCEPT ![a] = FALSE]
    /\ timers' = [timers EXCEPT ![a][k] = @ + 1]
    /\ UNCHANGED toAmf

\* Without a waiting time the AMF is not asked again.
HandleNGSetupFailure(a) ==
    /\ Dispatched(a, "setupFailure")
    /\ \/ ~Msg.ok /\ Write(a, "error") /\ UNCHANGED <<available, timers>>
       \/ Msg.ok /\ Msg.wait /\ StartWait(a, "setup")
       \/ Msg.ok /\ ~Msg.wait /\ UNCHANGED <<available, timers, toAmf>>
    /\ UNCHANGED <<run, AMFPool, RanUePool>>

\* Mutant: a ticker instead of a timer.
Expired_ticker(a, k) == timers

Expired(a, k) == [timers EXCEPT ![a][k] = @ - 1]

\* The function passed to time.AfterFunc, in a goroutine of its own: it runs
\* whatever has become of the connection and of the event handler.
WaitOver(a, k) ==
    /\ run \in {"running", "stopped"} /\ timers[a][k] > 0
    /\ timers' = Expired(a, k)
    /\ available' = [available EXCEPT ![a] = TRUE]
    /\ SendIfAvailable(a, k, TRUE)
    /\ UNCHANGED <<srvVars, rcvPktCh, AMFPool, RanUePool, amf, toN3iwf, hist>>

\* Mutant: the acknowledgement is left to the interface reset.
ResetDone_noAck(a) == UNCHANGED toAmf

ResetDone(a) == Write(a, "resetAck")

\* A reset of the whole interface.  RemoveAllRelatedUe goes through N3iwfRanUeList,
\* which nothing fills (AttachAMF is not called).
HandleNGResetAll(a) ==
    /\ Dispatched(a, "resetAll")
    /\ \/ AMFPool[a] = None /\ UNCHANGED <<run, toAmf>>
       \/ AMFPool[a] # None /\ ~Msg.ok /\ Write(a, "error") /\ UNCHANGED run
       \/ AMFPool[a] # None /\ Msg.ok /\ ~Msg.cause /\ run' = "crashed" /\ UNCHANGED toAmf
       \/ AMFPool[a] # None /\ Msg.ok /\ Msg.cause /\ ResetDone(a) /\ UNCHANGED run
    /\ UNCHANGED <<ctxVars, RanUePool>>

\* Mutant: an item without an ID stands for every RAN UE.
Resets_all(items) == {r \in RanId : \E n \in DOMAIN items : items[n].by = "ran" => items[n].id = r}

\* The RAN UEs a partial reset removes.  FindUeByAmfUeNgapID finds none, for the same
\* reason; an item without an ID names the RAN UE of the item before, gone already.
Resets(items) == {r \in RanId : \E n \in DOMAIN items : items[n] = [by |-> "ran", id |-> r]}

HandleNGResetPart(a) ==
    /\ Dispatched(a, "resetPart")
    /\ IF AMFPool[a] = None THEN UNCHANGED <<RanUePool, toAmf>>
       ELSE /\ RanUePool' = [r \in RanId |-> IF r \in Resets(Msg.items) THEN None
                                             ELSE RanUePool[r]]
            /\ ResetDone(a)
    /\ UNCHANGED <<run, ctxVars>>

\* Mutant: one missing ID is not noticed.
IdsMissing_one == {"none", "one"}

\* The ID combinations that are dereferenced although they are nil.
IdsMissing == {"none"}

\* An Error Indication releases the UE it names.  One that names no UE passes the
\* check for a single missing ID, and its nil IDs are dereferenced: the process ends.
HandleErrorIndication(a) ==
    /\ Dispatched(a, "errorIndication")
    /\ \/ AMFPool[a] = None /\ UNCHANGED <<run, RanUePool>>
       \/ AMFPool[a] # None /\ Msg.ids \in IdsMissing /\ run' = "crashed" /\ UNCHANGED RanUePool
       \/ AMFPool[a] # None /\ Msg.ids \in {"one"} \ IdsMissing /\ UNCHANGED <<run, RanUePool>>
       \/ /\ AMFPool[a] # None /\ Msg.ids = "both"
          /\ RanUePool' = [RanUePool EXCEPT ![Msg.id] = None]
          /\ UNCHANGED run
    /\ UNCHANGED <<ctxVars, toAmf>>

\* The context c after the update m; an address that m adds and removes is removed.
Reconfigured(c, m) ==
    [c EXCEPT !.served = Merge(c.served, m.served), !.tnl = (c.tnl \/ m.add) /\ ~m.remove]

HandleAMFConfigurationUpdate(a) ==
    /\ Dispatched(a, "configUpdate")
    /\ IF AMFPool[a] = None THEN UNCHANGED <<AMFPool, toAmf>>
       ELSE /\ AMFPool' = [AMFPool EXCEPT ![a] = Reconfigured(@, Msg)]
            /\ Write(a, "configAck")
    /\ UNCHANGED <<run, available, timers, RanUePool>>

\* StartOverload without content leaves what is there.
HandleOverload(a) ==
    /\ \/ /\ Dispatched(a, "overloadStart")
          /\ AMFPool' = IF AMFPool[a] = None THEN AMFPool
                        ELSE [AMFPool EXCEPT ![a].overload = @ \/ Msg.content]
       \/ /\ Dispatched(a, "overloadStop")
          /\ AMFPool' = IF AMFPool[a] = None THEN AMFPool
                        ELSE [AMFPool EXCEPT ![a].overload = FALSE]
    /\ UNCHANGED <<run, available, timers, RanUePool, toAmf>>

HandleRANConfigurationUpdateFailure(a) ==
    /\ Dispatched(a, "updateFailure")
    /\ \/ AMFPool[a] = None /\ UNCHANGED <<available, timers, toAmf>>
       \/ AMFPool[a] # None /\ Msg.wait /\ StartWait(a, "update")
       \/ /\ AMFPool[a] # None /\ ~Msg.wait
          /\ SendIfAvailable(a, "update", available[a])
          /\ UNCHANGED <<available, timers>>
    /\ UNCHANGED <<run, AMFPool, RanUePool>>

HandleRANConfigurationUpdateAcknowledge(a) ==
    /\ Dispatched(a, "updateAcknowledge")
    /\ UNCHANGED <<run, ctxVars, RanUePool, toAmf>>

-----------------------------------------------------------------------------
(* The event handler: AMF selection for a UE that registers.               *)

\* AMF a serves the UE's GUAMI g or its selected PLMN p.
Serves(a, g, p) ==
    LET s == AMFPool[a].served IN (s.guami # None /\ g \in s.guami) \/ p \in s.plmn

Pool == {a \in Amf : AMFPool[a] # None}

\* No message of AMF a has brought a ServedGUAMIList.
NoGuamis(a) == AMFPool[a].served.guami = None

\* The AMFs that may be selected: Range goes through the pool in any order and stops at
\* the first AMF that serves GUAMI or PLMN; without such an AMF it is the first of all.
AMFSelection(g, p) ==
    LET fit == {a \in Pool : Serves(a, g, p)}
    IN  IF \E a \in Pool : NoGuamis(a) THEN {a \in fit : ~NoGuamis(a)}
        ELSE IF fit # {} THEN fit ELSE Pool

\* A new RAN UE gets the selected AMF; without one the UE is refused.  Comparing with
\* a ServedGUAMIList that no message has brought is a nil dereference.
HandleUnmarshalEAP5GData(g, p) ==
    /\ run = "running" /\ hist.rans < MaxRan
    /\ \/ (\E a \in Pool : NoGuamis(a)) /\ run' = "crashed" /\ UNCHANGED <<RanUePool, hist>>
       \/ Pool = {} /\ UNCHANGED <<run, RanUePool, hist>>
       \/ \E a \in AMFSelection(g, p) :
            /\ RanUePool' = [RanUePool EXCEPT ![hist.rans + 1] = a]
            /\ hist' = [hist EXCEPT !.rans = @ + 1]
            /\ UNCHANGED run
    /\ UNCHANGED <<dial, conn, rcvPktCh, ctxVars, amf, netVars>>

-----------------------------------------------------------------------------
(* The environment: the AMFs.                                              *)

\* AMF a sends m and is afterwards as e; o tells whether m leaves something out, and
\* n is 1 if m starts a procedure.
Say(a, m, e, o, n) ==
    /\ toN3iwf' = [toN3iwf EXCEPT ![a] = Append(@, m)]
    /\ amf' = [amf EXCEPT ![a] = e]
    /\ hist' = [hist EXCEPT !.omitted = @ \/ o, !.sent = @ + n]

\* The answers to an NG Setup Request.
AnswerSetup(a) ==
    \/ \E s \in Offer :
          Say(a, [kind |-> "setupResponse", served |-> s, ok |-> TRUE],
              [amf[a] EXCEPT !.up = TRUE], s.guami = None, 0)
    \/ Say(a, [kind |-> "setupResponse", served |-> NoLists, ok |-> FALSE],
           [amf[a] EXCEPT !.up = TRUE, !.final = TRUE], FALSE, 0)
    \/ /\ amf[a].refused < MaxRefuse
       /\ \E wait, ok \in BOOLEAN :
             /\ wait => ok
             /\ Say(a, [kind |-> "setupFailure", wait |-> wait, ok |-> ok],
                    [amf[a] EXCEPT !.refused = @ + 1, !.final = ~wait], FALSE, 0)

\* The answers to a RAN Configuration Update.
AnswerUpdate(a) ==
    LET e == [amf[a] EXCEPT !.update = FALSE] IN
    \/ Say(a, [kind |-> "updateAcknowledge"], e, FALSE, 0)
    \/ /\ amf[a].refused < MaxRefuse
       /\ \E wait \in BOOLEAN :
             Say(a, [kind |-> "updateFailure", wait |-> wait],
                 [e EXCEPT !.refused = @ + 1, !.update = TRUE], FALSE, 0)

AmfHandles(a) ==
    /\ ~amf[a].dead /\ toAmf[a] # <<>>
    /\ toAmf' = [toAmf EXCEPT ![a] = Tail(@)]
    /\ \/ Head(toAmf[a]) = "setup" /\ AnswerSetup(a)
       \/ Head(toAmf[a]) = "update" /\ AnswerUpdate(a)
       \/ /\ Head(toAmf[a]) = "resetAck"
          /\ amf' = [amf EXCEPT ![a].resets = @ - 1]
          /\ UNCHANGED <<toN3iwf, hist>>
       \/ Head(toAmf[a]) \in {"error", "configAck"} /\ UNCHANGED <<amf, toN3iwf, hist>>
    /\ UNCHANGED <<srvVars, rcvPktCh, ctxVars, RanUePool>>

\* The procedures an AMF starts once it has accepted the NG Setup.  No RAN
\* Configuration Update is ever sent first, so the failure of one is unsolicited.
Procedure(a) ==
    LET reset == [amf[a] EXCEPT !.resets = @ + 1] IN
    \/ \E ok, cause \in BOOLEAN :
          /\ ok \/ cause
          /\ Say(a, [kind |-> "resetAll", ok |-> ok, cause |-> cause],
                 IF ok THEN reset ELSE amf[a], ~cause, 1)
    \/ \E items \in {<<[by |-> "ran", id |-> r], [by |-> "none"]>> : r \in RanId}
                    \cup {<<[by |-> "amf"]>>} :
          Say(a, [kind |-> "resetPart", items |-> items], reset, FALSE, 1)
    \/ \E ids \in {"none", "one", "both"}, r \in RanId :
          Say(a, [kind |-> "errorIndication", ids |-> ids, id |-> r], amf[a], ids = "none", 1)
    \/ \E s \in Offer, add, remove \in BOOLEAN :
          /\ add # remove
          /\ Say(a, [kind |-> "configUpdate", served |-> s, add |-> add, remove |-> remove],
                 amf[a], FALSE, 1)
    \/ \E c \in BOOLEAN : Say(a, [kind |-> "overloadStart", content |-> c], amf[a], FALSE, 1)
    \/ Say(a, [kind |-> "overloadStop"], amf[a], FALSE, 1)
    \/ /\ ~amf[a].update
       /\ \E wait \in BOOLEAN :
             Say(a, [kind |-> "updateFailure", wait |-> wait],
                 [amf[a] EXCEPT !.update = TRUE], FALSE, 1)

AmfStarts(a) ==
    /\ a \in Active /\ ~amf[a].dead /\ amf[a].up /\ hist.sent < MaxSent
    /\ Procedure(a)
    /\ UNCHANGED <<srvVars, rcvPktCh, ctxVars, RanUePool, toAmf>>

AmfCloses(a) ==
    /\ conn[a] = "open" /\ ~amf[a].dead /\ hist.closed < MaxClose
    /\ amf' = [amf EXCEPT ![a].dead = TRUE]
    /\ toAmf' = [toAmf EXCEPT ![a] = <<>>]
    /\ hist' = [hist EXCEPT !.closed = @ + 1]
    /\ UNCHANGED <<srvVars, rcvPktCh, ctxVars, RanUePool, toN3iwf>>

-----------------------------------------------------------------------------
(* Specification.                                                          *)

Dispatch ==
    \/ ReceiverClosed
    \/ \E a \in Amf :
          \/ HandleNGSetupResponse(a) \/ HandleNGSetupFailure(a)
          \/ HandleNGResetAll(a) \/ HandleNGResetPart(a) \/ HandleErrorIndication(a)
          \/ HandleAMFConfigurationUpdate(a) \/ HandleOverload(a)
          \/ HandleRANConfigurationUpdateFailure(a)
          \/ HandleRANConfigurationUpdateAcknowledge(a)

Registers == \E g \in Guami, p \in Plmn : HandleUnmarshalEAP5GData(g, p)

Next ==
    /\ run \notin {"failed", "crashed"}
    /\ \/ DialSCTP \/ runNgapEventHandler \/ Dispatch \/ Registers
       \/ \E a \in Amf :
             \/ Receive(a) \/ ReceiveEnds(a)
             \/ \E k \in TimerKind : WaitOver(a, k)
             \/ AmfHandles(a) \/ AmfStarts(a) \/ AmfCloses(a)

\* Every goroutine runs, a timer expires, and an AMF answers what it is sent.
Alive(A) == run \notin {"failed", "crashed"} /\ A
Fairness ==
    /\ WF_vars(Alive(DialSCTP)) /\ WF_vars(Alive(runNgapEventHandler)) /\ WF_vars(Alive(Dispatch))
    /\ \A a \in Amf :
          /\ WF_vars(Alive(Receive(a))) /\ WF_vars(Alive(ReceiveEnds(a)))
          /\ WF_vars(Alive(AmfHandles(a)))
          /\ \A k \in TimerKind : WF_vars(Alive(WaitOver(a, k)))

Spec == Init /\ [][Next]_vars /\ Fairness

-----------------------------------------------------------------------------
(* Properties.                                                             *)

\* An NG Setup Request or a RAN Configuration Update is written to an AMF only when no
\* waiting time it has given runs.
WrittenAfterWait ==
    \A a \in Amf :
        Len(toAmf'[a]) > Len(toAmf[a]) /\ toAmf'[a][Len(toAmf'[a])] \in TimerKind =>
            \A k \in TimerKind : timers'[a][k] = 0

\* "Please Wait at least for the indicated time before reinitiating toward same
\* AMF": no NG Setup Request and no RAN Configuration Update is written to an AMF
\* while a waiting time it has given runs.
WaitRespected == [][WrittenAfterWait]_vars

\* The answers that keep a procedure going which timer k is for.
Answers(k) == IF k = "setup" THEN {"setupResponse", "setupFailure"} ELSE {"updateFailure"}

\* Where the messages of that procedure with AMF a are: on the way to it, from it, and in
\* the channel.
Asked(a, k)    == {n \in DOMAIN toAmf[a] : toAmf[a][n] = k}
Answered(a, k) == {n \in DOMAIN toN3iwf[a] : toN3iwf[a][n].kind \in Answers(k)}
Queued(a, k)   == {n \in DOMAIN rcvPktCh : rcvPktCh[n].conn = a /\ rcvPktCh[n].msg.kind \in Answers(k)}

\* All of them, with the timers for the next request.
Pending(a, k) ==
    ({"asked"} \X Asked(a, k)) \cup ({"answered"} \X Answered(a, k))
    \cup ({"queued"} \X Queued(a, k)) \cup ({"timer"} \X (1..timers[a][k]))

\* One NG Setup is going on with an AMF at a time: a request, its answer and the timer
\* for the next request exclude each other, and end when the AMF is in the pool.
OneSetupPending ==
    \A a \in Amf : /\ \A x, y \in Pending(a, "setup") : x = y
                   /\ AMFPool[a] # None => Pending(a, "setup") = {}

\* A step removes a RAN UE only when the message handled is a reset or an Error Indication
\* that names it.
RemovesNamed ==
    \A r \in RanId :
        RanUePool[r] # None /\ RanUePool'[r] = None =>
            \/ /\ Msg.kind = "resetPart"
               /\ \E n \in DOMAIN Msg.items : Msg.items[n] = [by |-> "ran", id |-> r]
            \/ Msg.kind = "errorIndication" /\ Msg.ids = "both" /\ r = Msg.id

\* A reset or an Error Indication of an AMF removes only RAN UEs that it names.
NamedOnly == [][RemovesNamed]_vars

\* The process ends by a nil dereference only after a message that leaves out a
\* ServedGUAMIList, the cause of a reset, or both UE IDs of an Error Indication.
CrashNeedsOmission == run = "crashed" => hist.omitted

\* An AMF that is connected gets into the pool, however often it asks to wait, unless
\* it goes, refuses for good, or the event handler has ended, which the end of any
\* AMF's connection brings about.
AmfsSetUp ==
    \A a \in Amf :
        conn[a] = "open" ~>
            \/ AMFPool[a] # None \/ amf[a].dead \/ amf[a].final
            \/ run \in {"stopped", "failed", "crashed"}

\* A reset is acknowledged, even while other receivers fill the channel, unless the
\* AMF goes, was never accepted, or the event handler has ended.
ResetAcknowledged ==
    \A a \in Amf :
        amf[a].resets > 0 ~>
            \/ amf[a].resets = 0 \/ amf[a].dead \/ amf[a].final
            \/ run \in {"stopped", "failed", "crashed"}
==============================================================================
