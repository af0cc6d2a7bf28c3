------------------------------- MODULE UserPlane -------------------------------
(***************************************************************************)
(* Inner IP addresses, TEIDs and the user plane that finds a UE by them.   *)
(*                                                                         *)
(* The IKE loop owns the addresses and child SAs of the IKE UEs, the NGAP  *)
(* loop the PDU sessions and TEIDs of the RAN UEs; each tells the other by *)
(* events.  The user plane (NWu-UP) has goroutines of its own: forwardUL   *)
(* and forwardDL go through the maps of both, one look-up at a time, while *)
(* both change them.                                                       *)
(*                                                                         *)
(* A member of Ue is one registration: an IKE UE and a RAN UE with their   *)
(* identifiers, set up once and removed once.  Dead peer detection is off. *)
(***************************************************************************)
EXTENDS Integers, Sequences, FiniteSets, QoSHeaders

CONSTANTS
    Ue,             \* registrations
    Addr,           \* the host addresses of the inner subnet, as numbers
    Gateway,        \* the address of the N3IWF itself
    Session,        \* PDU session IDs
    None,
    MaxTeid,
    Bounds,         \* bounds on a behaviour, see Bound; Init chooses one of them
    DefaultName,    \* the default interface is named "xfrmi-default"
    Raw,            \* GRE packets UEs send
    Headers         \* extension headers of the packets the UPF sends

\* ues: registrations; live: IKE SAs up at a time; sessions: session IDs of a UE; setups:
\* sessions set up; teids: the values of TEIDGenerator; events: events pending when the
\* environment acts; fails: handlers a failing call ends.
Bound == [ues: Nat, live: Nat, sessions: Nat, setups: Nat, teids: 1..MaxTeid,
          events: Nat, fails: Nat]

ASSUME UserPlaneAssumption ==
    /\ Addr \subseteq Nat /\ Gateway \in Addr /\ MaxTeid \in Nat \ {0}
    /\ Bounds \subseteq Bound
    /\ DefaultName \in BOOLEAN
    /\ IsFiniteSet(Session)
    /\ None \notin Ue \cup Session \cup Nat
    /\ None \notin [teid: (1..MaxTeid) \cup {None}] \cup [ue: Ue, session: Session]
    /\ Raw \subseteq Seq(Octet) /\ Headers \subseteq Seq([type: STRING, content: Seq(Octet)])
    /\ \A h \in Headers : \A n \in DOMAIN h : Len(h[n].content) >= 2

Teid  == 1..MaxTeid
Iface == Nat            \* XFRM interfaces; 0 is the default one, shared by all UEs
Payload == <<1>>        \* of every downlink packet
IPv4 == 2048

VARIABLES
    IKEUePool, ikeUe,     \* IKE UEs in the pool, and their contexts
    RANUePool, ranUe,     \* RAN UEs in the pool, and their contexts
    IKESPIToNGAPId, NGAPIdToIKESPI,  \* registrations mapped in each direction
    AllocatedUEIPAddress, \* the IKE UE of an inner address
    free,                 \* external: addresses free in IPSecInnerIPPool
    AllocatedUETEID,      \* the RAN UE of a TEID
    nextTeid,             \* where TEIDGenerator looks next
    XfrmIfaces, links,    \* interfaces in the map, and (external) in the kernel
    XfrmIfaceIdOffsetForUP,
    ikeEvt, ngapEvt,      \* events pending
    ikeTask, ngapTask,    \* the session a handler of each loop is in the middle of
    ikeUp,                \* the IKE server goroutine runs
    pkt,                  \* a packet being forwarded, in either direction
    out,                  \* what the last step wrote to a socket
    exit,                 \* why the process ended
    upf,                  \* environment: the session the UPF knows a TEID for
    hist                  \* the bounds, and history

addrVars == <<AllocatedUEIPAddress, free>>
ifVars   == <<XfrmIfaces, links, XfrmIfaceIdOffsetForUP>>
ikeVars  == <<IKEUePool, ikeUe, IKESPIToNGAPId, AllocatedUEIPAddress, free, XfrmIfaces,
              links, XfrmIfaceIdOffsetForUP, ikeTask, ikeUp>>
ngapVars == <<RANUePool, ranUe, NGAPIdToIKESPI, AllocatedUETEID, nextTeid, ngapTask>>
vars == <<IKEUePool, ikeUe, RANUePool, ranUe, IKESPIToNGAPId, NGAPIdToIKESPI,
          AllocatedUEIPAddress, free, AllocatedUETEID, nextTeid, XfrmIfaces, links,
          XfrmIfaceIdOffsetForUP, ikeEvt, ngapEvt, ikeTask, ngapTask, ikeUp, pkt,
          out, exit, upf, hist>>

-----------------------------------------------------------------------------
\* teid: that of the session the child SA was set up for; it tells the child SAs of a UE apart,
\* which the map has by SPI.  rules: XfrmStateList is not empty.  The child SA for NAS has no
\* session (-1 in the code) and no interface of its own.
ChildSA == [session: Session \cup {None}, teid: Teid \cup {None}, iface: Iface \cup {None},
            rules: BOOLEAN]

\* The teid of a session is None as long as its GTPConnInfo is nil.
PDUSession == [teid: Teid \cup {None}]

\* A session as TemporaryPDUSessionSetupData refers to it; len is the length its RAN UE's
\* PDU session list had.
Unactivated == [session: Session, teid: Teid, len: {Cardinality(S) : S \in SUBSET Session}]

\* sa: the IKE SA is in its pool; auth: how far IKE_AUTH has got, in the end with
\* ("done") or without a child SA for NAS;
\* half: the session in TemporaryExchangeMsgIDChildSAMapping; asked: a Delete of child
\* SAs was sent to the UE.
Auth == {"unused", "eap", "failed", "done", "gone"}
IkeUe == [sa: BOOLEAN, auth: Auth, IPSecInnerIP: Addr \cup {None},
          child: SUBSET ChildSA, half: Unactivated \cup {None}, asked: BOOLEAN]
RanUe == [PduSessionList: [Session -> PDUSession \cup {None}], PduSessResRelState: BOOLEAN,
          used: SUBSET Session]   \* used: history, the session IDs set up so far

NewIkeUe == [sa |-> TRUE, auth |-> "eap", IPSecInnerIP |-> None, child |-> {}, half |-> None,
             asked |-> FALSE]
NewRanUe == [PduSessionList |-> [s \in Session |-> None], PduSessResRelState |-> FALSE,
             used |-> {}]

IkeEvt ==
    [type: {"CreatePDUSession"}, ue: Ue, pdu: Unactivated]
    \cup [type: {"SendChildSADeleteRequest"}, ue: Ue, session: Session]
    \cup [type: {"IKEDeleteRequest"}, ue: Ue]

NgapEvt ==
    [type: {"SendPDUSessionResourceSetupRes"}, ue: Ue, pdu: Unactivated]
    \cup [type: {"SendPDUSessionResourceRelease"}, ue: Ue, session: Session \cup {None}]

IkeTask == [ue: Ue, pdu: Unactivated]
NgapTask == [ue: Ue, session: Session]

\* A packet on its way: who sent it or whom it is for, and what forward has found.  Packets
\* only read the contexts, so that one at a time is enough.  What a packet holds matters
\* only in the last step, which takes all contents at once.
Uplink == [at: {"ran", "ul"}, ue: Ue, session: Session, iface: Iface, found: Ue]
Downlink == [at: {"ike", "dl"}, ue: Ue, session: Session, teid: Teid, found: Ue,
             ip: Addr \cup {None}]

Exit == {"no", "session", "iface"}

-----------------------------------------------------------------------------
\* The loops, and the handlers that are not in the middle of something.
Up == exit = "no"
IkeIdle == Up /\ ikeUp /\ ikeTask = None
NgapIdle == Up /\ ngapTask = None

\* The environment waits for the events it gave rise to.
EvtRoom == Len(ikeEvt) + Len(ngapEvt) < hist.bound.events

TakeIkeEvt(type) == IkeIdle /\ ikeEvt # <<>> /\ Head(ikeEvt).type = type /\ ikeEvt' = Tail(ikeEvt)
TakeNgapEvt(type) == NgapIdle /\ ngapEvt # <<>> /\ Head(ngapEvt).type = type /\ ngapEvt' = Tail(ngapEvt)

\* Whether a call to the kernel, or another that normally succeeds, may fail.
MayFail == hist.fails < hist.bound.fails

\* The history, with the failure counted if there was one.
Failing(failed) == IF failed THEN [hist EXCEPT !.fails = @ + 1] ELSE hist

Quiet == out' = None /\ UNCHANGED pkt

-----------------------------------------------------------------------------
(* Deleting child SAs (DeleteChildSA, DeleteChildSAXfrm).                  *)

\* Whether DeleteChildSAXfrm deletes the interface of a child SA.
Deletable(c) == c.iface # None /\ (c.iface # 0 \/ ~DefaultName)

Ifaces(cs) == {c.iface : c \in {d \in cs : Deletable(d)}}

\* How deleting the child SAs cs, in any order, may end: those of gone are deleted;
\* then the deletion of another failed, because its interface was gone or for another
\* reason (failed), or panicked on its empty XfrmStateList once its interface was deleted.
Deletions(cs) ==
    LET Clean(gone) ==
            /\ \A c \in gone : Deletable(c) => c.rules /\ c.iface \in links
            /\ \A c, d \in gone : Deletable(c) /\ Deletable(d) /\ c.iface = d.iface => c = d
        Left(gone) == links \ Ifaces(gone)
        Stuck(c, gone) == Deletable(c) /\ c.iface \notin Left(gone)
        Panics(c, gone) == Deletable(c) /\ c.iface \in Left(gone) /\ ~c.rules
        some == {gone \in SUBSET cs : Clean(gone)}
        Ended(result, gone, left) ==
            [result |-> result, gone |-> gone, links |-> left, failed |-> FALSE]
    IN  {Ended("ok", gone, Left(gone)) : gone \in some \cap {cs}}
        \cup {Ended("error", gone, Left(gone)) : gone \in {g \in some : \E c \in cs \ g : Stuck(c, g)}}
        \cup {Ended("panic", p[1], Left(p[1]) \ {p[2].iface}) :
               p \in {q \in some \X cs : q[2] \notin q[1] /\ Panics(q[2], q[1])}}
        \cup {[Ended("error", gone, Left(gone)) EXCEPT !.failed = TRUE] :
               gone \in {g \in some \ {cs} : MayFail}}

\* The interfaces after a deletion with outcome d.
IfacesAfter(d) ==
    /\ XfrmIfaces' = XfrmIfaces \ Ifaces(d.gone)
    /\ links' = d.links
    /\ UNCHANGED XfrmIfaceIdOffsetForUP

\* How N3IWFIkeUe.Remove may end.  IPSecInnerIPPool.Release refuses an address that is
\* free, and may refuse one that was never set; it comes before the child SAs.
RemoveOutcomes(u) ==
    LET ip == ikeUe[u].IPSecInnerIP
        refused == [result |-> "error", gone |-> {}, links |-> links, failed |-> FALSE]
    IN  (IF ip \in free THEN {} ELSE Deletions(ikeUe[u].child))
        \cup (IF ip \in free \cup {None} THEN {refused} ELSE {})

\* N3IWFIkeUe.Remove.  It does not look whether the address is still that of the UE.
Remove(u, d) ==
    LET ip == ikeUe[u].IPSecInnerIP IN
    /\ ikeUe' = [ikeUe EXCEPT ![u] =
                   IF d.result = "ok" THEN [NewIkeUe EXCEPT !.sa = FALSE, !.auth = "gone"]
                   ELSE [ikeUe[u] EXCEPT !.sa = FALSE, !.child = ikeUe[u].child \ d.gone]]
    /\ AllocatedUEIPAddress' = [a \in Addr |-> IF a = ip THEN None ELSE AllocatedUEIPAddress[a]]
    /\ free' = IF ip = None THEN free ELSE free \cup {ip}
    /\ IfacesAfter(d)
    /\ IF d.result = "ok"
       THEN IKEUePool' = IKEUePool \ {u} /\ IKESPIToNGAPId' = IKESPIToNGAPId \ {u}
       ELSE UNCHANGED <<IKEUePool, IKESPIToNGAPId>>
    /\ hist' = [Failing(d.failed) EXCEPT !.twice = @ \/ ~ikeUe[u].sa]

-----------------------------------------------------------------------------
(* IKE loop.                                                               *)

\* The registration up to the EAP-5G success: both contexts and both maps.
Register(u) ==
    /\ IkeIdle /\ EvtRoom /\ NgapIdle /\ ikeUe[u].auth = "unused"
    /\ Cardinality({v \in Ue : ikeUe[v].auth # "unused"}) < hist.bound.ues
    /\ Cardinality({v \in Ue : ikeUe[v].sa}) < hist.bound.live
    /\ IKEUePool' = IKEUePool \cup {u} /\ ikeUe' = [ikeUe EXCEPT ![u] = NewIkeUe]
    /\ RANUePool' = RANUePool \cup {u} /\ ranUe' = [ranUe EXCEPT ![u] = NewRanUe]
    /\ IKESPIToNGAPId' = IKESPIToNGAPId \cup {u}
    /\ NGAPIdToIKESPI' = NGAPIdToIKESPI \cup {u}
    /\ Quiet
    /\ UNCHANGED <<addrVars, ifVars, AllocatedUETEID, nextTeid, ikeEvt, ngapEvt, ikeTask,
                   ngapTask, ikeUp, exit, upf, hist>>

\* Mutant: the gateway's address is not kept back.
Unusable_registered == {a \in free : AllocatedUEIPAddress[a] # None}

\* Addresses NewIPsecInnerUEIP passes over.  They stay allocated in the pool.
Unusable == {a \in free : a = Gateway \/ AllocatedUEIPAddress[a] # None}

\* NewIPsecInnerUEIP: addresses are taken from the pool until one can be used.  The pool
\* is external; those it hands out before are lower ones.
NewIPsecInnerUEIP(u, a) ==
    /\ a \in free \ Unusable
    /\ AllocatedUEIPAddress' = [AllocatedUEIPAddress EXCEPT ![a] = u]
    /\ free' = free \ ({a} \cup {b \in Unusable : b < a})

\* IKE_AUTH from the address on.  The child SA for NAS may not be recorded, or its
\* rules not be applied, when a call fails.
HandleIKEAUTH(u) ==
    /\ IkeIdle /\ EvtRoom /\ u \in IKEUePool /\ ikeUe[u].sa /\ ikeUe[u].auth = "eap"
    /\ \/ /\ free \subseteq Unusable
          /\ free' = {}
          /\ ikeUe' = [ikeUe EXCEPT ![u].auth = "failed"]
          /\ UNCHANGED <<AllocatedUEIPAddress, hist>>
       \/ \E a \in Addr,
              child \in SUBSET [session: {None}, teid: {None}, iface: {None}, rules: BOOLEAN] :
             /\ Cardinality(child) <= 1
             /\ MayFail \/ \E c \in child : c.rules
             /\ hist' = Failing(~\E c \in child : c.rules)
             /\ NewIPsecInnerUEIP(u, a)
             /\ ikeUe' = [ikeUe EXCEPT
                            ![u].auth = IF \E c \in child : c.rules THEN "done" ELSE "failed",
                            ![u].IPSecInnerIP = a, ![u].child = child]
    /\ Quiet
    /\ UNCHANGED <<IKEUePool, IKESPIToNGAPId, ifVars, ngapVars, ikeTask, ikeUp, ikeEvt,
                   ngapEvt, exit, upf>>

\* HandleCreatePDUSession and CreatePDUSessionChildSA: the request goes to the UE.
HandleCreatePDUSession ==
    LET e == Head(ikeEvt) IN
    /\ TakeIkeEvt("CreatePDUSession")
    /\ ikeUe' = IF e.ue \in IKEUePool
                THEN [ikeUe EXCEPT ![e.ue].half = e.pdu] ELSE ikeUe
    /\ Quiet
    /\ UNCHANGED <<IKEUePool, IKESPIToNGAPId, addrVars, ifVars, ngapVars, ikeTask, ikeUp,
                   ngapEvt, exit, upf, hist>>

NewChildSA(pdu) == [session |-> pdu.session, teid |-> pdu.teid, iface |-> None, rules |-> FALSE]

\* continueCreateChildSA, as far as CompleteChildSA records the child SA: it has no
\* interface yet.
CompleteChildSA(u) ==
    /\ IkeIdle /\ EvtRoom /\ ikeUe[u].sa /\ ikeUe[u].half # None
    /\ ikeTask' = [ue |-> u, pdu |-> ikeUe[u].half]
    /\ ikeUe' = [ikeUe EXCEPT ![u].half = None,
                              ![u].child = @ \cup {NewChildSA(ikeUe[u].half)}]
    /\ Quiet
    /\ UNCHANGED <<IKEUePool, IKESPIToNGAPId, addrVars, ifVars, ngapVars, ikeUp, ikeEvt,
                   ngapEvt, exit, upf, hist>>

\* Mutant: the child SA is told of but does not get the interface.
Connected_noIface(i, rules) ==
    LET u == ikeTask.ue
        c == NewChildSA(ikeTask.pdu)
    IN  /\ ikeUe' = [ikeUe EXCEPT ![u].child = (@ \ {c}) \cup {[c EXCEPT !.rules = rules]}]
        /\ ngapEvt' = IF rules
                      THEN Append(ngapEvt, [type |-> "SendPDUSessionResourceSetupRes",
                                            ue |-> u, pdu |-> ikeTask.pdu])
                      ELSE ngapEvt

\* The rest of continueCreateChildSA, with interface i.  rules: ApplyXFRMRule succeeds;
\* only then is the NGAP loop told.
Connected(i, rules) ==
    LET u == ikeTask.ue
        c == NewChildSA(ikeTask.pdu)
    IN  /\ ikeUe' = [ikeUe EXCEPT ![u].child =
                       (@ \ {c}) \cup {[c EXCEPT !.iface = i, !.rules = rules]}]
        /\ ngapEvt' = IF rules
                      THEN Append(ngapEvt, [type |-> "SendPDUSessionResourceSetupRes",
                                            ue |-> u, pdu |-> ikeTask.pdu])
                      ELSE ngapEvt

\* The first session of a UE uses the default interface, a further one its own.
continueCreateChildSA ==
    LET own == ikeTask.pdu.len > 1
        i   == IF own THEN XfrmIfaceIdOffsetForUP ELSE 0
    IN
    /\ Up /\ ikeUp /\ ikeTask # None /\ ikeTask' = None
    /\ \/ /\ ~own /\ 0 \notin XfrmIfaces
          /\ UNCHANGED <<ikeUe, ngapEvt, ifVars, hist>>
       \/ /\ MayFail /\ hist' = Failing(TRUE)
          /\ UNCHANGED <<ikeUe, ngapEvt, ifVars>>
       \/ /\ own \/ 0 \in XfrmIfaces
          /\ \E rules \in BOOLEAN :
               (rules \/ MayFail) /\ Connected(i, rules) /\ hist' = Failing(~rules)
          /\ XfrmIfaces' = XfrmIfaces \cup {i}
          /\ links' = IF own THEN links \cup {i} ELSE links
          /\ XfrmIfaceIdOffsetForUP' = XfrmIfaceIdOffsetForUP + (IF own THEN 1 ELSE 0)
    /\ Quiet
    /\ UNCHANGED <<IKEUePool, IKESPIToNGAPId, addrVars, ngapVars, ikeUp, ikeEvt, exit, upf>>

\* HandleSendChildSADeleteRequest: SendChildSADeleteRequest reads XfrmStateList[0] of
\* every child SA of the session before it deletes it, and panics if there is none; by
\* then it may have deleted others, or have failed to.
HandleSendChildSADeleteRequest ==
    LET e == Head(ikeEvt)
        cs == {c \in ikeUe[e.ue].child : c.session = e.session}
        ruled == {c \in cs : c.rules}
    IN
    /\ TakeIkeEvt("SendChildSADeleteRequest")
    /\ \/ /\ e.ue \notin IKEUePool
          /\ UNCHANGED <<ikeUe, ifVars, ikeUp, hist>>
       \/ /\ e.ue \in IKEUePool
          /\ \E d \in Deletions(ruled) :
               /\ d.result = "ok" => ruled = cs
               /\ ikeUe' = [ikeUe EXCEPT ![e.ue].child = @ \ d.gone,
                                         ![e.ue].asked = @ \/ d.result = "ok"]
               /\ IfacesAfter(d) /\ hist' = Failing(d.failed)
          /\ UNCHANGED ikeUp
       \/ /\ e.ue \in IKEUePool /\ ruled # cs
          /\ \E some \in SUBSET ruled : \E d \in Deletions(some) :
               /\ d.result = "ok"
               /\ ikeUe' = [ikeUe EXCEPT ![e.ue].child = @ \ d.gone]
               /\ IfacesAfter(d)
          /\ ikeUp' = FALSE
          /\ UNCHANGED hist
    /\ Quiet
    /\ UNCHANGED <<IKEUePool, IKESPIToNGAPId, addrVars, ngapVars, ikeTask, ngapEvt, exit, upf>>

\* handleDeletePayload for a child SA the UE deletes.  A panic is recovered from.
HandleInformationalEsp(u) ==
    /\ IkeIdle /\ EvtRoom /\ ikeUe[u].sa /\ u \in IKESPIToNGAPId
    /\ \E c \in ikeUe[u].child : \E d \in Deletions({c}) :
         /\ ikeUe' = [ikeUe EXCEPT ![u].child = @ \ d.gone]
         /\ IfacesAfter(d) /\ hist' = Failing(d.failed)
         /\ ngapEvt' = IF d.result = "ok"
                       THEN Append(ngapEvt, [type |-> "SendPDUSessionResourceRelease",
                                             ue |-> u, session |-> c.session])
                       ELSE ngapEvt
    /\ Quiet
    /\ UNCHANGED <<IKEUePool, IKESPIToNGAPId, addrVars, ngapVars, ikeTask, ikeUp, ikeEvt,
                   exit, upf>>

\* handleDeletePayload for the UE's answer to a Delete of child SAs.
HandleInformationalAnswer(u) ==
    /\ IkeIdle /\ EvtRoom /\ ikeUe[u].sa /\ u \in IKESPIToNGAPId /\ ikeUe[u].asked
    /\ ikeUe' = [ikeUe EXCEPT ![u].asked = FALSE]
    /\ ngapEvt' = Append(ngapEvt, [type |-> "SendPDUSessionResourceRelease",
                                   ue |-> u, session |-> None])
    /\ Quiet
    /\ UNCHANGED <<IKEUePool, IKESPIToNGAPId, addrVars, ifVars, ngapVars, ikeTask, ikeUp,
                   ikeEvt, exit, upf, hist>>

\* handleDeletePayload for the IKE SA.  The event for the NGAP loop is left out: its handler
\* only asks the AMF for a release, which may come at any time.
HandleInformationalIke(u) ==
    /\ IkeIdle /\ ikeUe[u].sa /\ u \in IKESPIToNGAPId
    /\ \E d \in RemoveOutcomes(u) : Remove(u, d)
    /\ Quiet
    /\ UNCHANGED <<ngapVars, ikeTask, ikeUp, ikeEvt, ngapEvt, exit, upf>>

\* HandleIKEDeleteEvt.  A panic ends the IKE server.
HandleIKEDeleteEvt ==
    LET u == Head(ikeEvt).ue IN
    /\ TakeIkeEvt("IKEDeleteRequest")
    /\ \/ /\ u \notin IKEUePool
          /\ UNCHANGED <<IKEUePool, ikeUe, IKESPIToNGAPId, addrVars, ifVars, ikeUp, hist>>
       \/ /\ u \in IKEUePool
          /\ \E d \in RemoveOutcomes(u) : Remove(u, d) /\ ikeUp' = (d.result # "panic")
    /\ Quiet
    /\ UNCHANGED <<ngapVars, ikeTask, ngapEvt, exit, upf>>

-----------------------------------------------------------------------------
(* NGAP loop.                                                              *)

Active(u) == {s \in Session : ranUe[u].PduSessionList[s] # None}

\* The AMF asks for sessions of a UE once the child SA for NAS was there.
Registered(u) == u \in RANUePool /\ ikeUe[u].auth = "done"

\* The request for a session, as far as CreatePDUSession.  The AMF may use an ID again.
CreatePDUSession(u, s) ==
    /\ NgapIdle /\ EvtRoom /\ Registered(u) /\ s \notin Active(u)
    /\ hist.setups < hist.bound.setups
    /\ Cardinality(ranUe[u].used \cup {s}) <= hist.bound.sessions
    /\ ranUe' = [ranUe EXCEPT ![u].PduSessionList[s] = [teid |-> None],
                              ![u].used = @ \cup {s}]
    /\ ngapTask' = [ue |-> u, session |-> s]
    /\ hist' = [hist EXCEPT !.setups = @ + 1, !.again = @ \/ s \in ranUe[u].used]
    /\ Quiet
    /\ UNCHANGED <<ikeVars, RANUePool, NGAPIdToIKESPI, AllocatedUETEID, nextTeid, ikeEvt,
                   ngapEvt, exit, upf>>

FreeTeid == {t \in 1..hist.bound.teids : AllocatedUETEID[t] = None}

\* TEIDGenerator.Allocate (external): the first free value from nextTeid on, cyclically.
Allocates(t) ==
    /\ t \in FreeTeid
    /\ \A f \in FreeTeid : (t - nextTeid) % hist.bound.teids <= (f - nextTeid) % hist.bound.teids

\* NewTEID.
NewTEID(u, t) ==
    /\ Allocates(t)
    /\ AllocatedUETEID' = [AllocatedUETEID EXCEPT ![t] = u]
    /\ nextTeid' = (t % hist.bound.teids) + 1

\* The rest of HandlePDUSessionResourceSetupRequest: the transfer is processed and the IKE
\* loop told; or the transfer lacks something or no TEID is left, and the session
\* is dropped.
HandlePDUSessionResourceSetupRequest ==
    LET u == ngapTask.ue
        s == ngapTask.session
    IN
    /\ Up /\ ngapTask # None /\ ngapTask' = None
    /\ \/ /\ \E t \in Teid :
              /\ NewTEID(u, t)
              /\ ranUe' = [ranUe EXCEPT ![u].PduSessionList[s] = [teid |-> t]]
              /\ ikeEvt' = IF u \in NGAPIdToIKESPI
                           THEN Append(ikeEvt, [type |-> "CreatePDUSession", ue |-> u,
                                  pdu |-> [session |-> s, teid |-> t, len |-> Cardinality(Active(u))]])
                           ELSE ikeEvt
              /\ hist' = [hist EXCEPT !.reused = @ \/ upf[t] # None]
       \/ /\ FreeTeid = {} \/ MayFail
          /\ ranUe' = [ranUe EXCEPT ![u].PduSessionList[s] = None]
          /\ hist' = Failing(FreeTeid # {})
          /\ UNCHANGED <<AllocatedUETEID, nextTeid, ikeEvt>>
    /\ Quiet
    /\ UNCHANGED <<ikeVars, RANUePool, NGAPIdToIKESPI, ngapEvt, exit, upf>>

\* HandleSendPDUSessionResourceSetupResponse: the UPF learns the TEID.
HandleSendPDUSessionResourceSetupResponse ==
    LET e == Head(ngapEvt) IN
    /\ TakeNgapEvt("SendPDUSessionResourceSetupRes")
    /\ upf' = IF e.ue \in RANUePool
              THEN [upf EXCEPT ![e.pdu.teid] = [ue |-> e.ue, session |-> e.pdu.session]] ELSE upf
    /\ Quiet
    /\ UNCHANGED <<ikeVars, ngapVars, ikeEvt, exit, hist>>

\* A session taken out of PduSessionList keeps its TEID allocated.
Drop(u, ss) ==
    hist' = [hist EXCEPT !.leaked = @ \cup {ranUe[u].PduSessionList[s].teid : s \in ss \cap Active(u)}]

HandlePDUSessionResourceReleaseCommand(u, s) ==
    /\ NgapIdle /\ EvtRoom /\ Registered(u) /\ s \in Active(u)
    /\ ranUe' = [ranUe EXCEPT ![u].PduSessionList[s] = None,
                              ![u].PduSessResRelState = @ \/ u \in NGAPIdToIKESPI]
    /\ ikeEvt' = IF u \in NGAPIdToIKESPI
                 THEN Append(ikeEvt, [type |-> "SendChildSADeleteRequest", ue |-> u, session |-> s])
                 ELSE ikeEvt
    /\ Drop(u, {s})
    /\ Quiet
    /\ UNCHANGED <<ikeVars, RANUePool, NGAPIdToIKESPI, AllocatedUETEID, nextTeid, ngapTask,
                   ngapEvt, exit, upf>>

\* HandleSendSendPDUSessionResourceRelease: an answer of the UE ends a release by the AMF; a
\* Delete by the UE drops the session.
HandleSendPDUSessionResourceRelease ==
    LET e == Head(ngapEvt) IN
    /\ TakeNgapEvt("SendPDUSessionResourceRelease")
    /\ \/ /\ e.ue \notin RANUePool
          /\ UNCHANGED <<ranUe, hist>>
       \/ /\ e.ue \in RANUePool /\ ranUe[e.ue].PduSessResRelState
          /\ ranUe' = [ranUe EXCEPT ![e.ue].PduSessResRelState = FALSE]
          /\ UNCHANGED hist
       \/ /\ e.ue \in RANUePool /\ ~ranUe[e.ue].PduSessResRelState
          /\ ranUe' = [ranUe EXCEPT
                         ![e.ue].PduSessResRelState = TRUE,
                         ![e.ue].PduSessionList =
                            [s \in Session |-> IF s = e.session THEN None ELSE @[s]]]
          /\ Drop(e.ue, {e.session})
    /\ Quiet
    /\ UNCHANGED <<ikeVars, RANUePool, NGAPIdToIKESPI, AllocatedUETEID, nextTeid, ngapTask,
                   ikeEvt, exit, upf>>

\* Mutant: the TEIDs stay allocated.
Freed_none(u) == {}

\* The TEIDs N3IWFRanUe.Remove frees.
Freed(u) == {ranUe[u].PduSessionList[s].teid : s \in Active(u)}

\* N3IWFRanUe.Remove.  Only a packet that has found the RAN UE still sees its sessions.
RemoveRanUe(u) ==
    /\ ranUe' = IF pkt # None /\ pkt.found = u THEN ranUe ELSE [ranUe EXCEPT ![u] = NewRanUe]
    /\ RANUePool' = RANUePool \ {u} /\ NGAPIdToIKESPI' = NGAPIdToIKESPI \ {u}
    /\ AllocatedUETEID' = [t \in Teid |-> IF t \in Freed(u) THEN None ELSE AllocatedUETEID[t]]

\* releaseIkeUeAndRanUe.
HandleUEContextReleaseCommand(u) ==
    /\ NgapIdle /\ EvtRoom /\ u \in RANUePool
    /\ ikeEvt' = IF u \in NGAPIdToIKESPI
                 THEN Append(ikeEvt, [type |-> "IKEDeleteRequest", ue |-> u]) ELSE ikeEvt
    /\ RemoveRanUe(u)
    /\ Quiet
    /\ UNCHANGED <<ikeVars, nextTeid, ngapTask, ngapEvt, exit, upf, hist>>

\* A partial NG Reset that names the UE: the IKE side stays.
HandleNGReset(u) ==
    /\ NgapIdle /\ EvtRoom /\ u \in RANUePool
    /\ RemoveRanUe(u)
    /\ Quiet
    /\ UNCHANGED <<ikeVars, nextTeid, ngapTask, ikeEvt, ngapEvt, exit, upf, hist>>

-----------------------------------------------------------------------------
(* User plane.  Each look-up in a map is a step; going through the child   *)
(* SAs of a UE takes time, which is the stage "ul" or "dl".                *)

At(stage) ==
    /\ Up /\ pkt # None /\ pkt.at = stage
    /\ UNCHANGED <<ikeVars, ngapVars, ikeEvt, ngapEvt, upf, hist>>

\* The packet goes to the next stage with p, or is dropped.
Go(p) == pkt' = p /\ out' = None /\ UNCHANGED exit

\* greListenAndServe: a packet of UE u comes through a child SA of it; forwardUL begins with
\* AllocatedUEIPAddressLoad for its source address.
greListenAndServe(u, c) ==
    LET found == AllocatedUEIPAddress[ikeUe[u].IPSecInnerIP] IN
    /\ Up /\ pkt = None
    /\ c.session # None /\ c.rules /\ c.iface \in links
    /\ Go(IF found = None THEN None
          ELSE [at |-> "ran", ue |-> u, session |-> c.session, iface |-> c.iface, found |-> found])
    /\ UNCHANGED <<ikeVars, ngapVars, ikeEvt, ngapEvt, upf, hist>>

\* RanUeLoadFromIkeSPI.
forwardUL_ran ==
    /\ At("ran")
    /\ Go(IF pkt.found \in IKESPIToNGAPId \cap RANUePool THEN [pkt EXCEPT !.at = "ul"] ELSE None)

SessionOf(u, c) == IF c.session = None THEN None ELSE ranUe[u].PduSessionList[c.session]

\* Mutant: any child SA of the UE will do.
FromIface_any(u, i) == {c \in ikeUe[u].child : c.iface # None}

\* The child SAs a packet from interface i may have come through.
FromIface(u, i) == {c \in ikeUe[u].child : c.iface = i}

\* The GTP packet for what the UE sent: with a PDU session container if there was a key.
ToGtp(p) == IF GetKeyFlag(p) THEN BuildQoSGTPPacket(GetQFI(p), p.payload)
            ELSE [headers |-> <<>>, payload |-> p.payload]

\* What the loop over the child SAs ends with: the first child SA with the interface; or
\* none, or one without a session any more.
Dropped_ul == \/ FromIface(pkt.found, pkt.iface) = {}
              \/ \E c \in FromIface(pkt.found, pkt.iface) : SessionOf(pkt.found, c) = None

\* What is written for each packet: Unmarshal comes before the tunnel of the session is
\* used, and drops some.
forwardUL ==
    /\ At("ul")
    /\ \/ (Dropped_ul \/ \E raw \in Raw : ~Unmarshal(raw).ok) /\ Go(None)
       \/ \E c \in FromIface(pkt.found, pkt.iface) :
            LET pduSession == SessionOf(pkt.found, c) IN
            /\ pduSession # None /\ pkt' = None
            /\ \/ pduSession.teid = None /\ exit' = "session" /\ out' = None
               \/ /\ pduSession.teid # None
                  /\ out' = [dir |-> "ul", ue |-> pkt.ue, sent |-> pkt.session,
                             of |-> pkt.found, session |-> c.session,
                             gtp |-> [raw \in {r \in Raw : Unmarshal(r).ok} |-> ToGtp(Unmarshal(raw))]]
                  /\ UNCHANGED exit

\* Mutant: whether the TEID is allocated is not looked at.
handleQoSTPDU_unchecked(t) ==
    /\ Up /\ pkt = None /\ upf[t] # None
    /\ Go([at |-> "ike", ue |-> upf[t].ue, session |-> upf[t].session, teid |-> t,
           found |-> AllocatedUETEID[t], ip |-> None])
    /\ UNCHANGED <<ikeVars, ngapVars, ikeEvt, ngapEvt, upf, hist>>

\* handleQoSTPDU: a packet of the UPF for a TEID it knows.  One whose extension headers
\* are in error goes no further; forwardDL begins with AllocatedUETEIDLoad.
handleQoSTPDU(t) ==
    /\ Up /\ pkt = None /\ upf[t] # None
    /\ Go(IF AllocatedUETEID[t] = None THEN None
          ELSE [at |-> "ike", ue |-> upf[t].ue, session |-> upf[t].session, teid |-> t,
                found |-> AllocatedUETEID[t], ip |-> None])
    /\ UNCHANGED <<ikeVars, ngapVars, ikeEvt, ngapEvt, upf, hist>>

\* IkeUeLoadFromNgapId, and the address of the IKE UE.
forwardDL_ike ==
    /\ At("ike")
    /\ Go(IF pkt.found \in NGAPIdToIKESPI \cap IKEUePool
          THEN [pkt EXCEPT !.at = "dl", !.ip = ikeUe[pkt.found].IPSecInnerIP] ELSE None)

\* The GRE packet for the UE.
ToGre(m) == Marshal(SetQoS(m.qfi, m.rqi), IPv4, Payload)

\* The child SAs of a UE with a session, and of these the ones for a TEID.
WithSession(u) == {c \in ikeUe[u].child : SessionOf(u, c) # None}
ForTeid(u, t) == {c \in WithSession(u) : SessionOf(u, c).teid = t}

\* The loop over the child SAs ends at the first one whose session has the TEID, if it
\* does not meet a session without a tunnel before.
forwardDL ==
    LET match == ForTeid(pkt.found, pkt.teid) IN
    /\ At("dl")
    /\ \/ /\ ForTeid(pkt.found, None) # {}
          /\ exit' = "session" /\ out' = None /\ pkt' = None
       \/ /\ ForTeid(pkt.found, None) = {}
          /\ match = {} \/ \E c \in match : c.iface # None /\ c.iface \notin links
          /\ Go(None)
       \/ /\ \E c \in match : c.iface = None
          /\ exit' = "iface" /\ out' = None /\ pkt' = None
       \/ \E c \in match :
            /\ c.iface \in links
            /\ out' = [dir |-> "dl", ue |-> pkt.ue, sent |-> pkt.session, of |-> pkt.found,
                       session |-> c.session, ip |-> pkt.ip,
                       gre |-> [h \in {g \in Headers : UnmarshalTPDU(g).ok} |-> ToGre(UnmarshalTPDU(h))]]
            /\ pkt' = None /\ UNCHANGED exit

-----------------------------------------------------------------------------
Init ==
    /\ IKEUePool = {} /\ ikeUe = [u \in Ue |-> [NewIkeUe EXCEPT !.sa = FALSE, !.auth = "unused"]]
    /\ RANUePool = {} /\ ranUe = [u \in Ue |-> NewRanUe]
    /\ IKESPIToNGAPId = {} /\ NGAPIdToIKESPI = {}
    /\ AllocatedUEIPAddress = [a \in Addr |-> None] /\ free = Addr
    /\ AllocatedUETEID = [t \in Teid |-> None] /\ nextTeid = 1
    /\ XfrmIfaces = {0} /\ links = {0} /\ XfrmIfaceIdOffsetForUP = 1
    /\ ikeEvt = <<>> /\ ngapEvt = <<>> /\ ikeTask = None /\ ngapTask = None
    /\ ikeUp = TRUE /\ pkt = None /\ out = None /\ exit = "no"
    /\ upf = [t \in Teid |-> None]
    /\ \E b \in Bounds :
         hist = [bound |-> b, setups |-> 0, again |-> FALSE, fails |-> 0, leaked |-> {},
                 twice |-> FALSE, reused |-> FALSE]

IkeLoop ==
    \/ \E u \in Ue : \/ HandleIKEAUTH(u) \/ CompleteChildSA(u) \/ HandleInformationalEsp(u)
                     \/ HandleInformationalAnswer(u) \/ HandleInformationalIke(u)
    \/ HandleCreatePDUSession \/ continueCreateChildSA
    \/ HandleSendChildSADeleteRequest \/ HandleIKEDeleteEvt

NgapLoop ==
    \/ \E u \in Ue : HandleUEContextReleaseCommand(u) \/ HandleNGReset(u)
    \/ \E u \in Ue, s \in Session :
          CreatePDUSession(u, s) \/ HandlePDUSessionResourceReleaseCommand(u, s)
    \/ HandlePDUSessionResourceSetupRequest
    \/ HandleSendPDUSessionResourceSetupResponse
    \/ HandleSendPDUSessionResourceRelease

UserPlaneStep ==
    \/ \E u \in Ue : \E c \in ikeUe[u].child : greListenAndServe(u, c)
    \/ \E t \in Teid : handleQoSTPDU(t)
    \/ forwardUL_ran \/ forwardUL \/ forwardDL_ike \/ forwardDL

Next == (\E u \in Ue : Register(u)) \/ IkeLoop \/ NgapLoop \/ UserPlaneStep

Spec == Init /\ [][Next]_vars

-----------------------------------------------------------------------------
(* Properties.                                                             *)

\* The maps, contexts, events and packets have their types.
TypeOK ==
    /\ IKEUePool \subseteq Ue /\ ikeUe \in [Ue -> IkeUe]
    /\ RANUePool \subseteq Ue /\ ranUe \in [Ue -> RanUe]
    /\ IKESPIToNGAPId \subseteq Ue /\ NGAPIdToIKESPI \subseteq Ue
    /\ AllocatedUEIPAddress \in [Addr -> Ue \cup {None}] /\ free \subseteq Addr
    /\ AllocatedUETEID \in [Teid -> Ue \cup {None}] /\ nextTeid \in Teid
    /\ XfrmIfaces \subseteq Iface /\ links \subseteq Iface
    /\ XfrmIfaceIdOffsetForUP \in Nat \ {0}
    /\ ikeEvt \in Seq(IkeEvt) /\ ngapEvt \in Seq(NgapEvt)
    /\ ikeTask \in IkeTask \cup {None} /\ ngapTask \in NgapTask \cup {None}
    /\ ikeUp \in BOOLEAN /\ pkt \in Uplink \cup Downlink \cup {None}
    /\ exit \in Exit /\ upf \in [Teid -> [ue: Ue, session: Session] \cup {None}]

\* The inner address of a UE whose IKE SA is up is registered for it and taken from the
\* pool, and is not the gateway's; what is registered is the address of such a UE.
\* This is lost once some UE was removed twice: N3IWFIkeUe.Remove releases the address
\* it remembers, whoever has it now (ikeue.go, Remove; NewIPsecInnerUEIP).
AddressOwned ==
    hist.twice \/
    /\ \A u \in Ue : ikeUe[u].sa /\ ikeUe[u].IPSecInnerIP # None =>
         /\ AllocatedUEIPAddress[ikeUe[u].IPSecInnerIP] = u
         /\ ikeUe[u].IPSecInnerIP \notin free \cup {Gateway}
    /\ \A a \in Addr : AllocatedUEIPAddress[a] # None =>
         LET u == AllocatedUEIPAddress[a] IN ikeUe[u].sa /\ ikeUe[u].IPSecInnerIP = a

\* A TEID in the session list of a RAN UE is allocated to that UE and in no other list,
\* and an allocated TEID is in such a list, or its session was released on its own
\* (NewTEID, DeleteTEID, N3IWFRanUe.Remove).
TeidOwned ==
    /\ \A u \in RANUePool : \A s \in Active(u) :
         LET t == ranUe[u].PduSessionList[s].teid IN
         t # None => /\ AllocatedUETEID[t] = u
                     /\ \A r \in Active(u) \ {s} : ranUe[u].PduSessionList[r].teid # t
    /\ \A t \in Teid : AllocatedUETEID[t] # None =>
         \/ t \in hist.leaked
         \/ /\ AllocatedUETEID[t] \in RANUePool
            /\ \E s \in Active(AllocatedUETEID[t]) :
                  ranUe[AllocatedUETEID[t]].PduSessionList[s].teid = t

LiveUe(u) == u \in RANUePool /\ ikeUe[u].sa

\* The last PDU session container of the headers h is the n-th header.
LastContainer(h, n) ==
    /\ n \in DOMAIN h /\ h[n].type = "PDUSessionContainer"
    /\ \A m \in DOMAIN h : m > n => h[m].type # "PDUSessionContainer"

\* What the headers of a forwarded packet say is what they said before.
SameQoS(o) ==
    IF o.dir = "dl"
    THEN \A h \in DOMAIN o.gre :
           LET p == Unmarshal(o.gre[h]) IN
           /\ p.ok /\ GetKeyFlag(p) /\ p.payload = Payload
           /\ \A n \in DOMAIN h : LastContainer(h, n) =>
                /\ GetQFI(p) = h[n].content[2] % 64
                /\ GetRQI(p) = (h[n].content[2] \div 64 % 2 = 1)
    ELSE \A raw \in DOMAIN o.gtp :
           IF raw[1] \div KeyFlag % 2 = 1
           THEN /\ o.gtp[raw].payload = SubSeq(raw, 9, Len(raw))
                /\ UnmarshalTPDU(o.gtp[raw].headers).qfi = raw[5] % 64
           ELSE o.gtp[raw].payload = SubSeq(raw, 5, Len(raw)) /\ o.gtp[raw].headers = <<>>

\* As long as both contexts of a UE are there, what it sends leaves in the tunnel of the
\* session it used (if that is not released and no session ID was used again), and what the
\* UPF sends for it goes to an address registered for it; QFI, RQI and payload are kept
\* (forwardUL, forwardDL).
ForwardedToOwner ==
    out # None => /\ SameQoS(out)
                  /\ LiveUe(out.ue) /\ ~hist.twice =>
                        /\ out.of = out.ue
                        /\ out.sent \in Active(out.ue) /\ ~hist.again => out.session = out.sent
                        /\ out.dir = "dl" => AllocatedUEIPAddress[out.ip] = out.ue

\* Apart from a map read while it is written, forwarding ends the process only after an
\* identifier was used again: a session ID for another session of the UE, or a TEID the UPF
\* still knew for another session (the dereferences of forwardUL and forwardDL).
ExitOnlyOnReuse ==
    /\ exit = "session" => hist.again
    /\ exit = "iface" => hist.again \/ hist.reused
=============================================================================
