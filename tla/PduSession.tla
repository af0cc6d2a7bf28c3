------------------------------ MODULE PduSession ------------------------------
(***************************************************************************)
(* PDU session resources of one registered UE: NGAP setup and release      *)
(* requests, the CREATE_CHILD_SA and INFORMATIONAL exchanges they start,   *)
(* and the state that the NGAP loop and the IKE loop share meanwhile.      *)
(*                                                                         *)
(* The NGAP loop keeps one TemporaryPDUSessionSetupData for the UE; the    *)
(* IKE loop writes through the same pointer.  Child SAs are negotiated one *)
(* at a time, each under the IKE SA's ResponderMessageID, which advances   *)
(* only when an answer has been handled.                                   *)
(*                                                                         *)
(* The UE follows RFC 7296 with a window of one: it executes the next      *)
(* request, repeats its last answer for a request with the previous        *)
(* message ID, and ignores any other.  An exchange number, fresh for every *)
(* CREATE_CHILD_SA, stands for the SPIs and the nonces chosen in it by     *)
(* both sides.                                                             *)
(***************************************************************************)
EXTENDS Naturals, Sequences, FiniteSets

CONSTANTS
    Session,      \* PDU session IDs
    None,
    MaxMsgId,     \* bound on ResponderMessageID
    MaxXid,       \* bound on CREATE_CHILD_SA requests prepared
    MaxRequest,   \* bound on the AMF's setup requests and release commands
    MaxProbe,     \* bound on the dead peer detection probes
    MaxUeDelete,  \* bound on the child SAs the UE deletes
    Overlap,      \* requests the AMF sends before the previous one is answered:
                  \* "none", "mixed" (a setup during a release and the reverse), "all"
    XfrmIfaceName,\* configured prefix of the XFRM interface names
    Fault,        \* kinds of faults that may happen
    MaxFault      \* bound on the faults of a behaviour

FaultKind == {"sendFail", "stall", "lost", "dup", "refused", "xfrm", "xfrmDel"}

ASSUME PduSessionAssumption ==
    /\ IsFiniteSet(Session) /\ None \notin Session /\ None \notin Nat
    /\ MaxMsgId \in Nat /\ MaxXid \in Nat /\ MaxRequest \in Nat /\ MaxProbe \in Nat
    /\ MaxUeDelete \in Nat /\ Overlap \in {"none", "mixed", "all"}
    /\ Fault \subseteq FaultKind /\ MaxFault \in Nat

VARIABLES
    ranUe,    \* NGAP: the RAN UE context
    temp,     \* shared: TemporaryPDUSessionSetupData
    sa,       \* IKE: the IKE SA and the IKE UE
    half,     \* IKE: TemporaryExchangeMsgIDChildSAMapping
    childSA,  \* IKE: N3IWFChildSecurityAssociation
    ifOffset, \* N3IWFContext.XfrmIfaceIdOffsetForUP
    ifaces,   \* N3IWFContext.XfrmIfaces: the interfaces that exist
    ikeEvt,   \* events pending for the IKE loop
    ngapEvt,  \* events pending for the NGAP loop
    up,       \* the process runs
    ikeUp,    \* the IKE server goroutine runs
    amf,      \* environment: the AMF's view
    ue,       \* environment: the UE
    toUe,     \* environment: requests on their way to the UE
    toN3iwf,  \* environment: messages on their way from the UE
    hist      \* history: what the properties refer to

ikeVars  == <<sa, half, childSA, ifOffset, ifaces>>
upVars   == <<up, ikeUp>>
envVars  == <<amf, ue>>
netVars  == <<toUe, toN3iwf>>
vars == <<ranUe, temp, sa, half, childSA, ifOffset, ifaces, ikeEvt, ngapEvt,
          up, ikeUp, amf, ue, toUe, toN3iwf, hist>>

-----------------------------------------------------------------------------
MsgId == 0..MaxMsgId
Xid   == 1..MaxXid
Error == {"ErrNil", "ErrTransportResourceUnavailable"}
Offset == Nat \ {0}

\* XFRM interfaces: the default one, and the ones made for single child SAs.
DefaultIface == 0
Iface == {DefaultIface} \cup Offset

\* XFRM states and policies installed for a child SA.
Rules == {"none", "some", "all"}

\* Numbers of sessions.
ListLen == {0} \cup {Cardinality(S) : S \in SUBSET Session}

RanUe == [PduSessionList: SUBSET Session,
          TemporaryCachedNASMessage: Session \cup {None},
          PduSessResRelState: BOOLEAN,
          PduSessionReleaseList: SUBSET Session]

Temp == [UnactivatedPDUSession: Seq(Session), Index: Nat,
         FailedErrStr: Seq(Error),
         SetupListSURes: SUBSET Session, FailedListSURes: SUBSET Session]

\* Own(x) is the nonce the N3IWF chose in exchange x, Peer(x) the UE's.
Own(x)  == <<"own", x>>
Peer(x) == <<"peer", x>>
Nonce   == {"own", "peer"} \X Xid

Sa == [ResponderMessageID: MsgId, ConcatenatedNonce: Seq(Nonce),
       TemporaryIkeMsg: Xid \cup {None}, PduSessionListLen: ListLen]

HalfSA  == [InboundSPI: Xid, session: Session]
ChildSA == [InboundSPI: Xid, OutboundSPI: Xid, session: Session,
            key: Seq(Nonce), XfrmIface: Iface \cup {None}, rules: Rules]

ToUe == [mid: MsgId, kind: {"child", "dpd", "delete"}, xids: SUBSET Xid]
FromUe == [mid: MsgId, kind: {"child", "refused", "empty", "deleted", "ueDelete"},
           xid: Xid \cup {None}]

IkeEvt == [type: {"CreatePDUSession"}, len: ListLen]
          \cup [type: {"SendChildSADeleteRequest"}, ids: SUBSET Session]
          \cup [type: {"GetNGAPContextResponse"}]
NgapEvt == [type: {"GetNGAPContext", "SendNASMsg", "SendPDUSessionResourceSetupResponse"}]
           \cup [type: {"SendPDUSessionResourceRelease"}, ids: SUBSET Session]

Status == {"idle", "asked", "up", "releasing"}

Amf == [status: [Session -> Status], sent: 0..MaxRequest]
Ue  == [expect: 0..MaxMsgId + 1, last: FromUe \cup {None}, child: SUBSET Xid,
        deletes: 0..MaxUeDelete]
History == [xid: 0..MaxXid, probes: 0..MaxProbe, faults: SUBSET FaultKind,
            used: SUBSET MsgId, reused: BOOLEAN]

\* Every context, event and message has its type.
TypeOK ==
    /\ ranUe \in RanUe /\ temp \in Temp /\ sa \in Sa
    /\ half \in [MsgId -> HalfSA \cup {None}]
    /\ childSA \subseteq ChildSA /\ ifOffset \in Offset /\ ifaces \subseteq Iface
    /\ ikeEvt \in Seq(IkeEvt) /\ ngapEvt \in Seq(NgapEvt)
    /\ up \in BOOLEAN /\ ikeUp \in BOOLEAN
    /\ toUe \subseteq ToUe /\ toN3iwf \subseteq FromUe
    /\ amf \in Amf /\ ue \in Ue /\ hist \in History

Init ==
    /\ ranUe = [PduSessionList |-> {}, TemporaryCachedNASMessage |-> None,
                PduSessResRelState |-> FALSE, PduSessionReleaseList |-> {}]
    /\ temp = [UnactivatedPDUSession |-> <<>>, Index |-> 0, FailedErrStr |-> <<>>,
               SetupListSURes |-> {}, FailedListSURes |-> {}]
    /\ sa = [ResponderMessageID |-> 0, ConcatenatedNonce |-> <<>>,
             TemporaryIkeMsg |-> None, PduSessionListLen |-> 0]
    /\ half = [m \in MsgId |-> None]
    /\ childSA = {} /\ ifOffset = 1 /\ ifaces = {DefaultIface}
    /\ ikeEvt = <<>> /\ ngapEvt = <<>> /\ up = TRUE /\ ikeUp = TRUE
    /\ toUe = {} /\ toN3iwf = {}
    /\ amf = [status |-> [s \in Session |-> "idle"], sent |-> 0]
    /\ ue = [expect |-> 0, last |-> None, child |-> {}, deletes |-> 0]
    /\ hist = [xid |-> 0, probes |-> 0, faults |-> {}, used |-> {}, reused |-> FALSE]

-----------------------------------------------------------------------------
(* Helpers.                                                                *)

\* A fault of kind k may happen now.
MayFail(k) ==
    /\ k \in Fault \ hist.faults
    /\ Cardinality(hist.faults) < MaxFault

\* The faults of h with those of K, where K is {} or one kind that may happen.
WithFaults(h, K) == [h EXCEPT !.faults = @ \cup K]
FaultOf(k) == {{}} \cup (IF MayFail(k) THEN {{k}} ELSE {})

\* The history when the N3IWF sends the UE a request with message ID m.
Sending(h, m) == [h EXCEPT !.used = @ \cup {m}, !.reused = @ \/ m \in h.used]

StatusIs(st) == {s \in Session : amf.status[s] = st}
Become(S, st) == [s \in Session |-> IF s \in S THEN st ELSE amf.status[s]]

\* The sessions of a list; the lists with every session of S once; and whether list q
\* has its sessions in the order of list p.
Listed(q) == {q[n] : n \in DOMAIN q}
Orders(S) == UNION {{q \in [1..n -> S] : /\ S = Listed(q)
                                         /\ \A i, j \in 1..n : q[i] = q[j] => i = j}
                      : n \in 0..Cardinality(Session)}
InOrder(q, p) ==
    \A i, j \in DOMAIN q : i < j =>
        \E k, l \in DOMAIN p : k < l /\ p[k] = q[i] /\ p[l] = q[j]

IkeHead(t)  == ikeEvt # <<>> /\ Head(ikeEvt).type = t
NgapHead(t) == ngapEvt # <<>> /\ Head(ngapEvt).type = t

-----------------------------------------------------------------------------
(* The NGAP loop: requests of the AMF.                                     *)

\* Mutant: the lists of the previous response are kept.
RequestData_kept(new, failed) ==
    [temp EXCEPT !.UnactivatedPDUSession = new, !.Index = 0]

\* The temporary data when sessions new are to be activated; FailedErrStr is kept.
RequestData(new, failed) ==
    [temp EXCEPT !.UnactivatedPDUSession = new, !.Index = 0,
                 !.SetupListSURes = {}, !.FailedListSURes = failed]

\* items are the sessions of the request, in order; ok those whose transfer
\* handlePDUSessionResourceSetupRequestTransfer accepts.  A session that exists
\* already, or whose transfer fails, is put on the failed list.  When none is
\* left to activate nothing is sent, to the UE or to the AMF.
HandlePDUSessionResourceSetupRequest(items, ok) ==
    LET accepted == ok \ ranUe.PduSessionList
        list == ranUe.PduSessionList \cup accepted
    IN  \E new \in Orders(accepted) :
        /\ InOrder(new, items)
        /\ temp' = RequestData(new, Listed(items) \ accepted)
        /\ IF new = <<>> THEN UNCHANGED <<ranUe, ikeEvt>>
           ELSE /\ ranUe' = [ranUe EXCEPT !.PduSessionList = list,
                                          !.TemporaryCachedNASMessage = items[Len(items)]]
                /\ ikeEvt' = Append(ikeEvt, [type |-> "CreatePDUSession",
                                             len |-> Cardinality(list)])

\* The sessions are forgotten at once; the AMF is answered when the UE has
\* answered the Delete.
HandlePDUSessionResourceReleaseCommand(S) ==
    /\ ranUe' = [ranUe EXCEPT !.PduSessionList = @ \ S, !.PduSessResRelState = TRUE,
                              !.PduSessionReleaseList = S]
    /\ ikeEvt' = Append(ikeEvt, [type |-> "SendChildSADeleteRequest", ids |-> S])

-----------------------------------------------------------------------------
(* The NGAP loop: events of the IKE loop.                                  *)

\* The IKE loop is handed the pointer to the temporary data.
HandleGetNGAPContext ==
    /\ NgapHead("GetNGAPContext")
    /\ ngapEvt' = Tail(ngapEvt)
    /\ ikeEvt' = Append(ikeEvt, [type |-> "GetNGAPContextResponse"])
    /\ UNCHANGED <<ranUe, temp, ikeVars, upVars, envVars, netVars, hist>>

\* Writes the cached NAS message to the UE; a second event writes nothing.  A write
\* that fails leaves the message cached.
HandleSendNASMsg ==
    /\ NgapHead("SendNASMsg")
    /\ ngapEvt' = Tail(ngapEvt)
    /\ \E f \in FaultOf("sendFail") :
          /\ ranUe' = IF f = {} THEN [ranUe EXCEPT !.TemporaryCachedNASMessage = None]
                      ELSE ranUe
          /\ hist' = WithFaults(hist, f)
    /\ UNCHANGED <<temp, ikeVars, ikeEvt, upVars, envVars, netVars>>

\* The sessions of the response: the n-th session is judged by the n-th entry of
\* FailedErrStr, and added to what the lists hold already.
Reported(e) ==
    {temp.UnactivatedPDUSession[n] : n \in {m \in DOMAIN temp.UnactivatedPDUSession :
                                               (temp.FailedErrStr[m] = "ErrNil") = e}}

\* Mutant: sessions refused when the request was read are left out.
FailedSessions_forgets == Reported(FALSE)

FailedSessions == temp.FailedListSURes \cup Reported(FALSE)

\* Indexing FailedErrStr beyond its end is a panic that ends the process.
HandleSendPDUSessionResourceSetupResponse ==
    /\ NgapHead("SendPDUSessionResourceSetupResponse")
    /\ ngapEvt' = Tail(ngapEvt)
    /\ IF Len(temp.FailedErrStr) < Len(temp.UnactivatedPDUSession)
       THEN up' = FALSE /\ UNCHANGED <<temp, amf>>
       ELSE LET setup == temp.SetupListSURes \cup Reported(TRUE)
                failed == FailedSessions
            IN  /\ temp' = [temp EXCEPT !.SetupListSURes = setup,
                                        !.FailedListSURes = failed]
                /\ amf' = [amf EXCEPT !.status = [s \in Session |->
                              IF s \in setup THEN "up"
                              ELSE IF s \in failed THEN "idle" ELSE @[s]]]
                /\ UNCHANGED up
    /\ UNCHANGED <<ranUe, ikeVars, ikeEvt, ikeUp, ue, netVars, hist>>

\* The flag tells a release the AMF commanded from one the UE started; in the
\* second case the AMF is told nothing.
HandleSendPDUSessionResourceRelease ==
    /\ NgapHead("SendPDUSessionResourceRelease")
    /\ ngapEvt' = Tail(ngapEvt)
    /\ IF ranUe.PduSessResRelState
       THEN /\ amf' = [amf EXCEPT !.status =
                          Become(ranUe.PduSessionReleaseList \cap StatusIs("releasing"), "idle")]
            /\ ranUe' = [ranUe EXCEPT !.PduSessResRelState = FALSE]
       ELSE /\ ranUe' = [ranUe EXCEPT !.PduSessionList = @ \ Head(ngapEvt).ids,
                                      !.PduSessResRelState = TRUE]
            /\ UNCHANGED amf
    /\ UNCHANGED <<temp, ikeVars, ikeEvt, upVars, ue, netVars, hist>>

-----------------------------------------------------------------------------
(* The IKE loop.                                                           *)

\* Mutant: a session that could not be asked for has no entry.
ErrorEntries_short(n, todo) == IF n < todo THEN <<"ErrNil">> ELSE <<>>

\* What n requests that could not be sent, and then one that could, append to
\* FailedErrStr.
ErrorEntries(n, todo) ==
    [k \in 1..n |-> "ErrTransportResourceUnavailable"]
    \o (IF n < todo THEN <<"ErrNil">> ELSE <<>>)

\* Mutant: the nonces of the previous exchange are kept.
Nonces_kept(i, x) == Append(i.ConcatenatedNonce, Own(x))

\* ConcatenatedNonce starts again with the nonce of exchange x.
Nonces(i, x) == <<Own(x)>>

\* Mutant: the NGAP loop is not told.
TellAllAsked_silent(q) == q

TellAllAsked(q) == Append(q, [type |-> "SendPDUSessionResourceSetupResponse"])

\* CreatePDUSessionChildSA, from IKE SA i, temporary data t and history h, with the
\* NGAP events q: asks the UE for the child SA of the next session.  n sessions in a
\* row cannot be asked for because sending fails; each leaves its half child SA and
\* its nonce to be overwritten by the next, under the same message ID.  After the
\* last session the NGAP loop is told to answer.
CreatePDUSessionChildSA(i, t, hf, h, q, n) ==
    LET m == i.ResponderMessageID
        todo == Len(t.UnactivatedPDUSession) - t.Index
        tries == IF n < todo THEN n + 1 ELSE n
        x == h.xid + tries
    IN  /\ n \in 0..todo /\ x <= MaxXid
        /\ temp' = [t EXCEPT !.Index = @ + tries, !.FailedErrStr = @ \o ErrorEntries(n, todo)]
        /\ IF tries = 0 THEN sa' = i /\ half' = hf
           ELSE /\ sa' = [i EXCEPT !.ConcatenatedNonce = Nonces(i, x)]
                /\ half' = [hf EXCEPT ![m] =
                              [InboundSPI |-> x,
                               session |-> t.UnactivatedPDUSession[t.Index + tries]]]
        /\ IF n < todo
           THEN /\ toUe' = toUe \cup {[mid |-> m, kind |-> "child", xids |-> {x}]}
                /\ ngapEvt' = q
                /\ hist' = Sending([h EXCEPT !.xid = x], m)
           ELSE /\ ngapEvt' = TellAllAsked(q)
                /\ hist' = [h EXCEPT !.xid = x]
                /\ UNCHANGED toUe

\* CreatePDUSessionChildSA stops half-way, with neither a request nor an event: the
\* request cannot be built after the half child SA and the nonce are stored.
StallChildSA(i, t, hf, h, q) ==
    LET x == h.xid + 1 IN
    /\ t.Index < Len(t.UnactivatedPDUSession) /\ x <= MaxXid
    /\ temp' = t /\ ngapEvt' = q
    /\ sa' = [i EXCEPT !.ConcatenatedNonce = Nonces(i, x)]
    /\ half' = [hf EXCEPT ![i.ResponderMessageID] =
                   [InboundSPI |-> x, session |-> t.UnactivatedPDUSession[t.Index + 1]]]
    /\ hist' = [h EXCEPT !.xid = x]
    /\ UNCHANGED toUe

\* Either of the two, with the faults it takes.
NextChildSA(i, t, hf, q) ==
    \/ CreatePDUSessionChildSA(i, t, hf, hist, q, 0)
    \/ /\ MayFail("sendFail")
       /\ \E n \in 1..Len(t.UnactivatedPDUSession) :
             CreatePDUSessionChildSA(i, t, hf, WithFaults(hist, {"sendFail"}), q, n)
    \/ /\ MayFail("stall")
       /\ StallChildSA(i, t, hf, WithFaults(hist, {"stall"}), q)

HandleCreatePDUSession ==
    /\ IkeHead("CreatePDUSession")
    /\ ikeEvt' = Tail(ikeEvt)
    /\ NextChildSA([sa EXCEPT !.PduSessionListLen = Head(ikeEvt).len], temp, half, ngapEvt)
    /\ UNCHANGED <<ranUe, childSA, ifOffset, ifaces, upVars, envVars, toN3iwf>>

\* The rest of a CREATE_CHILD_SA response, once the temporary data is back.
\* CompleteChildSA pairs what the last response carried with the half child SA of
\* the current message ID.  Outcomes: "bad", the response has no usable SPI; "key0",
\* its proposal is refused when the mapping is gone already; "key1", the child SA is
\* recorded but gets no keys or no interface; "rules0" and "rules1", ApplyXFRMRule
\* fails before or after the first XFRM state.
ContinueOutcome == {"ok", "bad", "key0", "key1", "rules0", "rules1"}

\* Mutant: an error of ApplyXFRMRule is not returned.
RulesApplied_ignored(o) == o \in {"rules0", "rules1", "ok"}

RulesApplied(o) == o = "ok"

\* Mutant: off by one, the second session shares the default interface.
NewIface_offByOne == IF sa.PduSessionListLen > 2 THEN ifOffset ELSE DefaultIface

\* Sessions beyond the UE's first get an interface of their own.
NewIface == IF sa.PduSessionListLen > 1 THEN ifOffset ELSE DefaultIface

CompleteChildSA(m, iface, rules) ==
    {c \in childSA : c.InboundSPI # half[m].InboundSPI}
    \cup {[InboundSPI |-> half[m].InboundSPI, OutboundSPI |-> sa.TemporaryIkeMsg,
           session |-> half[m].session, key |-> sa.ConcatenatedNonce,
           XfrmIface |-> iface, rules |-> rules]}

continueCreateChildSA(o) ==
    LET m == sa.ResponderMessageID
        pairing == temp.UnactivatedPDUSession # <<>> /\ half[m] # None
        noIface == NewIface = DefaultIface /\ DefaultIface \notin ifaces
        failed == WithFaults(hist, IF o = "ok" THEN {} ELSE {"xfrm"})
    IN  /\ IkeHead("GetNGAPContextResponse")
        /\ ikeEvt' = Tail(ikeEvt)
        /\ o # "ok" => MayFail("xfrm") /\ pairing
        /\ \/ /\ ~pairing \/ o = "bad"
              /\ hist' = failed
              /\ UNCHANGED <<temp, sa, half, childSA, ifOffset, ifaces, ngapEvt, toUe>>
           \/ /\ pairing /\ o = "key0"
              /\ half' = [half EXCEPT ![m] = None]
              /\ hist' = failed
              /\ UNCHANGED <<temp, sa, childSA, ifOffset, ifaces, ngapEvt, toUe>>
           \/ /\ pairing /\ (o = "key1" \/ (o = "ok" /\ noIface))
              /\ half' = [half EXCEPT ![m] = None]
              /\ childSA' = CompleteChildSA(m, None, "none")
              /\ hist' = failed
              /\ UNCHANGED <<temp, sa, ifOffset, ifaces, ngapEvt, toUe>>
           \/ /\ pairing /\ o \in {"rules0", "rules1", "ok"} /\ ~noIface
              /\ childSA' = CompleteChildSA(m, NewIface,
                               CASE o = "ok" -> "all" [] o = "rules1" -> "some"
                                 [] o = "rules0" -> "none")
              /\ ifaces' = ifaces \cup {NewIface}
              /\ ifOffset' = IF NewIface = DefaultIface THEN ifOffset ELSE ifOffset + 1
              /\ IF ~RulesApplied(o)
                 THEN /\ half' = [half EXCEPT ![m] = None]
                      /\ hist' = failed
                      /\ UNCHANGED <<temp, sa, ngapEvt, toUe>>
                 ELSE /\ m < MaxMsgId
                      /\ NextChildSA([sa EXCEPT !.ResponderMessageID = m + 1],
                                     [temp EXCEPT !.FailedErrStr = Append(@, "ErrNil")],
                                     [half EXCEPT ![m] = None],
                                     Append(ngapEvt, [type |-> "SendNASMsg"]))
        /\ UNCHANGED <<ranUe, upVars, envVars, toN3iwf>>

HandleGetNGAPContextResponse == \E o \in ContinueOutcome : continueCreateChildSA(o)

\* Interfaces that DeleteChildSAXfrm removes with a child SA: every one but the
\* interface named "xfrmi-default".
RemovedIface(c) ==
    IF c.XfrmIface = None \/ (c.XfrmIface = DefaultIface /\ XfrmIfaceName = "xfrmi")
    THEN {} ELSE {c.XfrmIface}

\* Mutant: child SAs on the default interface are passed over.
ReleasedChildSAs_passesOver(ids) ==
    {c \in childSA : c.session \in ids /\ c.XfrmIface # DefaultIface}

ReleasedChildSAs(ids) == {c \in childSA : c.session \in ids}

\* The child SAs of the released sessions are deleted and the UE is told, under the
\* current message ID.  A child SA without XFRM states makes XfrmStateList[0] panic,
\* which ends the IKE server goroutine; a deletion that fails ends the handler.  Either
\* may come when some child SAs are deleted.
HandleSendChildSADeleteRequest ==
    LET m == sa.ResponderMessageID
        victims == ReleasedChildSAs(Head(ikeEvt).ids)
        Delete(V) == /\ childSA' = childSA \ V
                     /\ ifaces' = ifaces \ UNION {RemovedIface(c) : c \in V}
    IN  /\ IkeHead("SendChildSADeleteRequest")
        /\ ikeEvt' = Tail(ikeEvt)
        /\ \/ /\ \E c \in victims : c.rules = "none"
              /\ \E done \in SUBSET {c \in victims : c.rules # "none"} : Delete(done)
              /\ ikeUp' = FALSE
              /\ UNCHANGED <<toUe, hist>>
           \/ /\ \A c \in victims : c.rules # "none"
              /\ Delete(victims)
              /\ toUe' = toUe \cup {[mid |-> m, kind |-> "delete",
                                     xids |-> {c.InboundSPI : c \in victims}]}
              /\ hist' = Sending(hist, m)
              /\ UNCHANGED ikeUp
           \/ /\ MayFail("xfrmDel")
              /\ \E c \in victims, done \in SUBSET {d \in victims : d.rules # "none"} :
                    c.rules # "none" /\ c \notin done /\ Delete(done)
              /\ hist' = WithFaults(hist, {"xfrmDel"})
              /\ UNCHANGED <<ikeUp, toUe>>
        /\ UNCHANGED <<ranUe, temp, sa, half, ifOffset, ngapEvt, up, envVars, toN3iwf>>

-----------------------------------------------------------------------------
(* The IKE loop: packets of the UE.                                        *)

\* Packet a leaves the network, or stays to be delivered again.
Receive(a) ==
    \E f \in FaultOf("dup") :
        /\ toN3iwf' = IF f = {} THEN toN3iwf \ {a} ELSE toN3iwf
        /\ hist' = WithFaults(hist, f)

\* A response is dispatched only under the current message ID.
hasExpectedMessageID(a) == a.mid = sa.ResponderMessageID

DropPacket(a) ==
    /\ ~hasExpectedMessageID(a) /\ a.kind # "ueDelete"
    /\ toN3iwf' = toN3iwf \ {a}
    /\ UNCHANGED <<ranUe, temp, ikeVars, ikeEvt, ngapEvt, upVars, envVars, toUe, hist>>

\* Mutant: the SA of the response is not stored.
StoreResponse_noSa(a) == [sa EXCEPT !.ConcatenatedNonce = Append(@, Peer(a.xid))]

StoreResponse(a) == [sa EXCEPT !.ConcatenatedNonce = Append(@, Peer(a.xid)),
                               !.TemporaryIkeMsg = a.xid]

\* Mutant: the NAS message is asked for before the child SA is completed.
ResponseEvents_early == <<[type |-> "SendNASMsg"], [type |-> "GetNGAPContext"]>>

ResponseEvents == <<[type |-> "GetNGAPContext"]>>

\* A response without SA, nonce or traffic selectors is dropped; any other leaves
\* its SA and its nonce in the IKE SA and has the temporary data fetched.
HandleCREATECHILDSA(a) ==
    /\ hasExpectedMessageID(a) /\ a.kind \in {"child", "refused"}
    /\ Receive(a)
    /\ IF a.kind = "refused" THEN UNCHANGED <<sa, ngapEvt>>
       ELSE /\ sa' = StoreResponse(a)
            /\ ngapEvt' = ngapEvt \o ResponseEvents
    /\ UNCHANGED <<ranUe, temp, half, childSA, ifOffset, ifaces, ikeEvt, upVars,
                   envVars, toUe>>

ReleaseEvt(ids) == [type |-> "SendPDUSessionResourceRelease", ids |-> ids]

\* Mutant: the NGAP loop is not told.
DeleteAnswered_silent(q) == q

DeleteAnswered(q) == Append(q, ReleaseEvt({}))

\* A response to a probe or to a Delete advances the message ID.
HandleInformational(a) ==
    /\ hasExpectedMessageID(a) /\ a.kind \in {"empty", "deleted"}
    /\ sa.ResponderMessageID < MaxMsgId
    /\ Receive(a)
    /\ sa' = [sa EXCEPT !.ResponderMessageID = @ + 1]
    /\ ngapEvt' = IF a.kind = "deleted" THEN DeleteAnswered(ngapEvt) ELSE ngapEvt
    /\ UNCHANGED <<ranUe, temp, half, childSA, ifOffset, ifaces, ikeEvt, upVars,
                   envVars, toUe>>

\* The UE deletes a child SA.  DeleteChildSA may fail, or panic (the dispatcher
\* recovers) for a child SA with an interface of its own and no XFRM state: the
\* child SA is kept and the NGAP loop is told nothing.
handleDeletePayload(a) ==
    LET known == {c \in childSA : c.OutboundSPI = a.xid} IN
    /\ a.kind = "ueDelete"
    /\ toN3iwf' = toN3iwf \ {a}
    /\ \/ /\ known = {}
          /\ ngapEvt' = Append(ngapEvt, ReleaseEvt({}))
          /\ UNCHANGED <<childSA, ifaces, hist>>
       \/ \E c \in known :
             /\ RemovedIface(c) = {} \/ c.rules # "none"
             /\ childSA' = childSA \ {c}
             /\ ifaces' = ifaces \ RemovedIface(c)
             /\ ngapEvt' = Append(ngapEvt, ReleaseEvt({c.session}))
             /\ UNCHANGED hist
       \/ /\ known # {}
          /\ \/ /\ MayFail("xfrmDel") /\ hist' = WithFaults(hist, {"xfrmDel"})
             \/ /\ \E c \in known : RemovedIface(c) # {} /\ c.rules = "none"
                /\ UNCHANGED hist
          /\ UNCHANGED <<childSA, ifaces, ngapEvt>>
    /\ UNCHANGED <<ranUe, temp, sa, half, ifOffset, ikeEvt, upVars, envVars, toUe>>

\* A dead peer detection probe, from the goroutine of StartDPD.
StartDPD ==
    LET m == sa.ResponderMessageID IN
    /\ hist.probes < MaxProbe
    /\ toUe' = toUe \cup {[mid |-> m, kind |-> "dpd", xids |-> {}]}
    /\ hist' = Sending([hist EXCEPT !.probes = @ + 1], m)
    /\ UNCHANGED <<ranUe, temp, ikeVars, ikeEvt, ngapEvt, upVars, envVars, toN3iwf>>

-----------------------------------------------------------------------------
(* The environment: the AMF, the UE and the network between them.          *)

\* A request that brings sessions to status st may follow now; other is the status
\* that the other kind of request brings.
MayOverlap(st, other) ==
    /\ Overlap = "all" \/ StatusIs(st) = {}
    /\ Overlap # "none" \/ StatusIs(other) = {}

\* The AMF asks for sessions it believes idle, and releases sessions that were
\* reported set up.
AmfSetupRequest ==
    /\ amf.sent < MaxRequest
    /\ MayOverlap("asked", "releasing")
    /\ \E S \in (SUBSET StatusIs("idle")) \ {{}} :
          /\ amf' = [status |-> Become(S, "asked"), sent |-> amf.sent + 1]
          /\ \E items \in Orders(S), ok \in SUBSET S :
                HandlePDUSessionResourceSetupRequest(items, ok)
    /\ UNCHANGED <<ikeVars, ngapEvt, upVars, ue, netVars, hist>>

AmfReleaseCommand ==
    /\ amf.sent < MaxRequest
    /\ MayOverlap("releasing", "asked")
    /\ \E S \in (SUBSET StatusIs("up")) \ {{}} :
          /\ amf' = [status |-> Become(S, "releasing"), sent |-> amf.sent + 1]
          /\ HandlePDUSessionResourceReleaseCommand(S)
    /\ UNCHANGED <<temp, ikeVars, ngapEvt, upVars, ue, netVars, hist>>

\* The UE executes the next request.
UeAnswers(m) ==
    LET Answer(kind, xid) == [mid |-> m.mid, kind |-> kind, xid |-> xid]
        Reply(a, child) ==
            /\ ue' = [ue EXCEPT !.expect = @ + 1, !.last = a, !.child = child]
            /\ toN3iwf' = toN3iwf \cup {a}
    IN  /\ m.mid = ue.expect
        /\ \/ /\ m.kind = "child"
              /\ \E x \in m.xids : Reply(Answer("child", x), ue.child \cup {x})
              /\ UNCHANGED hist
           \/ /\ m.kind = "child" /\ MayFail("refused")
              /\ Reply(Answer("refused", None), ue.child)
              /\ hist' = WithFaults(hist, {"refused"})
           \/ /\ m.kind = "dpd"
              /\ Reply(Answer("empty", None), ue.child)
              /\ UNCHANGED hist
           \/ /\ m.kind = "delete"
              /\ Reply(Answer(IF m.xids \cap ue.child = {} THEN "empty" ELSE "deleted", None),
                       ue.child \ m.xids)
              /\ UNCHANGED hist

\* A request under the previous message ID is taken for a retransmission.
UeRepeats(m) ==
    /\ m.mid + 1 = ue.expect
    /\ toN3iwf' = toN3iwf \cup {ue.last}
    /\ UNCHANGED <<ue, hist>>

UeIgnores(m) ==
    /\ m.mid + 1 # ue.expect /\ m.mid # ue.expect
    /\ UNCHANGED <<ue, toN3iwf, hist>>

UeReceive(m) ==
    /\ UeAnswers(m) \/ UeRepeats(m) \/ UeIgnores(m)
    /\ toUe' = toUe \ {m}
    /\ UNCHANGED <<ranUe, temp, ikeVars, ikeEvt, ngapEvt, upVars, amf>>

UeDeletes ==
    /\ ue.deletes < MaxUeDelete
    /\ \E x \in ue.child :
          /\ ue' = [ue EXCEPT !.child = @ \ {x}, !.deletes = @ + 1]
          /\ toN3iwf' = toN3iwf \cup {[mid |-> 0, kind |-> "ueDelete", xid |-> x]}
    /\ UNCHANGED <<ranUe, temp, ikeVars, ikeEvt, ngapEvt, upVars, amf, toUe, hist>>

Lose ==
    /\ MayFail("lost")
    /\ hist' = WithFaults(hist, {"lost"})
    /\ \/ \E m \in toUe : toUe' = toUe \ {m} /\ UNCHANGED toN3iwf
       \/ \E a \in toN3iwf : toN3iwf' = toN3iwf \ {a} /\ UNCHANGED toUe
    /\ UNCHANGED <<ranUe, temp, ikeVars, ikeEvt, ngapEvt, upVars, envVars>>

-----------------------------------------------------------------------------
(* Specification.                                                          *)

NgapEvents ==
    \/ HandleGetNGAPContext \/ HandleSendNASMsg
    \/ HandleSendPDUSessionResourceSetupResponse \/ HandleSendPDUSessionResourceRelease

IkeEvents ==
    /\ ikeUp
    /\ \/ HandleCreatePDUSession \/ HandleGetNGAPContextResponse
       \/ HandleSendChildSADeleteRequest

IkePackets ==
    /\ ikeUp
    /\ \E a \in toN3iwf :
          DropPacket(a) \/ HandleCREATECHILDSA(a) \/ HandleInformational(a)
          \/ handleDeletePayload(a)

UePackets == \E m \in toUe : UeReceive(m)

Next ==
    /\ up
    /\ \/ AmfSetupRequest \/ AmfReleaseCommand
       \/ NgapEvents \/ IkeEvents \/ IkePackets \/ StartDPD
       \/ UePackets \/ UeDeletes \/ Lose

\* Both loops select among what is ready and block on nothing else; a packet that
\* is not lost arrives, and the UE answers what it receives.
Fairness ==
    /\ WF_vars(up /\ NgapEvents) /\ WF_vars(up /\ IkeEvents)
    /\ WF_vars(up /\ IkePackets) /\ WF_vars(up /\ UePackets)

Spec == Init /\ [][Next]_vars /\ Fairness

-----------------------------------------------------------------------------
(* Properties.                                                             *)

\* A response was duplicated, or two requests went to the UE under one message ID.
Crossed == hist.reused \/ "dup" \in hist.faults

\* CompleteChildSA pairs the SPIs of one exchange: the outbound SPI of a child SA is
\* the one the UE chose in answer to the request that carried the inbound SPI.
SpiPaired == \A c \in childSA : c.OutboundSPI = c.InboundSPI

\* The SPIs of a child SA belong together, and its key is made of the two nonces of
\* that exchange.
ChildSaPaired ==
    SpiPaired /\ \A c \in childSA : c.key = <<Own(c.InboundSPI), Peer(c.InboundSPI)>>

\* The pairing of ChildSaPaired holds as long as no response is duplicated and no
\* two requests go to the UE under one message ID, whatever else fails: requests
\* that cannot be sent, lost packets, refusals, XFRM failures.
PairedUnlessReused == Crossed \/ ChildSaPaired

\* HandleSendPDUSessionResourceSetupResponse reports a session as set up only if its
\* child SA is installed.
ReportedStep ==
    \A s \in Session : amf.status[s] = "asked" /\ amf'.status[s] = "up" =>
        \E c \in childSA : c.session = s /\ c.rules = "all"
ReportedIsInstalled == [][ReportedStep]_vars

\* Every session reported set up is installed, unless a request could not be sent
\* or the UE deleted a child SA before the response.
ReportedUnlessSendFails ==
    [][ReportedStep \/ "sendFail" \in hist.faults \/ ue.deletes > 0]_vars

\* What the AMF sees is the abstract service: one response for each request, which
\* settles all its sessions, and a release reported only when commanded.
Service == INSTANCE PduSessionService WITH status <- amf.status
ImplementsService == Service!Spec

\* A step shows the AMF what the abstract service could, unless a response was
\* duplicated or two requests went to the UE under one message ID.
ServiceUnlessReused ==
    [][Service!Next \/ Crossed]_(amf.status)

\* FailedErrStr, which is never reset and grows by one entry for a failure and two
\* for a success, always reaches the index of the last session reported, so the NGAP
\* loop runs on; and a release meets a child SA without XFRM states, which ends the
\* IKE loop, only after a duplicate or a message ID used twice.
LoopsRun == up /\ (ikeUp \/ Crossed)

\* The child SAs of one UE are on different interfaces, as the lookup of forwardUL
\* by interface index requires, unless deleting one has failed.
DistinctIfaces ==
    "xfrmDel" \in hist.faults \/
    \A c, d \in childSA : c # d => c.XfrmIface = None \/ c.XfrmIface # d.XfrmIface

\* A session that is no longer in PduSessionList has no child SA left once the
\* pending Delete requests are handled, unless deleting one has failed or responses
\* were crossed.
ReleasedHasNoChildSa ==
    "xfrmDel" \in hist.faults \/ Crossed \/
    \A c \in childSA :
        \/ c.session \in ranUe.PduSessionList
        \/ \E n \in DOMAIN ikeEvt : /\ ikeEvt[n].type = "SendChildSADeleteRequest"
                                    /\ c.session \in ikeEvt[n].ids

\* A setup request is eventually answered, unless a fault happened, a message ID was
\* used twice, or none of its sessions could be activated.
SetupAnswered ==
    \A s \in Session :
        amf.status[s] = "asked" ~>
            \/ amf.status[s] # "asked" \/ hist.faults # {} \/ hist.reused
            \/ temp.UnactivatedPDUSession = <<>>

\* A release command is eventually answered, unless a fault happened, a message ID
\* was used twice, or the UE deleted a child SA itself.
ReleaseAnswered ==
    \A s \in Session :
        amf.status[s] = "releasing" ~>
            \/ amf.status[s] # "releasing" \/ hist.faults # {} \/ hist.reused
            \/ ue.deletes > 0

\* The PDU Session Establishment Accept is forwarded to the UE only when every
\* session of the request has its child SA.  HandleSendNASMsg follows the first child
\* SA of a request, so this is claimed for requests that activate one session.
AcceptAfterChildSa ==
    [][ranUe.TemporaryCachedNASMessage # None /\ ranUe'.TemporaryCachedNASMessage = None =>
          \/ Len(temp.UnactivatedPDUSession) > 1 \/ ue.deletes > 0
          \/ \A s \in Listed(temp.UnactivatedPDUSession) :
                \E c \in childSA : c.session = s /\ c.rules = "all"]_vars

\* The default XFRM interface, which carries the signalling child SA of every UE,
\* outlives the child SAs that DeleteChildSAXfrm takes down.
DefaultIfaceKept == DefaultIface \in ifaces
==============================================================================
