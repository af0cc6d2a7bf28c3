----------------------------- MODULE UeLifecycle -----------------------------
(***************************************************************************)
(* The life of a UE in the N3IWF: IKE_SA_INIT, IKE_AUTH with EAP-5G, the   *)
(* NGAP association with the AMF, the NAS TCP connection, PDU session      *)
(* setup (control only) and the release, by either side.                   *)
(*                                                                         *)
(* Two goroutines own the work: the IKE server loop (packets and IKE       *)
(* events) and the NGAP server loop (NGAP messages and NGAP events).  They *)
(* exchange events through two FIFO channels and share the maps of         *)
(* N3IWFContext.  An action is one whole handler: every map has a single   *)
(* writer, and what a handler shares with the other loop it shares through *)
(* the events it sends.                                                    *)
(*                                                                         *)
(* The UEs, the IP network and the AMF are the environment.  A UE keeps    *)
(* one request outstanding; the network loses, duplicates, delays and      *)
(* reorders IKE packets, so a packet once sent may arrive at any time or   *)
(* never.                                                                  *)
(***************************************************************************)
EXTENDS Naturals, Sequences

CONSTANTS
    Spi,            \* local SPIs of IKE SAs; each is drawn at most once
    None,           \* absence of a map entry
    MaxRanId,       \* bound on the RAN-UE-NGAP-IDs handed out
    MaxMsgId,       \* bound on the message IDs of each UE
    MaxDown,        \* bound on the downlink NAS messages for each RAN UE
    MaxEvt,         \* bound on the events pending when the environment acts
    MaxSess,        \* bound on the PDU sessions of one setup request
    MaxConn,        \* bound on the NAS TCP connections open for a UE
    LivenessCheck,  \* configuration: dead peer detection enabled
    RemoveMayFail   \* N3IWFIkeUe.Remove may fail half-way

ASSUME ConstantsAssumption ==
    /\ MaxRanId \in Nat /\ MaxMsgId \in [Spi -> Nat] /\ MaxDown \in Nat
    /\ MaxEvt \in Nat /\ MaxSess \in Nat /\ MaxConn \in Nat
    /\ LivenessCheck \in BOOLEAN /\ RemoveMayFail \in BOOLEAN
    /\ None \notin Spi

RanId == 0..MaxRanId

ASSUME NoneAssumption == None \notin RanId

VARIABLES
    IKESA,           \* SPIs with an IKE security association
    sa,              \* the security association (and IKE UE) of each SPI
    IKEUePool,       \* SPIs with an IKE UE
    IKESPIToNGAPId,
    NGAPIdToIKESPI,
    RANUePool,       \* RAN-UE-NGAP-IDs with a RAN UE
    ranUe,           \* the RAN UE of each RAN-UE-NGAP-ID
    nextRanId,       \* next value of RANUENGAPIDGenerator
    ikeEvt,          \* events pending for the IKE loop
    ngapEvt,         \* events pending for the NGAP loop
    ikeUp,           \* the IKE server goroutine runs
    procUp,          \* the process runs
    ue,              \* environment: the UEs
    toN3iwf,         \* environment: IKE requests ever sent by UEs
    toUe,            \* environment: IKE messages ever sent to UEs
    amf              \* environment: what the AMF did with each RAN UE

saVars  == <<IKESA, sa, IKEUePool, IKESPIToNGAPId>>
ranVars == <<RANUePool, ranUe, nextRanId>>
evtVars == <<ikeEvt, ngapEvt>>
upVars  == <<ikeUp, procUp>>
netVars == <<ue, toN3iwf, toUe>>
vars == <<saVars, NGAPIdToIKESPI, ranVars, evtVars, upVars, netVars, amf>>

-----------------------------------------------------------------------------
(* States of an IKE security association, and the events.                  *)

PreSignalling       == 0
EAPSignalling       == 1
PostSignalling      == 2
EndSignalling       == 3
HandleCreateChildSA == 4

\* "spawned": go StartDPD was called; "down": the peer was declared lost;
\* "closed": the DPD goroutine has closed IKESAClosedCh and ended.
DpdState == {"off", "spawned", "on", "down", "closed"}

SecurityAssociation ==
    [State: Nat, InitiatorMessageID: Nat \ {0}, LastEAPIdentifier: 0..1,
     IkeUE: BOOLEAN, Kn3iwf: BOOLEAN, IPSecInnerIP: BOOLEAN,
     dpd: DpdState, childAsked: BOOLEAN]

NewSa ==
    [State |-> PreSignalling, InitiatorMessageID |-> 1, LastEAPIdentifier |-> 0,
     IkeUE |-> FALSE, Kn3iwf |-> FALSE, IPSecInnerIP |-> FALSE,
     dpd |-> "off", childAsked |-> FALSE]

RanUe ==
    [AmfUeNgapId: BOOLEAN,
     IsNASTCPConnEstablished: BOOLEAN, IsNASTCPConnEstablishedComplete: BOOLEAN,
     TCPConnection: BOOLEAN, conns: 0..MaxConn,
     TemporaryCachedNASMessage: BOOLEAN, UeCtxRelState: BOOLEAN,
     UnactivatedPDUSession: 0..MaxSess, Index: 0..MaxSess]

NewRanUe ==
    [AmfUeNgapId |-> FALSE,
     IsNASTCPConnEstablished |-> FALSE, IsNASTCPConnEstablishedComplete |-> FALSE,
     TCPConnection |-> FALSE, conns |-> 0,
     TemporaryCachedNASMessage |-> FALSE, UeCtxRelState |-> FALSE,
     UnactivatedPDUSession |-> 0, Index |-> 0]

IkeEvtType ==
    {"UnmarshalEAP5GDataResponse", "SendEAP5GFailureMsg", "SendEAPSuccessMsg",
     "SendEAPNASMsg", "CreatePDUSession", "IKEDeleteRequest",
     "IKEContextUpdate", "GetNGAPContextResponse"}

NgapEvtType ==
    {"SendInitialUEMessage",
     "SendPDUSessionResourceSetupResponse", "SendNASMsg", "StartTCPSignalNASMsg",
     "NASTCPConnEstablishedComplete", "SendUEContextRelease",
     "SendUEContextReleaseRequest", "GetNGAPContext"}

IkeEvt  == [type: IkeEvtType, spi: Spi, id: RanId]
NgapEvt == [type: {"UnmarshalEAP5GData"}, spi: Spi, id: RanId, initial: BOOLEAN]
           \cup [type: NgapEvtType, spi: {None}, id: RanId, initial: {TRUE}]

IkeE(t, s, i)  == [type |-> t, spi |-> s, id |-> i]
NgapE(t, i)    == [type |-> t, spi |-> None, id |-> i, initial |-> TRUE]

\* A UE request: "identity" and "auth" are the first and last IKE_AUTH,
\* "nas" and "stop" carry EAP-5G, "delete" is an INFORMATIONAL Delete.
Request == [spi: Spi, id: Nat, eap: 0..1,
            kind: {"identity", "nas", "stop", "auth", "delete"}]
ToUe == [spi: Spi, id: Nat, eap: 0..1,
         kind: {"init", "start", "nas", "success", "failure", "auth",
                "authFailed", "deleted", "ikeDelete"}]

\* "wait": a request is outstanding; "up": registered over IPsec;
\* "deleting": the UE has sent a Delete; "gone": the UE gave up or was released.
UePhase == {"idle", "wait", "up", "deleting", "gone"}
AmfPhase == {"none", "ue", "ics", "ready", "pdu", "rel", "reset"}

\* Every map, association, RAN UE, event and message has its type; the counts of
\* sessions and connections of a RAN UE stay within their bounds.
TypeOK ==
    /\ IKESA \in SUBSET Spi
    /\ sa \in [Spi -> SecurityAssociation]
    /\ IKEUePool \in SUBSET Spi
    /\ IKESPIToNGAPId \in [Spi -> RanId \cup {None}]
    /\ NGAPIdToIKESPI \in [RanId -> Spi \cup {None}]
    /\ RANUePool \in SUBSET RanId
    /\ ranUe \in [RanId -> RanUe]
    /\ nextRanId \in 0..(MaxRanId + 1)
    /\ ikeEvt \in Seq(IkeEvt)
    /\ ngapEvt \in Seq(NgapEvt)
    /\ ikeUp \in BOOLEAN /\ procUp \in BOOLEAN
    /\ ue \in [Spi -> [phase: UePhase, id: Nat]]
    /\ toN3iwf \in SUBSET Request
    /\ toUe \in SUBSET ToUe
    /\ amf \in [RanId -> [phase: AmfPhase, down: 0..MaxDown, relReq: BOOLEAN]]

Init ==
    /\ IKESA = {} /\ sa = [s \in Spi |-> NewSa]
    /\ IKEUePool = {} /\ IKESPIToNGAPId = [s \in Spi |-> None]
    /\ NGAPIdToIKESPI = [i \in RanId |-> None]
    /\ RANUePool = {} /\ ranUe = [i \in RanId |-> NewRanUe] /\ nextRanId = 0
    /\ ikeEvt = <<>> /\ ngapEvt = <<>>
    /\ ikeUp = TRUE /\ procUp = TRUE
    /\ ue = [s \in Spi |-> [phase |-> "idle", id |-> 0]]
    /\ toN3iwf = {} /\ toUe = {}
    /\ amf = [i \in RanId |-> [phase |-> "none", down |-> 0, relReq |-> FALSE]]

-----------------------------------------------------------------------------
(* Sending.  An event for an IKE loop that has stopped is discarded: its   *)
(* channel is closed.                                                      *)

SendIkeEvt(e)  == ikeEvt' = IF ikeUp THEN Append(ikeEvt, e) ELSE ikeEvt
SendNgapEvt(e) == ngapEvt' = Append(ngapEvt, e)

\* Bound on what the environment may add to the channels.
EvtRoom == Len(ikeEvt) + Len(ngapEvt) < MaxEvt

SendIKEMessageToUE(s, k, id, eap) ==
    toUe' = toUe \cup {[spi |-> s, id |-> id, eap |-> eap, kind |-> k]}

\* The next EAP identifier differs from the last one.
NextEAPIdentifier(s) == 1 - sa[s].LastEAPIdentifier

-----------------------------------------------------------------------------
(* The UEs.                                                                *)

UeSend(s, k, eap) ==
    /\ ue[s].id < MaxMsgId[s]
    /\ ue' = [ue EXCEPT ![s].id = @ + 1]
    /\ toN3iwf' = toN3iwf \cup
         {[spi |-> s, id |-> ue[s].id + 1, eap |-> eap, kind |-> k]}

UeBecomes(s, ph) == ue' = [ue EXCEPT ![s].phase = ph] /\ UNCHANGED toN3iwf

\* The UE acts on a response to its outstanding request.
UeReceive(s) ==
    /\ ue[s].phase = "wait"
    /\ \E m \in toUe :
         /\ m.spi = s /\ m.id = ue[s].id
         /\ \/ m.kind = "init" /\ UeSend(s, "identity", 0)
            \/ m.kind \in {"start", "nas"} /\ UeSend(s, "nas", m.eap)
            \/ m.kind = "nas" /\ UeSend(s, "stop", m.eap)
            \/ m.kind = "success" /\ UeSend(s, "auth", 0)
            \/ m.kind = "auth" /\ UeBecomes(s, "up")
            \/ m.kind \in {"failure", "authFailed"} /\ UeBecomes(s, "gone")
    /\ UNCHANGED <<saVars, NGAPIdToIKESPI, ranVars, evtVars, upVars, toUe, amf>>

\* A registered UE ends its IKE SA.
UeDelete(s) ==
    /\ ue[s].phase = "up" /\ ue[s].id < MaxMsgId[s]
    /\ ue' = [ue EXCEPT ![s] = [phase |-> "deleting", id |-> @.id + 1]]
    /\ toN3iwf' = toN3iwf \cup
         {[spi |-> s, id |-> ue[s].id + 1, eap |-> 0, kind |-> "delete"]}
    /\ UNCHANGED <<saVars, NGAPIdToIKESPI, ranVars, evtVars, upVars, toUe, amf>>

\* The UE obeys a Delete of the N3IWF.
UeReleased(s) ==
    /\ ue[s].phase \in {"wait", "up"}
    /\ \E m \in toUe : m.spi = s /\ m.kind = "ikeDelete"
    /\ UeBecomes(s, "gone")
    /\ UNCHANGED <<saVars, NGAPIdToIKESPI, ranVars, evtVars, upVars, toUe, amf>>

-----------------------------------------------------------------------------
(* IKE loop: packets.                                                      *)

\* A SPI is random; that it was never drawn before is "idle".
HandleIKESAINIT(s) ==
    /\ procUp /\ ikeUp /\ ue[s].phase = "idle"
    /\ ue' = [ue EXCEPT ![s].phase = "wait"]
    /\ IKESA' = IKESA \cup {s}
    /\ sa' = [sa EXCEPT ![s] = NewSa]
    /\ SendIKEMessageToUE(s, "init", 0, 0)
    /\ UNCHANGED <<IKEUePool, IKESPIToNGAPId, NGAPIdToIKESPI, ranVars, evtVars,
                   upVars, toN3iwf, amf>>

\* Mutant: a request answered before is accepted again.
hasExpectedMessageID_repeats(m) == m.id <= sa[m.spi].InitiatorMessageID

hasExpectedMessageID(m) == m.id = sa[m.spi].InitiatorMessageID

\* checkIKEMessage answers a packet of an unknown SPI with INVALID_IKE_SPI.
Dispatch(m) ==
    /\ procUp /\ ikeUp /\ m.spi \in IKESA
    /\ hasExpectedMessageID(m)

\* Mutant: the next expected message ID is not advanced.
Consumed_sameId(m) == sa[m.spi]

\* A request that cannot be processed still consumes its message ID.
Consumed(m) == [sa[m.spi] EXCEPT !.InitiatorMessageID = m.id + 1]

IkeAuth(m, st) ==
    /\ m.kind # "delete" /\ sa[m.spi].State \in st /\ Dispatch(m)
    /\ UNCHANGED <<IKESA, IKEUePool, IKESPIToNGAPId, NGAPIdToIKESPI, ranVars,
                   ikeEvt, upVars, ue, toN3iwf, amf>>

HandleIKEAUTH_PreSignalling(m) ==
    /\ IkeAuth(m, {PreSignalling})
    /\ \/ /\ m.kind = "identity"
          /\ sa' = [sa EXCEPT ![m.spi] = [Consumed(m) EXCEPT
                      !.State = EAPSignalling,
                      !.LastEAPIdentifier = NextEAPIdentifier(m.spi)]]
          /\ SendIKEMessageToUE(m.spi, "start", m.id, NextEAPIdentifier(m.spi))
       \/ /\ sa' = [sa EXCEPT ![m.spi] = Consumed(m)]
          /\ UNCHANGED toUe
    /\ UNCHANGED ngapEvt

\* A RAN-UE-NGAP-ID that is not known is passed on as 0.
NgapIdOrZero(s) == IF IKESPIToNGAPId[s] = None THEN 0 ELSE IKESPIToNGAPId[s]

HandleIKEAUTH_EAPSignalling(m) ==
    /\ IkeAuth(m, {EAPSignalling})
    /\ sa' = [sa EXCEPT ![m.spi] = Consumed(m)]
    /\ \/ /\ m.kind \notin {"nas", "stop"} \/ m.eap # sa[m.spi].LastEAPIdentifier
          /\ UNCHANGED <<ngapEvt, toUe>>
       \/ /\ m.kind = "stop" /\ m.eap = sa[m.spi].LastEAPIdentifier
          /\ SendIKEMessageToUE(m.spi, "failure", m.id, 0)
          /\ UNCHANGED ngapEvt
       \/ /\ m.kind = "nas" /\ m.eap = sa[m.spi].LastEAPIdentifier
          /\ SendNgapEvt([type |-> "UnmarshalEAP5GData", spi |-> m.spi,
                          id |-> NgapIdOrZero(m.spi),
                          initial |-> sa[m.spi].IkeUE])
          /\ UNCHANGED toUe

HandleIKEAUTH_PostSignalling(m) ==
    /\ IkeAuth(m, {PostSignalling})
    /\ LET s == m.spi
           addressed == [Consumed(m) EXCEPT !.IPSecInnerIP = TRUE]
       IN \/ \* no AUTH payload, or one that does not verify
             /\ sa' = [sa EXCEPT ![s] = Consumed(m)]
             /\ SendIKEMessageToUE(s, "authFailed", m.id, 0)
             /\ UNCHANGED ngapEvt
          \/ \* no address requested, or none left
             /\ m.kind = "auth"
             /\ sa' = [sa EXCEPT ![s] = Consumed(m)]
             /\ UNCHANGED <<ngapEvt, toUe>>
          \/ \* the XFRM rules could not be applied, or the answer not sent
             /\ m.kind = "auth"
             /\ sa' = [sa EXCEPT ![s] = addressed]
             /\ UNCHANGED <<ngapEvt, toUe>>
          \/ /\ m.kind = "auth"
             /\ SendIKEMessageToUE(s, "auth", m.id, 0)
             /\ IF IKESPIToNGAPId[s] = None
                THEN sa' = [sa EXCEPT ![s] = addressed] /\ UNCHANGED ngapEvt
                ELSE /\ sa' = [sa EXCEPT ![s] = [addressed EXCEPT !.State = @ + 1]]
                     /\ ngapEvt' = ngapEvt \o
                          <<NgapE("StartTCPSignalNASMsg", IKESPIToNGAPId[s]),
                            NgapE("GetNGAPContext", IKESPIToNGAPId[s])>>

\* The switch of HandleIKEAUTH has no case for a later state.
HandleIKEAUTH_Late(m) ==
    /\ IkeAuth(m, {EndSignalling, HandleCreateChildSA})
    /\ sa' = [sa EXCEPT ![m.spi] = Consumed(m)]
    /\ UNCHANGED <<ngapEvt, toUe>>

\* A CREATE_CHILD_SA response.  Which responses hasExpectedMessageID lets pass
\* is not kept here: one may arrive, also twice, once a request was sent.
HandleCREATECHILDSA(s) ==
    /\ procUp /\ ikeUp /\ s \in IKESA /\ sa[s].childAsked
    /\ EvtRoom
    /\ IKESPIToNGAPId[s] # None
    /\ SendNgapEvt(NgapE("GetNGAPContext", IKESPIToNGAPId[s]))
    /\ UNCHANGED <<saVars, NGAPIdToIKESPI, ranVars, ikeEvt, upVars, netVars, amf>>

\* N3IWFIkeUe.Remove, with id the InitiatorMessageID as the handler leaves it.  A
\* failure to release the address or to delete a child SA comes after the SA is
\* deleted and before the IKE UE is.
RemoveIkeUe(s, ok, id) ==
    /\ IKESA' = IKESA \ {s}
    /\ sa' = [sa EXCEPT ![s].InitiatorMessageID = id, ![s].IPSecInnerIP = FALSE,
                        ![s].dpd = IF @ \in {"on", "down"} THEN "closed" ELSE @]
    /\ IKEUePool' = IF ok THEN IKEUePool \ {s} ELSE IKEUePool
    /\ IKESPIToNGAPId' =
         IF ok THEN [IKESPIToNGAPId EXCEPT ![s] = None] ELSE IKESPIToNGAPId

RemoveOutcome == IF RemoveMayFail THEN BOOLEAN ELSE {TRUE}

\* Mutant: the NGAP loop is not told.
HandleInformational_silent(m) ==
    /\ m.kind = "delete" /\ Dispatch(m)
    /\ sa[m.spi].IkeUE /\ IKESPIToNGAPId[m.spi] # None
    /\ RemoveIkeUe(m.spi, TRUE, m.id + 1)
    /\ SendIKEMessageToUE(m.spi, "deleted", m.id, 0)
    /\ UNCHANGED <<NGAPIdToIKESPI, ranVars, evtVars, upVars, ue, toN3iwf, amf>>

\* HandleInformational and handleDeletePayload, for a Delete of the IKE SA.
HandleInformational(m) ==
    LET s == m.spi IN
    /\ m.kind = "delete" /\ Dispatch(m)
    /\ sa[s].IkeUE /\ IKESPIToNGAPId[s] # None
    /\ \E ok \in RemoveOutcome :
         /\ RemoveIkeUe(s, ok, IF ok THEN m.id + 1 ELSE m.id)
         /\ IF ok
            THEN /\ SendNgapEvt(NgapE("SendUEContextRelease", IKESPIToNGAPId[s]))
                 /\ SendIKEMessageToUE(s, "deleted", m.id, 0)
            ELSE UNCHANGED <<ngapEvt, toUe>>
    /\ UNCHANGED <<NGAPIdToIKESPI, ranVars, ikeEvt, upVars, ue, toN3iwf, amf>>

-----------------------------------------------------------------------------
(* IKE loop: events.                                                       *)

IkeEvent(t) ==
    /\ procUp /\ ikeUp /\ ikeEvt # <<>>
    /\ Head(ikeEvt).type = t
    /\ ikeEvt' = Tail(ikeEvt)

\* Handlers that use the result of IKESALoad without looking at its second value,
\* and those of them that go on to use the IKE UE of the association.
NeedsSa == {"UnmarshalEAP5GDataResponse", "SendEAP5GFailureMsg", "SendEAPSuccessMsg",
            "SendEAPNASMsg", "CreatePDUSession", "GetNGAPContextResponse"}
NeedsIkeUe == {"SendEAPSuccessMsg", "CreatePDUSession", "GetNGAPContextResponse"}

NilDereference(e) ==
    \/ e.type \in NeedsSa /\ e.spi \notin IKESA
    \/ e.type \in NeedsIkeUe /\ ~ sa[e.spi].IkeUE

\* A nil dereference in HandleEvent ends the IKE server goroutine; the process
\* goes on without it.
IkeServerPanics ==
    /\ procUp /\ ikeUp /\ ikeEvt # <<>>
    /\ NilDereference(Head(ikeEvt))
    /\ ikeUp' = FALSE /\ ikeEvt' = <<>>
    /\ IKEUePool' = IF Head(ikeEvt).type = "UnmarshalEAP5GDataResponse"
                    THEN IKEUePool \cup {Head(ikeEvt).spi} ELSE IKEUePool
    /\ UNCHANGED <<IKESA, sa, IKESPIToNGAPId, NGAPIdToIKESPI, ranVars, ngapEvt,
                   procUp, netVars, amf>>

\* Mutant: IkeSpiNgapIdMapping enters one direction only.
HandleUnmarshalEAP5GDataResponse_oneWay ==
    LET e == Head(ikeEvt)  s == e.spi IN
    /\ IkeEvent("UnmarshalEAP5GDataResponse") /\ ~ NilDereference(e)
    /\ IKEUePool' = IKEUePool \cup {s}
    /\ sa' = [sa EXCEPT ![s].IkeUE = TRUE]
    /\ NGAPIdToIKESPI' = [NGAPIdToIKESPI EXCEPT ![e.id] = s]
    /\ SendNgapEvt(NgapE("SendInitialUEMessage", e.id))
    /\ UNCHANGED <<IKESA, IKESPIToNGAPId, ranVars, upVars, netVars, amf>>

HandleUnmarshalEAP5GDataResponse ==
    LET e == Head(ikeEvt)  s == e.spi IN
    /\ IkeEvent("UnmarshalEAP5GDataResponse") /\ ~ NilDereference(e)
    /\ IKEUePool' = IKEUePool \cup {s}
    /\ sa' = [sa EXCEPT ![s].IkeUE = TRUE, ![s].Kn3iwf = FALSE,
                        ![s].IPSecInnerIP = FALSE]
    /\ IKESPIToNGAPId' = [IKESPIToNGAPId EXCEPT ![s] = e.id]
    /\ NGAPIdToIKESPI' = [NGAPIdToIKESPI EXCEPT ![e.id] = s]
    /\ SendNgapEvt(NgapE("SendInitialUEMessage", e.id))
    /\ UNCHANGED <<IKESA, ranVars, upVars, netVars, amf>>

\* Answers carry the message ID of the request last accepted.
LastMessageID(s) == sa[s].InitiatorMessageID - 1

HandleSendEAP5GFailureMsg ==
    LET s == Head(ikeEvt).spi IN
    /\ IkeEvent("SendEAP5GFailureMsg") /\ ~ NilDereference(Head(ikeEvt))
    /\ SendIKEMessageToUE(s, "failure", LastMessageID(s), 0)
    /\ UNCHANGED <<saVars, NGAPIdToIKESPI, ranVars, ngapEvt, upVars, ue, toN3iwf, amf>>

\* Mutant: the key of the event is not stored.
HandleSendEAPSuccessMsg_noKey ==
    LET s == Head(ikeEvt).spi IN
    /\ IkeEvent("SendEAPSuccessMsg") /\ ~ NilDereference(Head(ikeEvt))
    /\ SendIKEMessageToUE(s, "success", LastMessageID(s), NextEAPIdentifier(s))
    /\ sa' = [sa EXCEPT ![s].LastEAPIdentifier = NextEAPIdentifier(s), ![s].State = @ + 1]
    /\ UNCHANGED <<IKESA, IKEUePool, IKESPIToNGAPId, NGAPIdToIKESPI, ranVars,
                   ngapEvt, upVars, ue, toN3iwf, amf>>

HandleSendEAPSuccessMsg ==
    LET s == Head(ikeEvt).spi
        r == [sa[s] EXCEPT !.Kn3iwf = TRUE,
                           !.LastEAPIdentifier = NextEAPIdentifier(s)]
    IN
    /\ IkeEvent("SendEAPSuccessMsg") /\ ~ NilDereference(Head(ikeEvt))
    /\ \/ /\ SendIKEMessageToUE(s, "success", LastMessageID(s), NextEAPIdentifier(s))
          /\ sa' = [sa EXCEPT ![s] = [r EXCEPT !.State = @ + 1]]
       \/ /\ sa' = [sa EXCEPT ![s] = r]        \* the message could not be sent
          /\ UNCHANGED toUe
    /\ UNCHANGED <<IKESA, IKEUePool, IKESPIToNGAPId, NGAPIdToIKESPI, ranVars,
                   ngapEvt, upVars, ue, toN3iwf, amf>>

HandleSendEAPNASMsg ==
    LET s == Head(ikeEvt).spi IN
    /\ IkeEvent("SendEAPNASMsg") /\ ~ NilDereference(Head(ikeEvt))
    /\ sa' = [sa EXCEPT ![s].LastEAPIdentifier = NextEAPIdentifier(s)]
    /\ SendIKEMessageToUE(s, "nas", LastMessageID(s), NextEAPIdentifier(s))
    /\ UNCHANGED <<IKESA, IKEUePool, IKESPIToNGAPId, NGAPIdToIKESPI, ranVars,
                   ngapEvt, upVars, ue, toN3iwf, amf>>

\* The SA of s becomes r and q the NGAP events; then sessions of RAN UE i are
\* tried in turn: one whose CREATE_CHILD_SA could not be sent is skipped, the
\* first that could be sent ends the loop, and when none is left the NGAP loop
\* is told.
CreatePDUSessionChildSA(s, i, r, q) ==
    IF IKESPIToNGAPId[s] = None
    THEN /\ sa' = [sa EXCEPT ![s] = r]
         /\ ngapEvt' = q
         /\ UNCHANGED ranUe
    ELSE \/ /\ \E n \in ranUe[i].Index + 1 .. ranUe[i].UnactivatedPDUSession :
                 ranUe' = [ranUe EXCEPT ![i].Index = n]
            /\ sa' = [sa EXCEPT ![s] = [r EXCEPT !.childAsked = TRUE]]
            /\ ngapEvt' = q
         \/ /\ ranUe' = [ranUe EXCEPT ![i].Index = ranUe[i].UnactivatedPDUSession]
            /\ sa' = [sa EXCEPT ![s] = r]
            /\ ngapEvt' = Append(q, NgapE("SendPDUSessionResourceSetupResponse",
                                          IKESPIToNGAPId[s]))

HandleCreatePDUSession ==
    LET e == Head(ikeEvt) IN
    /\ IkeEvent("CreatePDUSession") /\ ~ NilDereference(e)
    /\ CreatePDUSessionChildSA(e.spi, e.id, sa[e.spi], ngapEvt)
    /\ UNCHANGED <<IKESA, IKEUePool, IKESPIToNGAPId, NGAPIdToIKESPI, RANUePool,
                   nextRanId, upVars, netVars, amf>>

\* An early return (no session pending, no usable proposal, no half child SA,
\* XFRM failure) leaves everything; otherwise the PDU Session Establishment Accept
\* is forwarded and the next session tried.
continueCreateChildSA(s, i) ==
    \/ UNCHANGED <<sa, ranUe, ngapEvt>>
    \/ /\ ranUe[i].UnactivatedPDUSession # 0 /\ IKESPIToNGAPId[s] # None
       /\ CreatePDUSessionChildSA(s, i, sa[s],
            Append(ngapEvt, NgapE("SendNASMsg", IKESPIToNGAPId[s])))

HandleGetNGAPContextResponse ==
    LET e == Head(ikeEvt)  s == e.spi IN
    /\ IkeEvent("GetNGAPContextResponse") /\ ~ NilDereference(e)
    /\ CASE sa[s].State = EndSignalling ->
              CreatePDUSessionChildSA(s, e.id,
                [sa[s] EXCEPT !.State = @ + 1, !.dpd = "spawned"], ngapEvt)
         [] sa[s].State = HandleCreateChildSA -> continueCreateChildSA(s, e.id)
         [] OTHER -> UNCHANGED <<sa, ranUe, ngapEvt>>
    /\ UNCHANGED <<IKESA, IKEUePool, IKESPIToNGAPId, NGAPIdToIKESPI, RANUePool,
                   nextRanId, upVars, netVars, amf>>

\* Mutant: the UE is told, the IKE UE stays.
HandleIKEDeleteEvt_onlyTells ==
    /\ IkeEvent("IKEDeleteRequest")
    /\ SendIKEMessageToUE(Head(ikeEvt).spi, "ikeDelete", 0, 0)
    /\ UNCHANGED <<saVars, NGAPIdToIKESPI, ranVars, ngapEvt, upVars, ue, toN3iwf, amf>>

\* SendIKEDeleteRequest and removeIkeUe.  Once the DPD goroutine has closed
\* IKESAClosedCh, a second Remove panics on the send.
HandleIKEDeleteEvt ==
    LET s == Head(ikeEvt).spi IN
    /\ IkeEvent("IKEDeleteRequest")
    /\ \/ /\ s \notin IKEUePool
          /\ UNCHANGED <<saVars, ikeUp, toUe>>
       \/ /\ s \in IKEUePool
          /\ SendIKEMessageToUE(s, "ikeDelete", 0, 0)
          /\ IF sa[s].dpd = "closed"
             THEN ikeUp' = FALSE /\ UNCHANGED saVars
             ELSE /\ \E ok \in RemoveOutcome :
                          RemoveIkeUe(s, ok, sa[s].InitiatorMessageID)
                  /\ UNCHANGED ikeUp
    /\ UNCHANGED <<NGAPIdToIKESPI, ranVars, ngapEvt, procUp, ue, toN3iwf, amf>>

HandleIKEContextUpdate ==
    LET s == Head(ikeEvt).spi IN
    /\ IkeEvent("IKEContextUpdate")
    /\ sa' = IF s \in IKEUePool THEN [sa EXCEPT ![s].Kn3iwf = TRUE] ELSE sa
    /\ UNCHANGED <<IKESA, IKEUePool, IKESPIToNGAPId, NGAPIdToIKESPI, ranVars,
                   ngapEvt, upVars, netVars, amf>>

\* The DPD goroutine starts some time after go s.StartDPD.
StartDPD(s) ==
    /\ procUp /\ sa[s].dpd = "spawned"
    /\ sa' = [sa EXCEPT ![s].dpd = IF LivenessCheck THEN "on" ELSE "off"]
    /\ UNCHANGED <<IKESA, IKEUePool, IKESPIToNGAPId, NGAPIdToIKESPI, ranVars,
                   evtVars, upVars, netVars, amf>>

\* An INFORMATIONAL request of the DPD goroutine went unanswered.  (A timer that
\* outlives the association finds no RAN-UE-NGAP-ID and does nothing.)
DPDTimeout(s) ==
    /\ procUp /\ sa[s].dpd = "on"
    /\ IKESPIToNGAPId[s] # None
    /\ SendNgapEvt(NgapE("SendUEContextReleaseRequest", IKESPIToNGAPId[s]))
    /\ sa' = [sa EXCEPT ![s].dpd = "down"]
    /\ UNCHANGED <<IKESA, IKEUePool, IKESPIToNGAPId, NGAPIdToIKESPI, ranVars,
                   ikeEvt, upVars, netVars, amf>>

-----------------------------------------------------------------------------
(* NGAP loop: events.                                                      *)

NgapEvent(t) ==
    /\ procUp /\ ngapEvt # <<>>
    /\ Head(ngapEvt).type = t
    /\ ngapEvt' = Tail(ngapEvt)

\* The process exits: a panic of the NGAP loop ends in Fatalf.
Exit(b) == procUp' = (procUp /\ ~ b)

\* The UE's first NAS message creates the RAN UE, unless no AMF can be
\* selected; a later one is sent to the AMF of the RAN UE it names.
HandleUnmarshalEAP5GData ==
    LET e == Head(ngapEvt) IN
    /\ NgapEvent("UnmarshalEAP5GData")
    /\ \/ UNCHANGED <<ranVars, ikeEvt>>   \* not decoded, no AN parameters, or not initial
       \/ /\ ~ e.initial
          /\ SendIkeEvt(IkeE("SendEAP5GFailureMsg", e.spi, 0))
          /\ UNCHANGED ranVars
       \/ /\ ~ e.initial /\ nextRanId <= MaxRanId
          /\ RANUePool' = RANUePool \cup {nextRanId}
          /\ ranUe' = [ranUe EXCEPT ![nextRanId] = NewRanUe]
          /\ nextRanId' = nextRanId + 1
          /\ SendIkeEvt(IkeE("UnmarshalEAP5GDataResponse", e.spi, nextRanId))
    /\ UNCHANGED <<saVars, NGAPIdToIKESPI, upVars, netVars, amf>>

HandleSendInitialUEMessage ==
    LET i == Head(ngapEvt).id IN
    /\ NgapEvent("SendInitialUEMessage")
    /\ amf' = IF i \in RANUePool THEN [amf EXCEPT ![i].phase = "ue"] ELSE amf
    /\ UNCHANGED <<saVars, NGAPIdToIKESPI, ranVars, ikeEvt, upVars, netVars>>

HandleSendPDUSessionResourceSetupResponse ==
    LET i == Head(ngapEvt).id IN
    /\ NgapEvent("SendPDUSessionResourceSetupResponse")
    /\ amf' = IF i \in RANUePool /\ amf[i].phase = "ics"
              THEN [amf EXCEPT ![i].phase = "ready"] ELSE amf
    /\ UNCHANGED <<saVars, NGAPIdToIKESPI, ranVars, ikeEvt, upVars, netVars>>

\* TCPConnection is not tested before it is written to.
HandleSendNASMsg ==
    LET i == Head(ngapEvt).id IN
    /\ NgapEvent("SendNASMsg")
    /\ Exit(i \in RANUePool /\ ~ ranUe[i].TCPConnection)
    /\ \/ ranUe' = IF i \in RANUePool /\ ranUe[i].TCPConnection
                   THEN [ranUe EXCEPT ![i].TemporaryCachedNASMessage = FALSE]
                   ELSE ranUe
       \/ UNCHANGED ranUe                      \* the write failed
    /\ UNCHANGED <<saVars, NGAPIdToIKESPI, RANUePool, nextRanId, ikeEvt, ikeUp,
                   netVars, amf>>

\* Mutant: the RAN UE keeps to EAP.
HandleStartTCPSignalNASMsg_keepsEap ==
    /\ NgapEvent("StartTCPSignalNASMsg")
    /\ UNCHANGED <<saVars, NGAPIdToIKESPI, ranVars, ikeEvt, upVars, netVars, amf>>

HandleStartTCPSignalNASMsg ==
    LET i == Head(ngapEvt).id IN
    /\ NgapEvent("StartTCPSignalNASMsg")
    /\ ranUe' = IF i \in RANUePool
                THEN [ranUe EXCEPT ![i].IsNASTCPConnEstablished = TRUE] ELSE ranUe
    /\ UNCHANGED <<saVars, NGAPIdToIKESPI, RANUePool, nextRanId, ikeEvt, upVars,
                   netVars, amf>>

HandleNASTCPConnEstablishedComplete ==
    LET i == Head(ngapEvt).id IN
    /\ NgapEvent("NASTCPConnEstablishedComplete")
    /\ Exit(/\ i \in RANUePool
            /\ ranUe[i].TemporaryCachedNASMessage /\ ~ ranUe[i].TCPConnection)
    /\ ranUe' = IF i \in RANUePool
                THEN [ranUe EXCEPT ![i].IsNASTCPConnEstablishedComplete = TRUE,
                                   ![i].TemporaryCachedNASMessage = FALSE]
                ELSE ranUe
    /\ UNCHANGED <<saVars, NGAPIdToIKESPI, RANUePool, nextRanId, ikeEvt, ikeUp,
                   netVars, amf>>

HandleSendUEContextReleaseRequest ==
    LET i == Head(ngapEvt).id IN
    /\ NgapEvent("SendUEContextReleaseRequest")
    /\ amf' = IF i \in RANUePool THEN [amf EXCEPT ![i].relReq = TRUE] ELSE amf
    /\ UNCHANGED <<saVars, NGAPIdToIKESPI, ranVars, ikeEvt, upVars, netVars>>

\* Mutant: DeleteRanUe without DeleteIkeSPIFromNgapId.
RemoveRanUe_keepsMapping(i, r) ==
    /\ RANUePool' = RANUePool \ {i}
    /\ ranUe' = [ranUe EXCEPT ![i] = [r EXCEPT !.TCPConnection = FALSE, !.conns = 0]]
    /\ UNCHANGED NGAPIdToIKESPI

\* N3IWFRanUe.Remove, with r the RAN UE as the handler leaves it.
RemoveRanUe(i, r) ==
    /\ RANUePool' = RANUePool \ {i}
    /\ NGAPIdToIKESPI' = [NGAPIdToIKESPI EXCEPT ![i] = None]
    /\ ranUe' = [ranUe EXCEPT ![i] = [r EXCEPT !.TCPConnection = FALSE, !.conns = 0]]

\* Mutant: the release is marked as going on, the AMF is not asked.
HandleSendSendUEContextRelease_notAsked ==
    LET i == Head(ngapEvt).id IN
    /\ NgapEvent("SendUEContextRelease")
    /\ ranUe' = IF i \in RANUePool THEN [ranUe EXCEPT ![i].UeCtxRelState = TRUE] ELSE ranUe
    /\ UNCHANGED <<saVars, NGAPIdToIKESPI, RANUePool, nextRanId, ikeEvt, upVars, netVars, amf>>

HandleSendSendUEContextRelease ==
    LET i == Head(ngapEvt).id IN
    /\ NgapEvent("SendUEContextRelease")
    /\ IF i \notin RANUePool
       THEN UNCHANGED <<RANUePool, NGAPIdToIKESPI, ranUe, amf>>
       ELSE IF ranUe[i].UeCtxRelState
            THEN /\ RemoveRanUe(i, [ranUe[i] EXCEPT !.UeCtxRelState = FALSE])
                 /\ amf' = [amf EXCEPT ![i].phase = "rel"]
            ELSE /\ ranUe' = [ranUe EXCEPT ![i].UeCtxRelState = TRUE]
                 /\ amf' = [amf EXCEPT ![i].relReq = TRUE]
                 /\ UNCHANGED <<RANUePool, NGAPIdToIKESPI>>
    /\ UNCHANGED <<saVars, nextRanId, ikeEvt, upVars, netVars>>

HandleGetNGAPContext ==
    LET i == Head(ngapEvt).id IN
    /\ NgapEvent("GetNGAPContext")
    /\ IF i \in RANUePool /\ NGAPIdToIKESPI[i] # None
       THEN SendIkeEvt(IkeE("GetNGAPContextResponse", NGAPIdToIKESPI[i], i))
       ELSE UNCHANGED ikeEvt
    /\ UNCHANGED <<saVars, NGAPIdToIKESPI, ranVars, upVars, netVars, amf>>

-----------------------------------------------------------------------------
(* NGAP loop: messages of the AMF.  The AMF uses a RAN UE from its Initial *)
(* UE Message until it has released it, sets up the context once, and asks *)
(* for PDU sessions once that context is set up.                           *)

AmfSends(i, phases) ==
    /\ procUp /\ EvtRoom
    /\ amf[i].phase \in phases

\* Mutant: the first connection is not waited for.
HandleDownlinkNASTransport_noCache(i) ==
    LET r == [ranUe[i] EXCEPT !.AmfUeNgapId = TRUE] IN
    /\ AmfSends(i, {"ue", "ics", "ready", "pdu"}) /\ i \in RANUePool
    /\ amf[i].down < MaxDown /\ amf' = [amf EXCEPT ![i].down = @ + 1]
    /\ IF NGAPIdToIKESPI[i] # None /\ ~ r.IsNASTCPConnEstablished
       THEN SendIkeEvt(IkeE("SendEAPNASMsg", NGAPIdToIKESPI[i], i)) ELSE UNCHANGED ikeEvt
    /\ ranUe' = [ranUe EXCEPT ![i] = r]
    /\ Exit(r.IsNASTCPConnEstablished /\ ~ r.TCPConnection)
    /\ UNCHANGED <<saVars, NGAPIdToIKESPI, RANUePool, nextRanId, ngapEvt, ikeUp,
                   netVars>>

\* A NAS message goes out by EAP, by TCP, or to the one-message cache.
HandleDownlinkNASTransport(i) ==
    LET spi == NGAPIdToIKESPI[i]
        r == [ranUe[i] EXCEPT !.AmfUeNgapId = TRUE]
    IN
    /\ AmfSends(i, {"ue", "ics", "ready", "pdu"}) /\ i \in RANUePool
    /\ amf[i].down < MaxDown /\ amf' = [amf EXCEPT ![i].down = @ + 1]
    /\ IF spi # None /\ ~ r.IsNASTCPConnEstablished
       THEN SendIkeEvt(IkeE("SendEAPNASMsg", spi, i)) ELSE UNCHANGED ikeEvt
    /\ ranUe' = [ranUe EXCEPT ![i] =
         IF spi # None /\ r.IsNASTCPConnEstablished
                       /\ ~ r.IsNASTCPConnEstablishedComplete
         THEN [r EXCEPT !.TemporaryCachedNASMessage = TRUE] ELSE r]
    /\ Exit(/\ spi # None /\ r.IsNASTCPConnEstablished
            /\ r.IsNASTCPConnEstablishedComplete /\ ~ r.TCPConnection)
    /\ UNCHANGED <<saVars, NGAPIdToIKESPI, RANUePool, nextRanId, ngapEvt, ikeUp,
                   netVars>>

\* A context setup that precedes every downlink NAS message is dropped: only
\* that message records the AMF-UE-NGAP-ID the handler compares with.
HandleInitialContextSetupRequest(i) ==
    /\ AmfSends(i, {"ue"})
    /\ amf' = [amf EXCEPT ![i].phase = "ics"]
    /\ IF i \in RANUePool /\ ranUe[i].AmfUeNgapId
       THEN /\ \E n \in 0..MaxSess :
                 ranUe' = [ranUe EXCEPT ![i].Index = 0, ![i].UnactivatedPDUSession = n]
            /\ IF NGAPIdToIKESPI[i] # None
               THEN SendIkeEvt(IkeE("SendEAPSuccessMsg", NGAPIdToIKESPI[i], i))
               ELSE UNCHANGED ikeEvt
       ELSE UNCHANGED <<ranUe, ikeEvt>>
    /\ UNCHANGED <<saVars, NGAPIdToIKESPI, RANUePool, nextRanId, ngapEvt, upVars, netVars>>

HandleUEContextModificationRequest(i) ==
    /\ AmfSends(i, {"ready", "pdu"})
    /\ i \in RANUePool /\ ranUe[i].AmfUeNgapId /\ NGAPIdToIKESPI[i] # None
    /\ SendIkeEvt(IkeE("IKEContextUpdate", NGAPIdToIKESPI[i], i))
    /\ UNCHANGED <<saVars, NGAPIdToIKESPI, ranVars, ngapEvt, upVars, netVars, amf>>

\* A request with a NAS message of its own needs the TCP connection.  The
\* PDU Session Establishment Accept is cached whatever the cache holds.
HandlePDUSessionResourceSetupRequest(i) ==
    /\ AmfSends(i, {"ready"})
    /\ amf' = [amf EXCEPT ![i].phase = "pdu"]
    /\ \E nasPDU \in BOOLEAN, n \in 0..MaxSess :
         LET r == [ranUe[i] EXCEPT !.Index = 0, !.UnactivatedPDUSession = n] IN
         IF \/ i \notin RANUePool \/ ~ ranUe[i].AmfUeNgapId
            \/ nasPDU /\ ~ ranUe[i].TCPConnection
         THEN UNCHANGED <<ranUe, ikeEvt>>
         ELSE IF n = 0 \/ NGAPIdToIKESPI[i] = None
         THEN ranUe' = [ranUe EXCEPT ![i] = r] /\ UNCHANGED ikeEvt
         ELSE /\ ranUe' = [ranUe EXCEPT ![i] =
                             [r EXCEPT !.TemporaryCachedNASMessage = TRUE]]
              /\ SendIkeEvt(IkeE("CreatePDUSession", NGAPIdToIKESPI[i], i))
    /\ UNCHANGED <<saVars, NGAPIdToIKESPI, RANUePool, nextRanId, ngapEvt, upVars, netVars>>

\* Mutant: releaseIkeUeAndRanUe without ranUe.Remove.
HandleUEContextReleaseCommand_keepsRanUe(i) ==
    /\ AmfSends(i, {"ue", "ics", "ready", "pdu"})
    /\ amf' = [amf EXCEPT ![i].phase = "rel"]
    /\ IF i \in RANUePool /\ NGAPIdToIKESPI[i] # None
       THEN SendIkeEvt(IkeE("IKEDeleteRequest", NGAPIdToIKESPI[i], i))
       ELSE UNCHANGED ikeEvt
    /\ UNCHANGED <<saVars, NGAPIdToIKESPI, ranVars, ngapEvt, upVars, netVars>>

\* With releaseIkeUeAndRanUe: the IKE loop is asked to delete the SA, the RAN
\* UE goes at once.
HandleUEContextReleaseCommand(i) ==
    /\ AmfSends(i, {"ue", "ics", "ready", "pdu"})
    /\ amf' = [amf EXCEPT ![i].phase = "rel"]
    /\ IF i \in RANUePool
       THEN /\ IF NGAPIdToIKESPI[i] # None
               THEN SendIkeEvt(IkeE("IKEDeleteRequest", NGAPIdToIKESPI[i], i))
               ELSE UNCHANGED ikeEvt
            /\ RemoveRanUe(i, [ranUe[i] EXCEPT !.UeCtxRelState = TRUE])
       ELSE UNCHANGED <<ikeEvt, RANUePool, NGAPIdToIKESPI, ranUe>>
    /\ UNCHANGED <<saVars, nextRanId, ngapEvt, upVars, netVars>>

\* NG Reset of part of the interface: only the RAN UE is removed.
HandleNGReset(i) ==
    /\ AmfSends(i, {"ue", "ics", "ready", "pdu"}) /\ i \in RANUePool
    /\ amf' = [amf EXCEPT ![i].phase = "reset"]
    /\ RemoveRanUe(i, ranUe[i])
    /\ UNCHANGED <<saVars, nextRanId, evtVars, upVars, netVars>>

-----------------------------------------------------------------------------
(* NWu-CP: the NAS TCP connections.                                        *)

\* The UE is found by its inner address.
listenAndServe(s) ==
    LET i == IKESPIToNGAPId[s] IN
    /\ procUp /\ ue[s].phase = "up"
    /\ sa[s].IPSecInnerIP /\ i # None /\ i \in RANUePool
    /\ ranUe[i].conns < MaxConn /\ EvtRoom
    /\ ranUe' = [ranUe EXCEPT ![i].TCPConnection = TRUE, ![i].conns = @ + 1]
    /\ SendNgapEvt(NgapE("NASTCPConnEstablishedComplete", i))
    /\ UNCHANGED <<saVars, NGAPIdToIKESPI, RANUePool, nextRanId, ikeEvt, upVars,
                   netVars, amf>>

\* Mutant: a connection is closed once more after its goroutine ended.
serveConn_closesAgain(i) ==
    /\ procUp
    /\ ranUe' = [ranUe EXCEPT ![i].TCPConnection = FALSE, ![i].conns = @ - 1]
    /\ UNCHANGED <<saVars, NGAPIdToIKESPI, RANUePool, nextRanId, evtVars, upVars,
                   netVars, amf>>

\* A connection ends.  TCPConnection is cleared whichever connection it was.
serveConn(i) ==
    /\ procUp /\ ranUe[i].conns > 0
    /\ ranUe' = [ranUe EXCEPT ![i].TCPConnection = FALSE, ![i].conns = @ - 1]
    /\ UNCHANGED <<saVars, NGAPIdToIKESPI, RANUePool, nextRanId, evtVars, upVars,
                   netVars, amf>>

-----------------------------------------------------------------------------
IkePacket ==
    \/ \E s \in Spi : HandleIKESAINIT(s) \/ HandleCREATECHILDSA(s)
    \/ \E m \in toN3iwf :
         \/ HandleIKEAUTH_PreSignalling(m) \/ HandleIKEAUTH_EAPSignalling(m)
         \/ HandleIKEAUTH_PostSignalling(m) \/ HandleIKEAUTH_Late(m)
         \/ HandleInformational(m)

IkeHandleEvent ==
    \/ IkeServerPanics
    \/ HandleUnmarshalEAP5GDataResponse \/ HandleSendEAP5GFailureMsg
    \/ HandleSendEAPSuccessMsg \/ HandleSendEAPNASMsg
    \/ HandleCreatePDUSession \/ HandleGetNGAPContextResponse
    \/ HandleIKEDeleteEvt \/ HandleIKEContextUpdate

NgapHandleEvent ==
    \/ HandleUnmarshalEAP5GData \/ HandleSendInitialUEMessage
    \/ HandleSendPDUSessionResourceSetupResponse \/ HandleSendNASMsg
    \/ HandleStartTCPSignalNASMsg \/ HandleNASTCPConnEstablishedComplete
    \/ HandleSendUEContextReleaseRequest \/ HandleSendSendUEContextRelease
    \/ HandleGetNGAPContext

NgapMessage ==
    \E i \in RanId :
      \/ HandleDownlinkNASTransport(i) \/ HandleInitialContextSetupRequest(i)
      \/ HandleUEContextModificationRequest(i)
      \/ HandlePDUSessionResourceSetupRequest(i)
      \/ HandleUEContextReleaseCommand(i) \/ HandleNGReset(i)

Goroutine ==
    \/ \E s \in Spi : StartDPD(s) \/ DPDTimeout(s) \/ listenAndServe(s)
    \/ \E i \in RanId : serveConn(i)

Environment == \E s \in Spi : UeReceive(s) \/ UeDelete(s) \/ UeReleased(s)

Next ==
    \/ IkePacket \/ IkeHandleEvent \/ NgapHandleEvent \/ NgapMessage
    \/ Goroutine \/ Environment

\* Both loops serve their event channels; the AMF answers a release request,
\* also when MaxEvt, a bound of this model only, disables the answer for a while.
Fairness ==
    /\ WF_vars(IkeHandleEvent)
    /\ WF_vars(NgapHandleEvent)
    /\ \A i \in RanId : SF_vars(amf[i].relReq /\ HandleUEContextReleaseCommand(i))

Spec == Init /\ [][Next]_vars /\ Fairness

-----------------------------------------------------------------------------
(* Properties.                                                             *)

IkePending(t, s)  == \E k \in 1..Len(ikeEvt) : ikeEvt[k].type = t /\ ikeEvt[k].spi = s
NgapPending(t, i) == \E k \in 1..Len(ngapEvt) : ngapEvt[k].type = t /\ ngapEvt[k].id = i

\* The handlers of IKE events use security associations they do not check for.
\* The IKE server goroutine nevertheless dies of a missing one only when some UE
\* has deleted its IKE SA by itself: no order of packets, events, registrations
\* and releases by the AMF or by DPD gets it there.
IkeServerSurvives == ikeUp \/ \E s \in Spi : ue[s].phase = "deleting"

\* IKESPIToNGAPId and NGAPIdToIKESPI agree on every live UE, no two SPIs share a
\* RAN UE, and a RAN UE without an SPI is one whose UnmarshalEAP5GDataResponse
\* the IKE loop has yet to handle.
MapsAgree ==
    /\ \A s \in Spi : LET i == IKESPIToNGAPId[s] IN
         /\ i \in RANUePool => NGAPIdToIKESPI[i] = s
         /\ i # None => \A u \in Spi \ {s} : IKESPIToNGAPId[u] # i
    /\ \A i \in RanId : NGAPIdToIKESPI[i] # None => i \in RANUePool
    /\ \A i \in RANUePool : ikeUp /\ NGAPIdToIKESPI[i] = None =>
         \E k \in 1..Len(ikeEvt) :
            ikeEvt[k].type = "UnmarshalEAP5GDataResponse" /\ ikeEvt[k].id = i

\* An IKE SA is given at most one RAN UE: retransmitted and late EAP-5G packets
\* never make HandleUnmarshalEAP5GData create a second one.
OneRanUePerSpi ==
    /\ \A i, j \in RANUePool :
         NGAPIdToIKESPI[i] = NGAPIdToIKESPI[j] /\ NGAPIdToIKESPI[i] # None => i = j
    /\ \A k \in 1..Len(ikeEvt) : ikeEvt[k].type = "UnmarshalEAP5GDataResponse" =>
         /\ \A i \in RANUePool : NGAPIdToIKESPI[i] # ikeEvt[k].spi
         /\ \A l \in 1..Len(ikeEvt) :
              ikeEvt[l].type = ikeEvt[k].type /\ ikeEvt[l].spi = ikeEvt[k].spi => l = k

\* An uplink NAS message that waits to be forwarded to the AMF names the RAN UE of
\* the UE that sent it, never the RAN UE with identifier 0 of somebody else.
UplinkToOwnRanUe ==
    \A k \in 1..Len(ngapEvt) : LET e == ngapEvt[k] IN
      e.type = "UnmarshalEAP5GData" /\ e.initial /\ e.id \in RANUePool
        => NGAPIdToIKESPI[e.id] = e.spi

\* The PostSignalling branch of HandleIKEAUTH uses the IKE UE and its Kn3iwf: an SA
\* in that state or a later one has both, and from EndSignalling an inner address.
KeyBeforeAuth ==
    \A s \in IKESA :
      /\ sa[s].State >= PostSignalling => sa[s].IkeUE /\ sa[s].Kn3iwf
      /\ sa[s].State >= EndSignalling => sa[s].IPSecInnerIP
      /\ sa[s].State <= HandleCreateChildSA

\* When the AMF learns that the context is set up, downlink NAS messages no longer
\* go out by EAP: StartTCPSignalNASMsg was handled before.
NoEapAfterContextSetup ==
    \A i \in RANUePool : amf[i].phase \in {"ready", "pdu"} =>
      ranUe[i].IsNASTCPConnEstablished

\* A downlink NAS message never finds TCPConnection nil on a UE's way to its first
\* NAS connection: the process exits only for a UE whose connection was accepted
\* before, or that was asked for the child SA of a PDU session.
ExitOnlyAfterNasConnection ==
    procUp \/ \E i \in RANUePool :
      /\ ~ ranUe[i].TCPConnection
      /\ \/ ranUe[i].IsNASTCPConnEstablishedComplete
         \/ \E s \in Spi : NGAPIdToIKESPI[i] = s /\ sa[s].childAsked

\* A UE is never left half released: when the AMF has released it, the IKE loop has
\* deleted it or has the order to; when it has deleted its IKE SA, its RAN UE is
\* gone or the AMF is being asked for the release.  (Remove succeeding.)
NoHalfReleasedUe ==
    ikeUp =>
    /\ \A s \in IKEUePool : LET i == IKESPIToNGAPId[s] IN
         i \in RanId /\ amf[i].phase = "rel" => IkePending("IKEDeleteRequest", s)
    /\ \A i \in RANUePool :
         NGAPIdToIKESPI[i] # None /\ NGAPIdToIKESPI[i] \notin IKESA =>
           NgapPending("SendUEContextRelease", i) \/ amf[i].relReq

\* A UE that deletes its IKE SA loses its RAN UE in the end, when the AMF answers
\* the release request.
DeletedUeIsReleased ==
    \A i \in RanId :
      (/\ i \in RANUePool /\ NGAPIdToIKESPI[i] # None
       /\ NGAPIdToIKESPI[i] \notin IKESA) ~> (i \notin RANUePool \/ ~ procUp)

\* A UE the AMF has released leaves no IKE SA, IKE UE or mapping behind.
ReleasedUeIsForgotten ==
    \A s \in Spi :
      (IkePending("IKEDeleteRequest", s))
        ~> (\/ s \notin IKESA /\ s \notin IKEUePool /\ IKESPIToNGAPId[s] = None
            \/ ~ ikeUp \/ ~ procUp)

=============================================================================
