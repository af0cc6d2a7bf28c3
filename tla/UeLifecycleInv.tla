--------------------------- MODULE UeLifecycleInv ---------------------------
(***************************************************************************)
(* The inductive invariant of UeLifecycle: why message IDs, the fresh      *)
(* RAN-UE-NGAP-IDs and the order of the event channels together keep the   *)
(* maps consistent and keep the IKE event handlers from using a security   *)
(* association that is gone.                                               *)
(***************************************************************************)
EXTENDS UeLifecycle

Ike  == 1..Len(ikeEvt)
Ngap == 1..Len(ngapEvt)

\* The UE's first NAS message, on its way to the NGAP loop and, answered, back.
Asked(k)    == ngapEvt[k].type = "UnmarshalEAP5GData" /\ ~ ngapEvt[k].initial
Created(k)  == ikeEvt[k].type = "UnmarshalEAP5GDataResponse"
Answered(k) == Created(k) \/ ikeEvt[k].type = "SendEAP5GFailureMsg"

-----------------------------------------------------------------------------
(* Message IDs: a UE is at most one request ahead of its association.      *)

\* A UE's requests have its last ID or an older one, the answers to it an older one than
\* the association expects.
RequestIds ==
    /\ \A m \in toN3iwf :
         /\ 0 < m.id /\ m.id <= ue[m.spi].id
         /\ m.kind = "delete" => ue[m.spi].phase = "deleting"
    /\ \A m \in toUe : m.id < sa[m.spi].InitiatorMessageID
    /\ \A s \in Spi :
         /\ ue[s].id <= sa[s].InitiatorMessageID
         /\ sa[s].InitiatorMessageID <= ue[s].id + 1
         /\ ue[s].phase = "up" => sa[s].InitiatorMessageID = ue[s].id + 1
         /\ ue[s].phase = "idle" => sa[s] = NewSa /\ ue[s].id = 0 /\ s \notin IKESA

\* The UE waits for the answer to its first NAS message.
Waiting(s) ==
    /\ s \in IKESA /\ ~ sa[s].IkeUE
    /\ ue[s].phase \notin {"idle", "up"}
    /\ sa[s].InitiatorMessageID = ue[s].id + 1
    /\ \A m \in toUe : m.spi = s => m.id # ue[s].id

\* At most one first NAS message per UE is anywhere in the two channels.
FirstNas ==
    /\ \A k \in Ngap : Asked(k) => Waiting(ngapEvt[k].spi)
    /\ \A k \in Ike : Answered(k) => Waiting(ikeEvt[k].spi)
    /\ \A k, l \in Ngap :
         Asked(k) /\ Asked(l) /\ ngapEvt[k].spi = ngapEvt[l].spi => k = l
    /\ \A k, l \in Ike :
         Answered(k) /\ Answered(l) /\ ikeEvt[k].spi = ikeEvt[l].spi => k = l
    /\ \A k \in Ngap, l \in Ike :
         Asked(k) /\ Answered(l) => ngapEvt[k].spi # ikeEvt[l].spi

\* Whatever else concerns a UE comes after its IKE UE was made.
IkeUeFirst ==
    /\ \A k \in Ike : ~ Answered(k) => sa[ikeEvt[k].spi].IkeUE
    /\ \A i \in RanId : NGAPIdToIKESPI[i] # None => sa[NGAPIdToIKESPI[i]].IkeUE
    /\ \A s \in Spi :
         /\ IKESPIToNGAPId[s] # None => sa[s].IkeUE
         /\ s \in IKESA /\ sa[s].IkeUE => IKESPIToNGAPId[s] # None

-----------------------------------------------------------------------------
(* RAN-UE-NGAP-IDs are never reused, and nobody but the pending response   *)
(* that announces a RAN UE knows it before it is mapped.                   *)

\* Whoever knows a RAN-UE-NGAP-ID knows one that was handed out.
FreshIds ==
    /\ \A i \in RanId : i \in RANUePool \/ amf[i].phase # "none" => i < nextRanId
    /\ \A s \in Spi : IKESPIToNGAPId[s] # None => IKESPIToNGAPId[s] < nextRanId
    /\ \A k \in Ngap : ~ Asked(k) => ngapEvt[k].id < nextRanId

\* The response k alone knows its RAN UE.
KnownOnlyHere(k) ==
    LET i == ikeEvt[k].id IN
    /\ i \in RANUePool /\ NGAPIdToIKESPI[i] = None /\ amf[i].phase = "none"
    /\ \A s \in Spi : IKESPIToNGAPId[s] # i
    /\ \A l \in Ngap : ngapEvt[l].type # "UnmarshalEAP5GData" => ngapEvt[l].id # i
    /\ \A l \in Ike : Created(l) /\ ikeEvt[l].id = i => l = k

\* So for every pending response.
Unannounced == \A k \in Ike : Created(k) => KnownOnlyHere(k)

\* No two RAN UEs have one SPI.
OneMapping ==
    \A i, j \in RanId :
      NGAPIdToIKESPI[i] = NGAPIdToIKESPI[j] /\ NGAPIdToIKESPI[i] # None => i = j

-----------------------------------------------------------------------------
(* Deletion: an association still in use is deleted only at the UE's own   *)
(* request, and after the order to delete it nothing that needs it is sent.*)

\* The handler of event k loads its association.
UsesSa(k) == ikeEvt[k].type \in NeedsSa \cup {"IKEDeleteRequest"}

\* An association whose IKESAClosedCh is closed was deleted.
ClosedSaGone == \A s \in IKESA : sa[s].dpd # "closed"

\* Behind the order to delete an association no event needs it.
DeleteComesLast ==
    \A k \in Ike : ikeEvt[k].type = "IKEDeleteRequest" =>
      /\ \A i \in RanId : NGAPIdToIKESPI[i] # ikeEvt[k].spi
      /\ \A l \in Ike : k < l /\ UsesSa(l) => ikeEvt[l].spi # ikeEvt[k].spi

\* The association of a pending event, and that of a RAN UE, exist.
UsedSaExists ==
    \A k \in Ike :
      UsesSa(k) /\ ue[ikeEvt[k].spi].phase # "deleting" => ikeEvt[k].spi \in IKESA

MappedSaExists ==
    \A i \in RanId :
      NGAPIdToIKESPI[i] # None /\ ue[NGAPIdToIKESPI[i]].phase # "deleting" =>
        NGAPIdToIKESPI[i] \in IKESA

\* The message IDs, the maps and the pending events of both loops fit together.
TableInv ==
    /\ TypeOK /\ RequestIds /\ FirstNas /\ IkeUeFirst
    /\ FreshIds /\ Unannounced /\ OneMapping /\ MapsAgree /\ UplinkToOwnRanUe
    /\ ClosedSaGone /\ DeleteComesLast /\ UsedSaExists /\ MappedSaExists
    /\ IkeServerSurvives

-----------------------------------------------------------------------------
(* Registration: a UE is announced to the AMF once, so its context is set  *)
(* up once, and one EAP-Success takes its association past the signalling. *)

IkeIs(k, t)  == ikeEvt[k].type = t
NgapIs(k, t) == ngapEvt[k].type = t

\* There is one SendInitialUEMessage for a RAN UE, of which the AMF has not heard;
AnnouncedOnce ==
    /\ \A k \in Ngap : NgapIs(k, "SendInitialUEMessage") => amf[ngapEvt[k].id].phase = "none"
    /\ \A k, l \in Ngap :
         /\ NgapIs(k, "SendInitialUEMessage") /\ NgapIs(l, "SendInitialUEMessage")
         /\ ngapEvt[k].id = ngapEvt[l].id
         => k = l

\* and it comes before the request to release the UE.
AnnouncedFirst ==
    \A k, l \in Ngap :
      /\ NgapIs(k, "SendInitialUEMessage") /\ NgapIs(l, "SendUEContextRelease")
      /\ ngapEvt[k].id = ngapEvt[l].id
      => k < l

\* One SendEAPSuccessMsg is pending for an association at most, and none once it is past
\* the signalling or before the AMF has set up the context.
OneSuccess ==
    /\ \A k \in Ike : IkeIs(k, "SendEAPSuccessMsg") => sa[ikeEvt[k].spi].State < PostSignalling
    /\ \A k, l \in Ike :
         /\ IkeIs(k, "SendEAPSuccessMsg") /\ IkeIs(l, "SendEAPSuccessMsg")
         /\ ikeEvt[k].spi = ikeEvt[l].spi
         => k = l
    /\ \A i \in RanId : NGAPIdToIKESPI[i] # None /\ amf[i].phase \in {"none", "ue"} =>
         /\ sa[NGAPIdToIKESPI[i]].State < PostSignalling
         /\ \A k \in Ike : IkeIs(k, "SendEAPSuccessMsg") => ikeEvt[k].spi # NGAPIdToIKESPI[i]

\* Why the key is there when it is used.
KeyInv == KeyBeforeAuth /\ AnnouncedOnce /\ AnnouncedFirst /\ OneSuccess

-----------------------------------------------------------------------------
(* NAS over TCP is started before the AMF learns that the context is set   *)
(* up: the two events travel in this order through the same channel.       *)

\* StartTCPSignalNASMsg was handled for RAN UE i, or is before event n.
Started(i, n) ==
    \/ ranUe[i].IsNASTCPConnEstablished
    \/ \E l \in Ngap : l < n /\ NgapIs(l, "StartTCPSignalNASMsg") /\ ngapEvt[l].id = i

\* The signalling child SA of s is set up.
Signalled(s) == sa[s].State >= EndSignalling

\* Whoever may make the AMF learn of the context comes after StartTCPSignalNASMsg.
NasInv ==
    /\ NoEapAfterContextSetup
    /\ \A i \in RanId : NGAPIdToIKESPI[i] # None /\ amf[i].phase \in {"ready", "pdu"} =>
         Signalled(NGAPIdToIKESPI[i])
    /\ \A k \in Ngap : NgapIs(k, "SendPDUSessionResourceSetupResponse") =>
         /\ ngapEvt[k].id \in RANUePool => Started(ngapEvt[k].id, k)
         /\ NGAPIdToIKESPI[ngapEvt[k].id] # None => Signalled(NGAPIdToIKESPI[ngapEvt[k].id])
    /\ \A k \in Ike : IkeIs(k, "CreatePDUSession") => Signalled(ikeEvt[k].spi)
    /\ \A s \in Spi : IKESPIToNGAPId[s] \in RANUePool /\ Signalled(s) =>
         Started(IKESPIToNGAPId[s], Len(ngapEvt) + 1)

-----------------------------------------------------------------------------
(* Until a UE is asked for a child SA its NGAP context is asked for once,  *)
(* in EndSignalling; so a NAS message of the IKE loop follows a child SA.  *)

\* Event k asks for the NGAP context of s, or answers.
Asking(k, s)    == NgapIs(k, "GetNGAPContext") /\ NGAPIdToIKESPI[ngapEvt[k].id] = s
Answering(k, s) == IkeIs(k, "GetNGAPContextResponse") /\ ikeEvt[k].spi = s

\* One of the two is pending at most, while s waits for it in EndSignalling.
AskedOnceAt(s) ==
    /\ \A k \in Ngap : Asking(k, s) => sa[s].State = EndSignalling
    /\ \A k \in Ike : Answering(k, s) => sa[s].State = EndSignalling
    /\ \A k, l \in Ngap : Asking(k, s) /\ Asking(l, s) => k = l
    /\ \A k, l \in Ike : Answering(k, s) /\ Answering(l, s) => k = l
    /\ \A k \in Ngap, l \in Ike : ~ (Asking(k, s) /\ Answering(l, s))

\* So for every UE not asked yet.
AskedOnce == \A s \in Spi : ~ sa[s].childAsked => AskedOnceAt(s)

\* A NAS message of the IKE loop is for a UE that was asked for a child SA.
NasAfterChildSa ==
    \A k \in Ngap : NgapIs(k, "SendNASMsg") /\ ngapEvt[k].id \in RANUePool =>
      \E s \in Spi : NGAPIdToIKESPI[ngapEvt[k].id] = s /\ sa[s].childAsked

\* Why the process exits only after a NAS connection.
ExitInv == ExitOnlyAfterNasConnection /\ AskedOnce /\ NasAfterChildSa

-----------------------------------------------------------------------------
(* Release, when Remove succeeds.                                          *)

\* The AMF uses only RAN UEs that exist; a live association knows its RAN UE; and a
\* pending SendUEContextRelease is for a UE whose IKE UE is gone.
ReleaseInv ==
    /\ NoHalfReleasedUe
    /\ \A i \in RanId : amf[i].phase \in {"ue", "ics", "ready", "pdu"} => i \in RANUePool
    /\ \A i \in RanId : NGAPIdToIKESPI[i] \in IKESA => IKESPIToNGAPId[NGAPIdToIKESPI[i]] = i
    /\ \A k \in Ngap : NgapIs(k, "SendUEContextRelease") =>
         \A s \in Spi : IKESPIToNGAPId[s] # ngapEvt[k].id

\* The inductive invariant.
IInv ==
    /\ TableInv /\ KeyInv /\ NasInv /\ ExitInv
    /\ ~ RemoveMayFail => ReleaseInv

=============================================================================
