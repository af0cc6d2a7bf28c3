---------------------------- MODULE UserPlaneProofs ----------------------------
(***************************************************************************)
(* AddressOwned and TeidOwned of UserPlane, for every set of UEs,          *)
(* sessions, addresses and TEIDs and every bound.  Each is made inductive  *)
(* by facts about the moment of an allocation: a UE that has not finished  *)
(* IKE_AUTH remembers no address, so the one it is given replaces none;    *)
(* the session a setup is working on is in the list of a pooled RAN UE     *)
(* without a TEID, so the one it is given leaves none behind.              *)
(* Last, SafeInv: everything that refers to a session or a packet agrees,  *)
(* which module UserPlaneForwarding draws its theorems from.               *)
(***************************************************************************)
EXTENDS UserPlane, TLAPS

-----------------------------------------------------------------------------
(* The types the proofs begin with, kept by every step: the contexts, the  *)
(* allocations and what the handlers of both loops work on.                *)

\* The bounds and the history.
Hist == [bound: Bound, setups: Nat, again: BOOLEAN, fails: Nat,
         leaked: SUBSET (Teid \cup {None}), twice: BOOLEAN, reused: BOOLEAN]

\* What the IKE loop writes: IKE UEs, inner addresses, interface numbers and its events.
IkeTypes ==
    /\ ikeUe \in [Ue -> IkeUe]
    /\ AllocatedUEIPAddress \in [Addr -> Ue \cup {None}] /\ free \subseteq Addr
    /\ XfrmIfaceIdOffsetForUP \in Nat
    /\ ikeEvt \in Seq(IkeEvt) /\ ikeTask \in IkeTask \cup {None}

\* What the NGAP loop writes: RAN UEs, TEIDs and its task; hist is written by both.
NgapTypes ==
    /\ RANUePool \subseteq Ue /\ ranUe \in [Ue -> RanUe]
    /\ AllocatedUETEID \in [Teid -> Ue \cup {None}]
    /\ ngapTask \in NgapTask \cup {None}
    /\ hist \in Hist

Types == IkeTypes /\ NgapTypes

\* Counting a failed netlink or pool operation keeps the type of hist and touches none of the
\* fields the properties read.
LEMMA FailingType ==
    ASSUME hist \in Hist, NEW failed
    PROVE  /\ Failing(failed) \in Hist
           /\ Failing(failed).bound = hist.bound
           /\ Failing(failed).leaked = hist.leaked
           /\ Failing(failed).twice = hist.twice
  BY DEF Failing, Hist

\* The state after start, no UE known and nothing allocated, has the types.
LEMMA InitTypes == Init => Types
  <1> SUFFICES ASSUME Init PROVE Types
    BY Zenon
  <1>1. ikeUe \in [Ue -> IkeUe]
    BY ZenonT(30) DEF Init, IkeUe, NewIkeUe, Auth
  <1>2. ranUe \in [Ue -> RanUe]
    BY Zenon DEF Init, RanUe, NewRanUe
  <1>3. hist \in Hist
    BY UserPlaneAssumption DEF Init, Hist
  <1>4. ikeEvt \in Seq(IkeEvt)
    BY DEF Init
  <1> QED
    BY Zenon, <1>1, <1>2, <1>3, <1>4 DEF Init, Types, IkeTypes, NgapTypes

\* The IKE event a handler takes from the channel is an event of its type for a known UE.
LEMMA TakenEvt ==
    ASSUME IkeTypes, NEW type, TakeIkeEvt(type)
    PROVE  /\ ikeEvt' \in Seq(IkeEvt)
           /\ Head(ikeEvt) \in IkeEvt /\ Head(ikeEvt).type = type
           /\ Head(ikeEvt).ue \in Ue
  BY DEF IkeTypes, TakeIkeEvt, IkeEvt

\* N3IWFIkeUe.Remove keeps the types, whether its deletions succeed or one of them fails and the
\* IKE UE stays with the child SAs left.
LEMMA RemoveTypes ==
    ASSUME Types, NEW u \in Ue, NEW d, Remove(u, d)
    PROVE  /\ ikeUe' \in [Ue -> IkeUe]
           /\ AllocatedUEIPAddress' \in [Addr -> Ue \cup {None}]
           /\ free' \subseteq Addr
           /\ hist' \in Hist
           /\ UNCHANGED XfrmIfaceIdOffsetForUP
  <1>1. ikeUe' \in [Ue -> IkeUe]
    <2>1. [NewIkeUe EXCEPT !.sa = FALSE, !.auth = "gone"] \in IkeUe
      BY ZenonT(30) DEF IkeUe, NewIkeUe, Auth
    <2>2. ikeUe[u] \in IkeUe
      BY Zenon DEF Types, IkeTypes
    <2>3. [ikeUe[u] EXCEPT !.sa = FALSE, !.child = @ \ d.gone] \in IkeUe
      BY ZenonT(30), <2>2 DEF IkeUe
    <2> DEFINE r == IF d.result = "ok" THEN [NewIkeUe EXCEPT !.sa = FALSE, !.auth = "gone"]
                    ELSE [ikeUe[u] EXCEPT !.sa = FALSE, !.child = @ \ d.gone]
    <2>4. r \in IkeUe
      BY Zenon, <2>1, <2>3
    <2>5. ikeUe' = [ikeUe EXCEPT ![u] = r]
      <3>1. CASE d.result = "ok"
        BY Zenon, <3>1 DEF Remove
      <3>2. CASE d.result # "ok"
        BY Zenon, <3>2 DEF Remove
      <3> QED
        BY Zenon, <3>1, <3>2
    <2> HIDE DEF r
    <2> QED
      BY Zenon, <2>4, <2>5 DEF Types, IkeTypes
  <1>2. AllocatedUEIPAddress' \in [Addr -> Ue \cup {None}]
    BY Zenon DEF Types, IkeTypes, Remove
  <1>3. free' \subseteq Addr
    <2>1. ikeUe[u].IPSecInnerIP \in Addr \cup {None}
      BY Zenon DEF Types, IkeTypes, IkeUe
    <2> QED
      BY Zenon, <2>1 DEF Types, IkeTypes, Remove
  <1>4. hist' \in Hist
    <2>1. Failing(d.failed) \in Hist
      BY Zenon, FailingType DEF Types, NgapTypes
    <2> QED
      BY ZenonT(30), <2>1 DEF Remove, Hist
  <1> QED
    BY Zenon, <1>1, <1>2, <1>3, <1>4 DEF Remove, IfacesAfter

\* Every handler of the IKE loop, and the registration of a new UE, keeps the types.
LEMMA IkeStepTypes == ASSUME Types, IkeLoop \/ \E u \in Ue : Register(u) PROVE Types'
  <1>1. ASSUME NEW u \in Ue, Register(u) PROVE Types'
    <2>1. ikeUe' \in [Ue -> IkeUe] /\ ranUe' \in [Ue -> RanUe]
      BY Zenon, <1>1 DEF Types, IkeTypes, NgapTypes, Register, IkeUe, RanUe, NewIkeUe, NewRanUe, Auth
    <2> QED
      BY Zenon, <1>1, <2>1 DEF Types, IkeTypes, NgapTypes, Register, addrVars, ifVars
  <1>2. ASSUME NEW u \in Ue, HandleIKEAUTH(u) PROVE Types'
    <2>1. CASE ikeUe' = [ikeUe EXCEPT ![u].auth = "failed"] /\ free' = {}
                 /\ UNCHANGED <<AllocatedUEIPAddress, hist>>
      <3>1. [ikeUe[u] EXCEPT !.auth = "failed"] \in IkeUe
        BY Zenon DEF Types, IkeTypes, IkeUe, Auth
      <3>2. ikeUe' \in [Ue -> IkeUe]
        BY Zenon, <2>1, <3>1 DEF Types, IkeTypes
      <3> QED
        BY ZenonT(30), <1>2, <2>1, <3>2 DEF Types, IkeTypes, NgapTypes, HandleIKEAUTH, ifVars, ngapVars
    <2>2. ASSUME NEW a \in Addr, NEW child \in SUBSET [session: {None}, teid: {None}, iface: {None},
                   rules: BOOLEAN],
                 hist' = Failing(~\E c \in child : c.rules), NewIPsecInnerUEIP(u, a),
                 ikeUe' = [ikeUe EXCEPT
                            ![u].auth = IF \E c \in child : c.rules THEN "done" ELSE "failed",
                            ![u].IPSecInnerIP = a, ![u].child = child]
          PROVE Types'
      <3>1. child \subseteq ChildSA
        BY Zenon DEF ChildSA
      <3>2. ikeUe' \in [Ue -> IkeUe]
        <4>1. ikeUe[u] \in IkeUe
          BY Zenon DEF Types, IkeTypes
        <4>2. ASSUME NEW auth \in Auth
              PROVE  [ikeUe[u] EXCEPT !.auth = auth, !.IPSecInnerIP = a,
                       !.child = child] \in IkeUe
          BY ZenonT(30), <3>1, <4>1, <4>2 DEF IkeUe
        <4>3. (IF \E c \in child : c.rules THEN "done" ELSE "failed") \in Auth
          BY Zenon DEF Auth
        <4> QED
          BY ZenonT(30), <2>2, <4>2, <4>3 DEF Types, IkeTypes
      <3>3. hist' \in Hist
        BY ZenonT(30), <2>2, FailingType DEF Types, NgapTypes
      <3> QED
        BY ZenonT(30), <1>2, <2>2, <3>2, <3>3
           DEF Types, IkeTypes, NgapTypes, HandleIKEAUTH, NewIPsecInnerUEIP, ifVars, ngapVars
    <2> QED
      BY ZenonT(30), <1>2, <2>1, <2>2 DEF HandleIKEAUTH
  <1>3. ASSUME NEW u \in Ue, CompleteChildSA(u) PROVE Types'
    <2>1. ikeUe[u].half \in Unactivated
      BY Zenon, <1>3 DEF CompleteChildSA, Types, IkeTypes, IkeUe
    <2>2. NewChildSA(ikeUe[u].half) \in ChildSA
      BY Zenon, <2>1 DEF NewChildSA, ChildSA, Unactivated
    <2>3. ikeUe' \in [Ue -> IkeUe]
      <3>1. ikeUe[u] \in IkeUe
        BY Zenon DEF Types, IkeTypes
      <3>2. [ikeUe[u] EXCEPT !.half = None,
              !.child = @ \cup {NewChildSA(ikeUe[u].half)}] \in IkeUe
        BY ZenonT(30), <2>2, <3>1 DEF IkeUe
      <3> QED
        BY Zenon, <1>3, <3>2 DEF CompleteChildSA, Types, IkeTypes
    <2>4. ikeTask' \in IkeTask
      BY Zenon, <1>3, <2>1 DEF CompleteChildSA, IkeTask
    <2> QED
      BY Zenon, <1>3, <2>3, <2>4
         DEF Types, IkeTypes, NgapTypes, CompleteChildSA, addrVars, ifVars, ngapVars
  <1>4. ASSUME NEW u \in Ue, HandleInformationalEsp(u) PROVE Types'
    <2> PICK c \in ikeUe[u].child : \E d \in Deletions({c}) :
               /\ ikeUe' = [ikeUe EXCEPT ![u].child = @ \ d.gone]
               /\ IfacesAfter(d) /\ hist' = Failing(d.failed)
      BY ZenonT(30), <1>4 DEF HandleInformationalEsp
    <2> PICK d \in Deletions({c}) :
               /\ ikeUe' = [ikeUe EXCEPT ![u].child = @ \ d.gone]
               /\ IfacesAfter(d) /\ hist' = Failing(d.failed)
      BY ZenonT(30)
    <2>1. ikeUe' \in [Ue -> IkeUe]
      <3>1. ikeUe \in [Ue -> IkeUe]
        BY Zenon DEF Types, IkeTypes
      <3>2. [ikeUe[u] EXCEPT !.child = ikeUe[u].child \ d.gone] \in IkeUe
        BY ONLY Zenon, <3>1, u \in Ue DEF IkeUe
      <3> QED
        BY Zenon, <3>1, <3>2
    <2>2. hist' \in Hist
      BY Zenon, FailingType DEF Types, NgapTypes
    <2> QED
      BY Zenon, <1>4, <2>1, <2>2
         DEF Types, IkeTypes, NgapTypes, HandleInformationalEsp, IfacesAfter, addrVars, ngapVars
  <1>5. ASSUME NEW u \in Ue, HandleInformationalAnswer(u) PROVE Types'
    BY ZenonT(30), <1>5
       DEF Types, IkeTypes, NgapTypes, IkeUe, HandleInformationalAnswer, addrVars, ifVars,
         ngapVars
  <1>6. ASSUME NEW u \in Ue, HandleInformationalIke(u) PROVE Types'
    <2> PICK d \in RemoveOutcomes(u) : Remove(u, d)
      BY Zenon, <1>6 DEF HandleInformationalIke
    <2> QED
      BY Zenon, <1>6, RemoveTypes DEF Types, IkeTypes, NgapTypes, HandleInformationalIke, ngapVars
  <1>7. ASSUME HandleCreatePDUSession PROVE Types'
    <2>1. ikeEvt' \in Seq(IkeEvt) /\ Head(ikeEvt).ue \in Ue
      BY Zenon, <1>7, TakenEvt DEF HandleCreatePDUSession, Types
    <2>2. Head(ikeEvt).pdu \in Unactivated
      BY <1>7, TakenEvt DEF HandleCreatePDUSession, Types, IkeEvt
    <2>3. ikeUe' \in [Ue -> IkeUe]
      BY ZenonT(60), <1>7, <2>2 DEF HandleCreatePDUSession, Types, IkeTypes, IkeUe
    <2> QED
      BY Zenon, <1>7, <2>1, <2>3
         DEF Types, IkeTypes, NgapTypes, HandleCreatePDUSession, addrVars, ifVars, ngapVars
  <1>8. ASSUME continueCreateChildSA PROVE Types'
    <2>1. ikeTask \in IkeTask /\ ikeTask' = None
      BY Zenon, <1>8 DEF continueCreateChildSA, Types, IkeTypes
    <2>2. hist' \in Hist
      BY ZenonT(30), <1>8, FailingType DEF continueCreateChildSA, Types, NgapTypes
    <2>3. XfrmIfaceIdOffsetForUP' \in Nat
      <3>1. (IF ikeTask.pdu.len > 1 THEN 1 ELSE 0) \in Nat
        BY Zenon
      <3>2. \/ UNCHANGED XfrmIfaceIdOffsetForUP
            \/ XfrmIfaceIdOffsetForUP'
                 = XfrmIfaceIdOffsetForUP + (IF ikeTask.pdu.len > 1 THEN 1 ELSE 0)
        BY <1>8, Zenon DEF continueCreateChildSA, ifVars
      <3> QED
        BY <3>1, <3>2 DEF Types, IkeTypes
    <2>4. ikeUe' \in [Ue -> IkeUe]
      <3>1. CASE UNCHANGED ikeUe
        BY Zenon, <3>1 DEF Types, IkeTypes
      <3>2. ASSUME NEW i \in Nat, NEW rules \in BOOLEAN, Connected(i, rules)
            PROVE  ikeUe' \in [Ue -> IkeUe]
        <4>1. [NewChildSA(ikeTask.pdu) EXCEPT !.iface = i, !.rules = rules] \in ChildSA
          BY ZenonT(30), <2>1, <3>2 DEF NewChildSA, ChildSA, Iface, IkeTask, Unactivated
        <4> QED
          BY ZenonT(60), <3>2, <4>1 DEF Connected, Types, IkeTypes, IkeUe
      <3>3. (IF ikeTask.pdu.len > 1 THEN XfrmIfaceIdOffsetForUP ELSE 0) \in Nat
        BY Zenon DEF Types, IkeTypes
      <3> QED
        BY ZenonT(30), <1>8, <3>1, <3>2, <3>3 DEF continueCreateChildSA
    <2> QED
      BY Zenon, <1>8, <2>1, <2>2, <2>3, <2>4
         DEF Types, IkeTypes, NgapTypes, continueCreateChildSA, addrVars, ngapVars
  <1>9. ASSUME HandleSendChildSADeleteRequest PROVE Types'
    <2> DEFINE e == Head(ikeEvt)
    <2>1. ikeEvt' \in Seq(IkeEvt) /\ e.ue \in Ue
      BY ZenonT(30), <1>9, TakenEvt DEF HandleSendChildSADeleteRequest, Types
    <2>2. hist' \in Hist /\ UNCHANGED XfrmIfaceIdOffsetForUP
      <3>1. UNCHANGED XfrmIfaceIdOffsetForUP /\ (UNCHANGED hist \/ \E x : hist' = Failing(x))
        BY <1>9, ZenonT(30) DEF HandleSendChildSADeleteRequest, ifVars, IfacesAfter
      <3> QED
        BY Zenon, <3>1, FailingType DEF Types, NgapTypes
    <2>3. ikeUe' \in [Ue -> IkeUe]
      <3>1. CASE UNCHANGED ikeUe
        BY <3>1 DEF Types, IkeTypes
      <3>2. ASSUME NEW d, ikeUe' = [ikeUe EXCEPT ![e.ue].child = @ \ d.gone,
                                         ![e.ue].asked = @ \/ d.result = "ok"]
            PROVE  ikeUe' \in [Ue -> IkeUe]
        <4>1. ikeUe[e.ue] \in IkeUe
          BY Zenon, <2>1 DEF Types, IkeTypes
        <4>2. ASSUME NEW x \in BOOLEAN
              PROVE  [ikeUe[e.ue] EXCEPT !.child = @ \ d.gone, !.asked = x] \in IkeUe
          BY ZenonT(30), <4>1 DEF IkeUe
        <4>3. (ikeUe[e.ue].asked \/ d.result = "ok") \in BOOLEAN
          BY Zenon
        <4>4. ikeUe' = [ikeUe EXCEPT ![e.ue] = [ikeUe[e.ue] EXCEPT !.child = @ \ d.gone,
                                                  !.asked = ikeUe[e.ue].asked \/ d.result = "ok"]]
          BY ZenonT(30), <2>1, <3>2, <4>1 DEF Types, IkeTypes, IkeUe
        <4> QED
          BY ZenonT(30), <2>1, <4>2, <4>3, <4>4 DEF Types, IkeTypes
      <3>3. ASSUME NEW d, ikeUe' = [ikeUe EXCEPT ![e.ue].child = @ \ d.gone]
            PROVE  ikeUe' \in [Ue -> IkeUe]
        BY ZenonT(60), <2>1, <3>3 DEF Types, IkeTypes, IkeUe
      <3> QED
        BY ZenonT(30), <1>9, <3>1, <3>2, <3>3 DEF HandleSendChildSADeleteRequest
    <2> QED
      BY ZenonT(30), <1>9, <2>1, <2>2, <2>3
         DEF Types, IkeTypes, NgapTypes, HandleSendChildSADeleteRequest, addrVars, ngapVars
  <1>10. ASSUME HandleIKEDeleteEvt PROVE Types'
    <2>1. ikeEvt' \in Seq(IkeEvt) /\ Head(ikeEvt).ue \in Ue
      BY Zenon, <1>10, TakenEvt DEF HandleIKEDeleteEvt, Types
    <2>2. CASE UNCHANGED <<ikeUe, addrVars, ifVars, hist>>
      BY Zenon, <1>10, <2>1, <2>2
         DEF Types, IkeTypes, NgapTypes, HandleIKEDeleteEvt, addrVars, ifVars, ngapVars
    <2>3. ASSUME NEW d, Remove(Head(ikeEvt).ue, d) PROVE Types'
      BY Zenon, <1>10, <2>1, <2>3, RemoveTypes DEF Types, IkeTypes, NgapTypes, HandleIKEDeleteEvt, ngapVars
    <2> QED
      BY Zenon, <1>10, <2>2, <2>3 DEF HandleIKEDeleteEvt
  <1> QED
    BY Zenon, <1>1, <1>2, <1>3, <1>4, <1>5, <1>6, <1>7, <1>8, <1>9, <1>10 DEF IkeLoop

\* Every handler of the NGAP loop keeps the types.
LEMMA NgapStepTypes == ASSUME Types, NgapLoop PROVE Types'
  <1>1. ASSUME NEW u \in Ue, RemoveRanUe(u)
        PROVE  ranUe' \in [Ue -> RanUe] /\ RANUePool' \subseteq Ue
                 /\ AllocatedUETEID' \in [Teid -> Ue \cup {None}]
    <2>1. NewRanUe \in RanUe
      BY Zenon DEF NewRanUe, RanUe
    <2> QED
      BY Zenon, <1>1, <2>1 DEF RemoveRanUe, Types, NgapTypes
  <1>2. ASSUME NEW u \in Ue, HandleUEContextReleaseCommand(u) PROVE Types'
    <2>1. ikeEvt' \in Seq(IkeEvt)
      BY <1>2 DEF HandleUEContextReleaseCommand, IkeEvt, Types, IkeTypes
    <2> QED
      BY Zenon, <1>1, <1>2, <2>1 DEF HandleUEContextReleaseCommand, Types, IkeTypes, NgapTypes, ikeVars
  <1>3. ASSUME NEW u \in Ue, HandleNGReset(u) PROVE Types'
    BY Zenon, <1>1, <1>3 DEF HandleNGReset, Types, IkeTypes, NgapTypes, ikeVars
  <1>5. ASSUME NEW u \in Ue, NEW ss, Drop(u, ss) PROVE hist' \in Hist
    <2>1. {ranUe[u].PduSessionList[s].teid : s \in ss \cap Active(u)} \subseteq Teid \cup {None}
      BY DEF Types, NgapTypes, RanUe, PDUSession, Active
    <2> QED
      BY Zenon, <1>5, <2>1 DEF Drop, Types, NgapTypes, Hist
  <1>6. ASSUME NEW u \in Ue, NEW s \in Session, CreatePDUSession(u, s) PROVE Types'
    <2>1. [teid |-> None] \in PDUSession
      BY Zenon DEF PDUSession
    <2>2. ranUe' \in [Ue -> RanUe]
      BY ZenonT(30), <1>6, <2>1 DEF CreatePDUSession, Types, NgapTypes, RanUe
    <2>3. hist' \in Hist
      <3>1. ASSUME NEW x \in BOOLEAN PROVE [hist EXCEPT !.setups = @ + 1, !.again = x] \in Hist
        <4>1. [hist EXCEPT !.setups = hist.setups + 1] \in Hist
          BY DEF Types, NgapTypes, Hist
        <4>2. ASSUME NEW h \in Hist PROVE [h EXCEPT !.again = x] \in Hist
          BY Zenon, <3>1, <4>2 DEF Hist
        <4> QED
          BY ZenonT(30), <4>1, <4>2
      <3>2. (hist.again \/ s \in ranUe[u].used) \in BOOLEAN
        BY Zenon
      <3> QED
        BY ZenonT(30), <1>6, <3>1, <3>2 DEF CreatePDUSession
    <2> QED
      BY Zenon, <1>6, <2>2, <2>3 DEF CreatePDUSession, Types, IkeTypes, NgapTypes, NgapTask, ikeVars
  <1>7. ASSUME NEW u \in Ue, NEW s \in Session, HandlePDUSessionResourceReleaseCommand(u, s)
        PROVE  Types'
    <2>1. ranUe' \in [Ue -> RanUe]
      <3>1. ASSUME NEW x \in BOOLEAN
            PROVE  [ranUe EXCEPT ![u].PduSessionList[s] = None,
                     ![u].PduSessResRelState = x] \in [Ue -> RanUe]
        BY ZenonT(30), <3>1 DEF Types, NgapTypes, RanUe
      <3>2. (ranUe[u].PduSessResRelState \/ u \in NGAPIdToIKESPI) \in BOOLEAN
        BY Zenon
      <3>3. ranUe' = [ranUe EXCEPT ![u].PduSessionList[s] = None,
                        ![u].PduSessResRelState =
                           ranUe[u].PduSessResRelState \/ u \in NGAPIdToIKESPI]
        BY Zenon, <1>7 DEF HandlePDUSessionResourceReleaseCommand, Types, NgapTypes, RanUe
      <3> QED
        BY ZenonT(30), <3>1, <3>2, <3>3
    <2>2. ikeEvt' \in Seq(IkeEvt)
      BY <1>7 DEF HandlePDUSessionResourceReleaseCommand, IkeEvt, Types, IkeTypes
    <2>3. hist' \in Hist
      BY Zenon, <1>5, <1>7 DEF HandlePDUSessionResourceReleaseCommand
    <2> QED
      BY Zenon, <1>7, <2>1, <2>2, <2>3
         DEF HandlePDUSessionResourceReleaseCommand, Types, IkeTypes, NgapTypes, ikeVars
  <1>8. ASSUME HandlePDUSessionResourceSetupRequest PROVE Types'
    <2> DEFINE u == ngapTask.ue
               s == ngapTask.session
    <2>1. u \in Ue /\ s \in Session
      BY Zenon, <1>8 DEF HandlePDUSessionResourceSetupRequest, Types, NgapTypes, NgapTask
    <2>2. Cardinality(Active(u)) \in {Cardinality(S) : S \in SUBSET Session}
      BY Zenon DEF Active
    <2>3. ASSUME NEW t \in Teid, NewTEID(u, t),
                 ranUe' = [ranUe EXCEPT ![u].PduSessionList[s] = [teid |-> t]],
                 ikeEvt' = IF u \in NGAPIdToIKESPI
                           THEN Append(ikeEvt, [type |-> "CreatePDUSession", ue |-> u,
                                  pdu |-> [session |-> s, teid |-> t,
                                    len |-> Cardinality(Active(u))]])
                           ELSE ikeEvt,
                 hist' = [hist EXCEPT !.reused = @ \/ upf[t] # None]
          PROVE  Types'
      <3>1. [type |-> "CreatePDUSession", ue |-> u,
             pdu |-> [session |-> s, teid |-> t, len |-> Cardinality(Active(u))]] \in IkeEvt
        BY Zenon, <2>1, <2>2 DEF IkeEvt, Unactivated
      <3>2. ikeEvt' \in Seq(IkeEvt)
        BY <2>3, <3>1 DEF Types, IkeTypes
      <3>3. [teid |-> t] \in PDUSession
        BY Zenon DEF PDUSession
      <3>4. ranUe' \in [Ue -> RanUe]
        BY ZenonT(30), <2>1, <2>3, <3>3 DEF Types, NgapTypes, RanUe
      <3>5. AllocatedUETEID' \in [Teid -> Ue \cup {None}]
        BY Zenon, <2>1, <2>3 DEF NewTEID, Types, NgapTypes
      <3>6. hist' \in Hist
        BY ZenonT(30), <2>3 DEF Types, NgapTypes, Hist
      <3> QED
        BY Zenon, <1>8, <3>2, <3>4, <3>5, <3>6
           DEF HandlePDUSessionResourceSetupRequest, Types, IkeTypes, NgapTypes, ikeVars
    <2>4. CASE /\ ranUe' = [ranUe EXCEPT ![u].PduSessionList[s] = None]
               /\ hist' = Failing(FreeTeid # {})
               /\ UNCHANGED <<AllocatedUETEID, nextTeid, ikeEvt>>
      <3>1. ranUe' \in [Ue -> RanUe]
        BY ZenonT(30), <2>1, <2>4 DEF Types, NgapTypes, RanUe
      <3>2. hist' \in Hist
        BY Zenon, <2>4, FailingType DEF Types, NgapTypes
      <3> QED
        BY Zenon, <1>8, <2>4, <3>1, <3>2
           DEF HandlePDUSessionResourceSetupRequest, Types, IkeTypes, NgapTypes, ikeVars
    <2> QED
      BY ZenonT(30), <1>8, <2>3, <2>4 DEF HandlePDUSessionResourceSetupRequest
  <1>9. ASSUME HandleSendPDUSessionResourceSetupResponse PROVE Types'
    BY Zenon, <1>9
       DEF HandleSendPDUSessionResourceSetupResponse, Types, IkeTypes, NgapTypes, ikeVars, ngapVars
  <1>10. ASSUME HandleSendPDUSessionResourceRelease PROVE Types'
    <2> DEFINE e == Head(ngapEvt)
    <2>1. CASE UNCHANGED <<ranUe, hist>>
      BY Zenon, <1>10, <2>1 DEF HandleSendPDUSessionResourceRelease, Types, IkeTypes, NgapTypes, ikeVars
    <2>2. CASE ranUe' = [ranUe EXCEPT ![e.ue].PduSessResRelState = FALSE] /\ UNCHANGED hist
      <3>1. ranUe' \in [Ue -> RanUe]
        BY ZenonT(30), <2>2 DEF Types, NgapTypes, RanUe
      <3> QED
        BY Zenon, <1>10, <2>2, <3>1
           DEF HandleSendPDUSessionResourceRelease, Types, IkeTypes, NgapTypes, ikeVars
    <2>3. CASE /\ e.ue \in RANUePool
               /\ ranUe' = [ranUe EXCEPT
                         ![e.ue].PduSessResRelState = TRUE,
                         ![e.ue].PduSessionList =
                            [s \in Session |-> IF s = e.session THEN None ELSE @[s]]]
               /\ Drop(e.ue, {e.session})
      <3>1. e.ue \in Ue
        BY Zenon, <2>3 DEF Types, NgapTypes
      <3>2. [s \in Session |-> IF s = e.session THEN None ELSE ranUe[e.ue].PduSessionList[s]]
                \in [Session -> PDUSession \cup {None}]
        BY <3>1 DEF Types, NgapTypes, RanUe
      <3>3. ranUe' \in [Ue -> RanUe]
        <4> DEFINE l == [s \in Session |-> IF s = e.session THEN None
                          ELSE ranUe[e.ue].PduSessionList[s]]
        <4>1. ranUe' = [ranUe EXCEPT ![e.ue] = [@ EXCEPT !.PduSessResRelState = TRUE,
                !.PduSessionList = l]]
          BY ZenonT(30), <2>3, <3>1 DEF Types, NgapTypes, RanUe
        <4>2. l \in [Session -> PDUSession \cup {None}]
          BY Zenon, <3>2
        <4> HIDE DEF l
        <4>3. [ranUe[e.ue] EXCEPT !.PduSessResRelState = TRUE, !.PduSessionList = l] \in RanUe
          <5>1. [ranUe[e.ue] EXCEPT !.PduSessResRelState = TRUE] \in RanUe
            BY ZenonT(60), <3>1 DEF Types, NgapTypes, RanUe
          <5>2. ASSUME NEW r \in RanUe PROVE [r EXCEPT !.PduSessionList = l] \in RanUe
            BY Zenon, <4>2, <5>2 DEF RanUe
          <5> QED
            BY ZenonT(30), <5>1, <5>2
        <4> QED
          BY Zenon, <3>1, <4>1, <4>3 DEF Types, NgapTypes
      <3>4. hist' \in Hist
        BY Zenon, <1>5, <2>3, <3>1
      <3> QED
        BY Zenon, <1>10, <3>3, <3>4
           DEF HandleSendPDUSessionResourceRelease, Types, IkeTypes, NgapTypes, ikeVars
    <2> QED
      BY Zenon, <1>10, <2>1, <2>2, <2>3 DEF HandleSendPDUSessionResourceRelease
  <1> QED
    BY Zenon, <1>2, <1>3, <1>6, <1>7, <1>8, <1>9, <1>10 DEF NgapLoop

\* The user plane (nwuup) only reads the control plane's state: no step of forwardUL, forwardDL
\* or a listener changes a UE, a session, an address, a TEID or an event channel.
LEMMA UserPlaneStepKeeps ==
    ASSUME UserPlaneStep
    PROVE  UNCHANGED <<ikeVars, ngapVars, ikeEvt, ngapEvt, upf, hist>>
  BY ZenonT(30) DEF UserPlaneStep, greListenAndServe, handleQoSTPDU, forwardUL_ran, forwardUL,
         forwardDL_ike, forwardDL, At

\* The types hold in every reachable state, for every set of UEs, sessions, addresses and TEIDs.
THEOREM Typed == Spec => []Types
  <1>1. Types /\ [Next]_vars => Types'
    <2> SUFFICES ASSUME Types, [Next]_vars PROVE Types'
      BY Zenon
    <2>1. CASE UserPlaneStep
      BY Zenon, <2>1, UserPlaneStepKeeps DEF Types, IkeTypes, NgapTypes, ikeVars, ngapVars
    <2>2. CASE UNCHANGED vars
      BY Zenon, <2>2 DEF Types, IkeTypes, NgapTypes, vars
    <2> QED
      BY Zenon, <2>1, <2>2, IkeStepTypes, NgapStepTypes DEF Next
  <1> QED
    BY InitTypes, <1>1, PTL DEF Spec

-----------------------------------------------------------------------------
(* Inner addresses.                                                        *)

\* Before its child SA for signalling is set up, a UE remembers no inner address.
NoAddressYet == \A u \in Ue : ikeUe[u].auth \in {"unused", "eap"} => ikeUe[u].IPSecInnerIP = None

\* The inductive invariant for addresses.
AddrInv == Types /\ NoAddressYet /\ AddressOwned

\* A step that neither allocates nor releases an address, nor ends an IKE SA.
SameAddresses ==
    /\ \A u \in Ue : /\ ikeUe'[u].sa = ikeUe[u].sa
                     /\ ikeUe'[u].auth = ikeUe[u].auth
                     /\ ikeUe'[u].IPSecInnerIP = ikeUe[u].IPSecInnerIP
    /\ UNCHANGED <<AllocatedUEIPAddress, free>>
    /\ hist'.twice = hist.twice

\* Such a step keeps the invariant.
LEMMA SameAddressesKeep == ASSUME AddrInv, Types', SameAddresses PROVE AddrInv'
  <1>1. NoAddressYet'
    BY Zenon DEF AddrInv, NoAddressYet, SameAddresses
  <1>2. AddressOwned'
    <2> SUFFICES ASSUME ~hist.twice PROVE AddressOwned'
      BY Zenon DEF AddressOwned, SameAddresses
    <2>1. ASSUME NEW u \in Ue, ikeUe'[u].sa, ikeUe'[u].IPSecInnerIP # None
          PROVE  /\ AllocatedUEIPAddress'[ikeUe'[u].IPSecInnerIP] = u
                 /\ ikeUe'[u].IPSecInnerIP \notin free' \cup {Gateway}
      BY <2>1 DEF AddrInv, AddressOwned, SameAddresses
    <2>2. ASSUME NEW a \in Addr, AllocatedUEIPAddress'[a] # None
          PROVE  LET u == AllocatedUEIPAddress'[a] IN ikeUe'[u].sa /\ ikeUe'[u].IPSecInnerIP = a
      BY Zenon, <2>2 DEF AddrInv, AddressOwned, SameAddresses, Types, IkeTypes
    <2> QED
      BY Zenon, <2>1, <2>2 DEF AddressOwned
  <1> QED
    BY Zenon, <1>1, <1>2 DEF AddrInv

\* N3IWFIkeUe.Remove releases the address the UE remembers.  The first removal releases the
\* UE's own; a second one, after a failed deletion, is recorded in hist.twice.
LEMMA RemoveKeeps ==
    ASSUME AddrInv, NEW u \in Ue, NEW d, Remove(u, d)
    PROVE  NoAddressYet' /\ AddressOwned'
  <1> DEFINE ip == ikeUe[u].IPSecInnerIP
  <1>1. \A v \in Ue \ {u} : ikeUe'[v] = ikeUe[v]
    BY Zenon DEF Remove, AddrInv, Types, IkeTypes
  <1>2. /\ ~ikeUe'[u].sa
        /\ ikeUe'[u].auth = "gone" \/ (ikeUe'[u].auth = ikeUe[u].auth
             /\ ikeUe'[u].IPSecInnerIP = ip)
    <2>1. CASE d.result = "ok"
      BY Zenon, <2>1 DEF Remove, AddrInv, Types, IkeTypes, NewIkeUe
    <2>2. CASE d.result # "ok"
      BY Zenon, <2>2 DEF Remove, AddrInv, Types, IkeTypes, IkeUe
    <2> QED
      BY Zenon, <2>1, <2>2
  <1>3. /\ AllocatedUEIPAddress' = [a \in Addr |-> IF a = ip THEN None ELSE AllocatedUEIPAddress[a]]
        /\ free' = IF ip = None THEN free ELSE free \cup {ip}
    BY Zenon DEF Remove
  <1>4. hist'.twice = (hist.twice \/ ~ikeUe[u].sa)
    <2>1. Failing(d.failed) \in Hist /\ Failing(d.failed).twice = hist.twice
      BY Zenon, FailingType DEF AddrInv, Types, NgapTypes
    <2> QED
      BY Zenon, <2>1 DEF Remove, Hist
  <1>5. NoAddressYet'
    BY Zenon, <1>1, <1>2 DEF AddrInv, NoAddressYet
  <1>6. AddressOwned'
    <2> SUFFICES ASSUME ~hist.twice, ikeUe[u].sa PROVE AddressOwned'
      BY ZenonT(30), <1>4 DEF AddressOwned
    <2>1. ASSUME NEW v \in Ue, ikeUe'[v].sa, ikeUe'[v].IPSecInnerIP # None
          PROVE  /\ AllocatedUEIPAddress'[ikeUe'[v].IPSecInnerIP] = v
                 /\ ikeUe'[v].IPSecInnerIP \notin free' \cup {Gateway}
      <3>1. v # u /\ ikeUe'[v] = ikeUe[v]
        BY Zenon, <1>1, <1>2, <2>1
      <3>2. ikeUe[v].IPSecInnerIP \in Addr
        BY Zenon, <2>1, <3>1 DEF AddrInv, Types, IkeTypes, IkeUe
      <3>3. ikeUe[v].IPSecInnerIP # ip
        BY <2>1, <3>1, <3>2 DEF AddrInv, AddressOwned
      <3> QED
        BY Zenon, <1>3, <2>1, <3>1, <3>2, <3>3 DEF AddrInv, AddressOwned
    <2>2. ASSUME NEW a \in Addr, AllocatedUEIPAddress'[a] # None
          PROVE  LET w == AllocatedUEIPAddress'[a] IN ikeUe'[w].sa /\ ikeUe'[w].IPSecInnerIP = a
      <3>1. a # ip /\ AllocatedUEIPAddress'[a] = AllocatedUEIPAddress[a]
        BY Zenon, <1>3, <2>2
      <3>2. AllocatedUEIPAddress[a] \in Ue
        BY Zenon, <2>2, <3>1 DEF AddrInv, Types, IkeTypes
      <3> QED
        BY <1>1, <2>2, <3>1, <3>2 DEF AddrInv, AddressOwned
    <2> QED
      BY Zenon, <2>1, <2>2 DEF AddressOwned
  <1> QED
    BY Zenon, <1>5, <1>6

\* A new UE starts with an IKE SA and no address.
LEMMA RegisterKeepsAddr ==
    ASSUME AddrInv, NEW u \in Ue, Register(u)
    PROVE  NoAddressYet' /\ AddressOwned'
  <1>1. \A v \in Ue \ {u} : ikeUe'[v] = ikeUe[v]
    BY Zenon DEF Register, AddrInv, Types, IkeTypes
  <1>2. ikeUe'[u].IPSecInnerIP = None /\ ikeUe[u].IPSecInnerIP = None
    BY Zenon DEF Register, AddrInv, Types, IkeTypes, NewIkeUe, NoAddressYet
  <1>3. UNCHANGED <<AllocatedUEIPAddress, free, hist>>
    BY Zenon DEF Register, addrVars
  <1>4. NoAddressYet'
    BY Zenon, <1>1, <1>2 DEF AddrInv, NoAddressYet
  <1>5. \A a \in Addr : a # None
    BY Zenon, UserPlaneAssumption
  <1>6. AddressOwned'
    <2> SUFFICES ASSUME ~hist.twice PROVE AddressOwned'
      BY Zenon, <1>3 DEF AddressOwned
    <2>1. ASSUME NEW v \in Ue, ikeUe'[v].sa, ikeUe'[v].IPSecInnerIP # None
          PROVE  /\ AllocatedUEIPAddress'[ikeUe'[v].IPSecInnerIP] = v
                 /\ ikeUe'[v].IPSecInnerIP \notin free' \cup {Gateway}
      BY Zenon, <1>1, <1>2, <1>3, <2>1 DEF AddrInv, AddressOwned
    <2>2. ASSUME NEW a \in Addr, AllocatedUEIPAddress'[a] # None
          PROVE  LET w == AllocatedUEIPAddress'[a] IN ikeUe'[w].sa /\ ikeUe'[w].IPSecInnerIP = a
      <3>1. AllocatedUEIPAddress[a] \in Ue
        BY Zenon, <1>3, <2>2 DEF AddrInv, Types, IkeTypes
      <3> QED
        BY SMTT(30), <1>1, <1>2, <1>3, <1>5, <2>2, <3>1 DEF AddrInv, AddressOwned
    <2> QED
      BY Zenon, <2>1, <2>2 DEF AddressOwned
  <1> QED
    BY Zenon, <1>4, <1>6

\* IKE_AUTH gives the UE an address that was free and unregistered (NewIPsecInnerUEIP), or fails
\* with the pool empty.
LEMMA IkeAuthKeepsAddr ==
    ASSUME AddrInv, NEW u \in Ue, HandleIKEAUTH(u)
    PROVE  NoAddressYet' /\ AddressOwned'
  <1>0. ikeUe[u].sa /\ ikeUe[u].IPSecInnerIP = None
    BY ZenonT(30) DEF HandleIKEAUTH, AddrInv, NoAddressYet
  <1>t. \A a \in Addr : a # None
    BY UserPlaneAssumption
  <1>1. CASE /\ free' = {} /\ ikeUe' = [ikeUe EXCEPT ![u].auth = "failed"]
             /\ UNCHANGED <<AllocatedUEIPAddress, hist>>
    <2>1. \A v \in Ue : ikeUe'[v].sa = ikeUe[v].sa /\ ikeUe'[v].IPSecInnerIP = ikeUe[v].IPSecInnerIP
      BY Zenon, <1>1 DEF AddrInv, Types, IkeTypes, IkeUe
    <2>2. \A v \in Ue : v # u => ikeUe'[v] = ikeUe[v]
      BY Zenon, <1>1 DEF AddrInv, Types, IkeTypes
    <2>3. NoAddressYet'
      BY Zenon, <1>0, <2>1, <2>2 DEF AddrInv, NoAddressYet
    <2>4. AddressOwned'
      <3> SUFFICES ASSUME ~hist.twice PROVE AddressOwned'
        BY Zenon, <1>1 DEF AddressOwned
      <3>1. ASSUME NEW v \in Ue, ikeUe'[v].sa, ikeUe'[v].IPSecInnerIP # None
            PROVE  /\ AllocatedUEIPAddress'[ikeUe'[v].IPSecInnerIP] = v
                   /\ ikeUe'[v].IPSecInnerIP \notin free' \cup {Gateway}
        BY <1>1, <2>1, <3>1 DEF AddrInv, AddressOwned
      <3>2. ASSUME NEW a \in Addr, AllocatedUEIPAddress'[a] # None
            PROVE  LET w == AllocatedUEIPAddress'[a] IN ikeUe'[w].sa /\ ikeUe'[w].IPSecInnerIP = a
        <4>1. AllocatedUEIPAddress[a] \in Ue
          BY Zenon, <1>1, <3>2 DEF AddrInv, Types, IkeTypes
        <4> QED
          BY <1>1, <2>1, <3>2, <4>1 DEF AddrInv, AddressOwned
      <3> QED
        BY <3>1, <3>2 DEF AddressOwned
    <2> QED
      BY <2>3, <2>4
  <1>2. ASSUME NEW a \in Addr, NEW auth \in {"done", "failed"}, NEW child, NewIPsecInnerUEIP(u, a),
               hist'.twice = hist.twice,
               ikeUe' = [ikeUe EXCEPT ![u].auth = auth, ![u].IPSecInnerIP = a, ![u].child = child]
        PROVE  NoAddressYet' /\ AddressOwned'
    <2>1. ikeUe'[u].auth = auth /\ ikeUe'[u].IPSecInnerIP = a /\ ikeUe'[u].sa
      BY Zenon, <1>0, <1>2 DEF AddrInv, Types, IkeTypes, IkeUe
    <2>2. \A v \in Ue : v # u => ikeUe'[v] = ikeUe[v]
      BY Zenon, <1>2 DEF AddrInv, Types, IkeTypes
    <2>3. NoAddressYet'
      BY ZenonT(30), <1>2, <2>1, <2>2 DEF AddrInv, NoAddressYet
    <2>4. /\ AllocatedUEIPAddress' = [AllocatedUEIPAddress EXCEPT ![a] = u]
          /\ free' \subseteq free \ {a} /\ a # Gateway /\ AllocatedUEIPAddress[a] = None
      BY Zenon, <1>2 DEF NewIPsecInnerUEIP, Unusable
    <2>5. AddressOwned'
      <3> SUFFICES ASSUME ~hist.twice PROVE AddressOwned'
        BY ZenonT(30), <1>2 DEF AddressOwned
      <3>1. ASSUME NEW v \in Ue, ikeUe'[v].sa, ikeUe'[v].IPSecInnerIP # None
            PROVE  /\ AllocatedUEIPAddress'[ikeUe'[v].IPSecInnerIP] = v
                   /\ ikeUe'[v].IPSecInnerIP \notin free' \cup {Gateway}
        <4>1. CASE v = u
          BY Zenon, <2>1, <2>4, <4>1 DEF AddrInv, Types, IkeTypes
        <4>2. CASE v # u
          <5>1. ikeUe[v].sa /\ ikeUe[v].IPSecInnerIP # None 
                  /\ ikeUe'[v].IPSecInnerIP = ikeUe[v].IPSecInnerIP
            BY Zenon, <2>2, <3>1, <4>2
          <5>2. ikeUe[v].IPSecInnerIP \in Addr
            BY Zenon, <5>1 DEF AddrInv, Types, IkeTypes, IkeUe
          <5>3. AllocatedUEIPAddress[ikeUe[v].IPSecInnerIP] = v
                  /\ ikeUe[v].IPSecInnerIP \notin free \cup {Gateway}
            BY Zenon, <5>1 DEF AddrInv, AddressOwned
          <5>4. v # None
            BY Zenon, UserPlaneAssumption
          <5> QED
            BY Zenon, <2>4, <5>1, <5>2, <5>3, <5>4 DEF AddrInv, Types, IkeTypes
        <4> QED
          BY Zenon, <4>1, <4>2
      <3>2. ASSUME NEW b \in Addr, AllocatedUEIPAddress'[b] # None
            PROVE  LET w == AllocatedUEIPAddress'[b] IN ikeUe'[w].sa /\ ikeUe'[w].IPSecInnerIP = b
        <4>1. CASE b = a
          BY Zenon, <2>1, <2>4, <4>1 DEF AddrInv, Types, IkeTypes
        <4>2. CASE b # a
          <5>1. AllocatedUEIPAddress'[b] = AllocatedUEIPAddress[b] /\ AllocatedUEIPAddress[b] \in Ue
            BY Zenon, <2>4, <3>2, <4>2 DEF AddrInv, Types, IkeTypes
          <5>2. ikeUe[AllocatedUEIPAddress[b]].sa /\ ikeUe[AllocatedUEIPAddress[b]].IPSecInnerIP = b
            BY Zenon, <3>2, <5>1 DEF AddrInv, AddressOwned
          <5>3. AllocatedUEIPAddress[b] # u
            BY Zenon, <1>0, <1>t, <5>2
          <5> QED
            BY Zenon, <2>2, <5>1, <5>2, <5>3
        <4> QED
          BY Zenon, <4>1, <4>2
      <3> QED
        BY Zenon, <3>1, <3>2 DEF AddressOwned
    <2> QED
      BY Zenon, <2>3, <2>5
  <1>3. ASSUME NEW x PROVE Failing(x).twice = hist.twice
    BY Zenon, FailingType DEF AddrInv, Types, NgapTypes
  <1> QED
    BY ZenonT(60), <1>1, <1>2, <1>3 DEF HandleIKEAUTH

\* The child SA handlers of the IKE loop leave the addresses alone.
LEMMA OtherIkeStepsKeepAddr ==
    ASSUME Types,
           \/ HandleCreatePDUSession \/ continueCreateChildSA \/ HandleSendChildSADeleteRequest
           \/ \E u \in Ue : CompleteChildSA(u) \/ HandleInformationalEsp(u)
                \/ HandleInformationalAnswer(u)
    PROVE  SameAddresses
  <1> USE DEF SameAddresses
  <1>t. ikeUe \in [Ue -> IkeUe] /\ hist \in Hist
    BY Zenon DEF Types, IkeTypes, NgapTypes
  <1>f. ASSUME NEW x PROVE Failing(x).twice = hist.twice
    BY Zenon, <1>t, FailingType
  <1>1. CASE HandleCreatePDUSession
    BY Zenon, <1>t, <1>1 DEF HandleCreatePDUSession, addrVars, IkeUe
  <1>2. CASE continueCreateChildSA
    <2>1. UNCHANGED addrVars /\ hist'.twice = hist.twice
      BY ZenonT(30), <1>f, <1>2 DEF continueCreateChildSA
    <2>2. UNCHANGED ikeUe \/ \E u, cs : ikeUe' = [ikeUe EXCEPT ![u].child = cs]
      BY <1>2, Zenon DEF continueCreateChildSA, Connected
    <2> QED
      BY SMTT(30), <1>t, <2>1, <2>2 DEF addrVars, IkeUe
  <1>3. CASE HandleSendChildSADeleteRequest
    <2>1. UNCHANGED addrVars /\ (UNCHANGED hist \/ \E x : hist' = Failing(x))
      BY <1>3, Zenon DEF HandleSendChildSADeleteRequest
    <2>2. \/ UNCHANGED ikeUe
          \/ \E u, cs : ikeUe' = [ikeUe EXCEPT ![u].child = cs]
          \/ \E u, cs, b : ikeUe' = [ikeUe EXCEPT ![u].child = cs, ![u].asked = b]
      BY ZenonT(30), <1>3 DEF HandleSendChildSADeleteRequest
    <2>3. ASSUME NEW u, NEW cs, NEW b, ikeUe' = [ikeUe EXCEPT ![u].child = cs, ![u].asked = b],
                   NEW v \in Ue
          PROVE  /\ ikeUe'[v].sa = ikeUe[v].sa /\ ikeUe'[v].auth = ikeUe[v].auth
                 /\ ikeUe'[v].IPSecInnerIP = ikeUe[v].IPSecInnerIP
      <3>1. CASE v # u
        BY Zenon, <1>t, <2>3, <3>1
      <3>2. CASE v = u
        <4>1. ikeUe'[v] = [ikeUe[v] EXCEPT !.child = cs, !.asked = b]
          BY Zenon, <1>t, <2>3, <3>2 DEF IkeUe
        <4>2. ikeUe[v] \in IkeUe
          BY Zenon, <1>t
        <4> QED
          BY Zenon, <4>1, <4>2 DEF IkeUe
      <3> QED
        BY Zenon, <3>1, <3>2
    <2>4. hist'.twice = hist.twice
      BY Zenon, <1>f, <2>1
    <2>5. \A v \in Ue : /\ ikeUe'[v].sa = ikeUe[v].sa /\ ikeUe'[v].auth = ikeUe[v].auth
                       /\ ikeUe'[v].IPSecInnerIP = ikeUe[v].IPSecInnerIP
      <3>1. CASE \E u, cs : ikeUe' = [ikeUe EXCEPT ![u].child = cs]
        BY <1>t, <3>1 DEF IkeUe
      <3> QED
        BY ZenonT(30), <2>2, <2>3, <3>1
    <2> QED
      BY Zenon, <2>1, <2>4, <2>5 DEF addrVars
  <1>4. ASSUME NEW u \in Ue, CompleteChildSA(u) PROVE SameAddresses
    BY Zenon, <1>t, <1>4 DEF CompleteChildSA, addrVars, IkeUe
  <1>5. ASSUME NEW u \in Ue, HandleInformationalEsp(u) PROVE SameAddresses
    <2>1. UNCHANGED addrVars /\ (\E x : hist' = Failing(x))
            /\ \E cs : ikeUe' = [ikeUe EXCEPT ![u].child = cs]
      BY <1>5, Zenon DEF HandleInformationalEsp
    <2> QED
      BY <1>t, <1>f, <2>1 DEF addrVars, IkeUe
  <1>6. ASSUME NEW u \in Ue, HandleInformationalAnswer(u) PROVE SameAddresses
    BY <1>t, <1>6 DEF HandleInformationalAnswer, addrVars, IkeUe
  <1> QED
    BY Zenon, <1>1, <1>2, <1>3, <1>4, <1>5, <1>6

\* So does the NGAP loop: a RAN UE's removal releases TEIDs, never an address.
LEMMA NgapStepsKeepAddr == ASSUME AddrInv, NgapLoop PROVE SameAddresses
  <1>1. UNCHANGED ikeVars
    BY ZenonT(30) DEF NgapLoop, HandleUEContextReleaseCommand, HandleNGReset, CreatePDUSession,
           HandlePDUSessionResourceReleaseCommand, HandlePDUSessionResourceSetupRequest,
           HandleSendPDUSessionResourceSetupResponse, HandleSendPDUSessionResourceRelease
  <1>2. hist'.twice = hist.twice
    <2>t. hist \in Hist
      BY Zenon DEF AddrInv, Types, NgapTypes
    <2>1. \/ UNCHANGED hist
          \/ \E x : hist' = Failing(x)
          \/ \E x : hist' = [hist EXCEPT !.leaked = x]
          \/ \E x : hist' = [hist EXCEPT !.reused = x]
          \/ \E x, y : hist' = [hist EXCEPT !.setups = x, !.again = y]
      BY ZenonT(30) DEF NgapLoop, HandleUEContextReleaseCommand, HandleNGReset, CreatePDUSession,
           HandlePDUSessionResourceReleaseCommand, HandlePDUSessionResourceSetupRequest,
           HandleSendPDUSessionResourceSetupResponse, HandleSendPDUSessionResourceRelease, Drop
    <2> QED
      BY ZenonT(30), <2>t, <2>1, FailingType DEF Hist
  <1> QED
    BY Zenon, <1>1, <1>2 DEF SameAddresses, ikeVars

\* The address invariant holds initially and is kept by every step.
LEMMA AddrInvAlways == Spec => []AddrInv
  <1>1. Init => AddrInv
    <2> SUFFICES ASSUME Init PROVE AddrInv
      OBVIOUS
    <2>1. \A u \in Ue : ikeUe[u].IPSecInnerIP = None
      BY ZenonT(30) DEF Init, NewIkeUe
    <2>2. AddressOwned
      BY Zenon, <2>1 DEF Init, AddressOwned
    <2> QED
      BY Zenon, <2>1, <2>2, InitTypes DEF AddrInv, NoAddressYet
  <1>2. AddrInv /\ Types' /\ [Next]_vars => AddrInv'
    <2> SUFFICES ASSUME AddrInv, Types', [Next]_vars PROVE AddrInv'
      BY Zenon
    <2>1. CASE UserPlaneStep \/ UNCHANGED vars
      <3>1. UNCHANGED <<ikeVars, hist>>
        BY Zenon, <2>1, UserPlaneStepKeeps DEF vars, ikeVars
      <3> QED
        BY Zenon, <3>1, SameAddressesKeep DEF SameAddresses, ikeVars
    <2>2. CASE NgapLoop
      BY Zenon, <2>2, NgapStepsKeepAddr, SameAddressesKeep
    <2>3. ASSUME NEW u \in Ue, Register(u) \/ HandleIKEAUTH(u) \/ HandleInformationalIke(u)
          PROVE  AddrInv'
      BY Zenon, <2>3, RegisterKeepsAddr, IkeAuthKeepsAddr, RemoveKeeps
         DEF AddrInv, HandleInformationalIke
    <2>4. CASE HandleIKEDeleteEvt
      <3>1. Head(ikeEvt).ue \in Ue
        BY Zenon, <2>4, TakenEvt DEF HandleIKEDeleteEvt, AddrInv, Types
      <3>2. CASE UNCHANGED <<ikeUe, addrVars, hist>>
        BY Zenon, <3>2, SameAddressesKeep DEF SameAddresses, addrVars
      <3>3. ASSUME NEW d, Remove(Head(ikeEvt).ue, d) PROVE AddrInv'
        BY Zenon, <3>1, <3>3, RemoveKeeps DEF AddrInv
      <3> QED
        BY Zenon, <2>4, <3>2, <3>3 DEF HandleIKEDeleteEvt
    <2> QED
      BY Zenon, <2>1, <2>2, <2>3, <2>4, OtherIkeStepsKeepAddr, SameAddressesKeep DEF AddrInv, Next, IkeLoop
  <1> QED
    BY <1>1, <1>2, Typed, PTL DEF Spec

\* In every reachable state of every instance, unless some UE was removed twice, the inner
\* address of a UE with an IKE SA is registered for that UE alone, taken from the pool and not
\* the gateway's, and no address stays registered for a UE without it (NewIPsecInnerUEIP, Remove).
THEOREM AddressOwnedAlways == Spec => []AddressOwned
  <1>1. AddrInv => AddressOwned
    BY Zenon DEF AddrInv
  <1> QED
    BY <1>1, AddrInvAlways, PTL

-----------------------------------------------------------------------------
(* TEIDs.                                                                  *)

\* The session the setup handler is working on is listed, without a TEID, by a RAN UE of the
\* pool: CreatePDUSession stored it, and nothing runs on the NGAP loop in between.
PendingInPool ==
    ngapTask # None => /\ ngapTask.ue \in RANUePool
                       /\ ranUe[ngapTask.ue].PduSessionList[ngapTask.session] = [teid |-> None]

\* A RAN UE of the pool was registered: its number is not given to a new UE.
UsedInPool == \A u \in RANUePool : ikeUe[u].auth # "unused"

\* The inductive invariant for TEIDs.
TeidInv == Types /\ PendingInPool /\ UsedInPool /\ TeidOwned

\* What an NGAP step may do to keep TeidOwned: sessions only leave the lists, and the
\* TEID of one that does is recorded as leaked.
SessionsLeave ==
    /\ UNCHANGED <<RANUePool, AllocatedUETEID>>
    /\ hist.leaked \subseteq hist'.leaked
    /\ \A u \in RANUePool, s \in Session :
          \/ ranUe'[u].PduSessionList[s] = ranUe[u].PduSessionList[s]
          \/ /\ ranUe'[u].PduSessionList[s] \in {None, [teid |-> None]}
             /\ ranUe[u].PduSessionList[s] # None /\ ranUe[u].PduSessionList[s].teid # None
                   => ranUe[u].PduSessionList[s].teid \in hist'.leaked

\* Such a step keeps TeidOwned.
LEMMA SessionsLeaveKeeps == ASSUME Types, TeidOwned, SessionsLeave PROVE TeidOwned'
  <1>0. \A t \in Teid : t # None
    BY UserPlaneAssumption DEF Teid
  <1>1. ASSUME NEW u \in RANUePool', NEW s \in Active(u)', ranUe'[u].PduSessionList[s].teid # None
        PROVE  /\ u \in RANUePool /\ s \in Active(u)
               /\ ranUe'[u].PduSessionList[s] = ranUe[u].PduSessionList[s]
    BY <1>1 DEF SessionsLeave, Active
  <1>2. ASSUME NEW u \in RANUePool', NEW s \in Active(u)', ranUe'[u].PduSessionList[s].teid # None
        PROVE  LET t == ranUe'[u].PduSessionList[s].teid IN
                 /\ AllocatedUETEID'[t] = u
                 /\ \A r \in Active(u)' \ {s} : ranUe'[u].PduSessionList[r].teid # t
    <2>1. /\ u \in RANUePool /\ s \in Active(u)
          /\ ranUe'[u].PduSessionList[s] = ranUe[u].PduSessionList[s]
      BY Zenon, <1>1, <1>2
    <2>2. AllocatedUETEID'[ranUe'[u].PduSessionList[s].teid] = u
      BY SMTT(30), <1>2, <2>1 DEF TeidOwned, SessionsLeave
    <2>3. ASSUME NEW r \in Active(u)' \ {s},
                   ranUe'[u].PduSessionList[r].teid = ranUe'[u].PduSessionList[s].teid
          PROVE  FALSE
      <3>1. /\ r \in Active(u) /\ ranUe'[u].PduSessionList[r] = ranUe[u].PduSessionList[r]
        BY Zenon, <1>1, <1>2, <2>3
      <3> QED
        BY SMTT(30), <1>2, <2>1, <2>3, <3>1 DEF TeidOwned
    <2> QED
      BY Zenon, <2>2, <2>3
  <1>3. ASSUME NEW t \in Teid, AllocatedUETEID'[t] # None, t \notin hist'.leaked
        PROVE  /\ AllocatedUETEID'[t] \in RANUePool'
               /\ \E s \in Session : /\ ranUe'[AllocatedUETEID'[t]].PduSessionList[s] # None
                                     /\ ranUe'[AllocatedUETEID'[t]].PduSessionList[s].teid = t
    <2> DEFINE u == AllocatedUETEID[t]
    <2>1. AllocatedUETEID'[t] = u /\ u # None /\ t \notin hist.leaked
      BY Zenon, <1>3 DEF SessionsLeave
    <2>2. PICK s \in Active(u) : u \in RANUePool /\ ranUe[u].PduSessionList[s].teid = t
      BY Zenon, <2>1 DEF TeidOwned
    <2>3. ranUe'[u].PduSessionList[s] = ranUe[u].PduSessionList[s]
      BY Zenon, <1>0, <1>3, <2>2 DEF SessionsLeave, Active
    <2> QED
      BY Zenon, <2>1, <2>2, <2>3 DEF SessionsLeave, Active
  <1> QED
    BY Zenon, <1>2, <1>3 DEF TeidOwned, Active

\* A setup that gives its session a TEID nobody holds (NewTEID) makes the session its owner.
LEMMA SetupKeepsTeid ==
    ASSUME TeidInv, NEW u \in RANUePool, NEW s \in Session, NEW t \in Teid,
           ranUe[u].PduSessionList[s] = [teid |-> None], NewTEID(u, t),
           ranUe' = [ranUe EXCEPT ![u].PduSessionList[s] = [teid |-> t]],
           UNCHANGED RANUePool, hist'.leaked = hist.leaked
    PROVE  TeidOwned'
  <1>0. \A x \in Teid : x # None
    BY UserPlaneAssumption DEF Teid
  <1>t. u \in Ue /\ ranUe \in [Ue -> RanUe] /\ AllocatedUETEID \in [Teid -> Ue \cup {None}]
          /\ RANUePool \subseteq Ue
    BY Zenon DEF TeidInv, Types, NgapTypes
  <1>1. AllocatedUETEID[t] = None /\ AllocatedUETEID' = [AllocatedUETEID EXCEPT ![t] = u]
    BY Zenon DEF NewTEID, Allocates, FreeTeid
  <1>2. ranUe'[u].PduSessionList[s] = [teid |-> t]
    BY Zenon, <1>t DEF RanUe
  <1>3. \A v \in Ue, r \in Session : <<v, r>> # <<u, s>> =>
           ranUe'[v].PduSessionList[r] = ranUe[v].PduSessionList[r]
    BY Zenon, <1>t DEF RanUe
  <1>4. ASSUME NEW v \in RANUePool, NEW r \in Active(v), ranUe[v].PduSessionList[r].teid # None
        PROVE  /\ AllocatedUETEID[ranUe[v].PduSessionList[r].teid] = v
               /\ ranUe[v].PduSessionList[r].teid \in Teid \ {t}
    <2>1. AllocatedUETEID[ranUe[v].PduSessionList[r].teid] = v
      BY Zenon, <1>4 DEF TeidInv, TeidOwned
    <2>2. ranUe[v].PduSessionList[r].teid \in Teid
      BY <1>t, <1>4 DEF RanUe, PDUSession, Active
    <2>3. v # None
      BY Zenon, <1>t, UserPlaneAssumption
    <2> QED
      BY Zenon, <1>1, <2>1, <2>2, <2>3
  <1>5. ASSUME NEW v \in RANUePool, NEW r \in Session, ranUe'[v].PduSessionList[r] # None,
               ranUe'[v].PduSessionList[r].teid # None
        PROVE  /\ AllocatedUETEID'[ranUe'[v].PduSessionList[r].teid] = v
               /\ \A q \in Session \ {r} : ranUe'[v].PduSessionList[q] # None =>
                     ranUe'[v].PduSessionList[q].teid # ranUe'[v].PduSessionList[r].teid
    <2>1. CASE v = u /\ r = s
      <3>1. AllocatedUETEID'[ranUe'[v].PduSessionList[r].teid] = v
        BY SMTT(30), <1>t, <1>1, <1>2, <2>1
      <3>2. ASSUME NEW q \in Session \ {r}, ranUe'[v].PduSessionList[q] # None,
                   ranUe'[v].PduSessionList[q].teid = t
            PROVE  FALSE
        <4>1. ranUe[v].PduSessionList[q].teid = t /\ q \in Active(v)
          BY Zenon, <1>t, <1>3, <2>1, <3>2 DEF Active
        <4> QED
          BY Zenon, <1>0, <1>4, <4>1
      <3> QED
        BY SMTT(30), <1>2, <2>1, <3>1, <3>2
    <2>2. CASE ~(v = u /\ r = s)
      <3>1. /\ ranUe'[v].PduSessionList[r] = ranUe[v].PduSessionList[r] /\ r \in Active(v)
        BY Zenon, <1>t, <1>3, <1>5, <2>2 DEF Active
      <3>2. /\ AllocatedUETEID[ranUe[v].PduSessionList[r].teid] = v
            /\ ranUe[v].PduSessionList[r].teid \in Teid \ {t}
        BY Zenon, <1>4, <1>5, <3>1
      <3>3. AllocatedUETEID'[ranUe'[v].PduSessionList[r].teid] = v
        BY Zenon, <1>t, <1>1, <3>1, <3>2
      <3>4. ASSUME NEW q \in Session \ {r}, ranUe'[v].PduSessionList[q] # None,
                   ranUe'[v].PduSessionList[q].teid = ranUe[v].PduSessionList[r].teid
            PROVE  FALSE
        <4>1. CASE v = u /\ q = s
          BY SMTT(30), <1>2, <3>2, <3>4, <4>1
        <4>2. CASE ~(v = u /\ q = s)
          <5>1. q \in Active(v) /\ ranUe[v].PduSessionList[q].teid = ranUe[v].PduSessionList[r].teid
            BY Zenon, <1>t, <1>3, <3>4, <4>2 DEF Active
          <5> QED
            BY SMTT(30), <1>0, <3>1, <3>2, <3>4, <5>1 DEF TeidInv, TeidOwned
        <4> QED
          BY Zenon, <4>1, <4>2
      <3> QED
        BY Zenon, <3>1, <3>3, <3>4
    <2> QED
      BY Zenon, <2>1, <2>2
  <1>6. ASSUME NEW x \in Teid, AllocatedUETEID'[x] # None, x \notin hist.leaked
        PROVE  /\ AllocatedUETEID'[x] \in RANUePool
               /\ \E r \in Session : /\ ranUe'[AllocatedUETEID'[x]].PduSessionList[r] # None
                                     /\ ranUe'[AllocatedUETEID'[x]].PduSessionList[r].teid = x
    <2>1. CASE x = t
      <3>1. AllocatedUETEID'[x] = u /\ ranUe'[u].PduSessionList[s].teid = x
        BY SMTT(30), <1>t, <1>1, <1>2, <2>1
      <3>2. ranUe'[u].PduSessionList[s] # None
        BY SMTT(30), <1>2, UserPlaneAssumption DEF Teid
      <3> QED
        BY Zenon, <3>1, <3>2
    <2>2. CASE x # t
      <3> DEFINE v == AllocatedUETEID[x]
      <3>1. AllocatedUETEID'[x] = v
        BY Zenon, <1>t, <1>1, <2>2
      <3>2. PICK r \in Active(v) : v \in RANUePool /\ ranUe[v].PduSessionList[r].teid = x
        BY Zenon, <1>6, <3>1 DEF TeidInv, TeidOwned
      <3>3. <<v, r>> # <<u, s>>
        BY <1>0, <3>2
      <3>4. ranUe'[v].PduSessionList[r] = ranUe[v].PduSessionList[r]
        BY Zenon, <1>t, <1>3, <3>2, <3>3 DEF Active
      <3> QED
        BY Zenon, <3>1, <3>2, <3>4 DEF Active
    <2> QED
      BY Zenon, <2>1, <2>2
  <1> QED
    BY SMTT(30), <1>5, <1>6 DEF TeidOwned, Active

\* N3IWFRanUe.Remove frees the TEID of every session still listed, and no TEID of another UE.
LEMMA RemoveKeepsTeid ==
    ASSUME TeidInv, NEW u \in RANUePool, RemoveRanUe(u), UNCHANGED hist
    PROVE  TeidOwned'
  <1>t. u \in Ue /\ ranUe \in [Ue -> RanUe] /\ AllocatedUETEID \in [Teid -> Ue \cup {None}]
          /\ RANUePool \subseteq Ue
    BY Zenon DEF TeidInv, Types, NgapTypes
  <1>1. \A v \in Ue \ {u} : ranUe'[v] = ranUe[v]
    BY Zenon, <1>t DEF RemoveRanUe
  <1>2. ASSUME NEW v \in RANUePool', NEW r \in Session, ranUe'[v].PduSessionList[r] # None,
               ranUe'[v].PduSessionList[r].teid # None
        PROVE  /\ AllocatedUETEID'[ranUe'[v].PduSessionList[r].teid] = v
               /\ \A q \in Session \ {r} : ranUe'[v].PduSessionList[q] # None =>
                     ranUe'[v].PduSessionList[q].teid # ranUe'[v].PduSessionList[r].teid
    <2> DEFINE t == ranUe[v].PduSessionList[r].teid
    <2>1. v \in RANUePool /\ v # u /\ v \in Ue /\ ranUe'[v] = ranUe[v]
      BY Zenon, <1>t, <1>1, <1>2 DEF RemoveRanUe
    <2>2. r \in Active(v) /\ t # None
      BY Zenon, <1>2, <2>1 DEF Active
    <2>3. /\ AllocatedUETEID[t] = v
          /\ \A q \in Active(v) \ {r} : ranUe[v].PduSessionList[q].teid # t
      BY Zenon, <2>1, <2>2 DEF TeidInv, TeidOwned
    <2>4. t \in Teid
      BY SMTT(30), <1>t, <2>1, <2>2 DEF RanUe, PDUSession, Active
    <2>5. t \notin Freed(u)
      <3> SUFFICES ASSUME t \in Freed(u) PROVE FALSE
        BY Zenon
      <3>1. PICK q \in Active(u) : ranUe[u].PduSessionList[q].teid = t
        BY Zenon DEF Freed
      <3> HIDE DEF t
      <3>2. AllocatedUETEID[t] = u
        BY Zenon, <2>2, <3>1 DEF TeidInv, TeidOwned
      <3> QED
        BY Zenon, <2>1, <2>3, <3>2
    <2>6. AllocatedUETEID'[t] = v
      BY Zenon, <2>3, <2>4, <2>5 DEF RemoveRanUe
    <2> QED
      BY Zenon, <2>1, <2>3, <2>6 DEF Active
  <1>3. ASSUME NEW x \in Teid, AllocatedUETEID'[x] # None, x \notin hist.leaked
        PROVE  /\ AllocatedUETEID'[x] \in RANUePool'
               /\ \E r \in Session : /\ ranUe'[AllocatedUETEID'[x]].PduSessionList[r] # None
                                     /\ ranUe'[AllocatedUETEID'[x]].PduSessionList[r].teid = x
    <2> DEFINE v == AllocatedUETEID[x]
    <2>1. AllocatedUETEID'[x] = v /\ v # None /\ x \notin Freed(u)
      BY Zenon, <1>3 DEF RemoveRanUe
    <2>2. PICK r \in Active(v) : v \in RANUePool /\ ranUe[v].PduSessionList[r].teid = x
      BY Zenon, <1>3, <2>1 DEF TeidInv, TeidOwned
    <2>3. v # u
      BY Zenon, <2>1, <2>2 DEF Freed
    <2>4. ranUe'[v] = ranUe[v]
      BY Zenon, <1>t, <1>1, <2>2, <2>3
    <2> QED
      BY Zenon, <2>1, <2>2, <2>3, <2>4 DEF Active, RemoveRanUe
  <1> QED
    BY <1>2, <1>3 DEF TeidOwned, Active

\* A new RAN UE has no session and no TEID is allocated to it.
LEMMA RegisterKeepsTeid == ASSUME TeidInv, NEW u \in Ue, Register(u) PROVE TeidOwned'
  <1>t. ranUe \in [Ue -> RanUe] /\ AllocatedUETEID \in [Teid -> Ue \cup {None}]
          /\ RANUePool \subseteq Ue
    BY Zenon DEF TeidInv, Types, NgapTypes
  <1>1. u \notin RANUePool /\ RANUePool' = RANUePool \cup {u} /\ UNCHANGED <<AllocatedUETEID, hist>>
    BY Zenon DEF TeidInv, UsedInPool, Register
  <1>2. \A v \in Ue \ {u} : ranUe'[v] = ranUe[v]
    BY Zenon, <1>t DEF Register
  <1>3. \A r \in Session : ranUe'[u].PduSessionList[r] = None
    BY Zenon, <1>t DEF Register, NewRanUe
  <1>4. ASSUME NEW v \in RANUePool', NEW r \in Session, ranUe'[v].PduSessionList[r] # None,
               ranUe'[v].PduSessionList[r].teid # None
        PROVE  /\ AllocatedUETEID'[ranUe'[v].PduSessionList[r].teid] = v
               /\ \A q \in Session \ {r} : ranUe'[v].PduSessionList[q] # None =>
                     ranUe'[v].PduSessionList[q].teid # ranUe'[v].PduSessionList[r].teid
    <2>1. v \in RANUePool /\ ranUe'[v] = ranUe[v]
      <3>1. v # u BY Zenon, <1>3, <1>4
      <3> QED BY Zenon, <1>t, <1>1, <1>2, <1>4, <3>1
    <2>2. TeidOwned
      BY Zenon DEF TeidInv
    <2>3. r \in Active(v) /\ ranUe[v].PduSessionList[r].teid # None
      BY Zenon, <1>4, <2>1 DEF Active
    <2>4. /\ AllocatedUETEID[ranUe[v].PduSessionList[r].teid] = v
          /\ \A q \in Active(v) \ {r} :
                ranUe[v].PduSessionList[q].teid # ranUe[v].PduSessionList[r].teid
      BY ONLY Zenon, <2>1, <2>2, <2>3 DEF TeidOwned
    <2>5. \A q \in Session \ {r} : ranUe[v].PduSessionList[q] # None => q \in Active(v) \ {r}
      BY Zenon DEF Active
    <2>6. AllocatedUETEID' = AllocatedUETEID
      BY ZenonT(30), <1>1
    <2> QED
      BY Zenon, <2>1, <2>4, <2>5, <2>6
  <1>5. ASSUME NEW x \in Teid, AllocatedUETEID'[x] # None, x \notin hist.leaked
        PROVE  /\ AllocatedUETEID'[x] \in RANUePool'
               /\ \E r \in Session : /\ ranUe'[AllocatedUETEID'[x]].PduSessionList[r] # None
                                     /\ ranUe'[AllocatedUETEID'[x]].PduSessionList[r].teid = x
    <2> DEFINE v == AllocatedUETEID[x]
    <2>1. PICK r \in Active(v) : v \in RANUePool /\ ranUe[v].PduSessionList[r].teid = x
      BY Zenon, <1>1, <1>5 DEF TeidInv, TeidOwned
    <2>2. ranUe'[v] = ranUe[v]
      BY Zenon, <1>t, <1>1, <1>2, <2>1
    <2> QED
      BY Zenon, <1>1, <2>1, <2>2 DEF Active
  <1> QED
    BY <1>1, <1>4, <1>5 DEF TeidOwned, Active

\* The IKE loop changes no RAN UE and no TEID, and makes no UE unregistered.
LEMMA IkeLoopKeepsTeid ==
    ASSUME TeidInv, IkeLoop
    PROVE  UsedInPool' /\ UNCHANGED ngapVars /\ hist'.leaked = hist.leaked
  <1>t. ikeUe \in [Ue -> IkeUe] /\ hist \in Hist /\ RANUePool \subseteq Ue
    BY Zenon DEF TeidInv, Types, IkeTypes, NgapTypes
  <1>f. ASSUME NEW x PROVE Failing(x) \in Hist /\ Failing(x).leaked = hist.leaked
    BY Zenon, <1>t, FailingType
  <1>1. UNCHANGED ngapVars
    BY ZenonT(30)
       DEF IkeLoop, HandleIKEAUTH, CompleteChildSA, HandleInformationalEsp,
         HandleInformationalAnswer,
           HandleInformationalIke, HandleCreatePDUSession, continueCreateChildSA,
           HandleSendChildSADeleteRequest, HandleIKEDeleteEvt
  <1>2. ASSUME NEW u, NEW d, Remove(u, d)
        PROVE  hist'.leaked = hist.leaked
                 /\ \A v \in Ue : ikeUe[v].auth # "unused" => ikeUe'[v].auth # "unused"
    <2>1. hist'.leaked = hist.leaked
      BY Zenon, <1>f, <1>2 DEF Remove, Hist
    <2>2. ASSUME NEW v \in Ue, ikeUe[v].auth # "unused" PROVE ikeUe'[v].auth # "unused"
      <3>1. CASE d.result = "ok"
        BY Zenon, <1>t, <1>2, <2>2, <3>1 DEF Remove, NewIkeUe
      <3>2. CASE d.result # "ok"
        BY Zenon, <1>t, <1>2, <2>2, <3>2 DEF Remove, IkeUe
      <3> QED
        BY Zenon, <3>1, <3>2
    <2> QED
      BY Zenon, <2>1, <2>2
  <1>3. hist'.leaked = hist.leaked
    <2>1. UNCHANGED hist \/ (\E x : hist' = Failing(x)) \/ \E u, d : Remove(u, d)
      BY ZenonT(60)
         DEF IkeLoop, HandleIKEAUTH, CompleteChildSA, HandleInformationalEsp,
           HandleInformationalAnswer,
           HandleInformationalIke, HandleCreatePDUSession, continueCreateChildSA,
           HandleSendChildSADeleteRequest, HandleIKEDeleteEvt
    <2> QED
      BY <1>f, <1>2, <2>1
  <1>4. \A v \in Ue : ikeUe[v].auth # "unused" => ikeUe'[v].auth # "unused"
    <2>1. ASSUME NEW u \in Ue, HandleIKEAUTH(u)
          PROVE  \A v \in Ue : ikeUe[v].auth # "unused" => ikeUe'[v].auth # "unused"
      <3> DEFINE b(child) == IF \E c \in child : c.rules THEN "done" ELSE "failed"
      <3>1. \A child : b(child) \in {"done", "failed"}
        BY Zenon
      <3>2. \/ ikeUe' = [ikeUe EXCEPT ![u].auth = "failed"]
            \/ \E a, c : ikeUe' = [ikeUe EXCEPT ![u].auth = b(c), ![u].IPSecInnerIP = a,
                 ![u].child = c]
        BY <2>1, Zenon DEF HandleIKEAUTH
      <3> HIDE DEF b
      <3>3. CASE ikeUe' = [ikeUe EXCEPT ![u].auth = "failed"]
        BY Zenon, <1>t, <3>3 DEF IkeUe
      <3>4. ASSUME NEW a, NEW c,
                   ikeUe' = [ikeUe EXCEPT ![u].auth = b(c), ![u].IPSecInnerIP = a, ![u].child = c]
            PROVE  ikeUe'[u].auth = b(c) /\ \A v \in Ue \ {u} : ikeUe'[v] = ikeUe[v]
        BY Zenon, <1>t, <3>4 DEF IkeUe
      <3>5. ASSUME NEW a, NEW c,
                   ikeUe' = [ikeUe EXCEPT ![u].auth = b(c), ![u].IPSecInnerIP = a, ![u].child = c]
            PROVE  \A v \in Ue : ikeUe[v].auth # "unused" => ikeUe'[v].auth # "unused"
        <4>1. b(c) # "unused"
          BY Zenon, <3>1
        <4> QED
          BY ZenonT(30), <3>4, <3>5, <4>1
      <3> QED
        BY ZenonT(30), <3>2, <3>3, <3>5
    <2>2. ASSUME NEW u \in Ue, HandleInformationalIke(u)
          PROVE  \A v \in Ue : ikeUe[v].auth # "unused" => ikeUe'[v].auth # "unused"
      BY Zenon, <1>2, <2>2 DEF HandleInformationalIke
    <2>3. CASE HandleIKEDeleteEvt
      BY ZenonT(30), <1>2, <2>3 DEF HandleIKEDeleteEvt
    <2>4. CASE SameAddresses
      BY Zenon, <2>4 DEF SameAddresses
    <2> QED
      BY Zenon, <2>1, <2>2, <2>3, <2>4, OtherIkeStepsKeepAddr DEF IkeLoop, TeidInv
  <1> QED
    BY Zenon, <1>t, <1>1, <1>3, <1>4 DEF TeidInv, UsedInPool, ngapVars

\* A step that leaves the NGAP loop's state alone keeps the invariant.
LEMMA SameSessionsKeep ==
    ASSUME TeidInv, Types', UsedInPool', UNCHANGED ngapVars, hist'.leaked = hist.leaked
    PROVE  TeidInv'
  <1>1. PendingInPool'
    BY Zenon DEF TeidInv, PendingInPool, ngapVars
  <1>2. SessionsLeave
    BY Zenon DEF SessionsLeave, ngapVars
  <1> QED
    BY Zenon, <1>1, <1>2, SessionsLeaveKeeps DEF TeidInv

\* Every handler of the NGAP loop keeps the invariant.
LEMMA NgapStepsKeepTeid == ASSUME TeidInv, Types', NgapLoop PROVE TeidInv'
  <1>t. /\ ikeUe \in [Ue -> IkeUe] /\ hist \in Hist /\ RANUePool \subseteq Ue
        /\ ranUe \in [Ue -> RanUe] /\ ngapTask \in NgapTask \cup {None}
    BY Zenon DEF TeidInv, Types, IkeTypes, NgapTypes
  <1>n. [teid |-> None] # None
    BY UserPlaneAssumption
  <1>1. ASSUME NEW u \in Ue, HandleUEContextReleaseCommand(u) \/ HandleNGReset(u) PROVE TeidInv'
    <2>1. u \in RANUePool /\ RemoveRanUe(u) /\ UNCHANGED <<hist, ngapTask, ikeUe>>
            /\ ngapTask = None
      BY Zenon, <1>1 DEF HandleUEContextReleaseCommand, HandleNGReset, NgapIdle, ikeVars
    <2>2. TeidOwned'
      BY Zenon, <2>1, RemoveKeepsTeid
    <2>3. UsedInPool' /\ PendingInPool'
      BY Zenon, <2>1 DEF TeidInv, UsedInPool, PendingInPool, RemoveRanUe
    <2> QED
      BY Zenon, <2>2, <2>3 DEF TeidInv
  <1>2. ASSUME NEW u \in Ue, NEW s \in Session, CreatePDUSession(u, s) PROVE TeidInv'
    <2>1. /\ u \in RANUePool /\ ranUe[u].PduSessionList[s] = None
               /\ UNCHANGED <<RANUePool, AllocatedUETEID, ikeUe>>
          /\ ngapTask' = [ue |-> u, session |-> s]
          /\ hist' = [hist EXCEPT !.setups = @ + 1, !.again = @ \/ s \in ranUe[u].used]
          /\ ranUe' = [ranUe EXCEPT ![u].PduSessionList[s] = [teid |-> None],
               ![u].used = @ \cup {s}]
      BY Zenon, <1>2 DEF CreatePDUSession, Registered, Active, ikeVars
    <2>2. hist'.leaked = hist.leaked
      BY Zenon, <1>t, <2>1 DEF Hist
    <2>3. ranUe'[u].PduSessionList[s] = [teid |-> None]
      BY Zenon, <1>t, <2>1 DEF RanUe
    <2>4. \A v \in Ue, r \in Session : <<v, r>> # <<u, s>> =>
             ranUe'[v].PduSessionList[r] = ranUe[v].PduSessionList[r]
      BY Zenon, <1>t, <2>1 DEF RanUe
    <2>5. SessionsLeave
      BY Zenon, <1>t, <2>1, <2>2, <2>3, <2>4 DEF SessionsLeave
    <2>6. UsedInPool' /\ PendingInPool'
      BY Zenon, <2>1, <2>3 DEF TeidInv, UsedInPool, PendingInPool
    <2> QED
      BY Zenon, <2>5, <2>6, SessionsLeaveKeeps DEF TeidInv
  <1>3. ASSUME NEW u \in Ue, NEW ss, Drop(u, ss)
        PROVE  hist'.leaked = hist.leaked
                 \cup {ranUe[u].PduSessionList[r].teid : r \in ss \cap Active(u)}
    BY Zenon, <1>t, <1>3 DEF Drop, Hist
  <1>4. ASSUME NEW u \in Ue, NEW s \in Session, HandlePDUSessionResourceReleaseCommand(u, s)
        PROVE  TeidInv'
    <2>1. /\ u \in RANUePool /\ s \in Active(u)
          /\ UNCHANGED <<RANUePool, AllocatedUETEID, ikeUe, ngapTask>>
          /\ ngapTask = None /\ Drop(u, {s})
      BY Zenon, <1>4 DEF HandlePDUSessionResourceReleaseCommand, Registered, ikeVars, NgapIdle
    <2>2. hist'.leaked = hist.leaked \cup {ranUe[u].PduSessionList[s].teid}
      <3>1. hist'.leaked = hist.leaked
                 \cup {ranUe[u].PduSessionList[r].teid : r \in {s} \cap Active(u)}
        BY Zenon, <1>3, <2>1
      <3>2. {s} \cap Active(u) = {s}
        BY Zenon, <2>1
      <3> QED
        BY ONLY Zenon, <3>1, <3>2
    <2>3. PICK rel : ranUe' = [ranUe EXCEPT ![u].PduSessionList[s] = None,
                       ![u].PduSessResRelState = rel]
      BY ZenonT(30), <1>4 DEF HandlePDUSessionResourceReleaseCommand
    <2>4. ranUe'[u].PduSessionList[s] = None
      BY Zenon, <1>t, <2>3 DEF RanUe
    <2>5. \A v \in Ue, r \in Session : <<v, r>> # <<u, s>> =>
             ranUe'[v].PduSessionList[r] = ranUe[v].PduSessionList[r]
      BY Zenon, <1>t, <2>3 DEF RanUe
    <2>6. SessionsLeave
      BY Zenon, <1>t, <2>1, <2>2, <2>4, <2>5 DEF SessionsLeave
    <2>7. UsedInPool' /\ PendingInPool'
      BY Zenon, <2>1 DEF TeidInv, UsedInPool, PendingInPool
    <2> QED
      BY Zenon, <2>6, <2>7, SessionsLeaveKeeps DEF TeidInv
  <1>5. ASSUME HandlePDUSessionResourceSetupRequest PROVE TeidInv'
    <2> DEFINE u == ngapTask.ue
               s == ngapTask.session
    <2>1. /\ u \in RANUePool /\ s \in Session /\ ranUe[u].PduSessionList[s] = [teid |-> None]
          /\ ngapTask' = None /\ UNCHANGED <<RANUePool, ikeUe>>
      BY Zenon, <1>t, <1>5
         DEF HandlePDUSessionResourceSetupRequest, TeidInv, PendingInPool, NgapTask, ikeVars
    <2>2. UsedInPool' /\ PendingInPool'
      BY Zenon, <2>1 DEF TeidInv, UsedInPool, PendingInPool
    <2>3. ASSUME NEW t \in Teid, NewTEID(u, t),
                 ranUe' = [ranUe EXCEPT ![u].PduSessionList[s] = [teid |-> t]],
                 hist' = [hist EXCEPT !.reused = @ \/ upf[t] # None]
          PROVE  TeidOwned'
      <3>1. hist'.leaked = hist.leaked
        BY Zenon, <1>t, <2>3 DEF Hist
      <3> QED
        BY ZenonT(30), <2>1, <2>3, <3>1, SetupKeepsTeid
    <2>4. ASSUME ranUe' = [ranUe EXCEPT ![u].PduSessionList[s] = None],
                 hist' = Failing(FreeTeid # {}), UNCHANGED AllocatedUETEID
          PROVE  TeidOwned'
      <3>1. hist'.leaked = hist.leaked
        BY Zenon, <1>t, <2>4, FailingType
      <3>2. ranUe'[u].PduSessionList[s] = None
        BY Zenon, <1>t, <2>1, <2>4 DEF RanUe
      <3>3. \A v \in Ue, r \in Session : <<v, r>> # <<u, s>> =>
               ranUe'[v].PduSessionList[r] = ranUe[v].PduSessionList[r]
        BY Zenon, <1>t, <2>1, <2>4 DEF RanUe
      <3>4. SessionsLeave
        BY SMTT(30), <1>t, <2>1, <2>4, <3>1, <3>2, <3>3 DEF SessionsLeave
      <3> QED
        BY Zenon, <3>4, SessionsLeaveKeeps DEF TeidInv
    <2> QED
      BY ZenonT(30), <1>5, <2>2, <2>3, <2>4 DEF TeidInv, HandlePDUSessionResourceSetupRequest
  <1>6. ASSUME HandleSendPDUSessionResourceSetupResponse PROVE TeidInv'
    <2>1. UNCHANGED <<ngapVars, hist, ikeUe>>
      BY Zenon, <1>6 DEF HandleSendPDUSessionResourceSetupResponse, ikeVars
    <2>2. UsedInPool'
      BY Zenon, <2>1 DEF TeidInv, UsedInPool, ngapVars
    <2> QED
      BY Zenon, <2>1, <2>2, SameSessionsKeep
  <1>7. ASSUME HandleSendPDUSessionResourceRelease PROVE TeidInv'
    <2> DEFINE e == Head(ngapEvt)
    <2>1. UNCHANGED <<RANUePool, AllocatedUETEID, ikeUe, ngapTask>> /\ ngapTask = None
      BY Zenon, <1>7 DEF HandleSendPDUSessionResourceRelease, TakeNgapEvt, NgapIdle, ikeVars
    <2>2. UsedInPool' /\ PendingInPool'
      BY Zenon, <2>1 DEF TeidInv, UsedInPool, PendingInPool
    <2>3. CASE UNCHANGED <<ranUe, hist>>
      BY Zenon, <2>1, <2>2, <2>3, SessionsLeaveKeeps DEF TeidInv, SessionsLeave
    <2>4. CASE e.ue \in RANUePool /\ ranUe' = [ranUe EXCEPT ![e.ue].PduSessResRelState = FALSE]
                 /\ UNCHANGED hist
      <3>1. \A v \in Ue : ranUe'[v].PduSessionList = ranUe[v].PduSessionList
        BY Zenon, <1>t, <2>4 DEF RanUe
      <3> QED
        BY Zenon, <1>t, <2>1, <2>2, <2>4, <3>1, SessionsLeaveKeeps DEF TeidInv, SessionsLeave
    <2>5. CASE /\ e.ue \in RANUePool
               /\ ranUe' = [ranUe EXCEPT
                              ![e.ue].PduSessResRelState = TRUE,
                              ![e.ue].PduSessionList =
                                 [s \in Session |-> IF s = e.session THEN None ELSE @[s]]]
               /\ Drop(e.ue, {e.session})
      <3>1. hist'.leaked = hist.leaked
              \cup {ranUe[e.ue].PduSessionList[r].teid : r \in {e.session} \cap Active(e.ue)}
        BY Zenon, <1>t, <1>3, <2>5
      <3>2. ranUe'[e.ue].PduSessionList = [s \in Session |-> IF s = e.session THEN None
              ELSE ranUe[e.ue].PduSessionList[s]]
        BY Zenon, <1>t, <2>5 DEF RanUe
      <3>3. \A v \in Ue \ {e.ue} : ranUe'[v] = ranUe[v]
        BY Zenon, <1>t, <2>5
      <3>4. SessionsLeave
        <4>1. ASSUME NEW v \in RANUePool, NEW r \in Session, ~(v = e.ue /\ r = e.session)
              PROVE  ranUe'[v].PduSessionList[r] = ranUe[v].PduSessionList[r]
          BY SMTT(30), <1>t, <3>2, <3>3, <4>1
        <4>2. e.session \in Session /\ ranUe[e.ue].PduSessionList[e.session] # None =>
                 ranUe[e.ue].PduSessionList[e.session].teid \in hist'.leaked
          BY ZenonT(30), <3>1 DEF Active
        <4>3. e.session \in Session => ranUe'[e.ue].PduSessionList[e.session] = None
          BY Zenon, <3>2
        <4>4. hist.leaked \subseteq hist'.leaked
          BY Zenon, <3>1
        <4> QED
          BY Zenon, <2>1, <4>1, <4>2, <4>3, <4>4 DEF SessionsLeave
      <3> QED
        BY Zenon, <2>2, <3>4, SessionsLeaveKeeps DEF TeidInv
    <2> QED
      BY Zenon, <1>7, <2>3, <2>4, <2>5 DEF HandleSendPDUSessionResourceRelease
  <1> QED
    BY Zenon, <1>1, <1>2, <1>4, <1>5, <1>6, <1>7 DEF NgapLoop

\* The TEID invariant holds initially and is kept by every step.
LEMMA TeidInvAlways == Spec => []TeidInv
  <1>1. Init => TeidInv
    <2> SUFFICES ASSUME Init PROVE TeidInv
      OBVIOUS
    <2>1. TeidOwned
      BY Zenon DEF Init, TeidOwned
    <2> QED
      BY ZenonT(30), <2>1, InitTypes DEF Init, TeidInv, PendingInPool, UsedInPool
  <1>2. TeidInv /\ Types' /\ [Next]_vars => TeidInv'
    <2> SUFFICES ASSUME TeidInv, Types', [Next]_vars PROVE TeidInv'
      OBVIOUS
    <2>1. CASE UserPlaneStep \/ UNCHANGED vars
      <3>1. UNCHANGED <<ngapVars, hist, ikeUe>>
        BY Zenon, <2>1, UserPlaneStepKeeps DEF vars, ngapVars, ikeVars
      <3>2. UsedInPool'
        BY Zenon, <3>1 DEF TeidInv, UsedInPool, ngapVars
      <3> QED
        BY Zenon, <3>1, <3>2, SameSessionsKeep
    <2>2. CASE NgapLoop
      BY Zenon, <2>2, NgapStepsKeepTeid
    <2>3. ASSUME NEW u \in Ue, Register(u) PROVE TeidInv'
      <3>1. UNCHANGED ngapTask /\ ngapTask = None
        BY ZenonT(30), <2>3 DEF Register, NgapIdle
      <3>2. PendingInPool'
        BY Zenon, <3>1 DEF PendingInPool
      <3>3. UsedInPool'
        BY ZenonT(30), <2>3 DEF Register, TeidInv, UsedInPool, Types, IkeTypes, NgapTypes, NewIkeUe
      <3> QED
        BY Zenon, <2>3, <3>2, <3>3, RegisterKeepsTeid DEF TeidInv
    <2>4. CASE IkeLoop
      BY Zenon, <2>4, IkeLoopKeepsTeid, SameSessionsKeep
    <2> QED
      BY Zenon, <2>1, <2>2, <2>3, <2>4 DEF Next
  <1> QED
    BY <1>1, <1>2, Typed, PTL DEF Spec

\* In every reachable state of every instance, the TEID of a listed session is allocated to its
\* UE and to no other session, and an allocated TEID has such a session unless the session was
\* released on its own (NewTEID, DeleteTEID, N3IWFRanUe.Remove).
THEOREM TeidOwnedAlways == Spec => []TeidOwned
  <1>1. TeidInv => TeidOwned
    BY Zenon DEF TeidInv
  <1> QED
    BY <1>1, TeidInvAlways, PTL

-----------------------------------------------------------------------------
(* Sessions and packets: the invariant behind TypeOK, ForwardedToOwner and *)
(* ExitOnlyOnReuse.                                                        *)
(*                                                                         *)
(* A session of a UE is referred to from many places: the list of the RAN  *)
(* UE, the events between the two loops, the half exchange and the child   *)
(* SAs of the IKE UE, the UPF, and packets on their way.  SafeInv says     *)
(* that these agree:                                                       *)
(*   OwnInv  what refers to a session refers to the one that is listed;    *)
(*   IkeInv  a session is in one place on its way to its child SA, and has *)
(*           its interface before the UPF is told;                         *)
(*   UpfInv  what the UPF knows is right unless a TEID was used again;     *)
(*   FwdInv  a packet on its way is matched with what it came from.        *)
(*                                                                         *)
(* Most steps only take something away or concern no session: QuietStep    *)
(* bundles what they have in common and QuietKeeps treats them together.   *)
(* The five steps of a session's setup (NewSessionKeeps, NewTeidKeeps,     *)
(* HalfKeeps, ChildKeeps, ConnectedKeeps), the report to the UPF           *)
(* (ReportKeeps) and the steps of a packet (UserPlaneKeeps) have proofs of *)
(* their own.  SafeKept puts them together.                                *)

\* A session of UE u is on its way to a child SA or has one: it is in a CreatePDUSession event,
\* in the UE's half of an exchange, or in one of its child SAs.
Created(k) == k \in 1..Len(ikeEvt) /\ ikeEvt[k].type = "CreatePDUSession"
Asked(u, s, t) == \E k \in 1..Len(ikeEvt) :
    Created(k) /\ ikeEvt[k].ue = u /\ ikeEvt[k].pdu.session = s /\ ikeEvt[k].pdu.teid = t
Half(u, s, t) == ikeUe[u].half # None /\ ikeUe[u].half.session = s /\ ikeUe[u].half.teid = t
HasChild(u, s, t) == \E c \in ikeUe[u].child : c.session = s /\ c.teid = t
Part(u, s, t) == Asked(u, s, t) \/ Half(u, s, t) \/ HasChild(u, s, t)

\* The child SA has no interface yet, and may never get one.
Bare(s, t) == [session |-> s, teid |-> t, iface |-> None, rules |-> FALSE]
Open(u, s, t) == Asked(u, s, t) \/ Half(u, s, t) \/ Bare(s, t) \in ikeUe[u].child

\* The UPF is being told of the session, or was.
Told(k) == k \in 1..Len(ngapEvt) /\ ngapEvt[k].type = "SendPDUSessionResourceSetupRes"
Reported(u, s, t) == \E k \in 1..Len(ngapEvt) :
    Told(k) /\ ngapEvt[k].ue = u /\ ngapEvt[k].pdu.session = s /\ ngapEvt[k].pdu.teid = t
AtUpf(u, s, t) == upf[t] = [ue |-> u, session |-> s]

\* A packet of the UPF for the session is on its way.
InDownlink(u, s, t) ==
    pkt # None /\ pkt.at \in {"ike", "dl"} /\ pkt.ue = u /\ pkt.session = s /\ pkt.teid = t

\* The packet was found to be for RAN UE u by its TEID t.
Downward(u, t) == pkt # None /\ pkt.at \in {"ike", "dl"} /\ pkt.found = u /\ pkt.teid = t

\* Everything that refers to a session of a UE by its TEID, other than the session list.
Holder(u, s, t) == Part(u, s, t) \/ Reported(u, s, t) \/ AtUpf(u, s, t) \/ InDownlink(u, s, t)

\* The session list of RAN UE u has session s with TEID t; a setup is working on it.
Lists(u, s, t) == ranUe[u].PduSessionList[s] = [teid |-> t]
Pending(u, s) == ngapTask # None /\ ngapTask.ue = u /\ ngapTask.session = s

\* What refers to a session of a known RAN UE by a TEID refers to a TEID of that UE, to a session
\* that was set up, and to the one session that has the TEID.
HoldersOwn ==
    \A u \in RANUePool, s \in Session, t \in Teid : Holder(u, s, t) =>
      /\ AllocatedUETEID[t] = u /\ s \in ranUe[u].used
      /\ \A r \in Session : Lists(u, r, t) => r = s

\* Nothing refers to a session of a UE before its IKE_AUTH is done; a half exchange or a child SA
\* of a session is one of a UE that is not removed.
HoldersKnown ==
    \A u \in Ue, s \in Session, t \in Teid :
      /\ Holder(u, s, t) => ikeUe[u].auth \in {"done", "gone"}
      /\ Half(u, s, t) \/ HasChild(u, s, t) => ikeUe[u].auth = "done"

\* A UE whose IKE_AUTH is done has its inner address; a removed one is down and out of the pool.
Addressed ==
    \A u \in Ue : /\ ikeUe[u].auth = "done" => ikeUe[u].IPSecInnerIP # None
                  /\ ikeUe[u].auth = "gone" => ~ikeUe[u].sa /\ u \notin IKEUePool

\* At most one CreatePDUSession event names a TEID of a UE.
AskedOnce ==
    \A j, k \in 1..Len(ikeEvt) :
      Created(j) /\ Created(k) /\ ikeEvt[j].ue = ikeEvt[k].ue
        /\ ikeEvt[j].pdu.teid = ikeEvt[k].pdu.teid => j = k

\* A session is in one place on its way to its child SA, and the UPF is told only after it has an
\* interface.
OneAtATime ==
    \A u \in Ue, t \in Teid, r, s \in Session :
      /\ Asked(u, r, t) => ~Half(u, s, t) /\ ~HasChild(u, s, t)
      /\ Half(u, r, t) => ~HasChild(u, s, t)
      /\ Open(u, r, t) => ~Reported(u, s, t) /\ ~AtUpf(u, s, t)

\* At most one child SA of a UE is for a TEID.
OneChild ==
    \A u \in Ue : \A c, d \in ikeUe[u].child : c.teid = d.teid /\ c.teid # None => c = d

\* The session being set up has nothing on its way and no child SA, if no session ID was used again.
PendingFresh ==
    ~hist.again => \A u \in Ue, s \in Session, t \in Teid : Pending(u, s) => ~Part(u, s, t)

\* What refers to a listed session has its TEID, if no session ID was used again.
SessionTeid ==
    ~hist.again => \A u \in Ue, s \in Session, t, x \in Teid :
      Lists(u, s, x) /\ Part(u, s, t) => t = x

\* A session is set up only for a UE whose IKE_AUTH is done, and is noted as used.
PendingKnown ==
    \A u \in Ue, s \in Session : Pending(u, s) => ikeUe[u].auth \in {"done", "gone"}
PendingUsed == \A u \in Ue, s \in Session : Pending(u, s) => s \in ranUe[u].used

\* Only the session being set up is listed without a TEID.
TeidPending == \A u \in Ue, s \in Session : Lists(u, s, None) => Pending(u, s)

\* The child SA continueCreateChildSA works on is there, without an interface.
TaskChild ==
    ikeTask # None => NewChildSA(ikeTask.pdu) \in ikeUe[ikeTask.ue].child

\* A child SA of a session has the TEID, and no rules before it has an interface; the one for NAS
\* has neither.
Unruled ==
    \A u \in Ue : \A c \in ikeUe[u].child :
      /\ c.session # None => c.teid # None
      /\ c.session # None /\ c.iface = None => ~c.rules
      /\ c.session = None => c.iface = None /\ c.teid = None

\* The UPF knows the owner of an allocated TEID, if none it knew was allocated again.
UpfOwn ==
    ~hist.reused => \A t \in Teid : AllocatedUETEID[t] # None /\ upf[t] # None =>
      upf[t].ue = AllocatedUETEID[t]

\* NGAPIdToIKESPI maps only RAN UEs in the pool.
MappedInPool == NGAPIdToIKESPI \subseteq RANUePool

\* A downlink packet on its way meets no child SA without an interface, if no TEID the UPF knew was
\* allocated again.
DownlinkOpen ==
    ~hist.reused => \A u \in Ue, t \in Teid :
      Downward(u, t) =>
        /\ upf[t] # None
        /\ pkt.at = "dl" \/ u \in RANUePool => \A s \in Session : Lists(u, s, t) => ~Open(u, s, t)

\* The IDs of interfaces in use are below the next one.
IfaceBelow ==
    \A u \in Ue : \A c \in ikeUe[u].child : c.iface # None => c.iface < XfrmIfaceIdOffsetForUP

\* No two child SAs of a UE share an interface other than the default one.
OwnIface ==
    \A u \in Ue : \A c, d \in ikeUe[u].child : c.iface = d.iface /\ c.iface \notin {None, 0} => c = d

\* An uplink packet that came through session s of UE u is on its way.
InUplink(u, s) == pkt # None /\ pkt.at \in {"ran", "ul"} /\ pkt.ue = u /\ pkt.session = s

\* The session uses the default interface or will: it was the only one listed when it was set up.
AskedFirst(u, s) == \E k \in 1..Len(ikeEvt) :
    Created(k) /\ ikeEvt[k].ue = u /\ ikeEvt[k].pdu.session = s /\ ~(ikeEvt[k].pdu.len > 1)
First(u, s) ==
    \/ AskedFirst(u, s)
    \/ ikeUe[u].half # None /\ ikeUe[u].half.session = s /\ ~(ikeUe[u].half.len > 1)
    \/ ikeTask # None /\ ikeTask.ue = u /\ ikeTask.pdu.session = s /\ ~(ikeTask.pdu.len > 1)
    \/ \E c \in ikeUe[u].child : c.session = s /\ c.iface = 0
    \/ InUplink(u, s) /\ pkt.iface = 0

\* Of the active sessions of a UE at most one does, if no session ID was used again.
OneFirst ==
    ~hist.again => \A u \in RANUePool, r, s \in Session :
       First(u, r) /\ First(u, s) /\ {r, s} \subseteq Active(u) => r = s

\* An uplink packet is of a UE that was set up and has been matched with that UE; the child SA that
\* has its interface is the one it came through.
UplinkFits ==
    \A u \in Ue, s \in Session : InUplink(u, s) =>
      /\ ikeUe[u].auth \in {"done", "gone"}
      /\ u \in RANUePool => s \in ranUe[u].used
      /\ LiveUe(u) /\ ~hist.twice => pkt.found = u
      /\ pkt.iface < XfrmIfaceIdOffsetForUP
      /\ \A c \in ikeUe[u].child : c.iface = pkt.iface /\ c.iface # 0 => c.session = s

\* A downlink packet is matched with its UE, and with the address of that.
DownlinkFits ==
    \A u \in Ue, s \in Session, t \in Teid : InDownlink(u, s, t) /\ LiveUe(u) =>
      /\ pkt.found = u
      /\ pkt.at = "dl" => pkt.ip = ikeUe[u].IPSecInnerIP

\* The packet has its type.
PktType == pkt \in Uplink \cup Downlink \cup {None}

\* The remaining types of TypeOK, but for the packet.
MoreTypes ==
    /\ IKEUePool \subseteq Ue /\ IKESPIToNGAPId \subseteq Ue /\ NGAPIdToIKESPI \subseteq Ue
    /\ XfrmIfaces \subseteq Iface /\ links \subseteq Iface /\ XfrmIfaceIdOffsetForUP \in Nat \ {0}
    /\ ngapEvt \in Seq(NgapEvt) /\ nextTeid \in Teid /\ ikeUp \in BOOLEAN /\ exit \in Exit
    /\ upf \in [Teid -> [ue: Ue, session: Session] \cup {None}]

\* Deleting child SAs removes some of them, and interfaces.
LEMMA DeletionsShrink ==
    ASSUME NEW cs, NEW d \in Deletions(cs) PROVE d.gone \subseteq cs /\ d.links \subseteq links
  <1>1. ASSUME NEW result, NEW gone \in SUBSET cs, NEW left \in SUBSET links,
               NEW failed, d = [result |-> result, gone |-> gone, links |-> left, failed |-> failed]
        PROVE  d.gone \subseteq cs /\ d.links \subseteq links
    BY Zenon, <1>1
  <1>2. \E result, failed : \E gone \in SUBSET cs, left \in SUBSET links :
           d = [result |-> result, gone |-> gone, links |-> left, failed |-> failed]
    BY ZenonT(60) DEF Deletions
  <1> QED BY Zenon, <1>1, <1>2

\* The SetupRes or Release event a handler of the NGAP loop takes is for a known UE.
LEMMA TakenNgapEvt ==
    ASSUME MoreTypes, NEW type, TakeNgapEvt(type)
    PROVE  /\ ngapEvt' \in Seq(NgapEvt)
           /\ Head(ngapEvt) \in NgapEvt /\ Head(ngapEvt).type = type /\ Head(ngapEvt).ue \in Ue
  BY DEF MoreTypes, TakeNgapEvt, NgapEvt

\* N3IWFIkeUe.Remove takes from the pool, the map and the interfaces.
LEMMA RemoveShrinks ==
    ASSUME NEW u, NEW d \in RemoveOutcomes(u), Remove(u, d)
    PROVE  /\ IKEUePool' \subseteq IKEUePool /\ IKESPIToNGAPId' \subseteq IKESPIToNGAPId
           /\ XfrmIfaces' \subseteq XfrmIfaces /\ links' \subseteq links
           /\ UNCHANGED XfrmIfaceIdOffsetForUP /\ d.gone \subseteq ikeUe[u].child
  <1>1. d.gone \subseteq ikeUe[u].child /\ d.links \subseteq links
    <2>1. CASE d \in Deletions(ikeUe[u].child)
      BY Zenon, <2>1, DeletionsShrink
    <2>2. CASE d = [result |-> "error", gone |-> {}, links |-> links, failed |-> FALSE]
      BY Zenon, <2>2
    <2> QED BY Zenon, <2>1, <2>2 DEF RemoveOutcomes
  <1>2. IKEUePool' \subseteq IKEUePool /\ IKESPIToNGAPId' \subseteq IKESPIToNGAPId
    BY Zenon DEF Remove
  <1>3. XfrmIfaces' \subseteq XfrmIfaces /\ links' = d.links /\ UNCHANGED XfrmIfaceIdOffsetForUP
    BY Zenon DEF Remove, IfacesAfter
  <1> QED BY Zenon, <1>1, <1>2, <1>3

\* What the loops tell each other and the UPF, and the interfaces, keep their types.
LEMMA MoreTypesKept == ASSUME Types, MoreTypes, [Next]_vars PROVE MoreTypes'
  <1> DEFINE Pools == /\ IKEUePool' \subseteq Ue /\ IKESPIToNGAPId' \subseteq Ue
                      /\ NGAPIdToIKESPI' \subseteq Ue
             Interfaces == /\ XfrmIfaces' \subseteq Iface /\ links' \subseteq Iface
                           /\ XfrmIfaceIdOffsetForUP' \in Nat \ {0}
             Rest == /\ nextTeid' \in Teid /\ ikeUp' \in BOOLEAN /\ exit' \in Exit
                     /\ upf' \in [Teid -> [ue: Ue, session: Session] \cup {None}]
  <1> SUFFICES Pools /\ Interfaces /\ Rest /\ ngapEvt' \in Seq(NgapEvt)
    BY Zenon DEF MoreTypes
  <1>a. /\ UNCHANGED <<IKEUePool, IKESPIToNGAPId, NGAPIdToIKESPI>> => Pools
        /\ UNCHANGED ifVars => Interfaces
        /\ UNCHANGED <<nextTeid, ikeUp, exit, upf>> => Rest
        /\ UNCHANGED ngapEvt => ngapEvt' \in Seq(NgapEvt)
    BY Zenon DEF MoreTypes, ifVars
  <1>b. ASSUME NEW cs, NEW d \in Deletions(cs), IfacesAfter(d) PROVE Interfaces
    <2>1. XfrmIfaces' \subseteq XfrmIfaces /\ links' \subseteq links
            /\ UNCHANGED XfrmIfaceIdOffsetForUP
      BY Zenon, <1>b, DeletionsShrink DEF IfacesAfter
    <2> QED BY Zenon, <2>1 DEF MoreTypes
  <1>1. CASE UserPlaneStep \/ UNCHANGED vars
    <2>1. UNCHANGED <<ikeVars, ngapVars, ngapEvt, upf>>
      BY Zenon, <1>1, UserPlaneStepKeeps DEF vars, ikeVars, ngapVars
    <2>2. exit' \in Exit
      BY Zenon, <1>1 DEF MoreTypes, vars, UserPlaneStep, greListenAndServe, handleQoSTPDU,
           forwardUL_ran, forwardUL, forwardDL_ike, forwardDL, Go, Exit
    <2> QED BY Zenon, <1>a, <2>1, <2>2 DEF ikeVars, ngapVars, ifVars, MoreTypes
  <1>2. ASSUME NEW u \in Ue, Register(u) PROVE Pools /\ Interfaces /\ Rest /\ ngapEvt' \in Seq(NgapEvt)
    <2>1. Pools BY Zenon, <1>2 DEF Register, MoreTypes
    <2> QED BY Zenon, <1>a, <1>2, <2>1 DEF Register
  <1>3. ASSUME NEW u \in Ue, HandleIKEAUTH(u) \/ CompleteChildSA(u)
        PROVE  Pools /\ Interfaces /\ Rest /\ ngapEvt' \in Seq(NgapEvt)
    BY Zenon, <1>a, <1>3 DEF HandleIKEAUTH, CompleteChildSA, ngapVars
  <1>4. ASSUME NEW u \in Ue, HandleInformationalEsp(u)
        PROVE  Pools /\ Interfaces /\ Rest /\ ngapEvt' \in Seq(NgapEvt)
    <2>1. PICK c \in ikeUe[u].child : \E d \in Deletions({c}) :
             /\ IfacesAfter(d)
             /\ ngapEvt' = IF d.result = "ok"
                           THEN Append(ngapEvt, [type |-> "SendPDUSessionResourceRelease",
                                                 ue |-> u, session |-> c.session])
                           ELSE ngapEvt
      BY Zenon, <1>4 DEF HandleInformationalEsp
    <2>2. c.session \in Session \cup {None}
      BY DEF Types, IkeTypes, IkeUe, ChildSA
    <2>3. [type |-> "SendPDUSessionResourceRelease", ue |-> u, session |-> c.session] \in NgapEvt
      BY Zenon, <2>2 DEF NgapEvt
    <2>4. ngapEvt' \in Seq(NgapEvt)
      BY <2>1, <2>3 DEF MoreTypes
    <2>5. Interfaces BY Zenon, <1>b, <2>1
    <2> QED BY Zenon, <1>a, <1>4, <2>4, <2>5 DEF HandleInformationalEsp, ngapVars
  <1>5. ASSUME NEW u \in Ue, HandleInformationalAnswer(u)
        PROVE  Pools /\ Interfaces /\ Rest /\ ngapEvt' \in Seq(NgapEvt)
    <2>1. [type |-> "SendPDUSessionResourceRelease", ue |-> u, session |-> None] \in NgapEvt
      BY Zenon DEF NgapEvt
    <2>2. ngapEvt' \in Seq(NgapEvt)
      BY <1>5, <2>1 DEF MoreTypes, HandleInformationalAnswer
    <2> QED BY Zenon, <1>a, <1>5, <2>2 DEF HandleInformationalAnswer, ngapVars
  <1>6. ASSUME NEW u, NEW d \in RemoveOutcomes(u), Remove(u, d)
        PROVE  Interfaces /\ IKEUePool' \subseteq Ue /\ IKESPIToNGAPId' \subseteq Ue
    BY Zenon, <1>6, RemoveShrinks DEF MoreTypes
  <1>7. ASSUME NEW u \in Ue, HandleInformationalIke(u)
        PROVE  Pools /\ Interfaces /\ Rest /\ ngapEvt' \in Seq(NgapEvt)
    <2>1. Interfaces /\ IKEUePool' \subseteq Ue /\ IKESPIToNGAPId' \subseteq Ue
      BY Zenon, <1>6, <1>7 DEF HandleInformationalIke
    <2>2. UNCHANGED <<NGAPIdToIKESPI, nextTeid, ikeUp, exit, upf, ngapEvt>>
      BY Zenon, <1>7 DEF HandleInformationalIke, ngapVars
    <2> QED BY Zenon, <1>a, <2>1, <2>2 DEF MoreTypes
  <1>8. CASE HandleCreatePDUSession
    BY Zenon, <1>a, <1>8 DEF HandleCreatePDUSession, ngapVars
  <1>9. CASE continueCreateChildSA
    <2>1. UNCHANGED <<IKEUePool, IKESPIToNGAPId, NGAPIdToIKESPI, nextTeid, ikeUp, exit, upf>>
      BY Zenon, <1>9 DEF continueCreateChildSA, ngapVars
    <2>t. ikeTask \in IkeTask
      BY Zenon, <1>9 DEF continueCreateChildSA, Types, IkeTypes
    <2>2. [type |-> "SendPDUSessionResourceSetupRes", ue |-> ikeTask.ue, pdu |-> ikeTask.pdu]
             \in NgapEvt
      BY Zenon, <2>t DEF NgapEvt, IkeTask
    <2>3. \/ UNCHANGED ngapEvt
          \/ ngapEvt' = Append(ngapEvt, [type |-> "SendPDUSessionResourceSetupRes",
                                         ue |-> ikeTask.ue, pdu |-> ikeTask.pdu])
      BY Zenon, <1>9 DEF continueCreateChildSA, Connected
    <2>4. ngapEvt' \in Seq(NgapEvt)
      BY <2>2, <2>3 DEF MoreTypes
    <2>5. CASE UNCHANGED ifVars
      BY Zenon, <1>a, <2>1, <2>4, <2>5
    <2>6. ASSUME NEW own \in BOOLEAN, NEW i, i = IF own THEN XfrmIfaceIdOffsetForUP ELSE 0,
                 XfrmIfaces' = XfrmIfaces \cup {i},
                 links' = IF own THEN links \cup {i} ELSE links,
                 XfrmIfaceIdOffsetForUP' = XfrmIfaceIdOffsetForUP + (IF own THEN 1 ELSE 0)
          PROVE  Interfaces
      BY <2>6 DEF MoreTypes, Iface
    <2>7. (ikeTask.pdu.len > 1) \in BOOLEAN
      <3>1. ikeTask.pdu.len \in {Cardinality(S) : S \in SUBSET Session}
        BY Zenon, <2>t DEF IkeTask, Unactivated
      <3> QED OBVIOUS
    <2>8. Interfaces
      BY Zenon, <1>9, <1>a, <2>6, <2>7 DEF continueCreateChildSA
    <2> QED BY Zenon, <1>a, <2>1, <2>4, <2>8
  <1>10. CASE HandleSendChildSADeleteRequest
    <2>1. Interfaces
      BY Zenon, <1>a, <1>b, <1>10 DEF HandleSendChildSADeleteRequest
    <2>2. UNCHANGED <<IKEUePool, IKESPIToNGAPId, NGAPIdToIKESPI, nextTeid, exit, upf, ngapEvt>>
      BY Zenon, <1>10 DEF HandleSendChildSADeleteRequest, ngapVars
    <2>3. ikeUp' \in BOOLEAN
      BY Zenon, <1>10 DEF HandleSendChildSADeleteRequest, MoreTypes
    <2> QED BY Zenon, <1>a, <2>1, <2>2, <2>3 DEF MoreTypes
  <1>11. CASE HandleIKEDeleteEvt
    <2>1. Interfaces /\ IKEUePool' \subseteq Ue /\ IKESPIToNGAPId' \subseteq Ue
      BY Zenon, <1>6, <1>11, <1>a DEF HandleIKEDeleteEvt, MoreTypes
    <2>2. UNCHANGED <<NGAPIdToIKESPI, nextTeid, exit, upf, ngapEvt>>
      BY Zenon, <1>11 DEF HandleIKEDeleteEvt, ngapVars
    <2>3. ikeUp' \in BOOLEAN
      BY Zenon, <1>11 DEF HandleIKEDeleteEvt, MoreTypes
    <2> QED BY Zenon, <1>a, <2>1, <2>2, <2>3 DEF MoreTypes
  <1>12. CASE NgapLoop
    <2>1. UNCHANGED ikeVars /\ UNCHANGED exit
      BY ZenonT(30), <1>12 DEF NgapLoop, HandleUEContextReleaseCommand, HandleNGReset,
           CreatePDUSession, HandlePDUSessionResourceReleaseCommand,
           HandlePDUSessionResourceSetupRequest, HandleSendPDUSessionResourceSetupResponse,
           HandleSendPDUSessionResourceRelease
    <2>2. NGAPIdToIKESPI' \subseteq NGAPIdToIKESPI
      BY ZenonT(30), <1>12 DEF NgapLoop, HandleUEContextReleaseCommand, HandleNGReset,
           CreatePDUSession, HandlePDUSessionResourceReleaseCommand, RemoveRanUe,
           HandlePDUSessionResourceSetupRequest, HandleSendPDUSessionResourceSetupResponse,
           HandleSendPDUSessionResourceRelease, ngapVars
    <2>3. nextTeid' \in Teid
      <3>1. \/ UNCHANGED nextTeid
            \/ \E t \in Teid : nextTeid' = (t % hist.bound.teids) + 1
        BY ZenonT(30), <1>12 DEF NgapLoop, HandleUEContextReleaseCommand, HandleNGReset,
           CreatePDUSession, HandlePDUSessionResourceReleaseCommand, NewTEID,
           HandlePDUSessionResourceSetupRequest, HandleSendPDUSessionResourceSetupResponse,
           HandleSendPDUSessionResourceRelease, ngapVars
      <3>2. hist.bound.teids \in 1..MaxTeid
        BY Zenon DEF Types, NgapTypes, Hist, Bound
      <3> QED BY <3>1, <3>2, UserPlaneAssumption DEF Teid, MoreTypes
    <2>4. ngapEvt' \in Seq(NgapEvt)
      <3>1. UNCHANGED ngapEvt \/ \E type : TakeNgapEvt(type)
        BY ZenonT(30), <1>12 DEF NgapLoop, HandleUEContextReleaseCommand, HandleNGReset,
           CreatePDUSession, HandlePDUSessionResourceReleaseCommand,
           HandlePDUSessionResourceSetupRequest, HandleSendPDUSessionResourceSetupResponse,
           HandleSendPDUSessionResourceRelease
      <3> QED BY Zenon, <1>a, <3>1, TakenNgapEvt
    <2>5. upf' \in [Teid -> [ue: Ue, session: Session] \cup {None}]
      <3>1. CASE HandleSendPDUSessionResourceSetupResponse
        <4>1. Head(ngapEvt) \in NgapEvt /\ Head(ngapEvt).type = "SendPDUSessionResourceSetupRes"
          BY Zenon, <3>1, TakenNgapEvt DEF HandleSendPDUSessionResourceSetupResponse
        <4>2. Head(ngapEvt).ue \in Ue /\ Head(ngapEvt).pdu \in Unactivated
          BY Zenon, <4>1 DEF NgapEvt
        <4>3. [ue |-> Head(ngapEvt).ue, session |-> Head(ngapEvt).pdu.session]
                 \in [ue: Ue, session: Session]
          BY Zenon, <4>2 DEF Unactivated
        <4> QED BY ZenonT(30), <3>1, <4>3 DEF HandleSendPDUSessionResourceSetupResponse, MoreTypes
      <3>2. CASE UNCHANGED upf
        BY Zenon, <3>2 DEF MoreTypes
      <3> QED
        BY ZenonT(30), <1>12, <3>1, <3>2 DEF NgapLoop, HandleUEContextReleaseCommand, HandleNGReset,
           CreatePDUSession, HandlePDUSessionResourceReleaseCommand,
           HandlePDUSessionResourceSetupRequest, HandleSendPDUSessionResourceRelease
    <2> QED BY Zenon, <1>a, <2>1, <2>2, <2>3, <2>4, <2>5 DEF MoreTypes, ikeVars, ifVars
  <1> QED
    BY Zenon, <1>1, <1>2, <1>3, <1>4, <1>5, <1>7, <1>8, <1>9, <1>10, <1>11, <1>12 DEF Next, IkeLoop

\* What a step may do to an IKE UE that adds nothing to what holds a session: take child SAs and
\* a half exchange away, remove the UE, or carry it on before its first session.
UeSame(u) ==
    /\ ikeUe'[u].auth = ikeUe[u].auth /\ ikeUe'[u].IPSecInnerIP = ikeUe[u].IPSecInnerIP
    /\ ikeUe'[u].sa => ikeUe[u].sa
    /\ ikeUe'[u].half = ikeUe[u].half /\ ikeUe'[u].child \subseteq ikeUe[u].child
UeEnds(u) ==
    /\ ikeUe'[u].auth = "gone" /\ ~ikeUe'[u].sa /\ u \notin IKEUePool'
    /\ ikeUe'[u].half = None /\ ikeUe'[u].child = {}
UeBegins(u) ==
    /\ ikeUe[u].auth \in {"unused", "eap"} /\ ikeUe'[u].auth \in {"eap", "failed", "done"}
    /\ ikeUe'[u].auth = "done" => ikeUe'[u].IPSecInnerIP # None
    /\ ikeUe'[u].half \in {ikeUe[u].half, None}
    /\ \A c \in ikeUe'[u].child :
         c \in ikeUe[u].child \/ (c.session = None /\ c.iface = None /\ c.teid = None)
IkeUeKept ==
    /\ \A u \in Ue : UeSame(u) \/ UeEnds(u) \/ UeBegins(u)
    /\ \A u \in IKEUePool' : u \in IKEUePool \/ ikeUe'[u].auth = "eap"
    /\ ikeTask' = None \/ UNCHANGED <<ikeTask, ikeUe>>

\* No CreatePDUSession and no SetupRes event is added.
Moves(q, r, type) == \E d \in {0, 1} : \A k \in 1..Len(r) : r[k].type = type =>
    k + d \in 1..Len(q) /\ r[k] = q[k + d]
IkeMoves == Moves(ikeEvt, ikeEvt', "CreatePDUSession")
NgapMoves == Moves(ngapEvt, ngapEvt', "SendPDUSessionResourceSetupRes")

\* Sessions and TEIDs leave the RAN UEs, and RAN UEs the pool; a new RAN UE is of a new UE.
HistKept == hist'.again = hist.again /\ hist'.reused = hist.reused /\ (hist.twice => hist'.twice)
RanKept ==
    /\ \/ ngapTask' = ngapTask
       \/ /\ ngapTask' = None
          /\ \A u \in Ue, s \in Session : ranUe'[u].PduSessionList[s] # [teid |-> None]
    /\ \A u \in RANUePool' : u \notin RANUePool =>
         ikeUe[u].auth = "unused" /\ \A s \in Session : ranUe'[u].PduSessionList[s] = None
    /\ \A u \in Ue, s \in Session :
         ranUe'[u].PduSessionList[s] \in {ranUe[u].PduSessionList[s], None}
    /\ \A u \in RANUePool \cap RANUePool' :
         /\ ikeUe[u].auth # "unused" => ranUe[u].used \subseteq ranUe'[u].used
         /\ \A t \in Teid : AllocatedUETEID[t] = u => AllocatedUETEID'[t] = u
    /\ \A t \in Teid : AllocatedUETEID'[t] \in {AllocatedUETEID[t], None}
    /\ HistKept

\* A step that sets up no session and moves none on: registration, IKE_AUTH, every deletion and
\* release.  One lemma, QuietKeeps, covers them all.
QuietStep ==
    /\ IkeUeKept /\ IkeMoves /\ NgapMoves /\ RanKept
    /\ UNCHANGED <<XfrmIfaceIdOffsetForUP, upf, pkt>>

\* Leaving an event channel alone adds no event.
LEMMA MovesSame == ASSUME NEW S, NEW q \in Seq(S), NEW type PROVE Moves(q, q, type)
  <1>1. \A k \in 1..Len(q) : k + 0 = k OBVIOUS
  <1> QED BY Zenon, <1>1 DEF Moves

\* Taking the first event adds none.
LEMMA MovesTail ==
    ASSUME NEW S, NEW q \in Seq(S), q # <<>>, NEW type PROVE Moves(q, Tail(q), type)
  <1>1. \A k \in 1..Len(Tail(q)) : k + 1 \in 1..Len(q) /\ Tail(q)[k] = q[k + 1] OBVIOUS
  <1> QED BY Zenon, <1>1 DEF Moves

\* Appending an event of another type adds none of this one.
LEMMA MovesAppend ==
    ASSUME NEW S, NEW q \in Seq(S), NEW type, NEW e \in S, e.type # type
    PROVE  Moves(q, Append(q, e), type)
  <1>1. ASSUME NEW k \in 1..Len(Append(q, e)), Append(q, e)[k].type = type
        PROVE  k + 0 \in 1..Len(q) /\ Append(q, e)[k] = q[k + 0]
    BY <1>1
  <1> QED BY Zenon, <1>1 DEF Moves

\* The same for the channel of the IKE loop.
LEMMA IkeEvtMoves ==
    ASSUME IkeTypes
    PROVE  /\ ikeEvt' = ikeEvt => IkeMoves
           /\ \A type : TakeIkeEvt(type) => IkeMoves
           /\ \A e \in IkeEvt : e.type # "CreatePDUSession" /\ ikeEvt' = Append(ikeEvt, e) => IkeMoves
  <1>t. ikeEvt \in Seq(IkeEvt) BY Zenon DEF IkeTypes
  <1>1. ASSUME ikeEvt' = ikeEvt PROVE IkeMoves
    BY Zenon, <1>t, <1>1, MovesSame DEF IkeMoves
  <1>2. ASSUME NEW type, TakeIkeEvt(type) PROVE IkeMoves
    BY Zenon, <1>t, <1>2, MovesTail DEF IkeMoves, TakeIkeEvt
  <1>3. ASSUME NEW e \in IkeEvt, e.type # "CreatePDUSession", ikeEvt' = Append(ikeEvt, e)
        PROVE  IkeMoves
    BY Zenon, <1>t, <1>3, MovesAppend DEF IkeMoves
  <1> QED BY Zenon, <1>1, <1>2, <1>3

\* The same for the channel of the NGAP loop.
LEMMA NgapEvtMoves ==
    ASSUME MoreTypes
    PROVE  /\ ngapEvt' = ngapEvt => NgapMoves
           /\ \A type : TakeNgapEvt(type) => NgapMoves
           /\ \A e \in NgapEvt :
                e.type # "SendPDUSessionResourceSetupRes" /\ ngapEvt' = Append(ngapEvt, e)
                  => NgapMoves
  <1>t. ngapEvt \in Seq(NgapEvt) BY Zenon DEF MoreTypes
  <1>1. ASSUME ngapEvt' = ngapEvt PROVE NgapMoves
    BY Zenon, <1>t, <1>1, MovesSame DEF NgapMoves
  <1>2. ASSUME NEW type, TakeNgapEvt(type) PROVE NgapMoves
    BY Zenon, <1>t, <1>2, MovesTail DEF NgapMoves, TakeNgapEvt
  <1>3. ASSUME NEW e \in NgapEvt, e.type # "SendPDUSessionResourceSetupRes",
               ngapEvt' = Append(ngapEvt, e)
        PROVE  NgapMoves
    BY Zenon, <1>t, <1>3, MovesAppend DEF NgapMoves
  <1> QED BY Zenon, <1>1, <1>2, <1>3

\* Counting a failure changes nothing else of the history.
LEMMA FailingKeeps == ASSUME hist \in Hist, NEW failed, hist' = Failing(failed) PROVE HistKept
  BY Zenon DEF Failing, Hist, HistKept

\* A handler of the IKE loop leaves the RAN UEs alone.
LEMMA IkeLoopKeepsRan ==
    ASSUME Types, UNCHANGED ngapVars, HistKept PROVE RanKept
  <1>1. UNCHANGED <<RANUePool, ranUe, AllocatedUETEID, ngapTask>>
    BY Zenon DEF ngapVars
  <1> QED BY Zenon, <1>1 DEF RanKept

\* A step that leaves the IKE UEs alone.
LEMMA SameIkeUe ==
    ASSUME UNCHANGED <<IKEUePool, ikeUe, ikeTask>> PROVE IkeUeKept
  BY Zenon DEF IkeUeKept, UeSame

\* A step of the IKE loop for UE u.
LEMMA OneIkeUe ==
    ASSUME IkeTypes, NEW u \in Ue, UNCHANGED ikeTask, ikeTask = None, NEW r, ikeUe' = [ikeUe EXCEPT ![u] = r],
           UeSame(u) \/ UeEnds(u) \/ UeBegins(u), IKEUePool' \subseteq IKEUePool
    PROVE  IkeUeKept
  <1>1. \A v \in Ue : v # u => ikeUe'[v] = ikeUe[v]
    BY Zenon DEF IkeTypes
  <1>2. \A v \in Ue : v # u => UeSame(v)
    BY Zenon, <1>1 DEF UeSame
  <1> QED BY Zenon, <1>2 DEF IkeUeKept

\* Registration.
LEMMA RegisterQuiet == ASSUME Types, MoreTypes, NEW u \in Ue, Register(u) PROVE QuietStep
  <1>1. \A v \in Ue : v # u => ikeUe'[v] = ikeUe[v] /\ ranUe'[v] = ranUe[v]
    BY Zenon DEF Register, Types, IkeTypes, NgapTypes
  <1>2. ikeUe'[u] = NewIkeUe /\ ranUe'[u] = NewRanUe
    BY Zenon DEF Register, Types, IkeTypes, NgapTypes
  <1>3. UeBegins(u)
    <2>1. ikeUe[u].auth = "unused" BY Zenon DEF Register
    <2> QED BY <1>2, <2>1 DEF UeBegins, NewIkeUe
  <1>4. \A v \in Ue : v # u => UeSame(v)
    BY Zenon, <1>1 DEF UeSame
  <1>5. /\ UNCHANGED <<AllocatedUETEID, ngapTask, ikeEvt, ngapEvt, upf, hist, pkt, ikeTask>>
        /\ UNCHANGED XfrmIfaceIdOffsetForUP /\ ikeTask = None
        /\ IKEUePool' = IKEUePool \cup {u} /\ RANUePool' = RANUePool \cup {u}
        /\ ikeUe[u].auth = "unused"
    BY Zenon DEF Register, Quiet, IkeIdle, ifVars
  <1>6. IkeUeKept
    <2>1. ikeUe'[u].auth = "eap" BY <1>2 DEF NewIkeUe
    <2> QED BY Zenon, <1>3, <1>4, <1>5, <2>1 DEF IkeUeKept
  <1>7. RanKept
    <2>1. \A v \in Ue, s \in Session :
            ranUe'[v].PduSessionList[s] \in {ranUe[v].PduSessionList[s], None}
      <3>1. \A s \in Session : ranUe'[u].PduSessionList[s] = None BY <1>2 DEF NewRanUe
      <3> QED BY Zenon, <1>1, <3>1
    <2>2. \A v \in RANUePool \cap RANUePool' :
             ikeUe[v].auth # "unused" => ranUe[v].used \subseteq ranUe'[v].used
      BY Zenon, <1>1, <1>5 DEF Types, NgapTypes
    <2>3. \A v \in RANUePool' : v \notin RANUePool =>
             ikeUe[v].auth = "unused" /\ \A s \in Session : ranUe'[v].PduSessionList[s] = None
      <3>1. \A s \in Session : ranUe'[u].PduSessionList[s] = None BY <1>2 DEF NewRanUe
      <3> QED BY Zenon, <1>5, <3>1
    <2> QED BY Zenon, <1>5, <2>1, <2>2, <2>3 DEF RanKept, HistKept
  <1> QED BY Zenon, <1>5, <1>6, <1>7, IkeEvtMoves, NgapEvtMoves DEF QuietStep, Types

\* IKE_AUTH gives the UE an address, and no child SA of a session.
LEMMA AuthQuiet == ASSUME Types, MoreTypes, NEW u \in Ue, HandleIKEAUTH(u) PROVE QuietStep
  <1>1. /\ UNCHANGED <<IKEUePool, ngapVars, ikeEvt, ngapEvt, upf, pkt, ikeTask>>
        /\ UNCHANGED XfrmIfaceIdOffsetForUP /\ ikeTask = None /\ ikeUe[u].auth = "eap"
    BY Zenon DEF HandleIKEAUTH, Quiet, IkeIdle, ifVars
  <1>2. HistKept
    <2>1. UNCHANGED hist \/ \E x : hist' = Failing(x)
      BY Zenon DEF HandleIKEAUTH
    <2>2. hist \in Hist BY Zenon DEF Types, NgapTypes
    <2> QED BY Zenon, <2>1, <2>2, FailingKeeps DEF HistKept
  <1>t. ikeUe \in [Ue -> IkeUe] /\ ikeUe[u] \in IkeUe BY Zenon DEF Types, IkeTypes
  <1>n. \A a \in Addr : a # None BY Zenon, UserPlaneAssumption
  <1>3. ASSUME NEW r, ikeUe' = [ikeUe EXCEPT ![u] = r], r.auth \in {"failed", "done"},
               r.auth = "done" => r.IPSecInnerIP # None, r.half = ikeUe[u].half,
               \A c \in r.child :
                 c \in ikeUe[u].child \/ (c.session = None /\ c.iface = None /\ c.teid = None)
        PROVE  IkeUeKept
    <2>1. ikeUe'[u] = r BY Zenon, <1>t, <1>3
    <2>2. UeBegins(u)
      BY ONLY Zenon, <1>1, <1>3, <2>1 DEF UeBegins
    <2> QED BY Zenon, <1>1, <1>3, <2>2, OneIkeUe DEF Types
  <1>4. ASSUME ikeUe' = [ikeUe EXCEPT ![u].auth = "failed"] PROVE IkeUeKept
    <2> DEFINE r == [ikeUe[u] EXCEPT !.auth = "failed"]
    <2>1. ikeUe' = [ikeUe EXCEPT ![u] = r] BY Zenon, <1>t, <1>4
    <2>2. r.auth = "failed" /\ r.half = ikeUe[u].half /\ r.child = ikeUe[u].child
      BY Zenon, <1>t DEF IkeUe
    <2> HIDE DEF r
    <2>3. r.auth \in {"failed", "done"} /\ (r.auth = "done" => r.IPSecInnerIP # None) BY Zenon, <2>2
    <2>4. \A c \in r.child :
            c \in ikeUe[u].child \/ (c.session = None /\ c.iface = None /\ c.teid = None)
      BY ONLY Zenon, <2>2
    <2>5. r.half = ikeUe[u].half BY Zenon, <2>2
    <2> QED BY Zenon, <1>3, <2>1, <2>3, <2>4, <2>5
  <1>5. ASSUME NEW a \in Addr,
               NEW child \in SUBSET [session: {None}, teid: {None}, iface: {None}, rules: BOOLEAN],
               ikeUe' = [ikeUe EXCEPT
                          ![u].auth = IF \E c \in child : c.rules THEN "done" ELSE "failed",
                          ![u].IPSecInnerIP = a, ![u].child = child]
        PROVE  IkeUeKept
    <2>1. \A c \in child : c.session = None /\ c.iface = None /\ c.teid = None
      BY Zenon
    <2> DEFINE auth == IF \E c \in child : c.rules THEN "done" ELSE "failed"
               r == [ikeUe[u] EXCEPT !.auth = auth, !.IPSecInnerIP = a, !.child = child]
    <2>2. auth \in {"failed", "done"} BY Zenon
    <2>3. ikeUe' = [ikeUe EXCEPT ![u] = r]
      BY Zenon, <1>5, <1>t
    <2> HIDE DEF auth
    <2>4. r.auth = auth /\ r.half = ikeUe[u].half /\ r.child = child /\ r.IPSecInnerIP = a
      BY Zenon, <1>t DEF IkeUe
    <2> HIDE DEF r
    <2> QED BY Zenon, <1>3, <1>n, <2>1, <2>2, <2>3, <2>4
  <1>6. IkeUeKept BY Zenon, <1>4, <1>5 DEF HandleIKEAUTH
  <1>7. RanKept BY Zenon, <1>1, <1>2, IkeLoopKeepsRan
  <1> QED BY Zenon, <1>1, <1>6, <1>7, IkeEvtMoves, NgapEvtMoves DEF QuietStep, Types

\* Deleting child SAs takes some of those of one UE away.
LEMMA ChildrenLeave ==
    ASSUME IkeTypes, NEW u \in Ue, UNCHANGED <<IKEUePool, ikeTask>>, ikeTask = None,
           NEW gone, NEW asked,
           ikeUe' = [ikeUe EXCEPT ![u] = [ikeUe[u] EXCEPT !.child = ikeUe[u].child \ gone,
                                                          !.asked = asked]]
    PROVE  IkeUeKept
  <1>1. ikeUe \in [Ue -> IkeUe] /\ ikeUe[u] \in IkeUe BY Zenon DEF IkeTypes
  <1>2. /\ ikeUe'[u].auth = ikeUe[u].auth /\ ikeUe'[u].half = ikeUe[u].half
        /\ ikeUe'[u].IPSecInnerIP = ikeUe[u].IPSecInnerIP /\ ikeUe'[u].sa = ikeUe[u].sa
        /\ ikeUe'[u].child = ikeUe[u].child \ gone
    BY Zenon, <1>1 DEF IkeUe
  <1>3. UeSame(u) BY Zenon, <1>2 DEF UeSame
  <1> QED BY Zenon, <1>3, OneIkeUe

\* N3IWFIkeUe.Remove ends the UE, or leaves it with fewer child SAs.
LEMMA RemoveQuietly ==
    ASSUME Types, NEW u \in Ue, NEW d, Remove(u, d), UNCHANGED ikeTask, ikeTask = None
    PROVE  IkeUeKept /\ HistKept /\ UNCHANGED XfrmIfaceIdOffsetForUP
  <1>1. ikeUe \in [Ue -> IkeUe] /\ ikeUe[u] \in IkeUe /\ hist \in Hist
    BY Zenon DEF Types, IkeTypes, NgapTypes
  <1>2. HistKept
    <2>1. Failing(d.failed) \in Hist /\ Failing(d.failed).again = hist.again
            /\ Failing(d.failed).reused = hist.reused /\ Failing(d.failed).twice = hist.twice
      BY <1>1 DEF Failing, Hist
    <2>2. hist' = [Failing(d.failed) EXCEPT !.twice = Failing(d.failed).twice \/ ~ikeUe[u].sa]
      BY Zenon DEF Remove
    <2> QED BY Zenon, <2>1, <2>2 DEF Hist, HistKept
  <1>3. CASE d.result = "ok"
    <2> DEFINE r == [NewIkeUe EXCEPT !.sa = FALSE, !.auth = "gone"]
    <2>1. ikeUe' = [ikeUe EXCEPT ![u] = r] BY Zenon, <1>3 DEF Remove
    <2>2. IKEUePool' = IKEUePool \ {u} BY Zenon, <1>3 DEF Remove
    <2>3. r.auth = "gone" /\ ~r.sa /\ r.half = None /\ r.child = {} BY Zenon DEF NewIkeUe
    <2> HIDE DEF r
    <2>4. UeEnds(u)
      BY Zenon, <1>1, <2>1, <2>2, <2>3 DEF UeEnds
    <2> QED BY Zenon, <1>2, <2>1, <2>2, <2>4, OneIkeUe DEF Remove, IfacesAfter, Types
  <1>4. CASE d.result # "ok"
    <2> DEFINE r == [ikeUe[u] EXCEPT !.sa = FALSE, !.child = ikeUe[u].child \ d.gone]
    <2>1. ikeUe' = [ikeUe EXCEPT ![u] = r] BY Zenon, <1>4 DEF Remove
    <2>2. IKEUePool' = IKEUePool BY Zenon, <1>4 DEF Remove
    <2>3. /\ r.auth = ikeUe[u].auth /\ ~r.sa /\ r.half = ikeUe[u].half
          /\ r.child = ikeUe[u].child \ d.gone /\ r.IPSecInnerIP = ikeUe[u].IPSecInnerIP
      BY Zenon, <1>1 DEF IkeUe
    <2> HIDE DEF r
    <2>4. UeSame(u)
      BY Zenon, <1>1, <2>1, <2>2, <2>3 DEF UeSame
    <2> QED BY Zenon, <1>2, <2>1, <2>2, <2>4, OneIkeUe DEF Remove, IfacesAfter, Types
  <1> QED BY Zenon, <1>3, <1>4

\* The handlers of the IKE loop that delete child SAs, or the UE.
LEMMA DeletingQuiet ==
    ASSUME Types, MoreTypes,
           \/ HandleSendChildSADeleteRequest \/ HandleIKEDeleteEvt
           \/ \E u \in Ue : HandleInformationalEsp(u) \/ HandleInformationalAnswer(u)
                              \/ HandleInformationalIke(u)
    PROVE  QuietStep
  <1>h. hist \in Hist BY Zenon DEF Types, NgapTypes
  <1>t. ikeUe \in [Ue -> IkeUe] BY Zenon DEF Types, IkeTypes
  <1>1. CASE HandleSendChildSADeleteRequest
    <2>1. /\ UNCHANGED <<IKEUePool, ngapVars, ngapEvt, upf, pkt, ikeTask>> /\ ikeTask = None
          /\ TakeIkeEvt("SendChildSADeleteRequest")
      BY Zenon, <1>1 DEF HandleSendChildSADeleteRequest, Quiet, TakeIkeEvt, IkeIdle
    <2>2. PICK u \in Ue : u = Head(ikeEvt).ue BY Zenon, <2>1, TakenEvt DEF Types
    <2>3. \/ UNCHANGED <<ikeUe, ifVars, hist>>
          \/ \E d : /\ IfacesAfter(d) /\ hist' \in {hist, Failing(d.failed)}
                    /\ \/ ikeUe' = [ikeUe EXCEPT ![u].child = @ \ d.gone,
                                                 ![u].asked = @ \/ d.result = "ok"]
                       \/ ikeUe' = [ikeUe EXCEPT ![u].child = @ \ d.gone]
      BY Zenon, <1>1, <2>2 DEF HandleSendChildSADeleteRequest
    <2>4. HistKept BY Zenon, <1>h, <2>3, FailingKeeps DEF HistKept
    <2>5. IkeUeKept /\ UNCHANGED XfrmIfaceIdOffsetForUP
      <3>1. CASE UNCHANGED <<ikeUe, ifVars>>
        BY Zenon, <2>1, <3>1, SameIkeUe DEF ifVars
      <3>2. ASSUME NEW d, IfacesAfter(d),
                   \/ ikeUe' = [ikeUe EXCEPT ![u].child = @ \ d.gone,
                                             ![u].asked = @ \/ d.result = "ok"]
                   \/ ikeUe' = [ikeUe EXCEPT ![u].child = @ \ d.gone]
            PROVE  IkeUeKept /\ UNCHANGED XfrmIfaceIdOffsetForUP
        <4>1. \E asked : ikeUe' = [ikeUe EXCEPT ![u] =
                 [ikeUe[u] EXCEPT !.child = ikeUe[u].child \ d.gone, !.asked = asked]]
          <5>1. CASE ikeUe' = [ikeUe EXCEPT ![u].child = @ \ d.gone,
                                            ![u].asked = @ \/ d.result = "ok"]
            <6>1. ikeUe' = [ikeUe EXCEPT ![u] =
                 [ikeUe[u] EXCEPT !.child = ikeUe[u].child \ d.gone,
                                  !.asked = ikeUe[u].asked \/ d.result = "ok"]]
              BY Zenon, <1>t, <5>1 DEF IkeUe
            <6> QED BY Zenon, <6>1
          <5>2. CASE ikeUe' = [ikeUe EXCEPT ![u].child = @ \ d.gone]
            <6>1. ikeUe' = [ikeUe EXCEPT ![u] =
                 [ikeUe[u] EXCEPT !.child = ikeUe[u].child \ d.gone, !.asked = ikeUe[u].asked]]
              BY Zenon, <1>t, <5>2 DEF IkeUe
            <6> QED BY Zenon, <6>1
          <5> QED BY Zenon, <3>2, <5>1, <5>2
        <4> QED BY Zenon, <2>1, <3>2, <4>1, ChildrenLeave DEF Types, IfacesAfter
      <3> QED BY Zenon, <2>3, <3>1, <3>2
    <2> QED
      BY Zenon, <2>1, <2>4, <2>5, IkeLoopKeepsRan, IkeEvtMoves, NgapEvtMoves DEF QuietStep, Types
  <1>2. CASE HandleIKEDeleteEvt
    <2>1. /\ UNCHANGED <<ngapVars, ngapEvt, upf, pkt, ikeTask>> /\ ikeTask = None
          /\ TakeIkeEvt("IKEDeleteRequest")
      BY Zenon, <1>2 DEF HandleIKEDeleteEvt, Quiet, TakeIkeEvt, IkeIdle
    <2>2. PICK u \in Ue : u = Head(ikeEvt).ue BY Zenon, <2>1, TakenEvt DEF Types
    <2>3. \/ UNCHANGED <<IKEUePool, ikeUe, ifVars, hist>> \/ \E d : Remove(u, d)
      BY Zenon, <1>2, <2>2 DEF HandleIKEDeleteEvt
    <2>4. IkeUeKept /\ HistKept /\ UNCHANGED XfrmIfaceIdOffsetForUP
      BY Zenon, <2>1, <2>3, RemoveQuietly, SameIkeUe DEF HistKept, ifVars
    <2> QED
      BY Zenon, <2>1, <2>4, IkeLoopKeepsRan, IkeEvtMoves, NgapEvtMoves DEF QuietStep, Types
  <1>3. ASSUME NEW u \in Ue, HandleInformationalEsp(u) PROVE QuietStep
    <2>1. /\ UNCHANGED <<IKEUePool, ngapVars, ikeEvt, upf, pkt, ikeTask>> /\ ikeTask = None
      BY Zenon, <1>3 DEF HandleInformationalEsp, Quiet, IkeIdle
    <2>2. PICK c \in ikeUe[u].child : \E d \in Deletions({c}) :
            /\ ikeUe' = [ikeUe EXCEPT ![u].child = @ \ d.gone]
            /\ IfacesAfter(d) /\ hist' = Failing(d.failed)
            /\ ngapEvt' = IF d.result = "ok"
                          THEN Append(ngapEvt, [type |-> "SendPDUSessionResourceRelease",
                                                ue |-> u, session |-> c.session])
                          ELSE ngapEvt
      BY Zenon, <1>3 DEF HandleInformationalEsp
    <2>3. [type |-> "SendPDUSessionResourceRelease", ue |-> u, session |-> c.session] \in NgapEvt
      BY <1>t DEF NgapEvt, IkeUe, ChildSA
    <2>4. NgapMoves
      <3>1. [type |-> "SendPDUSessionResourceRelease", ue |-> u, session |-> c.session].type
               # "SendPDUSessionResourceSetupRes"
        BY Zenon
      <3> QED BY Zenon, <2>2, <2>3, <3>1, NgapEvtMoves
    <2>5. HistKept BY Zenon, <1>h, <2>2, FailingKeeps
    <2>6. IkeUeKept /\ UNCHANGED XfrmIfaceIdOffsetForUP
      <3>1. ASSUME NEW d, ikeUe' = [ikeUe EXCEPT ![u].child = @ \ d.gone] PROVE IkeUeKept
        <4>1. ikeUe' = [ikeUe EXCEPT ![u] =
                 [ikeUe[u] EXCEPT !.child = ikeUe[u].child \ d.gone, !.asked = ikeUe[u].asked]]
          BY Zenon, <1>t, <3>1 DEF IkeUe
        <4> QED BY Zenon, <2>1, <4>1, ChildrenLeave DEF Types
      <3> QED BY Zenon, <2>2, <3>1 DEF IfacesAfter
    <2> QED
      BY Zenon, <2>1, <2>4, <2>5, <2>6, IkeLoopKeepsRan, IkeEvtMoves DEF QuietStep, Types
  <1>4. ASSUME NEW u \in Ue, HandleInformationalAnswer(u) PROVE QuietStep
    <2>1. /\ UNCHANGED <<IKEUePool, ngapVars, ikeEvt, upf, pkt, ikeTask, hist>> /\ ikeTask = None
          /\ UNCHANGED XfrmIfaceIdOffsetForUP
      BY Zenon, <1>4 DEF HandleInformationalAnswer, Quiet, IkeIdle, ifVars
    <2>2. ikeUe' = [ikeUe EXCEPT ![u] =
                 [ikeUe[u] EXCEPT !.child = ikeUe[u].child \ {}, !.asked = FALSE]]
      <3>1. ikeUe' = [ikeUe EXCEPT ![u] = [ikeUe[u] EXCEPT !.asked = FALSE]]
        BY Zenon, <1>4 DEF HandleInformationalAnswer
      <3>2. [ikeUe[u] EXCEPT !.asked = FALSE] =
               [ikeUe[u] EXCEPT !.child = ikeUe[u].child \ {}, !.asked = FALSE]
        <4>1. ikeUe[u].child \ {} = ikeUe[u].child BY Zenon
        <4> QED BY Zenon, <1>t, <4>1 DEF IkeUe
      <3> QED BY Zenon, <3>1, <3>2
    <2>3. IkeUeKept BY Zenon, <2>1, <2>2, ChildrenLeave DEF Types
    <2>4. NgapMoves
      <3> DEFINE e == [type |-> "SendPDUSessionResourceRelease", ue |-> u, session |-> None]
      <3>1. e \in NgapEvt /\ e.type # "SendPDUSessionResourceSetupRes" BY Zenon DEF NgapEvt
      <3>2. ngapEvt' = Append(ngapEvt, e) BY Zenon, <1>4 DEF HandleInformationalAnswer
      <3> HIDE DEF e
      <3> QED BY Zenon, <3>1, <3>2, NgapEvtMoves
    <2> QED
      BY Zenon, <2>1, <2>3, <2>4, IkeLoopKeepsRan, IkeEvtMoves DEF QuietStep, Types, HistKept
  <1>5. ASSUME NEW u \in Ue, HandleInformationalIke(u) PROVE QuietStep
    <2>1. /\ UNCHANGED <<ngapVars, ikeEvt, ngapEvt, upf, pkt, ikeTask>> /\ ikeTask = None
          /\ \E d : Remove(u, d)
      BY Zenon, <1>5 DEF HandleInformationalIke, Quiet, IkeIdle
    <2>2. IkeUeKept /\ HistKept /\ UNCHANGED XfrmIfaceIdOffsetForUP
      BY Zenon, <2>1, RemoveQuietly
    <2> QED
      BY Zenon, <2>1, <2>2, IkeLoopKeepsRan, IkeEvtMoves, NgapEvtMoves DEF QuietStep, Types
  <1> QED BY Zenon, <1>1, <1>2, <1>3, <1>4, <1>5

\* Sessions of RAN UEs end, or only their release states change.
LEMMA SessionsQuiet ==
    ASSUME Types, UNCHANGED <<RANUePool, AllocatedUETEID, ngapTask>>, HistKept,
           NEW u \in Ue, \A v \in Ue : v # u => ranUe'[v] = ranUe[v],
           ranUe'[u].used = ranUe[u].used,
           \A s \in Session : ranUe'[u].PduSessionList[s] \in {ranUe[u].PduSessionList[s], None}
    PROVE  RanKept
  <1>1. \A v \in Ue, s \in Session :
          ranUe'[v].PduSessionList[s] \in {ranUe[v].PduSessionList[s], None}
    BY Zenon
  <1>2. \A v \in Ue : ranUe'[v].used = ranUe[v].used
    BY Zenon
  <1> QED BY Zenon, <1>1, <1>2 DEF RanKept, Types, NgapTypes

\* N3IWFRanUe.Remove frees only TEIDs of the RAN UE.
LEMMA RemoveRanQuiet ==
    ASSUME TeidInv, NEW u \in RANUePool, RemoveRanUe(u), UNCHANGED <<ngapTask, hist>>
    PROVE  RanKept
  <1>t. Types /\ TeidOwned /\ RANUePool \subseteq Ue /\ ranUe \in [Ue -> RanUe]
    BY Zenon DEF TeidInv, Types, NgapTypes
  <1>1. \A v \in Ue : v # u => ranUe'[v] = ranUe[v]
    BY Zenon, <1>t DEF RemoveRanUe
  <1>2. ranUe'[u] \in {ranUe[u], NewRanUe}
    BY Zenon, <1>t DEF RemoveRanUe
  <1>3. \A v \in Ue, s \in Session :
          ranUe'[v].PduSessionList[s] \in {ranUe[v].PduSessionList[s], None}
    <2>1. \A s \in Session : NewRanUe.PduSessionList[s] = None BY Zenon DEF NewRanUe
    <2> QED BY Zenon, <1>1, <1>2, <2>1
  <1>4. RANUePool' = RANUePool \ {u} BY Zenon DEF RemoveRanUe
  <1>5. \A t \in Teid : AllocatedUETEID'[t] = IF t \in Freed(u) THEN None ELSE AllocatedUETEID[t]
    BY Zenon DEF RemoveRanUe
  <1>6. \A t \in Teid : t \in Freed(u) => AllocatedUETEID[t] = u
    <2>1. ASSUME NEW t \in Teid, NEW s \in Active(u), t = ranUe[u].PduSessionList[s].teid
          PROVE  AllocatedUETEID[t] = u
      <3>1. t # None BY UserPlaneAssumption DEF Teid
      <3> QED BY Zenon, <1>t, <2>1, <3>1 DEF TeidOwned
    <2> QED BY Zenon, <2>1 DEF Freed
  <1> QED BY Zenon, <1>t, <1>1, <1>3, <1>4, <1>5, <1>6 DEF RanKept, HistKept

\* The handlers of the NGAP loop that end sessions or a RAN UE.
LEMMA ReleaseQuiet ==
    ASSUME TeidInv, MoreTypes,
           \/ \E u \in Ue : HandleUEContextReleaseCommand(u) \/ HandleNGReset(u)
           \/ \E u \in Ue, s \in Session : HandlePDUSessionResourceReleaseCommand(u, s)
           \/ HandleSendPDUSessionResourceRelease
    PROVE  QuietStep
  <1>t. Types /\ IkeTypes /\ hist \in Hist /\ ranUe \in [Ue -> RanUe] /\ RANUePool \subseteq Ue
    BY Zenon DEF TeidInv, Types, NgapTypes
  <1>d. ASSUME NEW u, NEW ss, Drop(u, ss) PROVE HistKept
    <2>1. \E l : hist' = [hist EXCEPT !.leaked = l] BY Zenon, <1>d DEF Drop
    <2> QED BY Zenon, <1>t, <2>1 DEF Hist, HistKept
  <1>1. ASSUME NEW u \in Ue, HandleUEContextReleaseCommand(u) PROVE QuietStep
    <2>1. /\ UNCHANGED <<IKEUePool, ikeUe, ikeTask, ngapEvt, upf, pkt, ngapTask, hist>>
          /\ UNCHANGED XfrmIfaceIdOffsetForUP /\ RemoveRanUe(u) /\ u \in RANUePool
      BY Zenon, <1>1 DEF HandleUEContextReleaseCommand, Quiet, ikeVars
    <2>2. IkeMoves
      <3> DEFINE e == [type |-> "IKEDeleteRequest", ue |-> u]
      <3>1. e \in IkeEvt /\ e.type # "CreatePDUSession" BY Zenon DEF IkeEvt
      <3>2. ikeEvt' = IF u \in NGAPIdToIKESPI THEN Append(ikeEvt, e) ELSE ikeEvt
        BY Zenon, <1>1 DEF HandleUEContextReleaseCommand
      <3> HIDE DEF e
      <3> QED BY Zenon, <1>t, <3>1, <3>2, IkeEvtMoves
    <2>3. RanKept BY Zenon, <2>1, RemoveRanQuiet
    <2> QED BY Zenon, <2>1, <2>2, <2>3, SameIkeUe, NgapEvtMoves DEF QuietStep
  <1>2. ASSUME NEW u \in Ue, HandleNGReset(u) PROVE QuietStep
    <2>1. /\ UNCHANGED <<IKEUePool, ikeUe, ikeTask, ikeEvt, ngapEvt, upf, pkt, ngapTask, hist>>
          /\ UNCHANGED XfrmIfaceIdOffsetForUP /\ RemoveRanUe(u) /\ u \in RANUePool
      BY Zenon, <1>2 DEF HandleNGReset, Quiet, ikeVars
    <2>3. RanKept BY Zenon, <2>1, RemoveRanQuiet
    <2> QED BY Zenon, <1>t, <2>1, <2>3, SameIkeUe, IkeEvtMoves, NgapEvtMoves DEF QuietStep
  <1>3. ASSUME NEW u \in Ue, NEW s \in Session, HandlePDUSessionResourceReleaseCommand(u, s)
        PROVE  QuietStep
    <2>1. /\ UNCHANGED <<IKEUePool, ikeUe, ikeTask, ngapEvt, upf, pkt, ngapTask>>
          /\ UNCHANGED <<XfrmIfaceIdOffsetForUP, RANUePool, AllocatedUETEID>> /\ Drop(u, {s})
      BY Zenon, <1>3 DEF HandlePDUSessionResourceReleaseCommand, Quiet, ikeVars
    <2>2. IkeMoves
      <3> DEFINE e == [type |-> "SendChildSADeleteRequest", ue |-> u, session |-> s]
      <3>1. e \in IkeEvt /\ e.type # "CreatePDUSession" BY Zenon DEF IkeEvt
      <3>2. ikeEvt' = IF u \in NGAPIdToIKESPI THEN Append(ikeEvt, e) ELSE ikeEvt
        BY Zenon, <1>3 DEF HandlePDUSessionResourceReleaseCommand
      <3> HIDE DEF e
      <3> QED BY Zenon, <1>t, <3>1, <3>2, IkeEvtMoves
    <2>3. PICK x : ranUe' = [ranUe EXCEPT ![u].PduSessionList[s] = None,
                                          ![u].PduSessResRelState = x]
      BY Zenon, <1>3 DEF HandlePDUSessionResourceReleaseCommand
    <2>4. /\ \A v \in Ue : v # u => ranUe'[v] = ranUe[v]
          /\ ranUe'[u].used = ranUe[u].used
      BY ONLY Zenon, <1>t, <2>3, u \in Ue, s \in Session DEF RanUe
    <2>5. \A r \in Session : ranUe'[u].PduSessionList[r] \in {ranUe[u].PduSessionList[r], None}
      BY ONLY Zenon, <1>t, <2>3, u \in Ue, s \in Session DEF RanUe
    <2>6. RanKept BY Zenon, <1>t, <1>d, <2>1, <2>4, <2>5, SessionsQuiet
    <2> QED BY Zenon, <2>1, <2>2, <2>6, SameIkeUe, NgapEvtMoves DEF QuietStep
  <1>4. ASSUME HandleSendPDUSessionResourceRelease PROVE QuietStep
    <2>1. /\ UNCHANGED <<IKEUePool, ikeUe, ikeTask, ikeEvt, upf, pkt, ngapTask>>
          /\ UNCHANGED <<XfrmIfaceIdOffsetForUP, RANUePool, AllocatedUETEID>>
          /\ TakeNgapEvt("SendPDUSessionResourceRelease")
      BY Zenon, <1>4 DEF HandleSendPDUSessionResourceRelease, Quiet, ikeVars
    <2>2. PICK u \in Ue : u = Head(ngapEvt).ue BY Zenon, <2>1, TakenNgapEvt
    <2> DEFINE session == Head(ngapEvt).session
               l == [s \in Session |-> IF s = session THEN None ELSE ranUe[u].PduSessionList[s]]
    <2>3. \/ UNCHANGED <<ranUe, hist>>
          \/ ranUe' = [ranUe EXCEPT ![u].PduSessResRelState = FALSE] /\ UNCHANGED hist
          \/ /\ ranUe' = [ranUe EXCEPT ![u].PduSessResRelState = TRUE, ![u].PduSessionList = l]
             /\ Drop(u, {session})
      BY Zenon, <1>4, <2>2 DEF HandleSendPDUSessionResourceRelease
    <2>4. HistKept BY Zenon, <1>d, <2>3 DEF HistKept
    <2>5. \A s \in Session : l[s] \in {ranUe[u].PduSessionList[s], None} BY Zenon
    <2> HIDE DEF l
    <2>6. /\ \A v \in Ue : v # u => ranUe'[v] = ranUe[v]
          /\ ranUe'[u].used = ranUe[u].used
          /\ ranUe'[u].PduSessionList \in {ranUe[u].PduSessionList, l}
      <3>1. CASE UNCHANGED ranUe BY Zenon, <3>1
      <3>2. CASE ranUe' = [ranUe EXCEPT ![u].PduSessResRelState = FALSE]
        BY ONLY Zenon, <1>t, <3>2, u \in Ue DEF RanUe
      <3>3. CASE ranUe' = [ranUe EXCEPT ![u].PduSessResRelState = TRUE, ![u].PduSessionList = l]
        BY ONLY Zenon, <1>t, <3>3, u \in Ue DEF RanUe
      <3> QED BY Zenon, <2>3, <3>1, <3>2, <3>3
    <2>7. RanKept BY Zenon, <1>t, <2>1, <2>4, <2>5, <2>6, SessionsQuiet
    <2> QED BY Zenon, <1>t, <2>1, <2>7, SameIkeUe, IkeEvtMoves, NgapEvtMoves DEF QuietStep
  <1> QED BY Zenon, <1>1, <1>2, <1>3, <1>4

\* Nothing new is on its way to a child SA, or is being told to the UPF.
Shrink(u, s, t) ==
    /\ Asked(u, s, t)' => Asked(u, s, t)
    /\ Half(u, s, t)' => Half(u, s, t)
    /\ HasChild(u, s, t)' => HasChild(u, s, t)
    /\ Open(u, s, t)' => Open(u, s, t)
    /\ Reported(u, s, t)' => Reported(u, s, t)
Less(u, s, t) == Part(u, s, t)' => Part(u, s, t)
Held(u, s, t) == Holder(u, s, t)' => Holder(u, s, t)

\* Sessions and TEIDs are not None.
LEMMA NotNone ==
    /\ \A s \in Session : s # None
    /\ \A t \in Teid : t # None /\ [teid |-> t] # None /\ [teid |-> t] # [teid |-> None]
    /\ [teid |-> None] # None
  BY UserPlaneAssumption DEF Teid

\* What a channel's events say after a step that adds none of the type, they said before.
LEMMA EventsShrink ==
    ASSUME NEW u, NEW s, NEW t
    PROVE  /\ IkeMoves => (Asked(u, s, t)' => Asked(u, s, t))
           /\ NgapMoves => (Reported(u, s, t)' => Reported(u, s, t))
  <1>1. ASSUME IkeMoves, Asked(u, s, t)' PROVE Asked(u, s, t)
    <2>1. PICK d \in {0, 1} : \A k \in 1..Len(ikeEvt') : ikeEvt'[k].type = "CreatePDUSession" =>
             k + d \in 1..Len(ikeEvt) /\ ikeEvt'[k] = ikeEvt[k + d]
      BY Zenon, <1>1 DEF IkeMoves, Moves
    <2>2. PICK k \in 1..Len(ikeEvt') :
             /\ ikeEvt'[k].type = "CreatePDUSession" /\ ikeEvt'[k].ue = u
             /\ ikeEvt'[k].pdu.session = s /\ ikeEvt'[k].pdu.teid = t
      BY Zenon, <1>1 DEF Asked, Created
    <2>3. k + d \in 1..Len(ikeEvt) /\ ikeEvt'[k] = ikeEvt[k + d]
      BY Zenon, <2>1, <2>2
    <2> QED BY Zenon, <2>2, <2>3 DEF Asked, Created
  <1>2. ASSUME NgapMoves, Reported(u, s, t)' PROVE Reported(u, s, t)
    <2>1. PICK d \in {0, 1} : \A k \in 1..Len(ngapEvt') :
             ngapEvt'[k].type = "SendPDUSessionResourceSetupRes" =>
                k + d \in 1..Len(ngapEvt) /\ ngapEvt'[k] = ngapEvt[k + d]
      BY Zenon, <1>2 DEF NgapMoves, Moves
    <2>2. PICK k \in 1..Len(ngapEvt') :
             /\ ngapEvt'[k].type = "SendPDUSessionResourceSetupRes" /\ ngapEvt'[k].ue = u
             /\ ngapEvt'[k].pdu.session = s /\ ngapEvt'[k].pdu.teid = t
      BY Zenon, <1>2 DEF Reported, Told
    <2>3. k + d \in 1..Len(ngapEvt) /\ ngapEvt'[k] = ngapEvt[k + d]
      BY Zenon, <2>1, <2>2
    <2> QED BY Zenon, <2>2, <2>3 DEF Reported, Told
  <1> QED BY Zenon, <1>1, <1>2

\* The same for the sessions that will use the default interface.
LEMMA FirstShrinks == ASSUME IkeMoves, NEW u, NEW s, AskedFirst(u, s)' PROVE AskedFirst(u, s)
  <1>1. PICK d \in {0, 1} : \A k \in 1..Len(ikeEvt') : ikeEvt'[k].type = "CreatePDUSession" =>
           k + d \in 1..Len(ikeEvt) /\ ikeEvt'[k] = ikeEvt[k + d]
    BY Zenon DEF IkeMoves, Moves
  <1>2. PICK k \in 1..Len(ikeEvt') :
           /\ ikeEvt'[k].type = "CreatePDUSession" /\ ikeEvt'[k].ue = u
           /\ ikeEvt'[k].pdu.session = s /\ ~(ikeEvt'[k].pdu.len > 1)
    BY Zenon DEF AskedFirst, Created
  <1>3. k + d \in 1..Len(ikeEvt) /\ ikeEvt'[k] = ikeEvt[k + d]
    BY Zenon, <1>1, <1>2
  <1> QED BY Zenon, <1>2, <1>3 DEF AskedFirst, Created

\* A quiet step leaves the sessions of a UE at most where they were.
LEMMA QuietShrinks ==
    ASSUME QuietStep, NEW u \in Ue, NEW s \in Session, NEW t \in Teid
    PROVE  Shrink(u, s, t) /\ Less(u, s, t) /\ Held(u, s, t)
  <1>1. (Asked(u, s, t)' => Asked(u, s, t)) /\ (Reported(u, s, t)' => Reported(u, s, t))
    BY Zenon, EventsShrink DEF QuietStep
  <1>u. UeSame(u) \/ UeEnds(u) \/ UeBegins(u) BY Zenon DEF QuietStep, IkeUeKept
  <1>n. s # None BY Zenon, NotNone
  <1>h. ikeUe'[u].half \in {ikeUe[u].half, None}
    BY Zenon, <1>u DEF UeSame, UeEnds, UeBegins
  <1>c. \A c \in ikeUe'[u].child : c \in ikeUe[u].child \/ c.session = None
    BY Zenon, <1>u DEF UeSame, UeEnds, UeBegins
  <1>2. Half(u, s, t)' => Half(u, s, t) BY Zenon, <1>h DEF Half
  <1>3. HasChild(u, s, t)' => HasChild(u, s, t) BY Zenon, <1>c, <1>n DEF HasChild
  <1>4. Bare(s, t) \in ikeUe'[u].child => Bare(s, t) \in ikeUe[u].child
    <2>1. Bare(s, t).session = s BY Zenon DEF Bare
    <2> QED BY Zenon, <1>c, <1>n, <2>1
  <1>5. Open(u, s, t)' => Open(u, s, t)
    <2>1. Open(u, s, t)' <=> Asked(u, s, t)' \/ Half(u, s, t)' \/ Bare(s, t) \in ikeUe'[u].child
      BY Zenon DEF Open, Bare
    <2> QED BY Zenon, <1>1, <1>2, <1>4, <2>1 DEF Open
  <1>6. Less(u, s, t) BY Zenon, <1>1, <1>2, <1>3 DEF Less, Part
  <1>7. (AtUpf(u, s, t)' => AtUpf(u, s, t)) /\ (InDownlink(u, s, t)' => InDownlink(u, s, t))
    BY Zenon DEF QuietStep, AtUpf, InDownlink
  <1> QED BY Zenon, <1>1, <1>2, <1>3, <1>5, <1>6, <1>7 DEF Shrink, Less, Held, Holder

\* The sessions of the RAN UEs against everything that refers to them.
OwnInv == HoldersOwn /\ PendingFresh /\ SessionTeid /\ TeidPending /\ PendingUsed

\* A session that is listed after such a step was listed before, with the same TEID.
LEMMA ListsKept ==
    ASSUME RanKept, NEW u \in Ue, NEW s \in Session, NEW x \in Teid \cup {None}, Lists(u, s, x)'
    PROVE  Lists(u, s, x)
  <1>1. ranUe'[u].PduSessionList[s] \in {ranUe[u].PduSessionList[s], None} BY Zenon DEF RanKept
  <1>2. [teid |-> x] # None BY Zenon, NotNone
  <1>3. ranUe'[u].PduSessionList[s] = [teid |-> x] BY Zenon DEF Lists
  <1> QED BY ONLY Zenon, <1>1, <1>2, <1>3 DEF Lists

\* It is kept when sessions and TEIDs only leave, and nothing new refers to them.
LEMMA OwnKept ==
    ASSUME TeidInv, TeidInv', OwnInv, HoldersKnown, RanKept,
           \A u \in Ue, s \in Session, t \in Teid : Less(u, s, t) /\ Held(u, s, t)
    PROVE  OwnInv'
  <1>t. RANUePool \subseteq Ue /\ RANUePool' \subseteq Ue
    BY Zenon DEF TeidInv, Types, NgapTypes
  <1>l. ASSUME NEW u \in Ue, NEW s \in Session, NEW x \in Teid \cup {None}, Lists(u, s, x)'
        PROVE  Lists(u, s, x)
    BY Zenon, <1>l, ListsKept
  <1>1. HoldersOwn'
    <2> SUFFICES ASSUME NEW u \in RANUePool', NEW s \in Session, NEW t \in Teid, Holder(u, s, t)'
                 PROVE  /\ AllocatedUETEID'[t] = u /\ s \in ranUe'[u].used
                        /\ \A r \in Session : Lists(u, r, t)' => r = s
      BY Zenon DEF HoldersOwn
    <2>1. u \in Ue /\ Holder(u, s, t) BY Zenon, <1>t DEF Held
    <2>2. ikeUe[u].auth # "unused"
      <3>1. ikeUe[u].auth \in {"done", "gone"} BY Zenon, <2>1 DEF HoldersKnown
      <3> QED BY Zenon, <3>1
    <2>3. u \in RANUePool BY Zenon, <2>2 DEF RanKept
    <2>4. /\ AllocatedUETEID[t] = u /\ s \in ranUe[u].used
          /\ \A r \in Session : Lists(u, r, t) => r = s
      BY Zenon, <2>1, <2>3 DEF OwnInv, HoldersOwn
    <2>5. AllocatedUETEID'[t] = u /\ s \in ranUe'[u].used
      BY Zenon, <2>2, <2>3, <2>4 DEF RanKept
    <2>6. \A r \in Session : Lists(u, r, t)' => Lists(u, r, t) BY Zenon, <1>l, <2>1
    <2> QED BY Zenon, <2>4, <2>5, <2>6
  <1>2. PendingFresh'
    <2>1. \A u \in Ue, s \in Session : Pending(u, s)' => Pending(u, s)
      BY Zenon DEF RanKept, Pending
    <2> QED BY Zenon, <2>1 DEF PendingFresh, Less, RanKept, HistKept, OwnInv
  <1>3. SessionTeid'
    <2>1. \A u \in Ue, s \in Session, x \in Teid : Lists(u, s, x)' => Lists(u, s, x)
      BY Zenon, <1>l
    <2> QED BY Zenon, <2>1 DEF SessionTeid, Less, RanKept, HistKept, OwnInv
  <1>4. TeidPending'
    <2> SUFFICES ASSUME NEW u \in Ue, NEW s \in Session, Lists(u, s, None)' PROVE Pending(u, s)'
      BY Zenon DEF TeidPending
    <2>1. Pending(u, s) BY Zenon, <1>l DEF OwnInv, TeidPending
    <2>2. ngapTask' = ngapTask BY Zenon DEF RanKept, Lists
    <2> QED BY Zenon, <2>1, <2>2 DEF Pending
  <1>5. PendingUsed'
    <2> SUFFICES ASSUME NEW u \in Ue, NEW s \in Session, Pending(u, s)' PROVE s \in ranUe'[u].used
      BY Zenon DEF PendingUsed
    <2>1. Pending(u, s) BY Zenon DEF Pending, RanKept
    <2>2. u \in RANUePool /\ u \in RANUePool' BY Zenon, <2>1 DEF TeidInv, PendingInPool, Pending
    <2>3. ikeUe[u].auth # "unused" BY Zenon, <2>2 DEF TeidInv, UsedInPool
    <2>4. s \in ranUe[u].used BY Zenon, <2>1 DEF OwnInv, PendingUsed
    <2>5. ranUe[u].used \subseteq ranUe'[u].used BY Zenon, <2>2, <2>3 DEF RanKept
    <2> QED BY Zenon, <2>4, <2>5
  <1> QED BY Zenon, <1>1, <1>2, <1>3, <1>4, <1>5 DEF OwnInv

\* The contexts of the IKE UEs and the child SAs in them.
IkeInv == HoldersKnown /\ Addressed /\ PendingKnown /\ AskedOnce /\ OneAtATime /\ OneChild
            /\ TaskChild /\ Unruled /\ IfaceBelow /\ OwnIface

\* A quiet step keeps what the IKE loop knows of its UEs.
LEMMA QuietIkeInv == ASSUME Types, Types', IkeInv, QuietStep PROVE IkeInv'
  <1>s. ASSUME NEW u \in Ue, NEW s \in Session, NEW t \in Teid
        PROVE  Shrink(u, s, t) /\ Held(u, s, t)
    BY Zenon, QuietShrinks
  <1>u. \A u \in Ue : UeSame(u) \/ UeEnds(u) \/ UeBegins(u) BY Zenon DEF QuietStep, IkeUeKept
  <1>g. ASSUME NEW u \in Ue, ikeUe[u].auth \in {"done", "gone"}
        PROVE  ikeUe'[u].auth \in {"done", "gone"} /\ (UeSame(u) \/ UeEnds(u))
    <2>1. ~UeBegins(u) BY Zenon, <1>g DEF UeBegins
    <2> QED BY Zenon, <1>g, <1>u, <2>1 DEF UeSame, UeEnds
  <1>1. HoldersKnown'
    <2> SUFFICES ASSUME NEW u \in Ue, NEW s \in Session, NEW t \in Teid
                 PROVE  /\ Holder(u, s, t)' => ikeUe'[u].auth \in {"done", "gone"}
                        /\ Half(u, s, t)' \/ HasChild(u, s, t)' => ikeUe'[u].auth = "done"
      BY Zenon DEF HoldersKnown
    <2>1. Holder(u, s, t)' => ikeUe'[u].auth \in {"done", "gone"}
      BY Zenon, <1>s, <1>g DEF Held, IkeInv, HoldersKnown
    <2>2. ASSUME Half(u, s, t)' \/ HasChild(u, s, t)' PROVE ikeUe'[u].auth = "done"
      <3>1. ikeUe[u].auth = "done" BY Zenon, <2>2, <1>s DEF Shrink, IkeInv, HoldersKnown
      <3>2. ~UeEnds(u) BY Zenon, <2>2 DEF UeEnds, Half, HasChild
      <3>3. UeSame(u) BY Zenon, <1>g, <3>1, <3>2
      <3> QED BY Zenon, <3>1, <3>3 DEF UeSame
    <2> QED BY Zenon, <2>1, <2>2
  <1>2. Addressed'
    <2> SUFFICES ASSUME NEW u \in Ue
                 PROVE  /\ ikeUe'[u].auth = "done" => ikeUe'[u].IPSecInnerIP # None
                        /\ ikeUe'[u].auth = "gone" => ~ikeUe'[u].sa /\ u \notin IKEUePool'
      BY Zenon DEF Addressed
    <2>1. CASE UeSame(u)
      <3>1. u \in IKEUePool' => u \in IKEUePool \/ ikeUe'[u].auth = "eap"
        BY Zenon DEF QuietStep, IkeUeKept
      <3>2. /\ ikeUe[u].auth = "done" => ikeUe[u].IPSecInnerIP # None
            /\ ikeUe[u].auth = "gone" => ~ikeUe[u].sa /\ u \notin IKEUePool
        BY Zenon DEF IkeInv, Addressed
      <3> QED BY ONLY Zenon, <2>1, <3>1, <3>2 DEF UeSame
    <2>2. CASE UeEnds(u) BY ONLY Zenon, <2>2 DEF UeEnds
    <2>3. CASE UeBegins(u) BY ONLY Zenon, <2>3 DEF UeBegins
    <2> QED BY Zenon, <1>u, <2>1, <2>2, <2>3
  <1>3. PendingKnown'
    <2>1. \A u \in Ue, s \in Session : Pending(u, s)' => Pending(u, s)
      BY Zenon DEF QuietStep, RanKept, Pending
    <2> QED BY Zenon, <1>g, <2>1 DEF PendingKnown, IkeInv
  <1>4. AskedOnce'
    <2>1. PICK d \in {0, 1} : \A k \in 1..Len(ikeEvt') : ikeEvt'[k].type = "CreatePDUSession" =>
             k + d \in 1..Len(ikeEvt) /\ ikeEvt'[k] = ikeEvt[k + d]
      BY Zenon DEF QuietStep, IkeMoves, Moves
    <2> SUFFICES ASSUME NEW j \in 1..Len(ikeEvt'), NEW k \in 1..Len(ikeEvt'),
                        ikeEvt'[j].type = "CreatePDUSession", ikeEvt'[k].type = "CreatePDUSession",
                        ikeEvt'[j].ue = ikeEvt'[k].ue, ikeEvt'[j].pdu.teid = ikeEvt'[k].pdu.teid
                 PROVE  j = k
      BY Zenon DEF AskedOnce, Created
    <2>2. j + d = k + d BY Zenon, <2>1 DEF IkeInv, AskedOnce, Created
    <2>3. Len(ikeEvt') \in Nat BY DEF Types, IkeTypes
    <2> QED BY ONLY <2>2, <2>3, d \in {0, 1}, j \in 1..Len(ikeEvt'), k \in 1..Len(ikeEvt')
  <1>5. OneAtATime'
    <2> SUFFICES ASSUME NEW u \in Ue, NEW t \in Teid, NEW r \in Session, NEW s \in Session
                 PROVE  /\ Asked(u, r, t)' => ~Half(u, s, t)' /\ ~HasChild(u, s, t)'
                        /\ Half(u, r, t)' => ~HasChild(u, s, t)'
                        /\ Open(u, r, t)' => ~Reported(u, s, t)' /\ ~AtUpf(u, s, t)'
      BY Zenon DEF OneAtATime
    <2>1. Shrink(u, r, t) /\ Shrink(u, s, t) BY Zenon, <1>s
    <2>2. AtUpf(u, s, t)' => AtUpf(u, s, t) BY Zenon DEF QuietStep, AtUpf
    <2> QED BY Zenon, <2>1, <2>2 DEF Shrink, IkeInv, OneAtATime
  <1>c. ASSUME NEW u \in Ue, NEW c \in ikeUe'[u].child
        PROVE  c \in ikeUe[u].child \/ (c.session = None /\ c.iface = None /\ c.teid = None)
    BY Zenon, <1>u, <1>c DEF UeSame, UeEnds, UeBegins
  <1>6. OneChild'
    <2> SUFFICES ASSUME NEW u \in Ue, NEW c \in ikeUe'[u].child, NEW d \in ikeUe'[u].child,
                        c.teid = d.teid, c.teid # None
                 PROVE  c = d
      BY Zenon DEF OneChild
    <2>1. c \in ikeUe[u].child /\ d \in ikeUe[u].child BY Zenon, <1>c
    <2> QED BY Zenon, <2>1 DEF IkeInv, OneChild
  <1>7. TaskChild'
    BY Zenon DEF QuietStep, IkeUeKept, TaskChild, IkeInv, NewChildSA
  <1>8. Unruled'
    <2> SUFFICES ASSUME NEW u \in Ue, NEW c \in ikeUe'[u].child
                 PROVE  /\ c.session # None => c.teid # None
                        /\ c.session # None /\ c.iface = None => ~c.rules
                        /\ c.session = None => c.iface = None /\ c.teid = None
      BY Zenon DEF Unruled
    <2> QED BY Zenon, <1>c DEF IkeInv, Unruled
  <1>9. IfaceBelow'
    <2> SUFFICES ASSUME NEW u \in Ue, NEW c \in ikeUe'[u].child, c.iface # None
                 PROVE  c.iface < XfrmIfaceIdOffsetForUP'
      BY Zenon DEF IfaceBelow
    <2> QED BY Zenon, <1>c DEF IkeInv, IfaceBelow, QuietStep
  <1>10. OwnIface'
    <2> SUFFICES ASSUME NEW u \in Ue, NEW c \in ikeUe'[u].child, NEW d \in ikeUe'[u].child,
                        c.iface = d.iface, c.iface \notin {None, 0}
                 PROVE  c = d
      BY Zenon DEF OwnIface
    <2>0. c.iface # None BY Zenon
    <2>1. c \in ikeUe[u].child /\ d \in ikeUe[u].child BY Zenon, <1>c, <2>0
    <2> QED BY Zenon, <2>1 DEF IkeInv, OwnIface
  <1> QED BY Zenon, <1>1, <1>2, <1>3, <1>4, <1>5, <1>6, <1>7, <1>8, <1>9, <1>10 DEF IkeInv

\* What the UPF knows, and the packets on their way.
UpfInv == UpfOwn /\ DownlinkOpen
FwdInv == OneFirst /\ UplinkFits /\ DownlinkFits

\* A UE that has been set up stays so until it is removed, with its address; a new child SA has
\* no interface, the default one or the next.
UesKept ==
    \A u \in Ue : ikeUe[u].auth \in {"done", "gone"} =>
      /\ ikeUe'[u].auth \in {"done", "gone"}
      /\ ikeUe'[u].sa => ikeUe[u].sa /\ ikeUe'[u].IPSecInnerIP = ikeUe[u].IPSecInnerIP
      /\ \A c \in ikeUe'[u].child :
           c \in ikeUe[u].child \/ c.iface \in {None, 0, XfrmIfaceIdOffsetForUP}

\* A quiet step does this to UEs.
LEMMA QuietUes == ASSUME QuietStep PROVE UesKept
  <1> SUFFICES ASSUME NEW u \in Ue, ikeUe[u].auth \in {"done", "gone"}
               PROVE  /\ ikeUe'[u].auth \in {"done", "gone"}
                      /\ ikeUe'[u].sa => ikeUe[u].sa /\ ikeUe'[u].IPSecInnerIP = ikeUe[u].IPSecInnerIP
                      /\ \A c \in ikeUe'[u].child : c \in ikeUe[u].child
    BY Zenon DEF UesKept
  <1>1. UeSame(u) \/ UeEnds(u) \/ UeBegins(u) BY Zenon DEF QuietStep, IkeUeKept
  <1>2. ~UeBegins(u) BY Zenon DEF UeBegins
  <1>3. CASE UeSame(u) BY Zenon, <1>3 DEF UeSame
  <1>4. CASE UeEnds(u) BY Zenon, <1>4 DEF UeEnds
  <1> QED BY Zenon, <1>1, <1>2, <1>3, <1>4

\* What the UPF knows stays right when it learns nothing and no session is set up.
LEMMA UpfKept ==
    ASSUME UpfInv, RanKept, UNCHANGED <<upf, pkt>>,
           \A u \in Ue, s \in Session, t \in Teid : Open(u, s, t)' => Open(u, s, t)
    PROVE  UpfInv'
  <1>1. UpfOwn'
    <2> SUFFICES ASSUME ~hist'.reused, NEW t \in Teid, AllocatedUETEID'[t] # None, upf'[t] # None
                 PROVE  upf'[t].ue = AllocatedUETEID'[t]
      BY Zenon DEF UpfOwn
    <2>1. AllocatedUETEID'[t] \in {AllocatedUETEID[t], None} BY Zenon DEF RanKept
    <2>2. AllocatedUETEID'[t] = AllocatedUETEID[t] BY ONLY Zenon, <2>1, AllocatedUETEID'[t] # None
    <2> QED BY Zenon, <2>2 DEF UpfInv, UpfOwn, RanKept, HistKept
  <1>2. DownlinkOpen'
    <2> SUFFICES ASSUME ~hist'.reused, NEW u \in Ue, NEW t \in Teid, Downward(u, t)'
                 PROVE  /\ upf'[t] # None
                        /\ pkt'.at = "dl" \/ u \in RANUePool' =>
                             \A s \in Session : Lists(u, s, t)' => ~Open(u, s, t)'
      BY Zenon DEF DownlinkOpen
    <2>1. Downward(u, t) /\ ~hist.reused /\ UNCHANGED <<upf, pkt>>
      BY Zenon DEF Downward, RanKept, HistKept
    <2>2. upf'[t] # None BY Zenon, <2>1 DEF UpfInv, DownlinkOpen
    <2>3. ASSUME pkt'.at = "dl" \/ u \in RANUePool', NEW s \in Session, Lists(u, s, t)',
                 Open(u, s, t)'
          PROVE  FALSE
      <3>1. Lists(u, s, t) BY Zenon, <2>3, ListsKept
      <3>2. Open(u, s, t) BY Zenon, <2>3
      <3>3. CASE pkt.at = "dl" \/ u \in RANUePool
        BY Zenon, <2>1, <3>1, <3>2, <3>3 DEF UpfInv, DownlinkOpen
      <3>4. CASE u \in RANUePool' /\ u \notin RANUePool
        <4>1. ranUe'[u].PduSessionList[s] = None BY Zenon, <3>1, <3>4 DEF RanKept
        <4> QED BY Zenon, <2>3, <4>1, NotNone DEF Lists
      <3> QED BY Zenon, <2>1, <2>3, <3>3, <3>4
    <2> QED BY Zenon, <2>2, <2>3
  <1> QED BY Zenon, <1>1, <1>2 DEF UpfInv

\* No session newly uses the default interface.
LEMMA QuietFirst ==
    ASSUME QuietStep, NEW u \in Ue, NEW s \in Session, First(u, s)' PROVE First(u, s)
  <1>1. AskedFirst(u, s)' => AskedFirst(u, s) BY Zenon, FirstShrinks DEF QuietStep
  <1>u. UeSame(u) \/ UeEnds(u) \/ UeBegins(u) BY Zenon DEF QuietStep, IkeUeKept
  <1>n. s # None BY Zenon, NotNone
  <1>h. ikeUe'[u].half \in {ikeUe[u].half, None}
    BY Zenon, <1>u DEF UeSame, UeEnds, UeBegins
  <1>c. \A c \in ikeUe'[u].child : c \in ikeUe[u].child \/ c.session = None
    BY Zenon, <1>u DEF UeSame, UeEnds, UeBegins
  <1>k. ikeTask' = None \/ ikeTask' = ikeTask BY Zenon DEF QuietStep, IkeUeKept
  <1>p. pkt' = pkt BY Zenon DEF QuietStep
  <1>2. (InUplink(u, s) /\ pkt.iface = 0)' => InUplink(u, s) /\ pkt.iface = 0
    BY Zenon, <1>p DEF InUplink
  <1>3. \/ AskedFirst(u, s)'
        \/ ikeUe'[u].half # None /\ ikeUe'[u].half.session = s /\ ~(ikeUe'[u].half.len > 1)
        \/ ikeTask' # None /\ ikeTask'.ue = u /\ ikeTask'.pdu.session = s /\ ~(ikeTask'.pdu.len > 1)
        \/ \E c \in ikeUe'[u].child : c.session = s /\ c.iface = 0
        \/ (InUplink(u, s) /\ pkt.iface = 0)'
    BY Zenon DEF First
  <1> QED BY Zenon, <1>1, <1>n, <1>h, <1>c, <1>k, <1>2, <1>3 DEF First

\* Packets on their way stay right when the UEs do and no session newly uses the default interface.
LEMMA FwdKept ==
    ASSUME Types, Types', PktType, FwdInv, HoldersKnown, RanKept, UesKept, UNCHANGED pkt,
           XfrmIfaceIdOffsetForUP' \in {XfrmIfaceIdOffsetForUP, XfrmIfaceIdOffsetForUP + 1},
           \A u \in Ue, s \in Session : First(u, s)' => First(u, s)
    PROVE  FwdInv'
  <1>p. HistKept BY Zenon DEF RanKept
  <1>q. ASSUME NEW u \in Ue, ikeUe[u].auth \in {"done", "gone"}
        PROVE  /\ u \in RANUePool' => u \in RANUePool /\ ranUe[u].used \subseteq ranUe'[u].used
               /\ LiveUe(u)' => LiveUe(u) /\ ikeUe'[u].IPSecInnerIP = ikeUe[u].IPSecInnerIP
    <2>1. ikeUe[u].auth # "unused" BY Zenon, <1>q
    <2>2. u \in RANUePool' => u \in RANUePool /\ ranUe[u].used \subseteq ranUe'[u].used
      BY Zenon, <2>1 DEF RanKept
    <2> QED BY Zenon, <1>q, <2>2 DEF LiveUe, UesKept
  <1>1. OneFirst'
    <2> SUFFICES ASSUME ~hist'.again, NEW u \in RANUePool', NEW r \in Session, NEW s \in Session,
                        First(u, r)', First(u, s)', r \in Active(u)', s \in Active(u)'
                 PROVE  r = s
      BY Zenon DEF OneFirst
    <2>1. u \in Ue BY Zenon DEF Types, NgapTypes
    <2>2. First(u, r) /\ First(u, s) /\ ~hist.again
      BY Zenon, <1>p, <2>1 DEF HistKept
    <2>3. ASSUME NEW x \in Session, x \in Active(u)' PROVE x \in Active(u)
      <3>1. ranUe'[u].PduSessionList[x] # None BY Zenon, <2>3 DEF Active
      <3>2. ranUe'[u].PduSessionList[x] \in {ranUe[u].PduSessionList[x], None}
        BY Zenon, <1>p, <2>1 DEF RanKept
      <3>3. ranUe[u].PduSessionList[x] # None BY ONLY Zenon, <3>1, <3>2
      <3> QED BY Zenon, <3>3 DEF Active
    <2>4. u \in RANUePool
      <3>1. ranUe'[u].PduSessionList[s] # None BY Zenon DEF Active
      <3> QED BY Zenon, <1>p, <3>1 DEF RanKept
    <2>5. {r, s} \subseteq Active(u) BY Zenon, <2>3
    <2> QED BY Zenon, <2>2, <2>4, <2>5 DEF FwdInv, OneFirst
  <1>2. UplinkFits'
    <2> SUFFICES ASSUME NEW u \in Ue, NEW s \in Session, InUplink(u, s)'
                 PROVE  /\ ikeUe'[u].auth \in {"done", "gone"}
                        /\ u \in RANUePool' => s \in ranUe'[u].used
                        /\ LiveUe(u)' /\ ~hist'.twice => pkt'.found = u
                        /\ pkt'.iface < XfrmIfaceIdOffsetForUP'
                        /\ \A c \in ikeUe'[u].child :
                              c.iface = pkt'.iface /\ c.iface # 0 => c.session = s
      BY Zenon DEF UplinkFits
    <2>1. InUplink(u, s) BY Zenon DEF InUplink
    <2>2. /\ ikeUe[u].auth \in {"done", "gone"}
          /\ u \in RANUePool => s \in ranUe[u].used
          /\ LiveUe(u) /\ ~hist.twice => pkt.found = u
          /\ pkt.iface < XfrmIfaceIdOffsetForUP
          /\ \A c \in ikeUe[u].child : c.iface = pkt.iface /\ c.iface # 0 => c.session = s
      BY Zenon, <2>1 DEF FwdInv, UplinkFits
    <2>3. /\ u \in RANUePool' => u \in RANUePool /\ ranUe[u].used \subseteq ranUe'[u].used
          /\ LiveUe(u)' => LiveUe(u)
      BY Zenon, <1>q, <2>2
    <2>4. pkt.iface \in Nat
      BY Zenon, <2>1 DEF PktType, InUplink, Uplink, Downlink, Iface
    <2>5. XfrmIfaceIdOffsetForUP \in Nat BY Zenon DEF Types, IkeTypes
    <2>6. pkt'.iface < XfrmIfaceIdOffsetForUP' BY <2>2, <2>4, <2>5
    <2>7. LiveUe(u)' /\ ~hist'.twice => pkt'.found = u BY Zenon, <1>p, <2>2, <2>3 DEF HistKept
    <2>8. ASSUME NEW c \in ikeUe'[u].child, c.iface = pkt'.iface, c.iface # 0 PROVE c.session = s
      <3>1. c.iface \notin {None, 0, XfrmIfaceIdOffsetForUP}
        <4>1. c.iface = pkt.iface BY Zenon, <2>8
        <4> QED BY ONLY <2>2, <2>4, <2>5, <2>8, <4>1, UserPlaneAssumption
      <3>2. c \in ikeUe[u].child BY Zenon, <2>2, <2>8, <3>1 DEF UesKept
      <3> QED BY Zenon, <2>2, <2>8, <3>2
    <2>9. ikeUe'[u].auth \in {"done", "gone"} BY Zenon, <2>2 DEF UesKept
    <2> QED BY Zenon, <2>2, <2>3, <2>6, <2>7, <2>8, <2>9
  <1>3. DownlinkFits'
    <2> SUFFICES ASSUME NEW u \in Ue, NEW s \in Session, NEW t \in Teid, InDownlink(u, s, t)',
                        LiveUe(u)'
                 PROVE  /\ pkt'.found = u
                        /\ pkt'.at = "dl" => pkt'.ip = ikeUe'[u].IPSecInnerIP
      BY Zenon DEF DownlinkFits
    <2>1. InDownlink(u, s, t) BY Zenon DEF InDownlink
    <2>2. ikeUe[u].auth \in {"done", "gone"} BY Zenon, <2>1 DEF HoldersKnown, Holder
    <2>3. LiveUe(u) /\ ikeUe'[u].IPSecInnerIP = ikeUe[u].IPSecInnerIP BY Zenon, <1>q, <2>2
    <2> QED BY Zenon, <2>1, <2>3 DEF FwdInv, DownlinkFits
  <1> QED BY Zenon, <1>1, <1>2, <1>3 DEF FwdInv

\* The inductive invariant, but for MappedInPool and PktType that have proofs of their own.
CoreInv == OwnInv /\ IkeInv /\ UpfInv /\ FwdInv
SafeInv == TeidInv /\ MoreTypes /\ PktType /\ MappedInPool /\ CoreInv

\* A quiet step keeps the invariant.
LEMMA QuietKeeps == ASSUME SafeInv, TeidInv', QuietStep PROVE CoreInv'
  <1>t. Types /\ Types' BY Zenon DEF SafeInv, TeidInv
  <1>1. RanKept /\ UNCHANGED <<upf, pkt, XfrmIfaceIdOffsetForUP>> BY Zenon DEF QuietStep
  <1>2. \A u \in Ue, s \in Session, t \in Teid :
          Less(u, s, t) /\ Held(u, s, t) /\ (Open(u, s, t)' => Open(u, s, t))
    BY Zenon, QuietShrinks DEF Shrink
  <1>3. HoldersKnown BY Zenon DEF SafeInv, CoreInv, IkeInv
  <1>4. OwnInv' BY Zenon, <1>1, <1>2, <1>3, OwnKept DEF SafeInv, CoreInv
  <1>5. IkeInv' BY Zenon, <1>t, QuietIkeInv DEF SafeInv, CoreInv
  <1>6. UpfInv' BY Zenon, <1>1, <1>2, UpfKept DEF SafeInv, CoreInv
  <1>7. XfrmIfaceIdOffsetForUP' \in {XfrmIfaceIdOffsetForUP, XfrmIfaceIdOffsetForUP + 1}
    BY Zenon, <1>1
  <1>8. FwdInv'
    BY Zenon, <1>t, <1>1, <1>3, <1>7, FwdKept, QuietFirst, QuietUes DEF SafeInv, CoreInv
  <1> QED BY Zenon, <1>4, <1>5, <1>6, <1>8 DEF CoreInv

\* A session that cannot be set up is dropped; no other was without a TEID.
LEMMA SetupFails ==
    ASSUME SafeInv, HandlePDUSessionResourceSetupRequest,
           ranUe' = [ranUe EXCEPT ![ngapTask.ue].PduSessionList[ngapTask.session] = None],
           hist' = Failing(FreeTeid # {}), UNCHANGED <<AllocatedUETEID, nextTeid, ikeEvt>>
    PROVE  QuietStep
  <1>1. /\ UNCHANGED <<IKEUePool, ikeUe, ikeTask, ngapEvt, upf, pkt, RANUePool>>
        /\ UNCHANGED XfrmIfaceIdOffsetForUP /\ ngapTask # None /\ ngapTask' = None
    BY Zenon DEF HandlePDUSessionResourceSetupRequest, Quiet, ikeVars
  <1>t. Types /\ IkeTypes /\ MoreTypes /\ hist \in Hist /\ ranUe \in [Ue -> RanUe]
    BY Zenon DEF SafeInv, TeidInv, Types, NgapTypes
  <1>2. PICK u \in Ue, s \in Session : u = ngapTask.ue /\ s = ngapTask.session
    BY Zenon, <1>1 DEF SafeInv, TeidInv, Types, NgapTypes, NgapTask
  <1>3. ranUe' = [ranUe EXCEPT ![u].PduSessionList[s] = None] BY Zenon, <1>2
  <1>4. \A v \in Ue, r \in Session : ranUe'[v].PduSessionList[r] =
          IF v = u /\ r = s THEN None ELSE ranUe[v].PduSessionList[r]
    BY ONLY Zenon, <1>t, <1>3, u \in Ue, s \in Session DEF RanUe
  <1>5. \A v \in Ue : ranUe'[v].used = ranUe[v].used
    BY ONLY Zenon, <1>t, <1>3, u \in Ue, s \in Session DEF RanUe
  <1>6. \A v \in Ue, r \in Session : ranUe'[v].PduSessionList[r] # [teid |-> None]
    <2> SUFFICES ASSUME NEW v \in Ue, NEW r \in Session,
                        ranUe'[v].PduSessionList[r] = [teid |-> None]
                 PROVE  FALSE
      BY Zenon
    <2>1. ~(v = u /\ r = s) BY Zenon, <1>4, NotNone
    <2>2. Lists(v, r, None) BY ZenonT(30), <1>4, <2>1 DEF Lists
    <2>3. Pending(v, r) BY Zenon, <2>2 DEF SafeInv, CoreInv, OwnInv, TeidPending
    <2> QED BY Zenon, <1>2, <2>1, <2>3 DEF Pending
  <1>7. HistKept BY Zenon, <1>t, FailingKeeps
  <1>8. \A v \in Ue, r \in Session :
          ranUe'[v].PduSessionList[r] \in {ranUe[v].PduSessionList[r], None}
    BY ONLY Zenon, <1>4
  <1>9. RanKept BY Zenon, <1>1, <1>t, <1>5, <1>6, <1>7, <1>8 DEF RanKept, Types, NgapTypes
  <1> QED BY Zenon, <1>t, <1>1, <1>9, SameIkeUe, IkeEvtMoves, NgapEvtMoves DEF QuietStep

\* An event for a UE that is gone, and a child SA that gets no interface.
LEMMA NothingDone ==
    ASSUME SafeInv,
           \/ HandleCreatePDUSession /\ Head(ikeEvt).ue \notin IKEUePool
           \/ continueCreateChildSA /\ UNCHANGED <<ikeUe, ngapEvt, ifVars>>
           \/ HandleSendPDUSessionResourceSetupResponse /\ Head(ngapEvt).ue \notin RANUePool
    PROVE  QuietStep
  <1>t. Types /\ IkeTypes /\ MoreTypes /\ hist \in Hist
    BY Zenon DEF SafeInv, TeidInv, Types, NgapTypes
  <1>1. CASE HandleCreatePDUSession /\ Head(ikeEvt).ue \notin IKEUePool
    <2>1. /\ UNCHANGED <<IKEUePool, ikeUe, ikeTask, ngapVars, ngapEvt, upf, pkt, hist>>
          /\ UNCHANGED XfrmIfaceIdOffsetForUP /\ TakeIkeEvt("CreatePDUSession")
      BY Zenon, <1>1 DEF HandleCreatePDUSession, Quiet, ifVars
    <2> QED BY Zenon, <1>t, <2>1, SameIkeUe, IkeLoopKeepsRan, IkeEvtMoves, NgapEvtMoves
            DEF QuietStep, HistKept
  <1>2. CASE continueCreateChildSA /\ UNCHANGED <<ikeUe, ngapEvt, ifVars>>
    <2>1. /\ UNCHANGED <<IKEUePool, ikeUe, ngapVars, ikeEvt, ngapEvt, upf, pkt>>
          /\ UNCHANGED XfrmIfaceIdOffsetForUP /\ ikeTask' = None
      BY Zenon, <1>2 DEF continueCreateChildSA, Quiet, ifVars
    <2>2. HistKept
      <3>1. UNCHANGED hist \/ \E x : hist' = Failing(x)
        BY Zenon, <1>2 DEF continueCreateChildSA
      <3> QED BY Zenon, <1>t, <3>1, FailingKeeps DEF HistKept
    <2>3. IkeUeKept BY Zenon, <2>1 DEF IkeUeKept, UeSame
    <2> QED BY Zenon, <1>t, <2>1, <2>2, <2>3, IkeLoopKeepsRan, IkeEvtMoves, NgapEvtMoves
            DEF QuietStep
  <1>3. CASE HandleSendPDUSessionResourceSetupResponse /\ Head(ngapEvt).ue \notin RANUePool
    <2>1. /\ UNCHANGED <<IKEUePool, ikeUe, ikeTask, ngapVars, ikeEvt, upf, pkt, hist>>
          /\ UNCHANGED XfrmIfaceIdOffsetForUP /\ TakeNgapEvt("SendPDUSessionResourceSetupRes")
      BY Zenon, <1>3 DEF HandleSendPDUSessionResourceSetupResponse, Quiet, ikeVars
    <2> QED BY Zenon, <1>t, <2>1, SameIkeUe, IkeLoopKeepsRan, IkeEvtMoves, NgapEvtMoves
            DEF QuietStep, HistKept
  <1> QED BY Zenon, <1>1, <1>2, <1>3

\* A step of the IKE loop that moves a session on keeps the rest.
Onward ==
    /\ \A u \in Ue, s \in Session, t \in Teid :
         Less(u, s, t) /\ Held(u, s, t) /\ (Open(u, s, t)' => Open(u, s, t))
    /\ \A u \in Ue, s \in Session : First(u, s)' => First(u, s)

\* Such a step keeps the invariant if it keeps what the IKE loop knows.
LEMMA OnwardKeeps ==
    ASSUME SafeInv, TeidInv', Onward, RanKept, UesKept, UNCHANGED <<upf, pkt>>, IkeInv',
           XfrmIfaceIdOffsetForUP' \in {XfrmIfaceIdOffsetForUP, XfrmIfaceIdOffsetForUP + 1}
    PROVE  CoreInv'
  <1>t. Types /\ Types' BY Zenon DEF SafeInv, TeidInv
  <1>3. HoldersKnown BY Zenon DEF SafeInv, CoreInv, IkeInv
  <1>4. OwnInv' BY Zenon, <1>3, OwnKept DEF SafeInv, CoreInv, Onward
  <1>6. UpfInv' BY Zenon, UpfKept DEF SafeInv, CoreInv, Onward
  <1>8. FwdInv'
    BY Zenon, <1>t, <1>3, FwdKept DEF SafeInv, CoreInv, Onward
  <1> QED BY Zenon, <1>4, <1>6, <1>8 DEF CoreInv

\* The IKE UEs but u stay as they are, u keeps what is not about its sessions.
OnlyUe(u) ==
    /\ \A v \in Ue : v # u => ikeUe'[v] = ikeUe[v]
    /\ ikeUe'[u].auth = ikeUe[u].auth /\ ikeUe'[u].IPSecInnerIP = ikeUe[u].IPSecInnerIP
    /\ ikeUe'[u].sa = ikeUe[u].sa

\* The session of a CreatePDUSession event becomes the UE's half of an exchange.
LEMMA HalfKeeps ==
    ASSUME SafeInv, TeidInv', HandleCreatePDUSession, Head(ikeEvt).ue \in IKEUePool
    PROVE  CoreInv'
  <1>t. /\ Types /\ IkeTypes /\ MoreTypes /\ hist \in Hist /\ ikeUe \in [Ue -> IkeUe]
        /\ ikeEvt \in Seq(IkeEvt)
    BY Zenon DEF SafeInv, TeidInv, Types, IkeTypes, NgapTypes
  <1>i. IkeInv BY Zenon DEF SafeInv, CoreInv
  <1>1. /\ UNCHANGED <<IKEUePool, ikeTask, ngapVars, ngapEvt, upf, pkt, hist>>
        /\ UNCHANGED XfrmIfaceIdOffsetForUP /\ TakeIkeEvt("CreatePDUSession")
    BY Zenon DEF HandleCreatePDUSession, Quiet, ifVars
  <1>2. PICK u \in Ue, p \in Unactivated :
          /\ u = Head(ikeEvt).ue /\ p = Head(ikeEvt).pdu /\ u \in IKEUePool
          /\ Head(ikeEvt).type = "CreatePDUSession"
    <2>1. Head(ikeEvt) \in IkeEvt /\ Head(ikeEvt).type = "CreatePDUSession"
      BY Zenon, <1>t, <1>1, TakenEvt
    <2>2. Head(ikeEvt).ue \in Ue /\ Head(ikeEvt).pdu \in Unactivated BY Zenon, <2>1 DEF IkeEvt
    <2> QED BY Zenon, <2>1, <2>2
  <1>3. ikeUe' = [ikeUe EXCEPT ![u].half = p] BY Zenon, <1>2 DEF HandleCreatePDUSession
  <1>4. OnlyUe(u) /\ ikeUe'[u].half = p /\ ikeUe'[u].child = ikeUe[u].child
    BY ONLY Zenon, <1>t, <1>3, u \in Ue DEF OnlyUe, IkeUe
  <1>5. /\ 1 \in 1..Len(ikeEvt) /\ ikeEvt[1] = Head(ikeEvt) /\ Len(ikeEvt') \in Nat
        /\ \A k \in 1..Len(ikeEvt') :
             k + 1 \in 1..Len(ikeEvt) /\ ikeEvt'[k] = ikeEvt[k + 1] /\ k + 1 # 1
    BY ONLY <1>t, <1>1 DEF TakeIkeEvt
  <1>6. Created(1) /\ ikeEvt[1].ue = u /\ ikeEvt[1].pdu = p
    BY Zenon, <1>2, <1>5 DEF Created
  <1>7. \A k \in 1..Len(ikeEvt') : Created(k)' => Created(k + 1)
    BY Zenon, <1>5 DEF Created
  <1>p. p.session \in Session /\ p.teid \in Teid BY Zenon DEF Unactivated
  <1>a. Asked(u, p.session, p.teid) BY Zenon, <1>5, <1>6 DEF Asked
  <1>b. \A v \in Ue, s \in Session, t \in Teid : Asked(v, s, t)' => Asked(v, s, t)
    BY Zenon, <1>t, <1>1, IkeEvtMoves, EventsShrink
  <1>c. ASSUME NEW v \in Ue, NEW s \in Session, NEW t \in Teid
        PROVE  Half(v, s, t)' => Half(v, s, t) \/ (v = u /\ s = p.session /\ t = p.teid)
    BY Zenon, <1>4 DEF OnlyUe, Half
  <1>d. ASSUME NEW v \in Ue PROVE ikeUe'[v].child = ikeUe[v].child
    BY Zenon, <1>4 DEF OnlyUe
  <1>e. ASSUME NEW v \in Ue, NEW s \in Session, NEW t \in Teid
        PROVE  /\ HasChild(v, s, t)' <=> HasChild(v, s, t)
               /\ Bare(s, t)' \in ikeUe'[v].child <=> Bare(s, t) \in ikeUe[v].child
               /\ Reported(v, s, t)' <=> Reported(v, s, t)
               /\ AtUpf(v, s, t)' <=> AtUpf(v, s, t)
               /\ InDownlink(v, s, t)' <=> InDownlink(v, s, t)
    BY Zenon, <1>1, <1>d DEF HasChild, Reported, Told, AtUpf, InDownlink, Bare
  <1>8. ASSUME NEW v \in Ue, NEW s \in Session, NEW t \in Teid
        PROVE  Less(v, s, t) /\ Held(v, s, t) /\ (Open(v, s, t)' => Open(v, s, t))
    <2>1. Half(v, s, t)' => Half(v, s, t) \/ Asked(v, s, t) BY Zenon, <1>a, <1>c
    <2> QED BY Zenon, <1>b, <1>e, <2>1 DEF Less, Held, Part, Holder, Open
  <1>9. ASSUME NEW v \in Ue, NEW s \in Session, First(v, s)' PROVE First(v, s)
    <2>1. AskedFirst(v, s)' => AskedFirst(v, s)
      BY Zenon, <1>t, <1>1, IkeEvtMoves, FirstShrinks
    <2>2. ikeUe'[v].half = ikeUe[v].half \/ (v = u /\ ikeUe'[v].half = p)
      BY Zenon, <1>4 DEF OnlyUe
    <2>3. v = u /\ p.session = s /\ ~(p.len > 1) => AskedFirst(v, s)
      BY Zenon, <1>5, <1>6 DEF AskedFirst
    <2>4. \/ AskedFirst(v, s)'
          \/ ikeUe'[v].half # None /\ ikeUe'[v].half.session = s /\ ~(ikeUe'[v].half.len > 1)
          \/ ikeTask' # None /\ ikeTask'.ue = v /\ ikeTask'.pdu.session = s
               /\ ~(ikeTask'.pdu.len > 1)
          \/ \E c \in ikeUe'[v].child : c.session = s /\ c.iface = 0
          \/ (InUplink(v, s) /\ pkt.iface = 0)'
      BY Zenon, <1>9 DEF First
    <2>5. (InUplink(v, s) /\ pkt.iface = 0)' => InUplink(v, s) /\ pkt.iface = 0
      BY Zenon, <1>1 DEF InUplink
    <2> QED BY Zenon, <1>1, <1>d, <2>1, <2>2, <2>3, <2>4, <2>5 DEF First
  <1>10. IkeInv'
    <2>u. ikeUe[u].auth = "done"
      <3>1. ikeUe[u].auth \in {"done", "gone"}
        BY Zenon, <1>a, <1>p, <1>i DEF IkeInv, HoldersKnown, Holder, Part
      <3>2. ikeUe[u].auth # "gone" BY Zenon, <1>2, <1>i DEF IkeInv, Addressed
      <3> QED BY ONLY Zenon, <3>1, <3>2
    <2>v. \A v \in Ue : /\ ikeUe'[v].auth = ikeUe[v].auth /\ ikeUe'[v].sa = ikeUe[v].sa
                        /\ ikeUe'[v].IPSecInnerIP = ikeUe[v].IPSecInnerIP
      BY Zenon, <1>4 DEF OnlyUe
    <2>1. HoldersKnown'
      <3>1. ASSUME NEW v \in Ue, NEW s \in Session, NEW t \in Teid
            PROVE  /\ Holder(v, s, t)' => ikeUe'[v].auth \in {"done", "gone"}
                   /\ Half(v, s, t)' \/ HasChild(v, s, t)' => ikeUe'[v].auth = "done"
        BY ZenonT(30), <1>8, <1>c, <1>e, <2>u, <2>v, <1>i DEF Held, IkeInv, HoldersKnown
      <3> QED BY Zenon, <3>1 DEF HoldersKnown
    <2>2. Addressed' BY Zenon, <1>1, <2>v, <1>i DEF IkeInv, Addressed
    <2>3. PendingKnown' BY Zenon, <1>1, <2>v, <1>i DEF IkeInv, PendingKnown, Pending, ngapVars
    <2>4. AskedOnce'
      <3> SUFFICES ASSUME NEW j \in 1..Len(ikeEvt'), NEW k \in 1..Len(ikeEvt'), Created(j)',
                          Created(k)', ikeEvt'[j].ue = ikeEvt'[k].ue,
                          ikeEvt'[j].pdu.teid = ikeEvt'[k].pdu.teid
                   PROVE  j = k
        BY Zenon DEF AskedOnce
      <3>1. j + 1 = k + 1 BY Zenon, <1>5, <1>7, <1>i DEF IkeInv, AskedOnce
      <3> QED BY ONLY <1>5, <3>1, j \in 1..Len(ikeEvt'), k \in 1..Len(ikeEvt')
    <2>5. OneAtATime'
      <3> SUFFICES ASSUME NEW v \in Ue, NEW t \in Teid, NEW r \in Session, NEW s \in Session
                   PROVE  /\ Asked(v, r, t)' => ~Half(v, s, t)' /\ ~HasChild(v, s, t)'
                          /\ Half(v, r, t)' => ~HasChild(v, s, t)'
                          /\ Open(v, r, t)' => ~Reported(v, s, t)' /\ ~AtUpf(v, s, t)'
        BY Zenon DEF OneAtATime
      <3>1. ASSUME Asked(v, r, t)', v = u, t = p.teid PROVE FALSE
        <4>1. PICK k \in 1..Len(ikeEvt') :
                Created(k)' /\ ikeEvt'[k].ue = v /\ ikeEvt'[k].pdu.teid = t
          BY Zenon, <3>1 DEF Asked
        <4>2. k + 1 = 1 BY Zenon, <1>5, <1>6, <1>7, <1>i, <3>1, <4>1 DEF IkeInv, AskedOnce
        <4> QED BY Zenon, <1>5, <4>2
      <3>0. /\ Asked(v, r, t) => ~Half(v, s, t) /\ ~HasChild(v, s, t)
            /\ Half(v, r, t) => ~HasChild(v, s, t)
        BY Zenon, <1>i DEF IkeInv, OneAtATime
      <3>2. Open(v, r, t)' => ~Reported(v, s, t)' /\ ~AtUpf(v, s, t)'
        BY Zenon, <1>8, <1>e, <1>i DEF IkeInv, OneAtATime
      <3>3. Half(v, r, t)' => ~HasChild(v, s, t)'
        <4>1. Half(v, r, t)' => Half(v, r, t) \/ Asked(v, r, t) BY Zenon, <1>a, <1>c
        <4> QED BY Zenon, <1>e, <3>0, <4>1
      <3>4. Asked(v, r, t)' => ~Half(v, s, t)' /\ ~HasChild(v, s, t)'
        <4>1. Asked(v, r, t)' => Asked(v, r, t) BY Zenon, <1>b
        <4>2. Half(v, s, t)' => Half(v, s, t) \/ (v = u /\ t = p.teid) BY Zenon, <1>c
        <4> QED BY Zenon, <1>e, <3>0, <3>1, <4>1, <4>2
      <3> QED BY Zenon, <3>2, <3>3, <3>4
    <2>6. OneChild' BY Zenon, <1>d, <1>i DEF IkeInv, OneChild
    <2>7. TaskChild'
      <3>1. ikeTask # None => ikeTask.ue \in Ue BY Zenon DEF SafeInv, TeidInv, Types, IkeTypes, IkeTask
      <3>2. ikeTask # None => NewChildSA(ikeTask.pdu) \in ikeUe[ikeTask.ue].child
        BY Zenon, <1>i DEF IkeInv, TaskChild
      <3>3. ikeTask # None => NewChildSA(ikeTask.pdu) \in ikeUe'[ikeTask.ue].child
        BY Zenon, <1>d, <3>1, <3>2
      <3> QED BY Zenon, <1>1, <3>3 DEF TaskChild, NewChildSA
    <2>8. Unruled'
      <3>1. ASSUME NEW v \in Ue, NEW c \in ikeUe'[v].child
            PROVE  /\ c.session # None => c.teid # None
                   /\ c.session # None /\ c.iface = None => ~c.rules
                   /\ c.session = None => c.iface = None /\ c.teid = None
        <4>1. c \in ikeUe[v].child BY Zenon, <1>d, <3>1
        <4> QED BY Zenon, <4>1, <1>i DEF IkeInv, Unruled
      <3> QED BY Zenon, <3>1 DEF Unruled
    <2>9. IfaceBelow' BY Zenon, <1>1, <1>d, <1>i DEF IkeInv, IfaceBelow
    <2>10. OwnIface' BY Zenon, <1>d, <1>i DEF IkeInv, OwnIface
    <2> QED BY Zenon, <2>1, <2>2, <2>3, <2>4, <2>5, <2>6, <2>7, <2>8, <2>9, <2>10 DEF IkeInv
  <1>11. UesKept BY Zenon, <1>4 DEF UesKept, OnlyUe
  <1>12. RanKept BY Zenon, <1>t, <1>1, IkeLoopKeepsRan DEF HistKept
  <1>13. Onward BY Zenon, <1>8, <1>9 DEF Onward
  <1>14. XfrmIfaceIdOffsetForUP' \in {XfrmIfaceIdOffsetForUP, XfrmIfaceIdOffsetForUP + 1}
    BY Zenon, <1>1
  <1> QED BY Zenon, <1>1, <1>10, <1>11, <1>12, <1>13, <1>14, OnwardKeeps

\* The half exchange becomes a child SA without interface, and the IKE loop's task.
LEMMA ChildKeeps ==
    ASSUME SafeInv, TeidInv', NEW u \in Ue, CompleteChildSA(u)
    PROVE  CoreInv'
  <1>t. Types /\ IkeTypes /\ MoreTypes /\ hist \in Hist /\ ikeUe \in [Ue -> IkeUe]
    BY Zenon DEF SafeInv, TeidInv, Types, IkeTypes, NgapTypes
  <1>i. IkeInv BY Zenon DEF SafeInv, CoreInv
  <1>1. /\ UNCHANGED <<IKEUePool, ngapVars, ikeEvt, ngapEvt, upf, pkt, hist>>
        /\ UNCHANGED XfrmIfaceIdOffsetForUP /\ ikeUe[u].half # None
    BY Zenon DEF CompleteChildSA, Quiet, ifVars
  <1>2. PICK p \in Unactivated : p = ikeUe[u].half
    <2>1. ikeUe[u].half \in Unactivated BY Zenon, <1>t, <1>1 DEF IkeUe
    <2> QED BY Zenon, <2>1
  <1>p. p.session \in Session /\ p.teid \in Teid BY Zenon DEF Unactivated
  <1> DEFINE n == NewChildSA(p)
  <1>n. /\ n = Bare(p.session, p.teid) /\ n.session = p.session /\ n.teid = p.teid
        /\ n.iface = None /\ ~n.rules
    BY Zenon DEF NewChildSA, Bare
  <1>3. /\ ikeUe' = [ikeUe EXCEPT ![u].half = None, ![u].child = @ \cup {n}]
        /\ ikeTask' = [ue |-> u, pdu |-> p] /\ ikeTask'.ue = u /\ ikeTask'.pdu = p
    <2>1. /\ ikeUe' = [ikeUe EXCEPT ![u].half = None, ![u].child = @ \cup {n}]
          /\ ikeTask' = [ue |-> u, pdu |-> p]
      BY Zenon, <1>2 DEF CompleteChildSA
    <2> QED BY Zenon, <2>1
  <1>m. n = NewChildSA(p) BY Zenon
  <1> HIDE DEF n
  <1>4. OnlyUe(u) /\ ikeUe'[u].half = None /\ ikeUe'[u].child = ikeUe[u].child \cup {n}
    BY ONLY Zenon, <1>t, <1>3, u \in Ue DEF OnlyUe, IkeUe
  <1>a. Half(u, p.session, p.teid) BY Zenon, <1>1, <1>2 DEF Half
  <1>b. \A v \in Ue, s \in Session, t \in Teid : Half(v, s, t)' => Half(v, s, t)
    BY Zenon, <1>4 DEF OnlyUe, Half
  <1>h. \A s \in Session, t \in Teid : ~Half(u, s, t)' BY Zenon, <1>4 DEF Half
  <1>d. ASSUME NEW v \in Ue, NEW c \in ikeUe'[v].child
        PROVE  c \in ikeUe[v].child \/ (v = u /\ c = n)
    BY Zenon, <1>4, <1>d DEF OnlyUe
  <1>c. ASSUME NEW v \in Ue, NEW s \in Session, NEW t \in Teid
        PROVE  HasChild(v, s, t)' => HasChild(v, s, t) \/ (v = u /\ s = p.session /\ t = p.teid)
    BY Zenon, <1>d, <1>n DEF HasChild
  <1>e. ASSUME NEW v \in Ue, NEW s \in Session, NEW t \in Teid
        PROVE  /\ Asked(v, s, t)' <=> Asked(v, s, t)
               /\ Reported(v, s, t)' <=> Reported(v, s, t)
               /\ AtUpf(v, s, t)' <=> AtUpf(v, s, t)
               /\ InDownlink(v, s, t)' <=> InDownlink(v, s, t)
    BY Zenon, <1>1 DEF Asked, Created, Reported, Told, AtUpf, InDownlink
  <1>8. ASSUME NEW v \in Ue, NEW s \in Session, NEW t \in Teid
        PROVE  Less(v, s, t) /\ Held(v, s, t) /\ (Open(v, s, t)' => Open(v, s, t))
    <2>1. HasChild(v, s, t)' => HasChild(v, s, t) \/ Half(v, s, t) BY Zenon, <1>a, <1>c
    <2>2. Bare(s, t)' \in ikeUe'[v].child => Bare(s, t) \in ikeUe[v].child \/ Half(v, s, t)
      <3>1. Bare(s, t)' = Bare(s, t) BY Zenon DEF Bare
      <3>2. Bare(s, t) = n => s = p.session /\ t = p.teid BY Zenon, <1>n DEF Bare
      <3> QED BY Zenon, <1>a, <1>d, <3>1, <3>2
    <2> QED BY Zenon, <1>b, <1>e, <2>1, <2>2 DEF Less, Held, Part, Holder, Open
  <1>9. ASSUME NEW v \in Ue, NEW s \in Session, First(v, s)' PROVE First(v, s)
    <2>1. AskedFirst(v, s)' => AskedFirst(v, s)
      BY Zenon, <1>1 DEF AskedFirst, Created
    <2>2. ikeUe'[v].half \in {ikeUe[v].half, None} BY Zenon, <1>4 DEF OnlyUe
    <2>4. \/ AskedFirst(v, s)'
          \/ ikeUe'[v].half # None /\ ikeUe'[v].half.session = s /\ ~(ikeUe'[v].half.len > 1)
          \/ ikeTask' # None /\ ikeTask'.ue = v /\ ikeTask'.pdu.session = s
               /\ ~(ikeTask'.pdu.len > 1)
          \/ \E c \in ikeUe'[v].child : c.session = s /\ c.iface = 0
          \/ (InUplink(v, s) /\ pkt.iface = 0)'
      BY Zenon, <1>9 DEF First
    <2>5. (InUplink(v, s) /\ pkt.iface = 0)' => InUplink(v, s) /\ pkt.iface = 0
      BY Zenon, <1>1 DEF InUplink
    <2>6. ASSUME NEW c \in ikeUe'[v].child, c.session = s, c.iface = 0 PROVE c \in ikeUe[v].child
      <3>1. None # 0 BY UserPlaneAssumption
      <3> QED BY Zenon, <1>d, <1>n, <2>6, <3>1
    <2> QED BY Zenon, <1>1, <1>2, <1>3, <2>1, <2>2, <2>4, <2>5, <2>6 DEF First
  <1>10. IkeInv'
    <2>u. ikeUe[u].auth = "done" BY Zenon, <1>a, <1>p, <1>i DEF IkeInv, HoldersKnown
    <2>v. \A v \in Ue : /\ ikeUe'[v].auth = ikeUe[v].auth /\ ikeUe'[v].sa = ikeUe[v].sa
                        /\ ikeUe'[v].IPSecInnerIP = ikeUe[v].IPSecInnerIP
      BY Zenon, <1>4 DEF OnlyUe
    <2>1. HoldersKnown'
      <3>1. ASSUME NEW v \in Ue, NEW s \in Session, NEW t \in Teid
            PROVE  /\ Holder(v, s, t)' => ikeUe'[v].auth \in {"done", "gone"}
                   /\ Half(v, s, t)' \/ HasChild(v, s, t)' => ikeUe'[v].auth = "done"
        BY ZenonT(30), <1>8, <1>b, <1>c, <2>u, <2>v, <1>i DEF Held, IkeInv, HoldersKnown
      <3> QED BY Zenon, <3>1 DEF HoldersKnown
    <2>2. Addressed' BY Zenon, <1>1, <2>v, <1>i DEF IkeInv, Addressed
    <2>3. PendingKnown' BY Zenon, <1>1, <2>v, <1>i DEF IkeInv, PendingKnown, Pending, ngapVars
    <2>4. AskedOnce' BY Zenon, <1>1, <1>i DEF IkeInv, AskedOnce, Created
    <2>5. OneAtATime'
      <3> SUFFICES ASSUME NEW v \in Ue, NEW t \in Teid, NEW r \in Session, NEW s \in Session
                   PROVE  /\ Asked(v, r, t)' => ~Half(v, s, t)' /\ ~HasChild(v, s, t)'
                          /\ Half(v, r, t)' => ~HasChild(v, s, t)'
                          /\ Open(v, r, t)' => ~Reported(v, s, t)' /\ ~AtUpf(v, s, t)'
        BY Zenon DEF OneAtATime
      <3>0. /\ Asked(v, r, t) => ~Half(v, s, t) /\ ~HasChild(v, s, t)
            /\ Half(v, r, t) => ~HasChild(v, s, t)
            /\ Open(v, r, t) => ~Reported(v, s, t) /\ ~AtUpf(v, s, t)
        BY Zenon, <1>i DEF IkeInv, OneAtATime
      <3>1. Open(v, r, t)' => Open(v, r, t) BY Zenon, <1>8
      <3>2. HasChild(v, s, t)' => HasChild(v, s, t) \/ (v = u /\ Half(v, s, t))
        BY Zenon, <1>a, <1>c
      <3>3. v = u => ~Half(v, r, t)' BY Zenon, <1>h
      <3> QED BY Zenon, <1>b, <1>e, <3>0, <3>1, <3>2, <3>3
    <2>6. OneChild'
      <3>1. ASSUME NEW c \in ikeUe[u].child, c.teid = n.teid PROVE FALSE
        <4>1. c.session # None
          <5>1. c.session = None => c.teid = None BY Zenon, <1>i DEF IkeInv, Unruled
          <5>2. n.teid # None BY Zenon, <1>n, <1>p, NotNone
          <5> QED BY Zenon, <3>1, <5>1, <5>2
        <4>2. c.session \in Session BY <1>t, <4>1 DEF IkeUe, ChildSA
        <4>3. HasChild(u, c.session, p.teid) BY Zenon, <1>n, <3>1 DEF HasChild
        <4> QED BY Zenon, <1>a, <1>p, <1>i, <4>2, <4>3 DEF IkeInv, OneAtATime
      <3> SUFFICES ASSUME NEW v \in Ue, NEW c \in ikeUe'[v].child, NEW d \in ikeUe'[v].child,
                          c.teid = d.teid, c.teid # None
                   PROVE  c = d
        BY Zenon DEF OneChild
      <3>2. CASE c \in ikeUe[v].child /\ d \in ikeUe[v].child
        BY Zenon, <1>i, <3>2 DEF IkeInv, OneChild
      <3>3. CASE c = n /\ v = u BY Zenon, <1>d, <3>1, <3>3
      <3>4. CASE d = n /\ v = u BY Zenon, <1>d, <3>1, <3>4
      <3> QED BY Zenon, <1>d, <3>2, <3>3, <3>4
    <2>7. TaskChild'
      <3>1. n \in ikeUe'[u].child BY Zenon, <1>4
      <3>2. NewChildSA(ikeTask'.pdu) = n BY Zenon, <1>3, <1>m
      <3> QED BY Zenon, <1>3, <3>1, <3>2 DEF TaskChild, NewChildSA
    <2>8. Unruled'
      <3>1. ASSUME NEW v \in Ue, NEW c \in ikeUe'[v].child
            PROVE  /\ c.session # None => c.teid # None
                   /\ c.session # None /\ c.iface = None => ~c.rules
                   /\ c.session = None => c.iface = None /\ c.teid = None
        <4>1. CASE c \in ikeUe[v].child BY Zenon, <4>1, <1>i DEF IkeInv, Unruled
        <4>2. CASE c = n BY Zenon, <1>n, <1>p, <4>2, NotNone
        <4> QED BY Zenon, <1>d, <4>1, <4>2
      <3> QED BY Zenon, <3>1 DEF Unruled
    <2>9. IfaceBelow'
      <3>1. ASSUME NEW v \in Ue, NEW c \in ikeUe'[v].child, c.iface # None
            PROVE  c.iface < XfrmIfaceIdOffsetForUP'
        BY Zenon, <1>1, <1>d, <1>i, <1>n, <3>1 DEF IkeInv, IfaceBelow
      <3> QED BY Zenon, <3>1 DEF IfaceBelow
    <2>10. OwnIface'
      <3> SUFFICES ASSUME NEW v \in Ue, NEW c \in ikeUe'[v].child, NEW d \in ikeUe'[v].child,
                          c.iface = d.iface, c.iface \notin {None, 0}
                   PROVE  c = d
        BY Zenon DEF OwnIface
      <3>0. c.iface # None BY Zenon
      <3>1. c \in ikeUe[v].child /\ d \in ikeUe[v].child BY Zenon, <1>d, <1>n, <3>0
      <3> QED BY Zenon, <1>i, <3>1 DEF IkeInv, OwnIface
    <2> QED BY Zenon, <2>1, <2>2, <2>3, <2>4, <2>5, <2>6, <2>7, <2>8, <2>9, <2>10 DEF IkeInv
  <1>11. UesKept
    <2>1. ASSUME NEW v \in Ue, NEW c \in ikeUe'[v].child
          PROVE  c \in ikeUe[v].child \/ c.iface \in {None, 0, XfrmIfaceIdOffsetForUP}
      BY Zenon, <1>d, <1>n, <2>1
    <2> QED BY Zenon, <1>4, <2>1 DEF UesKept, OnlyUe
  <1>12. RanKept BY Zenon, <1>t, <1>1, IkeLoopKeepsRan DEF HistKept
  <1>13. Onward BY Zenon, <1>8, <1>9 DEF Onward
  <1>14. XfrmIfaceIdOffsetForUP' \in {XfrmIfaceIdOffsetForUP, XfrmIfaceIdOffsetForUP + 1}
    BY Zenon, <1>1
  <1> QED BY Zenon, <1>1, <1>10, <1>11, <1>12, <1>13, <1>14, OnwardKeeps

\* The child SA gets its interface, and the NGAP loop is told of the session.
LEMMA ConnectedKeeps ==
    ASSUME SafeInv, TeidInv', continueCreateChildSA, ~UNCHANGED <<ikeUe, ngapEvt, ifVars>>
    PROVE  CoreInv'
  <1>t. /\ Types /\ IkeTypes /\ MoreTypes /\ hist \in Hist /\ ikeUe \in [Ue -> IkeUe]
        /\ ngapEvt \in Seq(NgapEvt) /\ XfrmIfaceIdOffsetForUP \in Nat \ {0}
    BY Zenon DEF SafeInv, MoreTypes, TeidInv, Types, IkeTypes, NgapTypes
  <1>i. IkeInv BY Zenon DEF SafeInv, CoreInv
  <1>o. 0 # None /\ \A i \in Nat : i # None BY UserPlaneAssumption
  <1>1. /\ UNCHANGED <<IKEUePool, ngapVars, ikeEvt, upf, pkt>> /\ ikeTask # None /\ ikeTask' = None
    BY Zenon DEF continueCreateChildSA, Quiet
  <1>2. PICK u \in Ue, p \in Unactivated : u = ikeTask.ue /\ p = ikeTask.pdu
    BY Zenon, <1>t, <1>1 DEF IkeTypes, IkeTask
  <1>p. p.session \in Session /\ p.teid \in Teid BY Zenon DEF Unactivated
  <1> DEFINE c0 == NewChildSA(p)
  <1>c. /\ c0 = Bare(p.session, p.teid) /\ c0.session = p.session /\ c0.teid = p.teid
    BY Zenon DEF NewChildSA, Bare
  <1>k. c0 \in ikeUe[u].child BY Zenon, <1>1, <1>2, <1>i DEF IkeInv, TaskChild
  <1>3. PICK rules, i :
          /\ rules \in BOOLEAN /\ i = IF p.len > 1 THEN XfrmIfaceIdOffsetForUP ELSE 0
          /\ Connected(i, rules) /\ hist' = Failing(~rules)
          /\ XfrmIfaceIdOffsetForUP' = XfrmIfaceIdOffsetForUP + (IF p.len > 1 THEN 1 ELSE 0)
    <2>1. \E rules \in BOOLEAN :
             /\ Connected(IF p.len > 1 THEN XfrmIfaceIdOffsetForUP ELSE 0, rules)
             /\ hist' = Failing(~rules)
             /\ XfrmIfaceIdOffsetForUP' = XfrmIfaceIdOffsetForUP + (IF p.len > 1 THEN 1 ELSE 0)
      BY Zenon, <1>2 DEF continueCreateChildSA
    <2> QED BY Zenon, <2>1
  <1> DEFINE n == [c0 EXCEPT !.iface = i, !.rules = rules]
             e == [type |-> "SendPDUSessionResourceSetupRes", ue |-> u, pdu |-> p]
  <1>n. n.session = p.session /\ n.teid = p.teid /\ n.iface = i BY Zenon DEF NewChildSA
  <1>4. /\ ikeUe' = [ikeUe EXCEPT ![u].child = (@ \ {c0}) \cup {n}]
        /\ ngapEvt' = IF rules THEN Append(ngapEvt, e) ELSE ngapEvt
    BY Zenon, <1>2, <1>3 DEF Connected
  <1>e. e.ue = u /\ e.pdu = p /\ e \in NgapEvt BY Zenon DEF NgapEvt
  <1> HIDE DEF c0, n, e
  <1>5. /\ OnlyUe(u) /\ ikeUe'[u].half = ikeUe[u].half
        /\ ikeUe'[u].child = (ikeUe[u].child \ {c0}) \cup {n}
    BY ONLY Zenon, <1>t, <1>4, u \in Ue DEF OnlyUe, IkeUe
  <1>6. /\ i \in Nat /\ i < XfrmIfaceIdOffsetForUP'
        /\ i = 0 \/ i = XfrmIfaceIdOffsetForUP
        /\ XfrmIfaceIdOffsetForUP' \in {XfrmIfaceIdOffsetForUP, XfrmIfaceIdOffsetForUP + 1}
        /\ i = 0 => ~(p.len > 1)
    <2>1. CASE p.len > 1 BY <1>3, <1>t, <2>1
    <2>2. CASE ~(p.len > 1) BY <1>3, <1>t, <2>2
    <2> QED BY Zenon, <2>1, <2>2
  <1>d. ASSUME NEW v \in Ue, NEW c \in ikeUe'[v].child
        PROVE  (c \in ikeUe[v].child /\ (v = u => c # c0)) \/ (v = u /\ c = n)
    BY Zenon, <1>5, <1>d DEF OnlyUe
  <1>a. HasChild(u, p.session, p.teid) BY Zenon, <1>c, <1>k DEF HasChild
  <1>b. ASSUME NEW v \in Ue, NEW s \in Session, NEW t \in Teid
        PROVE  HasChild(v, s, t)' => HasChild(v, s, t)
    BY Zenon, <1>a, <1>d, <1>n DEF HasChild
  <1>f. ASSUME NEW v \in Ue, NEW s \in Session, NEW t \in Teid
        PROVE  /\ Asked(v, s, t)' <=> Asked(v, s, t)
               /\ Half(v, s, t)' <=> Half(v, s, t)
               /\ AtUpf(v, s, t)' <=> AtUpf(v, s, t)
               /\ InDownlink(v, s, t)' <=> InDownlink(v, s, t)
    BY Zenon, <1>1, <1>5 DEF OnlyUe, Half, Asked, Created, AtUpf, InDownlink
  <1>g. ASSUME NEW v \in Ue, NEW s \in Session, NEW t \in Teid
        PROVE  Reported(v, s, t)' =>
                 Reported(v, s, t) \/ (v = u /\ s = p.session /\ t = p.teid)
    <2> SUFFICES ASSUME Reported(v, s, t)'
                 PROVE  Reported(v, s, t) \/ (v = u /\ s = p.session /\ t = p.teid)
      BY Zenon
    <2>1. PICK k \in 1..Len(ngapEvt') :
             /\ ngapEvt'[k].type = "SendPDUSessionResourceSetupRes" /\ ngapEvt'[k].ue = v
             /\ ngapEvt'[k].pdu.session = s /\ ngapEvt'[k].pdu.teid = t
      BY Zenon DEF Reported, Told
    <2>2. (k \in 1..Len(ngapEvt) /\ ngapEvt'[k] = ngapEvt[k]) \/ ngapEvt'[k] = e
      BY ONLY <1>4, <1>t, <1>e, k \in 1..Len(ngapEvt')
    <2> QED BY Zenon, <1>e, <2>1, <2>2 DEF Reported, Told
  <1>h. ASSUME NEW v \in Ue, NEW s \in Session, NEW t \in Teid
        PROVE  Bare(s, t)' \in ikeUe'[v].child =>
                 Bare(s, t) \in ikeUe[v].child /\ (v = u => Bare(s, t) # c0)
    <2>1. Bare(s, t)' = Bare(s, t) BY Zenon DEF Bare
    <2>2. Bare(s, t).iface = None BY Zenon DEF Bare
    <2>3. Bare(s, t) # n BY Zenon, <1>6, <1>n, <1>o, <2>2
    <2> QED BY Zenon, <1>d, <2>1, <2>3
  <1>8. ASSUME NEW v \in Ue, NEW s \in Session, NEW t \in Teid
        PROVE  Less(v, s, t) /\ Held(v, s, t) /\ (Open(v, s, t)' => Open(v, s, t))
    <2>1. Reported(v, s, t)' => Reported(v, s, t) \/ HasChild(v, s, t) BY Zenon, <1>a, <1>g
    <2>2. HasChild(v, s, t)' => HasChild(v, s, t) BY Zenon, <1>b
    <2>3. Bare(s, t)' \in ikeUe'[v].child => Bare(s, t) \in ikeUe[v].child BY Zenon, <1>h
    <2> QED BY Zenon, <1>f, <2>1, <2>2, <2>3 DEF Less, Held, Part, Holder, Open
  <1>9. ASSUME NEW v \in Ue, NEW s \in Session, First(v, s)' PROVE First(v, s)
    <2>1. AskedFirst(v, s)' => AskedFirst(v, s)
      BY Zenon, <1>1 DEF AskedFirst, Created
    <2>2. ikeUe'[v].half = ikeUe[v].half BY Zenon, <1>5 DEF OnlyUe
    <2>4. \/ AskedFirst(v, s)'
          \/ ikeUe'[v].half # None /\ ikeUe'[v].half.session = s /\ ~(ikeUe'[v].half.len > 1)
          \/ ikeTask' # None /\ ikeTask'.ue = v /\ ikeTask'.pdu.session = s
               /\ ~(ikeTask'.pdu.len > 1)
          \/ \E c \in ikeUe'[v].child : c.session = s /\ c.iface = 0
          \/ (InUplink(v, s) /\ pkt.iface = 0)'
      BY Zenon, <1>9 DEF First
    <2>5. (InUplink(v, s) /\ pkt.iface = 0)' => InUplink(v, s) /\ pkt.iface = 0
      BY Zenon, <1>1 DEF InUplink
    <2>6. ASSUME NEW c \in ikeUe'[v].child, c.session = s, c.iface = 0 PROVE First(v, s)
      <3>1. CASE c \in ikeUe[v].child BY Zenon, <2>6, <3>1 DEF First
      <3>2. CASE v = u /\ c = n BY Zenon, <1>1, <1>2, <1>6, <1>n, <2>6, <3>2 DEF First
      <3> QED BY Zenon, <1>d, <3>1, <3>2
    <2> QED BY Zenon, <1>1, <2>1, <2>2, <2>4, <2>5, <2>6 DEF First
  <1>10. IkeInv'
    <2>u. ikeUe[u].auth = "done" BY Zenon, <1>a, <1>p, <1>i DEF IkeInv, HoldersKnown
    <2>v. \A v \in Ue : /\ ikeUe'[v].auth = ikeUe[v].auth /\ ikeUe'[v].sa = ikeUe[v].sa
                        /\ ikeUe'[v].IPSecInnerIP = ikeUe[v].IPSecInnerIP
      BY Zenon, <1>5 DEF OnlyUe
    <2>1. HoldersKnown'
      <3>1. ASSUME NEW v \in Ue, NEW s \in Session, NEW t \in Teid
            PROVE  /\ Holder(v, s, t)' => ikeUe'[v].auth \in {"done", "gone"}
                   /\ Half(v, s, t)' \/ HasChild(v, s, t)' => ikeUe'[v].auth = "done"
        BY ZenonT(30), <1>8, <1>b, <1>f, <2>v, <1>i DEF Held, IkeInv, HoldersKnown
      <3> QED BY Zenon, <3>1 DEF HoldersKnown
    <2>2. Addressed' BY Zenon, <1>1, <2>v, <1>i DEF IkeInv, Addressed
    <2>3. PendingKnown' BY Zenon, <1>1, <2>v, <1>i DEF IkeInv, PendingKnown, Pending, ngapVars
    <2>4. AskedOnce' BY Zenon, <1>1, <1>i DEF IkeInv, AskedOnce, Created
    <2>5. OneAtATime'
      <3> SUFFICES ASSUME NEW v \in Ue, NEW t \in Teid, NEW r \in Session, NEW s \in Session
                   PROVE  /\ Asked(v, r, t)' => ~Half(v, s, t)' /\ ~HasChild(v, s, t)'
                          /\ Half(v, r, t)' => ~HasChild(v, s, t)'
                          /\ Open(v, r, t)' => ~Reported(v, s, t)' /\ ~AtUpf(v, s, t)'
        BY Zenon DEF OneAtATime
      <3>0. /\ Asked(v, r, t) => ~Half(v, s, t) /\ ~HasChild(v, s, t)
            /\ Half(v, r, t) => ~HasChild(v, s, t)
            /\ Open(v, r, t) => ~Reported(v, s, t) /\ ~AtUpf(v, s, t)
        BY Zenon, <1>i DEF IkeInv, OneAtATime
      <3>1. Open(v, r, t)' => Open(v, r, t) BY Zenon, <1>8
      <3>2. HasChild(v, s, t)' => HasChild(v, s, t) BY Zenon, <1>b
      <3>3. ASSUME Open(v, r, t)', v = u, t = p.teid PROVE FALSE
        <4>1. ~Asked(v, r, t) /\ ~Half(v, r, t)
          BY Zenon, <1>a, <1>p, <3>3, <1>i DEF IkeInv, OneAtATime
        <4>2. Bare(r, t) \in ikeUe[v].child /\ Bare(r, t) # c0
          BY Zenon, <1>f, <1>h, <3>3, <4>1 DEF Open
        <4>3. Bare(r, t).teid = t /\ t # None BY Zenon, NotNone DEF Bare
        <4> QED BY Zenon, <1>c, <1>k, <3>3, <4>2, <4>3, <1>i DEF IkeInv, OneChild
      <3>4. Reported(v, s, t)' => Reported(v, s, t) \/ (v = u /\ t = p.teid) BY Zenon, <1>g
      <3> QED BY Zenon, <1>f, <3>0, <3>1, <3>2, <3>3, <3>4
    <2>6. OneChild'
      <3>1. ASSUME NEW c \in ikeUe[u].child, c # c0, c.teid = n.teid PROVE FALSE
        <4>1. n.teid # None BY Zenon, <1>n, <1>p, NotNone
        <4> QED BY Zenon, <1>c, <1>i, <1>k, <1>n, <3>1, <4>1 DEF IkeInv, OneChild
      <3> SUFFICES ASSUME NEW v \in Ue, NEW c \in ikeUe'[v].child, NEW d \in ikeUe'[v].child,
                          c.teid = d.teid, c.teid # None
                   PROVE  c = d
        BY Zenon DEF OneChild
      <3>2. CASE c \in ikeUe[v].child /\ d \in ikeUe[v].child
        BY Zenon, <1>i, <3>2 DEF IkeInv, OneChild
      <3>3. CASE c = n /\ v = u BY Zenon, <1>d, <3>1, <3>3
      <3>4. CASE d = n /\ v = u BY Zenon, <1>d, <3>1, <3>4
      <3> QED BY Zenon, <1>d, <3>2, <3>3, <3>4
    <2>7. TaskChild' BY Zenon, <1>1 DEF TaskChild
    <2>8. Unruled'
      <3>1. ASSUME NEW v \in Ue, NEW c \in ikeUe'[v].child
            PROVE  /\ c.session # None => c.teid # None
                   /\ c.session # None /\ c.iface = None => ~c.rules
                   /\ c.session = None => c.iface = None /\ c.teid = None
        <4>1. CASE c \in ikeUe[v].child BY Zenon, <4>1, <1>i DEF IkeInv, Unruled
        <4>2. CASE c = n BY Zenon, <1>6, <1>n, <1>o, <1>p, <4>2, NotNone
        <4> QED BY Zenon, <1>d, <4>1, <4>2
      <3> QED BY Zenon, <3>1 DEF Unruled
    <2>w. ASSUME NEW v \in Ue, NEW c \in ikeUe[v].child, c.iface # None
          PROVE  c.iface \in Nat /\ c.iface < XfrmIfaceIdOffsetForUP
      <3>1. c.iface \in Nat BY <1>t, <2>w DEF IkeUe, ChildSA, Iface
      <3> QED BY Zenon, <1>i, <2>w, <3>1 DEF IkeInv, IfaceBelow
    <2>9. IfaceBelow'
      <3>1. ASSUME NEW v \in Ue, NEW c \in ikeUe'[v].child, c.iface # None
            PROVE  c.iface < XfrmIfaceIdOffsetForUP'
        <4>1. CASE c \in ikeUe[v].child
          <5>1. c.iface \in Nat /\ c.iface < XfrmIfaceIdOffsetForUP BY Zenon, <2>w, <3>1, <4>1
          <5> QED BY ONLY <1>t, <1>6, <5>1
        <4>2. CASE c = n BY Zenon, <1>6, <1>n, <4>2
        <4> QED BY Zenon, <1>d, <4>1, <4>2
      <3> QED BY Zenon, <3>1 DEF IfaceBelow
    <2>10. OwnIface'
      <3> SUFFICES ASSUME NEW v \in Ue, NEW c \in ikeUe'[v].child, NEW d \in ikeUe'[v].child,
                          c.iface = d.iface, c.iface \notin {None, 0}
                   PROVE  c = d
        BY Zenon DEF OwnIface
      <3>0. c.iface # None /\ c.iface # 0 BY Zenon
      <3>1. CASE c \in ikeUe[v].child /\ d \in ikeUe[v].child
        BY Zenon, <1>i, <3>1 DEF IkeInv, OwnIface
      <3>2. ASSUME NEW x \in ikeUe[v].child, x.iface = i, i # 0 PROVE FALSE
        <4>1. x.iface \in Nat /\ x.iface < XfrmIfaceIdOffsetForUP BY Zenon, <1>6, <1>o, <2>w, <3>2
        <4> QED BY ONLY <1>t, <1>6, <3>2, <4>1
      <3>3. CASE c = n BY Zenon, <1>d, <1>n, <3>0, <3>2, <3>3
      <3>4. CASE d = n BY Zenon, <1>d, <1>n, <3>0, <3>2, <3>4
      <3> QED BY Zenon, <1>d, <3>1, <3>3, <3>4
    <2> QED BY Zenon, <2>1, <2>2, <2>3, <2>4, <2>5, <2>6, <2>7, <2>8, <2>9, <2>10 DEF IkeInv
  <1>11. UesKept
    <2>1. ASSUME NEW v \in Ue, NEW c \in ikeUe'[v].child
          PROVE  c \in ikeUe[v].child \/ c.iface \in {None, 0, XfrmIfaceIdOffsetForUP}
      BY Zenon, <1>d, <1>n, <1>6, <2>1
    <2> QED BY Zenon, <1>5, <2>1 DEF UesKept, OnlyUe
  <1>12. HistKept BY Zenon, <1>t, <1>3, FailingKeeps
  <1>13. RanKept BY Zenon, <1>t, <1>1, <1>12, IkeLoopKeepsRan
  <1>14. Onward BY Zenon, <1>8, <1>9 DEF Onward
  <1> QED BY Zenon, <1>1, <1>6, <1>10, <1>11, <1>13, <1>14, OnwardKeeps

\* A session that uses the default interface, or will, was set up for the RAN UE.
LEMMA FirstUsed ==
    ASSUME SafeInv, NEW u \in RANUePool, NEW s \in Session, First(u, s)
    PROVE  s \in ranUe[u].used
  <1>t. /\ u \in Ue /\ ikeUe \in [Ue -> IkeUe] /\ ikeEvt \in Seq(IkeEvt)
        /\ ikeTask \in IkeTask \cup {None}
    BY Zenon DEF SafeInv, TeidInv, Types, IkeTypes, NgapTypes
  <1>i. IkeInv /\ HoldersOwn BY Zenon DEF SafeInv, CoreInv, OwnInv
  <1>p. ASSUME NEW t \in Teid, Part(u, s, t) PROVE s \in ranUe[u].used
    BY Zenon, <1>i, <1>p DEF HoldersOwn, Holder
  <1>1. CASE AskedFirst(u, s)
    <2>1. PICK k \in 1..Len(ikeEvt) : /\ Created(k) /\ ikeEvt[k].ue = u
                                      /\ ikeEvt[k].pdu.session = s
      BY Zenon, <1>1 DEF AskedFirst
    <2>2. ikeEvt[k] \in IkeEvt /\ ikeEvt[k].type = "CreatePDUSession"
      BY <1>t, <2>1 DEF Created
    <2>3. ikeEvt[k].pdu.teid \in Teid BY ONLY Zenon, <2>2 DEF IkeEvt, Unactivated
    <2>4. Asked(u, s, ikeEvt[k].pdu.teid) BY Zenon, <2>1 DEF Asked
    <2> QED BY Zenon, <1>p, <2>3, <2>4 DEF Part
  <1>2. CASE ikeUe[u].half # None /\ ikeUe[u].half.session = s
    <2>1. ikeUe[u].half.teid \in Teid BY ONLY Zenon, <1>t, <1>2 DEF IkeUe, Unactivated
    <2>2. Half(u, s, ikeUe[u].half.teid) BY Zenon, <1>2 DEF Half
    <2> QED BY Zenon, <1>p, <2>1, <2>2 DEF Part
  <1>3. ASSUME NEW c \in ikeUe[u].child, c.session = s PROVE s \in ranUe[u].used
    <2>1. c.teid # None BY Zenon, <1>t, <1>i, <1>3, NotNone DEF IkeInv, Unruled
    <2>2. c.teid \in Teid BY ONLY <1>t, <2>1, c \in ikeUe[u].child DEF IkeUe, ChildSA
    <2>3. HasChild(u, s, c.teid) BY Zenon, <1>3 DEF HasChild
    <2> QED BY Zenon, <1>p, <2>2, <2>3 DEF Part
  <1>4. CASE ikeTask # None /\ ikeTask.ue = u /\ ikeTask.pdu.session = s
    <2>1. NewChildSA(ikeTask.pdu) \in ikeUe[u].child BY Zenon, <1>4, <1>i DEF IkeInv, TaskChild
    <2>2. NewChildSA(ikeTask.pdu).session = s BY Zenon, <1>4 DEF NewChildSA
    <2> QED BY Zenon, <1>3, <2>1, <2>2
  <1>5. CASE InUplink(u, s) BY Zenon, <1>t, <1>5 DEF SafeInv, CoreInv, FwdInv, UplinkFits
  <1> QED BY Zenon, <1>1, <1>2, <1>3, <1>4, <1>5 DEF First

\* What only the IKE loop and the packets say is as it was.
LEMMA NgapKeeps ==
    ASSUME UNCHANGED <<IKEUePool, ikeUe, ikeTask, ikeEvt, ngapEvt, upf, pkt>>
    PROVE  /\ \A u \in Ue, s \in Session, t \in Teid :
                /\ Holder(u, s, t)' <=> Holder(u, s, t)
                /\ Part(u, s, t)' <=> Part(u, s, t)
                /\ Open(u, s, t)' <=> Open(u, s, t)
           /\ \A u \in Ue, s \in Session :
                (First(u, s)' <=> First(u, s)) /\ (InUplink(u, s)' <=> InUplink(u, s))
  <1>1. ASSUME NEW u \in Ue, NEW s \in Session, NEW t \in Teid
        PROVE  /\ Asked(u, s, t)' <=> Asked(u, s, t)
               /\ Half(u, s, t)' <=> Half(u, s, t)
               /\ HasChild(u, s, t)' <=> HasChild(u, s, t)
               /\ (Bare(s, t) \in ikeUe[u].child)' <=> Bare(s, t) \in ikeUe[u].child
               /\ Reported(u, s, t)' <=> Reported(u, s, t)
               /\ AtUpf(u, s, t)' <=> AtUpf(u, s, t)
               /\ InDownlink(u, s, t)' <=> InDownlink(u, s, t)
    BY Zenon DEF Asked, Created, Half, HasChild, Bare, Reported, Told, AtUpf, InDownlink
  <1>2. ASSUME NEW u \in Ue, NEW s \in Session
        PROVE  (AskedFirst(u, s)' <=> AskedFirst(u, s)) /\ (InUplink(u, s)' <=> InUplink(u, s))
    BY Zenon DEF AskedFirst, Created, InUplink
  <1>3. ASSUME NEW u \in Ue, NEW s \in Session PROVE First(u, s)' <=> First(u, s)
    BY Zenon, <1>2 DEF First
  <1>4. ASSUME NEW u \in Ue, NEW s \in Session, NEW t \in Teid
        PROVE  /\ Part(u, s, t)' <=> Part(u, s, t)
               /\ Open(u, s, t)' <=> Open(u, s, t)
               /\ Holder(u, s, t)' <=> Holder(u, s, t)
    BY Zenon, <1>1 DEF Part, Open, Holder
  <1> QED BY Zenon, <1>2, <1>3, <1>4

\* A new session has no TEID yet, and nothing refers to it.
LEMMA NewSessionKeeps ==
    ASSUME SafeInv, TeidInv', NEW u \in Ue, NEW s \in Session, CreatePDUSession(u, s)
    PROVE  CoreInv'
  <1>t. /\ Types /\ hist \in Hist /\ ranUe \in [Ue -> RanUe] /\ RANUePool \subseteq Ue
    BY Zenon DEF SafeInv, TeidInv, Types, NgapTypes
  <1>i. OwnInv /\ IkeInv /\ UpfInv /\ FwdInv BY Zenon DEF SafeInv, CoreInv
  <1>1. /\ UNCHANGED <<IKEUePool, ikeUe, ikeTask, ikeEvt, ngapEvt, upf, pkt>>
        /\ UNCHANGED <<XfrmIfaceIdOffsetForUP, RANUePool, AllocatedUETEID>>
        /\ ngapTask = None /\ ngapTask' = [ue |-> u, session |-> s]
        /\ u \in RANUePool /\ ikeUe[u].auth = "done" /\ s \notin Active(u)
        /\ ranUe' = [ranUe EXCEPT ![u].PduSessionList[s] = [teid |-> None],
                                  ![u].used = @ \cup {s}]
        /\ hist' = [hist EXCEPT !.setups = @ + 1, !.again = @ \/ s \in ranUe[u].used]
    BY Zenon DEF CreatePDUSession, Quiet, ikeVars, NgapIdle, Registered
  <1>2. /\ hist'.again = (hist.again \/ s \in ranUe[u].used)
        /\ hist'.reused = hist.reused /\ hist'.twice = hist.twice
    BY ONLY Zenon, <1>1, <1>t DEF Hist
  <1>3. \A v \in Ue, r \in Session : ranUe'[v].PduSessionList[r] =
          IF v = u /\ r = s THEN [teid |-> None] ELSE ranUe[v].PduSessionList[r]
    BY ONLY Zenon, <1>1, <1>t, u \in Ue, s \in Session DEF RanUe
  <1>4. s \in ranUe'[u].used /\ \A v \in Ue : \A r \in ranUe[v].used : r \in ranUe'[v].used
    BY ONLY Zenon, <1>1, <1>t, u \in Ue, s \in Session DEF RanUe
  <1>5. ASSUME NEW v \in Ue, NEW r \in Session
        PROVE  /\ \A t \in Teid : Lists(v, r, t)' => Lists(v, r, t)
               /\ Lists(v, r, None)' => Lists(v, r, None) \/ (v = u /\ r = s)
               /\ r \in Active(v)' => r \in Active(v) \/ (v = u /\ r = s)
    <2>1. CASE v = u /\ r = s BY ONLY Zenon, <1>3, <2>1, NotNone, u \in Ue, s \in Session DEF Lists
    <2>2. CASE ~(v = u /\ r = s) BY Zenon, <1>3, <2>2 DEF Lists, Active
    <2> QED BY Zenon, <2>1, <2>2
  <1>6. ASSUME NEW v \in Ue, NEW r \in Session PROVE Pending(v, r)' <=> v = u /\ r = s
    <2>1. ngapTask' # None /\ ngapTask'.ue = u /\ ngapTask'.session = s
      BY ONLY <1>1, UserPlaneAssumption, u \in Ue, s \in Session
    <2> QED BY Zenon, <2>1 DEF Pending
  <1>7. ASSUME NEW v \in Ue, NEW r \in Session, NEW t \in Teid
        PROVE  /\ Holder(v, r, t)' => Holder(v, r, t)
               /\ Part(v, r, t)' => Part(v, r, t)
               /\ Open(v, r, t)' => Open(v, r, t)
    BY Zenon, <1>1, NgapKeeps
  <1>8. ASSUME NEW v \in Ue, NEW r \in Session
        PROVE  (First(v, r)' => First(v, r)) /\ (InUplink(v, r)' => InUplink(v, r))
    BY Zenon, <1>1, NgapKeeps
  <1>9. OwnInv'
    <2>1. HoldersOwn'
      <3> SUFFICES ASSUME NEW v \in RANUePool', NEW r \in Session, NEW t \in Teid,
                          Holder(v, r, t)'
                   PROVE  /\ AllocatedUETEID'[t] = v /\ r \in ranUe'[v].used
                          /\ \A x \in Session : Lists(v, x, t)' => x = r
        BY Zenon DEF HoldersOwn
      <3>1. v \in Ue /\ v \in RANUePool /\ Holder(v, r, t) BY Zenon, <1>t, <1>1, <1>7
      <3>2. /\ AllocatedUETEID[t] = v /\ r \in ranUe[v].used
            /\ \A x \in Session : Lists(v, x, t) => x = r
        BY Zenon, <1>i, <3>1 DEF OwnInv, HoldersOwn
      <3> QED BY Zenon, <1>1, <1>4, <1>5, <3>1, <3>2
    <2>2. PendingFresh'
      <3> SUFFICES ASSUME ~hist'.again, NEW t \in Teid, Part(u, s, t)' PROVE FALSE
        BY Zenon, <1>6 DEF PendingFresh
      <3>1. s \in ranUe[u].used BY Zenon, <1>1, <1>7, <1>i DEF OwnInv, HoldersOwn, Holder
      <3> QED BY Zenon, <1>2, <3>1
    <2>3. SessionTeid' BY Zenon, <1>2, <1>5, <1>7, <1>i DEF OwnInv, SessionTeid
    <2>4. TeidPending'
      <3>1. \A v \in Ue, r \in Session : ~Lists(v, r, None)
        BY Zenon, <1>1, <1>i DEF OwnInv, TeidPending, Pending
      <3> QED BY Zenon, <1>5, <1>6, <3>1 DEF TeidPending
    <2>5. PendingUsed' BY Zenon, <1>4, <1>6 DEF PendingUsed
    <2> QED BY Zenon, <2>1, <2>2, <2>3, <2>4, <2>5 DEF OwnInv
  <1>10. IkeInv'
    <2>1. HoldersKnown'
      <3>1. ASSUME NEW v \in Ue, NEW r \in Session, NEW t \in Teid
            PROVE  (Half(v, r, t) \/ HasChild(v, r, t))' => Half(v, r, t) \/ HasChild(v, r, t)
        BY Zenon, <1>1 DEF Half, HasChild
      <3> QED BY Zenon, <1>1, <1>7, <1>i, <3>1 DEF IkeInv, HoldersKnown
    <2>2. PendingKnown'
      <3>1. ikeUe'[u].auth \in {"done", "gone"} BY Zenon, <1>1
      <3> QED BY Zenon, <1>6, <3>1 DEF PendingKnown
    <2>3. Addressed' /\ OneChild' /\ TaskChild' /\ Unruled' /\ IfaceBelow' /\ OwnIface'
      BY Zenon, <1>1, <1>i
         DEF IkeInv, Addressed, OneChild, TaskChild, NewChildSA, Unruled, IfaceBelow, OwnIface
    <2>4. AskedOnce' BY Zenon, <1>1, <1>i DEF IkeInv, AskedOnce, Created
    <2>5. OneAtATime'
      <3>1. ASSUME NEW v \in Ue, NEW r \in Session, NEW t \in Teid
            PROVE  /\ Asked(v, r, t)' => Asked(v, r, t)
                   /\ Half(v, r, t)' => Half(v, r, t)
                   /\ HasChild(v, r, t)' => HasChild(v, r, t)
                   /\ Reported(v, r, t)' => Reported(v, r, t)
                   /\ AtUpf(v, r, t)' => AtUpf(v, r, t)
        BY Zenon, <1>1 DEF Asked, Created, Half, HasChild, Reported, Told, AtUpf
      <3> SUFFICES ASSUME NEW v \in Ue, NEW t \in Teid, NEW r \in Session, NEW x \in Session
                   PROVE  /\ Asked(v, r, t)' => ~Half(v, x, t)' /\ ~HasChild(v, x, t)'
                          /\ Half(v, r, t)' => ~HasChild(v, x, t)'
                          /\ Open(v, r, t)' => ~Reported(v, x, t)' /\ ~AtUpf(v, x, t)'
        BY Zenon DEF OneAtATime
      <3>2. /\ Asked(v, r, t) => ~Half(v, x, t) /\ ~HasChild(v, x, t)
            /\ Half(v, r, t) => ~HasChild(v, x, t)
            /\ Open(v, r, t) => ~Reported(v, x, t) /\ ~AtUpf(v, x, t)
        BY Zenon, <1>i DEF IkeInv, OneAtATime
      <3> QED BY Zenon, <1>7, <3>1, <3>2
    <2> QED BY Zenon, <2>1, <2>2, <2>3, <2>4, <2>5 DEF IkeInv
  <1>11. UpfInv'
    <2>1. UpfOwn' BY Zenon, <1>1, <1>2, <1>i DEF UpfInv, UpfOwn
    <2>2. DownlinkOpen'
      <3>1. \A v \in Ue, t \in Teid : Downward(v, t)' => Downward(v, t)
        BY Zenon, <1>1 DEF Downward
      <3> QED BY Zenon, <1>1, <1>2, <1>5, <1>7, <1>i, <3>1 DEF UpfInv, DownlinkOpen
    <2> QED BY Zenon, <2>1, <2>2 DEF UpfInv
  <1>12. FwdInv'
    <2>1. OneFirst'
      <3> SUFFICES ASSUME ~hist'.again, NEW v \in RANUePool', NEW r \in Session, NEW x \in Session,
                          First(v, r)', First(v, x)', r \in Active(v)', x \in Active(v)'
                   PROVE  r = x
        BY Zenon DEF OneFirst
      <3>1. v \in Ue /\ v \in RANUePool /\ First(v, r) /\ First(v, x) BY Zenon, <1>t, <1>1, <1>8
      <3>2. ~hist.again /\ s \notin ranUe[u].used BY Zenon, <1>2
      <3>3. r \in ranUe[v].used /\ x \in ranUe[v].used BY Zenon, <3>1, FirstUsed
      <3>4. r \in Active(v) /\ x \in Active(v) BY Zenon, <1>5, <3>1, <3>2, <3>3
      <3>5. {r, x} \subseteq Active(v) BY Zenon, <3>4
      <3> QED BY Zenon, <1>i, <3>1, <3>2, <3>5 DEF FwdInv, OneFirst
    <2>2. UplinkFits'
      <3>1. \A v \in Ue : LiveUe(v)' <=> LiveUe(v) BY Zenon, <1>1 DEF LiveUe
      <3> SUFFICES ASSUME NEW v \in Ue, NEW r \in Session, InUplink(v, r)'
                   PROVE  /\ ikeUe'[v].auth \in {"done", "gone"}
                          /\ v \in RANUePool' => r \in ranUe'[v].used
                          /\ LiveUe(v)' /\ ~hist'.twice => pkt'.found = v
                          /\ pkt'.iface < XfrmIfaceIdOffsetForUP'
                          /\ \A c \in ikeUe'[v].child :
                                c.iface = pkt'.iface /\ c.iface # 0 => c.session = r
        BY Zenon DEF UplinkFits
      <3>2. InUplink(v, r) BY Zenon, <1>8
      <3>3. /\ ikeUe[v].auth \in {"done", "gone"}
            /\ v \in RANUePool => r \in ranUe[v].used
            /\ LiveUe(v) /\ ~hist.twice => pkt.found = v
            /\ pkt.iface < XfrmIfaceIdOffsetForUP
            /\ \A c \in ikeUe[v].child : c.iface = pkt.iface /\ c.iface # 0 => c.session = r
        BY Zenon, <1>i, <3>2 DEF FwdInv, UplinkFits
      <3> QED BY Zenon, <1>1, <1>2, <1>4, <3>1, <3>3
    <2>3. DownlinkFits'
      <3>1. \A v \in Ue : LiveUe(v)' <=> LiveUe(v) BY Zenon, <1>1 DEF LiveUe
      <3>2. \A v \in Ue, r \in Session, t \in Teid : InDownlink(v, r, t)' => InDownlink(v, r, t)
        BY Zenon, <1>1 DEF InDownlink
      <3> QED BY Zenon, <1>1, <1>i, <3>1, <3>2 DEF FwdInv, DownlinkFits
    <2> QED BY Zenon, <2>1, <2>2, <2>3 DEF FwdInv
  <1> QED BY Zenon, <1>9, <1>10, <1>11, <1>12 DEF CoreInv

\* A set of sessions with at most one element has no two; a fact about Cardinality that
\* UserPlaneForwarding proves (OneMemberHolds), an assumption here.
OneMember == \A S \in SUBSET Session : ~(Cardinality(S) > 1) => \A r, s \in S : r = s

\* The setup of the session the NGAP loop works on ends with a fresh TEID: nothing refers to it.
LEMMA NewTeidKeeps ==
    ASSUME OneMember, SafeInv, TeidInv', HandlePDUSessionResourceSetupRequest, NEW t \in Teid,
           NewTEID(ngapTask.ue, t),
           ranUe' = [ranUe EXCEPT ![ngapTask.ue].PduSessionList[ngapTask.session] = [teid |-> t]],
           ikeEvt' = IF ngapTask.ue \in NGAPIdToIKESPI
                     THEN Append(ikeEvt, [type |-> "CreatePDUSession", ue |-> ngapTask.ue,
                            pdu |-> [session |-> ngapTask.session, teid |-> t,
                                     len |-> Cardinality(Active(ngapTask.ue))]])
                     ELSE ikeEvt,
           hist' = [hist EXCEPT !.reused = @ \/ upf[t] # None]
    PROVE  CoreInv'
  <1>t. /\ Types /\ hist \in Hist /\ ranUe \in [Ue -> RanUe] /\ RANUePool \subseteq Ue
        /\ ikeEvt \in Seq(IkeEvt) /\ AllocatedUETEID \in [Teid -> Ue \cup {None}]
    BY Zenon DEF SafeInv, TeidInv, Types, IkeTypes, NgapTypes
  <1>i. OwnInv /\ IkeInv /\ UpfInv /\ FwdInv BY Zenon DEF SafeInv, CoreInv
  <1>1. /\ UNCHANGED <<IKEUePool, ikeUe, ikeTask, ngapEvt, upf, pkt>>
        /\ UNCHANGED <<XfrmIfaceIdOffsetForUP, RANUePool>>
        /\ ngapTask # None /\ ngapTask' = None
    BY Zenon DEF HandlePDUSessionResourceSetupRequest, Quiet, ikeVars
  <1>2. PICK u \in Ue, s \in Session :
          u = ngapTask.ue /\ s = ngapTask.session /\ u \in RANUePool /\ Pending(u, s)
    <2>1. ngapTask.ue \in Ue /\ ngapTask.session \in Session
      BY Zenon, <1>1 DEF SafeInv, TeidInv, Types, NgapTypes, NgapTask
    <2> QED BY Zenon, <1>1, <2>1 DEF SafeInv, TeidInv, PendingInPool, Pending
  <1>n. t # None /\ u # None /\ 0 # None BY UserPlaneAssumption DEF Teid
  <1>h. /\ hist'.again = hist.again /\ hist'.twice = hist.twice
        /\ hist'.reused = (hist.reused \/ upf[t] # None)
    BY ONLY Zenon, <1>t, hist' = [hist EXCEPT !.reused = @ \/ upf[t] # None] DEF Hist
  <1>3. ranUe' = [ranUe EXCEPT ![u].PduSessionList[s] = [teid |-> t]] BY Zenon, <1>2
  <1>4. \A v \in Ue, r \in Session : ranUe'[v].PduSessionList[r] =
          IF v = u /\ r = s THEN [teid |-> t] ELSE ranUe[v].PduSessionList[r]
    BY ONLY Zenon, <1>t, <1>3, u \in Ue, s \in Session DEF RanUe
  <1>5. \A v \in Ue : ranUe'[v].used = ranUe[v].used
    BY ONLY Zenon, <1>t, <1>3, u \in Ue, s \in Session DEF RanUe
  <1>6. AllocatedUETEID[t] = None /\ AllocatedUETEID' = [AllocatedUETEID EXCEPT ![t] = u]
    BY Zenon, <1>2 DEF NewTEID, Allocates, FreeTeid
  <1>7. \A x \in Teid : AllocatedUETEID'[x] = IF x = t THEN u ELSE AllocatedUETEID[x]
    BY ONLY Zenon, <1>t, <1>6, t \in Teid
  <1>8. Lists(u, s, None) /\ s \in Active(u)
    <2>1. Lists(u, s, None) BY Zenon, <1>1, <1>2 DEF SafeInv, TeidInv, PendingInPool, Lists
    <2>2. ranUe[u].PduSessionList[s] # None BY Zenon, <2>1, NotNone DEF Lists
    <2> QED BY Zenon, <2>1, <2>2 DEF Active
  <1>9. ASSUME NEW v \in Ue, NEW r \in Session
        PROVE  /\ \A x \in Teid \cup {None} :
                    Lists(v, r, x)' => (v = u /\ r = s /\ x = t)
                                         \/ (~(v = u /\ r = s) /\ Lists(v, r, x))
               /\ r \in Active(v)' => r \in Active(v)
    <2>1. CASE v = u /\ r = s
      <3>1. ranUe'[v].PduSessionList[r] = [teid |-> t] BY Zenon, <1>4, <2>1
      <3> QED BY <1>8, <2>1, <3>1 DEF Lists
    <2>2. CASE ~(v = u /\ r = s) BY ZenonT(30), <1>4, <2>2 DEF Lists, Active
    <2> QED BY Zenon, <2>1, <2>2
  <1>10. ASSUME NEW v \in RANUePool, NEW r \in Session, Holder(v, r, t) PROVE FALSE
    <2>1. AllocatedUETEID[t] = v BY Zenon, <1>10, <1>i DEF OwnInv, HoldersOwn
    <2>2. v \in Ue BY Zenon, <1>t
    <2> QED BY ONLY Zenon, <1>6, <2>1, <2>2, UserPlaneAssumption
  <1>11. ASSUME NEW r \in Session, Lists(u, r, t) PROVE FALSE
    <2>1. ranUe[u].PduSessionList[r] # None /\ ranUe[u].PduSessionList[r].teid = t
      BY <1>11, NotNone DEF Lists
    <2>2. r \in Active(u) BY Zenon, <2>1 DEF Active
    <2>3. TeidOwned BY Zenon DEF SafeInv, TeidInv
    <2>4. AllocatedUETEID[t] = u BY <1>2, <1>n, <2>1, <2>2, <2>3 DEF TeidOwned
    <2> QED BY Zenon, <1>6, <1>n, <2>4
  <1> DEFINE p == [session |-> s, teid |-> t, len |-> Cardinality(Active(u))]
             e == [type |-> "CreatePDUSession", ue |-> u, pdu |-> p]
  <1>e. ikeEvt' = ikeEvt \/ ikeEvt' = Append(ikeEvt, e) BY Zenon, <1>2
  <1>p. e.ue = u /\ p.session = s /\ p.teid = t /\ p.len = Cardinality(Active(u)) /\ e.pdu = p
    BY Zenon
  <1> HIDE DEF e, p
  <1>12. ASSUME NEW k \in 1..Len(ikeEvt')
         PROVE  (k \in 1..Len(ikeEvt) /\ ikeEvt'[k] = ikeEvt[k])
                  \/ (k = Len(ikeEvt) + 1 /\ ikeEvt'[k] = e)
    BY ONLY <1>t, <1>e, k \in 1..Len(ikeEvt')
  <1>13. ASSUME NEW v \in Ue, NEW r \in Session, NEW x \in Teid
         PROVE  /\ Asked(v, r, x)' => Asked(v, r, x) \/ (v = u /\ r = s /\ x = t)
                /\ Half(v, r, x)' <=> Half(v, r, x)
                /\ HasChild(v, r, x)' <=> HasChild(v, r, x)
                /\ (Bare(r, x) \in ikeUe[v].child)' <=> Bare(r, x) \in ikeUe[v].child
                /\ Reported(v, r, x)' <=> Reported(v, r, x)
                /\ AtUpf(v, r, x)' <=> AtUpf(v, r, x)
                /\ InDownlink(v, r, x)' <=> InDownlink(v, r, x)
    <2>1. ASSUME Asked(v, r, x)' PROVE Asked(v, r, x) \/ (v = u /\ r = s /\ x = t)
      <3>1. PICK k \in 1..Len(ikeEvt') :
               /\ ikeEvt'[k].type = "CreatePDUSession" /\ ikeEvt'[k].ue = v
               /\ ikeEvt'[k].pdu.session = r /\ ikeEvt'[k].pdu.teid = x
        BY Zenon, <2>1 DEF Asked, Created
      <3> QED BY Zenon, <1>12, <1>p, <3>1 DEF Asked, Created
    <2> QED BY Zenon, <1>1, <2>1 DEF Half, HasChild, Bare, Reported, Told, AtUpf, InDownlink
  <1>14. ASSUME NEW v \in Ue, NEW r \in Session, NEW x \in Teid
         PROVE  /\ Part(v, r, x)' => Part(v, r, x) \/ (v = u /\ r = s /\ x = t)
                /\ Open(v, r, x)' => Open(v, r, x) \/ (v = u /\ r = s /\ x = t)
                /\ Holder(v, r, x)' => Holder(v, r, x) \/ (v = u /\ r = s /\ x = t)
    BY Zenon, <1>13 DEF Part, Open, Holder
  <1>15. ASSUME NEW v \in Ue, NEW r \in Session, First(v, r)'
         PROVE  First(v, r) \/ (v = u /\ ~(Cardinality(Active(u)) > 1))
    <2>1. ASSUME AskedFirst(v, r)'
          PROVE  AskedFirst(v, r) \/ (v = u /\ ~(Cardinality(Active(u)) > 1))
      <3>1. PICK k \in 1..Len(ikeEvt') :
               /\ ikeEvt'[k].type = "CreatePDUSession" /\ ikeEvt'[k].ue = v
               /\ ikeEvt'[k].pdu.session = r /\ ~(ikeEvt'[k].pdu.len > 1)
        BY Zenon, <2>1 DEF AskedFirst, Created
      <3> QED BY Zenon, <1>12, <1>p, <3>1 DEF AskedFirst, Created
    <2>2. (InUplink(v, r) /\ pkt.iface = 0)' => InUplink(v, r) /\ pkt.iface = 0
      BY Zenon, <1>1 DEF InUplink
    <2> QED BY Zenon, <1>1, <1>15, <2>1, <2>2 DEF First
  <1>16. OwnInv'
    <2>1. HoldersOwn'
      <3> SUFFICES ASSUME NEW v \in RANUePool', NEW r \in Session, NEW x \in Teid,
                          Holder(v, r, x)'
                   PROVE  /\ AllocatedUETEID'[x] = v /\ r \in ranUe'[v].used
                          /\ \A y \in Session : Lists(v, y, x)' => y = r
        BY Zenon DEF HoldersOwn
      <3>1. v \in Ue /\ v \in RANUePool BY Zenon, <1>t, <1>1
      <3>2. CASE Holder(v, r, x)
        <4>1. x # t BY Zenon, <1>10, <3>1, <3>2
        <4>2. /\ AllocatedUETEID[x] = v /\ r \in ranUe[v].used
              /\ \A y \in Session : Lists(v, y, x) => y = r
          BY Zenon, <1>i, <3>1, <3>2 DEF OwnInv, HoldersOwn
        <4> QED BY Zenon, <1>5, <1>7, <1>9, <3>1, <4>1, <4>2
      <3>3. CASE v = u /\ r = s /\ x = t
        <4>1. s \in ranUe[u].used BY Zenon, <1>2, <1>i DEF OwnInv, PendingUsed
        <4> QED BY Zenon, <1>5, <1>7, <1>9, <1>11, <3>3, <4>1
      <3> QED BY Zenon, <1>14, <3>1, <3>2, <3>3
    <2>2. PendingFresh' /\ PendingUsed' BY Zenon, <1>1 DEF PendingFresh, PendingUsed, Pending
    <2>3. SessionTeid'
      <3> SUFFICES ASSUME ~hist'.again, NEW v \in Ue, NEW r \in Session, NEW y \in Teid,
                          NEW x \in Teid, Lists(v, r, x)', Part(v, r, y)'
                   PROVE  y = x
        BY Zenon DEF SessionTeid
      <3>1. CASE v = u /\ r = s /\ x = t
        <4>1. ~Part(u, s, y) BY Zenon, <1>2, <1>h, <1>i DEF OwnInv, PendingFresh
        <4> QED BY Zenon, <1>14, <3>1, <4>1
      <3>2. CASE ~(v = u /\ r = s) /\ Lists(v, r, x)
        <4>1. Part(v, r, y) BY Zenon, <1>14, <3>2
        <4> QED BY Zenon, <1>h, <1>i, <3>2, <4>1 DEF OwnInv, SessionTeid
      <3> QED BY Zenon, <1>9, <3>1, <3>2
    <2>4. TeidPending'
      <3> SUFFICES ASSUME NEW v \in Ue, NEW r \in Session, Lists(v, r, None)' PROVE FALSE
        BY Zenon DEF TeidPending
      <3>1. ~(v = u /\ r = s) /\ Lists(v, r, None) BY Zenon, <1>9, <1>n
      <3>2. Pending(v, r) BY Zenon, <1>i, <3>1 DEF OwnInv, TeidPending
      <3> QED BY Zenon, <1>2, <3>1, <3>2 DEF Pending
    <2> QED BY Zenon, <2>1, <2>2, <2>3, <2>4 DEF OwnInv
  <1>17. IkeInv'
    <2>1. HoldersKnown'
      <3>1. ikeUe[u].auth \in {"done", "gone"} BY Zenon, <1>2, <1>i DEF IkeInv, PendingKnown
      <3>2. ASSUME NEW v \in Ue, NEW r \in Session, NEW x \in Teid
            PROVE  /\ Holder(v, r, x)' => ikeUe'[v].auth \in {"done", "gone"}
                   /\ Half(v, r, x)' \/ HasChild(v, r, x)' => ikeUe'[v].auth = "done"
        BY Zenon, <1>1, <1>13, <1>14, <1>i, <3>1 DEF IkeInv, HoldersKnown
      <3> QED BY Zenon, <3>2 DEF HoldersKnown
    <2>2. PendingKnown' BY Zenon, <1>1 DEF PendingKnown, Pending
    <2>3. Addressed' /\ OneChild' /\ TaskChild' /\ Unruled' /\ IfaceBelow' /\ OwnIface'
      BY Zenon, <1>1, <1>i
         DEF IkeInv, Addressed, OneChild, TaskChild, NewChildSA, Unruled, IfaceBelow, OwnIface
    <2>4. AskedOnce'
      <3>1. ASSUME NEW k \in 1..Len(ikeEvt), Created(k), ikeEvt[k].ue = u,
                   ikeEvt[k].pdu.teid = t
            PROVE  FALSE
        <4>1. ikeEvt[k].pdu.session \in Session
          <5>1. ikeEvt[k] \in IkeEvt /\ ikeEvt[k].type = "CreatePDUSession"
            BY <1>t, <3>1 DEF Created
          <5> QED BY ONLY Zenon, <5>1 DEF IkeEvt, Unactivated
        <4>2. Asked(u, ikeEvt[k].pdu.session, t) BY Zenon, <3>1 DEF Asked
        <4> QED BY Zenon, <1>2, <1>10, <4>1, <4>2 DEF Holder, Part
      <3> SUFFICES ASSUME NEW j \in 1..Len(ikeEvt'), NEW k \in 1..Len(ikeEvt'),
                          ikeEvt'[j].type = "CreatePDUSession",
                          ikeEvt'[k].type = "CreatePDUSession",
                          ikeEvt'[j].ue = ikeEvt'[k].ue, ikeEvt'[j].pdu.teid = ikeEvt'[k].pdu.teid
                   PROVE  j = k
        BY Zenon DEF AskedOnce, Created
      <3>2. CASE j \in 1..Len(ikeEvt) /\ ikeEvt'[j] = ikeEvt[j]
        <4>1. CASE k \in 1..Len(ikeEvt) /\ ikeEvt'[k] = ikeEvt[k]
          BY Zenon, <1>i, <3>2, <4>1 DEF IkeInv, AskedOnce, Created
        <4>2. CASE ikeEvt'[k] = e BY Zenon, <1>p, <3>1, <3>2, <4>2 DEF Created
        <4> QED BY Zenon, <1>12, <4>1, <4>2
      <3>3. CASE j = Len(ikeEvt) + 1 /\ ikeEvt'[j] = e
        <4>1. CASE k \in 1..Len(ikeEvt) /\ ikeEvt'[k] = ikeEvt[k]
          BY Zenon, <1>p, <3>1, <3>3, <4>1 DEF Created
        <4> QED BY Zenon, <1>12, <3>3, <4>1
      <3> QED BY Zenon, <1>12, <3>2, <3>3
    <2>5. OneAtATime'
      <3> SUFFICES ASSUME NEW v \in Ue, NEW x \in Teid, NEW r \in Session, NEW y \in Session
                   PROVE  /\ Asked(v, r, x)' => ~Half(v, y, x)' /\ ~HasChild(v, y, x)'
                          /\ Half(v, r, x)' => ~HasChild(v, y, x)'
                          /\ Open(v, r, x)' => ~Reported(v, y, x)' /\ ~AtUpf(v, y, x)'
        BY Zenon DEF OneAtATime
      <3>0. /\ Asked(v, r, x) => ~Half(v, y, x) /\ ~HasChild(v, y, x)
            /\ Half(v, r, x) => ~HasChild(v, y, x)
            /\ Open(v, r, x) => ~Reported(v, y, x) /\ ~AtUpf(v, y, x)
        BY Zenon, <1>i DEF IkeInv, OneAtATime
      <3>1. CASE v = u /\ x = t
        <4>1. ~Holder(v, y, x) BY Zenon, <1>2, <1>10, <3>1
        <4> QED BY Zenon, <1>13, <3>0, <4>1 DEF Holder, Part
      <3>2. CASE ~(v = u /\ x = t) BY Zenon, <1>13, <1>14, <3>0, <3>2
      <3> QED BY Zenon, <3>1, <3>2
    <2> QED BY Zenon, <2>1, <2>2, <2>3, <2>4, <2>5 DEF IkeInv
  <1>18. UpfInv'
    <2>1. UpfOwn'
      <3> SUFFICES ASSUME ~hist'.reused, NEW x \in Teid, AllocatedUETEID'[x] # None,
                          upf'[x] # None
                   PROVE  upf'[x].ue = AllocatedUETEID'[x]
        BY Zenon DEF UpfOwn
      <3>1. x # t BY Zenon, <1>1, <1>h
      <3>2. AllocatedUETEID'[x] = AllocatedUETEID[x] BY Zenon, <1>7, <3>1
      <3> QED BY Zenon, <1>1, <1>h, <1>i, <3>2 DEF UpfInv, UpfOwn
    <2>2. DownlinkOpen'
      <3> SUFFICES ASSUME ~hist'.reused, NEW v \in Ue, NEW x \in Teid, Downward(v, x)'
                   PROVE  /\ upf'[x] # None
                          /\ pkt'.at = "dl" \/ v \in RANUePool' =>
                               \A r \in Session : Lists(v, r, x)' => ~Open(v, r, x)'
        BY Zenon DEF DownlinkOpen
      <3>1. Downward(v, x) BY Zenon, <1>1 DEF Downward
      <3>2. /\ upf[x] # None
            /\ pkt.at = "dl" \/ v \in RANUePool =>
                 \A r \in Session : Lists(v, r, x) => ~Open(v, r, x)
        BY Zenon, <1>h, <1>i, <3>1 DEF UpfInv, DownlinkOpen
      <3>3. x # t BY Zenon, <1>h, <3>2
      <3>4. ASSUME NEW r \in Session
            PROVE (Lists(v, r, x)' => Lists(v, r, x)) /\ (Open(v, r, x)' => Open(v, r, x))
        BY Zenon, <1>9, <1>14, <3>3
      <3> QED BY Zenon, <1>1, <3>2, <3>4
    <2> QED BY Zenon, <2>1, <2>2 DEF UpfInv
  <1>19. FwdInv'
    <2>1. OneFirst'
      <3> SUFFICES ASSUME ~hist'.again, NEW v \in RANUePool', NEW r \in Session, NEW x \in Session,
                          First(v, r)', First(v, x)', r \in Active(v)', x \in Active(v)'
                   PROVE  r = x
        BY Zenon DEF OneFirst
      <3>1. v \in Ue /\ v \in RANUePool BY Zenon, <1>t, <1>1
      <3>2. r \in Active(v) /\ x \in Active(v) BY Zenon, <1>9, <3>1
      <3>3. CASE First(v, r) /\ First(v, x)
        <4>1. {r, x} \subseteq Active(v) BY Zenon, <3>2
        <4> QED BY Zenon, <1>h, <1>i, <3>1, <3>3, <4>1 DEF FwdInv, OneFirst
      <3>4. CASE v = u /\ ~(Cardinality(Active(u)) > 1)
        <4>1. Active(u) \in SUBSET Session BY Zenon DEF Active
        <4> QED BY Zenon, <3>2, <3>4, <4>1 DEF OneMember
      <3> QED BY Zenon, <1>15, <3>1, <3>3, <3>4
    <2>l. \A v \in Ue : LiveUe(v)' <=> LiveUe(v) BY Zenon, <1>1 DEF LiveUe
    <2>2. UplinkFits'
      <3> SUFFICES ASSUME NEW v \in Ue, NEW r \in Session, InUplink(v, r)'
                   PROVE  /\ ikeUe'[v].auth \in {"done", "gone"}
                          /\ v \in RANUePool' => r \in ranUe'[v].used
                          /\ LiveUe(v)' /\ ~hist'.twice => pkt'.found = v
                          /\ pkt'.iface < XfrmIfaceIdOffsetForUP'
                          /\ \A c \in ikeUe'[v].child :
                                c.iface = pkt'.iface /\ c.iface # 0 => c.session = r
        BY Zenon DEF UplinkFits
      <3>2. InUplink(v, r) BY Zenon, <1>1 DEF InUplink
      <3>3. /\ ikeUe[v].auth \in {"done", "gone"}
            /\ v \in RANUePool => r \in ranUe[v].used
            /\ LiveUe(v) /\ ~hist.twice => pkt.found = v
            /\ pkt.iface < XfrmIfaceIdOffsetForUP
            /\ \A c \in ikeUe[v].child : c.iface = pkt.iface /\ c.iface # 0 => c.session = r
        BY Zenon, <1>i, <3>2 DEF FwdInv, UplinkFits
      <3> QED BY Zenon, <1>1, <1>h, <1>5, <2>l, <3>3
    <2>3. DownlinkFits'
      <3>2. \A v \in Ue, r \in Session, x \in Teid : InDownlink(v, r, x)' => InDownlink(v, r, x)
        BY Zenon, <1>13
      <3> QED BY Zenon, <1>1, <1>i, <2>l, <3>2 DEF FwdInv, DownlinkFits
    <2> QED BY Zenon, <2>1, <2>2, <2>3 DEF FwdInv
  <1> QED BY Zenon, <1>16, <1>17, <1>18, <1>19 DEF CoreInv

\* The UPF learns the TEID of a session that has its child SA.
LEMMA ReportKeeps ==
    ASSUME SafeInv, TeidInv', HandleSendPDUSessionResourceSetupResponse,
           Head(ngapEvt).ue \in RANUePool
    PROVE  CoreInv'
  <1>t. /\ Types /\ Types' /\ MoreTypes /\ hist \in Hist /\ ngapEvt \in Seq(NgapEvt)
        /\ upf \in [Teid -> [ue: Ue, session: Session] \cup {None}] /\ PktType
    BY Zenon DEF SafeInv, TeidInv, MoreTypes, Types, IkeTypes, NgapTypes
  <1>i. OwnInv /\ IkeInv /\ UpfInv /\ FwdInv BY Zenon DEF SafeInv, CoreInv
  <1>1. /\ UNCHANGED <<IKEUePool, ikeUe, ikeTask, ikeEvt, pkt, hist, ngapVars>>
        /\ UNCHANGED XfrmIfaceIdOffsetForUP /\ TakeNgapEvt("SendPDUSessionResourceSetupRes")
    BY Zenon DEF HandleSendPDUSessionResourceSetupResponse, Quiet, ikeVars
  <1>2. PICK u \in Ue, p \in Unactivated :
          /\ u = Head(ngapEvt).ue /\ p = Head(ngapEvt).pdu /\ u \in RANUePool
          /\ Head(ngapEvt).type = "SendPDUSessionResourceSetupRes"
    <2>1. Head(ngapEvt) \in NgapEvt /\ Head(ngapEvt).type = "SendPDUSessionResourceSetupRes"
      BY Zenon, <1>t, <1>1, TakenNgapEvt
    <2>2. Head(ngapEvt).ue \in Ue /\ Head(ngapEvt).pdu \in Unactivated BY Zenon, <2>1 DEF NgapEvt
    <2> QED BY Zenon, <2>1, <2>2
  <1>p. p.session \in Session /\ p.teid \in Teid BY DEF Unactivated
  <1> DEFINE m == [ue |-> u, session |-> p.session]
  <1>3. upf' = [upf EXCEPT ![p.teid] = m]
    BY Zenon, <1>2 DEF HandleSendPDUSessionResourceSetupResponse
  <1>m. m # None /\ m.ue = u BY <1>p, UserPlaneAssumption
  <1>4. \A x \in Teid : upf'[x] = IF x = p.teid THEN m ELSE upf[x] BY ONLY Zenon, <1>t, <1>p, <1>3
  <1>5. Reported(u, p.session, p.teid)
    <2>1. 1 \in 1..Len(ngapEvt) /\ ngapEvt[1] = Head(ngapEvt)
      BY ONLY <1>t, <1>1 DEF TakeNgapEvt
    <2> QED BY Zenon, <1>2, <2>1 DEF Reported, Told
  <1>6. ASSUME NEW v \in Ue, NEW r \in Session, NEW x \in Teid, AtUpf(v, r, x)'
        PROVE  AtUpf(v, r, x) \/ (v = u /\ r = p.session /\ x = p.teid)
    <2>1. CASE x = p.teid
      <3>1. m = [ue |-> v, session |-> r] BY Zenon, <1>4, <1>6, <2>1 DEF AtUpf
      <3> QED BY Zenon, <2>1, <3>1
    <2>2. CASE x # p.teid BY Zenon, <1>4, <1>6, <2>2 DEF AtUpf
    <2> QED BY Zenon, <2>1, <2>2
  <1> HIDE DEF m
  <1>7. ASSUME NEW v \in Ue, NEW r \in Session, NEW x \in Teid
        PROVE  /\ Reported(v, r, x)' => Reported(v, r, x)
               /\ Asked(v, r, x)' => Asked(v, r, x)
               /\ Half(v, r, x)' => Half(v, r, x)
               /\ HasChild(v, r, x)' => HasChild(v, r, x)
               /\ (Bare(r, x) \in ikeUe[v].child)' => Bare(r, x) \in ikeUe[v].child
               /\ InDownlink(v, r, x)' => InDownlink(v, r, x)
    <2>1. Reported(v, r, x)' => Reported(v, r, x)
      BY Zenon, <1>t, <1>1, NgapEvtMoves, EventsShrink
    <2> QED BY Zenon, <1>1, <2>1 DEF Asked, Created, Half, HasChild, Bare, InDownlink
  <1>8. ASSUME NEW v \in Ue, NEW r \in Session, NEW x \in Teid
        PROVE  Less(v, r, x) /\ Held(v, r, x) /\ (Open(v, r, x)' => Open(v, r, x))
    BY Zenon, <1>5, <1>6, <1>7 DEF Less, Held, Part, Holder, Open
  <1>9. ASSUME NEW v \in Ue, NEW r \in Session, First(v, r)' PROVE First(v, r)
    <2>1. AskedFirst(v, r)' => AskedFirst(v, r) BY Zenon, <1>1 DEF AskedFirst, Created
    <2>2. (InUplink(v, r) /\ pkt.iface = 0)' => InUplink(v, r) /\ pkt.iface = 0
      BY Zenon, <1>1 DEF InUplink
    <2> QED BY Zenon, <1>1, <1>9, <2>1, <2>2 DEF First
  <1>10. HistKept BY Zenon, <1>1 DEF HistKept
  <1>11. RanKept BY Zenon, <1>t, <1>1, <1>10, IkeLoopKeepsRan
  <1>12. OwnInv' BY Zenon, <1>i, <1>8, <1>11, OwnKept DEF IkeInv, SafeInv
  <1>13. IkeInv'
    <2>1. HoldersKnown'
      <3>1. ASSUME NEW v \in Ue, NEW r \in Session, NEW x \in Teid
            PROVE  /\ Holder(v, r, x)' => ikeUe'[v].auth \in {"done", "gone"}
                   /\ Half(v, r, x)' \/ HasChild(v, r, x)' => ikeUe'[v].auth = "done"
        BY Zenon, <1>1, <1>7, <1>8, <1>i DEF Held, IkeInv, HoldersKnown
      <3> QED BY Zenon, <3>1 DEF HoldersKnown
    <2>2. PendingKnown' BY Zenon, <1>1, <1>i DEF IkeInv, PendingKnown, Pending, ngapVars
    <2>3. Addressed' /\ OneChild' /\ TaskChild' /\ Unruled' /\ IfaceBelow' /\ OwnIface'
      BY Zenon, <1>1, <1>i
         DEF IkeInv, Addressed, OneChild, TaskChild, NewChildSA, Unruled, IfaceBelow, OwnIface
    <2>4. AskedOnce' BY Zenon, <1>1, <1>i DEF IkeInv, AskedOnce, Created
    <2>5. OneAtATime'
      <3> SUFFICES ASSUME NEW v \in Ue, NEW x \in Teid, NEW r \in Session, NEW y \in Session
                   PROVE  /\ Asked(v, r, x)' => ~Half(v, y, x)' /\ ~HasChild(v, y, x)'
                          /\ Half(v, r, x)' => ~HasChild(v, y, x)'
                          /\ Open(v, r, x)' => ~Reported(v, y, x)' /\ ~AtUpf(v, y, x)'
        BY Zenon DEF OneAtATime
      <3>0. /\ Asked(v, r, x) => ~Half(v, y, x) /\ ~HasChild(v, y, x)
            /\ Half(v, r, x) => ~HasChild(v, y, x)
            /\ Open(v, r, x) => ~Reported(v, y, x) /\ ~AtUpf(v, y, x)
        BY Zenon, <1>i DEF IkeInv, OneAtATime
      <3>1. AtUpf(v, y, x)' => AtUpf(v, y, x) \/ Reported(v, y, x) BY Zenon, <1>5, <1>6
      <3> QED BY Zenon, <1>7, <1>8, <3>0, <3>1
    <2> QED BY Zenon, <2>1, <2>2, <2>3, <2>4, <2>5 DEF IkeInv
  <1>14. UpfInv'
    <2>1. UpfOwn'
      <3> SUFFICES ASSUME ~hist'.reused, NEW x \in Teid, AllocatedUETEID'[x] # None,
                          upf'[x] # None
                   PROVE  upf'[x].ue = AllocatedUETEID'[x]
        BY Zenon DEF UpfOwn
      <3>1. CASE x = p.teid
        <4>1. AllocatedUETEID[x] = u
          <5>1. Holder(u, p.session, p.teid) BY Zenon, <1>5 DEF Holder
          <5>2. u \in RANUePool /\ HoldersOwn BY Zenon, <1>2, <1>i DEF OwnInv
          <5>3. AllocatedUETEID[p.teid] = u BY ONLY Zenon, <1>p, <5>1, <5>2 DEF HoldersOwn
          <5> QED BY Zenon, <3>1, <5>3
        <4> QED BY Zenon, <1>1, <1>4, <1>m, <3>1, <4>1 DEF ngapVars
      <3>2. CASE x # p.teid BY Zenon, <1>1, <1>4, <1>i, <3>2 DEF UpfInv, UpfOwn, ngapVars
      <3> QED BY Zenon, <3>1, <3>2
    <2>2. DownlinkOpen'
      <3> SUFFICES ASSUME ~hist'.reused, NEW v \in Ue, NEW x \in Teid, Downward(v, x)'
                   PROVE  /\ upf'[x] # None
                          /\ pkt'.at = "dl" \/ v \in RANUePool' =>
                               \A r \in Session : Lists(v, r, x)' => ~Open(v, r, x)'
        BY Zenon DEF DownlinkOpen
      <3>1. Downward(v, x) BY Zenon, <1>1 DEF Downward
      <3>2. /\ upf[x] # None
            /\ pkt.at = "dl" \/ v \in RANUePool =>
                 \A r \in Session : Lists(v, r, x) => ~Open(v, r, x)
        BY Zenon, <1>1, <1>i, <3>1 DEF UpfInv, DownlinkOpen
      <3>3. upf'[x] # None BY Zenon, <1>4, <1>m, <3>2
      <3>4. ASSUME NEW r \in Session
            PROVE (Lists(v, r, x)' => Lists(v, r, x)) /\ (Open(v, r, x)' => Open(v, r, x))
        BY Zenon, <1>1, <1>8 DEF Lists, ngapVars
      <3> QED BY Zenon, <1>1, <3>2, <3>3, <3>4 DEF ngapVars
    <2> QED BY Zenon, <2>1, <2>2 DEF UpfInv
  <1>15. UesKept BY Zenon, <1>1 DEF UesKept
  <1>16. XfrmIfaceIdOffsetForUP' \in {XfrmIfaceIdOffsetForUP, XfrmIfaceIdOffsetForUP + 1}
    BY Zenon, <1>1
  <1>17. FwdInv' BY Zenon, <1>t, <1>i, <1>1, <1>9, <1>11, <1>15, <1>16, FwdKept DEF IkeInv
  <1> QED BY Zenon, <1>12, <1>13, <1>14, <1>17 DEF CoreInv

\* What a step of the user plane, which only moves a packet, has to keep.
PacketOnly == UNCHANGED <<ikeVars, ngapVars, ikeEvt, ngapEvt, upf, hist>>
PacketSafe ==
    /\ \A u \in Ue, s \in Session, t \in Teid :
         InDownlink(u, s, t)' => AtUpf(u, s, t) \/ InDownlink(u, s, t)
    /\ \A u \in Ue, s \in Session : InUplink(u, s)' /\ pkt'.iface = 0 => First(u, s)
    /\ DownlinkOpen' /\ UplinkFits' /\ DownlinkFits'

\* Such a step keeps the invariant.
LEMMA PacketKeeps == ASSUME SafeInv, TeidInv', PacketOnly, PacketSafe PROVE CoreInv'
  <1>t. Types BY Zenon DEF SafeInv, TeidInv
  <1>i. OwnInv /\ IkeInv /\ UpfInv /\ FwdInv BY Zenon DEF SafeInv, CoreInv
  <1>1. UNCHANGED <<IKEUePool, ikeUe, ikeTask, XfrmIfaceIdOffsetForUP, ngapVars, ikeEvt, ngapEvt,
                    upf, hist>>
    BY Zenon DEF PacketOnly, ikeVars
  <1>2. ASSUME NEW v \in Ue, NEW r \in Session, NEW x \in Teid
        PROVE  /\ Asked(v, r, x)' => Asked(v, r, x)
               /\ Half(v, r, x)' => Half(v, r, x)
               /\ HasChild(v, r, x)' => HasChild(v, r, x)
               /\ (Bare(r, x) \in ikeUe[v].child)' => Bare(r, x) \in ikeUe[v].child
               /\ Reported(v, r, x)' => Reported(v, r, x)
               /\ AtUpf(v, r, x)' => AtUpf(v, r, x)
               /\ InDownlink(v, r, x)' => AtUpf(v, r, x) \/ InDownlink(v, r, x)
    BY Zenon, <1>1 DEF Asked, Created, Half, HasChild, Bare, Reported, Told, AtUpf, PacketSafe
  <1>3. ASSUME NEW v \in Ue, NEW r \in Session, NEW x \in Teid
        PROVE  Less(v, r, x) /\ Held(v, r, x) /\ (Open(v, r, x)' => Open(v, r, x))
    BY Zenon, <1>2 DEF Less, Held, Part, Holder, Open
  <1>4. ASSUME NEW v \in Ue, NEW r \in Session, First(v, r)' PROVE First(v, r)
    <2>1. AskedFirst(v, r)' => AskedFirst(v, r) BY Zenon, <1>1 DEF AskedFirst, Created
    <2>2. (InUplink(v, r) /\ pkt.iface = 0)' => First(v, r) BY Zenon DEF PacketSafe
    <2> QED BY Zenon, <1>1, <1>4, <2>1, <2>2 DEF First
  <1>5. HistKept BY Zenon, <1>1 DEF HistKept
  <1>6. RanKept BY Zenon, <1>t, <1>1, <1>5, IkeLoopKeepsRan
  <1>7. OwnInv' BY Zenon, <1>i, <1>3, <1>6, OwnKept DEF IkeInv, SafeInv
  <1>8. IkeInv'
    <2>1. HoldersKnown'
      <3>1. ASSUME NEW v \in Ue, NEW r \in Session, NEW x \in Teid
            PROVE  /\ Holder(v, r, x)' => ikeUe'[v].auth \in {"done", "gone"}
                   /\ Half(v, r, x)' \/ HasChild(v, r, x)' => ikeUe'[v].auth = "done"
        BY Zenon, <1>1, <1>2, <1>3, <1>i DEF Held, IkeInv, HoldersKnown
      <3> QED BY Zenon, <3>1 DEF HoldersKnown
    <2>2. PendingKnown' BY Zenon, <1>1, <1>i DEF IkeInv, PendingKnown, Pending, ngapVars
    <2>3. Addressed' /\ OneChild' /\ TaskChild' /\ Unruled' /\ IfaceBelow' /\ OwnIface'
      BY Zenon, <1>1, <1>i
         DEF IkeInv, Addressed, OneChild, TaskChild, NewChildSA, Unruled, IfaceBelow, OwnIface
    <2>4. AskedOnce' BY Zenon, <1>1, <1>i DEF IkeInv, AskedOnce, Created
    <2>5. OneAtATime'
      <3> SUFFICES ASSUME NEW v \in Ue, NEW x \in Teid, NEW r \in Session, NEW y \in Session
                   PROVE  /\ Asked(v, r, x)' => ~Half(v, y, x)' /\ ~HasChild(v, y, x)'
                          /\ Half(v, r, x)' => ~HasChild(v, y, x)'
                          /\ Open(v, r, x)' => ~Reported(v, y, x)' /\ ~AtUpf(v, y, x)'
        BY Zenon DEF OneAtATime
      <3>0. /\ Asked(v, r, x) => ~Half(v, y, x) /\ ~HasChild(v, y, x)
            /\ Half(v, r, x) => ~HasChild(v, y, x)
            /\ Open(v, r, x) => ~Reported(v, y, x) /\ ~AtUpf(v, y, x)
        BY Zenon, <1>i DEF IkeInv, OneAtATime
      <3> QED BY Zenon, <1>2, <1>3, <3>0
    <2> QED BY Zenon, <2>1, <2>2, <2>3, <2>4, <2>5 DEF IkeInv
  <1>9. UpfInv'
    <2>1. UpfOwn' BY Zenon, <1>1, <1>i DEF UpfInv, UpfOwn, ngapVars
    <2> QED BY Zenon, <2>1 DEF UpfInv, PacketSafe
  <1>10. FwdInv'
    <2>1. OneFirst'
      <3>1. RANUePool \subseteq Ue BY Zenon, <1>t DEF Types, NgapTypes
      <3>2. \A v \in Ue : Active(v)' = Active(v) BY Zenon, <1>1 DEF Active, ngapVars
      <3> SUFFICES ASSUME ~hist'.again, NEW v \in RANUePool', NEW r \in Session, NEW x \in Session,
                          First(v, r)', First(v, x)', {r, x} \subseteq Active(v)'
                   PROVE  r = x
        BY Zenon DEF OneFirst
      <3>3. v \in Ue /\ v \in RANUePool BY Zenon, <1>1, <3>1 DEF ngapVars
      <3>4. First(v, r) /\ First(v, x) /\ {r, x} \subseteq Active(v) /\ ~hist.again
        BY Zenon, <1>1, <1>4, <3>2, <3>3
      <3> QED BY Zenon, <1>i, <3>3, <3>4 DEF FwdInv, OneFirst
    <2> QED BY Zenon, <2>1 DEF FwdInv, PacketSafe
  <1> QED BY Zenon, <1>7, <1>8, <1>9, <1>10 DEF CoreInv

\* A packet that is dropped or has been written leaves nothing behind.
LEMMA PacketGone == ASSUME pkt' = None PROVE PacketSafe /\ PktType'
  BY Zenon DEF PacketSafe, PktType, InDownlink, InUplink, DownlinkOpen, Downward, UplinkFits,
     DownlinkFits

\* A packet of a UE comes in through one of its child SAs.
LEMMA UplinkSafe ==
    ASSUME AddrInv, SafeInv, NEW u \in Ue, NEW c \in ikeUe[u].child, greListenAndServe(u, c)
    PROVE  PacketSafe /\ PktType'
  <1>t. /\ ikeUe \in [Ue -> IkeUe] /\ AllocatedUEIPAddress \in [Addr -> Ue \cup {None}]
        /\ links \subseteq Nat
    BY Zenon DEF SafeInv, TeidInv, Types, IkeTypes, MoreTypes, Iface
  <1>i. OwnInv /\ IkeInv BY Zenon DEF SafeInv, CoreInv
  <1>1. /\ pkt = None /\ c.session # None /\ c.iface \in links
        /\ UNCHANGED <<ikeVars, ngapVars, upf, hist>>
    BY Zenon DEF greListenAndServe
  <1>2. c \in ChildSA /\ c.session \in Session BY ONLY <1>t, <1>1, u \in Ue, c \in ikeUe[u].child
                                              DEF IkeUe, ChildSA
  <1>3. c.teid # None BY Zenon, <1>i, <1>1 DEF IkeInv, Unruled
  <1>4. c.teid \in Teid BY ONLY Zenon, <1>2, <1>3 DEF ChildSA
  <1>5. HasChild(u, c.session, c.teid) BY Zenon DEF HasChild
  <1>6. ikeUe[u].auth = "done" BY Zenon, <1>i, <1>2, <1>4, <1>5 DEF IkeInv, HoldersKnown
  <1>7. ikeUe[u].IPSecInnerIP # None BY Zenon, <1>i, <1>6 DEF IkeInv, Addressed
  <1>8. ikeUe[u].IPSecInnerIP \in Addr BY ONLY Zenon, <1>t, <1>7, u \in Ue DEF IkeUe
  <1> DEFINE a == AllocatedUEIPAddress[ikeUe[u].IPSecInnerIP]
             p == [at |-> "ran", ue |-> u, session |-> c.session, iface |-> c.iface, found |-> a]
  <1>9. CASE a = None BY Zenon, <1>9, PacketGone DEF greListenAndServe, Go
  <1>10. CASE a # None
    <2>1. pkt' = p BY Zenon, <1>10 DEF greListenAndServe, Go
    <2>2. a \in Ue BY ONLY Zenon, <1>t, <1>8, <1>10
    <2>3. c.iface \in Nat /\ c.iface # None BY ONLY ZenonT(30), <1>t, <1>1, UserPlaneAssumption
    <2>4. p \in Uplink BY Zenon, <1>2, <2>2, <2>3 DEF Uplink, Iface
    <2>5. /\ p.at = "ran" /\ p.ue = u /\ p.session = c.session /\ p.iface = c.iface
          /\ p.found = a /\ p.at \notin {"ike", "dl"}
      BY Zenon
    <2> HIDE DEF p, a
    <2>6. /\ \A v \in Ue, r \in Session, t \in Teid : ~InDownlink(v, r, t)'
          /\ \A v \in Ue, t \in Teid : ~Downward(v, t)'
      BY Zenon, <2>1, <2>5 DEF InDownlink, Downward
    <2>7. \A v \in Ue, r \in Session : InUplink(v, r)' => v = u /\ r = c.session
      BY Zenon, <2>1, <2>5 DEF InUplink
    <2>8. UplinkFits'
      <3>1. ikeUe'[u].auth \in {"done", "gone"} BY Zenon, <1>1, <1>6 DEF ikeVars
      <3>2. u \in RANUePool' => c.session \in ranUe'[u].used
        <4>1. Holder(u, c.session, c.teid) BY Zenon, <1>5 DEF Holder, Part
        <4>2. u \in RANUePool => c.session \in ranUe[u].used
          BY Zenon, <1>2, <1>4, <1>i, <4>1 DEF OwnInv, HoldersOwn
        <4> QED BY Zenon, <1>1, <4>2 DEF ngapVars
      <3>3. LiveUe(u)' /\ ~hist'.twice => a = u
        <4>1. ikeUe[u].sa /\ ~hist.twice => a = u
          BY Zenon, <1>7 DEF AddrInv, AddressOwned, a
        <4> QED BY Zenon, <1>1, <4>1 DEF LiveUe, ikeVars
      <3>4. c.iface < XfrmIfaceIdOffsetForUP'
        BY Zenon, <1>1, <1>i, <2>3 DEF IkeInv, IfaceBelow, ikeVars
      <3>5. ASSUME NEW d \in ikeUe'[u].child, d.iface = c.iface, d.iface # 0
            PROVE  d.session = c.session
        <4>1. d \in ikeUe[u].child BY Zenon, <1>1 DEF ikeVars
        <4>2. d.iface \notin {None, 0} BY Zenon, <2>3, <3>5
        <4> QED BY Zenon, <1>i, <3>5, <4>1, <4>2 DEF IkeInv, OwnIface
      <3> QED BY Zenon, <2>1, <2>5, <2>7, <3>1, <3>2, <3>3, <3>4, <3>5 DEF UplinkFits
    <2>9. DownlinkOpen' /\ DownlinkFits' BY Zenon, <2>6 DEF DownlinkOpen, DownlinkFits
    <2>10. c.iface = 0 => First(u, c.session) BY Zenon DEF First
    <2>11. pkt'.iface = c.iface BY Zenon, <2>1, <2>5
    <2> QED BY Zenon, <2>1, <2>4, <2>6, <2>7, <2>8, <2>9, <2>10, <2>11 DEF PacketSafe, PktType
  <1> QED BY Zenon, <1>9, <1>10

\* The RAN UE of the packet is found.
LEMMA RanFoundSafe == ASSUME SafeInv, forwardUL_ran PROVE PacketSafe /\ PktType'
  <1>1. /\ pkt # None /\ pkt.at = "ran" /\ UNCHANGED <<ikeVars, ngapVars, upf, hist>>
        /\ pkt' = [pkt EXCEPT !.at = "ul"] \/ pkt' = None
    BY Zenon DEF forwardUL_ran, At, Go
  <1>2. CASE pkt' = None BY Zenon, <1>2, PacketGone
  <1>3. CASE pkt' = [pkt EXCEPT !.at = "ul"]
    <2>1. pkt \in Uplink BY Zenon, <1>1 DEF SafeInv, PktType, Downlink
    <2>2. /\ pkt' \in Uplink /\ pkt'.at \notin {"ike", "dl"} /\ pkt.at \in {"ran", "ul"}
          /\ pkt'.ue = pkt.ue /\ pkt'.session = pkt.session /\ pkt'.iface = pkt.iface
          /\ pkt'.found = pkt.found
      BY ONLY Zenon, <1>1, <1>3, <2>1 DEF Uplink
    <2>3. /\ \A v \in Ue, r \in Session, t \in Teid : ~InDownlink(v, r, t)'
          /\ \A v \in Ue, t \in Teid : ~Downward(v, t)'
      BY Zenon, <2>2 DEF InDownlink, Downward
    <2>4. \A v \in Ue, r \in Session : InUplink(v, r)' => InUplink(v, r)
      BY Zenon, <1>1, <2>2 DEF InUplink
    <2>5. UplinkFits'
      <3> SUFFICES ASSUME NEW v \in Ue, NEW r \in Session, InUplink(v, r)'
                   PROVE  /\ ikeUe'[v].auth \in {"done", "gone"}
                          /\ v \in RANUePool' => r \in ranUe'[v].used
                          /\ LiveUe(v)' /\ ~hist'.twice => pkt'.found = v
                          /\ pkt'.iface < XfrmIfaceIdOffsetForUP'
                          /\ \A c \in ikeUe'[v].child :
                                c.iface = pkt'.iface /\ c.iface # 0 => c.session = r
        BY Zenon DEF UplinkFits
      <3>1. /\ ikeUe[v].auth \in {"done", "gone"}
            /\ v \in RANUePool => r \in ranUe[v].used
            /\ LiveUe(v) /\ ~hist.twice => pkt.found = v
            /\ pkt.iface < XfrmIfaceIdOffsetForUP
            /\ \A c \in ikeUe[v].child : c.iface = pkt.iface /\ c.iface # 0 => c.session = r
        BY Zenon, <2>4 DEF SafeInv, CoreInv, FwdInv, UplinkFits
      <3>2. LiveUe(v)' <=> LiveUe(v) BY Zenon, <1>1 DEF LiveUe, ikeVars, ngapVars
      <3> QED BY Zenon, <1>1, <2>2, <3>1, <3>2 DEF ikeVars, ngapVars
    <2>6. DownlinkOpen' /\ DownlinkFits' BY Zenon, <2>3 DEF DownlinkOpen, DownlinkFits
    <2>7. \A v \in Ue, r \in Session : InUplink(v, r) /\ pkt.iface = 0 => First(v, r)
      BY Zenon DEF First
    <2> QED BY Zenon, <2>2, <2>3, <2>4, <2>5, <2>6, <2>7 DEF PacketSafe, PktType
  <1> QED BY Zenon, <1>1, <1>2, <1>3

\* A packet of the UPF comes in for a TEID it knows.
LEMMA DownlinkSafe ==
    ASSUME SafeInv, NEW t \in Teid, handleQoSTPDU(t) PROVE PacketSafe /\ PktType'
  <1>t. /\ upf \in [Teid -> [ue: Ue, session: Session] \cup {None}]
        /\ AllocatedUETEID \in [Teid -> Ue \cup {None}] /\ RANUePool \subseteq Ue
    BY Zenon DEF SafeInv, TeidInv, Types, NgapTypes, MoreTypes
  <1>i. OwnInv /\ IkeInv /\ UpfInv BY Zenon DEF SafeInv, CoreInv
  <1>1. upf[t] # None /\ UNCHANGED <<ikeVars, ngapVars, ikeEvt, ngapEvt, upf, hist>>
    BY Zenon DEF handleQoSTPDU
  <1>c. PICK a, u, s : a = AllocatedUETEID[t] /\ u = upf[t].ue /\ s = upf[t].session BY Zenon
  <1> DEFINE p == [at |-> "ike", ue |-> u, session |-> s, teid |-> t, found |-> a, ip |-> None]
  <1>2. CASE a = None BY Zenon, <1>c, <1>2, PacketGone DEF handleQoSTPDU, Go
  <1>3. CASE a # None
    <2>1. pkt' = p BY Zenon, <1>c, <1>3 DEF handleQoSTPDU, Go
    <2>2. /\ a \in Ue /\ u \in Ue /\ s \in Session /\ upf[t] = [ue |-> u, session |-> s]
      BY ONLY Zenon, <1>t, <1>c, <1>1, <1>3, t \in Teid
    <2>3. p \in Downlink BY Zenon, <2>2 DEF Downlink
    <2>4. /\ p.at = "ike" /\ p.ue = u /\ p.session = s /\ p.teid = t /\ p.found = a
          /\ p.at \notin {"ran", "ul"} /\ p.at # "dl"
      BY Zenon
    <2> HIDE DEF p
    <2>5. AtUpf(u, s, t) BY Zenon, <2>2 DEF AtUpf
    <2>6. /\ \A v \in Ue, r \in Session, x \in Teid :
               InDownlink(v, r, x)' => v = u /\ r = s /\ x = t
          /\ \A v \in Ue, x \in Teid : Downward(v, x)' => v = a /\ x = t
          /\ \A v \in Ue, r \in Session : ~InUplink(v, r)'
      BY Zenon, <2>1, <2>4 DEF InDownlink, Downward, InUplink
    <2>7. DownlinkOpen'
      <3> SUFFICES ASSUME ~hist'.reused
                   PROVE  /\ upf'[t] # None
                          /\ \A r \in Session : Lists(a, r, t)' => ~Open(a, r, t)'
        BY Zenon, <2>6 DEF DownlinkOpen
      <3>1. u = a BY Zenon, <1>c, <1>1, <1>3, <1>i DEF UpfInv, UpfOwn
      <3>2. ASSUME NEW r \in Session PROVE ~Open(a, r, t)
        BY Zenon, <1>i, <2>2, <2>5, <3>1 DEF IkeInv, OneAtATime
      <3>3. ASSUME NEW r \in Session, Open(a, r, t)' PROVE Open(a, r, t)
        BY Zenon, <1>1, <3>3 DEF Open, Asked, Created, Half, Bare, ikeVars
      <3> QED BY Zenon, <1>1, <3>2, <3>3
    <2>8. DownlinkFits'
      <3>1. ASSUME u \in RANUePool PROVE a = u
        <4>1. Holder(u, s, t) BY Zenon, <2>5 DEF Holder
        <4>2. AllocatedUETEID[t] = u BY Zenon, <1>i, <2>2, <3>1, <4>1 DEF OwnInv, HoldersOwn
        <4> QED BY Zenon, <1>c, <4>2
      <3>2. LiveUe(u)' => u \in RANUePool BY Zenon, <1>1 DEF LiveUe, ngapVars
      <3>3. pkt'.found = a /\ pkt'.at # "dl" BY Zenon, <2>1, <2>4
      <3> QED BY Zenon, <2>6, <3>1, <3>2, <3>3 DEF DownlinkFits
    <2>9. UplinkFits' BY Zenon, <2>6 DEF UplinkFits
    <2> QED BY Zenon, <2>1, <2>3, <2>5, <2>6, <2>7, <2>8, <2>9 DEF PacketSafe, PktType
  <1> QED BY Zenon, <1>2, <1>3

\* The IKE UE of the packet is found.
LEMMA IkeFoundSafe == ASSUME SafeInv, forwardDL_ike PROVE PacketSafe /\ PktType'
  <1>1. /\ pkt # None /\ pkt.at = "ike"
        /\ UNCHANGED <<ikeVars, ngapVars, ikeEvt, ngapEvt, upf, hist>>
        /\ \/ /\ pkt.found \in NGAPIdToIKESPI
              /\ pkt' = [pkt EXCEPT !.at = "dl", !.ip = ikeUe[pkt.found].IPSecInnerIP]
           \/ pkt' = None
    BY Zenon DEF forwardDL_ike, At, Go
  <1>2. CASE pkt' = None BY Zenon, <1>2, PacketGone
  <1>3. CASE /\ pkt.found \in NGAPIdToIKESPI
             /\ pkt' = [pkt EXCEPT !.at = "dl", !.ip = ikeUe[pkt.found].IPSecInnerIP]
    <2>t. ikeUe \in [Ue -> IkeUe] BY Zenon DEF SafeInv, TeidInv, Types, IkeTypes
    <2>1. pkt \in Downlink BY Zenon, <1>1 DEF SafeInv, PktType, Uplink
    <2>2. pkt.found \in Ue BY Zenon, <2>1 DEF Downlink
    <2>3. ikeUe[pkt.found].IPSecInnerIP \in Addr \cup {None} BY ONLY Zenon, <2>t, <2>2 DEF IkeUe
    <2>4. /\ pkt' \in Downlink /\ pkt'.at = "dl" /\ pkt.at \in {"ike", "dl"}
          /\ pkt'.at \notin {"ran", "ul"}
          /\ pkt'.ue = pkt.ue /\ pkt'.session = pkt.session /\ pkt'.teid = pkt.teid
          /\ pkt'.found = pkt.found /\ pkt'.ip = ikeUe[pkt.found].IPSecInnerIP
      BY ONLY ZenonT(30), <1>1, <1>3, <2>1, <2>3 DEF Downlink
    <2>5. pkt.found \in RANUePool BY Zenon, <1>3 DEF SafeInv, MappedInPool
    <2>6. /\ \A v \in Ue, r \in Session, x \in Teid : InDownlink(v, r, x)' => InDownlink(v, r, x)
          /\ \A v \in Ue, x \in Teid : Downward(v, x)' => Downward(v, x) /\ v = pkt.found
          /\ \A v \in Ue, r \in Session : ~InUplink(v, r)'
      BY Zenon, <1>1, <2>4 DEF InDownlink, Downward, InUplink
    <2>7. DownlinkOpen'
      <3> SUFFICES ASSUME ~hist'.reused, NEW v \in Ue, NEW x \in Teid, Downward(v, x)'
                   PROVE  /\ upf'[x] # None
                          /\ \A r \in Session : Lists(v, r, x)' => ~Open(v, r, x)'
        BY Zenon DEF DownlinkOpen
      <3>1. Downward(v, x) /\ v \in RANUePool BY Zenon, <2>5, <2>6
      <3>2. upf[x] # None /\ \A r \in Session : Lists(v, r, x) => ~Open(v, r, x)
        BY Zenon, <1>1, <3>1 DEF SafeInv, CoreInv, UpfInv, DownlinkOpen
      <3>3. ASSUME NEW r \in Session
            PROVE  (Open(v, r, x)' => Open(v, r, x)) /\ (Lists(v, r, x)' => Lists(v, r, x))
        BY Zenon, <1>1 DEF Open, Asked, Created, Half, Bare, Lists, ikeVars, ngapVars
      <3> QED BY Zenon, <1>1, <3>2, <3>3
    <2>8. DownlinkFits'
      <3> SUFFICES ASSUME NEW v \in Ue, NEW r \in Session, NEW x \in Teid, InDownlink(v, r, x)',
                          LiveUe(v)'
                   PROVE  pkt'.found = v /\ pkt'.ip = ikeUe'[v].IPSecInnerIP
        BY Zenon DEF DownlinkFits
      <3>1. InDownlink(v, r, x) /\ LiveUe(v) BY Zenon, <1>1, <2>6 DEF LiveUe, ikeVars, ngapVars
      <3>2. pkt.found = v BY Zenon, <3>1 DEF SafeInv, CoreInv, FwdInv, DownlinkFits
      <3> QED BY Zenon, <1>1, <2>4, <3>2 DEF ikeVars
    <2>9. UplinkFits' BY Zenon, <2>6 DEF UplinkFits
    <2> QED BY Zenon, <2>4, <2>6, <2>7, <2>8, <2>9 DEF PacketSafe, PktType
  <1> QED BY Zenon, <1>1, <1>2, <1>3

\* The steps of the user plane.
LEMMA UserPlaneKeeps ==
    ASSUME AddrInv, SafeInv, TeidInv', UserPlaneStep PROVE CoreInv' /\ PktType' /\ MappedInPool'
  <1>1. PacketOnly
    BY Zenon DEF UserPlaneStep, greListenAndServe, handleQoSTPDU, forwardUL_ran, forwardUL,
       forwardDL_ike, forwardDL, At, PacketOnly
  <1>2. PacketSafe /\ PktType'
    <2>1. CASE \E u \in Ue : \E c \in ikeUe[u].child : greListenAndServe(u, c)
      BY Zenon, <2>1, UplinkSafe
    <2>2. CASE \E t \in Teid : handleQoSTPDU(t) BY Zenon, <2>2, DownlinkSafe
    <2>3. CASE forwardUL \/ forwardDL
      <3>1. pkt' = None BY Zenon, <2>3 DEF forwardUL, forwardDL, Go
      <3> QED BY Zenon, <3>1, PacketGone
    <2> QED BY Zenon, <2>1, <2>2, <2>3, RanFoundSafe, IkeFoundSafe DEF UserPlaneStep
  <1>3. CoreInv' BY Zenon, <1>1, <1>2, PacketKeeps
  <1>4. MappedInPool' BY Zenon, <1>1 DEF PacketOnly, ngapVars, SafeInv, MappedInPool
  <1> QED BY Zenon, <1>2, <1>3, <1>4

\* Initially nothing refers to a session.
LEMMA InitSafe ==
    ASSUME Init PROVE MoreTypes /\ PktType /\ MappedInPool /\ CoreInv
  <1>1. /\ ikeEvt = <<>> /\ ngapEvt = <<>> /\ pkt = None /\ ikeTask = None /\ ngapTask = None
        /\ RANUePool = {} /\ NGAPIdToIKESPI = {} /\ IKEUePool = {} /\ IKESPIToNGAPId = {}
        /\ XfrmIfaces = {0} /\ links = {0} /\ XfrmIfaceIdOffsetForUP = 1 /\ nextTeid = 1
        /\ ikeUp = TRUE /\ exit = "no" /\ upf = [t \in Teid |-> None]
    BY Zenon DEF Init
  <1>2. \A u \in Ue : ikeUe[u].half = None /\ ikeUe[u].child = {} /\ ikeUe[u].auth = "unused"
    <2>1. ikeUe = [u \in Ue |-> [NewIkeUe EXCEPT !.sa = FALSE, !.auth = "unused"]]
      BY Zenon DEF Init
    <2> QED BY ONLY ZenonT(30), <2>1 DEF NewIkeUe
  <1>3. \A u \in Ue, s \in Session : ranUe[u].PduSessionList[s] = None
    <2>1. ranUe = [u \in Ue |-> NewRanUe] BY Zenon DEF Init
    <2> QED BY ONLY Zenon, <2>1 DEF NewRanUe
  <1>4. MoreTypes
    <2>1. ngapEvt \in Seq(NgapEvt) BY <1>1
    <2>2. nextTeid \in Teid BY <1>1, UserPlaneAssumption DEF Teid
    <2>3. upf \in [Teid -> [ue: Ue, session: Session] \cup {None}] BY Zenon, <1>1
    <2>4. XfrmIfaces \subseteq Nat /\ links \subseteq Nat /\ XfrmIfaceIdOffsetForUP \in Nat \ {0}
      BY <1>1
    <2>5. IKEUePool \subseteq Ue /\ IKESPIToNGAPId \subseteq Ue /\ NGAPIdToIKESPI \subseteq Ue
      BY Zenon, <1>1
    <2> QED BY Zenon, <1>1, <2>1, <2>2, <2>3, <2>4, <2>5 DEF MoreTypes, Iface, Exit
  <1>5. ASSUME NEW k PROVE k \notin 1..Len(ikeEvt) /\ k \notin 1..Len(ngapEvt) BY ONLY <1>1
  <1>6. ASSUME NEW u \in Ue, NEW s \in Session, NEW t \in Teid
        PROVE  ~Part(u, s, t) /\ ~Open(u, s, t) /\ ~Holder(u, s, t) /\ ~Half(u, s, t)
                 /\ ~HasChild(u, s, t) /\ ~Asked(u, s, t)
    <2>1. ~Asked(u, s, t) /\ ~Reported(u, s, t) BY Zenon, <1>5 DEF Asked, Reported
    <2>2. ~Half(u, s, t) BY Zenon, <1>2 DEF Half
    <2>3. \A c : c \notin ikeUe[u].child BY Zenon, <1>2
    <2>4. ~AtUpf(u, s, t)
      <3>1. upf[t] = None BY Zenon, <1>1
      <3>2. [ue |-> u, session |-> s] # None BY UserPlaneAssumption
      <3> QED BY Zenon, <3>1, <3>2 DEF AtUpf
    <2>5. ~InDownlink(u, s, t) BY Zenon, <1>1 DEF InDownlink
    <2> QED BY Zenon, <2>1, <2>2, <2>3, <2>4, <2>5 DEF Part, Open, Holder, HasChild
  <1>7. ASSUME NEW u \in Ue, NEW s \in Session
        PROVE  ~Pending(u, s) /\ (\A x \in Teid \cup {None} : ~Lists(u, s, x))
                 /\ ~InUplink(u, s)
    <2>1. \A x \in Teid \cup {None} : [teid |-> x] # None BY Zenon, NotNone
    <2> QED BY Zenon, <1>1, <1>3, <2>1 DEF Pending, Lists, InUplink
  <1>8. \A u \in Ue, t \in Teid : ~Downward(u, t) BY Zenon, <1>1 DEF Downward
  <1>9. \A u : u \notin RANUePool BY Zenon, <1>1
  <1>10. \A u \in Ue : \A c : c \notin ikeUe[u].child BY Zenon, <1>2
  <1>11. \A t \in Teid : upf[t] = None BY Zenon, <1>1
  <1>12. OwnInv
    BY Zenon, <1>6, <1>7, <1>9 DEF OwnInv, HoldersOwn, PendingFresh, SessionTeid, TeidPending,
       PendingUsed
  <1>13. IkeInv
    <2>1. HoldersKnown /\ PendingKnown /\ OneAtATime
      BY Zenon, <1>6, <1>7 DEF HoldersKnown, PendingKnown, OneAtATime
    <2>2. Addressed
      <3>1. \A u \in Ue : ikeUe[u].auth # "done" /\ ikeUe[u].auth # "gone" BY Zenon, <1>2
      <3> QED BY Zenon, <3>1 DEF Addressed
    <2>3. AskedOnce BY Zenon, <1>5 DEF AskedOnce
    <2>4. OneChild /\ Unruled /\ IfaceBelow /\ OwnIface
      BY Zenon, <1>10 DEF OneChild, Unruled, IfaceBelow, OwnIface
    <2>5. TaskChild BY Zenon, <1>1 DEF TaskChild
    <2> QED BY Zenon, <2>1, <2>2, <2>3, <2>4, <2>5 DEF IkeInv
  <1>14. UpfInv BY Zenon, <1>8, <1>11 DEF UpfInv, UpfOwn, DownlinkOpen
  <1>15. FwdInv
    <2>1. OneFirst BY Zenon, <1>9 DEF OneFirst
    <2>2. UplinkFits BY Zenon, <1>7 DEF UplinkFits
    <2>3. DownlinkFits BY Zenon, <1>1 DEF DownlinkFits, InDownlink
    <2> QED BY Zenon, <2>1, <2>2, <2>3 DEF FwdInv
  <1>16. PktType BY Zenon, <1>1 DEF PktType
  <1>17. MappedInPool BY Zenon, <1>1 DEF MappedInPool
  <1> QED BY Zenon, <1>4, <1>12, <1>13, <1>14, <1>15, <1>16, <1>17 DEF CoreInv

\* The control plane leaves packets alone, and both contexts of a UE are registered at once.
LEMMA ControlKeeps ==
    ASSUME SafeInv, IkeLoop \/ NgapLoop \/ (\E u \in Ue : Register(u)) \/ UNCHANGED vars
    PROVE  PktType' /\ MappedInPool'
  <1>1. pkt' = pkt
    <2>1. CASE IkeLoop
      BY Zenon, <2>1 DEF IkeLoop, HandleIKEAUTH, CompleteChildSA, HandleInformationalEsp,
         HandleInformationalAnswer, HandleInformationalIke, HandleCreatePDUSession,
         continueCreateChildSA, HandleSendChildSADeleteRequest, HandleIKEDeleteEvt, Quiet
    <2>2. CASE NgapLoop
      BY Zenon, <2>2 DEF NgapLoop, HandleUEContextReleaseCommand, HandleNGReset, CreatePDUSession,
         HandlePDUSessionResourceReleaseCommand, HandlePDUSessionResourceSetupRequest,
         HandleSendPDUSessionResourceSetupResponse, HandleSendPDUSessionResourceRelease, Quiet
    <2>3. CASE (\E u \in Ue : Register(u)) \/ UNCHANGED vars
      BY Zenon, <2>3 DEF Register, Quiet, vars
    <2> QED BY Zenon, <2>1, <2>2, <2>3
  <1>2. PktType' BY Zenon, <1>1 DEF SafeInv, PktType
  <1>m. NGAPIdToIKESPI \subseteq RANUePool BY Zenon DEF SafeInv, MappedInPool
  <1>3. CASE UNCHANGED <<RANUePool, NGAPIdToIKESPI>> BY Zenon, <1>2, <1>m, <1>3 DEF MappedInPool
  <1>4. ASSUME NEW u, RANUePool' = RANUePool \ {u}, NGAPIdToIKESPI' = NGAPIdToIKESPI \ {u}
        PROVE  MappedInPool'
    BY Zenon, <1>m, <1>4 DEF MappedInPool
  <1>5. ASSUME NEW u, RANUePool' = RANUePool \cup {u}, NGAPIdToIKESPI' = NGAPIdToIKESPI \cup {u}
        PROVE  MappedInPool'
    BY Zenon, <1>m, <1>5 DEF MappedInPool
  <1>6. CASE IkeLoop
    <2>1. UNCHANGED ngapVars BY Zenon, <1>6, IkeLoopKeepsTeid DEF SafeInv
    <2> QED BY Zenon, <1>3, <2>1 DEF ngapVars
  <1>7. CASE NgapLoop
    BY Zenon, <1>2, <1>3, <1>4, <1>7 DEF NgapLoop, HandleUEContextReleaseCommand, HandleNGReset,
       RemoveRanUe, CreatePDUSession, HandlePDUSessionResourceReleaseCommand,
       HandlePDUSessionResourceSetupRequest, HandleSendPDUSessionResourceSetupResponse,
       HandleSendPDUSessionResourceRelease, ngapVars
  <1>8. CASE (\E u \in Ue : Register(u)) \/ UNCHANGED vars
    BY Zenon, <1>2, <1>3, <1>5, <1>8 DEF Register, vars
  <1> QED BY Zenon, <1>2, <1>6, <1>7, <1>8

\* Every step keeps the invariant.
LEMMA SafeKept ==
    ASSUME OneMember, AddrInv, SafeInv, TeidInv', [Next]_vars PROVE SafeInv'
  <1>t. TeidInv /\ Types /\ IkeTypes /\ MoreTypes BY Zenon DEF SafeInv, TeidInv, Types
  <1>1. MoreTypes' BY Zenon, <1>t, MoreTypesKept
  <1>2. CASE UserPlaneStep BY Zenon, <1>1, <1>2, UserPlaneKeeps DEF SafeInv
  <1>3. CASE UNCHANGED vars
    <2>1. UNCHANGED <<IKEUePool, ikeUe, ikeTask, ikeEvt, ngapEvt, ngapVars, hist, upf, pkt>>
            /\ UNCHANGED XfrmIfaceIdOffsetForUP
      BY Zenon, <1>3 DEF vars, ngapVars
    <2>2. QuietStep
      BY Zenon, <1>t, <2>1, SameIkeUe, IkeLoopKeepsRan, IkeEvtMoves, NgapEvtMoves
         DEF QuietStep, HistKept
    <2> QED BY Zenon, <1>1, <1>3, <2>2, QuietKeeps, ControlKeeps DEF SafeInv
  <1>4. CASE \E u \in Ue : Register(u)
    BY Zenon, <1>t, <1>1, <1>4, RegisterQuiet, QuietKeeps, ControlKeeps DEF SafeInv
  <1>5. CASE IkeLoop
    <2>1. CoreInv'
      <3>1. CASE \/ HandleSendChildSADeleteRequest \/ HandleIKEDeleteEvt
                 \/ \E u \in Ue : HandleInformationalEsp(u) \/ HandleInformationalAnswer(u)
                                    \/ HandleInformationalIke(u)
        BY Zenon, <1>t, <3>1, DeletingQuiet, QuietKeeps
      <3>2. CASE \E u \in Ue : HandleIKEAUTH(u) BY Zenon, <1>t, <3>2, AuthQuiet, QuietKeeps
      <3>3. CASE \E u \in Ue : CompleteChildSA(u) BY Zenon, <3>3, ChildKeeps
      <3>4. CASE HandleCreatePDUSession BY Zenon, <3>4, HalfKeeps, NothingDone, QuietKeeps
      <3>5. CASE continueCreateChildSA BY Zenon, <3>5, ConnectedKeeps, NothingDone, QuietKeeps
      <3> QED BY Zenon, <1>5, <3>1, <3>2, <3>3, <3>4, <3>5 DEF IkeLoop
    <2> QED BY Zenon, <1>1, <1>5, <2>1, ControlKeeps DEF SafeInv
  <1>6. CASE NgapLoop
    <2>1. CoreInv'
      <3>1. CASE \/ \E u \in Ue : HandleUEContextReleaseCommand(u) \/ HandleNGReset(u)
                 \/ \E u \in Ue, s \in Session : HandlePDUSessionResourceReleaseCommand(u, s)
                 \/ HandleSendPDUSessionResourceRelease
        BY Zenon, <1>t, <3>1, ReleaseQuiet, QuietKeeps
      <3>2. CASE \E u \in Ue, s \in Session : CreatePDUSession(u, s)
        BY Zenon, <3>2, NewSessionKeeps
      <3>3. CASE HandlePDUSessionResourceSetupRequest
        <4>1. CASE /\ ranUe' = [ranUe EXCEPT ![ngapTask.ue].PduSessionList[ngapTask.session] = None]
                   /\ hist' = Failing(FreeTeid # {})
                   /\ UNCHANGED <<AllocatedUETEID, nextTeid, ikeEvt>>
          BY Zenon, <3>3, <4>1, SetupFails, QuietKeeps
        <4>2. ASSUME NEW t \in Teid,
                NewTEID(ngapTask.ue, t),
                ranUe' = [ranUe EXCEPT ![ngapTask.ue].PduSessionList[ngapTask.session] = [teid |-> t]],
                ikeEvt' = IF ngapTask.ue \in NGAPIdToIKESPI
                          THEN Append(ikeEvt, [type |-> "CreatePDUSession", ue |-> ngapTask.ue,
                                 pdu |-> [session |-> ngapTask.session, teid |-> t,
                                          len |-> Cardinality(Active(ngapTask.ue))]])
                          ELSE ikeEvt,
                hist' = [hist EXCEPT !.reused = @ \/ upf[t] # None]
              PROVE CoreInv'
          BY Zenon, <3>3, <4>2, NewTeidKeeps
        <4> QED BY Zenon, <3>3, <4>1, <4>2 DEF HandlePDUSessionResourceSetupRequest
      <3>4. CASE HandleSendPDUSessionResourceSetupResponse
        BY Zenon, <3>4, ReportKeeps, NothingDone, QuietKeeps
      <3> QED BY Zenon, <1>6, <3>1, <3>2, <3>3, <3>4 DEF NgapLoop
    <2> QED BY Zenon, <1>1, <1>6, <2>1, ControlKeeps DEF SafeInv
  <1> QED BY Zenon, <1>2, <1>3, <1>4, <1>5, <1>6 DEF Next
=============================================================================
