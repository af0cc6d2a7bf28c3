--------------------------- MODULE PduSessionProofs ---------------------------
(***************************************************************************)
(* What holds of PDU session management for every set of sessions, every   *)
(* combination of faults and every bound.                                  *)
(***************************************************************************)
EXTENDS PduSession, TLAPS

-----------------------------------------------------------------------------
(* Types.                                                                  *)

\* A CREATE_CHILD_SA response names an exchange, the UE repeats only an answer it has
\* given, and the temporary data is fetched only when a response was stored.
TypeInv ==
    /\ TypeOK
    /\ \A a \in toN3iwf : a.kind = "child" => a.xid \in Xid
    /\ 0 < ue.expect => ue.last \in FromUe /\ (ue.last.kind = "child" => ue.last.xid \in Xid)
    /\ \A n \in DOMAIN ngapEvt : ngapEvt[n].type = "GetNGAPContext" => sa.TemporaryIkeMsg \in Xid
    /\ \A n \in DOMAIN ikeEvt :
         ikeEvt[n].type = "GetNGAPContextResponse" => sa.TemporaryIkeMsg \in Xid

\* The bounds are numbers.
LEMMA MaxIsNat == /\ MaxMsgId \in Nat /\ MaxXid \in Nat /\ MaxRequest \in Nat
                  /\ MaxProbe \in Nat /\ MaxUeDelete \in Nat
  BY Zenon, PduSessionAssumption

\* What is left of a channel once its head is taken.
LEMMA Taken ==
  ASSUME NEW S, NEW q \in Seq(S), q # <<>>
  PROVE  /\ Head(q) \in S /\ Tail(q) \in Seq(S) /\ Head(q) = q[1] /\ 1 \in DOMAIN q
         /\ Len(q) \in Nat /\ Len(Tail(q)) = Len(q) - 1 /\ DOMAIN q = 1..Len(q)
         /\ DOMAIN Tail(q) = 1..(Len(q) - 1)
         /\ \A n \in DOMAIN Tail(q) : n + 1 \in DOMAIN q /\ Tail(q)[n] = q[n + 1]
  OBVIOUS

\* A channel to which an event is sent.
LEMMA Sent ==
  ASSUME NEW S, NEW q \in Seq(S), NEW e \in S
  PROVE  /\ Append(q, e) \in Seq(S) /\ Len(q) \in Nat
         /\ DOMAIN q = 1..Len(q) /\ DOMAIN Append(q, e) = 1..(Len(q) + 1)
         /\ \A n \in DOMAIN q : n \in DOMAIN Append(q, e) /\ Append(q, e)[n] = q[n]
         /\ Append(q, e)[Len(q) + 1] = e
         /\ \A n \in DOMAIN Append(q, e) : n \in DOMAIN q \/ n = Len(q) + 1
  OBVIOUS

\* Lists of sessions.
LEMMA OrdersType ==
  ASSUME NEW S \in SUBSET Session, NEW q \in Orders(S)
  PROVE  q \in Seq(Session) /\ S = Listed(q) /\ (q = <<>> <=> S = {}) /\ (S # {} => q[Len(q)] \in S)
<1>1. PICK n \in 0..Cardinality(Session) : q \in [1..n -> S] /\ S = Listed(q)
  BY Zenon DEF Orders
<1>2. n \in Nat BY PduSessionAssumption
<1>3. q \in Seq(S) /\ Len(q) = n BY <1>1, <1>2
<1>4. S # {} => n > 0 BY <1>1, <1>2, <1>3 DEF Listed
<1>5. S = {} => n = 0 BY <1>1, <1>2, <1>3 DEF Listed
<1> QED BY <1>1, <1>2, <1>3, <1>4, <1>5

\* History.
LEMMA FaultType ==
  ASSUME NEW h \in History, NEW k, NEW f \in FaultOf(k)
  PROVE  WithFaults(h, f) \in History
<1>1. f \subseteq FaultKind BY PduSessionAssumption DEF FaultOf, MayFail
<1> QED BY Zenon, <1>1 DEF History, WithFaults

LEMMA SendingType ==
  ASSUME NEW h \in History, NEW m \in MsgId
  PROVE  Sending(h, m) \in History
  BY Zenon DEF History, Sending

LEMMA InitType == Init => TypeInv
<1> SUFFICES ASSUME Init PROVE TypeInv BY Zenon
<1> USE PduSessionAssumption DEF Init
<1>1. ranUe \in RanUe BY Zenon DEF RanUe
<1>2. temp \in Temp BY DEF Temp
<1>3. sa \in Sa BY DEF Sa, MsgId, ListLen
<1>4. half \in [MsgId -> HalfSA \cup {None}] BY Zenon
<1>5. childSA \subseteq ChildSA /\ ifOffset \in Offset /\ ifaces \subseteq Iface
  BY DEF Offset, Iface, DefaultIface
<1>6. ikeEvt \in Seq(IkeEvt) /\ ngapEvt \in Seq(NgapEvt) OBVIOUS
<1>7. amf \in Amf BY DEF Amf, Status
<1>8. ue \in Ue BY DEF Ue
<1>9. hist \in History BY DEF History
<1>10. TypeOK BY Zenon, <1>1, <1>2, <1>3, <1>4, <1>5, <1>6, <1>7, <1>8, <1>9 DEF TypeOK
<1> QED BY <1>10 DEF TypeInv

-----------------------------------------------------------------------------
\* The AMF's requests.
LEMMA SetupRequestType == ASSUME TypeInv, AmfSetupRequest PROVE TypeInv'
<1> USE DEF TypeInv
<1>1. PICK S \in (SUBSET StatusIs("idle")) \ {{}} :
        /\ amf' = [status |-> Become(S, "asked"), sent |-> amf.sent + 1]
        /\ \E items \in Orders(S), ok \in SUBSET S : HandlePDUSessionResourceSetupRequest(items, ok)
  BY Zenon DEF AmfSetupRequest
<1>2. PICK items \in Orders(S), ok \in SUBSET S : HandlePDUSessionResourceSetupRequest(items, ok)
  BY Zenon, <1>1
<1>3. S \subseteq Session /\ S # {}
  <2>1. S \in SUBSET StatusIs("idle") /\ S # {} BY Zenon
  <2> QED BY ONLY Zenon, <2>1 DEF StatusIs
<1> DEFINE acc == ok \ ranUe.PduSessionList
           list == ranUe.PduSessionList \cup acc
<1>4. PICK new \in Orders(acc) :
        /\ temp' = RequestData(new, Listed(items) \ acc)
        /\ IF new = <<>> THEN UNCHANGED <<ranUe, ikeEvt>>
           ELSE /\ ranUe' = [ranUe EXCEPT !.PduSessionList = list,
                                          !.TemporaryCachedNASMessage = items[Len(items)]]
                /\ ikeEvt' = Append(ikeEvt, [type |-> "CreatePDUSession",
                                             len |-> Cardinality(list)])
  BY Zenon, <1>2 DEF HandlePDUSessionResourceSetupRequest
<1>5. acc \in SUBSET Session BY Zenon, <1>2, <1>3
<1>6. new \in Seq(Session) /\ items[Len(items)] \in Session /\ Listed(items) \subseteq Session
  BY <1>2, <1>3, <1>4, <1>5, OrdersType
<1>7. ranUe \in RanUe /\ temp \in Temp /\ ikeEvt \in Seq(IkeEvt) /\ amf \in Amf BY Zenon DEF TypeOK
<1>8. list \in SUBSET Session BY Zenon, <1>5, <1>7 DEF RanUe
<1>9. temp' \in Temp BY Zenon, <1>4, <1>6, <1>7 DEF Temp, RequestData
<1>10. ranUe' \in RanUe BY Zenon, <1>4, <1>6, <1>7, <1>8 DEF RanUe
<1>11. [type |-> "CreatePDUSession", len |-> Cardinality(list)] \in IkeEvt
  BY Zenon, <1>8 DEF IkeEvt, ListLen
<1>12. /\ ikeEvt' \in Seq(IkeEvt)
       /\ \A n \in DOMAIN ikeEvt' : ikeEvt'[n].type = "GetNGAPContextResponse" =>
             n \in DOMAIN ikeEvt /\ ikeEvt'[n] = ikeEvt[n]
  BY <1>4, <1>7, <1>11, Sent
<1>13. amf' \in Amf
  <2>1. amf.sent < MaxRequest BY Zenon DEF AmfSetupRequest
  <2>2. Become(S, "asked") \in [Session -> Status] BY Zenon, <1>7 DEF Become, Amf, Status
  <2> QED BY <1>1, <1>7, <2>1, <2>2, PduSessionAssumption DEF Amf
<1>14. UNCHANGED <<ikeVars, ngapEvt, upVars, ue, netVars, hist>> BY Zenon DEF AmfSetupRequest
<1>15. TypeOK' BY Zenon, <1>9, <1>10, <1>12, <1>13, <1>14 DEF TypeOK, ikeVars, upVars, netVars
<1> QED BY Zenon, <1>12, <1>14, <1>15 DEF ikeVars, upVars, netVars

LEMMA ReleaseCommandType == ASSUME TypeInv, AmfReleaseCommand PROVE TypeInv'
<1> USE DEF TypeInv
<1>1. PICK S \in (SUBSET StatusIs("up")) \ {{}} :
        /\ amf' = [status |-> Become(S, "releasing"), sent |-> amf.sent + 1]
        /\ HandlePDUSessionResourceReleaseCommand(S)
  BY Zenon DEF AmfReleaseCommand
<1>2. S \subseteq Session BY Zenon, <1>1 DEF StatusIs
<1>3. ranUe \in RanUe /\ ikeEvt \in Seq(IkeEvt) /\ amf \in Amf BY Zenon DEF TypeOK
<1>4. ranUe' \in RanUe BY Zenon, <1>1, <1>2, <1>3 DEF RanUe, HandlePDUSessionResourceReleaseCommand
<1>5. [type |-> "SendChildSADeleteRequest", ids |-> S] \in IkeEvt BY Zenon, <1>2 DEF IkeEvt
<1>6. /\ ikeEvt' \in Seq(IkeEvt)
      /\ \A n \in DOMAIN ikeEvt' : ikeEvt'[n].type = "GetNGAPContextResponse" =>
            n \in DOMAIN ikeEvt /\ ikeEvt'[n] = ikeEvt[n]
  BY <1>1, <1>3, <1>5, Sent DEF HandlePDUSessionResourceReleaseCommand
<1>7. amf' \in Amf
  <2>1. amf.sent < MaxRequest BY Zenon DEF AmfReleaseCommand
  <2>2. Become(S, "releasing") \in [Session -> Status] BY Zenon, <1>3 DEF Become, Amf, Status
  <2> QED BY <1>1, <1>3, <2>1, <2>2, PduSessionAssumption DEF Amf
<1>8. UNCHANGED <<temp, ikeVars, ngapEvt, upVars, ue, netVars, hist>> BY Zenon DEF AmfReleaseCommand
<1>9. TypeOK' BY Zenon, <1>4, <1>6, <1>7, <1>8 DEF TypeOK, ikeVars, upVars, netVars
<1> QED BY Zenon, <1>6, <1>8, <1>9 DEF ikeVars, upVars, netVars

\* The NGAP loop.
LEMMA NgapEventsType == ASSUME TypeInv, NgapEvents PROVE TypeInv'
<1> USE DEF TypeInv
<1>0. /\ ranUe \in RanUe /\ temp \in Temp /\ amf \in Amf /\ hist \in History
      /\ ikeEvt \in Seq(IkeEvt) /\ ngapEvt \in Seq(NgapEvt)
  BY Zenon DEF TypeOK
<1>1. CASE HandleGetNGAPContext
  <2>1. UNCHANGED <<ranUe, temp, ikeVars, upVars, envVars, netVars, hist>> BY Zenon, <1>1 DEF HandleGetNGAPContext
  <2>2. [type |-> "GetNGAPContextResponse"] \in IkeEvt BY Zenon DEF IkeEvt
  <2>3. ngapEvt # <<>> /\ Head(ngapEvt).type = "GetNGAPContext" BY Zenon, <1>1 DEF HandleGetNGAPContext, NgapHead
  <2>4. ngapEvt' = Tail(ngapEvt) /\ ikeEvt' = Append(ikeEvt, [type |-> "GetNGAPContextResponse"])
    BY Zenon, <1>1 DEF HandleGetNGAPContext
  <2>5. /\ ngapEvt' \in Seq(NgapEvt)
        /\ \A n \in DOMAIN ngapEvt' : n + 1 \in DOMAIN ngapEvt /\ ngapEvt'[n] = ngapEvt[n + 1]
    BY Zenon, <1>0, <2>3, <2>4, Taken
  <2>6. sa.TemporaryIkeMsg \in Xid BY Zenon, <1>0, <2>3, Taken
  <2>7. ikeEvt' \in Seq(IkeEvt) BY Zenon, <1>0, <2>2, <2>4, Sent
  <2>8. TypeOK' BY Zenon, <2>1, <2>5, <2>7 DEF TypeOK, ikeVars, upVars, netVars, envVars
  <2> QED BY Zenon, <2>1, <2>5, <2>6, <2>8 DEF ikeVars, upVars, netVars, envVars
<1>2. CASE HandleSendNASMsg
  <2>1. UNCHANGED <<temp, ikeVars, ikeEvt, upVars, envVars, netVars>> BY Zenon, <1>2 DEF HandleSendNASMsg
  <2>2. ngapEvt # <<>> /\ ngapEvt' = Tail(ngapEvt) BY Zenon, <1>2 DEF HandleSendNASMsg, NgapHead
  <2>3. /\ ngapEvt' \in Seq(NgapEvt)
        /\ \A n \in DOMAIN ngapEvt' : n + 1 \in DOMAIN ngapEvt /\ ngapEvt'[n] = ngapEvt[n + 1]
    BY Zenon, <1>0, <2>2, Taken
  <2>4. ranUe' \in RanUe BY Zenon, <1>0, <1>2 DEF RanUe, HandleSendNASMsg
  <2>5. PICK f \in FaultOf("sendFail") : hist' = WithFaults(hist, f) BY Zenon, <1>2 DEF HandleSendNASMsg
  <2>6. hist' \in History BY Zenon, <1>0, <2>5, FaultType
  <2>7. TypeOK' BY Zenon, <2>1, <2>3, <2>4, <2>6 DEF TypeOK, ikeVars, upVars, netVars, envVars
  <2> QED BY Zenon, <2>1, <2>3, <2>7 DEF ikeVars, upVars, netVars, envVars
<1>3. CASE HandleSendPDUSessionResourceSetupResponse
  <2>1. UNCHANGED <<ranUe, ikeVars, ikeEvt, ikeUp, ue, netVars, hist>>
    BY Zenon, <1>3 DEF HandleSendPDUSessionResourceSetupResponse
  <2>2. ngapEvt # <<>> /\ ngapEvt' = Tail(ngapEvt)
    BY Zenon, <1>3 DEF HandleSendPDUSessionResourceSetupResponse, NgapHead
  <2>3. /\ ngapEvt' \in Seq(NgapEvt)
        /\ \A n \in DOMAIN ngapEvt' : n + 1 \in DOMAIN ngapEvt /\ ngapEvt'[n] = ngapEvt[n + 1]
    BY Zenon, <1>0, <2>2, Taken
  <2>4. up' \in BOOLEAN /\ temp' \in Temp /\ amf' \in Amf
    <3>1. \A e \in BOOLEAN : Reported(e) \subseteq Session BY <1>0 DEF Reported, Temp
    <3>2. CASE Len(temp.FailedErrStr) < Len(temp.UnactivatedPDUSession)
      BY Zenon, <1>0, <1>3, <3>2 DEF HandleSendPDUSessionResourceSetupResponse
    <3>3. CASE ~(Len(temp.FailedErrStr) < Len(temp.UnactivatedPDUSession))
      <4>1. up' = up /\ up \in BOOLEAN
        BY Zenon, <1>3, <3>3 DEF HandleSendPDUSessionResourceSetupResponse, TypeOK
      <4>2. PICK setup, failed : /\ setup = temp.SetupListSURes \cup Reported(TRUE)
                                 /\ failed = temp.FailedListSURes \cup Reported(FALSE)
        BY Zenon
      <4>3. temp' = [temp EXCEPT !.SetupListSURes = setup, !.FailedListSURes = failed]
        BY Zenon, <1>3, <3>3, <4>2 DEF HandleSendPDUSessionResourceSetupResponse, FailedSessions
      <4>4. amf' = [amf EXCEPT !.status = [s \in Session |->
                        IF s \in setup THEN "up" ELSE IF s \in failed THEN "idle" ELSE @[s]]]
        BY Zenon, <1>3, <3>3, <4>2 DEF HandleSendPDUSessionResourceSetupResponse, FailedSessions
      <4>5. setup \subseteq Session /\ failed \subseteq Session BY Zenon, <1>0, <3>1, <4>2 DEF Temp
      <4>6. temp' \in Temp BY Zenon, <1>0, <4>3, <4>5 DEF Temp
      <4>7. amf' \in Amf BY Zenon, <1>0, <4>4 DEF Amf, Status
      <4> QED BY Zenon, <4>1, <4>6, <4>7
    <3> QED BY Zenon, <3>2, <3>3
  <2>5. TypeOK' BY Zenon, <2>1, <2>3, <2>4 DEF TypeOK, ikeVars, netVars
  <2> QED BY Zenon, <2>1, <2>3, <2>5 DEF ikeVars, upVars, netVars
<1>4. CASE HandleSendPDUSessionResourceRelease
  <2>1. UNCHANGED <<temp, ikeVars, ikeEvt, upVars, ue, netVars, hist>>
    BY Zenon, <1>4 DEF HandleSendPDUSessionResourceRelease
  <2>2. ngapEvt # <<>> /\ ngapEvt' = Tail(ngapEvt)
    BY Zenon, <1>4 DEF HandleSendPDUSessionResourceRelease, NgapHead
  <2>3. /\ ngapEvt' \in Seq(NgapEvt)
        /\ \A n \in DOMAIN ngapEvt' : n + 1 \in DOMAIN ngapEvt /\ ngapEvt'[n] = ngapEvt[n + 1]
    BY Zenon, <1>0, <2>2, Taken
  <2>4. ranUe' \in RanUe BY Zenon, <1>0, <1>4 DEF RanUe, HandleSendPDUSessionResourceRelease
  <2>5. amf' \in Amf BY <1>0, <1>4 DEF Amf, Status, Become, HandleSendPDUSessionResourceRelease
  <2>6. TypeOK' BY Zenon, <2>1, <2>3, <2>4, <2>5 DEF TypeOK, ikeVars, upVars, netVars
  <2> QED BY Zenon, <2>1, <2>3, <2>6 DEF ikeVars, upVars, netVars
<1> QED BY Zenon, <1>1, <1>2, <1>3, <1>4 DEF NgapEvents

LEMMA Joined ==
  ASSUME NEW S, NEW p \in Seq(S), NEW q \in Seq(S)
  PROVE  p \o q \in Seq(S) /\ Len(p \o q) = Len(p) + Len(q)
OBVIOUS

\* CreatePDUSessionChildSA, in all its outcomes: a request goes to the UE, or none does
\* and either all sessions were tried or the handler stops.
NextOutcome(i, t, q) ==
    LET m == i.ResponderMessageID IN
    /\ temp' \in Temp /\ sa' \in Sa /\ half' \in [MsgId -> HalfSA \cup {None}]
    /\ toUe' \subseteq ToUe /\ hist' \in History /\ ngapEvt' \in Seq(NgapEvt)
    /\ sa'.TemporaryIkeMsg = i.TemporaryIkeMsg /\ sa'.ResponderMessageID = m
    /\ temp'.UnactivatedPDUSession = t.UnactivatedPDUSession
    /\ temp'.SetupListSURes = t.SetupListSURes /\ temp'.FailedListSURes = t.FailedListSURes
    /\ /\ t.Index <= Len(t.UnactivatedPDUSession) /\ t.Index <= Len(t.FailedErrStr)
       => /\ temp'.Index <= Len(temp'.UnactivatedPDUSession)
          /\ temp'.Index <= Len(temp'.FailedErrStr)
    /\ \/ /\ ngapEvt' = q /\ hist'.used = hist.used \cup {m}
          /\ m \in hist.used => hist'.reused
          /\ toUe' = toUe \cup {[mid |-> m, kind |-> "child", xids |-> {half'[m].InboundSPI}]}
          /\ sa'.ConcatenatedNonce = <<Own(half'[m].InboundSPI)>>
       \/ /\ toUe' = toUe /\ hist'.used = hist.used
          /\ \/ ngapEvt' = q
             \/ /\ ngapEvt' = TellAllAsked(q)
                /\ temp'.Index = Len(temp'.UnactivatedPDUSession)

LEMMA NextChildSAOutcome ==
  ASSUME TypeOK, NEW i \in Sa, NEW t \in Temp, NEW hf \in [MsgId -> HalfSA \cup {None}],
         NEW q \in Seq(NgapEvt), NextChildSA(i, t, hf, q)
  PROVE  NextOutcome(i, t, q)
<1>0. hist \in History /\ toUe \subseteq ToUe /\ i.ResponderMessageID \in MsgId BY Zenon DEF TypeOK, Sa
<1>1. ASSUME NEW x \in Xid, NEW k \in 1..Len(t.UnactivatedPDUSession)
      PROVE  /\ [i EXCEPT !.ConcatenatedNonce = Nonces(i, x)] \in Sa
             /\ [hf EXCEPT ![i.ResponderMessageID] =
                    [InboundSPI |-> x, session |-> t.UnactivatedPDUSession[k]]]
                 \in [MsgId -> HalfSA \cup {None}]
  <2>1. <<Own(x)>> \in Seq(Nonce) BY DEF Own, Nonce
  <2>2. [i EXCEPT !.ConcatenatedNonce = Nonces(i, x)] \in Sa BY Zenon, <2>1 DEF Sa, Nonces
  <2>3. t.UnactivatedPDUSession[k] \in Session BY DEF Temp
  <2>4. [InboundSPI |-> x, session |-> t.UnactivatedPDUSession[k]] \in HalfSA BY Zenon, <2>3 DEF HalfSA
  <2> QED BY Zenon, <2>2, <2>4
<1>2. ASSUME NEW h \in History, h.used = hist.used, h.reused = hist.reused,
             NEW n, CreatePDUSessionChildSA(i, t, hf, h, q, n)
      PROVE  NextOutcome(i, t, q)
  <2>1. PICK m, todo : m = i.ResponderMessageID /\ todo = Len(t.UnactivatedPDUSession) - t.Index
    BY Zenon
  <2>2. PICK tries : tries = IF n < todo THEN n + 1 ELSE n BY Zenon
  <2>3. PICK x : x = h.xid + tries BY Zenon
  <2>4. n \in 0..todo /\ x <= MaxXid
    BY Zenon, <1>2, <2>1, <2>2, <2>3 DEF CreatePDUSessionChildSA
  <2>5. temp' = [t EXCEPT !.Index = @ + tries, !.FailedErrStr = @ \o ErrorEntries(n, todo)]
    BY Zenon, <1>2, <2>1, <2>2 DEF CreatePDUSessionChildSA
  <2>6. IF tries = 0 THEN sa' = i /\ half' = hf
        ELSE /\ sa' = [i EXCEPT !.ConcatenatedNonce = Nonces(i, x)]
             /\ half' = [hf EXCEPT ![m] =
                           [InboundSPI |-> x, session |-> t.UnactivatedPDUSession[t.Index + tries]]]
    BY Zenon, <1>2, <2>1, <2>2, <2>3 DEF CreatePDUSessionChildSA
  <2>7. IF n < todo
        THEN /\ toUe' = toUe \cup {[mid |-> m, kind |-> "child", xids |-> {x}]}
             /\ ngapEvt' = q /\ hist' = Sending([h EXCEPT !.xid = x], m)
        ELSE /\ ngapEvt' = TellAllAsked(q) /\ hist' = [h EXCEPT !.xid = x]
             /\ UNCHANGED toUe
    BY Zenon, <1>2, <2>1, <2>2, <2>3 DEF CreatePDUSessionChildSA
  <2>8. /\ t.Index \in Nat /\ Len(t.UnactivatedPDUSession) \in Nat /\ h.xid \in 0..MaxXid
        /\ t.FailedErrStr \in Seq(Error)
    BY DEF Temp, History
  <2>9. /\ tries \in Nat /\ tries <= todo /\ n \in Nat /\ todo \in Nat /\ x \in 0..MaxXid
        /\ tries # 0 => x \in Xid /\ t.Index + tries \in 1..Len(t.UnactivatedPDUSession)
        /\ IF n < todo THEN tries = n + 1 ELSE tries = n /\ n = todo
    <3>1. /\ n \in Nat /\ todo \in Nat /\ tries \in Nat /\ tries <= todo
          /\ IF n < todo THEN tries = n + 1 ELSE tries = n /\ n = todo
      BY ONLY <2>1, <2>2, <2>4, <2>8
    <3>2. x \in 0..MaxXid /\ (tries # 0 => x \in 1..MaxXid)
      BY ONLY <2>3, <2>4, <2>8, <3>1, MaxIsNat
    <3>3. tries # 0 => t.Index + tries \in 1..Len(t.UnactivatedPDUSession)
      BY ONLY <2>1, <2>8, <3>1
    <3> QED BY Zenon, <3>1, <3>2, <3>3 DEF Xid
  <2>10. /\ temp' \in Temp
         /\ temp'.UnactivatedPDUSession = t.UnactivatedPDUSession
         /\ temp'.SetupListSURes = t.SetupListSURes /\ temp'.FailedListSURes = t.FailedListSURes
         /\ temp'.Index = t.Index + tries /\ Len(temp'.FailedErrStr) = Len(t.FailedErrStr) + tries
    <3>1. ErrorEntries(n, todo) \in Seq(Error) /\ Len(ErrorEntries(n, todo)) = tries
      <4>1. PICK e : e = [k \in 1..n |-> "ErrTransportResourceUnavailable"] BY Zenon
      <4>2. e \in Seq(Error) /\ Len(e) = n BY <2>9, <4>1 DEF Error
      <4>3. PICK d : d = IF n < todo THEN <<"ErrNil">> ELSE <<>> BY Zenon
      <4>4. <<"ErrNil">> \in Seq(Error) /\ Len(<<"ErrNil">>) = 1 BY ONLY TRUE DEF Error
      <4>6. d \in Seq(Error) /\ Len(d) = (IF n < todo THEN 1 ELSE 0) BY ONLY <4>3, <4>4
      <4>5. ErrorEntries(n, todo) = e \o d BY ONLY Zenon, <4>1, <4>3 DEF ErrorEntries
      <4>7. ErrorEntries(n, todo) \in Seq(Error) /\ Len(ErrorEntries(n, todo)) = Len(e) + Len(d)
        BY ONLY Zenon, <4>2, <4>5, <4>6, Joined
      <4> QED BY ONLY <2>9, <4>2, <4>6, <4>7
    <3>2. /\ t.FailedErrStr \o ErrorEntries(n, todo) \in Seq(Error)
          /\ Len(t.FailedErrStr \o ErrorEntries(n, todo)) = Len(t.FailedErrStr) + tries
          /\ t.Index + tries \in Nat
      <4>1. t.Index + tries \in Nat BY ONLY <2>8, <2>9
      <4> QED BY ONLY Zenon, <2>8, <3>1, <4>1, Joined
    <3>3. PICK e : e = t.FailedErrStr \o ErrorEntries(n, todo) BY Zenon
    <3>4. temp' = [t EXCEPT !.Index = @ + tries, !.FailedErrStr = e] BY ONLY Zenon, <2>5, <3>3
    <3>5. e \in Seq(Error) /\ Len(e) = Len(t.FailedErrStr) + tries /\ t.Index + tries \in Nat
      BY ONLY Zenon, <3>2, <3>3
    <3> QED BY ONLY Zenon, t \in Temp, <3>4, <3>5 DEF Temp
  <2>11. /\ sa' \in Sa /\ half' \in [MsgId -> HalfSA \cup {None}]
         /\ sa'.TemporaryIkeMsg = i.TemporaryIkeMsg /\ sa'.ResponderMessageID = m
         /\ tries # 0 => half'[m].InboundSPI = x /\ sa'.ConcatenatedNonce = <<Own(x)>>
    <3>1. CASE tries = 0 BY Zenon, <2>1, <2>6, <3>1
    <3>2. CASE tries # 0
      <4>1. PICK k \in 1..Len(t.UnactivatedPDUSession) : k = t.Index + tries BY Zenon, <2>9, <3>2
      <4>2. x \in Xid BY Zenon, <2>9, <3>2
      <4>3. /\ [i EXCEPT !.ConcatenatedNonce = Nonces(i, x)] \in Sa
            /\ [hf EXCEPT ![m] = [InboundSPI |-> x, session |-> t.UnactivatedPDUSession[k]]]
                \in [MsgId -> HalfSA \cup {None}]
        BY Zenon, <1>1, <2>1, <4>2
      <4>4. /\ sa' = [i EXCEPT !.ConcatenatedNonce = Nonces(i, x)]
            /\ half' = [hf EXCEPT ![m] = [InboundSPI |-> x, session |-> t.UnactivatedPDUSession[k]]]
        BY Zenon, <2>6, <3>2, <4>1
      <4>5. half'[m].InboundSPI = x BY Zenon, <1>0, <2>1, <4>4
      <4>6. /\ sa'.ConcatenatedNonce = <<Own(x)>> /\ sa'.ResponderMessageID = m
            /\ sa'.TemporaryIkeMsg = i.TemporaryIkeMsg
        BY Zenon, <2>1, <4>4 DEF Sa, Nonces
      <4> QED BY Zenon, <4>3, <4>4, <4>5, <4>6
    <3> QED BY Zenon, <3>1, <3>2
  <2>12. [h EXCEPT !.xid = x] \in History BY Zenon, <2>9 DEF History
  <2>13. hist' \in History BY Zenon, <1>0, <2>1, <2>7, <2>12, SendingType
  <2>14. toUe' \subseteq ToUe BY <1>0, <2>1, <2>7, <2>9 DEF ToUe
  <2>15. TellAllAsked(q) \in Seq(NgapEvt) BY DEF TellAllAsked, NgapEvt
  <2>16. CASE n < todo
    <3>1. hist'.used = hist.used \cup {m} /\ (m \in hist.used => hist'.reused)
      BY Zenon, <1>2, <2>7, <2>16 DEF Sending, History
    <3>2. temp'.Index <= Len(t.UnactivatedPDUSession) BY <2>1, <2>8, <2>9, <2>10
    <3>3. t.Index <= Len(t.FailedErrStr) => temp'.Index <= Len(temp'.FailedErrStr)
      BY <2>8, <2>9, <2>10
    <3>4. tries # 0 BY <2>9, <2>16
    <3> QED BY Zenon, <2>1, <2>7, <2>10, <2>11, <2>13, <2>14, <2>16, <3>1, <3>2, <3>3, <3>4 DEF NextOutcome
  <2>17. CASE ~(n < todo)
    <3>1. hist'.used = hist.used BY Zenon, <1>2, <2>7, <2>17 DEF History
    <3>2. temp'.Index = Len(t.UnactivatedPDUSession) BY <2>1, <2>8, <2>9, <2>10, <2>17
    <3>3. t.Index <= Len(t.FailedErrStr) => temp'.Index <= Len(temp'.FailedErrStr)
      BY <2>8, <2>9, <2>10
    <3>4. temp'.Index <= Len(t.UnactivatedPDUSession) BY <2>8, <3>2
    <3> QED BY Zenon, <2>1, <2>7, <2>10, <2>11, <2>13, <2>14, <2>15, <2>17, <3>1, <3>2, <3>3, <3>4
               DEF NextOutcome
  <2> QED BY Zenon, <2>16, <2>17
<1>3. ASSUME NEW h \in History, h.used = hist.used, StallChildSA(i, t, hf, h, q)
      PROVE  NextOutcome(i, t, q)
  <2>1. PICK x : x = h.xid + 1 BY Zenon
  <2>2. /\ t.Index < Len(t.UnactivatedPDUSession) /\ x <= MaxXid
        /\ temp' = t /\ ngapEvt' = q /\ toUe' = toUe
        /\ sa' = [i EXCEPT !.ConcatenatedNonce = Nonces(i, x)]
        /\ half' = [hf EXCEPT ![i.ResponderMessageID] =
                      [InboundSPI |-> x, session |-> t.UnactivatedPDUSession[t.Index + 1]]]
        /\ hist' = [h EXCEPT !.xid = x]
    BY Zenon, <1>3, <2>1 DEF StallChildSA
  <2>3. t.Index \in Nat /\ Len(t.UnactivatedPDUSession) \in Nat /\ h.xid \in 0..MaxXid
    BY DEF Temp, History
  <2>4. x \in Xid /\ t.Index + 1 \in 1..Len(t.UnactivatedPDUSession)
    <3>1. x \in 1..MaxXid BY ONLY <2>1, <2>2, <2>3, MaxIsNat
    <3>2. t.Index + 1 \in 1..Len(t.UnactivatedPDUSession) BY ONLY <2>2, <2>3
    <3> QED BY Zenon, <3>1, <3>2 DEF Xid
  <2>5. sa' \in Sa /\ half' \in [MsgId -> HalfSA \cup {None}] BY Zenon, <1>1, <2>2, <2>4
  <2>6. hist' \in History /\ hist'.used = hist.used
    <3>1. x \in 0..MaxXid BY <2>4, MaxIsNat DEF Xid
    <3>2. h \in History /\ h.used = hist.used /\ hist' = [h EXCEPT !.xid = x] BY Zenon, <1>3, <2>2
    <3> QED BY ONLY Zenon, <3>1, <3>2 DEF History
  <2>7. sa'.TemporaryIkeMsg = i.TemporaryIkeMsg /\ sa'.ResponderMessageID = i.ResponderMessageID
    BY Zenon, <2>2 DEF Sa
  <2> QED BY Zenon, <1>0, <2>2, <2>5, <2>6, <2>7 DEF NextOutcome
<1>4. \A k : MayFail(k) => /\ WithFaults(hist, {k}) \in History
                           /\ WithFaults(hist, {k}).used = hist.used
                           /\ WithFaults(hist, {k}).reused = hist.reused
  <2>1. \A k : MayFail(k) => WithFaults(hist, {k}) \in History BY Zenon, <1>0, FaultType DEF FaultOf
  <2> QED BY Zenon, <1>0, <2>1 DEF WithFaults, History
<1> QED BY Zenon, <1>0, <1>2, <1>3, <1>4 DEF NextChildSA

LEMMA TellKeeps ==
  ASSUME NEW q \in Seq(NgapEvt)
  PROVE  /\ TellAllAsked(q) \in Seq(NgapEvt)
         /\ \A n \in DOMAIN TellAllAsked(q) :
              TellAllAsked(q)[n].type # "SendPDUSessionResourceSetupResponse" =>
                n \in DOMAIN q /\ TellAllAsked(q)[n] = q[n]
<1>1. [type |-> "SendPDUSessionResourceSetupResponse"] \in NgapEvt BY Zenon DEF NgapEvt
<1> QED BY <1>1, Sent DEF TellAllAsked

LEMMA ReleaseKeeps ==
  ASSUME NEW q \in Seq(NgapEvt), NEW S \in SUBSET Session
  PROVE  /\ Append(q, ReleaseEvt(S)) \in Seq(NgapEvt)
         /\ \A n \in DOMAIN Append(q, ReleaseEvt(S)) :
              Append(q, ReleaseEvt(S))[n].type # "SendPDUSessionResourceRelease" =>
                n \in DOMAIN q /\ Append(q, ReleaseEvt(S))[n] = q[n]
<1>1. ReleaseEvt(S) \in NgapEvt /\ ReleaseEvt(S).type = "SendPDUSessionResourceRelease"
  BY Zenon DEF NgapEvt, ReleaseEvt
<1> QED BY <1>1, Sent

\* CreatePDUSession starts a series of exchanges.
LEMMA CreateType == ASSUME TypeInv, HandleCreatePDUSession PROVE TypeInv'
<1> USE DEF TypeInv
<1>0. /\ sa \in Sa /\ temp \in Temp /\ half \in [MsgId -> HalfSA \cup {None}]
      /\ ikeEvt \in Seq(IkeEvt) /\ ngapEvt \in Seq(NgapEvt)
  BY Zenon DEF TypeOK
<1>1. ikeEvt # <<>> /\ ikeEvt' = Tail(ikeEvt) /\ Head(ikeEvt).type = "CreatePDUSession"
  BY Zenon DEF HandleCreatePDUSession, IkeHead
<1>2. PICK i : i = [sa EXCEPT !.PduSessionListLen = Head(ikeEvt).len] BY Zenon
<1>3. Head(ikeEvt) \in IkeEvt BY Zenon, <1>0, <1>1, Taken
<1>4. Head(ikeEvt).len \in ListLen BY ONLY Zenon, <1>1, <1>3 DEF IkeEvt
<1>5. i \in Sa /\ i.TemporaryIkeMsg = sa.TemporaryIkeMsg BY Zenon, <1>0, <1>2, <1>4 DEF Sa
<1>6. NextChildSA(i, temp, half, ngapEvt) BY Zenon, <1>2 DEF HandleCreatePDUSession
<1>7. /\ temp' \in Temp /\ sa' \in Sa /\ half' \in [MsgId -> HalfSA \cup {None}]
      /\ toUe' \subseteq ToUe /\ hist' \in History /\ ngapEvt' \in Seq(NgapEvt)
      /\ sa'.TemporaryIkeMsg = sa.TemporaryIkeMsg
      /\ ngapEvt' = ngapEvt \/ ngapEvt' = TellAllAsked(ngapEvt)
  BY Zenon, <1>0, <1>5, <1>6, NextChildSAOutcome DEF NextOutcome
<1>8. UNCHANGED <<ranUe, childSA, ifOffset, ifaces, upVars, envVars, toN3iwf>>
  BY Zenon DEF HandleCreatePDUSession
<1>9. /\ ikeEvt' \in Seq(IkeEvt)
      /\ \A n \in DOMAIN ikeEvt' : n + 1 \in DOMAIN ikeEvt /\ ikeEvt'[n] = ikeEvt[n + 1]
  BY Zenon, <1>0, <1>1, Taken
<1>10. \A n \in DOMAIN ngapEvt' : ngapEvt'[n].type = "GetNGAPContext" =>
         n \in DOMAIN ngapEvt /\ ngapEvt'[n] = ngapEvt[n]
  BY Zenon, <1>0, <1>7, TellKeeps
<1>11. TypeOK' BY Zenon, <1>7, <1>8, <1>9 DEF TypeOK, upVars, envVars
<1> QED BY Zenon, <1>7, <1>8, <1>9, <1>10, <1>11 DEF upVars, envVars

\* CompleteChildSA records a child SA.
LEMMA CompleteType ==
  ASSUME TypeOK, NEW m \in MsgId, half[m] # None, sa.TemporaryIkeMsg \in Xid,
         NEW iface \in Iface \cup {None}, NEW rules \in Rules
  PROVE  CompleteChildSA(m, iface, rules) \subseteq ChildSA
<1>1. half[m] \in HalfSA BY Zenon DEF TypeOK
<1>2. half[m].InboundSPI \in Xid /\ half[m].session \in Session BY Zenon, <1>1 DEF HalfSA
<1>3. sa.ConcatenatedNonce \in Seq(Nonce) BY Zenon DEF TypeOK, Sa
<1>4. [InboundSPI |-> half[m].InboundSPI, OutboundSPI |-> sa.TemporaryIkeMsg,
       session |-> half[m].session, key |-> sa.ConcatenatedNonce,
       XfrmIface |-> iface, rules |-> rules] \in ChildSA
  BY Zenon, <1>2, <1>3 DEF ChildSA
<1>5. childSA \subseteq ChildSA BY Zenon DEF TypeOK
<1> QED BY Zenon, <1>4, <1>5 DEF CompleteChildSA

\* The rest of a CREATE_CHILD_SA response.
LEMMA ContinueType == ASSUME TypeInv, NEW o \in ContinueOutcome, continueCreateChildSA(o) PROVE TypeInv'
<1> USE DEF TypeInv
<1>0. /\ sa \in Sa /\ temp \in Temp /\ half \in [MsgId -> HalfSA \cup {None}]
      /\ ikeEvt \in Seq(IkeEvt) /\ ngapEvt \in Seq(NgapEvt) /\ hist \in History
      /\ childSA \subseteq ChildSA /\ ifOffset \in Offset /\ ifaces \subseteq Iface
      /\ toUe \subseteq ToUe
  BY Zenon DEF TypeOK
<1>1. ikeEvt # <<>> /\ ikeEvt' = Tail(ikeEvt) /\ Head(ikeEvt).type = "GetNGAPContextResponse"
  BY Zenon DEF continueCreateChildSA, IkeHead
<1>2. PICK m : m = sa.ResponderMessageID BY Zenon
<1>3. m \in MsgId BY Zenon, <1>0, <1>2 DEF Sa
<1>4. sa.TemporaryIkeMsg \in Xid BY Zenon, <1>0, <1>1, Taken
<1>5. /\ ikeEvt' \in Seq(IkeEvt)
      /\ \A n \in DOMAIN ikeEvt' : n + 1 \in DOMAIN ikeEvt /\ ikeEvt'[n] = ikeEvt[n + 1]
  BY Zenon, <1>0, <1>1, Taken
<1>6. UNCHANGED <<ranUe, upVars, envVars, toN3iwf>> BY Zenon DEF continueCreateChildSA
<1> DEFINE pairing == temp.UnactivatedPDUSession # <<>> /\ half[m] # None
           noIface == NewIface = DefaultIface /\ DefaultIface \notin ifaces
           failed == WithFaults(hist, IF o = "ok" THEN {} ELSE {"xfrm"})
<1>7. failed \in History
  <2>1. o # "ok" => MayFail("xfrm") BY Zenon DEF continueCreateChildSA
  <2>2. (IF o = "ok" THEN {} ELSE {"xfrm"}) \in FaultOf("xfrm") BY Zenon, <2>1 DEF FaultOf
  <2> QED BY Zenon, <1>0, <2>2, FaultType
<1>8. NewIface \in Iface BY Zenon, <1>0 DEF NewIface, Iface
<1>9. /\ temp' \in Temp /\ sa' \in Sa /\ half' \in [MsgId -> HalfSA \cup {None}]
      /\ toUe' \subseteq ToUe /\ hist' \in History /\ ngapEvt' \in Seq(NgapEvt)
      /\ childSA' \subseteq ChildSA /\ ifOffset' \in Offset /\ ifaces' \subseteq Iface
      /\ sa'.TemporaryIkeMsg = sa.TemporaryIkeMsg
  <2>1. CASE /\ hist' = failed
             /\ UNCHANGED <<temp, sa, half, childSA, ifOffset, ifaces, ngapEvt, toUe>>
    BY Zenon, <1>0, <1>7, <2>1
  <2>2. CASE /\ half' = [half EXCEPT ![m] = None] /\ hist' = failed
             /\ UNCHANGED <<temp, sa, childSA, ifOffset, ifaces, ngapEvt, toUe>>
    BY Zenon, <1>0, <1>7, <2>2
  <2>3. CASE /\ pairing /\ half' = [half EXCEPT ![m] = None]
             /\ childSA' = CompleteChildSA(m, None, "none") /\ hist' = failed
             /\ UNCHANGED <<temp, sa, ifOffset, ifaces, ngapEvt, toUe>>
    <3>1. childSA' \subseteq ChildSA BY Zenon, <1>3, <1>4, <2>3, CompleteType DEF Rules
    <3> QED BY Zenon, <1>0, <1>7, <2>3, <3>1
  <2>4. ASSUME NEW rules \in Rules, pairing, childSA' = CompleteChildSA(m, NewIface, rules),
               ifaces' = ifaces \cup {NewIface},
               ifOffset' = IF NewIface = DefaultIface THEN ifOffset ELSE ifOffset + 1
        PROVE  childSA' \subseteq ChildSA /\ ifOffset' \in Offset /\ ifaces' \subseteq Iface
    <3>1. childSA' \subseteq ChildSA BY Zenon, <1>3, <1>4, <1>8, <2>4, CompleteType
    <3>2. ifOffset' \in Offset BY <1>0, <2>4 DEF Offset
    <3> QED BY Zenon, <1>0, <1>8, <2>4, <3>1, <3>2
  <2>5. CASE /\ pairing /\ o \in {"rules0", "rules1", "ok"}
             /\ childSA' = CompleteChildSA(m, NewIface,
                               CASE o = "ok" -> "all" [] o = "rules1" -> "some"
                                 [] o = "rules0" -> "none")
             /\ ifaces' = ifaces \cup {NewIface}
             /\ ifOffset' = IF NewIface = DefaultIface THEN ifOffset ELSE ifOffset + 1
             /\ half' = [half EXCEPT ![m] = None] /\ hist' = failed
             /\ UNCHANGED <<temp, sa, ngapEvt, toUe>>
    <3>1. (CASE o = "ok" -> "all" [] o = "rules1" -> "some" [] o = "rules0" -> "none") \in Rules
      BY Zenon, <2>5 DEF Rules
    <3>2. childSA' \subseteq ChildSA /\ ifOffset' \in Offset /\ ifaces' \subseteq Iface
      BY Zenon, <2>4, <2>5, <3>1
    <3> QED BY Zenon, <1>0, <1>7, <2>5, <3>2
  <2>6. CASE /\ pairing /\ o = "ok"
             /\ childSA' = CompleteChildSA(m, NewIface, "all")
             /\ ifaces' = ifaces \cup {NewIface}
             /\ ifOffset' = IF NewIface = DefaultIface THEN ifOffset ELSE ifOffset + 1
             /\ m < MaxMsgId
             /\ NextChildSA([sa EXCEPT !.ResponderMessageID = m + 1],
                            [temp EXCEPT !.FailedErrStr = Append(@, "ErrNil")],
                            [half EXCEPT ![m] = None],
                            Append(ngapEvt, [type |-> "SendNASMsg"]))
    <3>1. childSA' \subseteq ChildSA /\ ifOffset' \in Offset /\ ifaces' \subseteq Iface
      BY Zenon, <2>4, <2>6 DEF Rules
    <3>2. PICK i, t, hf, q : /\ i = [sa EXCEPT !.ResponderMessageID = m + 1]
                             /\ t = [temp EXCEPT !.FailedErrStr = Append(@, "ErrNil")]
                             /\ hf = [half EXCEPT ![m] = None]
                             /\ q = Append(ngapEvt, [type |-> "SendNASMsg"])
      BY Zenon
    <3>3. m + 1 \in MsgId BY <1>3, <2>6, MaxIsNat DEF MsgId
    <3>4. i \in Sa /\ i.TemporaryIkeMsg = sa.TemporaryIkeMsg BY Zenon, <1>0, <3>2, <3>3 DEF Sa
    <3>5. t \in Temp
      <4>1. Append(temp.FailedErrStr, "ErrNil") \in Seq(Error) BY <1>0 DEF Temp, Error
      <4> QED BY ONLY Zenon, <1>0, <3>2, <4>1 DEF Temp
    <3>6. hf \in [MsgId -> HalfSA \cup {None}] BY Zenon, <1>0, <3>2
    <3>7. q \in Seq(NgapEvt)
      <4>1. [type |-> "SendNASMsg"] \in NgapEvt BY Zenon DEF NgapEvt
      <4> QED BY Zenon, <1>0, <3>2, <4>1, Sent
    <3>8. NextChildSA(i, t, hf, q) BY Zenon, <2>6, <3>2
    <3>9. /\ temp' \in Temp /\ sa' \in Sa /\ half' \in [MsgId -> HalfSA \cup {None}]
          /\ toUe' \subseteq ToUe /\ hist' \in History /\ ngapEvt' \in Seq(NgapEvt)
          /\ sa'.TemporaryIkeMsg = i.TemporaryIkeMsg
      BY Zenon, <3>4, <3>5, <3>6, <3>7, <3>8, NextChildSAOutcome DEF NextOutcome
    <3> QED BY Zenon, <3>1, <3>4, <3>9
  <2> QED BY Zenon, <1>2, <2>1, <2>2, <2>3, <2>5, <2>6 DEF continueCreateChildSA, RulesApplied
<1>10. TypeOK' BY Zenon, <1>5, <1>6, <1>9 DEF TypeOK, upVars, envVars
<1> QED BY Zenon, <1>4, <1>5, <1>6, <1>9, <1>10 DEF upVars, envVars

\* A release of child SAs.
LEMMA DeleteType == ASSUME TypeInv, HandleSendChildSADeleteRequest PROVE TypeInv'
<1> USE DEF TypeInv
<1>0. /\ sa \in Sa /\ ikeEvt \in Seq(IkeEvt) /\ hist \in History
      /\ childSA \subseteq ChildSA /\ ifaces \subseteq Iface /\ toUe \subseteq ToUe
  BY Zenon DEF TypeOK
<1>1. ikeEvt # <<>> /\ ikeEvt' = Tail(ikeEvt) BY Zenon DEF HandleSendChildSADeleteRequest, IkeHead
<1>2. PICK m, victims : m = sa.ResponderMessageID /\ victims = ReleasedChildSAs(Head(ikeEvt).ids)
  BY Zenon
<1>3. m \in MsgId /\ victims \subseteq ChildSA BY Zenon, <1>0, <1>2 DEF Sa, ReleasedChildSAs
<1>4. /\ ikeEvt' \in Seq(IkeEvt)
      /\ \A n \in DOMAIN ikeEvt' : n + 1 \in DOMAIN ikeEvt /\ ikeEvt'[n] = ikeEvt[n + 1]
  BY Zenon, <1>0, <1>1, Taken
<1>5. UNCHANGED <<ranUe, temp, sa, half, ifOffset, ngapEvt, up, envVars, toN3iwf>>
  BY Zenon DEF HandleSendChildSADeleteRequest
<1>6. /\ childSA' \subseteq childSA /\ ifaces' \subseteq ifaces
      /\ \/ ikeUp' = FALSE /\ UNCHANGED <<toUe, hist>>
         \/ /\ toUe' = toUe \cup {[mid |-> m, kind |-> "delete",
                                   xids |-> {c.InboundSPI : c \in victims}]}
            /\ hist' = Sending(hist, m) /\ UNCHANGED ikeUp
         \/ /\ MayFail("xfrmDel") /\ hist' = WithFaults(hist, {"xfrmDel"})
            /\ UNCHANGED <<ikeUp, toUe>>
  BY Zenon, <1>2 DEF HandleSendChildSADeleteRequest
<1>7. [mid |-> m, kind |-> "delete", xids |-> {c.InboundSPI : c \in victims}] \in ToUe
  BY Zenon, <1>3 DEF ToUe, ChildSA
<1>8. toUe' \subseteq ToUe BY Zenon, <1>0, <1>6, <1>7
<1>9. hist' \in History /\ ikeUp' \in BOOLEAN
  <2>1. MayFail("xfrmDel") => WithFaults(hist, {"xfrmDel"}) \in History
    BY Zenon, <1>0, FaultType DEF FaultOf
  <2>2. ikeUp \in BOOLEAN BY Zenon DEF TypeOK
  <2> QED BY Zenon, <1>0, <1>3, <1>6, <2>1, <2>2, SendingType
<1>10. TypeOK' BY Zenon, <1>0, <1>4, <1>5, <1>6, <1>8, <1>9 DEF TypeOK, envVars
<1> QED BY Zenon, <1>4, <1>5, <1>10 DEF envVars

\* Packets of the UE.
LEMMA PacketType == ASSUME TypeInv, IkePackets PROVE TypeInv'
<1> USE DEF TypeInv
<1>0. /\ sa \in Sa /\ ngapEvt \in Seq(NgapEvt) /\ hist \in History /\ toN3iwf \subseteq FromUe
      /\ childSA \subseteq ChildSA /\ ifaces \subseteq Iface
  BY Zenon DEF TypeOK
<1>1. PICK a \in toN3iwf : DropPacket(a) \/ HandleCREATECHILDSA(a) \/ HandleInformational(a)
                           \/ handleDeletePayload(a)
  BY Zenon DEF IkePackets
<1>2. Receive(a) => toN3iwf' \subseteq toN3iwf /\ hist' \in History
  BY Zenon, <1>0, FaultType DEF Receive
<1>3. CASE DropPacket(a)
  <2>1. /\ toN3iwf' \subseteq toN3iwf
        /\ UNCHANGED <<ranUe, temp, ikeVars, ikeEvt, ngapEvt, upVars, envVars, toUe, hist>>
    BY Zenon, <1>3 DEF DropPacket
  <2>2. TypeOK' BY Zenon, <1>0, <2>1 DEF TypeOK, ikeVars, upVars, envVars
  <2> QED BY Zenon, <2>1, <2>2 DEF ikeVars, upVars, envVars
<1>4. CASE HandleCREATECHILDSA(a)
  <2>1. /\ toN3iwf' \subseteq toN3iwf /\ hist' \in History /\ a.kind \in {"child", "refused"}
        /\ UNCHANGED <<ranUe, temp, half, childSA, ifOffset, ifaces, ikeEvt, upVars, envVars, toUe>>
    BY Zenon, <1>2, <1>4 DEF HandleCREATECHILDSA
  <2>2. CASE a.kind = "refused"
    <3>1. UNCHANGED <<sa, ngapEvt>> BY Zenon, <1>4, <2>2 DEF HandleCREATECHILDSA
    <3>2. TypeOK' BY Zenon, <1>0, <2>1, <3>1 DEF TypeOK, upVars, envVars
    <3> QED BY Zenon, <2>1, <3>1, <3>2 DEF upVars, envVars
  <2>3. CASE a.kind = "child"
    <3>1. sa' = StoreResponse(a) /\ ngapEvt' = ngapEvt \o ResponseEvents
      BY Zenon, <1>4, <2>3 DEF HandleCREATECHILDSA
    <3>2. a.xid \in Xid BY Zenon, <2>3
    <3>3. sa' \in Sa /\ sa'.TemporaryIkeMsg \in Xid
      <4>1. Append(sa.ConcatenatedNonce, Peer(a.xid)) \in Seq(Nonce)
        BY <1>0, <3>2 DEF Sa, Nonce, Peer
      <4> QED BY ONLY Zenon, <1>0, <3>1, <3>2, <4>1 DEF Sa, StoreResponse
    <3>4. ngapEvt' \in Seq(NgapEvt)
      <4>1. ResponseEvents \in Seq(NgapEvt) BY DEF ResponseEvents, NgapEvt
      <4> QED BY <1>0, <3>1, <4>1
    <3>5. TypeOK' BY Zenon, <1>0, <2>1, <3>3, <3>4 DEF TypeOK, upVars, envVars
    <3> QED BY Zenon, <2>1, <3>3, <3>5 DEF upVars, envVars
  <2> QED BY Zenon, <2>1, <2>2, <2>3
<1>5. CASE HandleInformational(a)
  <2>1. /\ toN3iwf' \subseteq toN3iwf /\ hist' \in History /\ sa.ResponderMessageID < MaxMsgId
        /\ sa' = [sa EXCEPT !.ResponderMessageID = @ + 1]
        /\ ngapEvt' = ngapEvt \/ ngapEvt' = Append(ngapEvt, ReleaseEvt({}))
        /\ UNCHANGED <<ranUe, temp, half, childSA, ifOffset, ifaces, ikeEvt, upVars, envVars, toUe>>
    BY Zenon, <1>2, <1>5 DEF HandleInformational, DeleteAnswered
  <2>2. sa' \in Sa /\ sa'.TemporaryIkeMsg = sa.TemporaryIkeMsg
    BY ONLY <1>0, <2>1, MaxIsNat DEF Sa, MsgId
  <2>3. /\ ngapEvt' \in Seq(NgapEvt)
        /\ \A n \in DOMAIN ngapEvt' : ngapEvt'[n].type = "GetNGAPContext" =>
             n \in DOMAIN ngapEvt /\ ngapEvt'[n] = ngapEvt[n]
    <3>1. CASE ngapEvt' = ngapEvt BY Zenon, <1>0, <3>1
    <3>2. CASE ngapEvt' = Append(ngapEvt, ReleaseEvt({})) BY Zenon, <1>0, <3>2, ReleaseKeeps
    <3> QED BY Zenon, <2>1, <3>1, <3>2
  <2>4. TypeOK' BY Zenon, <1>0, <2>1, <2>2, <2>3 DEF TypeOK, upVars, envVars
  <2> QED BY Zenon, <2>1, <2>2, <2>3, <2>4 DEF upVars, envVars
<1>6. CASE handleDeletePayload(a)
  <2>1. /\ toN3iwf' \subseteq toN3iwf
        /\ UNCHANGED <<ranUe, temp, sa, half, ifOffset, ikeEvt, upVars, envVars, toUe>>
        /\ childSA' \subseteq childSA /\ ifaces' \subseteq ifaces
        /\ hist' = hist \/ (MayFail("xfrmDel") /\ hist' = WithFaults(hist, {"xfrmDel"}))
    BY Zenon, <1>6 DEF handleDeletePayload
  <2>2. /\ ngapEvt' \in Seq(NgapEvt)
        /\ \A n \in DOMAIN ngapEvt' : ngapEvt'[n].type = "GetNGAPContext" =>
             n \in DOMAIN ngapEvt /\ ngapEvt'[n] = ngapEvt[n]
    <3>1. \/ ngapEvt' = ngapEvt
          \/ \E S \in SUBSET Session : ngapEvt' = Append(ngapEvt, ReleaseEvt(S))
      <4>1. \A c \in childSA : {c.session} \in SUBSET Session BY Zenon, <1>0 DEF ChildSA
      <4>2. {} \in SUBSET Session BY Zenon
      <4> QED BY Zenon, <1>6, <4>1, <4>2 DEF handleDeletePayload
    <3>2. CASE ngapEvt' = ngapEvt BY <1>0, <3>2
    <3>3. ASSUME NEW S \in SUBSET Session, ngapEvt' = Append(ngapEvt, ReleaseEvt(S))
          PROVE  /\ ngapEvt' \in Seq(NgapEvt)
                 /\ \A n \in DOMAIN ngapEvt' : ngapEvt'[n].type = "GetNGAPContext" =>
                      n \in DOMAIN ngapEvt /\ ngapEvt'[n] = ngapEvt[n]
      BY Zenon, <1>0, <3>3, ReleaseKeeps
    <3> QED BY Zenon, <3>1, <3>2, <3>3
  <2>3. hist' \in History
    <3>1. MayFail("xfrmDel") => WithFaults(hist, {"xfrmDel"}) \in History
      BY Zenon, <1>0, FaultType DEF FaultOf
    <3> QED BY Zenon, <1>0, <2>1, <3>1
  <2>4. TypeOK' BY Zenon, <1>0, <2>1, <2>2, <2>3 DEF TypeOK, upVars, envVars
  <2> QED BY Zenon, <2>1, <2>2, <2>4 DEF upVars, envVars
<1> QED BY Zenon, <1>1, <1>3, <1>4, <1>5, <1>6

\* Probes, the UE and the network.
LEMMA EnvironmentType ==
  ASSUME TypeInv, StartDPD \/ UePackets \/ UeDeletes \/ Lose
  PROVE  TypeInv'
<1> USE DEF TypeInv
<1>0. /\ sa \in Sa /\ hist \in History /\ toUe \subseteq ToUe /\ toN3iwf \subseteq FromUe /\ ue \in Ue
  BY Zenon DEF TypeOK
<1>1. CASE StartDPD
  <2>1. UNCHANGED <<ranUe, temp, ikeVars, ikeEvt, ngapEvt, upVars, envVars, toN3iwf>>
    BY Zenon, <1>1 DEF StartDPD
  <2>2. sa.ResponderMessageID \in MsgId BY Zenon, <1>0 DEF Sa
  <2>3. toUe' \subseteq ToUe BY <1>0, <1>1, <2>2 DEF StartDPD, ToUe
  <2>4. hist' \in History
    <3>1. [hist EXCEPT !.probes = @ + 1] \in History
      BY <1>0, <1>1, MaxIsNat DEF StartDPD, History
    <3>2. hist' = Sending([hist EXCEPT !.probes = @ + 1], sa.ResponderMessageID)
      BY Zenon, <1>1 DEF StartDPD
    <3> QED BY Zenon, <2>2, <3>1, <3>2, SendingType
  <2>5. TypeOK' BY Zenon, <2>1, <2>3, <2>4 DEF TypeOK, ikeVars, upVars, envVars
  <2> QED BY Zenon, <2>1, <2>5 DEF ikeVars, upVars, envVars
<1>2. CASE UePackets
  <2>1. PICK m \in toUe : UeReceive(m) BY Zenon, <1>2 DEF UePackets
  <2>2. /\ toUe' = toUe \ {m}
        /\ UeAnswers(m) \/ UeRepeats(m) \/ UeIgnores(m)
        /\ UNCHANGED <<ranUe, temp, ikeVars, ikeEvt, ngapEvt, upVars, amf>>
    BY Zenon, <2>1 DEF UeReceive
  <2>3. m.mid \in MsgId /\ m.xids \in SUBSET Xid BY Zenon, <1>0 DEF ToUe
  <2>4. /\ ue' \in Ue /\ toN3iwf' \subseteq FromUe /\ hist' \in History
        /\ \A a \in toN3iwf' : a.kind = "child" => a.xid \in Xid
        /\ 0 < ue'.expect => /\ ue'.last \in FromUe
                             /\ ue'.last.kind = "child" => ue'.last.xid \in Xid
    <3>1. ASSUME NEW kind \in {"child", "refused", "empty", "deleted"}, NEW x \in Xid \cup {None},
                 NEW child \in SUBSET Xid, kind = "child" => x \in Xid, m.mid = ue.expect,
                 ue' = [ue EXCEPT !.expect = @ + 1,
                                  !.last = [mid |-> m.mid, kind |-> kind, xid |-> x],
                                  !.child = child],
                 toN3iwf' = toN3iwf \cup {[mid |-> m.mid, kind |-> kind, xid |-> x]}
          PROVE  /\ ue' \in Ue /\ toN3iwf' \subseteq FromUe
                 /\ \A a \in toN3iwf' : a.kind = "child" => a.xid \in Xid
                 /\ 0 < ue'.expect => /\ ue'.last \in FromUe
                                      /\ ue'.last.kind = "child" => ue'.last.xid \in Xid
      <4>1. PICK a : a = [mid |-> m.mid, kind |-> kind, xid |-> x] BY Zenon
      <4>2. a \in FromUe BY ONLY Zenon, <2>3, <3>1, <4>1 DEF FromUe
      <4>3. a.kind = "child" => a.xid \in Xid BY Zenon, <3>1, <4>1
      <4>4. ue.expect + 1 \in 0..(MaxMsgId + 1) BY <2>3, <3>1, MaxIsNat DEF MsgId
      <4>5. ue' \in Ue /\ ue'.last = a BY ONLY Zenon, <1>0, <3>1, <4>1, <4>2, <4>4 DEF Ue
      <4> QED BY Zenon, <1>0, <3>1, <4>1, <4>2, <4>3, <4>5
    <3>2. CASE UeAnswers(m)
      <4>1. ue.child \in SUBSET Xid BY Zenon, <1>0 DEF Ue
      <4>2. MayFail("refused") => WithFaults(hist, {"refused"}) \in History
        BY Zenon, <1>0, FaultType DEF FaultOf
      <4>3. hist' \in History BY Zenon, <1>0, <3>2, <4>2 DEF UeAnswers
      <4>4. PICK kind \in {"child", "refused", "empty", "deleted"}, x \in Xid \cup {None},
                 child \in SUBSET Xid :
              /\ kind = "child" => x \in Xid
              /\ m.mid = ue.expect
              /\ ue' = [ue EXCEPT !.expect = @ + 1,
                                  !.last = [mid |-> m.mid, kind |-> kind, xid |-> x],
                                  !.child = child]
              /\ toN3iwf' = toN3iwf \cup {[mid |-> m.mid, kind |-> kind, xid |-> x]}
        <5> DEFINE Done == \E kind \in {"child", "refused", "empty", "deleted"},
                              x \in Xid \cup {None}, child \in SUBSET Xid :
              /\ kind = "child" => x \in Xid
              /\ m.mid = ue.expect
              /\ ue' = [ue EXCEPT !.expect = @ + 1,
                                  !.last = [mid |-> m.mid, kind |-> kind, xid |-> x],
                                  !.child = child]
              /\ toN3iwf' = toN3iwf \cup {[mid |-> m.mid, kind |-> kind, xid |-> x]}
        <5>0. m.mid = ue.expect BY Zenon, <3>2 DEF UeAnswers
        <5>1. ASSUME NEW x \in m.xids,
                     ue' = [ue EXCEPT !.expect = @ + 1,
                                  !.last = [mid |-> m.mid, kind |-> "child", xid |-> x],
                                  !.child = ue.child \cup {x}],
                     toN3iwf' = toN3iwf \cup {[mid |-> m.mid, kind |-> "child", xid |-> x]}
              PROVE  Done
          <6>1. x \in Xid /\ ue.child \cup {x} \in SUBSET Xid BY Zenon, <2>3, <4>1
          <6> QED BY Zenon, <5>0, <5>1, <6>1
        <5>2. ASSUME NEW kind \in {"refused", "empty", "deleted"}, NEW child \in SUBSET ue.child,
                     ue' = [ue EXCEPT !.expect = @ + 1,
                                  !.last = [mid |-> m.mid, kind |-> kind, xid |-> None],
                                  !.child = child],
                     toN3iwf' = toN3iwf \cup {[mid |-> m.mid, kind |-> kind, xid |-> None]}
              PROVE  Done
          <6>1. child \in SUBSET Xid /\ kind # "child" BY Zenon, <4>1, <5>2
          <6>2. kind \in {"child", "refused", "empty", "deleted"} /\ None \in Xid \cup {None} BY Zenon
          <6> QED BY Zenon, <5>0, <5>2, <6>1, <6>2
        <5>3. Done
          <6>1. ue.child \in SUBSET ue.child /\ ue.child \ m.xids \in SUBSET ue.child BY Zenon
          <6>2. CASE m.kind = "child" BY Zenon, <3>2, <5>1, <5>2, <6>1, <6>2 DEF UeAnswers
          <6>3. CASE m.kind = "dpd" BY Zenon, <3>2, <5>2, <6>1, <6>3 DEF UeAnswers
          <6>4. CASE m.kind = "delete" BY Zenon, <3>2, <5>2, <6>1, <6>4 DEF UeAnswers
          <6> QED BY Zenon, <3>2, <6>2, <6>3, <6>4 DEF UeAnswers
        <5> QED BY Zenon, <5>3
      <4> QED BY Zenon, <3>1, <4>3, <4>4
    <3>3. CASE UeRepeats(m)
      <4>1. 0 < ue.expect BY <1>0, <2>3, <3>3 DEF UeRepeats, Ue, MsgId
      <4>2. ue' = ue /\ hist' = hist /\ toN3iwf' = toN3iwf \cup {ue.last} BY Zenon, <3>3 DEF UeRepeats
      <4> QED BY Zenon, <1>0, <4>1, <4>2
    <3>4. CASE UeIgnores(m) BY Zenon, <1>0, <3>4 DEF UeIgnores
    <3> QED BY Zenon, <2>2, <3>2, <3>3, <3>4
  <2>5. toUe' \subseteq ToUe
    <3>1. toUe' = toUe \ {m} BY Zenon, <2>2
    <3> QED BY ONLY Zenon, <1>0, <3>1
  <2>6. ue' \in Ue /\ toN3iwf' \subseteq FromUe /\ hist' \in History BY Zenon, <2>4
  <2>7. UNCHANGED <<ranUe, temp, ikeVars, ikeEvt, ngapEvt, upVars, amf>> BY Zenon, <2>2
  <2>8. TypeOK' BY Zenon, <2>5, <2>6, <2>7 DEF TypeOK, ikeVars, upVars
  <2> QED BY Zenon, <2>4, <2>7, <2>8 DEF ikeVars, upVars
<1>3. CASE UeDeletes
  <2>1. UNCHANGED <<ranUe, temp, ikeVars, ikeEvt, ngapEvt, upVars, amf, toUe, hist>>
    BY Zenon, <1>3 DEF UeDeletes
  <2>2. PICK x \in ue.child :
          /\ ue' = [ue EXCEPT !.child = @ \ {x}, !.deletes = @ + 1]
          /\ toN3iwf' = toN3iwf \cup {[mid |-> 0, kind |-> "ueDelete", xid |-> x]}
    BY Zenon, <1>3 DEF UeDeletes
  <2>3. ue' \in Ue /\ ue'.expect = ue.expect /\ ue'.last = ue.last
    <3>1. ue.deletes + 1 \in 0..MaxUeDelete
      <4>1. ue.deletes < MaxUeDelete BY Zenon, <1>3 DEF UeDeletes
      <4>2. ue.deletes \in 0..MaxUeDelete BY Zenon, <1>0 DEF Ue
      <4> QED BY ONLY <4>1, <4>2, MaxIsNat
    <3> QED BY ONLY Zenon, <1>0, <2>2, <3>1 DEF Ue
  <2>4. [mid |-> 0, kind |-> "ueDelete", xid |-> x] \in FromUe
    BY <1>0, MaxIsNat DEF Ue, FromUe, MsgId
  <2>5. toN3iwf' \subseteq FromUe /\ \A a \in toN3iwf' : a.kind = "child" => a.xid \in Xid
    BY <1>0, <2>2, <2>4
  <2>6. TypeOK' BY Zenon, <2>1, <2>3, <2>5 DEF TypeOK, ikeVars, upVars
  <2> QED BY Zenon, <2>1, <2>3, <2>5, <2>6 DEF ikeVars, upVars
<1>4. CASE Lose
  <2>1. /\ UNCHANGED <<ranUe, temp, ikeVars, ikeEvt, ngapEvt, upVars, envVars>>
        /\ toUe' \subseteq toUe /\ toN3iwf' \subseteq toN3iwf
        /\ MayFail("lost") /\ hist' = WithFaults(hist, {"lost"})
    BY Zenon, <1>4 DEF Lose
  <2>2. hist' \in History BY Zenon, <1>0, <2>1, FaultType DEF FaultOf
  <2>3. TypeOK' BY Zenon, <1>0, <2>1, <2>2 DEF TypeOK, ikeVars, upVars, envVars
  <2> QED BY Zenon, <2>1, <2>3 DEF ikeVars, upVars, envVars
<1> QED BY Zenon, <1>1, <1>2, <1>3, <1>4

\* Every step keeps the types.
LEMMA NextType == ASSUME TypeInv, [Next]_vars PROVE TypeInv'
<1>1. CASE Next
  <2>1. IkeEvents => TypeInv' BY Zenon, CreateType, ContinueType, DeleteType
                                 DEF IkeEvents, HandleGetNGAPContextResponse
  <2> QED BY Zenon, <1>1, <2>1, SetupRequestType, ReleaseCommandType, NgapEventsType, PacketType,
             EnvironmentType DEF Next
<1>2. CASE UNCHANGED vars BY Zenon, <1>2 DEF TypeInv, TypeOK, vars
<1> QED BY Zenon, <1>1, <1>2

\* Every context, event and message keeps its type: no child SA is recorded without the
\* SPI of a response, and no session is taken from beyond the end of a request.
THEOREM TypeCorrect == Spec => []TypeOK
<1>1. TypeInv /\ [Next]_vars => TypeInv' BY Zenon, NextType
<1>2. TypeInv => TypeOK BY Zenon DEF TypeInv
<1> QED BY <1>1, <1>2, InitType, PTL DEF Spec

-----------------------------------------------------------------------------
(* The setup of sessions.  Of a setup request there is at most one token:  *)
(* the event that starts it, a CREATE_CHILD_SA request or its response     *)
(* under way, the two events that fetch the temporary data, or the event   *)
(* that has the AMF answered.                                              *)

At(q, t) == {n \in DOMAIN q : q[n].type = t}
One(X) == \A x, y \in X : x = y

\* Nothing is added from X to Y.
Shrinks(X, Y) == (X = {} => Y = {}) /\ (One(X) => One(Y))

Creates  == At(ikeEvt, "CreatePDUSession")
Asks     == {m \in toUe : m.kind = "child"}
Replies  == {a \in toN3iwf : a.kind # "ueDelete"}
Children == {a \in toN3iwf : a.kind = "child"}
Gets     == At(ngapEvt, "GetNGAPContext")
Gots     == At(ikeEvt, "GetNGAPContextResponse")
Tells    == At(ngapEvt, "SendPDUSessionResourceSetupResponse")
Asked    == StatusIs("asked")

OneSetup ==
    /\ One(Creates) /\ One(Gets) /\ One(Gots) /\ One(Tells)
    /\ Asks # {} => Creates = {}
    /\ Children # {} => Creates = {} /\ Asks = {}
    /\ Gets # {} => Creates = {} /\ Asks = {} /\ Children = {}
    /\ Gots # {} => Creates = {} /\ Asks = {} /\ Children = {} /\ Gets = {}
    /\ Tells # {} => Creates = {} /\ Asks = {} /\ Children = {} /\ Gets = {} /\ Gots = {}
    /\ Asked = {} => /\ Creates = {} /\ Asks = {} /\ Children = {} /\ Gets = {} /\ Gots = {}
                     /\ Tells = {}

\* The exchange with the UE under message ID r.
ExchangeAt(r) ==
    /\ \A m \in hist.used : m <= r
    /\ ue.expect = r \/ (ue.expect = r + 1 /\ r \in hist.used)
    /\ \A m \in toUe : m.mid = r /\ ue.expect = r /\ r \in hist.used
    /\ \A a \in Replies : a.mid = r /\ ue.expect = r + 1
    /\ One(toUe) /\ One(Replies)

Exchange ==
    /\ ExchangeAt(sa.ResponderMessageID)
    /\ Gets # {} \/ Gots # {} => Replies = {} /\ ue.expect = sa.ResponderMessageID + 1

\* Its SPIs and nonces.
Pairing ==
    LET r == sa.ResponderMessageID
        x == half[r].InboundSPI
    IN  /\ Asks # {} \/ Children # {} => sa.ConcatenatedNonce = <<Own(x)>>
        /\ \A m \in Asks : m.xids = {x}
        /\ \A a \in Children : a.xid = x
        /\ Gets # {} \/ Gots # {} =>
             sa.TemporaryIkeMsg = x /\ sa.ConcatenatedNonce = <<Own(x), Peer(x)>>

\* The request that the AMF waits for is the one in the temporary data.
AskedIsKnown ==
    /\ Asked # {} => /\ temp.SetupListSURes = {}
                     /\ Asked = Listed(temp.UnactivatedPDUSession) \cup temp.FailedListSURes
    /\ temp.Index <= Len(temp.UnactivatedPDUSession) /\ temp.Index <= Len(temp.FailedErrStr)
    /\ Tells # {} => temp.Index = Len(temp.UnactivatedPDUSession)

SetupInv == OneSetup /\ Exchange /\ Pairing /\ AskedIsKnown /\ ChildSaPaired

\* Channels.
LEMMA TakenAt ==
  ASSUME NEW S, NEW q \in Seq(S), q # <<>>
  PROVE  /\ \A t : Shrinks(At(q, t), At(Tail(q), t))
         /\ At(q, Head(q).type) # {}
         /\ One(At(q, Head(q).type)) => At(Tail(q), Head(q).type) = {}
<1>1. /\ Head(q) = q[1] /\ 1 \in DOMAIN q
      /\ \A n \in DOMAIN Tail(q) : /\ n + 1 \in DOMAIN q /\ Tail(q)[n] = q[n + 1]
                                   /\ n \in Nat /\ n + 1 # 1
  BY Taken
<1>2. ASSUME NEW t PROVE Shrinks(At(q, t), At(Tail(q), t))
  <2>1. \A n \in At(Tail(q), t) : n + 1 \in At(q, t) /\ n \in Nat BY Zenon, <1>1 DEF At
  <2> QED BY <2>1 DEF Shrinks, One
<1>3. ASSUME One(At(q, Head(q).type)), NEW n \in At(Tail(q), Head(q).type) PROVE FALSE
  <2>1. n + 1 \in At(q, Head(q).type) /\ 1 \in At(q, Head(q).type) /\ n + 1 # 1 BY Zenon, <1>1 DEF At
  <2> QED BY Zenon, <1>3, <2>1 DEF One
<1> QED BY Zenon, <1>1, <1>2, <1>3 DEF At

LEMMA SentAt ==
  ASSUME NEW S, NEW q \in Seq(S), NEW e \in S
  PROVE  /\ \A t : t # e.type => At(Append(q, e), t) = At(q, t)
         /\ At(q, e.type) = {} => One(At(Append(q, e), e.type))
<1>1. /\ Len(q) \in Nat /\ DOMAIN q = 1..Len(q)
      /\ \A n \in DOMAIN q : n \in DOMAIN Append(q, e) /\ Append(q, e)[n] = q[n]
      /\ Append(q, e)[Len(q) + 1] = e
      /\ \A n \in DOMAIN Append(q, e) : n \in DOMAIN q \/ n = Len(q) + 1
  BY Sent
<1>2. ASSUME NEW t, t # e.type PROVE At(Append(q, e), t) = At(q, t)
  <2>1. PICK p : p = Append(q, e) BY Zenon
  <2>2. \A n \in DOMAIN q : n \in DOMAIN p /\ p[n] = q[n] BY Zenon, <1>1, <2>1
  <2>3. \A n \in DOMAIN p : n \in DOMAIN q \/ p[n] = e BY Zenon, <1>1, <2>1
  <2> QED BY ONLY Zenon, <1>2, <2>1, <2>2, <2>3 DEF At
<1>3. ASSUME At(q, e.type) = {}, NEW n \in At(Append(q, e), e.type) PROVE n = Len(q) + 1
  BY Zenon, <1>1, <1>3 DEF At
<1> QED BY Zenon, <1>2, <1>3 DEF One

\* A step that sends the UE nothing and receives nothing from it that matters.
LEMMA QuietStep ==
  ASSUME SetupInv, UNCHANGED <<sa, half, temp>>, ue'.expect = ue.expect, hist'.used = hist.used,
         toUe' \subseteq toUe, toN3iwf' \ toN3iwf \subseteq {a \in toN3iwf' : a.kind = "ueDelete"},
         childSA' \subseteq childSA, Asked' = Asked, Shrinks(Creates, Creates'),
         Shrinks(Gets, Gets'), Shrinks(Gots, Gots'), Shrinks(Tells, Tells')
  PROVE  SetupInv'
<1> USE DEF SetupInv
<1>1. Asks' \subseteq Asks BY Zenon DEF Asks
<1>2. Replies' \subseteq Replies /\ Children' \subseteq Children BY Zenon DEF Replies, Children
<1>3. OneSetup' BY Zenon, <1>1, <1>2 DEF OneSetup, Shrinks
<1>4. Exchange'
  <2>1. One(toUe') /\ One(Replies') BY Zenon, <1>2 DEF Exchange, ExchangeAt, One
  <2> QED BY Zenon, <1>2, <2>1 DEF Exchange, ExchangeAt, Shrinks
<1>5. Pairing' BY Zenon, <1>1, <1>2 DEF Pairing, Shrinks
<1>6. AskedIsKnown' BY Zenon DEF AskedIsKnown, Shrinks
<1>7. ChildSaPaired' BY Zenon DEF ChildSaPaired, SpiPaired
<1> QED BY Zenon, <1>3, <1>4, <1>5, <1>6, <1>7

\* What holds when nothing was sent under the current message ID yet.
LEMMA Unused ==
  ASSUME TypeOK, NEW r \in Nat, ExchangeAt(r), r \notin hist.used
  PROVE  ue.expect = r /\ toUe = {} /\ Replies = {}
<1>1. ue.expect = r /\ toUe = {} BY Zenon DEF ExchangeAt
<1>2. r # r + 1 OBVIOUS
<1> QED BY Zenon, <1>1, <1>2 DEF ExchangeAt

\* A request other than CREATE_CHILD_SA is sent, under a message ID not used before.
LEMMA SendStep ==
  ASSUME TypeOK, SetupInv, NEW m, toUe' = toUe \cup {m}, m.mid = sa.ResponderMessageID,
         m.kind # "child", sa.ResponderMessageID \notin hist.used,
         hist'.used = hist.used \cup {sa.ResponderMessageID},
         UNCHANGED <<sa, half, temp, ue, toN3iwf>>, childSA' \subseteq childSA,
         Asked' = Asked, Shrinks(Creates, Creates'),
         Shrinks(Gets, Gets'), Shrinks(Gots, Gots'), Shrinks(Tells, Tells')
  PROVE  SetupInv'
<1> USE DEF SetupInv
<1>0. PICK r \in Nat : r = sa.ResponderMessageID BY MaxIsNat DEF TypeOK, Sa, MsgId
<1>1. ExchangeAt(r) /\ r \notin hist.used BY Zenon, <1>0 DEF Exchange
<1>2. ue.expect = r /\ toUe = {} /\ Replies = {} BY Zenon, <1>1, Unused
<1>3. Asks' = {} BY Zenon, <1>2 DEF Asks
<1>4. Replies' = {} /\ Children' = {} BY Zenon, <1>2 DEF Replies, Children
<1>5. r # r + 1 /\ r <= r BY <1>0
<1>6. Gets = {} /\ Gots = {} BY Zenon, <1>0, <1>2, <1>5 DEF Exchange
<1>7. Gets' = {} /\ Gots' = {} BY Zenon, <1>6 DEF Shrinks
<1>8. OneSetup' BY Zenon, <1>3, <1>4, <1>7 DEF OneSetup, Shrinks, One
<1>9. Exchange'
  <2>1. toUe' = {m} /\ One(toUe') BY Zenon, <1>2 DEF One
  <2>2. \A n \in hist'.used : n <= r BY <1>0, <1>1 DEF ExchangeAt
  <2>3. One(Replies') BY Zenon, <1>4 DEF One
  <2>4. ue'.expect = r /\ r \in hist'.used /\ sa'.ResponderMessageID = r BY Zenon, <1>0, <1>2
  <2> QED BY Zenon, <1>0, <1>4, <1>7, <2>1, <2>2, <2>3, <2>4 DEF Exchange, ExchangeAt
<1>10. Pairing' BY Zenon, <1>3, <1>4, <1>7 DEF Pairing
<1>11. AskedIsKnown' BY Zenon DEF AskedIsKnown, Shrinks
<1>12. ChildSaPaired' BY Zenon DEF ChildSaPaired, SpiPaired
<1> QED BY Zenon, <1>8, <1>9, <1>10, <1>11, <1>12

\* CreatePDUSessionChildSA under message ID r, when its caller has taken the token.
LEMMA ChildStep ==
  ASSUME TypeOK, ~Crossed', NEW r \in Nat, NEW i, NEW t, NEW q, NextOutcome(i, t, q),
         i.ResponderMessageID = r, ExchangeAt(r), ChildSaPaired',
         t.UnactivatedPDUSession = temp.UnactivatedPDUSession,
         t.SetupListSURes = temp.SetupListSURes, t.FailedListSURes = temp.FailedListSURes,
         t.Index <= Len(t.UnactivatedPDUSession), t.Index <= Len(t.FailedErrStr),
         Asked # {}, Asked' = Asked, AskedIsKnown, UNCHANGED <<ue, toN3iwf>>,
         Asks = {}, Children = {}, Creates' = {}, Gots' = {}, q \in Seq(NgapEvt),
         At(q, "GetNGAPContext") = {}, At(q, "SendPDUSessionResourceSetupResponse") = {}
  PROVE  SetupInv'
<1> USE DEF SetupInv
<1>1. /\ sa'.ResponderMessageID = r
      /\ temp'.UnactivatedPDUSession = temp.UnactivatedPDUSession
      /\ temp'.SetupListSURes = temp.SetupListSURes
      /\ temp'.FailedListSURes = temp.FailedListSURes
      /\ temp'.Index <= Len(temp'.UnactivatedPDUSession)
      /\ temp'.Index <= Len(temp'.FailedErrStr)
  BY Zenon DEF NextOutcome
<1>2. Children' = {} BY Zenon DEF Children
<1>3. CASE /\ ngapEvt' = q /\ hist'.used = hist.used \cup {r}
           /\ r \in hist.used => hist'.reused
           /\ toUe' = toUe \cup {[mid |-> r, kind |-> "child", xids |-> {half'[r].InboundSPI}]}
           /\ sa'.ConcatenatedNonce = <<Own(half'[r].InboundSPI)>>
  <2>1. r \notin hist.used BY Zenon, <1>3 DEF Crossed
  <2>2. ue.expect = r /\ toUe = {} /\ Replies = {} BY Zenon, <2>1, Unused
  <2>3. PICK m : m = [mid |-> r, kind |-> "child", xids |-> {half'[r].InboundSPI}] BY Zenon
  <2>4. m.mid = r /\ m.kind = "child" /\ m.xids = {half'[r].InboundSPI} BY Zenon, <2>3
  <2>5. toUe' = {m} BY Zenon, <1>3, <2>2, <2>3
  <2>6. Asks' = {m} BY Zenon, <2>4, <2>5 DEF Asks
  <2>7. Replies' = {} BY Zenon, <2>2 DEF Replies
  <2>8. Gets' = {} /\ Tells' = {} BY Zenon, <1>3 DEF Gets, Tells
  <2>9. OneSetup' BY Zenon, <1>2, <2>8 DEF OneSetup, One
  <2>10. Exchange'
    <3>1. One(toUe') /\ One(Replies') BY Zenon, <2>5, <2>7 DEF One
    <3>2. \A n \in hist'.used : n <= r BY <1>3 DEF ExchangeAt
    <3>3. ue'.expect = r /\ r \in hist'.used BY Zenon, <1>3, <2>2
    <3> QED BY Zenon, <1>1, <2>4, <2>5, <2>7, <2>8, <3>1, <3>2, <3>3 DEF Exchange, ExchangeAt
  <2>11. Pairing' 
    <3>1. \A n \in Asks' : n.xids = {half'[r].InboundSPI} BY Zenon, <2>4, <2>6
    <3> QED BY Zenon, <1>1, <1>2, <1>3, <2>8, <3>1 DEF Pairing
  <2>12. AskedIsKnown' BY Zenon, <1>1, <2>8 DEF AskedIsKnown
  <2> QED BY Zenon, <2>9, <2>10, <2>11, <2>12
<1>4. CASE /\ toUe' = toUe /\ hist'.used = hist.used
           /\ \/ ngapEvt' = q
              \/ /\ ngapEvt' = TellAllAsked(q)
                 /\ temp'.Index = Len(temp'.UnactivatedPDUSession)
  <2>1. Asks' = {} /\ Replies' = Replies BY Zenon, <1>4 DEF Asks, Replies
  <2>2. /\ Gets' = {} /\ One(Tells')
        /\ Tells' # {} => temp'.Index = Len(temp'.UnactivatedPDUSession)
    <3>1. [type |-> "SendPDUSessionResourceSetupResponse"] \in NgapEvt BY Zenon DEF NgapEvt
    <3>2. /\ At(TellAllAsked(q), "GetNGAPContext") = {}
          /\ One(At(TellAllAsked(q), "SendPDUSessionResourceSetupResponse"))
      BY <3>1, SentAt DEF TellAllAsked
    <3> QED BY Zenon, <1>4, <3>2 DEF Gets, Tells, One
  <2>3. OneSetup' BY Zenon, <1>2, <2>1, <2>2 DEF OneSetup, One
  <2>4. Exchange' BY Zenon, <1>1, <1>4, <2>1, <2>2 DEF Exchange, ExchangeAt
  <2>5. Pairing' BY Zenon, <1>2, <2>1, <2>2 DEF Pairing
  <2>6. AskedIsKnown' BY Zenon, <1>1, <2>2 DEF AskedIsKnown
  <2> QED BY Zenon, <2>3, <2>4, <2>5, <2>6
<1> QED BY Zenon, <1>3, <1>4 DEF NextOutcome

LEMMA Same == ASSUME NEW X PROVE Shrinks(X, X)
BY Zenon DEF Shrinks

LEMMA AskedKept ==
  ASSUME NEW S, NEW st, st # "asked", S \cap Asked = {}, amf'.status = Become(S, st)
  PROVE  Asked' = Asked
<1>1. \A s \in Session : amf'.status[s] = IF s \in S THEN st ELSE amf.status[s] BY Zenon DEF Become
<1> QED BY Zenon, <1>1 DEF Asked, StatusIs

\* Events of the NGAP loop.
LEMMA NgapSetup == ASSUME TypeOK, SetupInv, NgapEvents PROVE SetupInv'
<1>0. ngapEvt \in Seq(NgapEvt) /\ ikeEvt \in Seq(IkeEvt) BY Zenon DEF TypeOK
<1>1. ngapEvt # <<>> /\ ngapEvt' = Tail(ngapEvt)
  BY Zenon DEF NgapEvents, HandleGetNGAPContext, HandleSendNASMsg, NgapHead,
         HandleSendPDUSessionResourceSetupResponse, HandleSendPDUSessionResourceRelease
<1>2. Shrinks(Gets, Gets') /\ Shrinks(Tells, Tells') BY Zenon, <1>0, <1>1, TakenAt DEF Gets, Tells
<1>3. CASE HandleGetNGAPContext
  <2> USE DEF SetupInv
  <2>1. /\ Head(ngapEvt).type = "GetNGAPContext"
        /\ ikeEvt' = Append(ikeEvt, [type |-> "GetNGAPContextResponse"])
        /\ UNCHANGED <<temp, sa, half, childSA, amf, ue, toUe, toN3iwf, hist>>
    BY Zenon, <1>3 DEF HandleGetNGAPContext, NgapHead, ikeVars, envVars, netVars
  <2>2. Gets # {} /\ One(Gets) BY Zenon, <1>0, <1>1, <2>1, TakenAt DEF Gets, OneSetup
  <2>3. Gets' = {} BY Zenon, <1>0, <1>1, <2>1, <2>2, TakenAt DEF Gets
  <2>4. Creates = {} /\ Asks = {} /\ Children = {} /\ Gots = {} /\ Tells = {} /\ Asked # {}
    BY Zenon, <2>2 DEF OneSetup
  <2>5. Creates' = {} /\ One(Gots')
    <3>1. PICK e : e = [type |-> "GetNGAPContextResponse"] BY Zenon
    <3>2. e \in IkeEvt /\ e.type = "GetNGAPContextResponse" BY Zenon, <3>1 DEF IkeEvt
    <3>3. "CreatePDUSession" # e.type BY Zenon, <3>2
    <3>4. /\ At(Append(ikeEvt, e), "CreatePDUSession") = Creates
          /\ Gots = {} => One(At(Append(ikeEvt, e), "GetNGAPContextResponse"))
      BY ONLY Zenon, <1>0, <3>2, <3>3, SentAt DEF Creates, Gots
    <3> QED BY ONLY Zenon, <2>1, <2>4, <3>1, <3>4 DEF Creates, Gots
  <2>6. Tells' = {} BY Zenon, <1>2, <2>4 DEF Shrinks
  <2>7. /\ Asks' = Asks /\ Children' = Children /\ Replies' = Replies /\ Asked' = Asked
    BY Zenon, <2>1 DEF Asks, Children, Replies, Asked, StatusIs
  <2>8. OneSetup' BY Zenon, <2>3, <2>4, <2>5, <2>6, <2>7 DEF OneSetup, One
  <2>9. Exchange' BY Zenon, <2>1, <2>2, <2>7 DEF Exchange, ExchangeAt
  <2>10. Pairing' BY Zenon, <2>1, <2>2, <2>4, <2>7 DEF Pairing
  <2>11. AskedIsKnown' BY Zenon, <2>1, <2>6, <2>7 DEF AskedIsKnown
  <2>12. ChildSaPaired' BY Zenon, <2>1 DEF ChildSaPaired, SpiPaired
  <2> QED BY Zenon, <2>8, <2>9, <2>10, <2>11, <2>12
<1>4. CASE HandleSendNASMsg
  <2>1. /\ UNCHANGED <<temp, sa, half, childSA, amf, ue, toUe, toN3iwf, ikeEvt>>
        /\ \E f : hist' = WithFaults(hist, f)
    BY Zenon, <1>4 DEF HandleSendNASMsg, ikeVars, envVars, netVars
  <2>2. hist'.used = hist.used BY Zenon, <2>1 DEF WithFaults, TypeOK, History
  <2>3. Creates' = Creates /\ Gots' = Gots /\ Asked' = Asked
    BY Zenon, <2>1 DEF Creates, Gots, Asked, StatusIs
  <2>4. ue'.expect = ue.expect /\ toUe' \subseteq toUe /\ childSA' \subseteq childSA
        /\ toN3iwf' \ toN3iwf = {}
    BY Zenon, <2>1
  <2>5. UNCHANGED <<sa, half, temp>> BY Zenon, <2>1
  <2> QED BY Zenon, <1>2, <2>2, <2>3, <2>4, <2>5, Same, QuietStep
<1>5. CASE HandleSendPDUSessionResourceSetupResponse
  <2> USE DEF SetupInv
  <2>1. /\ Head(ngapEvt).type = "SendPDUSessionResourceSetupResponse"
        /\ UNCHANGED <<sa, half, childSA, ikeEvt, ue, toUe, toN3iwf, hist>>
    BY Zenon, <1>5 DEF HandleSendPDUSessionResourceSetupResponse, NgapHead, ikeVars, netVars
  <2>2. Tells # {} /\ One(Tells) BY Zenon, <1>0, <1>1, <2>1, TakenAt DEF Tells, OneSetup
  <2>3. Tells' = {} BY Zenon, <1>0, <1>1, <2>1, <2>2, TakenAt DEF Tells
  <2>4. Creates = {} /\ Asks = {} /\ Children = {} /\ Gots = {} /\ Gets = {} /\ Asked # {}
    BY Zenon, <2>2 DEF OneSetup
  <2>5. Gets' = {} BY Zenon, <1>2, <2>4 DEF Shrinks
  <2>6. /\ Creates' = Creates /\ Gots' = Gots /\ Asks' = Asks /\ Children' = Children
        /\ Replies' = Replies
    BY Zenon, <2>1 DEF Asks, Children, Replies, Creates, Gots
  <2>7. ~(Len(temp.FailedErrStr) < Len(temp.UnactivatedPDUSession))
    BY <2>2 DEF AskedIsKnown, TypeOK, Temp
  <2>8. PICK setup, failed :
          /\ setup = temp.SetupListSURes \cup Reported(TRUE)
          /\ failed = temp.FailedListSURes \cup Reported(FALSE)
    BY Zenon
  <2>9. /\ temp' = [temp EXCEPT !.SetupListSURes = setup, !.FailedListSURes = failed]
        /\ amf' = [amf EXCEPT !.status = [s \in Session |->
                      IF s \in setup THEN "up" ELSE IF s \in failed THEN "idle" ELSE @[s]]]
    BY Zenon, <1>5, <2>7, <2>8 DEF HandleSendPDUSessionResourceSetupResponse, FailedSessions
  <2>10. Asked' = {}
    <3>1. Listed(temp.UnactivatedPDUSession) \subseteq Reported(TRUE) \cup Reported(FALSE)
      BY Zenon DEF Listed, Reported
    <3>2. Asked \subseteq setup \cup failed BY Zenon, <2>4, <2>8, <3>1 DEF AskedIsKnown
    <3>3. \A s \in Session : amf'.status[s] =
            IF s \in setup THEN "up" ELSE IF s \in failed THEN "idle" ELSE amf.status[s]
      BY Zenon, <2>9 DEF TypeOK, Amf
    <3> QED BY Zenon, <3>2, <3>3 DEF Asked, StatusIs
  <2>11. /\ temp'.Index = temp.Index /\ temp'.UnactivatedPDUSession = temp.UnactivatedPDUSession
         /\ temp'.FailedErrStr = temp.FailedErrStr
    BY Zenon, <2>9 DEF TypeOK, Temp
  <2>12. OneSetup' BY Zenon, <2>3, <2>4, <2>5, <2>6 DEF OneSetup, One
  <2>13. Exchange' BY Zenon, <2>1, <2>4, <2>5, <2>6 DEF Exchange, ExchangeAt
  <2>14. Pairing' BY Zenon, <2>4, <2>5, <2>6 DEF Pairing
  <2>15. AskedIsKnown' BY Zenon, <2>3, <2>10, <2>11 DEF AskedIsKnown
  <2>16. ChildSaPaired' BY Zenon, <2>1 DEF ChildSaPaired, SpiPaired
  <2> QED BY Zenon, <2>12, <2>13, <2>14, <2>15, <2>16
<1>6. CASE HandleSendPDUSessionResourceRelease
  <2>1. UNCHANGED <<temp, sa, half, childSA, ue, toUe, toN3iwf, ikeEvt, hist>>
    BY Zenon, <1>6 DEF HandleSendPDUSessionResourceRelease, ikeVars, netVars
  <2>2. \/ UNCHANGED amf
        \/ amf'.status = Become(ranUe.PduSessionReleaseList \cap StatusIs("releasing"), "idle")
    BY Zenon, <1>6 DEF HandleSendPDUSessionResourceRelease, TypeOK, Amf
  <2>3. StatusIs("releasing") \cap Asked = {} BY Zenon DEF StatusIs, Asked
  <2>4. Asked' = Asked
    <3>1. CASE UNCHANGED amf BY Zenon, <3>1 DEF Asked, StatusIs
    <3>2. CASE ~UNCHANGED amf BY Zenon, <2>2, <2>3, <3>2, AskedKept
    <3> QED BY Zenon, <3>1, <3>2
  <2>5. Creates' = Creates /\ Gots' = Gots BY Zenon, <2>1 DEF Creates, Gots
  <2>6. /\ ue'.expect = ue.expect /\ toUe' \subseteq toUe /\ childSA' \subseteq childSA
        /\ toN3iwf' \ toN3iwf = {} /\ hist'.used = hist.used /\ UNCHANGED <<sa, half, temp>>
    BY Zenon, <2>1
  <2> QED BY Zenon, <1>2, <2>4, <2>5, <2>6, Same, QuietStep
<1> QED BY Zenon, <1>3, <1>4, <1>5, <1>6 DEF NgapEvents

\* The AMF sends a request: a setup request only when the previous one is answered.
LEMMA AmfSetup ==
  ASSUME TypeOK, SetupInv, Overlap # "all", AmfSetupRequest \/ AmfReleaseCommand
  PROVE  SetupInv'
<1>0. ngapEvt \in Seq(NgapEvt) /\ ikeEvt \in Seq(IkeEvt) BY Zenon DEF TypeOK
<1>1. CASE AmfSetupRequest
  <2> USE DEF SetupInv
  <2>1. UNCHANGED <<sa, half, childSA, ngapEvt, ue, toUe, toN3iwf, hist>> /\ Asked = {}
    BY Zenon, <1>1 DEF AmfSetupRequest, MayOverlap, Asked, ikeVars, netVars
  <2>2. PICK S, items, ok :
          /\ S \in (SUBSET StatusIs("idle")) \ {{}} /\ items \in Orders(S) /\ ok \in SUBSET S
          /\ amf' = [status |-> Become(S, "asked"), sent |-> amf.sent + 1]
          /\ HandlePDUSessionResourceSetupRequest(items, ok)
    BY Zenon, <1>1 DEF AmfSetupRequest
  <2>3. PICK accepted : accepted = ok \ ranUe.PduSessionList BY Zenon
  <2>4. PICK new \in Orders(accepted) :
          /\ temp' = RequestData(new, Listed(items) \ accepted)
          /\ \/ UNCHANGED ikeEvt
             \/ ikeEvt' = Append(ikeEvt, [type |-> "CreatePDUSession",
                            len |-> Cardinality(ranUe.PduSessionList \cup accepted)])
    BY Zenon, <2>2, <2>3 DEF HandlePDUSessionResourceSetupRequest
  <2>5. Listed(items) = S /\ Listed(new) = accepted /\ accepted \subseteq S
    <3>1. S \in SUBSET Session /\ accepted \in SUBSET Session /\ accepted \subseteq S
      BY Zenon, <2>2, <2>3 DEF StatusIs
    <3> QED BY Zenon, <2>2, <2>4, <3>1, OrdersType
  <2>6. /\ Creates = {} /\ Asks = {} /\ Children = {} /\ Gets = {} /\ Gots = {} /\ Tells = {}
    BY Zenon, <2>1 DEF OneSetup
  <2>7. /\ Asks' = {} /\ Children' = {} /\ Gets' = {} /\ Tells' = {} /\ Replies' = Replies
    BY Zenon, <2>1, <2>6 DEF Asks, Children, Gets, Tells, Replies
  <2>8. Gots' = {} /\ One(Creates')
    <3>1. CASE UNCHANGED ikeEvt BY Zenon, <2>6, <3>1 DEF Gots, Creates, One
    <3>2. CASE ~UNCHANGED ikeEvt
      <4>1. PICK e : e = [type |-> "CreatePDUSession",
                          len |-> Cardinality(ranUe.PduSessionList \cup accepted)]
        BY Zenon
      <4>2. ranUe.PduSessionList \cup accepted \in SUBSET Session
        BY Zenon, <2>2, <2>5 DEF TypeOK, RanUe, StatusIs
      <4>3. e \in IkeEvt /\ e.type = "CreatePDUSession" BY Zenon, <4>1, <4>2 DEF IkeEvt, ListLen
      <4>4. ikeEvt' = Append(ikeEvt, e) BY Zenon, <2>4, <3>2, <4>1
      <4>5. "GetNGAPContextResponse" # e.type BY Zenon, <4>3
      <4>6. /\ At(Append(ikeEvt, e), "GetNGAPContextResponse") = Gots
            /\ Creates = {} => One(At(Append(ikeEvt, e), "CreatePDUSession"))
        BY ONLY Zenon, <1>0, <4>3, <4>5, SentAt DEF Creates, Gots
      <4> QED BY ONLY Zenon, <2>6, <4>4, <4>6 DEF Creates, Gots
    <3> QED BY Zenon, <3>1, <3>2
  <2>9. Asked' = S
    <3>1. \A s \in Session : amf'.status[s] = IF s \in S THEN "asked" ELSE amf.status[s]
      BY Zenon, <2>2 DEF Become
    <3>2. S \subseteq Session BY Zenon, <2>2 DEF StatusIs
    <3> QED BY Zenon, <2>1, <3>1, <3>2 DEF Asked, StatusIs
  <2>10. S # {} BY Zenon, <2>2
  <2>11. OneSetup' BY Zenon, <2>7, <2>8, <2>9, <2>10 DEF OneSetup, One
  <2>12. Exchange' BY Zenon, <2>1, <2>7, <2>8 DEF Exchange, ExchangeAt
  <2>13. Pairing' BY Zenon, <2>7, <2>8 DEF Pairing
  <2>14. AskedIsKnown'
    <3>1. /\ temp'.SetupListSURes = {} /\ temp'.FailedListSURes = Listed(items) \ accepted
          /\ temp'.UnactivatedPDUSession = new /\ temp'.Index = 0
          /\ temp'.FailedErrStr = temp.FailedErrStr /\ Len(temp.FailedErrStr) \in Nat
      BY <2>4 DEF RequestData, TypeOK, Temp
    <3>2. Len(new) \in Nat
      <4>1. accepted \in SUBSET Session BY Zenon, <2>2, <2>5 DEF StatusIs
      <4>2. new \in Seq(Session) BY Zenon, <2>4, <4>1, OrdersType
      <4> QED BY ONLY <4>2
    <3>3. 0 <= Len(new) /\ 0 <= Len(temp.FailedErrStr) BY <3>1, <3>2
    <3>4. Asked' = Listed(new) \cup (Listed(items) \ accepted) BY Zenon, <2>5, <2>9
    <3> QED BY Zenon, <2>7, <3>1, <3>3, <3>4 DEF AskedIsKnown
  <2>15. ChildSaPaired' BY Zenon, <2>1 DEF ChildSaPaired, SpiPaired
  <2> QED BY Zenon, <2>11, <2>12, <2>13, <2>14, <2>15
<1>2. CASE AmfReleaseCommand
  <2>1. UNCHANGED <<temp, sa, half, childSA, ngapEvt, ue, toUe, toN3iwf, hist>>
    BY Zenon, <1>2 DEF AmfReleaseCommand, ikeVars, netVars
  <2>2. PICK S \in SUBSET StatusIs("up") :
          /\ amf' = [status |-> Become(S, "releasing"), sent |-> amf.sent + 1]
          /\ ikeEvt' = Append(ikeEvt, [type |-> "SendChildSADeleteRequest", ids |-> S])
    BY Zenon, <1>2 DEF AmfReleaseCommand, HandlePDUSessionResourceReleaseCommand
  <2>3. S \cap Asked = {} /\ S \subseteq Session BY Zenon, <2>2 DEF Asked, StatusIs
  <2>4. amf'.status = Become(S, "releasing") BY Zenon, <2>2
  <2>5. Asked' = Asked BY Zenon, <2>3, <2>4, AskedKept
  <2>6. Creates' = Creates /\ Gots' = Gots
    <3>1. PICK e : e = [type |-> "SendChildSADeleteRequest", ids |-> S] BY Zenon
    <3>2. e \in IkeEvt /\ e.type = "SendChildSADeleteRequest" BY Zenon, <2>3, <3>1 DEF IkeEvt
    <3>3. "CreatePDUSession" # e.type /\ "GetNGAPContextResponse" # e.type BY Zenon, <3>2
    <3> QED BY Zenon, <1>0, <2>2, <3>1, <3>2, <3>3, SentAt DEF Creates, Gots
  <2>7. Gets' = Gets /\ Tells' = Tells BY Zenon, <2>1 DEF Gets, Tells
  <2>8. /\ ue'.expect = ue.expect /\ toUe' \subseteq toUe /\ childSA' \subseteq childSA
        /\ toN3iwf' \ toN3iwf = {} /\ hist'.used = hist.used /\ UNCHANGED <<sa, half, temp>>
    BY Zenon, <2>1
  <2> QED BY Zenon, <2>5, <2>6, <2>7, <2>8, Same, QuietStep
<1> QED BY Zenon, <1>1, <1>2

\* Events of the IKE loop.
LEMMA CreateSetup ==
  ASSUME TypeOK, SetupInv, ~Crossed', HandleCreatePDUSession PROVE SetupInv'
<1> USE DEF SetupInv
<1>0. /\ sa \in Sa /\ temp \in Temp /\ half \in [MsgId -> HalfSA \cup {None}]
      /\ ikeEvt \in Seq(IkeEvt) /\ ngapEvt \in Seq(NgapEvt)
  BY Zenon DEF TypeOK
<1>1. PICK i : i = [sa EXCEPT !.PduSessionListLen = Head(ikeEvt).len] BY Zenon
<1>2. /\ ikeEvt # <<>> /\ ikeEvt' = Tail(ikeEvt) /\ Head(ikeEvt).type = "CreatePDUSession"
      /\ NextChildSA(i, temp, half, ngapEvt)
      /\ UNCHANGED <<childSA, amf, ue, toN3iwf>>
  BY Zenon, <1>1 DEF HandleCreatePDUSession, IkeHead, envVars
<1>3. Head(ikeEvt) \in IkeEvt BY Zenon, <1>0, <1>2, Taken
<1>4. Head(ikeEvt).len \in ListLen BY ONLY Zenon, <1>2, <1>3 DEF IkeEvt
<1>5. i \in Sa /\ i.ResponderMessageID = sa.ResponderMessageID BY Zenon, <1>0, <1>1, <1>4 DEF Sa
<1>6. NextOutcome(i, temp, ngapEvt) BY Zenon, <1>0, <1>2, <1>5, NextChildSAOutcome
<1>7. PICK r \in Nat : r = sa.ResponderMessageID BY <1>0, MaxIsNat DEF Sa, MsgId
<1>8. Creates # {} /\ One(Creates) BY Zenon, <1>0, <1>2, TakenAt DEF Creates, OneSetup
<1>9. Creates' = {} BY Zenon, <1>0, <1>2, <1>8, TakenAt DEF Creates
<1>10. Asks = {} /\ Children = {} /\ Gets = {} /\ Gots = {} /\ Tells = {} /\ Asked # {}
  BY Zenon, <1>8 DEF OneSetup
<1>11. Gots' = {} BY Zenon, <1>0, <1>2, <1>10, TakenAt DEF Gots, Shrinks
<1>12. Asked' = Asked BY Zenon, <1>2 DEF Asked, StatusIs
<1>13. ChildSaPaired' BY Zenon, <1>2 DEF ChildSaPaired, SpiPaired
<1>14. ExchangeAt(r) /\ i.ResponderMessageID = r BY Zenon, <1>5, <1>7 DEF Exchange
<1>15. /\ temp.Index <= Len(temp.UnactivatedPDUSession)
       /\ temp.Index <= Len(temp.FailedErrStr)
  BY Zenon DEF AskedIsKnown
<1>16. At(ngapEvt, "GetNGAPContext") = {} /\ At(ngapEvt, "SendPDUSessionResourceSetupResponse") = {}
  BY Zenon, <1>10 DEF Gets, Tells
<1>17. UNCHANGED <<ue, toN3iwf>> BY Zenon, <1>2
<1> QED BY Zenon, <1>0, <1>6, <1>9, <1>10, <1>11, <1>12, <1>13, <1>14, <1>15, <1>16, <1>17, ChildStep

\* The child SA that a response completes has the SPIs and the nonces of one exchange.
LEMMA CompletePaired ==
  ASSUME Pairing, ChildSaPaired, Gots # {}, NEW f, NEW ru,
         childSA' = CompleteChildSA(sa.ResponderMessageID, f, ru)
  PROVE  ChildSaPaired'
<1>1. PICK x : x = half[sa.ResponderMessageID].InboundSPI BY Zenon
<1>2. sa.TemporaryIkeMsg = x /\ sa.ConcatenatedNonce = <<Own(x), Peer(x)>>
  BY Zenon, <1>1 DEF Pairing
<1>3. ASSUME NEW c \in childSA'
      PROVE  c.OutboundSPI = c.InboundSPI /\ c.key = <<Own(c.InboundSPI), Peer(c.InboundSPI)>>
  <2>1. CASE c \in childSA BY Zenon, <2>1 DEF ChildSaPaired, SpiPaired
  <2>2. CASE c \notin childSA
    <3>1. PICK s, k : s = half[sa.ResponderMessageID].session /\ k = <<Own(x), Peer(x)>> BY Zenon
    <3>2. c = [InboundSPI |-> x, OutboundSPI |-> x, session |-> s, key |-> k,
               XfrmIface |-> f, rules |-> ru]
      BY Zenon, <1>1, <1>2, <1>3, <2>2, <3>1 DEF CompleteChildSA
    <3>3. c.OutboundSPI = x /\ c.InboundSPI = x /\ c.key = k BY ONLY Zenon, <3>2
    <3> QED BY Zenon, <3>1, <3>3
  <2> QED BY Zenon, <2>1, <2>2
<1> QED BY Zenon, <1>3 DEF ChildSaPaired, SpiPaired

LEMMA ContinueSetup ==
  ASSUME TypeOK, SetupInv, ~Crossed', NEW o, continueCreateChildSA(o) PROVE SetupInv'
<1> USE DEF SetupInv
<1>0. /\ sa \in Sa /\ temp \in Temp /\ half \in [MsgId -> HalfSA \cup {None}]
      /\ ikeEvt \in Seq(IkeEvt) /\ ngapEvt \in Seq(NgapEvt) /\ hist \in History
  BY Zenon DEF TypeOK
<1>1. PICK m \in MsgId : m = sa.ResponderMessageID BY Zenon, <1>0 DEF Sa
<1>2. /\ ikeEvt # <<>> /\ ikeEvt' = Tail(ikeEvt) /\ Head(ikeEvt).type = "GetNGAPContextResponse"
      /\ UNCHANGED <<amf, ue, toN3iwf>>
  BY Zenon DEF continueCreateChildSA, IkeHead, envVars
<1>3. Gots # {} /\ One(Gots) BY Zenon, <1>0, <1>2, TakenAt DEF Gots, OneSetup
<1>4. Gots' = {} BY Zenon, <1>0, <1>2, <1>3, TakenAt DEF Gots
<1>5. Creates = {} /\ Asks = {} /\ Children = {} /\ Gets = {} /\ Tells = {} /\ Asked # {}
  BY Zenon, <1>3 DEF OneSetup
<1>6. Creates' = {} BY Zenon, <1>0, <1>2, <1>5, TakenAt DEF Creates, Shrinks
<1>7. Asked' = Asked BY Zenon, <1>2 DEF Asked, StatusIs
<1>8. Replies = {} /\ ue.expect = m + 1 /\ ExchangeAt(m) BY Zenon, <1>1, <1>3 DEF Exchange
<1>9. m \in Nat /\ m # m + 1 /\ m + 1 \in Nat BY MaxIsNat DEF MsgId
<1>10. toUe = {} BY Zenon, <1>8, <1>9 DEF ExchangeAt
<1>11. ChildSaPaired'
  <2>1. childSA' = childSA \/ \E f, ru : childSA' = CompleteChildSA(m, f, ru)
    BY Zenon, <1>1 DEF continueCreateChildSA
  <2>2. CASE childSA' = childSA BY Zenon, <2>2 DEF ChildSaPaired, SpiPaired
  <2> QED BY Zenon, <1>1, <1>3, <2>1, <2>2, CompletePaired
<1>12. CASE UNCHANGED <<temp, sa, ngapEvt, toUe>> /\ \E K : hist' = WithFaults(hist, K)
  <2>1. hist'.used = hist.used BY Zenon, <1>0, <1>12 DEF WithFaults, History
  <2>2. Gets' = {} /\ Tells' = {} /\ Asks' = {} /\ Children' = {} /\ Replies' = {}
    BY Zenon, <1>2, <1>5, <1>8, <1>12 DEF Gets, Tells, Asks, Children, Replies
  <2>3. OneSetup' BY Zenon, <1>4, <1>5, <1>6, <1>7, <2>2 DEF OneSetup, One
  <2>4. Exchange' BY Zenon, <1>2, <1>4, <1>8, <1>12, <2>1, <2>2 DEF Exchange, ExchangeAt
  <2>5. Pairing' BY Zenon, <1>4, <2>2 DEF Pairing
  <2>6. AskedIsKnown' BY Zenon, <1>7, <1>12, <2>2 DEF AskedIsKnown
  <2> QED BY Zenon, <1>11, <2>3, <2>4, <2>5, <2>6
<1>13. CASE /\ m < MaxMsgId
            /\ NextChildSA([sa EXCEPT !.ResponderMessageID = m + 1],
                           [temp EXCEPT !.FailedErrStr = Append(@, "ErrNil")],
                           [half EXCEPT ![m] = None],
                           Append(ngapEvt, [type |-> "SendNASMsg"]))
  <2>1. PICK i, t, hf, e, q :
          /\ i = [sa EXCEPT !.ResponderMessageID = m + 1]
          /\ t = [temp EXCEPT !.FailedErrStr = Append(@, "ErrNil")]
          /\ hf = [half EXCEPT ![m] = None]
          /\ e = [type |-> "SendNASMsg"] /\ q = Append(ngapEvt, e)
    BY Zenon
  <2>2. NextChildSA(i, t, hf, q) BY ONLY Zenon, <1>13, <2>1
  <2>3. m + 1 \in MsgId BY ONLY <1>9, <1>13, MaxIsNat DEF MsgId
  <2>4. i \in Sa /\ i.ResponderMessageID = m + 1 BY ONLY Zenon, <1>0, <2>1, <2>3 DEF Sa
  <2>5. hf \in [MsgId -> HalfSA \cup {None}] BY ONLY Zenon, <1>0, <2>1
  <2>6. /\ t \in Temp /\ t.Index = temp.Index /\ t.SetupListSURes = temp.SetupListSURes
        /\ t.UnactivatedPDUSession = temp.UnactivatedPDUSession
        /\ t.FailedListSURes = temp.FailedListSURes
        /\ Len(t.FailedErrStr) = Len(temp.FailedErrStr) + 1
    <3>1. "ErrNil" \in Error /\ temp.FailedErrStr \in Seq(Error) BY Zenon, <1>0 DEF Error, Temp
    <3>2. PICK s : s = Append(temp.FailedErrStr, "ErrNil") BY Zenon
    <3>3. s \in Seq(Error) /\ Len(s) = Len(temp.FailedErrStr) + 1 BY ONLY <3>1, <3>2
    <3>4. t = [temp EXCEPT !.FailedErrStr = s] BY ONLY Zenon, <2>1, <3>2
    <3> QED BY ONLY Zenon, <1>0, <3>3, <3>4 DEF Temp
  <2>7. e \in NgapEvt /\ e.type = "SendNASMsg" BY Zenon, <2>1 DEF NgapEvt
  <2>8. q \in Seq(NgapEvt) BY <1>0, <2>1, <2>7
  <2>9. NextOutcome(i, t, q) BY Zenon, <2>2, <2>4, <2>5, <2>6, <2>8, NextChildSAOutcome
  <2>10. At(q, "GetNGAPContext") = {} /\ At(q, "SendPDUSessionResourceSetupResponse") = {}
    <3>1. "GetNGAPContext" # e.type /\ "SendPDUSessionResourceSetupResponse" # e.type BY Zenon, <2>7
    <3>2. /\ At(Append(ngapEvt, e), "GetNGAPContext") = Gets
          /\ At(Append(ngapEvt, e), "SendPDUSessionResourceSetupResponse") = Tells
      BY ONLY Zenon, <1>0, <2>7, <3>1, SentAt DEF Gets, Tells
    <3> QED BY ONLY Zenon, <1>5, <2>1, <3>2
  <2>11. ExchangeAt(m + 1)
    <3>1. \A n \in hist.used : n <= m + 1 BY <1>8, <1>9, <1>0, MaxIsNat DEF ExchangeAt, History, MsgId
    <3> QED BY Zenon, <1>8, <1>10, <3>1 DEF ExchangeAt, One
  <2>12. t.Index <= Len(t.UnactivatedPDUSession) /\ t.Index <= Len(t.FailedErrStr)
    BY <1>0, <2>6 DEF AskedIsKnown, Temp
  <2>13. UNCHANGED <<ue, toN3iwf>> BY Zenon, <1>2
  <2> QED BY Zenon, <1>4, <1>5, <1>6, <1>7, <1>9, <1>11, <2>4, <2>6, <2>8, <2>9, <2>10, <2>11,
             <2>12, <2>13, ChildStep
<1> QED BY Zenon, <1>1, <1>12, <1>13 DEF continueCreateChildSA

LEMMA DeleteSetup ==
  ASSUME TypeOK, SetupInv, ~Crossed', HandleSendChildSADeleteRequest PROVE SetupInv'
<1>0. /\ sa \in Sa /\ ikeEvt \in Seq(IkeEvt) /\ hist \in History BY Zenon DEF TypeOK
<1>1. /\ ikeEvt # <<>> /\ ikeEvt' = Tail(ikeEvt)
      /\ UNCHANGED <<temp, sa, half, ngapEvt, amf, ue, toN3iwf>>
  BY Zenon DEF HandleSendChildSADeleteRequest, IkeHead, envVars
<1>2. Shrinks(Creates, Creates') /\ Shrinks(Gots, Gots') BY Zenon, <1>0, <1>1, TakenAt DEF Creates, Gots
<1>3. Gets' = Gets /\ Tells' = Tells /\ Asked' = Asked BY Zenon, <1>1 DEF Gets, Tells, Asked, StatusIs
<1>4. childSA' \subseteq childSA
  <2>1. \E V : childSA' = childSA \ V BY Zenon DEF HandleSendChildSADeleteRequest
  <2> QED BY Zenon, <2>1
<1>5. CASE toUe' = toUe /\ (hist' = hist \/ \E K : hist' = WithFaults(hist, K))
  <2>1. hist'.used = hist.used BY Zenon, <1>0, <1>5 DEF WithFaults, History
  <2>2. toN3iwf' \ toN3iwf = {} /\ ue'.expect = ue.expect /\ toUe' \subseteq toUe
        /\ UNCHANGED <<sa, half, temp>>
    BY Zenon, <1>1, <1>5
  <2> QED BY Zenon, <1>2, <1>3, <1>4, <2>1, <2>2, Same, QuietStep
<1>6. CASE \E X : /\ toUe' = toUe \cup {[mid |-> sa.ResponderMessageID, kind |-> "delete", xids |-> X]}
                  /\ hist' = Sending(hist, sa.ResponderMessageID)
  <2>1. PICK X : toUe' = toUe \cup {[mid |-> sa.ResponderMessageID, kind |-> "delete", xids |-> X]}
    BY Zenon, <1>6
  <2>2. PICK m : m = [mid |-> sa.ResponderMessageID, kind |-> "delete", xids |-> X] BY Zenon
  <2>3. m.mid = sa.ResponderMessageID /\ m.kind # "child" /\ toUe' = toUe \cup {m} BY Zenon, <2>1, <2>2
  <2>4. /\ hist'.used = hist.used \cup {sa.ResponderMessageID}
        /\ sa.ResponderMessageID \notin hist.used
    BY Zenon, <1>0, <1>6 DEF Sending, History, Crossed
  <2>5. UNCHANGED <<sa, half, temp, ue, toN3iwf>> BY Zenon, <1>1
  <2> QED BY Zenon, <1>2, <1>3, <1>4, <2>3, <2>4, <2>5, Same, SendStep
<1> QED BY Zenon, <1>5, <1>6 DEF HandleSendChildSADeleteRequest

LEMMA TwoNonces == ASSUME NEW o, NEW p PROVE Append(<<o>>, p) = <<o, p>>
<1>1. <<o>> \in Seq({o, p}) /\ Len(<<o>>) = 1 /\ <<o>>[1] = o OBVIOUS
<1>2. PICK s : s = Append(<<o>>, p) BY Zenon
<1>3. s \in Seq({o, p}) /\ Len(s) = 2 /\ s[1] = o /\ s[2] = p BY <1>1, <1>2
<1>4. DOMAIN s = 1..2 /\ s = [n \in 1..2 |-> s[n]] BY <1>3
<1>5. s = <<o, p>> BY <1>3, <1>4
<1> QED BY Zenon, <1>2, <1>5

\* A packet that is received is gone unless it is duplicated.
LEMMA ReceivedOnce ==
  ASSUME hist \in History, ~Crossed', NEW a, Receive(a)
  PROVE  toN3iwf' = toN3iwf \ {a} /\ hist'.used = hist.used
<1>1. PICK f \in FaultOf("dup") : /\ toN3iwf' = IF f = {} THEN toN3iwf \ {a} ELSE toN3iwf
                                  /\ hist' = WithFaults(hist, f)
  BY Zenon DEF Receive
<1>2. hist'.faults = hist.faults \cup f /\ hist'.used = hist.used BY Zenon, <1>1 DEF WithFaults, History
<1>3. f = {} \/ f = {"dup"} BY Zenon DEF FaultOf
<1> QED BY Zenon, <1>1, <1>2, <1>3 DEF Crossed

LEMMA ReleaseAt ==
  ASSUME NEW q \in Seq(NgapEvt), NEW S \in SUBSET Session
  PROVE  /\ At(Append(q, ReleaseEvt(S)), "GetNGAPContext") = At(q, "GetNGAPContext")
         /\ At(Append(q, ReleaseEvt(S)), "SendPDUSessionResourceSetupResponse")
              = At(q, "SendPDUSessionResourceSetupResponse")
<1>1. PICK e : e = ReleaseEvt(S) BY Zenon
<1>2. e \in NgapEvt /\ e.type = "SendPDUSessionResourceRelease" BY Zenon, <1>1 DEF NgapEvt, ReleaseEvt
<1>3. "GetNGAPContext" # e.type /\ "SendPDUSessionResourceSetupResponse" # e.type BY Zenon, <1>2
<1>4. /\ At(Append(q, e), "GetNGAPContext") = At(q, "GetNGAPContext")
      /\ At(Append(q, e), "SendPDUSessionResourceSetupResponse")
           = At(q, "SendPDUSessionResourceSetupResponse")
  BY Zenon, <1>2, <1>3, SentAt
<1> QED BY Zenon, <1>1, <1>4

\* Packets of the UE.
LEMMA PacketSetup ==
  ASSUME TypeOK, SetupInv, ~Crossed', NEW a \in toN3iwf,
         DropPacket(a) \/ HandleCREATECHILDSA(a) \/ HandleInformational(a) \/ handleDeletePayload(a)
  PROVE  SetupInv'
<1>0. /\ sa \in Sa /\ ikeEvt \in Seq(IkeEvt) /\ ngapEvt \in Seq(NgapEvt) /\ hist \in History
      /\ childSA \subseteq ChildSA
  BY Zenon DEF TypeOK
<1>1. UNCHANGED <<temp, half, ikeEvt, amf, ue, toUe>>
  BY Zenon DEF DropPacket, HandleCREATECHILDSA, HandleInformational, handleDeletePayload, ikeVars, envVars
<1>2. Creates' = Creates /\ Gots' = Gots /\ Asked' = Asked /\ Asks' = Asks
  BY Zenon, <1>1 DEF Creates, Gots, Asked, StatusIs, Asks
<1>3. ASSUME UNCHANGED <<sa, ngapEvt>>, childSA' = childSA, hist'.used = hist.used, toN3iwf' = toN3iwf \ {a}
      PROVE  SetupInv'
  <2>1. Gets' = Gets /\ Tells' = Tells BY Zenon, <1>3 DEF Gets, Tells
  <2>2. toN3iwf' \ toN3iwf = {} /\ ue'.expect = ue.expect /\ toUe' \subseteq toUe
        /\ UNCHANGED <<sa, half, temp>> /\ childSA' \subseteq childSA
    BY Zenon, <1>1, <1>3
  <2> QED BY Zenon, <1>2, <1>3, <2>1, <2>2, Same, QuietStep
<1>4. CASE DropPacket(a)
  <2>1. UNCHANGED <<sa, ngapEvt>> /\ childSA' = childSA /\ hist'.used = hist.used /\ toN3iwf' = toN3iwf \ {a}
    BY Zenon, <1>4 DEF DropPacket, ikeVars
  <2> QED BY Zenon, <1>3, <2>1
<1>5. CASE HandleCREATECHILDSA(a)
  <2> USE DEF SetupInv
  <2>1. /\ a.kind \in {"child", "refused"} /\ Receive(a) /\ childSA' = childSA
        /\ IF a.kind = "refused" THEN UNCHANGED <<sa, ngapEvt>>
           ELSE sa' = StoreResponse(a) /\ ngapEvt' = ngapEvt \o ResponseEvents
    BY Zenon, <1>5 DEF HandleCREATECHILDSA
  <2>2. toN3iwf' = toN3iwf \ {a} /\ hist'.used = hist.used BY Zenon, <1>0, <2>1, ReceivedOnce
  <2>3. CASE a.kind = "refused" BY Zenon, <1>3, <2>1, <2>2, <2>3
  <2>4. CASE a.kind = "child"
    <3>1. a \in Children /\ a \in Replies BY Zenon, <2>4 DEF Children, Replies
    <3>2. Creates = {} /\ Asks = {} /\ Gets = {} /\ Gots = {} /\ Tells = {} /\ Asked # {}
      BY Zenon, <3>1 DEF OneSetup
    <3>3. PICK r \in Nat : r = sa.ResponderMessageID BY <1>0, MaxIsNat DEF Sa, MsgId
    <3>4. PICK x : x = half[r].InboundSPI BY Zenon
    <3>5. a.xid = x /\ sa.ConcatenatedNonce = <<Own(x)>> BY Zenon, <3>1, <3>3, <3>4 DEF Pairing
    <3>6. ExchangeAt(r) /\ ue.expect = r + 1 BY Zenon, <3>1, <3>3 DEF Exchange, ExchangeAt
    <3>7. Replies' = {} /\ Children' = {}
      <4>1. \A b \in Replies : b = a BY Zenon, <3>1, <3>6 DEF ExchangeAt, One
      <4>2. \A b \in toN3iwf' : b \in toN3iwf /\ b # a BY Zenon, <2>2
      <4>3. Replies' = {} BY Zenon, <4>1, <4>2 DEF Replies
      <4>4. \A b \in Children' : b \in Replies' BY Zenon DEF Children, Replies
      <4> QED BY Zenon, <4>3, <4>4
    <3>8. sa' = [sa EXCEPT !.ConcatenatedNonce = Append(@, Peer(x)), !.TemporaryIkeMsg = x]
      BY Zenon, <2>1, <2>4, <3>5 DEF StoreResponse
    <3>9. /\ sa'.TemporaryIkeMsg = x /\ sa'.ResponderMessageID = r
          /\ sa'.ConcatenatedNonce = Append(sa.ConcatenatedNonce, Peer(x))
      BY ONLY Zenon, <1>0, <3>3, <3>8 DEF Sa
    <3>10. sa'.ConcatenatedNonce = <<Own(x), Peer(x)>>
      BY Zenon, <3>5, <3>9, TwoNonces
    <3>11. One(Gets') /\ Tells' = {}
      <4>1. PICK e : e = [type |-> "GetNGAPContext"] BY Zenon
      <4>2. e \in NgapEvt /\ e.type = "GetNGAPContext" BY Zenon, <4>1 DEF NgapEvt
      <4>3. ngapEvt' = Append(ngapEvt, e) BY <1>0, <2>1, <2>4, <4>1 DEF ResponseEvents
      <4>4. "SendPDUSessionResourceSetupResponse" # e.type BY Zenon, <4>2
      <4>5. /\ At(Append(ngapEvt, e), "SendPDUSessionResourceSetupResponse") = Tells
            /\ Gets = {} => One(At(Append(ngapEvt, e), "GetNGAPContext"))
        BY ONLY Zenon, <1>0, <4>2, <4>4, SentAt DEF Gets, Tells
      <4> QED BY ONLY Zenon, <3>2, <4>3, <4>5 DEF Gets, Tells
    <3>12. OneSetup' BY Zenon, <1>2, <3>2, <3>7, <3>11 DEF OneSetup, One
    <3>13. Exchange' BY Zenon, <1>1, <2>2, <3>6, <3>7, <3>9 DEF Exchange, ExchangeAt, One
    <3>14. Pairing' BY Zenon, <1>1, <1>2, <3>2, <3>4, <3>7, <3>9, <3>10 DEF Pairing
    <3>15. AskedIsKnown' BY Zenon, <1>1, <1>2, <3>11 DEF AskedIsKnown
    <3>16. ChildSaPaired' BY Zenon, <2>1 DEF ChildSaPaired, SpiPaired
    <3> QED BY Zenon, <3>12, <3>13, <3>14, <3>15, <3>16
  <2> QED BY Zenon, <2>1, <2>3, <2>4
<1>6. CASE HandleInformational(a)
  <2> USE DEF SetupInv
  <2>1. /\ a.kind \in {"empty", "deleted"} /\ Receive(a) /\ childSA' = childSA
        /\ sa' = [sa EXCEPT !.ResponderMessageID = @ + 1]
        /\ ngapEvt' = ngapEvt \/ ngapEvt' = Append(ngapEvt, ReleaseEvt({}))
    BY Zenon, <1>6 DEF HandleInformational, DeleteAnswered
  <2>2. toN3iwf' = toN3iwf \ {a} /\ hist'.used = hist.used BY Zenon, <1>0, <2>1, ReceivedOnce
  <2>3. PICK r \in Nat : r = sa.ResponderMessageID BY <1>0, MaxIsNat DEF Sa, MsgId
  <2>4. a \in Replies BY Zenon, <2>1 DEF Replies
  <2>5. ExchangeAt(r) /\ ue.expect = r + 1 /\ Gets = {} /\ Gots = {}
    BY Zenon, <2>3, <2>4 DEF Exchange, ExchangeAt
  <2>6. r # r + 1 /\ r + 1 \in Nat /\ sa'.ResponderMessageID = r + 1
    BY <1>0, <2>1, <2>3 DEF Sa
  <2>7. toUe = {} BY Zenon, <2>5, <2>6 DEF ExchangeAt
  <2>8. Replies' = {} /\ Children' = {}
    <3>1. \A b \in Replies : b = a BY Zenon, <2>4, <2>5 DEF ExchangeAt, One
    <3>2. \A b \in toN3iwf' : b \in toN3iwf /\ b # a BY <2>2
    <3>3. Replies' = {} BY Zenon, <3>1, <3>2 DEF Replies
    <3>4. \A b \in Children' : b \in Replies' BY DEF Children, Replies
    <3> QED BY <3>3, <3>4
  <2>9. Gets' = Gets /\ Tells' = Tells
    <3>1. {} \in SUBSET Session BY Zenon
    <3> QED BY Zenon, <1>0, <2>1, <3>1, ReleaseAt DEF Gets, Tells
  <2>10. OneSetup' BY Zenon, <1>2, <2>5, <2>8, <2>9 DEF OneSetup
  <2>11. Exchange'
    <3>1. \A n \in hist'.used : n <= r + 1
      BY <1>0, <2>2, <2>3, <2>5, MaxIsNat DEF ExchangeAt, History, MsgId
    <3> QED BY Zenon, <1>1, <1>2, <2>5, <2>6, <2>7, <2>8, <2>9, <3>1 DEF Exchange, ExchangeAt, One
  <2>12. Asks' = {} BY Zenon, <1>1, <2>7 DEF Asks
  <2>13. Pairing' BY Zenon, <1>2, <2>5, <2>8, <2>9, <2>12 DEF Pairing
  <2>14. AskedIsKnown' BY Zenon, <1>1, <1>2, <2>9 DEF AskedIsKnown
  <2>15. ChildSaPaired' BY Zenon, <2>1 DEF ChildSaPaired, SpiPaired
  <2> QED BY Zenon, <2>10, <2>11, <2>13, <2>14, <2>15
<1>7. CASE handleDeletePayload(a)
  <2>1. UNCHANGED sa /\ toN3iwf' = toN3iwf \ {a} BY Zenon, <1>7 DEF handleDeletePayload
  <2>2. /\ childSA' \subseteq childSA
        /\ hist' = hist \/ hist' = WithFaults(hist, {"xfrmDel"})
    BY Zenon, <1>7 DEF handleDeletePayload
  <2>3. ngapEvt' = ngapEvt \/ \E S \in SUBSET Session : ngapEvt' = Append(ngapEvt, ReleaseEvt(S))
    <3>1. \A c \in childSA : {c.session} \in SUBSET Session BY Zenon, <1>0 DEF ChildSA
    <3> QED BY Zenon, <1>7, <3>1 DEF handleDeletePayload
  <2>4. Gets' = Gets /\ Tells' = Tells BY Zenon, <1>0, <2>3, ReleaseAt DEF Gets, Tells
  <2>5. hist'.used = hist.used BY Zenon, <1>0, <2>2 DEF WithFaults, History
  <2>6. toN3iwf' \ toN3iwf = {} /\ ue'.expect = ue.expect /\ toUe' \subseteq toUe
        /\ UNCHANGED <<sa, half, temp>>
    BY Zenon, <1>1, <2>1
  <2> QED BY Zenon, <1>2, <2>2, <2>4, <2>5, <2>6, Same, QuietStep
<1> QED BY Zenon, <1>4, <1>5, <1>6, <1>7

\* The UE, the probes and the network.
LEMMA EnvironmentSetup ==
  ASSUME TypeOK, SetupInv, ~Crossed', StartDPD \/ UePackets \/ UeDeletes \/ Lose
  PROVE  SetupInv'
<1>0. sa \in Sa /\ hist \in History /\ ue \in Ue BY Zenon DEF TypeOK
<1>1. UNCHANGED <<temp, sa, half, childSA, ikeEvt, ngapEvt, amf>>
  BY Zenon DEF StartDPD, UePackets, UeReceive, UeDeletes, Lose, ikeVars, envVars
<1>2. /\ Creates' = Creates /\ Gots' = Gots /\ Gets' = Gets /\ Tells' = Tells /\ Asked' = Asked
  BY Zenon, <1>1 DEF Creates, Gots, Gets, Tells, Asked, StatusIs
<1>3. CASE StartDPD
  <2>1. PICK m : m = [mid |-> sa.ResponderMessageID, kind |-> "dpd", xids |-> {}] BY Zenon
  <2>2. /\ toUe' = toUe \cup {m} /\ UNCHANGED <<ue, toN3iwf>>
        /\ hist' = Sending([hist EXCEPT !.probes = @ + 1], sa.ResponderMessageID)
    BY Zenon, <1>3, <2>1 DEF StartDPD, envVars
  <2>3. m.mid = sa.ResponderMessageID /\ m.kind # "child" BY Zenon, <2>1
  <2>4. /\ hist'.used = hist.used \cup {sa.ResponderMessageID}
        /\ sa.ResponderMessageID \in hist.used => hist'.reused
    BY ONLY Zenon, <1>0, <2>2 DEF Sending, History
  <2>5. sa.ResponderMessageID \notin hist.used BY Zenon, <2>4 DEF Crossed
  <2>6. UNCHANGED <<sa, half, temp, ue, toN3iwf>> /\ childSA' \subseteq childSA BY Zenon, <1>1, <2>2
  <2> QED BY Zenon, <1>2, <2>2, <2>3, <2>4, <2>5, <2>6, Same, SendStep
<1>4. ASSUME NEW m \in toUe, UeReceive(m) PROVE SetupInv'
  <2> USE DEF SetupInv
  <2>1. PICK r \in Nat : r = sa.ResponderMessageID BY <1>0, MaxIsNat DEF Sa, MsgId
  <2>2. ExchangeAt(r) /\ m.mid = r /\ ue.expect = r /\ r \in hist.used /\ r # r + 1
    <3>1. r # r + 1 BY <2>1
    <3> QED BY Zenon, <1>4, <2>1, <3>1 DEF Exchange, ExchangeAt
  <2>3. Replies = {} /\ Gets = {} /\ Gots = {} BY Zenon, <2>1, <2>2 DEF Exchange, ExchangeAt
  <2>4. toUe' = {}
    <3>1. \A n \in toUe : n = m BY Zenon, <1>4, <2>2 DEF ExchangeAt, One
    <3>2. toUe' = toUe \ {m} BY Zenon, <1>4 DEF UeReceive
    <3> QED BY Zenon, <3>1, <3>2
  <2>5. UeAnswers(m) BY Zenon, <1>4, <2>2 DEF UeReceive, UeRepeats, UeIgnores
  <2>6. PICK a : /\ a.mid = r /\ a.kind # "ueDelete" /\ toN3iwf' = toN3iwf \cup {a}
                 /\ ue'.expect = r + 1 /\ hist'.used = hist.used
                 /\ a.kind = "child" => m.kind = "child" /\ a.xid \in m.xids
    <3>1. PICK k, x, c :
            /\ toN3iwf' = toN3iwf \cup {[mid |-> m.mid, kind |-> k, xid |-> x]}
            /\ ue' = [ue EXCEPT !.expect = @ + 1, !.last = [mid |-> m.mid, kind |-> k, xid |-> x],
                                !.child = c]
            /\ \/ k = "child" /\ m.kind = "child" /\ x \in m.xids
               \/ k \in {"refused", "empty", "deleted"}
      <4>1. CASE m.kind = "child" /\ hist' = hist BY Zenon, <2>5, <4>1 DEF UeAnswers
      <4> QED BY ONLY Zenon, <2>5, <4>1 DEF UeAnswers
    <3>4. PICK a : a = [mid |-> m.mid, kind |-> k, xid |-> x] BY Zenon
    <3>5. a.mid = m.mid /\ a.kind = k /\ a.xid = x BY ONLY Zenon, <3>4
    <3>6. a.kind # "ueDelete" /\ (a.kind = "child" => m.kind = "child" /\ a.xid \in m.xids)
      BY ONLY Zenon, <3>1, <3>5
    <3>2. hist'.used = hist.used BY Zenon, <1>0, <2>5 DEF UeAnswers, WithFaults, History
    <3>3. ue'.expect = ue.expect + 1 BY Zenon, <1>0, <3>1 DEF Ue
    <3> QED BY Zenon, <2>2, <3>1, <3>2, <3>3, <3>4, <3>5, <3>6
  <2>7. Replies' = {a} BY Zenon, <2>3, <2>6 DEF Replies
  <2>8. Children' \subseteq {a} /\ Asks' = {} BY Zenon, <2>4, <2>7 DEF Children, Replies, Asks
  <2>9. Children' # {} => m \in Asks /\ a.xid \in m.xids BY Zenon, <1>4, <2>6, <2>8 DEF Children, Asks
  <2>10. OneSetup'
    <3>1. Children' # {} => Creates = {} /\ Tells = {} /\ Asked # {} BY Zenon, <2>9 DEF OneSetup
    <3> QED BY Zenon, <1>2, <2>3, <2>8, <3>1 DEF OneSetup, One
  <2>11. Exchange'
    <3>1. One(Replies') /\ One(toUe') BY Zenon, <2>4, <2>7 DEF One
    <3>2. \A b \in Replies' : b = a BY Zenon, <2>7
    <3> QED BY Zenon, <1>1, <1>2, <2>1, <2>2, <2>3, <2>4, <2>6, <3>1, <3>2 DEF Exchange, ExchangeAt
  <2>12. Pairing'
    <3>1. PICK x : x = half[r].InboundSPI BY Zenon
    <3>2. m \in Asks => m.xids = {x} /\ sa.ConcatenatedNonce = <<Own(x)>>
      BY Zenon, <2>1, <3>1 DEF Pairing
    <3>3. Children' # {} => a.xid = x /\ sa.ConcatenatedNonce = <<Own(x)>> BY Zenon, <2>9, <3>2
    <3>4. \A b \in Children' : b.xid = x BY Zenon, <2>8, <3>3
    <3> QED BY Zenon, <1>1, <1>2, <2>1, <2>3, <2>8, <3>1, <3>3, <3>4 DEF Pairing
  <2>13. AskedIsKnown' BY Zenon, <1>1, <1>2 DEF AskedIsKnown
  <2>14. ChildSaPaired' BY Zenon, <1>1 DEF ChildSaPaired, SpiPaired
  <2> QED BY Zenon, <2>10, <2>11, <2>12, <2>13, <2>14
<1>5. CASE UeDeletes \/ Lose
  <2>1. ue'.expect = ue.expect BY Zenon, <1>0, <1>5 DEF UeDeletes, Lose, Ue, envVars
  <2>2. hist'.used = hist.used BY Zenon, <1>0, <1>5 DEF UeDeletes, Lose, WithFaults, History
  <2>3. toUe' \subseteq toUe /\ childSA' \subseteq childSA BY Zenon, <1>1, <1>5 DEF UeDeletes, Lose
  <2>4. toN3iwf' \ toN3iwf \subseteq {a \in toN3iwf' : a.kind = "ueDelete"}
    <3>1. CASE Lose BY Zenon, <3>1 DEF Lose
    <3>2. CASE UeDeletes
      <4>1. PICK x : toN3iwf' = toN3iwf \cup {[mid |-> 0, kind |-> "ueDelete", xid |-> x]}
        BY Zenon, <3>2 DEF UeDeletes
      <4> QED BY ONLY <4>1
    <3> QED BY Zenon, <1>5, <3>1, <3>2
  <2>5. UNCHANGED <<sa, half, temp>> BY Zenon, <1>1
  <2> QED BY Zenon, <1>2, <2>1, <2>2, <2>3, <2>4, <2>5, Same, QuietStep
<1> QED BY Zenon, <1>3, <1>4, <1>5 DEF UePackets

-----------------------------------------------------------------------------
(* The inductive invariant and its theorems.                               *)

\* Nothing is taken from the history.
Grows(h) == (hist.reused => h.reused) /\ hist.faults \subseteq h.faults

LEMMA CrossedStays == ASSUME TypeOK, Next, Crossed PROVE Crossed'
<1> SUFFICES Grows(hist') BY Zenon DEF Grows, Crossed
<1>0. hist \in History BY Zenon DEF TypeOK
<1>1. Grows(hist) BY Zenon DEF Grows
<1>2. \A f : Grows(WithFaults(hist, f)) BY ONLY Zenon, <1>0 DEF Grows, WithFaults, History
<1>3. \A m : Grows(Sending(hist, m)) BY ONLY Zenon, <1>0 DEF Grows, Sending, History
<1>4. \A m, n : Grows(Sending([hist EXCEPT !.probes = n], m))
  BY ONLY Zenon, <1>0 DEF Grows, Sending, History
<1>5. \A x : Grows([hist EXCEPT !.xid = x]) BY ONLY Zenon, <1>0 DEF Grows, History
<1>6. \A x, m : Grows(Sending([hist EXCEPT !.xid = x], m))
  BY ONLY Zenon, <1>0 DEF Grows, Sending, History
<1>7. \A x, f : Grows([WithFaults(hist, f) EXCEPT !.xid = x])
  BY ONLY Zenon, <1>0 DEF Grows, WithFaults, History
<1>8. \A x, f, m : Grows(Sending([WithFaults(hist, f) EXCEPT !.xid = x], m))
  BY ONLY Zenon, <1>0 DEF Grows, WithFaults, Sending, History
<1>9. ASSUME NEW i, NEW t, NEW hf, NEW q, NextChildSA(i, t, hf, q) PROVE Grows(hist')
  <2>1. ASSUME NEW h, NEW n, CreatePDUSessionChildSA(i, t, hf, h, q, n)
        PROVE  \E x, m : hist' = [h EXCEPT !.xid = x] \/ hist' = Sending([h EXCEPT !.xid = x], m)
    BY Zenon, <2>1 DEF CreatePDUSessionChildSA
  <2>2. CASE CreatePDUSessionChildSA(i, t, hf, hist, q, 0)
    <3>1. PICK x, m : \/ hist' = [hist EXCEPT !.xid = x]
                      \/ hist' = Sending([hist EXCEPT !.xid = x], m)
      BY Zenon, <2>1, <2>2
    <3> QED BY ONLY Zenon, <1>5, <1>6, <3>1
  <2>3. ASSUME NEW n, CreatePDUSessionChildSA(i, t, hf, WithFaults(hist, {"sendFail"}), q, n)
        PROVE  Grows(hist')
    <3>1. PICK x, m : \/ hist' = [WithFaults(hist, {"sendFail"}) EXCEPT !.xid = x]
                      \/ hist' = Sending([WithFaults(hist, {"sendFail"}) EXCEPT !.xid = x], m)
      BY Zenon, <2>1, <2>3
    <3> QED BY ONLY Zenon, <1>7, <1>8, <3>1
  <2>4. CASE StallChildSA(i, t, hf, WithFaults(hist, {"stall"}), q)
    BY Zenon, <1>7, <2>4 DEF StallChildSA
  <2> QED BY Zenon, <1>9, <2>2, <2>3, <2>4 DEF NextChildSA
<1>10. CASE AmfSetupRequest \/ AmfReleaseCommand
  BY Zenon, <1>1, <1>10 DEF AmfSetupRequest, AmfReleaseCommand
<1>11. CASE NgapEvents
  BY Zenon, <1>1, <1>2, <1>11 DEF NgapEvents, HandleGetNGAPContext, HandleSendNASMsg,
     HandleSendPDUSessionResourceSetupResponse, HandleSendPDUSessionResourceRelease
<1>12. CASE IkeEvents
  <2>1. CASE HandleCreatePDUSession BY Zenon, <1>9, <2>1 DEF HandleCreatePDUSession
  <2>2. ASSUME NEW o, continueCreateChildSA(o) PROVE Grows(hist')
    BY Zenon, <1>2, <1>9, <2>2 DEF continueCreateChildSA
  <2>3. CASE HandleSendChildSADeleteRequest
    <3>1. \/ hist' = hist \/ hist' = Sending(hist, sa.ResponderMessageID)
          \/ hist' = WithFaults(hist, {"xfrmDel"})
      BY Zenon, <2>3 DEF HandleSendChildSADeleteRequest
    <3> QED BY ONLY Zenon, <1>1, <1>2, <1>3, <3>1
  <2> QED BY Zenon, <1>12, <2>1, <2>2, <2>3 DEF IkeEvents, HandleGetNGAPContextResponse
<1>13. CASE IkePackets
  BY Zenon, <1>1, <1>2, <1>13 DEF IkePackets, DropPacket, HandleCREATECHILDSA, Receive,
     HandleInformational, handleDeletePayload
<1>14. CASE StartDPD BY Zenon, <1>4, <1>14 DEF StartDPD
<1>15. CASE UePackets
  BY Zenon, <1>1, <1>2, <1>15 DEF UePackets, UeReceive, UeAnswers, UeRepeats, UeIgnores
<1>16. CASE UeDeletes \/ Lose BY Zenon, <1>1, <1>2, <1>16 DEF UeDeletes, Lose
<1> QED BY Zenon, <1>10, <1>11, <1>12, <1>13, <1>14, <1>15, <1>16 DEF Next

LEMMA InitSetup == Init => SetupInv
<1> SUFFICES ASSUME Init PROVE SetupInv OBVIOUS
<1>a. ikeEvt = <<>> /\ ngapEvt = <<>> /\ toUe = {} /\ toN3iwf = {} /\ childSA = {}
  BY Zenon DEF Init
<1>b. amf = [status |-> [s \in Session |-> "idle"], sent |-> 0]
      /\ ue = [expect |-> 0, last |-> None, child |-> {}, deletes |-> 0]
  BY Zenon DEF Init
<1>c. /\ sa = [ResponderMessageID |-> 0, ConcatenatedNonce |-> <<>>,
               TemporaryIkeMsg |-> None, PduSessionListLen |-> 0]
      /\ hist = [xid |-> 0, probes |-> 0, faults |-> {}, used |-> {}, reused |-> FALSE]
  BY Zenon DEF Init
<1>d. temp = [UnactivatedPDUSession |-> <<>>, Index |-> 0, FailedErrStr |-> <<>>,
              SetupListSURes |-> {}, FailedListSURes |-> {}]
  BY Zenon DEF Init
<1>1. /\ Creates = {} /\ Gets = {} /\ Gots = {} /\ Tells = {}
  BY ONLY <1>a DEF Creates, Gets, Gots, Tells, At
<1>2. Asks = {} /\ Replies = {} /\ Children = {} BY ONLY Zenon, <1>a, <1>b DEF Asks, Replies, Children
<1>3. Asked = {} BY ONLY Zenon, <1>b DEF Asked, StatusIs
<1>4. OneSetup BY Zenon, <1>1, <1>2 DEF OneSetup, One
<1>5. Exchange
  <2>1. sa.ResponderMessageID = 0 /\ ue.expect = 0 /\ hist.used = {} /\ toUe = {}
    BY ONLY Zenon, <1>a, <1>b, <1>c
  <2> QED BY Zenon, <1>1, <1>2, <2>1 DEF Exchange, ExchangeAt, One
<1>6. Pairing BY Zenon, <1>1, <1>2 DEF Pairing
<1>7. AskedIsKnown
  <2>1. temp.Index <= Len(temp.UnactivatedPDUSession) /\ temp.Index <= Len(temp.FailedErrStr)
    BY ONLY <1>d
  <2> QED BY Zenon, <1>1, <1>3, <2>1 DEF AskedIsKnown
<1>8. ChildSaPaired BY ONLY Zenon, <1>a DEF ChildSaPaired, SpiPaired
<1> QED BY Zenon, <1>4, <1>5, <1>6, <1>7, <1>8 DEF SetupInv

LEMMA NextSetup ==
  ASSUME TypeOK, Overlap # "all", Crossed \/ SetupInv, [Next]_vars
  PROVE  (Crossed \/ SetupInv)'
<1>1. CASE Next
  <2>1. CASE Crossed BY Zenon, <1>1, <2>1, CrossedStays
  <2>2. CASE SetupInv
    <3> SUFFICES ASSUME ~Crossed' PROVE SetupInv' BY Zenon
    <3>1. IkeEvents => SetupInv' BY Zenon, <2>2, CreateSetup, ContinueSetup, DeleteSetup
                                    DEF IkeEvents, HandleGetNGAPContextResponse
    <3>2. IkePackets => SetupInv' BY Zenon, <2>2, PacketSetup DEF IkePackets
    <3> QED BY Zenon, <1>1, <2>2, <3>1, <3>2, AmfSetup, NgapSetup, EnvironmentSetup DEF Next
  <2> QED BY Zenon, <2>1, <2>2
<1>2. CASE UNCHANGED vars
  <2>1. /\ Creates' = Creates /\ Gets' = Gets /\ Gots' = Gots /\ Tells' = Tells /\ Asked' = Asked
        /\ Crossed' = Crossed
    BY Zenon, <1>2 DEF Creates, Gets, Gots, Tells, Asked, StatusIs, Crossed, vars
  <2>2. UNCHANGED <<sa, half, temp>> /\ ue'.expect = ue.expect /\ hist'.used = hist.used
        /\ toUe' \subseteq toUe /\ toN3iwf' \ toN3iwf = {} /\ childSA' \subseteq childSA
    BY Zenon, <1>2 DEF vars
  <2> QED BY Zenon, <2>1, <2>2, Same, QuietStep
<1> QED BY Zenon, <1>1, <1>2

\* CompleteChildSA pairs the SPIs and the nonces of one exchange, whatever requests fail,
\* packets are lost or sessions are refused, as long as no response is duplicated and no
\* message ID is used for two requests, and the AMF waits for the response to a setup
\* request before it sends the next.
THEOREM PairedAlways == ASSUME Overlap # "all" PROVE Spec => []PairedUnlessReused
<1> DEFINE Inv == TypeInv /\ (Crossed \/ SetupInv)
<1>1. Init => Inv BY Zenon, InitType, InitSetup
<1>2. Inv /\ [Next]_vars => Inv' BY Zenon, NextType, NextSetup DEF TypeInv
<1>3. Inv => PairedUnlessReused BY Zenon DEF SetupInv, PairedUnlessReused
<1> HIDE DEF Inv
<1> QED BY <1>1, <1>2, <1>3, PTL DEF Spec

-----------------------------------------------------------------------------
(* What the AMF sees.                                                      *)

\* The sessions that the AMF waits to be released are those of the last command.
ReleaseIsKnown ==
    StatusIs("releasing") # {} => StatusIs("releasing") = ranUe.PduSessionReleaseList

\* The response answers every session of the request, and only those.
LEMMA ResponseAnswers ==
  ASSUME TypeOK, SetupInv, HandleSendPDUSessionResourceSetupResponse
  PROVE  /\ Asked # {} /\ UNCHANGED up
         /\ \E X \in SUBSET Asked : \A s \in Session :
              amf'.status[s] = IF amf.status[s] # "asked" THEN amf.status[s]
                               ELSE IF s \in X THEN "up" ELSE "idle"
         /\ amf'.status = [s \in Session |-> amf'.status[s]]
<1> USE DEF SetupInv
<1>1. ngapEvt \in Seq(NgapEvt) /\ ngapEvt # <<>>
      /\ Head(ngapEvt).type = "SendPDUSessionResourceSetupResponse"
  BY Zenon DEF TypeOK, HandleSendPDUSessionResourceSetupResponse, NgapHead
<1>2. Tells # {} BY Zenon, <1>1, TakenAt DEF Tells
<1>3. Asked # {} BY Zenon, <1>2 DEF OneSetup
<1>4. ~(Len(temp.FailedErrStr) < Len(temp.UnactivatedPDUSession))
  BY <1>2 DEF AskedIsKnown, TypeOK, Temp
<1>5. PICK setup, failed :
        /\ setup = temp.SetupListSURes \cup Reported(TRUE)
        /\ failed = temp.FailedListSURes \cup Reported(FALSE)
  BY Zenon
<1>6. /\ UNCHANGED up
      /\ amf' = [amf EXCEPT !.status = [s \in Session |->
                    IF s \in setup THEN "up" ELSE IF s \in failed THEN "idle" ELSE @[s]]]
  BY Zenon, <1>4, <1>5 DEF HandleSendPDUSessionResourceSetupResponse, FailedSessions
<1>7. amf'.status = [s \in Session |->
        IF s \in setup THEN "up" ELSE IF s \in failed THEN "idle" ELSE amf.status[s]]
  BY Zenon, <1>6 DEF TypeOK, Amf
<1>8. PICK l : l = Listed(temp.UnactivatedPDUSession) BY Zenon
<1>9. Reported(TRUE) \cup Reported(FALSE) = l BY Zenon, <1>8 DEF Listed, Reported
<1>10. temp.SetupListSURes = {} /\ Asked = l \cup temp.FailedListSURes
  BY Zenon, <1>3, <1>8 DEF AskedIsKnown
<1>11. setup \cup failed = Asked BY ONLY Zenon, <1>5, <1>9, <1>10
<1>12. \A s \in Session : s \in Asked <=> amf.status[s] = "asked" BY Zenon DEF Asked, StatusIs
<1>13. \A s \in Session :
         amf'.status[s] = IF amf.status[s] # "asked" THEN amf.status[s]
                          ELSE IF s \in setup THEN "up" ELSE "idle"
  BY ONLY Zenon, <1>7, <1>11, <1>12
<1> QED BY <1>3, <1>6, <1>7, <1>11, <1>13

\* The requests of the AMF.
LEMMA RequestStep ==
  ASSUME TypeOK, Overlap # "all", ReleaseIsKnown, AmfSetupRequest \/ AmfReleaseCommand
  PROVE  Service!Next /\ ReleaseIsKnown'
<1>0. amf \in Amf /\ ranUe \in RanUe BY Zenon DEF TypeOK
<1>1. CASE AmfSetupRequest
  <2>1. Asked = {} BY Zenon, <1>1 DEF AmfSetupRequest, MayOverlap, Asked
  <2>2. PICK S : /\ S \in SUBSET StatusIs("idle") /\ S # {}
                 /\ amf' = [status |-> Become(S, "asked"), sent |-> amf.sent + 1]
                 /\ \E items, ok : HandlePDUSessionResourceSetupRequest(items, ok)
    BY Zenon, <1>1 DEF AmfSetupRequest
  <2>3. ranUe'.PduSessionReleaseList = ranUe.PduSessionReleaseList
    BY Zenon, <1>0, <2>2 DEF HandlePDUSessionResourceSetupRequest, RanUe
  <2>4. amf'.status = Become(S, "asked") BY Zenon, <2>2
  <2>5. Service!Ask(S)
    BY Zenon, <2>1, <2>2, <2>4 DEF Service!Ask, Service!With, Service!Become, Become, StatusIs, Asked
  <2>6. StatusIs("releasing")' = StatusIs("releasing") BY Zenon, <2>2, <2>4 DEF StatusIs, Become
  <2>7. S \in SUBSET Session BY Zenon, <2>2 DEF StatusIs
  <2> QED BY Zenon, <2>3, <2>5, <2>6, <2>7 DEF Service!Next, ReleaseIsKnown
<1>2. CASE AmfReleaseCommand
  <2>1. StatusIs("releasing") = {} BY Zenon, <1>2 DEF AmfReleaseCommand, MayOverlap
  <2>2. PICK S : /\ S \in SUBSET StatusIs("up") /\ S # {}
                 /\ amf' = [status |-> Become(S, "releasing"), sent |-> amf.sent + 1]
                 /\ HandlePDUSessionResourceReleaseCommand(S)
    BY Zenon, <1>2 DEF AmfReleaseCommand
  <2>3. ranUe'.PduSessionReleaseList = S
    BY Zenon, <1>0, <2>2 DEF HandlePDUSessionResourceReleaseCommand, RanUe
  <2>4. amf'.status = Become(S, "releasing") BY Zenon, <2>2
  <2>5. Service!Command(S)
    BY Zenon, <2>1, <2>2, <2>4 DEF Service!Command, Service!With, Service!Become, Become, StatusIs
  <2>6. StatusIs("releasing")' = S BY Zenon, <2>1, <2>2, <2>4 DEF StatusIs, Become
  <2>7. S \in SUBSET Session BY Zenon, <2>2 DEF StatusIs
  <2> QED BY Zenon, <2>3, <2>5, <2>6, <2>7 DEF Service!Next, ReleaseIsKnown
<1> QED BY Zenon, <1>1, <1>2

\* Every step is one of the abstract service, or shows the AMF nothing.
LEMMA ServiceStep ==
  ASSUME TypeOK, Overlap # "all", SetupInv, ReleaseIsKnown, Next
  PROVE  (Service!Next \/ amf'.status = amf.status) /\ ReleaseIsKnown'
<1>0. amf \in Amf /\ ranUe \in RanUe BY Zenon DEF TypeOK
<1>1. CASE AmfSetupRequest \/ AmfReleaseCommand BY Zenon, <1>1, RequestStep
<1>2. CASE UNCHANGED amf /\ ranUe'.PduSessionReleaseList = ranUe.PduSessionReleaseList
  BY Zenon, <1>2 DEF ReleaseIsKnown, StatusIs
<1>3. CASE HandleSendPDUSessionResourceSetupResponse
  <2>1. PICK X \in SUBSET Asked : \A s \in Session :
          amf'.status[s] = IF amf.status[s] # "asked" THEN amf.status[s]
                           ELSE IF s \in X THEN "up" ELSE "idle"
    BY Zenon, <1>3, ResponseAnswers
  <2>2. Asked # {} /\ amf'.status = [s \in Session |-> amf'.status[s]]
    BY Zenon, <1>3, ResponseAnswers
  <2>3. Service!Answer(X) BY Zenon, <2>1, <2>2 DEF Service!Answer, Service!With, Asked, StatusIs
  <2>4. UNCHANGED ranUe BY Zenon, <1>3 DEF HandleSendPDUSessionResourceSetupResponse
  <2>5. StatusIs("releasing")' = StatusIs("releasing") BY Zenon, <2>1 DEF StatusIs
  <2>6. X \in SUBSET Session BY Zenon DEF Asked, StatusIs
  <2> QED BY Zenon, <2>3, <2>4, <2>5, <2>6 DEF Service!Next, ReleaseIsKnown
<1>4. CASE HandleSendPDUSessionResourceRelease
  <2>1. ranUe'.PduSessionReleaseList = ranUe.PduSessionReleaseList
    BY Zenon, <1>0, <1>4 DEF HandleSendPDUSessionResourceRelease, RanUe
  <2>2. CASE UNCHANGED amf BY Zenon, <1>2, <2>1, <2>2
  <2>3. CASE amf'.status = Become(ranUe.PduSessionReleaseList \cap StatusIs("releasing"), "idle")
    <3>1. PICK R : R = StatusIs("releasing") BY Zenon
    <3>2. amf'.status = Become(R, "idle") BY Zenon, <2>3, <3>1 DEF ReleaseIsKnown
    <3>3. CASE R = {}
      <4>1. amf'.status = amf.status BY Zenon, <1>0, <3>2, <3>3 DEF Become, Amf
      <4> QED BY Zenon, <2>1, <4>1 DEF ReleaseIsKnown, StatusIs
    <3>4. CASE R # {}
      <4>1. Service!Released
        BY Zenon, <3>1, <3>2, <3>4 DEF Service!Released, Service!With, Service!Become, Become, StatusIs
      <4>2. StatusIs("releasing")' = {} BY Zenon, <3>1, <3>2 DEF StatusIs, Become
      <4> QED BY Zenon, <4>1, <4>2 DEF Service!Next, ReleaseIsKnown
    <3> QED BY Zenon, <3>3, <3>4
  <2>4. \/ UNCHANGED amf
        \/ amf'.status = Become(ranUe.PduSessionReleaseList \cap StatusIs("releasing"), "idle")
    BY Zenon, <1>0, <1>4 DEF HandleSendPDUSessionResourceRelease, Amf
  <2> QED BY Zenon, <2>2, <2>3, <2>4
<1>5. CASE NgapEvents
  <2>1. CASE HandleGetNGAPContext BY Zenon, <1>2, <2>1 DEF HandleGetNGAPContext, envVars
  <2>2. CASE HandleSendNASMsg BY Zenon, <1>0, <1>2, <2>2 DEF HandleSendNASMsg, envVars, RanUe
  <2> QED BY Zenon, <1>3, <1>4, <1>5, <2>1, <2>2 DEF NgapEvents
<1>6. CASE IkeEvents
  <2>1. UNCHANGED <<amf, ranUe>>
    BY Zenon, <1>6 DEF IkeEvents, HandleCreatePDUSession, HandleGetNGAPContextResponse,
       continueCreateChildSA, HandleSendChildSADeleteRequest, envVars
  <2> QED BY Zenon, <1>2, <2>1
<1>7. CASE IkePackets \/ StartDPD \/ UePackets \/ UeDeletes \/ Lose
  <2>1. UNCHANGED <<amf, ranUe>>
    BY Zenon, <1>7 DEF IkePackets, DropPacket, HandleCREATECHILDSA, HandleInformational,
       handleDeletePayload, StartDPD, UePackets, UeReceive, UeDeletes, Lose, envVars
  <2> QED BY <1>2, <2>1
<1> QED BY Zenon, <1>1, <1>5, <1>6, <1>7 DEF Next

\* What the AMF sees is the abstract service: a response settles the sessions of the one
\* request it answers and no others, and sessions are reported released when the AMF has
\* commanded it, unless responses were crossed; for an AMF that waits for the response to a
\* request before it sends the next of the kind.
THEOREM ServiceImplemented == ASSUME Overlap # "all" PROVE Spec => ServiceUnlessReused
<1> DEFINE Inv == TypeInv /\ (Crossed \/ (SetupInv /\ ReleaseIsKnown))
<1>1. Init => Inv
  <2>1. Init => ReleaseIsKnown
    <3>1. Init => amf = [status |-> [s \in Session |-> "idle"], sent |-> 0] BY Zenon DEF Init
    <3> QED BY ONLY <3>1 DEF ReleaseIsKnown, StatusIs
  <2> QED BY Zenon, <2>1, InitType, InitSetup
<1>2. ASSUME Inv, [Next]_vars PROVE Inv' /\ [Service!Next \/ Crossed]_(amf.status)
  <2>1. TypeInv' /\ (Crossed \/ SetupInv)' BY Zenon, <1>2, NextType, NextSetup DEF TypeInv
  <2>2. CASE UNCHANGED vars
    <3>1. amf'.status = amf.status BY Zenon, <2>2 DEF vars
    <3>2. Crossed' = Crossed /\ ReleaseIsKnown' = ReleaseIsKnown
      BY Zenon, <2>2 DEF vars, Crossed, ReleaseIsKnown, StatusIs
    <3> QED BY Zenon, <1>2, <2>1, <3>1, <3>2
  <2>3. CASE Next
    <3>1. CASE Crossed
      <4>1. Crossed' BY Zenon, <1>2, <2>3, <3>1, CrossedStays DEF TypeInv
      <4> QED BY Zenon, <2>1, <3>1, <4>1
    <3>2. CASE ~Crossed
      <4>1. (Service!Next \/ amf'.status = amf.status) /\ ReleaseIsKnown'
        BY Zenon, <1>2, <2>3, <3>2, ServiceStep DEF TypeInv
      <4> QED BY Zenon, <2>1, <4>1
    <3> QED BY Zenon, <3>1, <3>2
  <2> QED BY Zenon, <1>2, <2>2, <2>3
<1> HIDE DEF Inv
<1>3. Inv /\ [Next]_vars => Inv' BY Zenon, <1>2
<1>4. Inv /\ [Next]_vars => [Service!Next \/ Crossed]_(amf.status) BY Zenon, <1>2
<1> QED BY <1>1, <1>3, <1>4, PTL DEF Spec, ServiceUnlessReused
=============================================================================
