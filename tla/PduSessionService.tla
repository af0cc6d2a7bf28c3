-------------------------- MODULE PduSessionService --------------------------
(***************************************************************************)
(* What PDU session management promises the AMF, as the AMF sees it: a     *)
(* session it asks for is answered at most once, as set up or as failed,   *)
(* in a response that covers the whole request; a session is reported      *)
(* released only after the AMF has commanded it.                           *)
(***************************************************************************)
EXTENDS FiniteSets

CONSTANTS Session

VARIABLES status    \* of each session, at the AMF

Status == {"idle", "asked", "up", "releasing"}

Init == status = [s \in Session |-> "idle"]

With(st) == {s \in Session : status[s] = st}
Become(S, st) == [s \in Session |-> IF s \in S THEN st ELSE status[s]]

Ask(S) ==
    /\ S # {} /\ S \subseteq With("idle") /\ With("asked") = {}
    /\ status' = Become(S, "asked")

\* One response settles every session of the request.
Answer(up) ==
    /\ With("asked") # {} /\ up \subseteq With("asked")
    /\ status' = [s \in Session |->
                    IF status[s] # "asked" THEN status[s]
                    ELSE IF s \in up THEN "up" ELSE "idle"]

Command(S) ==
    /\ S # {} /\ S \subseteq With("up") /\ With("releasing") = {}
    /\ status' = Become(S, "releasing")

Released ==
    /\ With("releasing") # {}
    /\ status' = Become(With("releasing"), "idle")

Next ==
    \/ \E S \in SUBSET Session : Ask(S) \/ Answer(S) \/ Command(S)
    \/ Released

Spec == Init /\ [][Next]_status
==============================================================================
