---------------------------- MODULE MCPduSession ----------------------------
(* Fault sets for the runs of PduSession. *)
EXTENDS PduSession, TLC

AllFaults == FaultKind
NoDuplicates == FaultKind \ {"dup"}
NoFault   == {}
DuplicateFault == {"dup"}
SendFault == {"sendFail"}

\* Sessions are interchangeable: no action orders them.
SessionSymmetry == Permutations(Session)
=============================================================================
