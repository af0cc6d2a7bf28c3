------------------------------ MODULE MCAmfNode ------------------------------
(* Instance of AmfNode for model checking: the order of the configured AMFs. *)
EXTENDS AmfNode

CONSTANTS a1, a2

Addrs == <<a1, a2>>

\* A ServedGUAMIList left out, one that fits the UE, and a PLMN that fits the UE.
Offers == {[guami |-> None, plmn |-> {}], [guami |-> Guami, plmn |-> {}],
           [guami |-> {}, plmn |-> Plmn]}
==============================================================================
