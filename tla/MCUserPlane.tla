------------------------------ MODULE MCUserPlane ------------------------------
(* UserPlane on a small instance.                                          *)
EXTENDS UserPlane, TLC

\* A GRE packet too short for its key, one with QFI 63 and RQI, one with a sequence number
\* flag too, one without a key.
RawPackets == {<<32, 0, 8, 0, 63>>, <<32, 0, 8, 0, 63, 0, 0, 128, 7>>,
               <<48, 0, 8, 0, 5, 0, 0, 0, 7>>, <<0, 0, 8, 0, 7>>}

\* No extension header, a header of another type only, a container with RQI and QFI 5
\* after another container and before a header of another type.
TPduHeaders ==
    {<<>>, <<[type |-> "UDPPort", content |-> <<0, 1>>]>>,
     <<[type |-> "PDUSessionContainer", content |-> <<0, 1>>],
       [type |-> "PDUSessionContainer", content |-> <<0, 69>>],
       [type |-> "UDPPort", content |-> <<0, 1>>]>>}

\* One UE with several sessions, and several UEs with one each.
Scenarios ==
    {[ues |-> 1, live |-> 1, sessions |-> 2, setups |-> 3, teids |-> 2, events |-> 1, fails |-> 1],
     [ues |-> 2, live |-> 2, sessions |-> 1, setups |-> 2, teids |-> 1, events |-> 1, fails |-> 1]}

Symmetry == Permutations(Ue) \cup Permutations(Session)
=============================================================================
