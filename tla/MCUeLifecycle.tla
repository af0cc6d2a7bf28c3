--------------------------- MODULE MCUeLifecycle ---------------------------
(* Bounds and symmetry for the runs of UeLifecycle. *)
EXTENDS UeLifecycleInv, TLC

\* The requests of a UE that registers and deletes its IKE SA: identity, NAS, auth
\* and delete; the fifth leaves room for one more NAS message.
Msg4 == [s \in Spi |-> 4]
Msg5 == [s \in Spi |-> 5]

\* SPIs are interchangeable: no action orders them.
SpiSymmetry == Permutations(Spi)

=============================================================================
