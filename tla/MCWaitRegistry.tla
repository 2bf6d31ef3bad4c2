---------------------------- MODULE MCWaitRegistry ----------------------------
(* Instances of WaitRegistry for TLC. *)
EXTENDS WaitRegistry

\* Neither the fibers nor the keys are told apart by any definition.
Symmetry == Permutations(Fibers) \cup Permutations(Keys)

=============================================================================
