----------------------------- MODULE MCEpochLog -----------------------------
(* Instances of EpochLog for TLC. *)
EXTENDS EpochLog, TLC

\* Neither the peers nor the ranges are told apart by any definition.
Symmetry == Permutations(Peers) \cup Permutations(Ranges)

=============================================================================
