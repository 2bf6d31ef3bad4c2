------------------------------ MODULE MCRuntime ------------------------------
(* Instances of Runtime for TLC. *)
EXTENDS Runtime

\* Queues are not told apart by any definition.
Symmetry == Permutations(QueueNames)

=============================================================================
