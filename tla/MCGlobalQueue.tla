---------------------------- MODULE MCGlobalQueue ----------------------------
(* Instances of GlobalQueue for TLC. *)
EXTENDS GlobalQueue, TLC

\* The peers are interchangeable: no definition tells one from another.
PeerSymmetry == Permutations(Peers)

=============================================================================
