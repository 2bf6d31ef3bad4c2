---------------------------- MODULE MCReplication ----------------------------
(* Instances of Replication for TLC. *)
EXTENDS Replication, TLC

\* The peers are interchangeable: no definition tells one from another.
PeerSymmetry == Permutations(Peers)

=============================================================================
