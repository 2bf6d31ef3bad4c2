------------------------------ MODULE KeyRanges ------------------------------
(***************************************************************************)
(* The identifiers the node modules share: peers, and transaction ids made *)
(* of a key range and an offset (types/src/range_key.rs).                  *)
(***************************************************************************)
EXTENDS Integers, Sequences, FiniteSets

CONSTANTS
    Peers,      \* PeerIds of the nodes; a restarted process is a new peer
    Ranges,     \* key ranges handed out to the gateways
    MaxOffset   \* bound: largest offset a gateway issues inside a range

ASSUME PeersAssumption == IsFiniteSet(Peers)
ASSUME MaxOffsetAssumption == MaxOffset \in Nat

\* An absent HashMap entry is -1, so that the offset after the last known one
\* is always one more.
None == -1
Offsets == 0 .. MaxOffset
OptOffset == -1 .. MaxOffset

\* UniqueU64BlobId: a range and an offset in it.
Tx == Ranges \X Offsets

\* U64BlobIdClosedInterval, always built inside one range
Interval == [range : Ranges, left : Offsets, right : Offsets]

=============================================================================
