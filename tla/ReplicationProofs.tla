-------------------------- MODULE ReplicationProofs --------------------------
(***************************************************************************)
(* Proofs about module Replication for any peers, ranges, quorum and       *)
(* offsets: ReplicationInv is inductive.                                   *)
(***************************************************************************)
EXTENDS Replication, FiniteSetTheorems, WellFoundedInduction, TLAPS

\* A set of natural numbers has a least element.
LEMMA LeastNatural ==
    ASSUME NEW T \in SUBSET Nat, T # {}
    PROVE  \E x \in T : \A y \in T : x <= y
<1>1. \E x \in T : \A y \in T : ~ (<<y, x>> \in OpToRel(<, Nat))
  BY WFMin, NatLessThanWellFounded
<1>2. PICK x \in T : \A y \in T : ~ (<<y, x>> \in OpToRel(<, Nat))
  BY <1>1
<1>3. \A y \in T : ~ (y < x)
  BY <1>2 DEF OpToRel
<1>. QED BY <1>3

\* The scan of update_self_offsets stops, and where it stops all ids up to
\* there are in the map and the next one is not.
LEMMA ScanStops ==
    ASSUME NEW held \in SUBSET Tx, NEW r \in Ranges, NEW start \in Offsets
    PROVE  LET o == LastContiguous(held, r, start)
           IN /\ o \in start .. MaxOffset
              /\ \A i \in start + 1 .. o : <<r, i>> \in held
              /\ <<r, o + 1>> \notin held
<1> DEFINE T == {o \in Nat : o >= start /\ <<r, o + 1>> \notin held}
<1>1. MaxOffset \in T
  BY MaxOffsetAssumption DEF Tx, Offsets
<1>2. PICK o \in T : \A y \in T : o <= y
  BY <1>1, LeastNatural
<1>3. o \in start .. MaxOffset
  BY <1>1, <1>2, MaxOffsetAssumption DEF Offsets
<1>4. ASSUME NEW i \in start + 1 .. o
      PROVE  <<r, i>> \in held
  <2>1. i - 1 \in Nat /\ i - 1 >= start /\ ~ (o <= i - 1) /\ (i - 1) + 1 = i
    BY <1>3, MaxOffsetAssumption DEF Offsets
  <2>2. i - 1 \notin T
    BY <1>2, <2>1
  <2>. QED BY <2>1, <2>2
<1>5. \E x \in start .. MaxOffset :
         /\ \A i \in start + 1 .. x : <<r, i>> \in held
         /\ <<r, x + 1>> \notin held
  BY <1>2, <1>3, <1>4
<1>. QED BY <1>5 DEF LastContiguous

\* How far the prefix known to a quorum reaches.
LEMMA QuorumMaximum ==
    ASSUME NEW known \in [Peers -> OptOffset]
    PROVE  /\ ConsensusMaximum(known) \in OptOffset
           /\ ConsensusMaximum(known) # None =>
                Cardinality(AtLeast(known, ConsensusMaximum(known)))
                   >= ConsensusNodes
<1>1. CASE Cardinality(AtLeast(known, 0)) < ConsensusNodes
  BY <1>1, MaxOffsetAssumption DEF ConsensusMaximum, None, OptOffset
<1>2. CASE ~ (Cardinality(AtLeast(known, 0)) < ConsensusNodes)
  <2> DEFINE T == {v \in Nat :
                     Cardinality(AtLeast(known, v + 1)) < ConsensusNodes}
  <2>1. \A v \in Nat : Cardinality(AtLeast(known, v)) \in Nat
    <3>1. \A v \in Nat : IsFiniteSet(AtLeast(known, v))
      BY PeersAssumption, FS_Subset DEF AtLeast
    <3>. QED BY <3>1, FS_CardinalityType
  <2>2. MaxOffset \in T
    <3>1. AtLeast(known, MaxOffset + 1) = {}
      BY MaxOffsetAssumption DEF AtLeast, OptOffset
    <3>. QED
      BY <3>1, FS_EmptySet, MaxOffsetAssumption, ConsensusAssumption
  <2>3. PICK v \in T : \A y \in T : v <= y
    BY <2>2, LeastNatural
  <2>4. v \in Offsets
    BY <2>2, <2>3, MaxOffsetAssumption DEF Offsets
  <2>5. Cardinality(AtLeast(known, v)) >= ConsensusNodes
    <3>1. CASE v = 0
      BY <1>2, <2>1, <3>1, ConsensusAssumption
    <3>2. CASE v # 0
      <4>1. v - 1 \in Nat /\ ~ (v <= v - 1) /\ (v - 1) + 1 = v
        BY <3>2
      <4>2. v - 1 \notin T
        BY <2>3, <4>1
      <4>3. ~ (Cardinality(AtLeast(known, v)) < ConsensusNodes)
        BY <4>1, <4>2
      <4>. QED BY <2>1, <4>3, ConsensusAssumption
    <3>. QED BY <3>1, <3>2
  <2>6. \E x \in Offsets :
           /\ Cardinality(AtLeast(known, x)) >= ConsensusNodes
           /\ Cardinality(AtLeast(known, x + 1)) < ConsensusNodes
    BY <2>3, <2>4, <2>5
  <2>. QED
    BY <1>2, <2>6, MaxOffsetAssumption
       DEF ConsensusMaximum, Offsets, OptOffset
<1>. QED BY <1>1, <1>2

-----------------------------------------------------------------------------
(***************************************************************************)
(* Storing transactions.                                                   *)
(***************************************************************************)

\* What storing a batch does to the map and the offsets of the node.
LEMMA Storing ==
    ASSUME ReplicationInv, NEW n \in Peers, NEW txs \in SUBSET Tx,
           StoreTransactions(n, txs)
    PROVE  /\ transactions' \in [Peers -> SUBSET Tx]
           /\ self_offsets' \in [Peers -> [Ranges -> OptOffset]]
           /\ offsets' \in [Peers -> [Ranges -> [Peers -> OptOffset]]]
           /\ SelfOffsetsExact'
           /\ \A p \in Peers : transactions[p] \subseteq transactions'[p]
           /\ \A p \in Peers, r \in Ranges :
                 self_offsets[p][r] <= self_offsets'[p][r]
           /\ \A m, p \in Peers, r \in Ranges :
                 \/ offsets'[m][r][p] = offsets[m][r][p]
                 \/ offsets'[m][r][p] = self_offsets'[p][r]
<1> DEFINE held == transactions[n] \cup txs
           moved == {r \in TouchedRanges(txs) : ScanStart(n, r, txs) # None}
           new == [r \in Ranges |->
                     IF r \in moved
                     THEN LastContiguous(held, r, ScanStart(n, r, txs))
                     ELSE self_offsets[n][r]]
           known == [r \in Ranges |->
                       IF r \in moved
                       THEN [offsets[n][r] EXCEPT ![n] = new[r]]
                       ELSE offsets[n][r]]
<1>1. /\ transactions \in [Peers -> SUBSET Tx]
      /\ self_offsets \in [Peers -> [Ranges -> OptOffset]]
      /\ offsets \in [Peers -> [Ranges -> [Peers -> OptOffset]]]
  BY DEF ReplicationInv, ReplicationTypeOK
<1>2. /\ transactions' = [transactions EXCEPT ![n] = held]
      /\ self_offsets' = [self_offsets EXCEPT ![n] = new]
      /\ offsets' = [offsets EXCEPT ![n] = known]
  BY DEF StoreTransactions
<1>3. held \in SUBSET Tx
  BY <1>1
<1>4. ASSUME NEW r \in Ranges
      PROVE  /\ new[r] \in OptOffset
             /\ self_offsets[n][r] <= new[r]
             /\ \A o \in 0 .. new[r] : <<r, o>> \in held
             /\ <<r, new[r] + 1>> \notin held
  <2> DEFINE s == self_offsets[n][r]
             start == ScanStart(n, r, txs)
  <2>1. /\ s \in OptOffset
        /\ \A o \in 0 .. s : <<r, o>> \in transactions[n]
        /\ <<r, s + 1>> \notin transactions[n]
    BY <1>1 DEF ReplicationInv, SelfOffsetsExact
  <2>2. CASE r \in moved
    <3>1. start \in Offsets /\ s <= start
          /\ (s = start \/ (start = 0 /\ <<r, 0>> \in txs))
      BY <2>1, <2>2, MaxOffsetAssumption
         DEF ScanStart, None, Offsets, OptOffset
    <3>2. new[r] = LastContiguous(held, r, start)
      BY <2>2
    <3>3. /\ new[r] \in start .. MaxOffset
          /\ \A i \in start + 1 .. new[r] : <<r, i>> \in held
          /\ <<r, new[r] + 1>> \notin held
      <4> HIDE DEF held, start, new
      <4>1. start \in Offsets
        BY <3>1
      <4>. QED BY <1>3, <3>2, <4>1, ScanStops
    <3>4. ASSUME NEW o \in 0 .. new[r]
          PROVE  <<r, o>> \in held
      <4>1. CASE o <= start
        BY <2>1, <3>1, <3>3, <4>1, MaxOffsetAssumption DEF Offsets, OptOffset
      <4>2. CASE o > start
        <5>1. o \in start + 1 .. new[r]
          BY <3>1, <3>3, <4>2, MaxOffsetAssumption DEF Offsets
        <5>. QED BY <3>3, <5>1
      <4>. QED BY <3>1, <4>1, <4>2 DEF Offsets
    <3>5. new[r] \in OptOffset /\ s <= new[r]
      BY <2>1, <3>1, <3>3, MaxOffsetAssumption DEF Offsets, OptOffset
    <3>. QED BY <3>3, <3>4, <3>5
  <2>3. CASE r \notin moved
    <3>1. new[r] = s
      BY <2>3
    <3>2. <<r, s + 1>> \notin txs
      <4>1. CASE r \notin TouchedRanges(txs)
        BY <4>1 DEF TouchedRanges
      <4>2. CASE start = None
        BY <2>1, <4>2, MaxOffsetAssumption
           DEF ScanStart, None, OptOffset
      <4>. QED BY <2>3, <4>1, <4>2
    <3>3. s <= s
      BY <2>1, MaxOffsetAssumption DEF OptOffset
    <3>. QED BY <2>1, <3>1, <3>2, <3>3
  <2>. QED BY <2>2, <2>3
<1> HIDE DEF new
<1>5. new \in [Ranges -> OptOffset]
  <2>1. new = [r \in Ranges |-> new[r]]
    BY DEF new
  <2>. QED BY <1>4, <2>1
<1>6. known \in [Ranges -> [Peers -> OptOffset]]
  BY <1>1, <1>5
<1>7. /\ transactions' \in [Peers -> SUBSET Tx]
      /\ self_offsets' \in [Peers -> [Ranges -> OptOffset]]
      /\ offsets' \in [Peers -> [Ranges -> [Peers -> OptOffset]]]
  BY <1>1, <1>2, <1>3, <1>5, <1>6
<1>8. ASSUME NEW p \in Peers, NEW r \in Ranges
      PROVE  /\ transactions[p] \subseteq transactions'[p]
             /\ self_offsets[p][r] <= self_offsets'[p][r]
             /\ \A o \in 0 .. self_offsets'[p][r] : <<r, o>> \in transactions'[p]
             /\ <<r, self_offsets'[p][r] + 1>> \notin transactions'[p]
  <2>1. CASE p = n
    <3>1. transactions'[p] = held /\ self_offsets'[p] = new
      BY <1>1, <1>2, <2>1
    <3>. QED BY <1>4, <2>1, <3>1
  <2>2. CASE p # n
    <3>1. transactions'[p] = transactions[p] /\ self_offsets'[p] = self_offsets[p]
      BY <1>1, <1>2, <2>2
    <3>2. self_offsets[p][r] <= self_offsets[p][r]
      BY <1>1, MaxOffsetAssumption DEF OptOffset
    <3>. QED BY <3>1, <3>2 DEF ReplicationInv, SelfOffsetsExact
  <2>. QED BY <2>1, <2>2
<1>9. ASSUME NEW m \in Peers, NEW p \in Peers, NEW r \in Ranges
      PROVE  \/ offsets'[m][r][p] = offsets[m][r][p]
             \/ offsets'[m][r][p] = self_offsets'[p][r]
  <2>1. CASE m # n
    BY <1>1, <1>2, <2>1
  <2>2. CASE m = n
    <3>1. offsets'[m] = known /\ self_offsets'[n] = new
      BY <1>1, <1>2, <2>2
    <3>2. known[r][p] = offsets[n][r][p] \/ (p = n /\ known[r][p] = new[r])
      BY <1>1
    <3>. QED BY <2>2, <3>1, <3>2
  <2>. QED BY <2>1, <2>2
<1>10. SelfOffsetsExact'
  BY <1>8 DEF SelfOffsetsExact
<1>. QED
  <2>1. \A p \in Peers : transactions[p] \subseteq transactions'[p]
    BY <1>1, <1>2
  <2>. QED BY <1>7, <1>8, <1>9, <1>10, <2>1

-----------------------------------------------------------------------------
(***************************************************************************)
(* Every step keeps the invariant.                                         *)
(***************************************************************************)

\* A set of peers that holds a transaction counts less than a larger one.
LEMMA MoreHolders ==
    ASSUME NEW A \in SUBSET Peers, NEW B \in SUBSET Peers, A \subseteq B,
           Cardinality(A) >= ConsensusNodes
    PROVE  Cardinality(B) >= ConsensusNodes
<1>1. IsFiniteSet(A) /\ IsFiniteSet(B)
  BY PeersAssumption, FS_Subset
<1>2. Cardinality(A) <= Cardinality(B)
  BY <1>1, FS_Subset
<1>3. Cardinality(A) \in Nat /\ Cardinality(B) \in Nat
  BY <1>1, FS_CardinalityType
<1>. QED BY <1>2, <1>3, ConsensusAssumption

\* An agreed prefix stays held: nodes never drop transactions.
LEMMA QuorumKept ==
    ASSUME ConsensusHeldByQuorum,
           \A p \in Peers : transactions[p] \subseteq transactions'[p],
           consensus_offset' = consensus_offset
    PROVE  ConsensusHeldByQuorum'
<1> SUFFICES ASSUME NEW n \in Peers, NEW r \in Ranges,
                    NEW o \in 0 .. consensus_offset[n][r]
             PROVE  Cardinality({p \in Peers : <<r, o>> \in transactions'[p]})
                       >= ConsensusNodes
  BY DEF ConsensusHeldByQuorum
<1> DEFINE A == {p \in Peers : <<r, o>> \in transactions[p]}
           B == {p \in Peers : <<r, o>> \in transactions'[p]}
<1>1. Cardinality(A) >= ConsensusNodes
  BY DEF ConsensusHeldByQuorum
<1>2. A \in SUBSET Peers /\ B \in SUBSET Peers /\ A \subseteq B
  OBVIOUS
<1> HIDE DEF A, B
<1>3. Cardinality(B) >= ConsensusNodes
  BY <1>1, <1>2, MoreHolders
<1>. QED BY <1>3 DEF B

\* Storing a batch, from a gateway or from a peer, keeps the invariant.
LEMMA StoringKeepsInv ==
    ASSUME ReplicationInv, NEW n \in Peers, NEW txs \in SUBSET Tx,
           StoreTransactions(n, txs),
           UNCHANGED <<spinning, consensus_offset, state_msgs, request_msgs>>,
           missing_msgs' \subseteq missing_msgs
    PROVE  ReplicationInv'
<1>1. /\ transactions' \in [Peers -> SUBSET Tx]
      /\ self_offsets' \in [Peers -> [Ranges -> OptOffset]]
      /\ offsets' \in [Peers -> [Ranges -> [Peers -> OptOffset]]]
      /\ SelfOffsetsExact'
  BY Storing
<1>2. \A p \in Peers : transactions[p] \subseteq transactions'[p]
  BY Storing
<1>3. \A p \in Peers, r \in Ranges : self_offsets[p][r] <= self_offsets'[p][r]
  BY Storing
<1>4. \A m, p \in Peers, r \in Ranges :
         \/ offsets'[m][r][p] = offsets[m][r][p]
         \/ offsets'[m][r][p] = self_offsets'[p][r]
  BY Storing
<1>5. ReplicationTypeOK'
  BY <1>1 DEF ReplicationInv, ReplicationTypeOK
<1>6. NeverOverestimated'
  <2> SUFFICES ASSUME NEW m \in Peers, NEW p \in Peers, NEW r \in Ranges
               PROVE  offsets'[m][r][p] <= self_offsets'[p][r]
    BY DEF NeverOverestimated
  <2>1. offsets[m][r][p] <= self_offsets[p][r]
    BY DEF ReplicationInv, NeverOverestimated
  <2>2. /\ offsets[m][r][p] \in OptOffset
        /\ self_offsets[p][r] \in OptOffset
        /\ self_offsets'[p][r] \in OptOffset
    BY <1>1 DEF ReplicationInv, ReplicationTypeOK
  <2>3. self_offsets[p][r] <= self_offsets'[p][r]
    BY <1>3
  <2>4. offsets[m][r][p] <= self_offsets'[p][r]
    BY <2>1, <2>2, <2>3, MaxOffsetAssumption DEF OptOffset
  <2>5. self_offsets'[p][r] <= self_offsets'[p][r]
    BY <2>2, MaxOffsetAssumption DEF OptOffset
  <2>. QED BY <1>4, <2>4, <2>5
<1>7. AdvertisedReached'
  <2> SUFFICES ASSUME NEW m \in state_msgs, NEW r \in Ranges
               PROVE  m.offsets[r] <= self_offsets'[m.from][r]
    BY DEF AdvertisedReached
  <2>1. m.from \in Peers /\ m.offsets[r] \in OptOffset
    BY DEF ReplicationInv, ReplicationTypeOK, StateMsg
  <2>2. m.offsets[r] <= self_offsets[m.from][r]
    BY DEF ReplicationInv, AdvertisedReached
  <2>3. self_offsets[m.from][r] <= self_offsets'[m.from][r]
    BY <1>3, <2>1
  <2>4. /\ self_offsets[m.from][r] \in OptOffset
        /\ self_offsets'[m.from][r] \in OptOffset
    BY <1>1, <2>1 DEF ReplicationInv, ReplicationTypeOK
  <2>. QED BY <2>1, <2>2, <2>3, <2>4, MaxOffsetAssumption DEF OptOffset
<1>8. RequestsHeld'
  <2> SUFFICES ASSUME NEW m \in request_msgs
               PROVE  m.txs \subseteq transactions'[m.to]
    BY DEF RequestsHeld
  <2>1. m.to \in Peers
    BY DEF ReplicationInv, ReplicationTypeOK, RequestMsg
  <2>2. m.txs \subseteq transactions[m.to]
    BY DEF ReplicationInv, RequestsHeld
  <2>. QED BY <1>2, <2>1, <2>2
<1>9. NeverSpins'
  BY DEF ReplicationInv, NeverSpins
<1>10. ConsensusHeldByQuorum'
  BY <1>2, QuorumKept DEF ReplicationInv
<1>. QED BY <1>1, <1>5, <1>6, <1>7, <1>8, <1>9, <1>10 DEF ReplicationInv

\* A step that touches neither transactions nor offsets nor consensus keeps
\* the invariant if it only takes messages away or adds MissingTx messages.
LEMMA NetworkKeepsInv ==
    ASSUME ReplicationInv,
           UNCHANGED <<spinning, transactions, self_offsets, offsets,
                       consensus_offset>>,
           state_msgs' \subseteq state_msgs,
           request_msgs' \subseteq request_msgs,
           missing_msgs' \in SUBSET MissingMsg
    PROVE  ReplicationInv'
<1>1. ReplicationTypeOK'
  BY DEF ReplicationInv, ReplicationTypeOK
<1>2. SelfOffsetsExact' /\ NeverOverestimated' /\ NeverSpins'
  BY DEF ReplicationInv, SelfOffsetsExact, NeverOverestimated, NeverSpins
<1>3. AdvertisedReached' /\ RequestsHeld'
  BY DEF ReplicationInv, AdvertisedReached, RequestsHeld
<1>4. ConsensusHeldByQuorum'
  BY DEF ReplicationInv, ConsensusHeldByQuorum
<1>. QED BY <1>1, <1>2, <1>3, <1>4 DEF ReplicationInv

\* Handling a State message keeps the invariant, however old it is.
LEMMA StateKeepsInv ==
    ASSUME ReplicationInv, NEW n \in Peers, NEW m \in state_msgs, State(n, m)
    PROVE  ReplicationInv'
<1> DEFINE known == [r \in Ranges |->
                       IF m.offsets[r] = None
                       THEN offsets[n][r]
                       ELSE [offsets[n][r] EXCEPT ![m.from] = m.offsets[r]]]
<1>1. /\ offsets \in [Peers -> [Ranges -> [Peers -> OptOffset]]]
      /\ self_offsets \in [Peers -> [Ranges -> OptOffset]]
      /\ m.from \in Peers
      /\ m.offsets \in [Ranges -> OptOffset]
  BY DEF ReplicationInv, ReplicationTypeOK, StateMsg
<1>2. offsets' = [offsets EXCEPT ![n] = known]
  BY DEF State
<1>3. UNCHANGED <<spinning, transactions, self_offsets, consensus_offset,
                  request_msgs, missing_msgs>>
      /\ state_msgs' \subseteq state_msgs
  BY DEF State, Leftover
<1>4. known \in [Ranges -> [Peers -> OptOffset]]
  BY <1>1
<1>5. offsets' \in [Peers -> [Ranges -> [Peers -> OptOffset]]]
  BY <1>1, <1>2, <1>4
<1>6. ReplicationTypeOK'
  BY <1>3, <1>5 DEF ReplicationInv, ReplicationTypeOK
<1>7. NeverOverestimated'
  <2> SUFFICES ASSUME NEW k \in Peers, NEW p \in Peers, NEW r \in Ranges
               PROVE  offsets'[k][r][p] <= self_offsets[p][r]
    BY <1>3 DEF NeverOverestimated
  <2>1. offsets[k][r][p] <= self_offsets[p][r]
    BY DEF ReplicationInv, NeverOverestimated
  <2>2. m.offsets[r] <= self_offsets[m.from][r]
    BY DEF ReplicationInv, AdvertisedReached
  <2>3. CASE k # n
    <3>1. offsets'[k] = offsets[k]
      BY <1>1, <1>2, <2>3
    <3>. QED BY <2>1, <3>1
  <2>4. CASE k = n
    <3>1. offsets'[k] = known
      BY <1>1, <1>2, <2>4
    <3>2. \/ known[r][p] = offsets[n][r][p]
          \/ p = m.from /\ known[r][p] = m.offsets[r]
      BY <1>1
    <3>. QED BY <2>1, <2>2, <2>4, <3>1, <3>2
  <2>. QED BY <2>3, <2>4
<1>8. SelfOffsetsExact' /\ NeverSpins'
  BY <1>3 DEF ReplicationInv, SelfOffsetsExact, NeverSpins
<1>9. AdvertisedReached' /\ RequestsHeld'
  BY <1>3 DEF ReplicationInv, AdvertisedReached, RequestsHeld
<1>10. ConsensusHeldByQuorum'
  BY <1>3 DEF ReplicationInv, ConsensusHeldByQuorum
<1>. QED BY <1>6, <1>7, <1>8, <1>9, <1>10 DEF ReplicationInv

\* What self_delays asks a peer for is held by that peer: the peer has come at
\* least as far as this node believes.
LEMMA AskedForHeld ==
    ASSUME ReplicationInv, NEW n \in Peers, NEW p \in Peers, NEW r \in Ranges
    PROVE  MissingIn(n, r, p) \subseteq transactions[p]
<1> SUFFICES ASSUME NEW t \in MissingIn(n, r, p)
             PROVE  t \in transactions[p]
  OBVIOUS
<1>1. /\ t \in Tx
      /\ t[1] = r
      /\ t[2] \in self_offsets[n][r] + 1 .. offsets[n][r][p]
  BY DEF MissingIn
<1>2. t = <<r, t[2]>> /\ t[2] \in Offsets
  BY <1>1 DEF Tx
<1>3. /\ self_offsets[n][r] \in OptOffset
      /\ self_offsets[p][r] \in OptOffset
      /\ offsets[n][r][p] \in OptOffset
  BY DEF ReplicationInv, ReplicationTypeOK
<1>4. offsets[n][r][p] <= self_offsets[p][r]
  BY DEF ReplicationInv, NeverOverestimated
<1>5. t[2] \in 0 .. self_offsets[p][r]
  BY <1>1, <1>2, <1>3, <1>4, MaxOffsetAssumption DEF Offsets, OptOffset
<1>6. <<r, t[2]>> \in transactions[p]
  BY <1>5 DEF ReplicationInv, SelfOffsetsExact
<1>. QED BY <1>2, <1>6

\* The prefix computed from the known offsets is held by a quorum.
LEMMA RecalculatedHeld ==
    ASSUME ReplicationInv, NEW n \in Peers, NEW r \in Ranges,
           NEW o \in 0 .. RecalculatedConsensus(n)[r]
    PROVE  Cardinality({p \in Peers : <<r, o>> \in transactions[p]})
              >= ConsensusNodes
<1> DEFINE known == offsets[n][r]
           max == ConsensusMaximum(known)
           A == AtLeast(known, max)
           B == {p \in Peers : <<r, o>> \in transactions[p]}
<1>1. /\ known \in [Peers -> OptOffset]
      /\ self_offsets \in [Peers -> [Ranges -> OptOffset]]
  BY DEF ReplicationInv, ReplicationTypeOK
<1>2. RecalculatedConsensus(n)[r] = IF max = None THEN consensus_offset[n][r]
                                                  ELSE max
  BY DEF RecalculatedConsensus
<1>3. CASE max = None
  BY <1>2, <1>3 DEF ReplicationInv, ConsensusHeldByQuorum
<1>4. CASE max # None
  <2> HIDE DEF known, max
  <2>1. max \in OptOffset /\ Cardinality(A) >= ConsensusNodes
    BY <1>1, <1>4, QuorumMaximum DEF max
  <2>2. o \in 0 .. max
    BY <1>2, <1>4
  <2>3. A \subseteq B
    <3> SUFFICES ASSUME NEW p \in Peers, known[p] >= max
                 PROVE  <<r, o>> \in transactions[p]
      BY DEF AtLeast
    <3>1. known[p] <= self_offsets[p][r]
      BY DEF ReplicationInv, NeverOverestimated, known
    <3>2. known[p] \in OptOffset /\ self_offsets[p][r] \in OptOffset
      BY <1>1
    <3>3. o \in 0 .. self_offsets[p][r]
      BY <2>1, <2>2, <3>1, <3>2, MaxOffsetAssumption DEF OptOffset
    <3>. QED BY <3>3 DEF ReplicationInv, SelfOffsetsExact
  <2>4. A \in SUBSET Peers /\ B \in SUBSET Peers
    BY DEF AtLeast
  <2> HIDE DEF A, B
  <2>5. Cardinality(B) >= ConsensusNodes
    BY <2>1, <2>3, <2>4, MoreHolders
  <2>. QED BY <2>5 DEF B
<1>. QED BY <1>3, <1>4

\* The tick that recalculates, advertises and asks keeps the invariant.
LEMMA AdvertiseKeepsInv ==
    ASSUME ReplicationInv, NEW n \in Peers,
           AdvertiseOffsetsAndRequestMissing(n)
    PROVE  ReplicationInv'
<1> DEFINE adverts == {[from |-> n, to |-> p, offsets |-> self_offsets[n]] :
                         p \in Peers \ {n}}
<1>1. /\ UNCHANGED <<spinning, transactions, self_offsets, offsets,
                     missing_msgs>>
      /\ consensus_offset' = [consensus_offset EXCEPT
                                ![n] = RecalculatedConsensus(n)]
      /\ state_msgs' = state_msgs \cup adverts
  BY DEF AdvertiseOffsetsAndRequestMissing
<1>2. PICK chosen \in [DelayedRanges(n) -> Peers] :
         request_msgs' = request_msgs \cup Delays(n, chosen)
  BY DEF AdvertiseOffsetsAndRequestMissing
<1>3. /\ self_offsets \in [Peers -> [Ranges -> OptOffset]]
      /\ offsets \in [Peers -> [Ranges -> [Peers -> OptOffset]]]
      /\ consensus_offset \in [Peers -> [Ranges -> OptOffset]]
      /\ transactions \in [Peers -> SUBSET Tx]
      /\ state_msgs \in SUBSET StateMsg
      /\ request_msgs \in SUBSET RequestMsg
  BY DEF ReplicationInv, ReplicationTypeOK
<1>4. RecalculatedConsensus(n) \in [Ranges -> OptOffset]
  <2>1. \A r \in Ranges : ConsensusMaximum(offsets[n][r]) \in OptOffset
    BY <1>3, QuorumMaximum
  <2>. QED BY <1>3, <2>1 DEF RecalculatedConsensus
<1>5. adverts \in SUBSET StateMsg
  BY <1>3 DEF StateMsg
<1>6. ASSUME NEW d \in Delays(n, chosen)
      PROVE  d \in RequestMsg /\ d.txs \subseteq transactions[d.to]
  <2> DEFINE asked(p) == UNION {MissingIn(n, r, p) :
                                  r \in {s \in DelayedRanges(n) : chosen[s] = p}}
  <2>1. PICK p \in Peers : d = [from |-> n, to |-> p, txs |-> asked(p)]
    BY DEF Delays
  <2>2. \A r \in Ranges : MissingIn(n, r, p) \subseteq transactions[p]
    BY AskedForHeld
  <2>3. DelayedRanges(n) \subseteq Ranges
    BY DEF DelayedRanges
  <2>4. asked(p) \subseteq transactions[p]
    BY <2>2, <2>3
  <2>5. transactions[p] \subseteq Tx
    BY <1>3
  <2> HIDE DEF asked
  <2>. QED BY <2>1, <2>4, <2>5 DEF RequestMsg
<1>7. ReplicationTypeOK'
  <2>1. consensus_offset' \in [Peers -> [Ranges -> OptOffset]]
    BY <1>1, <1>3, <1>4
  <2>2. state_msgs' \in SUBSET StateMsg
    BY <1>1, <1>3, <1>5
  <2>3. request_msgs' \in SUBSET RequestMsg
    BY <1>2, <1>3, <1>6
  <2>. QED BY <1>1, <2>1, <2>2, <2>3 DEF ReplicationInv, ReplicationTypeOK
<1>8. SelfOffsetsExact' /\ NeverOverestimated' /\ NeverSpins'
  BY <1>1 DEF ReplicationInv, SelfOffsetsExact, NeverOverestimated, NeverSpins
<1>9. AdvertisedReached'
  <2> SUFFICES ASSUME NEW m \in state_msgs', NEW r \in Ranges
               PROVE  m.offsets[r] <= self_offsets[m.from][r]
    BY <1>1 DEF AdvertisedReached
  <2>1. CASE m \in state_msgs
    BY <2>1 DEF ReplicationInv, AdvertisedReached
  <2>2. CASE m \in adverts
    <3>1. m.offsets = self_offsets[n] /\ m.from = n
      BY <2>2
    <3>2. self_offsets[n][r] <= self_offsets[n][r]
      BY <1>3, MaxOffsetAssumption DEF OptOffset
    <3>. QED BY <3>1, <3>2
  <2>. QED BY <1>1, <2>1, <2>2
<1>10. RequestsHeld'
  BY <1>1, <1>2, <1>6 DEF ReplicationInv, RequestsHeld
<1>11. ConsensusHeldByQuorum'
  <2> SUFFICES ASSUME NEW k \in Peers, NEW r \in Ranges,
                      NEW o \in 0 .. consensus_offset'[k][r]
               PROVE  Cardinality({p \in Peers : <<r, o>> \in transactions[p]})
                         >= ConsensusNodes
    BY <1>1 DEF ConsensusHeldByQuorum
  <2>1. CASE k = n
    <3>1. consensus_offset'[k] = RecalculatedConsensus(n)
      BY <1>1, <1>3, <2>1
    <3>. QED BY <3>1, RecalculatedHeld
  <2>2. CASE k # n
    <3>1. consensus_offset'[k] = consensus_offset[k]
      BY <1>1, <1>3, <2>2
    <3>. QED BY <3>1 DEF ReplicationInv, ConsensusHeldByQuorum
  <2>. QED BY <2>1, <2>2
<1>. QED BY <1>7, <1>8, <1>9, <1>10, <1>11 DEF ReplicationInv

-----------------------------------------------------------------------------
(***************************************************************************)
(* The theorems.                                                           *)
(***************************************************************************)

\* A freshly started cluster satisfies the invariant.
LEMMA InitInv == ReplicationInit => ReplicationInv
<1> SUFFICES ASSUME ReplicationInit PROVE ReplicationInv
  OBVIOUS
<1>1. None \in OptOffset /\ None <= None /\ None + 1 = 0 /\ 0 .. None = {}
  BY MaxOffsetAssumption DEF None, OptOffset
<1>2. ReplicationTypeOK
  BY <1>1 DEF ReplicationInit, ReplicationTypeOK
<1>3. SelfOffsetsExact /\ NeverOverestimated /\ NeverSpins
  BY <1>1 DEF ReplicationInit, SelfOffsetsExact, NeverOverestimated, NeverSpins
<1>4. AdvertisedReached /\ RequestsHeld /\ ConsensusHeldByQuorum
  BY <1>1 DEF ReplicationInit, AdvertisedReached, RequestsHeld,
              ConsensusHeldByQuorum
<1>. QED BY <1>2, <1>3, <1>4 DEF ReplicationInv

\* What the event loop of one node does keeps the invariant.
LEMMA StepInv ==
    ASSUME ReplicationInv, NEW n \in Peers, ReplicationStep(n)
    PROVE  ReplicationInv'
<1>1. ASSUME NEW t \in Tx, NewTransaction(n, t)
      PROVE  ReplicationInv'
  <2>1. {t} \in SUBSET Tx
    OBVIOUS
  <2>2. /\ StoreTransactions(n, {t})
        /\ UNCHANGED <<spinning, consensus_offset, state_msgs, request_msgs>>
        /\ missing_msgs' \subseteq missing_msgs
    BY <1>1 DEF NewTransaction, netVars
  <2>. QED BY <2>1, <2>2, StoringKeepsInv
<1>2. ASSUME NEW m \in state_msgs, State(n, m)
      PROVE  ReplicationInv'
  BY <1>2, StateKeepsInv
<1>3. ASSUME NEW m \in request_msgs, RequestMissingTxs(n, m)
      PROVE  ReplicationInv'
  <2>1. m.txs \subseteq transactions[n]
    BY <1>3 DEF ReplicationInv, RequestsHeld, RequestMissingTxs
  <2>2. m \in RequestMsg /\ missing_msgs \in SUBSET MissingMsg
    BY DEF ReplicationInv, ReplicationTypeOK
  <2>3. [to |-> m.from, txs |-> m.txs] \in MissingMsg
    BY <2>2 DEF RequestMsg, MissingMsg
  <2>4. missing_msgs' = missing_msgs \cup {[to |-> m.from, txs |-> m.txs]}
    BY <1>3, <2>1 DEF RequestMissingTxs
  <2>5. missing_msgs' \in SUBSET MissingMsg
    BY <2>2, <2>3, <2>4
  <2>6. /\ UNCHANGED <<spinning, transactions, self_offsets, offsets,
                       consensus_offset>>
        /\ state_msgs' \subseteq state_msgs
        /\ request_msgs' \subseteq request_msgs
    BY <1>3, <2>1 DEF RequestMissingTxs, Leftover
  <2>. QED BY <2>5, <2>6, NetworkKeepsInv
<1>4. ASSUME NEW m \in missing_msgs, MissingTx(n, m)
      PROVE  ReplicationInv'
  <2>1. m.txs \in SUBSET Tx
    BY DEF ReplicationInv, ReplicationTypeOK, MissingMsg
  <2>2. /\ StoreTransactions(n, m.txs)
        /\ UNCHANGED <<spinning, consensus_offset, state_msgs, request_msgs>>
        /\ missing_msgs' \subseteq missing_msgs
    BY <1>4 DEF MissingTx, Leftover
  <2>. QED BY <2>1, <2>2, StoringKeepsInv
<1>5. CASE AdvertiseOffsetsAndRequestMissing(n)
  BY <1>5, AdvertiseKeepsInv
<1>. QED BY <1>1, <1>2, <1>3, <1>4, <1>5 DEF ReplicationStep

\* Every step of the cluster keeps the invariant.
LEMMA NextInv ==
    ReplicationInv /\ [ReplicationNext]_replicationVars => ReplicationInv'
<1> SUFFICES ASSUME ReplicationInv, [ReplicationNext]_replicationVars
             PROVE  ReplicationInv'
  OBVIOUS
<1>1. missing_msgs \in SUBSET MissingMsg
  BY DEF ReplicationInv, ReplicationTypeOK
<1>2. ASSUME NEW n \in Peers, ReplicationStep(n)
      PROVE  ReplicationInv'
  BY <1>2, StepInv
<1>3. CASE LoseMessage
  <2>1. /\ UNCHANGED <<spinning, transactions, self_offsets, offsets,
                       consensus_offset>>
        /\ state_msgs' \subseteq state_msgs
        /\ request_msgs' \subseteq request_msgs
        /\ missing_msgs' \subseteq missing_msgs
    BY <1>3 DEF LoseMessage
  <2>. QED BY <1>1, <2>1, NetworkKeepsInv
<1>4. CASE UNCHANGED replicationVars
  <2>1. /\ UNCHANGED <<spinning, transactions, self_offsets, offsets,
                       consensus_offset>>
        /\ state_msgs' \subseteq state_msgs
        /\ request_msgs' \subseteq request_msgs
        /\ missing_msgs' \subseteq missing_msgs
    BY <1>4 DEF replicationVars, netVars
  <2>. QED BY <1>1, <2>1, NetworkKeepsInv
<1>. QED BY <1>2, <1>3, <1>4 DEF ReplicationNext

\* The invariant of the replication handlers holds in every behaviour,
\* whatever messages are lost, repeated or reordered.
THEOREM ReplicationInvariant == ReplicationSpec => []ReplicationInv
<1>. QED BY InitInv, NextInv, PTL DEF ReplicationSpec

\* update_self_offsets keeps the advertised offset exact: every id up to it is
\* in the map and the next one is not.
THEOREM OffsetsAreExact == ReplicationSpec => []SelfOffsetsExact
<1>1. ReplicationInv => SelfOffsetsExact
  BY DEF ReplicationInv
<1>. QED BY <1>1, ReplicationInvariant, PTL

\* The State handler, which overwrites what it knew, never makes a node believe
\* a peer further than it is.
THEOREM OffsetsAreLowerBounds == ReplicationSpec => []NeverOverestimated
<1>1. ReplicationInv => NeverOverestimated
  BY DEF ReplicationInv
<1>. QED BY <1>1, ReplicationInvariant, PTL

\* The loop of RequestMissingTxs that cannot step over an absent id never meets
\* one.
THEOREM NoEndlessLoop == ReplicationSpec => []NeverSpins
<1>1. ReplicationInv => NeverSpins
  BY DEF ReplicationInv
<1>. QED BY <1>1, ReplicationInvariant, PTL

\* What recalculate_consensus_offsets takes for agreed is held by at least
\* ConsensusNodes nodes.
THEOREM AgreedIsHeld == ReplicationSpec => []ConsensusHeldByQuorum
<1>1. ReplicationInv => ConsensusHeldByQuorum
  BY DEF ReplicationInv
<1>. QED BY <1>1, ReplicationInvariant, PTL

=============================================================================
