-------------------------- MODULE GlobalQueueProofs --------------------------
(***************************************************************************)
(* Proofs about the cluster, for any peers, ranges, quorum and bounds: it  *)
(* is an instance of Replication and of EpochLog, and what it commits is   *)
(* held by a quorum.                                                       *)
(***************************************************************************)
EXTENDS GlobalQueue, ReplicationProofs, EpochLogProofs

\* A step of the cluster is one of the replication handlers or leaves their
\* state alone.
LEMMA ReplicationPart ==
    [Next]_vars => [ReplicationNext]_replicationVars
BY DEF Next, vars, ReplicationNext, AppReplicates, AppProposes, AppApplies,
       Coordinator

\* Holding the transactions at hand is for the epoch handlers as good as
\* holding all or none: they only ask whether an epoch is covered.
LEMMA AppliesSomehow ==
    ASSUME NEW n \in Peers, NEW held \in SUBSET Tx,
           HandleEpochCoordinatorUpdates(n, held)
    PROVE  \E all \in {{}, Tx} : HandleEpochCoordinatorUpdates(n, all)
<1> DEFINE ids == IdsOf(Head(updates[n]))
<1>1. ids \subseteq Tx
  BY IdsOfType
<1>2. CASE ids \subseteq held
  <2>1. HandleEpochCoordinatorUpdates(n, Tx)
    BY <1>1, <1>2 DEF HandleEpochCoordinatorUpdates
  <2>. QED BY <2>1
<1>3. CASE ~ ids \subseteq held
  <2>1. ~ ids \subseteq {}
    BY <1>3
  <2>2. HandleEpochCoordinatorUpdates(n, {})
    BY <1>3, <2>1 DEF HandleEpochCoordinatorUpdates
  <2>. QED BY <2>2
<1>. QED BY <1>2, <1>3

\* A step of the cluster is one of the epoch log or leaves its state alone.
LEMMA EpochLogPart ==
    ASSUME ReplicationTypeOK, [Next]_vars
    PROVE  [EpochLogNext]_epochLogVars
<1>1. /\ consensus_offset \in [Peers -> [Ranges -> OptOffset]]
      /\ transactions \in [Peers -> SUBSET Tx]
  BY DEF ReplicationTypeOK
<1>2. ASSUME NEW n \in Peers, AppProposes(n)
      PROVE  EpochLogNext
  BY <1>1, <1>2 DEF AppProposes, EpochLogNext
<1>3. ASSUME NEW n \in Peers, AppApplies(n)
      PROVE  EpochLogNext
  <2>1. \E all \in {{}, Tx} : HandleEpochCoordinatorUpdates(n, all)
    BY <1>1, <1>3, AppliesSomehow DEF AppApplies
  <2>. QED BY <2>1 DEF EpochLogNext
<1>4. ASSUME NEW n \in Peers, Coordinator(n)
      PROVE  EpochLogNext
  BY <1>4 DEF Coordinator, EpochLogNext
<1>5. ASSUME NEW n \in Peers, AppReplicates(n)
      PROVE  UNCHANGED epochLogVars
  BY <1>5 DEF AppReplicates
<1>6. CASE UNCHANGED vars
  BY <1>6 DEF vars
<1>. QED BY <1>2, <1>3, <1>4, <1>5, <1>6 DEF Next

\* No replication handler drops a transaction.
LEMMA NothingDropped ==
    ASSUME ReplicationInv, [ReplicationNext]_replicationVars
    PROVE  \A p \in Peers : transactions[p] \subseteq transactions'[p]
<1>1. ASSUME NEW n \in Peers, NEW t \in Tx, NewTransaction(n, t)
      PROVE  \A p \in Peers : transactions[p] \subseteq transactions'[p]
  <2>1. {t} \in SUBSET Tx /\ StoreTransactions(n, {t})
    BY <1>1 DEF NewTransaction
  <2>. QED BY <2>1, Storing
<1>2. ASSUME NEW n \in Peers, NEW m \in missing_msgs, MissingTx(n, m)
      PROVE  \A p \in Peers : transactions[p] \subseteq transactions'[p]
  <2>1. m.txs \in SUBSET Tx /\ StoreTransactions(n, m.txs)
    BY <1>2 DEF MissingTx, ReplicationInv, ReplicationTypeOK, MissingMsg
  <2>. QED BY <2>1, Storing
<1>3. ASSUME NEW n \in Peers,
             \/ \E m \in state_msgs : State(n, m)
             \/ \E m \in request_msgs : RequestMissingTxs(n, m)
             \/ AdvertiseOffsetsAndRequestMissing(n)
      PROVE  transactions' = transactions
  BY <1>3 DEF State, RequestMissingTxs, AdvertiseOffsetsAndRequestMissing
<1>4. CASE LoseMessage
  BY <1>4 DEF LoseMessage
<1>5. CASE UNCHANGED replicationVars
  BY <1>5 DEF replicationVars
<1>. QED BY <1>1, <1>2, <1>3, <1>4, <1>5 DEF ReplicationNext, ReplicationStep

\* Once held by a quorum, always held by a quorum.
LEMMA HeldStaysHeld ==
    ASSUME ReplicationInv, [ReplicationNext]_replicationVars, NEW t,
           HeldByQuorum(t)
    PROVE  HeldByQuorum(t)'
<1> DEFINE A == {p \in Peers : t \in transactions[p]}
           B == {p \in Peers : t \in transactions'[p]}
<1>1. A \in SUBSET Peers /\ B \in SUBSET Peers /\ A \subseteq B
  BY NothingDropped
<1>2. Cardinality(A) >= ConsensusNodes
  BY DEF HeldByQuorum
<1> HIDE DEF A, B
<1>3. Cardinality(B) >= ConsensusNodes
  BY <1>1, <1>2, MoreHolders
<1>. QED BY <1>3 DEF B, HeldByQuorum

\* A proposal computed from the consensus offsets is held by a quorum.
LEMMA ProposalHeld ==
    ASSUME ReplicationInv, EpochLogTypeOK, NEW n \in Peers,
           NEW e, e.increments = CalculateEpochIncrements(n, consensus_offset[n]),
           NEW t \in IdsOf(e)
    PROVE  HeldByQuorum(t)
<1>1. PICK i \in e.increments : i.range = t[1] /\ t[2] \in i.left .. i.right
  BY DEF IdsOf
<1>2. PICK r \in Ranges : i = [range |-> r, left |-> commited_offsets[n][r] + 1,
                               right |-> consensus_offset[n][r]]
  BY <1>1 DEF CalculateEpochIncrements
<1>3. t \in Tx /\ t[1] = r /\ t[2] \in commited_offsets[n][r] + 1
                                         .. consensus_offset[n][r]
  BY <1>1, <1>2 DEF IdsOf
<1>4. t = <<r, t[2]>> /\ t[2] \in Offsets
  BY <1>3 DEF Tx
<1>5. /\ commited_offsets[n][r] \in OptOffset
      /\ consensus_offset[n][r] \in OptOffset
  BY DEF EpochLogTypeOK, ReplicationInv, ReplicationTypeOK
<1>6. t[2] \in 0 .. consensus_offset[n][r]
  BY <1>3, <1>4, <1>5, MaxOffsetAssumption DEF Offsets, OptOffset
<1>7. Cardinality({p \in Peers : <<r, t[2]>> \in transactions[p]})
         >= ConsensusNodes
  BY <1>6 DEF ReplicationInv, ConsensusHeldByQuorum
<1>. QED BY <1>4, <1>7 DEF HeldByQuorum

\* With a quorum of all nodes, every node holds what a quorum holds.
LEMMA UnanimousHolds ==
    ASSUME ConsensusNodes >= Cardinality(Peers), NEW n \in Peers, NEW t,
           HeldByQuorum(t)
    PROVE  t \in transactions[n]
<1> DEFINE A == {p \in Peers : t \in transactions[p]}
<1>1. A \in SUBSET Peers
  OBVIOUS
<1>2. Cardinality(A) >= ConsensusNodes
  BY DEF HeldByQuorum
<1>3. A = Peers
  <2> HIDE DEF A
  <2>1. IsFiniteSet(A) /\ Cardinality(A) <= Cardinality(Peers)
    BY <1>1, PeersAssumption, FS_Subset
  <2>2. Cardinality(A) \in Nat /\ Cardinality(Peers) \in Nat
    BY <2>1, PeersAssumption, FS_CardinalityType
  <2>3. Cardinality(Peers) = Cardinality(A)
    BY <1>2, <2>1, <2>2, ConsensusAssumption
  <2>. QED BY <1>1, <2>3, PeersAssumption, FS_Subset
<1>. QED BY <1>3

-----------------------------------------------------------------------------
(***************************************************************************)
(* The theorems.                                                           *)
(***************************************************************************)

\* A freshly started cluster satisfies the invariant.
LEMMA ClusterInit == Init => ClusterInv
<1> SUFFICES ASSUME Init PROVE ClusterInv
  OBVIOUS
<1>1. ReplicationInv /\ EpochLogInv
  BY InitInv, InvInit DEF Init
<1>2. ProposedHeldByQuorum
  <2>1. IdsOf(NoRequest) = {}
    BY DEF IdsOf, NoRequest
  <2>. QED BY <2>1 DEF ProposedHeldByQuorum, Init, EpochLogInit
<1>3. CommittedHeldByQuorum
  <2>1. Len(history) = 0
    BY DEF Init, EpochLogInit
  <2>. QED BY <2>1 DEF CommittedHeldByQuorum
<1>4. UnanimousNeverPanics
  BY DEF UnanimousNeverPanics, Init, EpochLogInit
<1>. QED BY <1>1, <1>2, <1>3, <1>4 DEF ClusterInv

\* What a step leaves in the watch channels was there before or is a new
\* proposal.
LEMMA ProposedKept ==
    ASSUME ClusterInv, [Next]_vars
    PROVE  ProposedHeldByQuorum'
<1> SUFFICES ASSUME NEW m \in Peers, NEW t \in IdsOf(request'[m])
             PROVE  HeldByQuorum(t)'
  BY DEF ProposedHeldByQuorum, IdsOf
<1>1. ReplicationInv /\ EpochLogTypeOK /\ [ReplicationNext]_replicationVars
  BY ReplicationPart DEF ClusterInv, EpochLogInv
<1>2. request \in [Peers -> Epoch \cup {NoRequest}]
  BY <1>1 DEF EpochLogTypeOK
<1>3. CASE request' = request
  <2>1. HeldByQuorum(t)
    BY <1>3 DEF ClusterInv, ProposedHeldByQuorum
  <2>. QED BY <1>1, <2>1, HeldStaysHeld
<1>4. ASSUME NEW n \in Peers, AppProposes(n)
      PROVE  HeldByQuorum(t)'
  <2> DEFINE e == [sequence_number |-> NextSequenceNumber(n),
                   increments |->
                      CalculateEpochIncrements(n, consensus_offset[n])]
  <2>1. request' = [request EXCEPT ![n] = e]
    BY <1>4 DEF AppProposes, CommitEpochIfNeeded
  <2>2. CASE m = n
    <3>1. request'[m] = e
      BY <1>2, <2>1, <2>2
    <3>2. e.increments = CalculateEpochIncrements(n, consensus_offset[n])
      OBVIOUS
    <3> HIDE DEF e
    <3>3. HeldByQuorum(t)
      BY <1>1, <3>1, <3>2, ProposalHeld
    <3>. QED BY <1>1, <3>3, HeldStaysHeld
  <2>3. CASE m # n
    <3>1. request'[m] = request[m]
      BY <1>2, <2>1, <2>3
    <3>2. HeldByQuorum(t)
      BY <3>1 DEF ClusterInv, ProposedHeldByQuorum
    <3>. QED BY <1>1, <3>2, HeldStaysHeld
  <2>. QED BY <2>2, <2>3
<1>5. ASSUME NEW n \in Peers,
             AppReplicates(n) \/ AppApplies(n) \/ Coordinator(n)
      PROVE  request' = request
  BY <1>5 DEF AppReplicates, AppApplies, Coordinator, CoordinatorStep,
       SkipCommitted, CommitSucceeds, CommitAnswerLost, CommitFails,
       TakeRequest, WatchMessage, Reconnect, HandleEpochCoordinatorUpdates,
       epochLogVars
<1>6. CASE UNCHANGED vars
  BY <1>3, <1>6 DEF vars, epochLogVars
<1>. QED BY <1>3, <1>4, <1>5, <1>6 DEF Next

\* What a step leaves in the history was there before or was proposed.
LEMMA CommittedKept ==
    ASSUME ClusterInv, [Next]_vars
    PROVE  CommittedHeldByQuorum'
<1> SUFFICES ASSUME NEW i \in 1 .. Len(history'), NEW t \in IdsOf(history'[i])
             PROVE  HeldByQuorum(t)'
  BY DEF CommittedHeldByQuorum, IdsOf
<1>1. ReplicationInv /\ EpochLogTypeOK /\ [ReplicationNext]_replicationVars
  BY ReplicationPart DEF ClusterInv, EpochLogInv
<1>2. history \in Seq(Epoch) /\ Len(history) \in Nat
  BY <1>1, Lengths DEF EpochLogTypeOK
<1>3. CASE history' = history
  <2>1. HeldByQuorum(t)
    BY <1>3 DEF ClusterInv, CommittedHeldByQuorum
  <2>. QED BY <1>1, <2>1, HeldStaysHeld
<1>4. ASSUME NEW n \in Peers, history' = Append(history, request[n]),
             request[n] \in Epoch
      PROVE  HeldByQuorum(t)'
  <2>1. /\ Len(history') = Len(history) + 1
        /\ \A j \in 1 .. Len(history) : history'[j] = history[j]
        /\ history'[Len(history) + 1] = request[n]
    BY <1>2, <1>4, AppendProperties
  <2>2. i \in 1 .. Len(history) \/ i = Len(history) + 1
    BY <1>2, <2>1
  <2>3. HeldByQuorum(t)
    BY <2>1, <2>2 DEF ClusterInv, CommittedHeldByQuorum, ProposedHeldByQuorum
  <2>. QED BY <1>1, <2>3, HeldStaysHeld
<1>5. ASSUME NEW n \in Peers, CommitSucceeds(n) \/ CommitAnswerLost(n)
      PROVE  history' = Append(history, request[n]) /\ request[n] \in Epoch
  BY <1>1, <1>5 DEF CommitSucceeds, CommitAnswerLost, TakeRequest,
                    EpochLogTypeOK
<1>6. ASSUME NEW n \in Peers,
             AppReplicates(n) \/ AppProposes(n) \/ AppApplies(n)
      PROVE  history' = history
  BY <1>6 DEF AppReplicates, AppProposes, AppApplies, CommitEpochIfNeeded,
              HandleEpochCoordinatorUpdates, epochLogVars
<1>7. ASSUME NEW n \in Peers, Coordinator(n)
      PROVE  HeldByQuorum(t)'
  <2>1. ASSUME SkipCommitted(n) \/ CommitFails(n) \/ WatchMessage(n)
                 \/ Reconnect(n)
        PROVE  history' = history
    BY <2>1 DEF SkipCommitted, CommitFails, WatchMessage, Reconnect
  <2>. QED BY <1>3, <1>4, <1>5, <1>7, <2>1 DEF Coordinator, CoordinatorStep
<1>8. CASE UNCHANGED vars
  BY <1>3, <1>8 DEF vars, epochLogVars
<1>. QED BY <1>3, <1>6, <1>7, <1>8 DEF Next

\* With a quorum of all nodes nothing makes an App panic.
LEMMA PanicsKept ==
    ASSUME ClusterInv, [Next]_vars
    PROVE  UnanimousNeverPanics'
<1> SUFFICES ASSUME ConsensusNodes >= Cardinality(Peers)
             PROVE  panicked' = {}
  BY DEF UnanimousNeverPanics
<1>1. panicked = {}
  BY DEF ClusterInv, UnanimousNeverPanics
<1>2. ASSUME NEW n \in Peers, AppApplies(n)
      PROVE  panicked' = panicked
  <2> DEFINE e == Head(updates[n])
  <2>1. EpochLogInv /\ updates[n] # <<>>
    BY <1>2 DEF ClusterInv, AppApplies, HandleEpochCoordinatorUpdates
  <2>2. /\ e.sequence_number + 1 \in 1 .. Len(history)
        /\ e = history[e.sequence_number + 1]
    BY <2>1, NextUpdate
  <2>3. \A t \in IdsOf(e) : HeldByQuorum(t)
    BY <2>2 DEF ClusterInv, CommittedHeldByQuorum
  <2>4. IdsOf(e) \subseteq transactions[n]
    BY <2>3, UnanimousHolds
  <2>. QED BY <1>2, <2>4 DEF AppApplies, HandleEpochCoordinatorUpdates
<1>3. ASSUME NEW n \in Peers,
             AppReplicates(n) \/ AppProposes(n) \/ Coordinator(n)
      PROVE  panicked' = panicked
  BY <1>3 DEF AppReplicates, AppProposes, Coordinator, CoordinatorStep,
       SkipCommitted, CommitSucceeds, CommitAnswerLost, CommitFails,
       TakeRequest, WatchMessage, Reconnect, CommitEpochIfNeeded,
       epochLogVars, appVars
<1>4. CASE UNCHANGED vars
  BY <1>1, <1>4 DEF vars, epochLogVars, appVars
<1>. QED BY <1>1, <1>2, <1>3, <1>4 DEF Next

\* Every step of the cluster keeps the invariant.
LEMMA ClusterStep == ClusterInv /\ [Next]_vars => ClusterInv'
<1> SUFFICES ASSUME ClusterInv, [Next]_vars
             PROVE  ClusterInv'
  OBVIOUS
<1>1. [ReplicationNext]_replicationVars /\ [EpochLogNext]_epochLogVars
  BY ReplicationPart, EpochLogPart DEF ClusterInv, ReplicationInv
<1>2. ReplicationInv' /\ EpochLogInv'
  BY <1>1, NextInv, InvStep DEF ClusterInv
<1>. QED
  BY <1>2, ProposedKept, CommittedKept, PanicsKept DEF ClusterInv

\* The invariant of the cluster holds in every behaviour of its event loops.
THEOREM ClusterInvariant == Spec => []ClusterInv
<1>. QED BY ClusterInit, ClusterStep, PTL DEF Spec

\* The cluster implements both modules it is made of, so that what holds of
\* them holds of it: the App's event loop only interleaves the handlers.
THEOREM ClusterImplementsParts == Spec => ReplicationSpec /\ EpochLogSpec
<1>1. Init => ReplicationInit /\ EpochLogInit
  BY DEF Init
<1>2. ClusterInv /\ [Next]_vars
         => [ReplicationNext]_replicationVars /\ [EpochLogNext]_epochLogVars
  BY ReplicationPart, EpochLogPart DEF ClusterInv, ReplicationInv
<1>. QED
  BY <1>1, <1>2, ClusterInvariant, PTL DEF Spec, ReplicationSpec, EpochLogSpec

\* Every transaction of a committed epoch is held by ConsensusNodes nodes.
THEOREM CommittedIsHeld == Spec => []CommittedHeldByQuorum
<1>1. ClusterInv => CommittedHeldByQuorum
  BY DEF ClusterInv
<1>. QED BY <1>1, ClusterInvariant, PTL

\* If every node must hold a transaction before it is committed, no App panics
\* on an epoch it cannot execute.
THEOREM UnanimousIsSafe == Spec => []UnanimousNeverPanics
<1>1. ClusterInv => UnanimousNeverPanics
  BY DEF ClusterInv
<1>. QED BY <1>1, ClusterInvariant, PTL

=============================================================================
