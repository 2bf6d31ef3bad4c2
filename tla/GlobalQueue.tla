----------------------------- MODULE GlobalQueue -----------------------------
(***************************************************************************)
(* The cluster: every node runs one App whose event loop                   *)
(* (App::loop_until_shutdown) interleaves the replication handlers of      *)
(* module Replication with the epoch handlers of module EpochLog, and one  *)
(* EtcdEpochCoordinator task beside it.  A proposal is computed from the   *)
(* node's own consensus offsets, and an epoch is applied against the       *)
(* transactions the node holds at that moment.                             *)
(***************************************************************************)
EXTENDS Replication, EpochLog

vars == <<replicationVars, epochLogVars>>

Init == ReplicationInit /\ EpochLogInit

\* The arms of tokio::select! in loop_until_shutdown.  An App whose task has
\* panicked, or that never leaves a handler, takes no further arm.
AppReplicates(n) ==
    /\ n \notin panicked
    /\ ReplicationStep(n)
    /\ UNCHANGED epochLogVars

\* Mutant of AppProposes: what the node itself holds is proposed.
AppProposesOwn(n) ==
    /\ n \notin spinning
    /\ CommitEpochIfNeeded(n, self_offsets[n])
    /\ UNCHANGED replicationVars

AppProposes(n) ==
    /\ n \notin spinning
    /\ CommitEpochIfNeeded(n, consensus_offset[n])
    /\ UNCHANGED replicationVars

AppApplies(n) ==
    /\ n \notin spinning
    /\ HandleEpochCoordinatorUpdates(n, transactions[n])
    /\ UNCHANGED replicationVars

Coordinator(n) == CoordinatorStep(n) /\ UNCHANGED replicationVars

\* A message that is lost is one that is never handled.
Next ==
    \E n \in Peers :
        AppReplicates(n) \/ AppProposes(n) \/ AppApplies(n) \/ Coordinator(n)

Spec == Init /\ [][Next]_vars

-----------------------------------------------------------------------------
(***************************************************************************)
(* Properties of the composition.                                          *)
(***************************************************************************)

HeldByQuorum(t) ==
    Cardinality({p \in Peers : t \in transactions[p]}) >= ConsensusNodes

\* Every transaction of a committed epoch is held by ConsensusNodes nodes,
\* although the epoch was computed from offsets known long before its commit.
CommittedHeldByQuorum ==
    \A i \in 1 .. Len(history) : \A t \in IdsOf(history[i]) : HeldByQuorum(t)

\* If every node must hold a transaction before it is committed, no App meets
\* an epoch with a transaction it lacks, and so none panics.
UnanimousNeverPanics ==
    ConsensusNodes >= Cardinality(Peers) => panicked = {}

\* What waits in a coordinator's watch channel is held by a quorum too.
ProposedHeldByQuorum ==
    \A n \in Peers : \A t \in IdsOf(request[n]) : HeldByQuorum(t)

\* The inductive invariant of the cluster.
ClusterInv ==
    /\ ReplicationInv
    /\ EpochLogInv
    /\ ProposedHeldByQuorum
    /\ CommittedHeldByQuorum
    /\ UnanimousNeverPanics

\* A node that falls behind is to catch up by fetching what it misses; an App
\* that panics on an epoch it cannot execute yet does not.
NoAppPanics == panicked = {}

=============================================================================
