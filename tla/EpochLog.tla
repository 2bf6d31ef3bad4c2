------------------------------- MODULE EpochLog -------------------------------
(***************************************************************************)
(* How the nodes agree on a sequence of epochs: the part of App            *)
(* (maroon/src/app/app.rs) that proposes and applies epochs, and its       *)
(* EtcdEpochCoordinator (epoch_coordinator/src/etcd.rs), which commits the *)
(* proposed epoch with a compare-and-put on /maroon/history/<sn> and hands *)
(* the epochs it sees on /maroon/latest back to the App.                   *)
(*                                                                         *)
(* Two things come from outside (module GlobalQueue supplies them): the    *)
(* consensus offsets a proposal is computed from and whether the node      *)
(* holds the transactions of an epoch it applies.  An epoch's creator,     *)
(* creation time and hash are left out, and EpochDecisionEngine's          *)
(* should_send is a free choice: a node may propose at any tick.           *)
(***************************************************************************)
EXTENDS KeyRanges

CONSTANTS
    MaxEpochs,      \* bound: no proposal once that many epochs are committed
    MaxReconnects   \* bound: watch streams the coordinators lose in all

ASSUME BoundsAssumption == MaxEpochs \in Nat /\ MaxReconnects \in Nat

VARIABLES
    panicked,          \* the nodes whose App task has panicked
    commited_offsets,  \* App::commited_offsets
    epochs,            \* App::epochs
    runtime_input,     \* batches sent over runtime_interface, oldest first
    request,           \* value of the tokio watch channel App -> coordinator
    unseen,            \* that value has not been seen by the coordinator yet
    last_committed_sn, \* coordinator: sn of its last successful commit
    watched,           \* etcd: how much of history the watch stream has sent
    last_rev,          \* coordinator: position of the last watch message
    joined_at,         \* history variable: Len(history) at the watch's start
    reconnects,        \* how many watch streams have been lost in all
    updates,           \* unbounded channel of EpochUpdates to the App
    history            \* etcd: committed epochs, in revision order

appVars == <<panicked, commited_offsets, epochs, runtime_input>>
watchVars == <<watched, last_rev, joined_at, reconnects>>
epochLogVars == <<appVars, request, unseen, last_committed_sn, watchVars,
                  updates, history>>

Epoch == [sequence_number : Nat, increments : SUBSET Interval]

\* the initial None of the watch channel
NoRequest == [sequence_number |-> -1, increments |-> {}]

\* The ids of an epoch: what the loops over interval.iter() visit.
IdsOf(epoch) ==
    {t \in Tx : \E i \in epoch.increments :
                    i.range = t[1] /\ t[2] \in i.left .. i.right}

EpochLogTypeOK ==
    /\ panicked \in SUBSET Peers
    /\ commited_offsets \in [Peers -> [Ranges -> OptOffset]]
    /\ epochs \in [Peers -> Seq(Epoch)]
    /\ runtime_input \in [Peers -> Seq(SUBSET Tx)]
    /\ request \in [Peers -> Epoch \cup {NoRequest}]
    /\ unseen \in [Peers -> BOOLEAN]
    /\ last_committed_sn \in [Peers -> Nat \cup {-1}]
    /\ watched \in [Peers -> Nat]
    /\ last_rev \in [Peers -> Nat]
    /\ joined_at \in [Peers -> Nat]
    /\ reconnects \in Nat
    /\ updates \in [Peers -> Seq(Epoch)]
    /\ history \in Seq(Epoch)

\* App::new and EtcdEpochCoordinator::start, with an empty etcd.
EpochLogInit ==
    /\ panicked = {}
    /\ commited_offsets = [n \in Peers |-> [r \in Ranges |-> None]]
    /\ epochs = [n \in Peers |-> <<>>]
    /\ runtime_input = [n \in Peers |-> <<>>]
    /\ request = [n \in Peers |-> NoRequest]
    /\ unseen = [n \in Peers |-> FALSE]
    /\ last_committed_sn = [n \in Peers |-> -1]
    /\ watched = [n \in Peers |-> 0]
    /\ last_rev = [n \in Peers |-> 0]
    /\ joined_at = [n \in Peers |-> 0]
    /\ reconnects = 0
    /\ updates = [n \in Peers |-> <<>>]
    /\ history = <<>>

-----------------------------------------------------------------------------
(***************************************************************************)
(* A node proposes an epoch.                                               *)
(***************************************************************************)

\* Mutant of CalculateEpochIncrements: the start is not moved past the last
\* commited offset.
IncrementsFromCommited(n, consensus) ==
    {[range |-> r,
      left |-> IF commited_offsets[n][r] = None THEN 0
                                                ELSE commited_offsets[n][r],
      right |-> consensus[r]] :
        r \in {s \in Ranges : commited_offsets[n][s] < consensus[s]}}

\* calculate_epoch_increments
CalculateEpochIncrements(n, consensus) ==
    {[range |-> r, left |-> commited_offsets[n][r] + 1,
      right |-> consensus[r]] :
        r \in {s \in Ranges : commited_offsets[n][s] < consensus[s]}}

\* Epoch::next numbers an epoch after the last one the node has applied.
NextSequenceNumber(n) ==
    IF epochs[n] = <<>> THEN 0
                        ELSE epochs[n][Len(epochs[n])].sequence_number + 1

\* commit_epoch_if_needed.  The watch channel keeps only the latest proposal.
CommitEpochIfNeeded(n, consensus) ==
    /\ n \notin panicked
    /\ Len(history) < MaxEpochs
    /\ request' = [request EXCEPT ![n] =
                     [sequence_number |-> NextSequenceNumber(n),
                      increments |-> CalculateEpochIncrements(n, consensus)]]
    /\ unseen' = [unseen EXCEPT ![n] = TRUE]
    /\ UNCHANGED <<appVars, last_committed_sn, watchVars, updates, history>>

-----------------------------------------------------------------------------
(***************************************************************************)
(* The coordinator commits it.                                             *)
(***************************************************************************)

\* Mutant of NotInHistory: the put is not guarded by the comparison.
PutAlways(sn) == TRUE

\* Compare::version(/maroon/history/<sn>) = 0
NotInHistory(sn) ==
    \A i \in 1 .. Len(history) : history[i].sequence_number # sn

\* EtcdEpochCoordinator::start, a change of the watch channel.  Once the App
\* has panicked its sender is gone, changed() returns at once every time and
\* the last proposal is taken again and again.
TakeRequest(n) ==
    /\ request[n] # NoRequest
    /\ unseen[n] \/ n \in panicked
    /\ unseen' = [unseen EXCEPT ![n] = FALSE]
    /\ UNCHANGED <<appVars, request, watchVars, updates>>

\* ... with the number of this coordinator's own last commit: dropped
SkipCommitted(n) ==
    /\ TakeRequest(n)
    /\ request[n].sequence_number = last_committed_sn[n]
    /\ UNCHANGED <<last_committed_sn, history>>

\* ... handle_commit_new_epoch, the transaction applies and etcd says so
CommitSucceeds(n) ==
    /\ TakeRequest(n)
    /\ request[n].sequence_number # last_committed_sn[n]
    /\ NotInHistory(request[n].sequence_number)
    /\ history' = Append(history, request[n])
    /\ last_committed_sn' = [last_committed_sn EXCEPT
                               ![n] = request[n].sequence_number]

\* ... the transaction applies but the client gets an error
CommitAnswerLost(n) ==
    /\ TakeRequest(n)
    /\ request[n].sequence_number # last_committed_sn[n]
    /\ NotInHistory(request[n].sequence_number)
    /\ history' = Append(history, request[n])
    /\ UNCHANGED last_committed_sn

\* ... the comparison fails, or an error comes before the transaction applies
CommitFails(n) ==
    /\ TakeRequest(n)
    /\ request[n].sequence_number # last_committed_sn[n]
    /\ UNCHANGED <<last_committed_sn, history>>

-----------------------------------------------------------------------------
(***************************************************************************)
(* Committed epochs come back over the watch and are applied.              *)
(***************************************************************************)

\* Mutant of WatchMessage: only the latest value of the key is delivered.
WatchLatestOnly(n) ==
    /\ n \notin panicked
    /\ watched[n] < Len(history)
    /\ watched' = [watched EXCEPT ![n] = Len(history)]
    /\ last_rev' = [last_rev EXCEPT ![n] = Len(history)]
    /\ updates' = [updates EXCEPT
                     ![n] = Append(updates[n], history[Len(history)])]
    /\ UNCHANGED <<appVars, request, unseen, last_committed_sn, joined_at,
                   reconnects, history>>

\* handle_watch_message: the next revision of /maroon/latest reaches the App's
\* channel.  (A panicked App has dropped the other end of that channel.)
WatchMessage(n) ==
    /\ n \notin panicked
    /\ watched[n] < Len(history)
    /\ watched' = [watched EXCEPT ![n] = watched[n] + 1]
    /\ last_rev' = [last_rev EXCEPT ![n] = watched[n] + 1]
    /\ updates' = [updates EXCEPT
                     ![n] = Append(updates[n], history[watched[n] + 1])]
    /\ UNCHANGED <<appVars, request, unseen, last_committed_sn, joined_at,
                   reconnects, history>>

\* Mutant of Reconnect: the start revision is never given.
ReconnectFromNow(n) ==
    /\ n \notin panicked
    /\ reconnects < MaxReconnects
    /\ reconnects' = reconnects + 1
    /\ watched' = [watched EXCEPT ![n] = Len(history)]
    /\ joined_at' = IF last_rev[n] = 0
                    THEN [joined_at EXCEPT ![n] = Len(history)]
                    ELSE joined_at
    /\ UNCHANGED <<appVars, request, unseen, last_committed_sn, last_rev,
                   updates, history>>

\* The watch stream breaks and is created again: from the revision of the last
\* message, inclusive, or from now on if no message was ever received.  The
\* first watch of a process that starts late is such a watch too.
Reconnect(n) ==
    /\ n \notin panicked
    /\ reconnects < MaxReconnects
    /\ reconnects' = reconnects + 1
    /\ \/ /\ last_rev[n] = 0
          /\ watched' = [watched EXCEPT ![n] = Len(history)]
          /\ joined_at' = [joined_at EXCEPT ![n] = Len(history)]
       \/ /\ last_rev[n] # 0
          /\ watched' = [watched EXCEPT ![n] = last_rev[n] - 1]
          /\ UNCHANGED joined_at
    /\ UNCHANGED <<appVars, request, unseen, last_committed_sn, last_rev,
                   updates, history>>

\* Mutant of CommitedAfter: only the ranges of the last epoch are kept.
CommitedByEpochOnly(n, epoch) ==
    [r \in Ranges |->
        IF \E i \in epoch.increments : i.range = r
        THEN (CHOOSE i \in epoch.increments : i.range = r).right
        ELSE None]

\* commited_offsets.insert for the interval of each range the epoch advances
CommitedAfter(n, epoch) ==
    [r \in Ranges |->
        IF \E i \in epoch.increments : i.range = r
        THEN (CHOOSE i \in epoch.increments : i.range = r).right
        ELSE commited_offsets[n][r]]

\* handle_epoch_coordinator_updates.  The offsets and the epoch are recorded
\* first; the panic on a transaction the node does not hold comes after that.
HandleEpochCoordinatorUpdates(n, held) ==
    /\ n \notin panicked
    /\ updates[n] # <<>>
    /\ LET epoch == Head(updates[n])
       IN /\ commited_offsets' = [commited_offsets EXCEPT
                                    ![n] = CommitedAfter(n, epoch)]
          /\ epochs' = [epochs EXCEPT ![n] = Append(epochs[n], epoch)]
          /\ \/ /\ IdsOf(epoch) \subseteq held
                /\ runtime_input' = [runtime_input EXCEPT ![n] =
                     IF IdsOf(epoch) = {} THEN runtime_input[n]
                     ELSE Append(runtime_input[n], IdsOf(epoch))]
                /\ UNCHANGED panicked
             \/ /\ ~ IdsOf(epoch) \subseteq held
                /\ panicked' = panicked \cup {n}
                /\ UNCHANGED runtime_input
    /\ updates' = [updates EXCEPT ![n] = Tail(updates[n])]
    /\ UNCHANGED <<request, unseen, last_committed_sn, watchVars, history>>

-----------------------------------------------------------------------------
CoordinatorStep(n) ==
    \/ SkipCommitted(n)
    \/ CommitSucceeds(n)
    \/ CommitAnswerLost(n)
    \/ CommitFails(n)
    \/ WatchMessage(n)
    \/ Reconnect(n)

\* On its own the module takes any consensus offsets, from one tick to the next
\* too, and lets the node hold all of an epoch or not.
EpochLogNext ==
    \E n \in Peers :
        \/ \E consensus \in [Ranges -> OptOffset] :
              CommitEpochIfNeeded(n, consensus)
        \/ \E held \in {{}, Tx} : HandleEpochCoordinatorUpdates(n, held)
        \/ CoordinatorStep(n)

EpochLogSpec == EpochLogInit /\ [][EpochLogNext]_epochLogVars

\* etcd keeps a live watch supplied and the App's select! keeps serving its
\* channels; nothing makes a node propose or a proposal succeed.
EpochLogFairness ==
    \A n \in Peers :
        /\ WF_epochLogVars(WatchMessage(n))
        /\ WF_epochLogVars(\E held \in {{}, Tx} :
                              HandleEpochCoordinatorUpdates(n, held))

FairEpochLogSpec == EpochLogSpec /\ EpochLogFairness

-----------------------------------------------------------------------------
(***************************************************************************)
(* Properties.                                                             *)
(***************************************************************************)

\* The history is numbered without a hole, whoever wins each comparison and
\* whatever the coordinators make of lost answers.
HistoryNumbered ==
    \A i \in 1 .. Len(history) : history[i].sequence_number = i - 1

\* No watch was created, without a start revision, after the first epoch.
EveryoneFromTheStart == \A n \in Peers : joined_at[n] = 0

\* An interval follows the first k epochs of the history: it starts right
\* after everything they commit in its range.
Follows(interval, k) ==
    /\ \A i \in 1 .. k : \A a \in history[i].increments :
          a.range = interval.range => a.right < interval.left
    /\ \/ interval.left = 0
       \/ \E i \in 1 .. k : \E a \in history[i].increments :
             a.range = interval.range /\ a.right = interval.left - 1

\* The committed epochs tile every range: no id is committed twice and none is
\* skipped, although every node computes the increments from its own view.
HistoryTilesRanges ==
    \A k \in 1 .. Len(history) : \A a \in history[k].increments :
        a.left <= a.right /\ Follows(a, k - 1)

\* ... which holds as long as no node missed the first epochs.
EpochsTile == EveryoneFromTheStart => HistoryTilesRanges

\* A node applies committed epochs only, each one right after its predecessor;
\* a watch created again may repeat the last one and nothing else.
AppliedInOrder ==
    \A n \in Peers : \A i \in 1 .. Len(epochs[n]) :
        LET sn == epochs[n][i].sequence_number
        IN /\ sn + 1 \in 1 .. Len(history)
           /\ epochs[n][i] = history[sn + 1]
           /\ i > 1 => sn - epochs[n][i - 1].sequence_number \in {0, 1}
           /\ i = 1 => sn = joined_at[n]

(***************************************************************************)
(* The inductive invariant behind these properties.  What a node has seen  *)
(* are the epochs it applied followed by those waiting in its channel.     *)
(***************************************************************************)
Seen(n) == epochs[n] \o updates[n]

\* A sequence of epochs that walks along the history from position `first` on,
\* repeating some of them.
WalksHistory(list, first) ==
    \A i \in 1 .. Len(list) :
        /\ list[i].sequence_number + 1 \in 1 .. Len(history)
        /\ list[i] = history[list[i].sequence_number + 1]
        /\ i = 1 => list[i].sequence_number = first
        /\ i > 1 => list[i].sequence_number
                      - list[i - 1].sequence_number \in {0, 1}

SeenInOrder == \A n \in Peers : WalksHistory(Seen(n), joined_at[n])

\* The watch stands right after the last epoch seen, or right before it.
WatchPositions ==
    \A n \in Peers :
        /\ last_rev[n] <= Len(history)
        /\ joined_at[n] <= Len(history)
        /\ last_rev[n] = 0 => Seen(n) = <<>> /\ watched[n] = joined_at[n]
        /\ last_rev[n] # 0 =>
              /\ Seen(n) # <<>>
              /\ Seen(n)[Len(Seen(n))].sequence_number = last_rev[n] - 1
              /\ watched[n] \in {last_rev[n] - 1, last_rev[n]}

OneIntervalPerRange(epoch) ==
    \A a, b \in epoch.increments : a.range = b.range => a = b

\* What is proposed fits behind the epochs it was computed from.
ProposalsFit ==
    \A n \in Peers :
        /\ request[n].sequence_number <= Len(history)
        /\ OneIntervalPerRange(request[n])
        /\ EveryoneFromTheStart =>
              \A a \in request[n].increments :
                  a.left <= a.right /\ Follows(a, request[n].sequence_number)

\* c is how far the first k epochs commit range r.
ReachedBy(r, c, k) ==
    /\ \A i \in 1 .. k : \A a \in history[i].increments :
          a.range = r => a.right <= c
    /\ \/ c = None
       \/ \E i \in 1 .. k : \E a \in history[i].increments :
             a.range = r /\ a.right = c

\* commited_offsets "can be recalculated from epochs".
CommitedMatchEpochs ==
    EveryoneFromTheStart =>
        \A n \in Peers, r \in Ranges :
            ReachedBy(r, commited_offsets[n][r], NextSequenceNumber(n))

EpochLogInv ==
    /\ EpochLogTypeOK
    /\ HistoryNumbered
    /\ \A i \in 1 .. Len(history) : OneIntervalPerRange(history[i])
    /\ SeenInOrder
    /\ WatchPositions
    /\ ProposalsFit
    /\ CommitedMatchEpochs
    /\ EpochsTile

\* commited_offsets only ever moves forward.
CommitedNeverRegresses ==
    [][EveryoneFromTheStart =>
          \A n \in Peers, r \in Ranges :
              commited_offsets'[n][r] >= commited_offsets[n][r]]_epochLogVars

\* No node hands a transaction to its runtime twice.
ExecutedOnce ==
    \A n \in Peers : \A i, j \in 1 .. Len(runtime_input[n]) :
        i # j => runtime_input[n][i] \cap runtime_input[n][j] = {}

\* Every committed epoch reaches every node, unless the node's watch was created
\* after it or the App panicked on the way.
EveryEpochApplied ==
    \A k \in 1 .. MaxEpochs, n \in Peers :
        Len(history) >= k ~>
            \/ n \in panicked
            \/ joined_at[n] >= k
            \/ \E i \in 1 .. Len(epochs[n]) :
                  epochs[n][i].sequence_number = k - 1

\* The epochs of the history and of each node, as batches of transactions,
\* are the agreed log of TotalOrder and each node's observation of it.
Batches(list) == [i \in 1 .. Len(list) |-> IdsOf(list[i])]

Abstract == INSTANCE TotalOrder
            WITH Nodes <- Peers,
                 Transactions <- Tx,
                 log <- Batches(history),
                 observed <- [n \in Peers |-> Batches(epochs[n])]

\* As long as no watch breaks, nodes agree on one total order of transactions.
ImplementsTotalOrder ==
    /\ Abstract!TotalOrderInit
    /\ [][reconnects' = 0 => Abstract!TotalOrderNext]_<<Batches(history),
                                        [n \in Peers |-> Batches(epochs[n])]>>

=============================================================================
