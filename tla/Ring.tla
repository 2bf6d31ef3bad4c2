-------------------------------- MODULE Ring ---------------------------------
(***************************************************************************)
(* When a node proposes an epoch (maroon/src/epoch_decision_engine.rs) and *)
(* whether its proposal can succeed (epoch_coordinator/src/etcd.rs).       *)
(* Time is counted in epoch periods.  Clocks show the time since their     *)
(* process started, and an epoch carries the clock of its creator, so only *)
(* the time since the latest epoch and the differences in uptime matter.   *)
(*                                                                         *)
(* A node proposes the number after the last epoch it was told of, so the  *)
(* compare of the commit fails unless it was told of the latest one.  The  *)
(* watch that tells it begins with what is committed after its creation.   *)
(* EpochLog has the numbers, the contents and the resumed watches.         *)
(***************************************************************************)
EXTENDS Membership

VARIABLES
    latest_epoch,   \* the creator of the latest committed epoch
    since,          \* periods since it was created
    told            \* what each node knows of it, see Tidings

ringVars == <<latest_epoch, since, told>>

\* No watch yet, a watch that began after the latest epoch, the latest epoch on
\* its way, or known; before the first epoch a node with a watch knows all.
Tidings == {"unwatched", "missed", "coming", "known"}

NoEpoch == -1
Uptimes == {setup.uptime[n] : n \in setup.nodes}

\* Later than this everybody is due, so time stands still.
MaxSince ==
    Cardinality(setup.nodes) + 1 + CHOOSE u \in Uptimes :
                                      \A v \in Uptimes : v <= u

RingTypeOK ==
    /\ latest_epoch \in Nodes \cup {NoEpoch}
    /\ since \in 0 .. MaxSince
    /\ told \in [Nodes -> Tidings]

\* Nodes that have been up for some time when the first epoch is due watch etcd.
RingInit ==
    /\ latest_epoch = NoEpoch /\ since = 0
    /\ told = [n \in Nodes |-> IF setup.uptime[n] > 0 THEN "known"
                                                    ELSE "unwatched"]

\* The index of a node in a sorted list, 0 for one that is not listed.
PlaceIn(list, p) ==
    IF p \in list THEN Cardinality({q \in list : q < p}) ELSE 0

\* Mutant of CalculatePosition: the distance in either direction.
CalculatePositionUnordered(list, self, latest) ==
    LET commiter == IF latest = NoEpoch THEN self ELSE latest
        a == PlaceIn(list, self)
        b == PlaceIn(list, commiter)
    IN IF a < b THEN b - a ELSE a - b

\* calculate_position: how far self is behind the latest commiter in the ring;
\* the commiter itself gets its place in the list.
CalculatePosition(list, self, latest) ==
    LET commiter == IF latest = NoEpoch THEN self ELSE latest
        a == PlaceIn(list, self)
        b == PlaceIn(list, commiter)
        total == Cardinality(list)
    IN IF a = b THEN a ELSE (total - b + a) % total

\* from_start() on n minus the creation time of the latest epoch.
Elapsed(n) ==
    since + setup.uptime[n]
          - (IF latest_epoch = NoEpoch THEN 0 ELSE setup.uptime[latest_epoch])

\* Mutant of ShouldSend: only in the one period that is the node's own.
ShouldSendInTurn(n) ==
    Elapsed(n) = CalculatePosition(nodes[n], n, latest_epoch) + 2

ShouldSend(n) == Elapsed(n) > CalculatePosition(nodes[n], n, latest_epoch) + 1

\* EtcdEpochCoordinator::start: the first watch has no start revision and begins
\* now.  (One that breaks later is resumed where it was, see EpochLog.)
StartWatch(n) ==
    /\ n \in Live
    /\ told[n] = "unwatched"
    /\ told' = [told EXCEPT ![n] = IF latest_epoch = NoEpoch THEN "known"
                                                            ELSE "missed"]
    /\ UNCHANGED <<latest_epoch, since, membershipVars>>

\* The ticker of commit_epoch_if_needed when it is time, and the commit.  The
\* compare finds the number free if n was told of the latest epoch.  Otherwise
\* it is n's own latest number, which is skipped, or the compare fails, and
\* nothing changes.
PublishEpoch(n) ==
    /\ n \in Live
    /\ ShouldSend(n)
    /\ told[n] = "known"
    /\ latest_epoch' = n
    /\ since' = 0
    /\ told' = [m \in Nodes |-> IF told[m] = "unwatched" THEN "unwatched"
                                                        ELSE "coming"]
    /\ UNCHANGED membershipVars

\* handle_watch_message, then update_latest_epoch.
ReceiveEpoch(n) ==
    /\ n \in Live
    /\ told[n] = "coming"
    /\ told' = [told EXCEPT ![n] = "known"]
    /\ UNCHANGED <<latest_epoch, since, membershipVars>>

Tick ==
    /\ since < MaxSince
    /\ since' = since + 1
    /\ UNCHANGED <<latest_epoch, told, membershipVars>>

RingNext ==
    \/ Tick
    \/ \E n \in Nodes : StartWatch(n) \/ PublishEpoch(n) \/ ReceiveEpoch(n)

-----------------------------------------------------------------------------
\* The first period in which n is due.
DueAt(n) ==
    CalculatePosition(nodes[n], n, latest_epoch) + 2 - (Elapsed(n) - since)

\* Two nodes that have the same ring and started at the same time are not due
\* together.  (Not so with different lists, with different uptimes, when a node
\* is due early by as much as it is older, or for the creator of the latest
\* epoch, which gets its place in the list.  The compare settles those races.)
TurnsApart ==
    \A n, m \in Live \ {latest_epoch} :
        /\ n # m /\ nodes[n] = nodes[m] /\ {n, m} \subseteq nodes[n]
        /\ setup.uptime[n] = setup.uptime[m]
        => DueAt(n) # DueAt(m)

\* There is always another epoch, whoever dies, breaks its connections, has
\* another ring or started later than the others, unless in the end only nodes
\* are left that missed the latest epoch: their proposals fail for ever.
EpochsKeepComing ==
    \/ []<>(since = 0)
    \/ <>[](\A n \in Live : told[n] = "missed")

=============================================================================
