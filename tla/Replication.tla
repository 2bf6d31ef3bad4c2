----------------------------- MODULE Replication -----------------------------
(***************************************************************************)
(* How the nodes replicate transactions: the part of App                   *)
(* (maroon/src/app/app.rs) that stores the transactions gateways send,     *)
(* gossips how far the node's contiguous prefix of every range reaches,    *)
(* fetches what is missing from the furthest peer and computes which       *)
(* prefix ConsensusNodes nodes hold.  Payload and status of a transaction  *)
(* are left out: no handler modelled here reads them.                      *)
(***************************************************************************)
EXTENDS KeyRanges

CONSTANTS
    ConsensusNodes, \* Params::consensus_nodes
    Redeliver       \* TRUE: a sent message may arrive late and repeatedly

ASSUME ConsensusAssumption == ConsensusNodes \in Nat \ {0}
ASSUME RedeliverAssumption == Redeliver \in BOOLEAN

VARIABLES
    spinning,          \* the nodes whose App is caught in an endless loop
    transactions,      \* App::transactions: the ids each node holds
    self_offsets,      \* App::self_offsets
    offsets,           \* App::offsets
    consensus_offset,  \* App::consensus_offset
    state_msgs,        \* Outbox::State in flight
    request_msgs,      \* M2MRequest::GetMissingTx in flight
    missing_msgs       \* M2MRequest::MissingTx in flight

netVars == <<state_msgs, request_msgs, missing_msgs>>
replicationVars == <<spinning, transactions, self_offsets, offsets,
                     consensus_offset, netVars>>

StateMsg == [from : Peers, to : Peers, offsets : [Ranges -> OptOffset]]
RequestMsg == [from : Peers, to : Peers, txs : SUBSET Tx]
MissingMsg == [to : Peers, txs : SUBSET Tx]

ReplicationTypeOK ==
    /\ spinning \in SUBSET Peers
    /\ transactions \in [Peers -> SUBSET Tx]
    /\ self_offsets \in [Peers -> [Ranges -> OptOffset]]
    /\ offsets \in [Peers -> [Ranges -> [Peers -> OptOffset]]]
    /\ consensus_offset \in [Peers -> [Ranges -> OptOffset]]
    /\ state_msgs \in SUBSET StateMsg
    /\ request_msgs \in SUBSET RequestMsg
    /\ missing_msgs \in SUBSET MissingMsg

\* App::new
ReplicationInit ==
    /\ spinning = {}
    /\ transactions = [n \in Peers |-> {}]
    /\ self_offsets = [n \in Peers |-> [r \in Ranges |-> None]]
    /\ offsets = [n \in Peers |-> [r \in Ranges |-> [p \in Peers |-> None]]]
    /\ consensus_offset = [n \in Peers |-> [r \in Ranges |-> None]]
    /\ state_msgs = {}
    /\ request_msgs = {}
    /\ missing_msgs = {}

-----------------------------------------------------------------------------
(***************************************************************************)
(* Transactions arrive, from a gateway or as the answer to a request.      *)
(***************************************************************************)

\* The ranges txs_to_range_tx_map groups a batch by.
TouchedRanges(txs) == {t[1] : t \in txs}

\* Mutant of ScanStart: a new range starts at 0 without its transaction 0.
ScanStartUnchecked(n, r, txs) ==
    IF self_offsets[n][r] = None THEN 0 ELSE self_offsets[n][r]

\* Where update_self_offsets starts its scan: the known offset, or 0 if the
\* range is new and the batch itself brings its first transaction.
ScanStart(n, r, txs) ==
    IF self_offsets[n][r] = None /\ <<r, 0>> \in txs THEN 0
                                                     ELSE self_offsets[n][r]

\* The scan: step on while the next id is in the map.
LastContiguous(held, r, start) ==
    CHOOSE o \in start .. MaxOffset :
        /\ \A i \in start + 1 .. o : <<r, i>> \in held
        /\ <<r, o + 1>> \notin held

\* update_self_offsets followed by move_offset_pointer for each update.
StoreTransactions(n, txs) ==
    LET held == transactions[n] \cup txs
        moved == {r \in TouchedRanges(txs) : ScanStart(n, r, txs) # None}
        new == [r \in Ranges |->
                  IF r \in moved
                  THEN LastContiguous(held, r, ScanStart(n, r, txs))
                  ELSE self_offsets[n][r]]
    IN /\ transactions' = [transactions EXCEPT ![n] = held]
       /\ self_offsets' = [self_offsets EXCEPT ![n] = new]
       /\ offsets' = [offsets EXCEPT ![n] =
                        [r \in Ranges |->
                           IF r \in moved
                           THEN [offsets[n][r] EXCEPT ![n] = new[r]]
                           ELSE offsets[n][r]]]

\* Inbox::NewTransaction.  Gateways send each transaction to the nodes they
\* are connected to, so any node may get any id, in any order, or never.
NewTransaction(n, t) ==
    /\ n \notin spinning
    /\ StoreTransactions(n, {t})
    /\ UNCHANGED <<spinning, consensus_offset, netVars>>

\* A delivered message leaves the network unless copies of it may follow:
\* the sender's ticker repeats it for as long as its state is the same.
Leftover(msgs, m) == IF Redeliver THEN msgs ELSE msgs \ {m}

\* Inbox::MissingTx
MissingTx(n, m) ==
    /\ n \notin spinning
    /\ m.to = n
    /\ StoreTransactions(n, m.txs)
    /\ missing_msgs' = Leftover(missing_msgs, m)
    /\ UNCHANGED <<spinning, consensus_offset, state_msgs, request_msgs>>

\* Inbox::RequestMissingTxs.  An id that is not in the map is never skipped:
\* the loop then runs forever and the App handles nothing any more.
RequestMissingTxs(n, m) ==
    /\ n \notin spinning
    /\ m.to = n
    /\ request_msgs' = Leftover(request_msgs, m)
    /\ IF m.txs \subseteq transactions[n]
       THEN /\ missing_msgs' = missing_msgs
                                 \cup {[to |-> m.from, txs |-> m.txs]}
            /\ UNCHANGED spinning
       ELSE /\ spinning' = spinning \cup {n}
            /\ UNCHANGED missing_msgs
    /\ UNCHANGED <<transactions, self_offsets, offsets, consensus_offset,
                   state_msgs>>

-----------------------------------------------------------------------------
(***************************************************************************)
(* Offsets are gossiped and the quorum is computed from them.              *)
(***************************************************************************)

\* Mutant of State: the offsets are recorded for the receiver itself.
StateForSelf(n, m) ==
    /\ n \notin spinning
    /\ m.to = n
    /\ offsets' = [offsets EXCEPT ![n] =
                     [r \in Ranges |->
                        IF m.offsets[r] = None
                        THEN offsets[n][r]
                        ELSE [offsets[n][r] EXCEPT ![n] = m.offsets[r]]]]
    /\ state_msgs' = Leftover(state_msgs, m)
    /\ UNCHANGED <<spinning, transactions, self_offsets, consensus_offset,
                   request_msgs, missing_msgs>>

\* Inbox::State: the advertised offsets overwrite what was known, even when
\* an older advertisement arrives after a newer one.
State(n, m) ==
    /\ n \notin spinning
    /\ m.to = n
    /\ offsets' = [offsets EXCEPT ![n] =
                     [r \in Ranges |->
                        IF m.offsets[r] = None
                        THEN offsets[n][r]
                        ELSE [offsets[n][r] EXCEPT ![m.from] = m.offsets[r]]]]
    /\ state_msgs' = Leftover(state_msgs, m)
    /\ UNCHANGED <<spinning, transactions, self_offsets, consensus_offset,
                   request_msgs, missing_msgs>>

\* consensus_maximum: the ConsensusNodes-th largest of the known offsets.
AtLeast(known, v) == {p \in Peers : known[p] >= v}

\* Mutant of ConsensusMaximum: n - 1 peers are enough.
ConsensusMaximumOfFewer(known) ==
    IF Cardinality(AtLeast(known, 0)) < ConsensusNodes - 1 THEN None
    ELSE CHOOSE v \in Offsets :
            /\ Cardinality(AtLeast(known, v)) >= ConsensusNodes - 1
            /\ Cardinality(AtLeast(known, v + 1)) < ConsensusNodes - 1

ConsensusMaximum(known) ==
    IF Cardinality(AtLeast(known, 0)) < ConsensusNodes THEN None
    ELSE CHOOSE v \in Offsets :
            /\ Cardinality(AtLeast(known, v)) >= ConsensusNodes
            /\ Cardinality(AtLeast(known, v + 1)) < ConsensusNodes

\* recalculate_consensus_offsets: a range without a quorum keeps its value.
RecalculatedConsensus(n) ==
    [r \in Ranges |->
        LET max == ConsensusMaximum(offsets[n][r])
        IN IF max = None THEN consensus_offset[n][r] ELSE max]

\* self_delays: the peers known to be furthest in a range, and the ranges in
\* which they are ahead of this node.
Furthest(n, r) ==
    {p \in Peers : \A q \in Peers : offsets[n][r][q] <= offsets[n][r][p]}

\* Mutant of DelayedRanges: ranges the node has nothing of are left out.
DelayedKnownRanges(n) ==
    {r \in Ranges : /\ self_offsets[n][r] # None
                    /\ \E p \in Furthest(n, r) :
                          offsets[n][r][p] > self_offsets[n][r]}

DelayedRanges(n) ==
    {r \in Ranges : \E p \in Furthest(n, r) :
                        offsets[n][r][p] > self_offsets[n][r]}

\* Mutant of MissingIn: the right border is one too far.
MissingInTooFar(n, r, p) ==
    {t \in Tx : /\ t[1] = r
                /\ t[2] \in self_offsets[n][r] + 1 .. offsets[n][r][p] + 1
                /\ t \notin transactions[n]}

\* What self_delays asks for in range r: the ids up to the furthest offset
\* that this node does not hold yet.
MissingIn(n, r, p) ==
    {t \in Tx : /\ t[1] = r
                /\ t[2] \in self_offsets[n][r] + 1 .. offsets[n][r][p]
                /\ t \notin transactions[n]}

\* One request per chosen peer, with the ids of all ranges it was chosen for.
Delays(n, chosen) ==
    {[from |-> n,
      to |-> p,
      txs |-> UNION {MissingIn(n, r, p) : r \in {s \in DelayedRanges(n) :
                                                    chosen[s] = p}}] :
        p \in {chosen[s] : s \in DelayedRanges(n)}}

\* advertise_offsets_and_request_missing.  Among equally advanced peers the
\* iteration order of the HashMap decides which one is asked.
AdvertiseOffsetsAndRequestMissing(n) ==
    /\ n \notin spinning
    /\ consensus_offset' = [consensus_offset EXCEPT
                              ![n] = RecalculatedConsensus(n)]
    /\ state_msgs' = state_msgs \cup
          {[from |-> n, to |-> p, offsets |-> self_offsets[n]] :
              p \in Peers \ {n}}
    /\ \E chosen \in [DelayedRanges(n) -> Peers] :
          /\ \A r \in DelayedRanges(n) : chosen[r] \in Furthest(n, r)
          /\ request_msgs' = request_msgs \cup Delays(n, chosen)
    /\ UNCHANGED <<spinning, transactions, self_offsets, offsets, missing_msgs>>

-----------------------------------------------------------------------------
\* A message is lost: a failed gossip publish, a broken m2m connection.  With
\* Redeliver a lost message is one that is never handled.
LoseMessage ==
    /\ ~ Redeliver
    /\ \/ \E m \in state_msgs : /\ state_msgs' = state_msgs \ {m}
                                 /\ UNCHANGED <<request_msgs, missing_msgs>>
       \/ \E m \in request_msgs : /\ request_msgs' = request_msgs \ {m}
                                   /\ UNCHANGED <<state_msgs, missing_msgs>>
       \/ \E m \in missing_msgs : /\ missing_msgs' = missing_msgs \ {m}
                                   /\ UNCHANGED <<state_msgs, request_msgs>>
    /\ UNCHANGED <<spinning, transactions, self_offsets, offsets,
                   consensus_offset>>

\* What the event loop of node n's App does for replication.
ReplicationStep(n) ==
    \/ \E t \in Tx : NewTransaction(n, t)
    \/ \E m \in state_msgs : State(n, m)
    \/ \E m \in request_msgs : RequestMissingTxs(n, m)
    \/ \E m \in missing_msgs : MissingTx(n, m)
    \/ AdvertiseOffsetsAndRequestMissing(n)

ReplicationNext ==
    \/ \E n \in Peers : ReplicationStep(n)
    \/ LoseMessage

ReplicationSpec == ReplicationInit /\ [][ReplicationNext]_replicationVars

(***************************************************************************)
(* The tickers of a running App never stop, and what is sent again and     *)
(* again gets through again and again: gossip and m2m streams lose single  *)
(* messages, not all of them.  Gateways promise nothing.                   *)
(***************************************************************************)
ReplicationFairness ==
    /\ \A n \in Peers :
          WF_replicationVars(AdvertiseOffsetsAndRequestMissing(n))
    /\ \A n \in Peers : \A p \in Peers \ {n} :
          /\ SF_replicationVars(\E m \in state_msgs :
                                   m.from = p /\ State(n, m))
          /\ SF_replicationVars(\E m \in request_msgs :
                                   m.from = p /\ RequestMissingTxs(n, m))
    /\ \A n \in Peers :
          SF_replicationVars(\E m \in missing_msgs : MissingTx(n, m))

FairReplicationSpec == ReplicationSpec /\ ReplicationFairness

-----------------------------------------------------------------------------
(***************************************************************************)
(* Properties.                                                             *)
(***************************************************************************)

\* The offset a node advertises for a range is exact: it holds every id up to
\* it and not the next one, in whatever order and from whomever the ids came.
SelfOffsetsExact ==
    \A n \in Peers, r \in Ranges :
        /\ \A o \in 0 .. self_offsets[n][r] : <<r, o>> \in transactions[n]
        /\ <<r, self_offsets[n][r] + 1>> \notin transactions[n]

\* No node believes a peer to be further than that peer is, however late and
\* out of order the State messages arrive.
NeverOverestimated ==
    \A n, p \in Peers, r \in Ranges : offsets[n][r][p] <= self_offsets[p][r]

\* The loop of RequestMissingTxs that does not advance over an absent id never
\* meets one: a node is only asked for transactions it holds.
NeverSpins == spinning = {}

\* The prefix a node takes for agreed is held by ConsensusNodes nodes, although
\* the node computes it from advertisements of different ages.
ConsensusHeldByQuorum ==
    \A n \in Peers, r \in Ranges : \A o \in 0 .. consensus_offset[n][r] :
        Cardinality({p \in Peers : <<r, o>> \in transactions[p]})
            >= ConsensusNodes

\* What a State message says of its sender was true when it was sent and is
\* a lower bound ever after.
AdvertisedReached ==
    \A m \in state_msgs, r \in Ranges : m.offsets[r] <= self_offsets[m.from][r]

\* Whoever is asked for transactions holds them.
RequestsHeld ==
    \A m \in request_msgs : m.txs \subseteq transactions[m.to]

\* The inductive invariant: the properties above hold because messages in
\* flight are lower bounds of what their senders and receivers have by now.
ReplicationInv ==
    /\ ReplicationTypeOK
    /\ SelfOffsetsExact
    /\ NeverOverestimated
    /\ AdvertisedReached
    /\ RequestsHeld
    /\ NeverSpins
    /\ ConsensusHeldByQuorum

\* Every node catches up with the furthest one, as long as it keeps advertising:
\* lost requests and answers are made up for by the next ticks.
EveryoneCatchesUp ==
    \A r \in Ranges, o \in Offsets :
        (\E p \in Peers : self_offsets[p][r] >= o) ~>
            (\A n \in Peers : self_offsets[n][r] >= o)

=============================================================================
