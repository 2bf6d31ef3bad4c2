------------------------------ MODULE Requests -------------------------------
(***************************************************************************)
(* A request on its way from a client through a gateway                    *)
(* (gateway/src/core.rs, gateway/src/p2p.rs) into the nodes' transactions  *)
(* (maroon/src/app/app.rs), through the epochs to the runtimes, and its    *)
(* result back to the client's socket, over the connections of Membership. *)
(* A payload is the request it belongs to; the n-th request a gateway gets *)
(* is <<gateway, n>>.                                                      *)
(*                                                                         *)
(* Offsets are computed from full ids, as range_key.rs does.  Replication  *)
(* and EpochLog model in detail how offsets are gossiped and epochs agreed *)
(* upon; here a node copies what it lacks from any other node, and an      *)
(* epoch takes any part of what the quorum holds.                          *)
(***************************************************************************)
EXTENDS Ring, Sequences

CONSTANTS
    SingleBlobSize, \* SINGLE_BLOB_SIZE
    RangeOf         \* KEY_RANGE of every gateway

ASSUME RangesAssumption ==
    SingleBlobSize \in Nat \ {0} /\ RangeOf \in [Gateways -> Nat]

VARIABLES
    interval_left,  \* Gateway::interval_left
    new_requests,   \* Gateway::new_request_receiver
    ws_registry,    \* sockets of a gateway by id: the client that waits there
    sent,           \* NewTransaction on its way to a node
    asked,          \* <<m, id>> that a node asked m for and did not get yet
    panicked,       \* nodes whose App panicked
    transactions,   \* App::transactions: payload and status by id
    self_offsets,   \* App::self_offsets
    epochs,         \* the committed epochs: the ids of each
    applied,        \* how many of them a node applied
    executed,       \* what a node handed to its runtime: payload by id
    working,        \* ids whose result the runtime still owes the App
    updates,        \* Node2GWTxUpdate on its way to a gateway
    unheard,        \* ids reported while a node knew no gateway
    answers         \* what was sent to the client of each request

gatewayVars == <<interval_left, new_requests, ws_registry, sent>>
storeVars == <<transactions, self_offsets, asked>>
epochVars == <<epochs, applied, executed, working, panicked>>
answerVars == <<updates, unheard, answers>>
requestVars == <<gatewayVars, storeVars, epochVars, answerVars>>
vars == <<membershipVars, ringVars, requestVars>>

-----------------------------------------------------------------------------
(***************************************************************************)
(* types/src/range_key.rs                                                  *)
(***************************************************************************)
RangeFromId(id) == id \div SingleBlobSize
OffsetFromId(id) == id % SingleBlobSize
IdFrom(range, offset) == range * SingleBlobSize + offset
IntervalLeft(range) == range * SingleBlobSize
IntervalRight(range) == range * SingleBlobSize + SingleBlobSize - 1

Ranges == {RangeOf[g] : g \in Gateways}
Ids == UNION {IntervalLeft(r) .. IntervalRight(r) : r \in Ranges}

RequestsOf(s) == UNION {{g} \X (1 .. s.requests[g]) : g \in Gateways}
Requests == UNION {RequestsOf(s) : s \in Setups}
Statuses == {"Created", "Pending", "Finished"}
NoOffset == -1

\* Every piece of state has the type of the field it stands for.
RequestsTypeOK ==
    /\ MembershipTypeOK /\ RingTypeOK
    /\ interval_left \in [Gateways -> Nat]
    /\ \A g \in Gateways : \A i \in DOMAIN new_requests[g] :
          new_requests[g][i] \in Ids \X Requests
    /\ \A g \in Gateways : /\ DOMAIN ws_registry[g] \subseteq Ids
                           /\ \A id \in DOMAIN ws_registry[g] :
                                 ws_registry[g][id] \in Requests
    /\ sent \subseteq [id : Ids, request : Requests, dial : Dials]
    /\ \A n \in Nodes : /\ DOMAIN transactions[n] \subseteq Ids
                        /\ \A id \in DOMAIN transactions[n] :
                              transactions[n][id]
                                 \in [request : Requests, status : Statuses]
    /\ self_offsets \in [Nodes -> [Ranges -> NoOffset .. SingleBlobSize - 1]]
    /\ asked \in [Nodes -> SUBSET (Nodes \X Ids)]
    /\ panicked \subseteq setup.nodes
    /\ \A i \in DOMAIN epochs : epochs[i] \subseteq Ids
    /\ applied \in [Nodes -> 0 .. Len(epochs)]
    /\ \A n \in Nodes : /\ DOMAIN executed[n] \subseteq Ids
                        /\ working[n] \subseteq DOMAIN executed[n]
    /\ unheard \subseteq Ids

RequestsInit ==
    /\ interval_left = [g \in Gateways |-> IntervalLeft(RangeOf[g])]
    /\ new_requests = [g \in Gateways |-> <<>>]
    /\ ws_registry = [g \in Gateways |-> <<>>]
    /\ sent = {}
    /\ transactions = [n \in Nodes |-> <<>>]
    /\ self_offsets = [n \in Nodes |-> [r \in Ranges |-> NoOffset]]
    /\ asked = [n \in Nodes |-> {}]
    /\ panicked = {}
    /\ epochs = <<>>
    /\ applied = [n \in Nodes |-> 0]
    /\ executed = [n \in Nodes |-> <<>>]
    /\ working = [n \in Nodes |-> {}]
    /\ updates = {} /\ unheard = {}
    /\ answers = [q \in Requests |-> <<>>]

\* A map with one more entry, or with the entry replaced.
Put(map, key, value) ==
    [k \in DOMAIN map \cup {key} |-> IF k = key THEN value ELSE map[k]]

-----------------------------------------------------------------------------
(***************************************************************************)
(* The gateway.                                                            *)
(***************************************************************************)
\* In place of an answer: the handler panicked.
Panic == <<"panic", 0>>

\* Requests that gateway g got so far, and the clients it sent away.
Refused(g) == {k \in 1 .. setup.requests[g] : answers[<<g, k>>] = <<Panic>>}
Issued(g) == interval_left[g] - IntervalLeft(RangeOf[g])

\* Mutant of IdsLeft: the last id of the interval is issued, too.
IdsLeftAll(g) == interval_left[g] <= IntervalRight(RangeOf[g])

\* The guard of send_request: the last id is never issued.
IdsLeft(g) == interval_left[g] < IntervalRight(RangeOf[g])

\* Mutant of SendRequest: the id is not moved on.
SendRequestSameId(g) ==
    LET k == Issued(g) + Len(new_requests[g]) + Cardinality(Refused(g)) + 1
    IN /\ k <= setup.requests[g]
       /\ IdsLeft(g)
       /\ new_requests' = [new_requests EXCEPT ![g] =
                             Append(@, <<interval_left[g], <<g, k>> >>)]
       /\ UNCHANGED <<interval_left, answers, ws_registry, sent, storeVars,
                      epochVars, updates, unheard, membershipVars, ringVars>>

\* Gateway::send_request, called by the handlers of main.rs under the mutex.
\* With no id left the handler's task panics (todo!) and its client is lost.
SendRequest(g) ==
    LET k == Issued(g) + Cardinality(Refused(g)) + 1
    IN /\ k <= setup.requests[g]
       /\ IF IdsLeft(g)
          THEN /\ interval_left' = [interval_left EXCEPT ![g] = @ + 1]
               /\ new_requests' = [new_requests EXCEPT ![g] =
                                     Append(@, <<interval_left[g], <<g, k>> >>)]
               /\ UNCHANGED answers
          ELSE /\ answers' = [answers EXCEPT ![<<g, k>>] = <<Panic>>]
               /\ UNCHANGED <<interval_left, new_requests>>
       /\ UNCHANGED <<ws_registry, sent, storeVars, epochVars, updates,
                      unheard, membershipVars, ringVars>>

\* The p2p task sends a transaction to the nodes connected at this moment, once.
FanOut(g, id, request) ==
    {[id |-> id, request |-> request, dial |-> <<g, n>>] :
        n \in maroon_peer_ids[g]}

\* handle_send_new_request, up to the fan-out
HandleSendNewRequest(g) ==
    /\ new_requests[g] # <<>>
    /\ LET id == Head(new_requests[g])[1]
           request == Head(new_requests[g])[2]
       IN /\ ws_registry' = [ws_registry EXCEPT ![g] = Put(@, id, request)]
          /\ sent' = sent \cup FanOut(g, id, request)
    /\ new_requests' = [new_requests EXCEPT ![g] = Tail(@)]
    /\ UNCHANGED <<interval_left, storeVars, epochVars, answerVars,
                   membershipVars, ringVars>>

-----------------------------------------------------------------------------
(***************************************************************************)
(* The node's transactions.                                                *)
(***************************************************************************)
\* The scan of update_self_offsets over full ids: it does not stop at the end
\* of the range.
LastContiguous(held, id) ==
    CHOOSE last \in held : /\ id <= last
                           /\ id .. last \subseteq held
                           /\ last + 1 \notin held

\* update_self_offsets for one transaction: it replaces the one in the map.
Store(n, id, tx) ==
    LET r == RangeFromId(id)
        known == self_offsets[n][r]
        held == DOMAIN transactions[n] \cup {id}
        start == IF known = NoOffset THEN 0 ELSE known
    IN /\ transactions' = [transactions EXCEPT ![n] = Put(@, id, tx)]
       /\ self_offsets' =
            IF known = NoOffset /\ OffsetFromId(id) # 0 THEN self_offsets
            ELSE [self_offsets EXCEPT ![n][r] =
                    OffsetFromId(LastContiguous(held, IdFrom(r, start)))]

\* handle_request_response and Inbox::NewTransaction.  The p2p task of a node
\* whose App panicked still takes it off the wire.
NewTransaction(n, m) ==
    /\ n \in Live
    /\ m.dial[2] = n
    /\ sent' = sent \ {m}
    /\ IF n \in panicked
       THEN UNCHANGED <<transactions, self_offsets>>
       ELSE Store(n, m.id, [request |-> m.request, status |-> "Created"])
    /\ UNCHANGED <<interval_left, new_requests, ws_registry, asked, epochVars,
                   answerVars, membershipVars, ringVars>>

\* A request on a broken connection does not arrive.
LoseRequest(m) ==
    /\ m.dial \in broken
    /\ sent' = sent \ {m}
    /\ UNCHANGED <<interval_left, new_requests, ws_registry, storeVars,
                   epochVars, answerVars, membershipVars, ringVars>>

\* What the node as a whole does: its process lives and its App did not panic.
Apps == Live \ panicked

\* Outbox::RequestMissingTxs: n asks m for what it lacks of m's prefix.  When
\* m's App is gone, its p2p task panics on the request.
RequestMissingTxs(n, m, id) ==
    /\ n \in Apps /\ m \in Live
    /\ OpenAt(n, m) # {}
    /\ OffsetFromId(id) <= self_offsets[m][RangeFromId(id)]
    /\ id \in DOMAIN transactions[m] \ DOMAIN transactions[n]
    /\ IF m \in panicked
       THEN /\ crashed' = crashed \cup {m}
            /\ broken' = broken \cup {d \in Connections : m \in {d[1], d[2]}}
            /\ UNCHANGED asked
       ELSE /\ <<m, id>> \notin asked[n]
            /\ asked' = [asked EXCEPT ![n] = @ \cup {<<m, id>>}]
            /\ UNCHANGED <<crashed, broken>>
    /\ UNCHANGED <<transactions, self_offsets, gatewayVars, epochVars,
                   answerVars, setup, ends, aliveVars, ringVars>>

\* handle_m2m_req_res and Inbox::MissingTx: m's copy, with the status it has
\* there, replaces the one that n may have got in the meantime.
MissingTx(n, m, id) ==
    /\ n \in Apps /\ m \in Apps
    /\ OpenAt(n, m) # {}
    /\ <<m, id>> \in asked[n]
    /\ asked' = [asked EXCEPT ![n] = @ \ {<<m, id>>}]
    /\ Store(n, id, transactions[m][id])
    /\ UNCHANGED <<gatewayVars, epochVars, answerVars, membershipVars, ringVars>>

-----------------------------------------------------------------------------
(***************************************************************************)
(* Epochs and results.                                                     *)
(***************************************************************************)
Committed == UNION {epochs[i] : i \in DOMAIN epochs}

\* consensus_maximum
QuorumHolds(r, offset) ==
    Cardinality({n \in setup.nodes : self_offsets[n][r] >= offset})
        >= setup.quorum

CommitedOffset(r) ==
    CHOOSE o \in NoOffset .. SingleBlobSize - 1 :
        /\ o = NoOffset \/ IdFrom(r, o) \in Committed
        /\ \A p \in o + 1 .. SingleBlobSize - 1 : IdFrom(r, p) \notin Committed

\* Mutant of EpochStart: one too far.
EpochStartAfterNext(r) == CommitedOffset(r) + 2

\* calculate_epoch_increments: where the next interval of a range starts
EpochStart(r) == CommitedOffset(r) + 1

\* commit_epoch_if_needed with some consensus offset the quorum has reached.  An
\* epoch of several ranges is like one epoch for each.
CommitEpoch(r) ==
    /\ \E last \in EpochStart(r) .. SingleBlobSize - 1 :
          /\ QuorumHolds(r, last)
          /\ epochs' = Append(epochs, IdFrom(r, EpochStart(r)) .. IdFrom(r, last))
    /\ UNCHANGED <<applied, executed, working, panicked, gatewayVars, storeVars,
                   answerVars, membershipVars, ringVars>>

\* A task for a queue that does not exist is dropped by the runtime.
RuntimeAccepts(n, ids) ==
    {id \in ids : transactions[n][id].request[2] \notin setup.misrouted}

\* Mutant of StatusInEpoch: what is handed over counts as done.
FinishedInEpoch == "Finished"

StatusInEpoch == "Pending"

\* handle_epoch_coordinator_updates: the App panics on an id it lacks.
ApplyEpoch(n) ==
    /\ n \in Apps
    /\ applied[n] < Len(epochs)
    /\ LET ids == epochs[applied[n] + 1]
       IN IF ids \subseteq DOMAIN transactions[n]
          THEN /\ transactions' = [transactions EXCEPT ![n] =
                    [id \in DOMAIN @ |->
                        IF id \in ids
                        THEN [@[id] EXCEPT !.status = StatusInEpoch]
                        ELSE @[id]]]
               /\ executed' = [executed EXCEPT ![n] =
                    [id \in DOMAIN @ \cup ids |->
                        IF id \in ids THEN transactions[n][id].request
                                      ELSE @[id]]]
               /\ working' = [working EXCEPT ![n] =
                                @ \cup RuntimeAccepts(n, ids)]
               /\ UNCHANGED panicked
          ELSE /\ panicked' = panicked \cup {n}
               /\ UNCHANGED <<transactions, executed, working>>
    /\ applied' = [applied EXCEPT ![n] = @ + 1]
    /\ UNCHANGED <<self_offsets, asked, epochs, gatewayVars, answerVars,
                   membershipVars, ringVars>>

\* The results arm of loop_until_shutdown, then Outbox::NotifyGWs: nothing is
\* published when no gateway is known, and a publish may find no peers.
ReportResults(n, ids) ==
    /\ n \in Apps
    /\ ids # {} /\ ids \subseteq working[n]
    /\ working' = [working EXCEPT ![n] = @ \ ids]
    /\ transactions' = [transactions EXCEPT ![n] =
          [id \in DOMAIN @ |-> IF id \in ids
                               THEN [@[id] EXCEPT !.status = "Finished"]
                               ELSE @[id]]]
    /\ \/ /\ alive_gateway_ids[n] # {}
          /\ updates' = updates \cup
                {[to |-> g, dial |-> <<g, n>>,
                  results |-> [id \in ids |-> executed[n][id]]] :
                    g \in {h \in Gateways : <<h, n>> \in Connections}}
          /\ UNCHANGED unheard
       \/ unheard' = unheard \cup ids /\ UNCHANGED updates
    /\ UNCHANGED <<self_offsets, asked, epochs, applied, executed, panicked,
                   gatewayVars, answers, membershipVars, ringVars>>

\* Mutant of Without: the socket stays registered.
KeepSockets(registry, ids) == registry

Without(registry, ids) == [id \in DOMAIN registry \ ids |-> registry[id]]

\* handle_inbox of the gateway: clients that wait for one of the ids are
\* answered and, as the status is Finished, taken off the registry.
HandleInbox(u) ==
    LET g == u.to
        mine == DOMAIN u.results \cap DOMAIN ws_registry[g]
    IN /\ ends[u.dial][g] >= 0
       /\ updates' = updates \ {u}
       /\ answers' = [q \in Requests |->
             IF \E id \in mine : ws_registry[g][id] = q
             THEN Append(answers[q], u.results[CHOOSE id \in mine :
                                                  ws_registry[g][id] = q])
             ELSE answers[q]]
       /\ ws_registry' = [ws_registry EXCEPT ![g] = Without(@, mine)]
       /\ UNCHANGED <<interval_left, new_requests, sent, storeVars, epochVars,
                      unheard, membershipVars, ringVars>>

\* Gossip to a gateway that is not connected (any more) is lost.
LoseUpdate(u) ==
    /\ ends[u.dial][u.to] < 0
    /\ updates' = updates \ {u}
    /\ UNCHANGED <<unheard, answers, gatewayVars, storeVars, epochVars,
                   membershipVars, ringVars>>

Delivery == \/ \E m \in sent : \/ \E n \in Nodes : NewTransaction(n, m)
                                \/ LoseRequest(m)
            \/ \E u \in updates : HandleInbox(u) \/ LoseUpdate(u)
AppStep(n) ==
    \/ \E m \in Nodes, id \in Ids : \/ RequestMissingTxs(n, m, id)
                                     \/ MissingTx(n, m, id)
    \/ ApplyEpoch(n)
    \/ \E ids \in SUBSET working[n] : ReportResults(n, ids)

\* What the tasks of gateways and nodes do for a request once it was made.
Work ==
    \/ \E g \in Gateways : HandleSendNewRequest(g)
    \/ Delivery
    \/ \E n \in Nodes : AppStep(n)
    \/ \E r \in Ranges : CommitEpoch(r)

\* A deployment without requests in which everybody is connected is about the
\* ring; while nodes are still dialling it is about their lists, and with
\* requests an epoch may be published at any time.
InRing(step) ==
    /\ setup.dials = {} /\ \A g \in Gateways : setup.requests[g] = 0
    /\ step
    /\ UNCHANGED requestVars

Next ==
    \/ MembershipNext /\ UNCHANGED <<ringVars, requestVars>>
    \/ InRing(RingNext)
    \/ \E g \in Gateways : SendRequest(g)
    \/ Work

Init == MembershipInit /\ RingInit /\ RequestsInit
Spec == Init /\ [][Next]_vars

(***************************************************************************)
(* The clock and the event loops never stop.  A behaviour brings finitely  *)
(* many requests and every step for them is progress, so it is enough that *)
(* some loop goes on while there is something to do.  Connections, crashes *)
(* and clients promise nothing.                                            *)
(***************************************************************************)
Fairness ==
    /\ WF_vars(InRing(Tick))
    /\ WF_vars(InRing(\E n \in Nodes : StartWatch(n)))
    /\ WF_vars(InRing(\E n \in Nodes : PublishEpoch(n)))
    /\ WF_vars(InRing(\E n \in Nodes : ReceiveEpoch(n)))
    /\ WF_vars(Work)

FairSpec == Spec /\ Fairness

-----------------------------------------------------------------------------
(***************************************************************************)
(* Properties.                                                             *)
(***************************************************************************)

\* Lists follow connections: whoever is listed is connected, and nodes that are
\* done with their role exchanges and lost no connection have each other in
\* their rings.
ListsFollowConnections ==
    RequestsTypeOK /\ ListedAreConnected /\ SettledRingsAgree

\* Every running gateway has a range of its own.
RangesApart ==
    \A g, h \in Gateways : /\ g # h /\ setup.requests[g] > 0
                           /\ setup.requests[h] > 0
                           => RangeOf[g] # RangeOf[h]

\* Although every node reports every result, a client gets one answer at most,
\* and it is the result of its own request.  A client whose request has an id
\* waits in the registry until then.
AnsweredOnceAndRight ==
    /\ \A q \in Requests : Len(answers[q]) <= 1
    /\ RangesApart => \A q \in Requests : answers[q] \in {<<>>, <<q>>, <<Panic>>}
    /\ \A g \in Gateways : \A id \in DOMAIN ws_registry[g] :
          answers[ws_registry[g][id]] = <<>>

\* Whatever copies of a transaction arrive, in whatever order and however late,
\* the nodes execute the same payload under the same id.
ExecutedAlike ==
    RangesApart =>
        \A n, m \in Nodes : \A id \in DOMAIN executed[n] \cap DOMAIN executed[m] :
            executed[n][id] = executed[m][id]

\* The offset of a range counts the ids of that range only, although the scan
\* runs over full ids: it never gets past the last id, which no gateway issues.
OffsetsInRange ==
    \A n \in Nodes, r \in Ranges :
        LET held == {OffsetFromId(id) :
                        id \in {i \in DOMAIN transactions[n] :
                                   RangeFromId(i) = r}}
            offset == self_offsets[n][r]
        IN IF 0 \in held
           THEN offset \in held /\ 0 .. offset \subseteq held
                    /\ offset + 1 \notin held
           ELSE offset = NoOffset

\* A status that tells of progress is never wrong: what is Pending or Finished
\* on a node, by its own doing or copied from another, is committed, and what
\* is Finished was answered by a runtime.  (Created may be too little: a late
\* copy replaces a Pending or Finished transaction.)
ProgressIsReal ==
    \A n \in Nodes : \A id \in DOMAIN transactions[n] :
        /\ transactions[n][id].status # "Created" => id \in Committed
        /\ transactions[n][id].status = "Finished" =>
              \E m \in Nodes : id \in DOMAIN executed[m] \ working[m]

\* The ids of the range up to id, each of which some live App has.
ReachedNodes(id) ==
    \A i \in IntervalLeft(RangeFromId(id)) .. id :
        \E n \in Apps : i \in DOMAIN transactions[n]

\* A client that still waits although its transaction and all earlier ones of
\* the range have reached a node, its gateway has a node left, no connection was
\* lost, no node reported the result before it knew a gateway, and the queue
\* exists.
WaitsInVain(g, id) ==
    /\ id \in DOMAIN ws_registry[g]
    /\ ReachedNodes(id)
    /\ \E n \in Apps : <<g, n>> \in Connections
    /\ broken = {} /\ id \notin unheard /\ RangesApart
    /\ ws_registry[g][id][2] \notin setup.misrouted

\* Every such client is answered in the end: a transaction that reached one node
\* is replicated, committed, executed and reported back.
EveryRequestAnswered ==
    <>[](\A g \in Gateways, id \in Ids : ~ WaitsInVain(g, id))

=============================================================================
