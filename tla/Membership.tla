----------------------------- MODULE Membership ------------------------------
(***************************************************************************)
(* Who a process takes for connected: the p2p tasks of nodes               *)
(* (maroon/src/network/p2p.rs) and gateways (gateway/src/p2p.rs).  Every   *)
(* process dials the addresses it was configured with once, when it        *)
(* starts, and nobody dials again.  Two nodes that dial each other have    *)
(* two connections.  The two ends of a connection handle its events in     *)
(* order, each at its own time.                                            *)
(***************************************************************************)
EXTENDS Integers, FiniteSets

CONSTANTS
    Nodes,      \* PeerIds of nodes, numbers in the order of the ids
    Gateways,   \* PeerIds of gateways
    Setups      \* the deployments to check, one of which a behaviour is about

Peers == Nodes \cup Gateways
Dials == {d \in Peers \X Nodes : d[1] # d[2]}

(***************************************************************************)
(* A deployment: its nodes, the connections that are up from the start,    *)
(* those still to be established, how many may break and how many nodes    *)
(* may die; what the nodes' clocks showed when the first epoch was due     *)
(* (Ring); the quorum, the requests each gateway gets and those of them    *)
(* for a queue that does not exist (Requests).                             *)
(***************************************************************************)
Setup == [nodes : SUBSET Nodes, up : SUBSET Dials, dials : SUBSET Dials,
          breaks : Nat, crashes : Nat, uptime : [Nodes -> Nat],
          quorum : Nat, requests : [Gateways -> Nat], misrouted : SUBSET Nat]

ASSUME SetupsAssumption ==
    /\ Nodes \subseteq Nat /\ IsFiniteSet(Nodes) /\ IsFiniteSet(Gateways)
    /\ Nodes \cap Gateways = {}
    /\ \A s \in Setups :
          /\ s \in Setup /\ s.nodes # {}
          /\ s.up \cap s.dials = {}
          /\ s.up \cup s.dials \subseteq (s.nodes \cup Gateways) \X s.nodes

VARIABLES
    setup,              \* the deployment
    ends,               \* both ends of every connection, see below
    broken,             \* connections that were lost
    crashed,            \* nodes that died
    alive_peer_ids,     \* start_event_loop of a node: alive_peer_ids
    alive_gateway_ids,  \* start_event_loop of a node: alive_gateway_ids
    maroon_peer_ids,    \* start_event_loop of a gateway: maroon_peer_ids
    nodes               \* EpochDecisionEngine::nodes of every node

aliveVars == <<alive_peer_ids, alive_gateway_ids, maroon_peer_ids, nodes>>
membershipVars == <<setup, ends, broken, crashed, aliveVars>>

\* An end: not established yet, closed, or open with that many messages of
\* the role exchange still to come.
NotYet == -1
Closed == -2
EndStates == {NotYet, Closed} \cup 0 .. 2

Connections == setup.up \cup setup.dials
Others(d, p) == {d[1], d[2]} \ {p}
Between(p, q) == {d \in Connections : {d[1], d[2]} = {p, q}}
Live == setup.nodes \ crashed
Running(p) == p \in Gateways \/ p \in Live

MembershipTypeOK ==
    /\ setup \in Setups
    /\ DOMAIN ends = Connections
    /\ \A d \in Connections : ends[d] \in [{d[1], d[2]} -> EndStates]
    /\ broken \subseteq Connections
    /\ crashed \subseteq setup.nodes
    /\ alive_peer_ids \in [Nodes -> SUBSET setup.nodes]
    /\ alive_gateway_ids \in [Nodes -> SUBSET Gateways]
    /\ maroon_peer_ids \in [Gateways -> SUBSET setup.nodes]
    /\ nodes \in [Nodes -> SUBSET setup.nodes]

\* Connections that are up have their roles exchanged.
MembershipInit ==
    /\ setup \in Setups
    /\ ends = [d \in setup.up \cup setup.dials |->
                 [p \in {d[1], d[2]} |-> IF d \in setup.up THEN 0 ELSE NotYet]]
    /\ broken = {} /\ crashed = {}
    /\ LET Linked(p) == {q \in Peers : <<p, q>> \in setup.up
                                          \/ <<q, p>> \in setup.up}
       IN /\ alive_peer_ids = [n \in Nodes |-> (Linked(n) \cup {n})
                                                  \cap setup.nodes]
          /\ alive_gateway_ids = [n \in Nodes |-> Linked(n) \cap Gateways]
          /\ maroon_peer_ids = [g \in Gateways |-> Linked(g)]
    /\ nodes = [n \in Nodes |-> IF alive_peer_ids[n] = {n} THEN {}
                                                          ELSE alive_peer_ids[n]]

-----------------------------------------------------------------------------
\* What p is told of q's role on one connection: a node asks and is asked, a
\* gateway only answers.  What a gateway is told changes nothing.
RoleMessages(p, q) == CASE p \in Gateways -> 0
                        [] q \in Gateways -> 1
                        [] OTHER -> 2

\* SwarmEvent::ConnectionEstablished.  A gateway takes every peer it is
\* connected to for a node; a node asks for the role first.
ConnectionEstablished(d, p) ==
    /\ Running(p)
    /\ ends[d][p] = NotYet
    /\ d \notin broken \/ \E q \in Others(d, p) : ends[d][q] # NotYet
    /\ \E q \in Others(d, p) :
          /\ ends' = [ends EXCEPT ![d][p] = RoleMessages(p, q)]
          /\ maroon_peer_ids' = IF p \in Gateways
                                THEN [maroon_peer_ids EXCEPT ![p] = @ \cup {q}]
                                ELSE maroon_peer_ids
    /\ UNCHANGED <<setup, broken, crashed, alive_peer_ids, alive_gateway_ids,
                   nodes>>

\* insert_by_role.  The App takes the set over when it handles Inbox::Nodes
\* (recalculate_order); the channel only delays that, like the event itself.
InsertByRole(n, q) ==
    IF q \in Gateways
    THEN /\ alive_gateway_ids' = [alive_gateway_ids EXCEPT ![n] = @ \cup {q}]
         /\ UNCHANGED <<alive_peer_ids, nodes>>
    ELSE /\ alive_peer_ids' = [alive_peer_ids EXCEPT ![n] = @ \cup {q}]
         /\ nodes' = [nodes EXCEPT ![n] = alive_peer_ids'[n]]
         /\ UNCHANGED alive_gateway_ids

\* handle_meta_exchange: a request or a response tells the role of the other
\* end.  A failed exchange is not repeated: it is one that never comes.
MetaExchange(d, n) ==
    /\ n \in Live
    /\ ends[d][n] \in 1 .. 2
    /\ \E q \in Others(d, n) :
          /\ ends[d][q] # NotYet
          /\ InsertByRole(n, q)
    /\ ends' = [ends EXCEPT ![d][n] = @ - 1]
    /\ UNCHANGED <<setup, broken, crashed, maroon_peer_ids>>

\* Mutant of Forget: only gateways are removed.
ForgetGateway(n, q) ==
    /\ alive_gateway_ids' = [alive_gateway_ids EXCEPT ![n] = @ \ {q}]
    /\ UNCHANGED <<alive_peer_ids, nodes>>

Forget(n, q) ==
    /\ alive_gateway_ids' = [alive_gateway_ids EXCEPT ![n] = @ \ {q}]
    /\ alive_peer_ids' = [alive_peer_ids EXCEPT ![n] = @ \ {q}]
    /\ nodes' = IF q \in alive_peer_ids[n]
                THEN [nodes EXCEPT ![n] = alive_peer_ids'[n]]
                ELSE nodes

\* SwarmEvent::ConnectionClosed: the peer is forgotten, whatever other
\* connection to it is still open.
ConnectionClosed(d, p) ==
    /\ Running(p)
    /\ d \in broken
    /\ ends[d][p] >= 0
    /\ ends' = [ends EXCEPT ![d][p] = Closed]
    /\ \E q \in Others(d, p) :
          IF p \in Gateways
          THEN /\ maroon_peer_ids' = [maroon_peer_ids EXCEPT ![p] = @ \ {q}]
               /\ UNCHANGED <<alive_peer_ids, alive_gateway_ids, nodes>>
          ELSE Forget(p, q) /\ UNCHANGED maroon_peer_ids
    /\ UNCHANGED <<setup, broken, crashed>>

\* A connection is lost, or closed because one of two stayed idle.
Break(d) ==
    /\ Cardinality(broken) < setup.breaks
    /\ d \in Connections \ broken
    /\ \E p \in {d[1], d[2]} : ends[d][p] >= 0
    /\ broken' = broken \cup {d}
    /\ UNCHANGED <<setup, ends, crashed, aliveVars>>

\* A node dies and all its connections with it.
Crash(n) ==
    /\ n \in Live
    /\ Cardinality(crashed) < setup.crashes
    /\ crashed' = crashed \cup {n}
    /\ broken' = broken \cup {d \in Connections : n \in {d[1], d[2]}}
    /\ UNCHANGED <<setup, ends, aliveVars>>

HandleSwarmEvent(d) ==
    \/ \E p \in {d[1], d[2]} : \/ ConnectionEstablished(d, p)
                                \/ ConnectionClosed(d, p)
    \/ \E n \in Nodes \cap {d[1], d[2]} : MetaExchange(d, n)

MembershipNext ==
    \/ \E d \in Connections : HandleSwarmEvent(d) \/ Break(d)
    \/ \E n \in Nodes : Crash(n)

-----------------------------------------------------------------------------
(***************************************************************************)
(* Properties.                                                             *)
(***************************************************************************)
OpenAt(p, q) == {d \in Between(p, q) : ends[d][p] >= 0}

\* Nobody is listed without a connection: messages for a peer, results for a
\* gateway and places in the ring are never kept for one that is gone, although
\* role messages and closing of two connections interleave.
ListedAreConnected ==
    /\ \A n \in Live : \A q \in alive_peer_ids[n] \ {n} : OpenAt(n, q) # {}
    /\ \A n \in Live : \A g \in alive_gateway_ids[n] : OpenAt(n, g) # {}
    /\ \A g \in Gateways : \A n \in maroon_peer_ids[g] : OpenAt(g, n) # {}
    /\ \A n \in Live : nodes[n] \subseteq alive_peer_ids[n]

\* Two nodes whose role exchanges are over have each other in their rings, as
\* long as none of their connections was lost.
SettledRingsAgree ==
    \A n, q \in Live :
        /\ Between(n, q) # {}
        /\ \A d \in Between(n, q) : d \notin broken /\ ends[d][n] = 0
        => q \in nodes[n]

=============================================================================
