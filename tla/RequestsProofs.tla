---------------------------- MODULE RequestsProofs ----------------------------
(***************************************************************************)
(* Proofs about Membership, Ring and Requests, for any nodes, gateways,    *)
(* deployments, blob size and key ranges.  MembershipInv is inductive for  *)
(* the lists of peers, RequestsInv for all the rest: its parts follow a    *)
(* request on its way.                                                     *)
(***************************************************************************)
EXTENDS Requests, FiniteSetTheorems, WellFoundedInduction, TLAPS

(***************************************************************************)
(* Membership.  The inductive invariant adds to the two properties that a  *)
(* node which was told a role once keeps the peer in its ring until one of *)
(* their connections is lost.                                              *)
(***************************************************************************)
ToldAreInRing ==
    \A n, q \in Live :
        /\ Between(n, q) \cap broken = {}
        /\ \E d \in Between(n, q) : ends[d][n] \in 0 .. 1
        => q \in nodes[n]

MembershipInv == MembershipTypeOK /\ ListedAreConnected /\ ToldAreInRing

\* Connections are between different processes of the deployment.
LEMMA ConnectionEnds ==
    ASSUME setup \in Setups, NEW d \in Connections
    PROVE  /\ d[1] \in setup.nodes \cup Gateways /\ d[2] \in setup.nodes
           /\ d[1] # d[2] /\ d \in Dials
           /\ setup.nodes \subseteq Nodes /\ Nodes \cap Gateways = {}
<1>1. setup \in Setup /\ setup.up \cup setup.dials
                           \subseteq (setup.nodes \cup Gateways) \X setup.nodes
      /\ Nodes \cap Gateways = {}
  BY SetupsAssumption
<1>2. d \in (setup.nodes \cup Gateways) \X setup.nodes
  BY <1>1 DEF Connections
<1>3. setup.nodes \subseteq Nodes /\ d \in Dials
  BY <1>1 DEF Setup, Connections
<1>. QED BY <1>1, <1>2, <1>3 DEF Dials

\* The other end of a connection.
LEMMA OtherEnd ==
    ASSUME setup \in Setups, NEW d \in Connections, NEW p \in {d[1], d[2]},
           NEW q \in Others(d, p)
    PROVE  /\ q \in {d[1], d[2]} /\ q # p
           /\ d \in Between(p, q) /\ d \in Between(q, p)
           /\ p \in setup.nodes \cup Gateways /\ q \in setup.nodes \cup Gateways
           /\ p \in Gateways => q \in setup.nodes
<1>1. d[1] # d[2] /\ d[1] \in setup.nodes \cup Gateways /\ d[2] \in setup.nodes
      /\ setup.nodes \cap Gateways = {}
  BY ConnectionEnds
<1>2. q \in {d[1], d[2]} /\ q # p
  BY DEF Others
<1>3. {d[1], d[2]} = {p, q}
  BY <1>1, <1>2
<1>. QED BY <1>1, <1>2, <1>3 DEF Between

\* A connection is between one pair of processes only.
LEMMA OnePair ==
    ASSUME NEW d, NEW p, NEW q, NEW r, d \in Between(p, q), d \in Between(p, r)
    PROVE  q = r
<1>1. {p, q} = {p, r}
  BY DEF Between
<1>. QED BY <1>1

\* Who is connected is part of the deployment.
LEMMA BetweenKept ==
    ASSUME UNCHANGED setup
    PROVE  Connections' = Connections
           /\ \A x, y : Between(x, y)' = Between(x, y)
BY DEF Connections, Between

\* One end of one connection changes.
EndSet(d, p, v) == [ends EXCEPT ![d][p] = v]

EndsTyped ==
    /\ DOMAIN ends = Connections
    /\ \A d \in Connections : ends[d] \in [{d[1], d[2]} -> EndStates]

LEMMA EndChanges ==
    ASSUME MembershipTypeOK, NEW d \in Connections, NEW p \in {d[1], d[2]},
           NEW v \in EndStates, UNCHANGED setup,
           ends' = EndSet(d, p, v)
    PROVE  /\ EndsTyped'
           /\ \A e \in Connections : \A x \in {e[1], e[2]} :
                 ends'[e][x] = IF e = d /\ x = p THEN v ELSE ends[e][x]
<1>1. Connections' = Connections /\ DOMAIN ends = Connections
      /\ \A e \in Connections : ends[e] \in [{e[1], e[2]} -> EndStates]
  BY DEF MembershipTypeOK, Connections
<1>2. DOMAIN ends' = Connections
  BY <1>1 DEF EndSet
<1>3. ASSUME NEW e \in Connections
      PROVE  ends'[e] = IF e = d THEN [ends[d] EXCEPT ![p] = v] ELSE ends[e]
  BY <1>1 DEF EndSet
<1>4. ASSUME NEW e \in Connections
      PROVE  /\ ends'[e] \in [{e[1], e[2]} -> EndStates]
             /\ \A x \in {e[1], e[2]} :
                   ends'[e][x] = IF e = d /\ x = p THEN v ELSE ends[e][x]
  BY <1>1, <1>3
<1>. QED BY <1>1, <1>2, <1>4 DEF EndsTyped

\* An end that opens, or loses a message of the role exchange, closes nothing.
LEMMA StaysOpen ==
    ASSUME MembershipTypeOK, NEW d \in Connections, NEW p \in {d[1], d[2]},
           NEW v \in 0 .. 2, UNCHANGED setup,
           ends' = EndSet(d, p, v), NEW x, NEW y
    PROVE  /\ OpenAt(x, y) \subseteq OpenAt(x, y)'
           /\ x = p /\ d \in Between(x, y) => d \in OpenAt(x, y)'
<1>1. v \in EndStates /\ v >= 0
  BY DEF EndStates
<1>2. \A e \in Connections : \A z \in {e[1], e[2]} :
         ends'[e][z] = IF e = d /\ z = p THEN v ELSE ends[e][z]
  BY <1>1, EndChanges
<1>0. Between(x, y)' = Between(x, y)
  BY BetweenKept
<1>3. \A e \in Between(x, y) : e \in Connections /\ x \in {e[1], e[2]}
  BY DEF Between
<1>4. \A e \in Between(x, y) : ends[e][x] >= 0 => ends'[e][x] >= 0
  BY <1>1, <1>2, <1>3
<1>5. x = p /\ d \in Between(x, y) => ends'[d][x] >= 0
  BY <1>1, <1>2, <1>3
<1>. QED BY <1>0, <1>4, <1>5 DEF OpenAt

-----------------------------------------------------------------------------
\* A gateway takes the peer for a node at once, a node asks first.
LEMMA EstablishedStep ==
    ASSUME MembershipInv, NEW d \in Connections, NEW p \in {d[1], d[2]},
           ConnectionEstablished(d, p)
    PROVE  MembershipInv'
<1>1. PICK q \in Others(d, p) :
        /\ ends' = EndSet(d, p, RoleMessages(p, q))
        /\ maroon_peer_ids' = IF p \in Gateways
                              THEN [maroon_peer_ids EXCEPT ![p] = @ \cup {q}]
                              ELSE maroon_peer_ids
  BY DEF ConnectionEstablished, EndSet
<1>2. /\ UNCHANGED <<setup, broken, crashed, alive_peer_ids, alive_gateway_ids,
                     nodes>>
      /\ Running(p) /\ ends[d][p] = NotYet
  BY DEF ConnectionEstablished
<1>3. MembershipTypeOK /\ setup \in Setups
  BY DEF MembershipInv, MembershipTypeOK
<1>4. /\ q \in {d[1], d[2]} /\ q # p /\ d \in Between(p, q)
      /\ q \in setup.nodes \cup Gateways
      /\ p \in Gateways => q \in setup.nodes
  BY <1>3, OtherEnd
<1> DEFINE v == RoleMessages(p, q)
<1>5. v \in 0 .. 2 /\ v \in EndStates /\ ends' = EndSet(d, p, v)
  BY <1>1 DEF RoleMessages, EndStates
<1> HIDE DEF v
<1>6. /\ EndsTyped'
      /\ \A e \in Connections : \A x \in {e[1], e[2]} :
            ends'[e][x] = IF e = d /\ x = p THEN v ELSE ends[e][x]
  BY <1>2, <1>3, <1>5, EndChanges
<1>0. Connections' = Connections /\ \A x, y : Between(x, y)' = Between(x, y)
  BY <1>2, BetweenKept
<1>7. \A x, y : OpenAt(x, y) \subseteq OpenAt(x, y)'
  BY <1>2, <1>3, <1>5, StaysOpen
<1>8. d \in OpenAt(p, q)'
  BY <1>2, <1>3, <1>4, <1>5, StaysOpen
<1>9. maroon_peer_ids \in [Gateways -> SUBSET setup.nodes]
  BY <1>3 DEF MembershipTypeOK
<1>10. MembershipTypeOK'
  <2>1. maroon_peer_ids' \in [Gateways -> SUBSET setup.nodes]
    BY <1>1, <1>4, <1>9
  <2>. QED BY <1>0, <1>2, <1>3, <1>6, <2>1 DEF MembershipTypeOK, EndsTyped
<1>11. Live' = Live
  BY <1>2 DEF Live
<1>12. ListedAreConnected'
  <2>1. \A n \in Live : \A r \in alive_peer_ids'[n] \ {n} : OpenAt(n, r)' # {}
    BY <1>2, <1>7 DEF MembershipInv, ListedAreConnected
  <2>2. \A n \in Live : \A g \in alive_gateway_ids'[n] : OpenAt(n, g)' # {}
    BY <1>2, <1>7 DEF MembershipInv, ListedAreConnected
  <2>3. ASSUME NEW g \in Gateways, NEW n \in maroon_peer_ids'[g]
        PROVE  OpenAt(g, n)' # {}
    <3>1. n \in maroon_peer_ids[g] \/ (g = p /\ n = q)
      BY <1>1, <1>9, <2>3
    <3>. QED BY <1>7, <1>8, <3>1 DEF MembershipInv, ListedAreConnected
  <2>4. \A n \in Live : nodes'[n] \subseteq alive_peer_ids'[n]
    BY <1>2 DEF MembershipInv, ListedAreConnected
  <2>. QED BY <1>11, <2>1, <2>2, <2>3, <2>4 DEF ListedAreConnected
<1>13. ToldAreInRing'
  <2> SUFFICES ASSUME NEW n \in Live, NEW r \in Live,
                      Between(n, r) \cap broken = {},
                      NEW e \in Between(n, r), ends'[e][n] \in 0 .. 1
               PROVE  r \in nodes[n]
    BY <1>0, <1>2, <1>11 DEF ToldAreInRing
  <2>1. e \in Connections /\ n \in {e[1], e[2]}
    BY DEF Between
  <2>2. CASE ~ (e = d /\ n = p)
    BY <1>6, <2>1, <2>2 DEF MembershipInv, ToldAreInRing
  <2>3. CASE e = d /\ n = p
    <3>1. r = q
      BY <1>4, <2>3, OnePair
    <3>2. p \notin Gateways /\ q \notin Gateways
      BY <1>3, <2>3, <3>1, ConnectionEnds DEF Live
    <3>3. v = 2
      BY <3>2 DEF RoleMessages, v
    <3>. QED BY <1>6, <2>1, <2>3, <3>3
  <2>. QED BY <2>2, <2>3
<1>. QED BY <1>10, <1>12, <1>13 DEF MembershipInv

\* A role message lists its sender, which is connected.
LEMMA MetaExchangeStep ==
    ASSUME MembershipInv, NEW d \in Connections,
           NEW n \in Nodes \cap {d[1], d[2]}, MetaExchange(d, n)
    PROVE  MembershipInv'
<1>1. PICK q \in Others(d, n) : InsertByRole(n, q)
  BY DEF MetaExchange
<1> DEFINE v == ends[d][n] - 1
<1>2. /\ UNCHANGED <<setup, broken, crashed, maroon_peer_ids>>
      /\ n \in Live /\ ends[d][n] \in 1 .. 2
      /\ ends' = EndSet(d, n, v)
  BY DEF MetaExchange, EndSet
<1>3. MembershipTypeOK /\ setup \in Setups /\ n \in {d[1], d[2]}
  BY DEF MembershipInv, MembershipTypeOK
<1>4. /\ q # n /\ d \in Between(n, q) /\ q \in setup.nodes \cup Gateways
  BY <1>3, OtherEnd
<1>5. v \in 0 .. 2 /\ v \in EndStates /\ ends' = EndSet(d, n, v)
  BY <1>2 DEF EndStates
<1> HIDE DEF v
<1>6. /\ EndsTyped'
      /\ \A e \in Connections : \A x \in {e[1], e[2]} :
            ends'[e][x] = IF e = d /\ x = n THEN v ELSE ends[e][x]
  BY <1>2, <1>3, <1>5, EndChanges
<1>0. Connections' = Connections /\ \A x, y : Between(x, y)' = Between(x, y)
  BY <1>2, BetweenKept
<1>7. \A x, y : OpenAt(x, y) \subseteq OpenAt(x, y)'
  BY <1>2, <1>3, <1>5, StaysOpen
<1>8. d \in OpenAt(n, q)'
  BY <1>2, <1>3, <1>4, <1>5, StaysOpen
<1>9. /\ alive_peer_ids \in [Nodes -> SUBSET setup.nodes]
      /\ alive_gateway_ids \in [Nodes -> SUBSET Gateways]
      /\ nodes \in [Nodes -> SUBSET setup.nodes]
  BY <1>3 DEF MembershipTypeOK
<1>10. Live' = Live /\ Live \subseteq Nodes
  <2>1. setup.nodes \subseteq Nodes
    BY <1>3, ConnectionEnds
  <2>. QED BY <1>2, <2>1 DEF Live
\* What the lists are afterwards, whatever the role.
<1>11. /\ alive_peer_ids' \in [Nodes -> SUBSET setup.nodes]
       /\ alive_gateway_ids' \in [Nodes -> SUBSET Gateways]
       /\ nodes' \in [Nodes -> SUBSET setup.nodes]
       /\ \A m \in Nodes : alive_peer_ids[m] \subseteq alive_peer_ids'[m]
                           /\ alive_peer_ids'[m] \subseteq alive_peer_ids[m] \cup
                                (IF m = n THEN {q} ELSE {})
       /\ \A m \in Nodes : alive_gateway_ids'[m] \subseteq alive_gateway_ids[m] \cup
                                (IF m = n THEN {q} ELSE {})
       /\ \A m \in Nodes : nodes'[m] = nodes[m]
                           \/ (m = n /\ nodes'[m] = alive_peer_ids'[m])
       /\ q \notin Gateways => q \in nodes'[n]
  <2>1. CASE q \in Gateways
    BY <1>1, <1>9, <2>1 DEF InsertByRole
  <2>2. CASE q \notin Gateways
    <3>1. /\ alive_peer_ids' = [alive_peer_ids EXCEPT ![n] = @ \cup {q}]
          /\ nodes' = [nodes EXCEPT ![n] = alive_peer_ids'[n]]
          /\ UNCHANGED alive_gateway_ids /\ q \in setup.nodes
      BY <1>1, <1>4, <2>2 DEF InsertByRole
    <3>2. alive_peer_ids' \in [Nodes -> SUBSET setup.nodes]
          /\ alive_peer_ids'[n] = alive_peer_ids[n] \cup {q}
          /\ \A m \in Nodes : m # n => alive_peer_ids'[m] = alive_peer_ids[m]
      BY <1>9, <3>1
    <3>. QED BY <1>9, <3>1, <3>2
  <2>. QED BY <2>1, <2>2
<1>12. MembershipTypeOK'
  BY <1>0, <1>2, <1>3, <1>6, <1>11 DEF MembershipTypeOK, EndsTyped
<1>13. ListedAreConnected'
  <2>1. ASSUME NEW m \in Live, NEW r \in alive_peer_ids'[m] \ {m}
        PROVE  OpenAt(m, r)' # {}
    <3>1. r \in alive_peer_ids[m] \/ (m = n /\ r = q)
      BY <1>10, <1>11
    <3>. QED BY <1>7, <1>8, <3>1 DEF MembershipInv, ListedAreConnected
  <2>2. ASSUME NEW m \in Live, NEW g \in alive_gateway_ids'[m]
        PROVE  OpenAt(m, g)' # {}
    <3>1. g \in alive_gateway_ids[m] \/ (m = n /\ g = q)
      BY <1>10, <1>11
    <3>. QED BY <1>7, <1>8, <3>1 DEF MembershipInv, ListedAreConnected
  <2>3. \A g \in Gateways : \A m \in maroon_peer_ids'[g] : OpenAt(g, m)' # {}
    BY <1>2, <1>7 DEF MembershipInv, ListedAreConnected
  <2>4. ASSUME NEW m \in Live
        PROVE  nodes'[m] \subseteq alive_peer_ids'[m]
    <3>1. nodes[m] \subseteq alive_peer_ids[m]
      BY DEF MembershipInv, ListedAreConnected
    <3>. QED BY <1>10, <1>11, <3>1
  <2>. QED BY <1>10, <2>1, <2>2, <2>3, <2>4 DEF ListedAreConnected
<1>14. ToldAreInRing'
  <2> SUFFICES ASSUME NEW m \in Live, NEW r \in Live,
                      Between(m, r) \cap broken = {},
                      NEW e \in Between(m, r), ends'[e][m] \in 0 .. 1
               PROVE  r \in nodes'[m]
    BY <1>0, <1>2, <1>10 DEF ToldAreInRing
  <2>1. e \in Connections /\ m \in {e[1], e[2]}
    BY DEF Between
  <2>2. CASE ~ (e = d /\ m = n)
    <3>1. r \in nodes[m]
      BY <1>6, <2>1, <2>2 DEF MembershipInv, ToldAreInRing
    <3>2. r \in alive_peer_ids[m]
      BY <3>1 DEF MembershipInv, ListedAreConnected
    <3>. QED BY <1>10, <1>11, <3>1, <3>2
  <2>3. CASE e = d /\ m = n
    <3>1. r = q
      BY <1>4, <2>3, OnePair
    <3>2. q \notin Gateways
      BY <1>3, <3>1, ConnectionEnds DEF Live
    <3>. QED BY <1>11, <2>3, <3>1, <3>2
  <2>. QED BY <2>2, <2>3
<1>. QED BY <1>12, <1>13, <1>14 DEF MembershipInv

\* Whoever loses a connection forgets the peer, and nobody else.
LEMMA ClosedStep ==
    ASSUME MembershipInv, NEW d \in Connections, NEW p \in {d[1], d[2]},
           ConnectionClosed(d, p)
    PROVE  MembershipInv'
<1>1. PICK q \in Others(d, p) :
        IF p \in Gateways
        THEN /\ maroon_peer_ids' = [maroon_peer_ids EXCEPT ![p] = @ \ {q}]
             /\ UNCHANGED <<alive_peer_ids, alive_gateway_ids, nodes>>
        ELSE Forget(p, q) /\ UNCHANGED maroon_peer_ids
  BY DEF ConnectionClosed
<1> DEFINE v == Closed
<1>2. /\ UNCHANGED <<setup, broken, crashed>>
      /\ Running(p) /\ d \in broken
      /\ v \in EndStates /\ v < 0 /\ ends' = EndSet(d, p, v)
  BY DEF ConnectionClosed, EndSet, EndStates, Closed
<1> HIDE DEF v
<1>3. MembershipTypeOK /\ setup \in Setups
  BY DEF MembershipInv, MembershipTypeOK
<1>4. q # p /\ d \in Between(p, q) /\ q \in setup.nodes \cup Gateways
  BY <1>3, OtherEnd
<1>5. /\ EndsTyped'
      /\ \A e \in Connections : \A x \in {e[1], e[2]} :
            ends'[e][x] = IF e = d /\ x = p THEN v ELSE ends[e][x]
  BY <1>2, <1>3, EndChanges
<1>0. Connections' = Connections /\ \A x, y : Between(x, y)' = Between(x, y)
  BY <1>2, BetweenKept
<1>6. ASSUME NEW x, NEW y, ~ (x = p /\ y = q)
      PROVE  OpenAt(x, y)' = OpenAt(x, y)
  <2>1. ASSUME NEW e \in Between(x, y)
        PROVE  ends'[e][x] = ends[e][x]
    <3>1. e \in Connections /\ x \in {e[1], e[2]}
      BY DEF Between
    <3>2. ~ (e = d /\ x = p)
      BY <1>4, <1>6, OnePair
    <3>. QED BY <1>5, <3>1, <3>2
  <2>. QED BY <1>0, <2>1 DEF OpenAt
<1>7. Live' = Live /\ Live \subseteq Nodes
  <2>1. setup.nodes \subseteq Nodes
    BY <1>3, ConnectionEnds
  <2>. QED BY <1>2, <2>1 DEF Live
<1>8. p \in Gateways \/ p \in Nodes
  BY <1>2, <1>7 DEF Running
<1>9. /\ alive_peer_ids \in [Nodes -> SUBSET setup.nodes]
      /\ alive_gateway_ids \in [Nodes -> SUBSET Gateways]
      /\ maroon_peer_ids \in [Gateways -> SUBSET setup.nodes]
      /\ nodes \in [Nodes -> SUBSET setup.nodes]
  BY <1>3 DEF MembershipTypeOK
<1>10. Nodes \cap Gateways = {}
  BY SetupsAssumption
\* What the lists are afterwards, whoever lost the connection.
<1>11. /\ alive_peer_ids' \in [Nodes -> SUBSET setup.nodes]
       /\ alive_gateway_ids' \in [Nodes -> SUBSET Gateways]
       /\ maroon_peer_ids' \in [Gateways -> SUBSET setup.nodes]
       /\ nodes' \in [Nodes -> SUBSET setup.nodes]
       /\ \A m \in Nodes : alive_peer_ids'[m] \subseteq alive_peer_ids[m]
                           /\ alive_gateway_ids'[m] \subseteq alive_gateway_ids[m]
       /\ \A g \in Gateways : maroon_peer_ids'[g] \subseteq maroon_peer_ids[g]
       /\ \A m \in Nodes : m = p => q \notin alive_peer_ids'[m]
                                    /\ q \notin alive_gateway_ids'[m]
       /\ \A g \in Gateways : g = p => q \notin maroon_peer_ids'[g]
       /\ \A m \in Nodes : \/ nodes'[m] = nodes[m] /\ m # p
                           \/ nodes'[m] = alive_peer_ids'[m]
                              /\ alive_peer_ids'[m] = alive_peer_ids[m] \ {q}
                           \/ nodes'[m] = nodes[m] /\ q \notin alive_peer_ids[m]
                              /\ alive_peer_ids'[m] = alive_peer_ids[m]
       /\ \A m \in Nodes : m # p => alive_peer_ids'[m] = alive_peer_ids[m]
  <2>1. CASE p \in Gateways
    BY <1>1, <1>9, <1>10, <2>1
  <2>2. CASE p \notin Gateways
    <3>1. /\ alive_gateway_ids' = [alive_gateway_ids EXCEPT ![p] = @ \ {q}]
          /\ alive_peer_ids' = [alive_peer_ids EXCEPT ![p] = @ \ {q}]
          /\ nodes' = IF q \in alive_peer_ids[p]
                      THEN [nodes EXCEPT ![p] = alive_peer_ids'[p]]
                      ELSE nodes
          /\ UNCHANGED maroon_peer_ids
      BY <1>1, <2>2 DEF Forget
    <3>2. p \in Nodes
      BY <1>8, <2>2
    <3>3. /\ alive_peer_ids' \in [Nodes -> SUBSET setup.nodes]
          /\ alive_gateway_ids' \in [Nodes -> SUBSET Gateways]
          /\ alive_peer_ids'[p] = alive_peer_ids[p] \ {q}
          /\ \A m \in Nodes : m # p => alive_peer_ids'[m] = alive_peer_ids[m]
                              /\ alive_gateway_ids'[m] = alive_gateway_ids[m]
          /\ alive_gateway_ids'[p] = alive_gateway_ids[p] \ {q}
      BY <1>9, <3>1, <3>2
    <3>4. nodes' \in [Nodes -> SUBSET setup.nodes]
      BY <1>9, <3>1, <3>2, <3>3
    <3>5. \A m \in Nodes : nodes'[m] =
             IF m = p /\ q \in alive_peer_ids[p] THEN alive_peer_ids'[p]
                                                 ELSE nodes[m]
      BY <1>9, <3>1, <3>2
    <3>. QED BY <1>9, <2>2, <3>1, <3>2, <3>3, <3>4, <3>5
  <2>. QED BY <2>1, <2>2
<1>12. MembershipTypeOK'
  BY <1>0, <1>2, <1>3, <1>5, <1>11 DEF MembershipTypeOK, EndsTyped
<1>13. ListedAreConnected'
  <2>1. ASSUME NEW m \in Live, NEW r \in alive_peer_ids'[m] \ {m}
        PROVE  OpenAt(m, r)' # {}
    <3>1. r \in alive_peer_ids[m] /\ ~ (m = p /\ r = q)
      BY <1>7, <1>11
    <3>. QED BY <1>6, <3>1 DEF MembershipInv, ListedAreConnected
  <2>2. ASSUME NEW m \in Live, NEW g \in alive_gateway_ids'[m]
        PROVE  OpenAt(m, g)' # {}
    <3>1. g \in alive_gateway_ids[m] /\ ~ (m = p /\ g = q)
      BY <1>7, <1>11
    <3>. QED BY <1>6, <3>1 DEF MembershipInv, ListedAreConnected
  <2>3. ASSUME NEW g \in Gateways, NEW m \in maroon_peer_ids'[g]
        PROVE  OpenAt(g, m)' # {}
    <3>1. m \in maroon_peer_ids[g] /\ ~ (g = p /\ m = q)
      BY <1>11
    <3>. QED BY <1>6, <3>1 DEF MembershipInv, ListedAreConnected
  <2>4. ASSUME NEW m \in Live
        PROVE  nodes'[m] \subseteq alive_peer_ids'[m]
    <3>1. nodes[m] \subseteq alive_peer_ids[m] /\ m \in Nodes
      BY <1>7 DEF MembershipInv, ListedAreConnected
    <3>. QED BY <1>11, <3>1
  <2>. QED BY <1>7, <2>1, <2>2, <2>3, <2>4 DEF ListedAreConnected
<1>14. ToldAreInRing'
  <2> SUFFICES ASSUME NEW m \in Live, NEW r \in Live,
                      Between(m, r) \cap broken = {},
                      NEW e \in Between(m, r), ends'[e][m] \in 0 .. 1
               PROVE  r \in nodes'[m]
    BY <1>0, <1>2, <1>7 DEF ToldAreInRing
  <2>1. e \in Connections /\ m \in {e[1], e[2]} /\ e # d
    BY <1>2 DEF Between
  <2>2. r \in nodes[m]
    BY <1>5, <2>1 DEF MembershipInv, ToldAreInRing
  <2>3. r \in alive_peer_ids[m] /\ m \in Nodes
    BY <1>7, <2>2 DEF MembershipInv, ListedAreConnected
  <2>4. ~ (m = p /\ r = q)
    BY <1>2, <1>4
  <2>. QED BY <1>11, <2>2, <2>3, <2>4
<1>. QED BY <1>12, <1>13, <1>14 DEF MembershipInv

\* Connections break and nodes die: nobody hears of it yet.
LEMMA LossStep ==
    ASSUME MembershipInv, UNCHANGED <<setup, ends, aliveVars>>,
           broken \subseteq broken', broken' \subseteq Connections,
           crashed \subseteq crashed', crashed' \subseteq setup.nodes
    PROVE  MembershipInv'
<1>1. /\ Connections' = Connections /\ \A x, y : Between(x, y)' = Between(x, y)
      /\ Live' \subseteq Live
      /\ UNCHANGED <<alive_peer_ids, alive_gateway_ids, maroon_peer_ids, nodes>>
  BY BetweenKept DEF Live, aliveVars
<1>2. \A x, y : OpenAt(x, y)' = OpenAt(x, y)
  BY <1>1 DEF OpenAt
<1>3. MembershipTypeOK'
  BY <1>1 DEF MembershipInv, MembershipTypeOK
<1>4. ListedAreConnected'
  BY <1>1, <1>2 DEF MembershipInv, ListedAreConnected
<1>5. ToldAreInRing'
  <2> SUFFICES ASSUME NEW n \in Live', NEW q \in Live',
                      Between(n, q) \cap broken' = {},
                      NEW d \in Between(n, q), ends[d][n] \in 0 .. 1
               PROVE  q \in nodes[n]
    BY <1>1 DEF ToldAreInRing
  <2>1. n \in Live /\ q \in Live /\ Between(n, q) \cap broken = {}
    BY <1>1
  <2>. QED BY <2>1 DEF MembershipInv, ToldAreInRing
<1>. QED BY <1>3, <1>4, <1>5 DEF MembershipInv

\* Whoever is linked from the start is connected, and told already.
LEMMA MembershipInitInv == MembershipInit => MembershipInv
<1> SUFFICES ASSUME MembershipInit
             PROVE  MembershipInv
  OBVIOUS
<1> DEFINE Linked(p) == {q \in Peers : <<p, q>> \in setup.up
                                          \/ <<q, p>> \in setup.up}
<1>1. /\ setup \in Setups
      /\ ends = [d \in Connections |->
                   [p \in {d[1], d[2]} |-> IF d \in setup.up THEN 0 ELSE NotYet]]
      /\ broken = {} /\ crashed = {}
      /\ alive_peer_ids = [n \in Nodes |-> (Linked(n) \cup {n}) \cap setup.nodes]
      /\ alive_gateway_ids = [n \in Nodes |-> Linked(n) \cap Gateways]
      /\ maroon_peer_ids = [g \in Gateways |-> Linked(g)]
      /\ nodes = [n \in Nodes |-> IF alive_peer_ids[n] = {n} THEN {}
                                                         ELSE alive_peer_ids[n]]
  BY DEF MembershipInit, Connections
<1>2. /\ setup.nodes \subseteq Nodes /\ Nodes \cap Gateways = {}
      /\ setup.up \subseteq Connections
      /\ setup.up \subseteq (setup.nodes \cup Gateways) \X setup.nodes
  BY <1>1, SetupsAssumption DEF Setup, Connections
<1>3. Live = setup.nodes
  BY <1>1 DEF Live
<1>4. ASSUME NEW p, NEW q \in Linked(p)
      PROVE  OpenAt(p, q) # {} /\ (p \in Gateways => q \in setup.nodes)
  <2>1. PICK d \in setup.up : d = <<p, q>> \/ d = <<q, p>>
    BY <1>4
  <2>2. d \in Connections /\ {d[1], d[2]} = {p, q}
    BY <1>2, <2>1
  <2>3. d \in Between(p, q) /\ ends[d][p] = 0
    BY <1>1, <2>1, <2>2 DEF Between
  <2>4. p \in Gateways => q \in setup.nodes
    BY <1>2, <2>1
  <2>. QED BY <2>3, <2>4 DEF OpenAt
<1>5. MembershipTypeOK
  <2>1. EndsTyped
    BY <1>1 DEF EndsTyped, EndStates
  <2>2. maroon_peer_ids \in [Gateways -> SUBSET setup.nodes]
    BY <1>1, <1>4
  <2>3. alive_peer_ids \in [Nodes -> SUBSET setup.nodes]
        /\ alive_gateway_ids \in [Nodes -> SUBSET Gateways]
    BY <1>1
  <2>4. nodes \in [Nodes -> SUBSET setup.nodes]
    BY <1>1, <2>3
  <2>. QED BY <1>1, <2>1, <2>2, <2>3, <2>4 DEF MembershipTypeOK, EndsTyped
<1>6. ListedAreConnected
  <2>1. ASSUME NEW n \in Live
        PROVE  /\ \A q \in alive_peer_ids[n] \ {n} : OpenAt(n, q) # {}
               /\ \A g \in alive_gateway_ids[n] : OpenAt(n, g) # {}
               /\ nodes[n] \subseteq alive_peer_ids[n]
    <3>1. n \in Nodes
      BY <1>2, <1>3
    <3>2. /\ alive_peer_ids[n] = (Linked(n) \cup {n}) \cap setup.nodes
          /\ alive_gateway_ids[n] = Linked(n) \cap Gateways
      BY <1>1, <3>1
    <3>3. nodes[n] \subseteq alive_peer_ids[n]
      BY <1>1, <3>1
    <3>. QED BY <1>4, <3>2, <3>3
  <2>2. \A g \in Gateways : \A n \in maroon_peer_ids[g] : OpenAt(g, n) # {}
    BY <1>1, <1>4
  <2>. QED BY <2>1, <2>2 DEF ListedAreConnected
<1>7. ToldAreInRing
  <2> SUFFICES ASSUME NEW n \in Live, NEW q \in Live,
                      NEW d \in Between(n, q), ends[d][n] \in 0 .. 1
               PROVE  q \in nodes[n]
    BY DEF ToldAreInRing
  <2>1. d \in Connections /\ {d[1], d[2]} = {n, q}
    BY DEF Between
  <2>2. d \in setup.up
    <3>1. n \in {d[1], d[2]}
      BY <2>1
    <3>2. ends[d][n] = IF d \in setup.up THEN 0 ELSE NotYet
      BY <1>1, <2>1, <3>1
    <3>. QED BY <3>2 DEF NotYet
  <2>3. d[1] # d[2] /\ d = <<d[1], d[2]>> /\ d \in Dials
    <3>1. d \in Dials /\ d[1] # d[2]
      BY <1>1, <2>1, ConnectionEnds
    <3>. QED BY <3>1 DEF Dials
  <2>4. n # q /\ (d = <<n, q>> \/ d = <<q, n>>)
    BY <2>1, <2>3
  <2>5. q \in Peers /\ n \in Nodes /\ q \in setup.nodes
    BY <1>2, <1>3 DEF Peers
  <2>6. q \in Linked(n)
    BY <2>2, <2>4, <2>5
  <2>7. q \in alive_peer_ids[n]
    BY <1>1, <2>5, <2>6
  <2>. QED BY <1>1, <2>4, <2>5, <2>7
<1>. QED BY <1>5, <1>6, <1>7 DEF MembershipInv

\* The invariant is kept by every event of the p2p tasks and every loss.
LEMMA MembershipStep == MembershipInv /\ MembershipNext => MembershipInv'
<1> SUFFICES ASSUME MembershipInv, MembershipNext
             PROVE  MembershipInv'
  OBVIOUS
<1>1. setup \in Setups /\ broken \subseteq Connections
      /\ crashed \subseteq setup.nodes
  BY DEF MembershipInv, MembershipTypeOK
<1>2. ASSUME NEW d \in Connections, HandleSwarmEvent(d)
      PROVE  MembershipInv'
  BY <1>2, EstablishedStep, ClosedStep, MetaExchangeStep DEF HandleSwarmEvent
<1>3. ASSUME NEW d \in Connections, Break(d)
      PROVE  MembershipInv'
  BY <1>1, <1>3, LossStep DEF Break
<1>4. ASSUME NEW n \in Nodes, Crash(n)
      PROVE  MembershipInv'
  BY <1>1, <1>4, LossStep DEF Crash, Live
<1>. QED BY <1>2, <1>3, <1>4 DEF MembershipNext

\* Nodes that are told everything have each other in their rings.
LEMMA SettledFromInv == MembershipInv => SettledRingsAgree
<1> SUFFICES ASSUME MembershipInv, NEW n \in Live, NEW q \in Live,
                    Between(n, q) # {},
                    \A d \in Between(n, q) : d \notin broken /\ ends[d][n] = 0
             PROVE  q \in nodes[n]
  BY DEF SettledRingsAgree
<1>1. Between(n, q) \cap broken = {}
  OBVIOUS
<1>2. \E d \in Between(n, q) : ends[d][n] \in 0 .. 1
  OBVIOUS
<1>. QED BY <1>1, <1>2 DEF MembershipInv, ToldAreInRing

\* Every behaviour of the p2p tasks alone keeps the lists right.
THEOREM MembershipInvariant ==
    MembershipInit /\ [][MembershipNext]_membershipVars
        => [](ListedAreConnected /\ SettledRingsAgree)
<1>1. MembershipInv /\ UNCHANGED membershipVars => MembershipInv'
  <2> SUFFICES ASSUME MembershipInv, UNCHANGED membershipVars
               PROVE  MembershipInv'
    OBVIOUS
  <2>1. UNCHANGED <<setup, ends, broken, crashed, aliveVars>>
    BY DEF membershipVars
  <2>2. broken \subseteq Connections /\ crashed \subseteq setup.nodes
    BY DEF MembershipInv, MembershipTypeOK
  <2>. QED BY <2>1, <2>2, LossStep
<1>2. MembershipInv => ListedAreConnected /\ SettledRingsAgree
  BY SettledFromInv DEF MembershipInv
<1>. QED BY <1>1, <1>2, MembershipInitInv, MembershipStep, PTL

-----------------------------------------------------------------------------
(***************************************************************************)
(* The ring.  The places in a list are different for different nodes, and  *)
(* to count from the place of the latest commiter keeps them different.    *)
(***************************************************************************)
LEMMA LeastNatural ==
    ASSUME NEW T \in SUBSET Nat, T # {}
    PROVE  \E x \in T : \A y \in T : x <= y
<1>1. PICK x \in T : \A y \in T : ~ (<<y, x>> \in OpToRel(<, Nat))
  BY WFMin, NatLessThanWellFounded
<1>2. \A y \in T : ~ (y < x)
  BY <1>1 DEF OpToRel
<1>. QED BY <1>2

\* A part of a finite set that lacks an element is smaller.
LEMMA SmallerPart ==
    ASSUME NEW S, IsFiniteSet(S), NEW T \in SUBSET S, NEW x \in S \ T
    PROVE  /\ IsFiniteSet(T) /\ Cardinality(T) \in Nat /\ Cardinality(S) \in Nat
           /\ Cardinality(T) < Cardinality(S)
<1>1. IsFiniteSet(T) /\ Cardinality(T) <= Cardinality(S)
      /\ Cardinality(T) # Cardinality(S)
  BY FS_Subset
<1>2. Cardinality(T) \in Nat /\ Cardinality(S) \in Nat
  BY <1>1, FS_CardinalityType
<1>. QED BY <1>1, <1>2

LEMMA PlacesInRange ==
    ASSUME NEW list \in SUBSET Nat, IsFiniteSet(list), NEW p \in list
    PROVE  /\ Cardinality(list) \in Nat \ {0}
           /\ PlaceIn(list, p) \in 0 .. Cardinality(list) - 1
<1> DEFINE T == {q \in list : q < p}
<1>1. T \in SUBSET list /\ p \in list \ T
  OBVIOUS
<1>2. Cardinality(T) \in Nat /\ Cardinality(list) \in Nat
      /\ Cardinality(T) < Cardinality(list)
  BY <1>1, SmallerPart
<1>3. PlaceIn(list, p) = Cardinality(T)
  BY DEF PlaceIn
<1> HIDE DEF T
<1>. QED BY <1>2, <1>3

LEMMA PlacesDiffer ==
    ASSUME NEW list \in SUBSET Nat, IsFiniteSet(list),
           NEW p \in list, NEW q \in list, p # q
    PROVE  PlaceIn(list, p) # PlaceIn(list, q)
<1>1. ASSUME NEW x \in list, NEW y \in list, x < y
      PROVE  PlaceIn(list, x) # PlaceIn(list, y)
  <2> DEFINE S == {z \in list : z < y}
             T == {z \in list : z < x}
  <2>0. x \in Nat /\ y \in Nat /\ \A z \in list : z < x => z < y
    BY <1>1
  <2>1. T \in SUBSET S /\ S \in SUBSET list
    BY <2>0
  <2>5. x \in S \ T
    BY <1>1, <2>0
  <2>2. IsFiniteSet(S)
    BY <2>1, FS_Subset
  <2>3. Cardinality(T) < Cardinality(S) /\ Cardinality(T) \in Nat
        /\ Cardinality(S) \in Nat
    BY <2>1, <2>2, <2>5, SmallerPart
  <2>4. PlaceIn(list, x) = Cardinality(T) /\ PlaceIn(list, y) = Cardinality(S)
    BY DEF PlaceIn
  <2> HIDE DEF S, T
  <2>. QED BY <2>3, <2>4
<1>2. p < q \/ q < p
  OBVIOUS
<1>. QED BY <1>1, <1>2

\* What remains of a number below twice the divisor.
LEMMA RemainderOnce ==
    ASSUME NEW t \in Nat \ {0}, NEW x \in 0 .. t - 1
    PROVE  x % t = x /\ (t + x) % t = x
OBVIOUS

\* How far a is behind b in a ring of t places.
LEMMA BehindDiffers ==
    ASSUME NEW t \in Nat \ {0}, NEW a \in 0 .. t - 1, NEW c \in 0 .. t - 1,
           NEW b \in 0 .. t - 1, a # c
    PROVE  (t - b + a) % t # (t - b + c) % t
<1>1. ASSUME NEW x \in 0 .. t - 1
      PROVE  (t - b + x) % t = IF x >= b THEN x - b ELSE t - b + x
  <2>1. CASE x >= b
    <3>1. x - b \in 0 .. t - 1 /\ t - b + x = t + (x - b)
      BY <2>1
    <3>. QED BY <2>1, <3>1, RemainderOnce
  <2>2. CASE x < b
    <3>1. t - b + x \in 0 .. t - 1
      BY <2>2
    <3>. QED BY <2>2, <3>1, RemainderOnce
  <2>. QED BY <2>1, <2>2
<1>2. (t - b + a) % t = IF a >= b THEN a - b ELSE t - b + a
  BY <1>1
<1>3. (t - b + c) % t = IF c >= b THEN c - b ELSE t - b + c
  BY <1>1
<1>. QED BY <1>2, <1>3

\* The position of a node that did not create the latest epoch, by its place.
LEMMA PositionFromPlace ==
    ASSUME NEW list \in SUBSET Nat, IsFiniteSet(list), NEW p \in list,
           NEW latest \in Int, p # latest
    PROVE  LET t == Cardinality(list)
               b == PlaceIn(list, latest)
           IN CalculatePosition(list, p, latest) =
                 IF latest \in list THEN (t - b + PlaceIn(list, p)) % t
                                    ELSE PlaceIn(list, p)
<1> DEFINE t == Cardinality(list)
           a == PlaceIn(list, p)
           b == PlaceIn(list, latest)
<1>1. t \in Nat \ {0} /\ a \in 0 .. t - 1
  BY PlacesInRange
<1>2. CASE latest = NoEpoch
  <2>1. latest \notin list
    BY <1>2 DEF NoEpoch
  <2>. QED BY <1>2, <2>1 DEF CalculatePosition
<1>3. CASE latest # NoEpoch /\ latest \notin list
  <2>1. b = 0
    BY <1>3 DEF PlaceIn
  <2>2. CalculatePosition(list, p, latest) =
          IF a = b THEN a ELSE (t - b + a) % t
    BY <1>3 DEF CalculatePosition
  <2> HIDE DEF a, b, t
  <2>3. (t - 0 + a) % t = a
    BY <1>1, RemainderOnce
  <2>4. CalculatePosition(list, p, latest) = a
    BY <2>1, <2>2, <2>3
  <2>. QED BY <1>3, <2>4 DEF a
<1>4. CASE latest # NoEpoch /\ latest \in list
  <2>1. a # b
    BY <1>4, PlacesDiffer
  <2>2. CalculatePosition(list, p, latest) =
          IF a = b THEN a ELSE (t - b + a) % t
    BY <1>4 DEF CalculatePosition
  <2>. QED BY <1>4, <2>1, <2>2
<1>. QED BY <1>2, <1>3, <1>4

\* Different nodes of a ring have different positions, as long as neither
\* created the latest epoch, whether that one's creator is in the ring or not.
LEMMA PositionsDiffer ==
    ASSUME NEW list \in SUBSET Nat, IsFiniteSet(list), NEW p \in list,
           NEW q \in list, NEW latest \in Int, p # latest, q # latest, p # q
    PROVE  CalculatePosition(list, p, latest)
             # CalculatePosition(list, q, latest)
<1> DEFINE t == Cardinality(list)
           a == PlaceIn(list, p)
           c == PlaceIn(list, q)
           b == PlaceIn(list, latest)
<1>1. /\ t \in Nat \ {0} /\ a \in 0 .. t - 1 /\ c \in 0 .. t - 1 /\ a # c
      /\ latest \in list => b \in 0 .. t - 1
  BY PlacesInRange, PlacesDiffer
<1>2. /\ CalculatePosition(list, p, latest) =
            IF latest \in list THEN (t - b + a) % t ELSE a
      /\ CalculatePosition(list, q, latest) =
            IF latest \in list THEN (t - b + c) % t ELSE c
  BY PositionFromPlace
<1> HIDE DEF t, a, b, c
<1>. QED BY <1>1, <1>2, BehindDiffers

\* A deployment has a longest uptime, so the clock has its bound.
LEMMA LongestUptime ==
    ASSUME setup \in Setups
    PROVE  MaxSince \in Nat
<1>1. /\ setup.nodes # {} /\ setup.nodes \subseteq Nodes
      /\ setup.uptime \in [Nodes -> Nat] /\ IsFiniteSet(Nodes)
  BY SetupsAssumption DEF Setup
<1>2. IsFiniteSet(setup.nodes) /\ Cardinality(setup.nodes) \in Nat
  BY <1>1, FS_Subset, FS_CardinalityType
<1> DEFINE Longer(n) == {m \in setup.nodes : setup.uptime[m] > setup.uptime[n]}
           T == {k \in Nat : \E n \in setup.nodes : k = Cardinality(Longer(n))}
<1>3. ASSUME NEW n \in setup.nodes
      PROVE  Cardinality(Longer(n)) \in Nat /\ IsFiniteSet(Longer(n))
  <2>1. Longer(n) \in SUBSET setup.nodes
    OBVIOUS
  <2>. HIDE DEF Longer
  <2>. QED BY <1>2, <2>1, FS_Subset, FS_CardinalityType
<1>4. T \in SUBSET Nat /\ T # {}
  BY <1>1, <1>3
<1>5. PICK k \in T : \A j \in T : k <= j
  <2>. HIDE DEF T
  <2>. QED BY <1>4, LeastNatural
<1>6. PICK n \in setup.nodes : k = Cardinality(Longer(n))
  OBVIOUS
<1>7. ASSUME NEW m \in setup.nodes
      PROVE  setup.uptime[m] <= setup.uptime[n]
  <2> SUFFICES ASSUME setup.uptime[m] > setup.uptime[n]
               PROVE  FALSE
    BY <1>1
  <2>1. Longer(m) \in SUBSET Longer(n) /\ m \in Longer(n) \ Longer(m)
    BY <1>1
  <2>2. Cardinality(Longer(m)) < Cardinality(Longer(n))
        /\ Cardinality(Longer(m)) \in Nat /\ Cardinality(Longer(n)) \in Nat
    <3>. HIDE DEF Longer
    <3>. QED BY <1>3, <2>1, SmallerPart
  <2>3. k <= Cardinality(Longer(m))
    BY <1>5, <2>2
  <2> HIDE DEF Longer
  <2>. QED BY <1>6, <2>2, <2>3
<1>8. setup.uptime[n] \in Uptimes /\ setup.uptime[n] \in Nat
      /\ \A v \in Uptimes : v <= setup.uptime[n]
  BY <1>1, <1>7 DEF Uptimes
<1>9. \E u \in Uptimes : \A v \in Uptimes : v <= u
  BY <1>8
<1> DEFINE longest == CHOOSE u \in Uptimes : \A v \in Uptimes : v <= u
<1>10. longest \in Uptimes /\ MaxSince = Cardinality(setup.nodes) + 1 + longest
  BY <1>9 DEF MaxSince
<1>11. Uptimes \subseteq Nat
  BY <1>1 DEF Uptimes
<1> HIDE DEF longest
<1>. QED BY <1>2, <1>10, <1>11

\* Elapsed differs from since by what the clocks differ.
LEMMA ElapsedType ==
    ASSUME MembershipTypeOK, RingTypeOK, NEW n \in Nodes
    PROVE  /\ since \in Int /\ Elapsed(n) \in Int
           /\ \A m \in Nodes : setup.uptime[n] = setup.uptime[m]
                                  => Elapsed(n) = Elapsed(m)
<1>1. setup.uptime \in [Nodes -> Nat]
  BY SetupsAssumption DEF MembershipTypeOK, Setup
<1>2. MaxSince \in Nat
  BY LongestUptime DEF MembershipTypeOK
<1>3. since \in Int /\ setup.uptime[n] \in Int
  BY <1>1, <1>2 DEF RingTypeOK
<1>4. latest_epoch # NoEpoch => setup.uptime[latest_epoch] \in Int
  BY <1>1 DEF RingTypeOK
<1>5. CASE latest_epoch = NoEpoch
  BY <1>3, <1>5 DEF Elapsed
<1>6. CASE latest_epoch # NoEpoch
  BY <1>3, <1>4, <1>6 DEF Elapsed
<1>. QED BY <1>5, <1>6

\* Positions are numbers.
LEMMA PositionType ==
    ASSUME MembershipTypeOK, RingTypeOK, NEW n \in Live, n \in nodes[n]
    PROVE  /\ n \in Nodes /\ IsFiniteSet(nodes[n]) /\ nodes[n] \in SUBSET Nat
           /\ latest_epoch \in Int
           /\ n # latest_epoch =>
                 CalculatePosition(nodes[n], n, latest_epoch) \in Int
<1>1. setup.nodes \subseteq Nodes /\ Nodes \subseteq Nat /\ IsFiniteSet(Nodes)
  BY SetupsAssumption DEF MembershipTypeOK, Setup
<1>2. n \in Nodes
  BY <1>1 DEF Live
<1>3. nodes[n] \in SUBSET Nodes
  BY <1>1, <1>2 DEF MembershipTypeOK
<1>4. IsFiniteSet(nodes[n]) /\ nodes[n] \in SUBSET Nat
  BY <1>1, <1>3, FS_Subset
<1>5. NoEpoch \in Int /\ Nodes \subseteq Int
  BY <1>1 DEF NoEpoch
<1>6. latest_epoch \in Int
  BY <1>5 DEF RingTypeOK
<1>7. ASSUME n # latest_epoch
      PROVE  CalculatePosition(nodes[n], n, latest_epoch) \in Int
  <2> DEFINE t == Cardinality(nodes[n])
             a == PlaceIn(nodes[n], n)
             b == PlaceIn(nodes[n], latest_epoch)
  <2>1. t \in Nat \ {0} /\ a \in 0 .. t - 1
    BY <1>4, PlacesInRange
  <2>2. b \in 0 .. t - 1
    <3>1. CASE latest_epoch \in nodes[n]
      BY <1>4, <3>1, PlacesInRange
    <3>2. CASE latest_epoch \notin nodes[n]
      BY <2>1, <3>2 DEF PlaceIn
    <3>. QED BY <3>1, <3>2
  <2>3. CalculatePosition(nodes[n], n, latest_epoch) =
           IF latest_epoch \in nodes[n] THEN (t - b + a) % t ELSE a
    BY <1>4, <1>6, <1>7, PositionFromPlace
  <2> HIDE DEF t, a, b
  <2>. QED BY <2>1, <2>2, <2>3
<1>. QED BY <1>2, <1>4, <1>6, <1>7

\* DueAt is what it is called: the period from which on a node is due.
LEMMA DueFrom ==
    ASSUME MembershipTypeOK, RingTypeOK,
           NEW n \in Live, n \in nodes[n], n # latest_epoch
    PROVE  ShouldSend(n) <=> since >= DueAt(n)
<1>1. CalculatePosition(nodes[n], n, latest_epoch) \in Int /\ n \in Nodes
  BY PositionType
<1>2. since \in Int /\ Elapsed(n) \in Int
  BY <1>1, ElapsedType
<1>. QED BY <1>1, <1>2 DEF ShouldSend, DueAt

\* Turns are apart in every state of the right type, whatever the nodes know
\* of each other.
LEMMA TurnsFromTypes ==
    ASSUME MembershipTypeOK, RingTypeOK
    PROVE  TurnsApart
<1> SUFFICES ASSUME NEW n \in Live \ {latest_epoch},
                    NEW m \in Live \ {latest_epoch},
                    n # m, nodes[n] = nodes[m], {n, m} \subseteq nodes[n],
                    setup.uptime[n] = setup.uptime[m]
             PROVE  DueAt(n) # DueAt(m)
  BY DEF TurnsApart
<1>1. /\ n \in Nodes /\ IsFiniteSet(nodes[n]) /\ nodes[n] \in SUBSET Nat
      /\ latest_epoch \in Int /\ m \in Nodes
      /\ CalculatePosition(nodes[n], n, latest_epoch) \in Int
      /\ CalculatePosition(nodes[m], m, latest_epoch) \in Int
  BY PositionType
<1>2. CalculatePosition(nodes[n], n, latest_epoch)
         # CalculatePosition(nodes[m], m, latest_epoch)
  BY <1>1, PositionsDiffer
<1>3. since \in Int /\ Elapsed(n) \in Int /\ Elapsed(m) = Elapsed(n)
  BY <1>1, ElapsedType
<1>. QED BY <1>1, <1>2, <1>3 DEF DueAt

\* The clock and the epochs.
LEMMA RingStep ==
    ASSUME MembershipTypeOK, RingTypeOK, RingNext
    PROVE  RingTypeOK' /\ UNCHANGED membershipVars
<1>1. MaxSince \in Nat
  BY LongestUptime DEF MembershipTypeOK
<1>2. UNCHANGED membershipVars
  BY DEF RingNext, Tick, StartWatch, PublishEpoch, ReceiveEpoch
<1>3. MaxSince' = MaxSince
  BY <1>2 DEF MaxSince, Uptimes, membershipVars
<1>4. CASE Tick
  BY <1>1, <1>3, <1>4 DEF Tick, RingTypeOK
<1>5. ASSUME NEW n \in Nodes, StartWatch(n)
      PROVE  RingTypeOK'
  BY <1>3, <1>5 DEF StartWatch, RingTypeOK, Tidings
<1>6. ASSUME NEW n \in Nodes, PublishEpoch(n)
      PROVE  RingTypeOK'
  BY <1>1, <1>3, <1>6 DEF PublishEpoch, RingTypeOK, Tidings
<1>7. ASSUME NEW n \in Nodes, ReceiveEpoch(n)
      PROVE  RingTypeOK'
  BY <1>3, <1>7 DEF ReceiveEpoch, RingTypeOK, Tidings
<1>. QED BY <1>2, <1>4, <1>5, <1>6, <1>7 DEF RingNext

-----------------------------------------------------------------------------
(***************************************************************************)
(* Requests.  The inductive invariant.                                     *)
(***************************************************************************)

\* The gateway of request q issued id for it: the k-th request gets the k-th id
\* of the range.
IssuedFor(id, q) ==
    \E g \in Gateways : \E k \in 1 .. setup.requests[g] :
        /\ q = <<g, k>>
        /\ id = IntervalLeft(RangeOf[g]) + k - 1
        /\ id < interval_left[g]

IntervalsSound ==
    /\ interval_left \in [Gateways -> Nat]
    /\ \A g \in Gateways : /\ IntervalLeft(RangeOf[g]) <= interval_left[g]
                           /\ interval_left[g] <= IntervalRight(RangeOf[g])

\* Nobody is sent away as long as ids are left, nor answered before its turn.
AnswersSound ==
    /\ DOMAIN answers = Requests
    /\ \A q \in Requests : answers[q] = <<>> \/ \E x : answers[q] = <<x>>
    /\ RangesApart => \A q \in Requests : answers[q] \in {<<>>, <<q>>, <<Panic>>}
    /\ \A g \in Gateways, k \in Nat \ {0} :
          <<g, k>> \in Requests /\ IdsLeft(g)
          => /\ answers[<<g, k>>] # <<Panic>>
             /\ k > Issued(g) => answers[<<g, k>>] = <<>>

\* A client of gateway g that waits for the result of id.
Waits(g, id, q) == q[1] = g /\ IssuedFor(id, q) /\ answers[q] = <<>>

WaitersSound ==
    /\ new_requests \in [Gateways -> Seq(Ids \X Requests)]
    /\ DOMAIN ws_registry = Gateways
    /\ \A g \in Gateways : \A id \in DOMAIN ws_registry[g] :
          Waits(g, id, ws_registry[g][id])
    /\ \A g \in Gateways : \A i \in 1 .. Len(new_requests[g]) :
          /\ Waits(g, new_requests[g][i][1], new_requests[g][i][2])
          /\ new_requests[g][i][1] \notin DOMAIN ws_registry[g]
          /\ \A j \in 1 .. Len(new_requests[g]) :
                j # i => new_requests[g][j][1] # new_requests[g][i][1]

SentSound ==
    /\ sent \subseteq [id : Ids, request : Requests, dial : Dials]
    /\ \A m \in sent : IssuedFor(m.id, m.request)

\* offset is the end of the ids of range r that are held from its start on.
PrefixOf(held, r, offset) ==
    IF IdFrom(r, 0) \in held
    THEN /\ offset >= 0
         /\ \A i \in 0 .. offset : IdFrom(r, i) \in held
         /\ IdFrom(r, offset + 1) \notin held
    ELSE offset = NoOffset

IsTransaction(id, tx) ==
    tx \in [request : Requests, status : Statuses] /\ IssuedFor(id, tx.request)

StoreSound ==
    /\ DOMAIN transactions = Nodes
    /\ \A n \in Nodes : \A id \in DOMAIN transactions[n] :
          IsTransaction(id, transactions[n][id])
    /\ self_offsets \in [Nodes -> [Ranges -> NoOffset .. SingleBlobSize - 1]]
    /\ \A n \in Nodes, r \in Ranges :
          PrefixOf(DOMAIN transactions[n], r, self_offsets[n][r])

\* What a node was asked for it still has.
AskedSound ==
    /\ asked \in [Nodes -> SUBSET (Nodes \X Ids)]
    /\ \A n \in Nodes : \A p \in asked[n] : p[2] \in DOMAIN transactions[p[1]]

\* No id is in two epochs, and a node executes what its epochs name.
EpochsSound ==
    /\ epochs \in Seq(SUBSET Ids)
    /\ \A i, j \in 1 .. Len(epochs) : i # j => epochs[i] \cap epochs[j] = {}
    /\ applied \in [Nodes -> 0 .. Len(epochs)]
    /\ DOMAIN executed = Nodes
    /\ \A n \in Nodes : \A id \in DOMAIN executed[n] :
          /\ IssuedFor(id, executed[n][id])
          /\ \E i \in 1 .. applied[n] : id \in epochs[i]
    /\ working \in [Nodes -> SUBSET Ids]
    /\ \A n \in Nodes : working[n] \subseteq DOMAIN executed[n]
    /\ panicked \subseteq setup.nodes

UpdatesSound ==
    /\ \A u \in updates :
          /\ u.to \in Gateways
          /\ \A id \in DOMAIN u.results : IssuedFor(id, u.results[id])
    /\ unheard \subseteq Ids

RequestsInv ==
    /\ MembershipInv /\ RingTypeOK
    /\ IntervalsSound /\ AnswersSound /\ WaitersSound
    /\ SentSound /\ StoreSound /\ AskedSound
    /\ EpochsSound /\ UpdatesSound /\ ProgressIsReal

-----------------------------------------------------------------------------
(***************************************************************************)
(* Ids: a range and an offset in it.                                       *)
(***************************************************************************)
LEMMA QuotientIsUnique ==
    ASSUME NEW b \in Nat \ {0}, NEW p \in Int, NEW q \in Int,
           NEW x \in 0 .. b - 1, NEW y \in 0 .. b - 1, p * b + x = q * b + y
    PROVE  p = q /\ x = y
<1>1. ASSUME NEW k \in Int, NEW d \in Int, k >= 1, d > -b, k * b + d = 0
      PROVE  FALSE
  <2>1. k * b >= b
    BY <1>1
  <2>. QED BY <1>1, <2>1
<1>2. (p - q) * b + (x - y) = 0 /\ (q - p) * b + (y - x) = 0
  OBVIOUS
<1>3. ~ (p - q >= 1)
  BY <1>1, <1>2
<1>4. ~ (q - p >= 1)
  BY <1>1, <1>2
<1>5. p = q
  BY <1>3, <1>4
<1>. QED BY <1>5

LEMMA IdSplit ==
    ASSUME NEW id \in Nat
    PROVE  /\ RangeFromId(id) \in Nat
           /\ OffsetFromId(id) \in 0 .. SingleBlobSize - 1
           /\ id = IdFrom(RangeFromId(id), OffsetFromId(id))
BY RangesAssumption DEF RangeFromId, OffsetFromId, IdFrom

LEMMA IdJoin ==
    ASSUME NEW r \in Nat, NEW o \in 0 .. SingleBlobSize - 1
    PROVE  /\ IdFrom(r, o) \in Nat
           /\ RangeFromId(IdFrom(r, o)) = r
           /\ OffsetFromId(IdFrom(r, o)) = o
<1>1. IdFrom(r, o) \in Nat /\ SingleBlobSize \in Nat \ {0}
  BY RangesAssumption DEF IdFrom
<1> DEFINE q == RangeFromId(IdFrom(r, o))
           p == OffsetFromId(IdFrom(r, o))
<1>2. q \in Nat /\ p \in 0 .. SingleBlobSize - 1 /\ IdFrom(r, o) = IdFrom(q, p)
  BY <1>1, IdSplit
<1> HIDE DEF q, p
<1>3. r = q /\ o = p
  BY <1>1, <1>2, QuotientIsUnique DEF IdFrom
<1>. QED BY <1>1, <1>3 DEF q, p

\* The interval of a range is made of its ids.
LEMMA Interval ==
    ASSUME NEW r \in Nat
    PROVE  /\ IntervalLeft(r) \in Nat
           /\ IntervalRight(r) = IntervalLeft(r) + SingleBlobSize - 1
           /\ \A o \in Int : IdFrom(r, o) = IntervalLeft(r) + o
           /\ \A id \in IntervalLeft(r) .. IntervalRight(r) :
                 /\ id \in Nat /\ RangeFromId(id) = r
                 /\ OffsetFromId(id) = id - IntervalLeft(r)
                 /\ id = IdFrom(r, OffsetFromId(id))
<1>1. SingleBlobSize \in Nat \ {0}
  BY RangesAssumption
<1>2. /\ IntervalLeft(r) \in Nat
      /\ IntervalRight(r) = IntervalLeft(r) + SingleBlobSize - 1
      /\ \A o \in Int : IdFrom(r, o) = IntervalLeft(r) + o
  BY <1>1 DEF IntervalLeft, IntervalRight, IdFrom
<1>3. ASSUME NEW id \in IntervalLeft(r) .. IntervalRight(r)
      PROVE  /\ id \in Nat /\ RangeFromId(id) = r
             /\ OffsetFromId(id) = id - IntervalLeft(r)
             /\ id = IdFrom(r, OffsetFromId(id))
  <2> DEFINE o == id - IntervalLeft(r)
  <2>1. o \in 0 .. SingleBlobSize - 1 /\ id \in Nat /\ o \in Int
    BY <1>1, <1>2
  <2>2. id = IdFrom(r, o)
    <3>1. IdFrom(r, o) = IntervalLeft(r) + o
      BY <1>2, <2>1
    <3>. QED BY <1>2, <3>1
  <2> HIDE DEF o
  <2>3. RangeFromId(id) = r /\ OffsetFromId(id) = o
    BY <2>1, <2>2, IdJoin
  <2>. QED BY <2>1, <2>2, <2>3 DEF o
<1>. QED BY <1>2, <1>3

\* The ids are the numbers whose range belongs to a gateway.
LEMMA IdsByRange ==
    /\ Ranges \subseteq Nat
    /\ \A g \in Gateways : RangeOf[g] \in Ranges /\ RangeOf[g] \in Nat
    /\ \A id : id \in Ids <=> id \in Nat /\ RangeFromId(id) \in Ranges
    /\ \A r \in Ranges : IntervalLeft(r) .. IntervalRight(r) \subseteq Ids
<1>1. Ranges \subseteq Nat /\ \A g \in Gateways : RangeOf[g] \in Ranges
  BY RangesAssumption DEF Ranges
<1>2. \A r \in Ranges : IntervalLeft(r) .. IntervalRight(r) \subseteq Ids
  BY DEF Ids
<1>3. ASSUME NEW id \in Ids
      PROVE  id \in Nat /\ RangeFromId(id) \in Ranges
  <2>1. PICK r \in Ranges : id \in IntervalLeft(r) .. IntervalRight(r)
    BY DEF Ids
  <2>. QED BY <1>1, <2>1, Interval
<1>4. ASSUME NEW id \in Nat, RangeFromId(id) \in Ranges
      PROVE  id \in Ids
  <2> DEFINE r == RangeFromId(id)
             o == OffsetFromId(id)
  <2>1. r \in Nat /\ o \in 0 .. SingleBlobSize - 1 /\ id = IdFrom(r, o)
    BY IdSplit
  <2> HIDE DEF o
  <2>2. /\ IntervalLeft(r) \in Nat /\ IdFrom(r, o) = IntervalLeft(r) + o
        /\ IntervalRight(r) = IntervalLeft(r) + SingleBlobSize - 1
    BY <2>1, Interval
  <2>3. id \in IntervalLeft(r) .. IntervalRight(r)
    BY <2>1, <2>2, RangesAssumption
  <2>. QED BY <1>2, <1>4, <2>3
<1>. QED BY <1>1, <1>2, <1>3, <1>4

-----------------------------------------------------------------------------
(***************************************************************************)
(* What was issued.                                                        *)
(***************************************************************************)
LEMMA SetupFacts ==
    ASSUME setup \in Setups
    PROVE  /\ setup.nodes \subseteq Nodes /\ Nodes \cap Gateways = {}
           /\ setup.requests \in [Gateways -> Nat]
           /\ \A g \in Gateways : \A k \in 1 .. setup.requests[g] :
                 <<g, k>> \in Requests
           /\ Requests \subseteq Gateways \X (Nat \ {0})
<1>1. setup \in Setup /\ \A s \in Setups : s \in Setup
  BY SetupsAssumption
<1>2. \A s \in Setups : s.requests \in [Gateways -> Nat]
  BY <1>1 DEF Setup
<1>3. \A s \in Setups : RequestsOf(s) \subseteq Gateways \X (Nat \ {0})
  BY <1>2 DEF RequestsOf
<1>4. Requests \subseteq Gateways \X (Nat \ {0})
  BY <1>3 DEF Requests
<1>5. RequestsOf(setup) \subseteq Requests
  BY DEF Requests
<1>6. \A g \in Gateways : \A k \in 1 .. setup.requests[g] :
         <<g, k>> \in RequestsOf(setup)
  BY DEF RequestsOf
<1>7. setup.nodes \subseteq Nodes /\ Nodes \cap Gateways = {}
  BY <1>1, SetupsAssumption DEF Setup
<1>. QED BY <1>2, <1>4, <1>5, <1>6, <1>7

LEMMA IssuedParts ==
    ASSUME setup \in Setups, IntervalsSound, NEW id, NEW q, IssuedFor(id, q)
    PROVE  /\ id \in Ids /\ id \in Nat /\ q \in Requests
           /\ q[1] \in Gateways /\ q[2] \in Nat \ {0} /\ q = <<q[1], q[2]>>
           /\ setup.requests[q[1]] > 0
           /\ RangeFromId(id) = RangeOf[q[1]]
           /\ id = IntervalLeft(RangeOf[q[1]]) + q[2] - 1
           /\ id < interval_left[q[1]]
           /\ OffsetFromId(id) < SingleBlobSize - 1
<1>0. PICK g \in Gateways : \E k \in 1 .. setup.requests[g] :
        /\ q = <<g, k>>
        /\ id = IntervalLeft(RangeOf[g]) + k - 1
        /\ id < interval_left[g]
  BY DEF IssuedFor
<1>1. PICK k \in 1 .. setup.requests[g] :
        /\ q = <<g, k>>
        /\ id = IntervalLeft(RangeOf[g]) + k - 1
        /\ id < interval_left[g]
  BY <1>0
<1>2. setup.requests[g] \in Nat /\ q \in Requests
  BY <1>1, SetupFacts
<1>3. q[1] = g /\ q[2] = k /\ k \in Nat \ {0} /\ setup.requests[g] > 0
  BY <1>1, <1>2
<1> DEFINE r == RangeOf[g]
<1>4. r \in Ranges /\ r \in Nat
  BY IdsByRange
<1> HIDE DEF r
<1>5. /\ IntervalLeft(r) \in Nat
      /\ IntervalRight(r) = IntervalLeft(r) + SingleBlobSize - 1
      /\ \A x \in IntervalLeft(r) .. IntervalRight(r) :
            x \in Nat /\ RangeFromId(x) = r /\ OffsetFromId(x) = x - IntervalLeft(r)
  BY <1>4, Interval
<1>6. interval_left[g] \in Nat /\ interval_left[g] <= IntervalRight(r)
  BY DEF IntervalsSound, r
<1>7. id = IntervalLeft(r) + k - 1
  BY <1>1 DEF r
<1>8. id \in IntervalLeft(r) .. IntervalRight(r) /\ id < IntervalRight(r)
  BY <1>1, <1>3, <1>5, <1>6, <1>7, RangesAssumption
<1>9. id \in Nat /\ RangeFromId(id) = r /\ OffsetFromId(id) = id - IntervalLeft(r)
  BY <1>5, <1>8
<1>10. OffsetFromId(id) < SingleBlobSize - 1
  BY <1>5, <1>8, <1>9, RangesAssumption
<1>11. id \in Ids
  BY <1>4, <1>9, IdsByRange
<1>12. RangeFromId(id) = RangeOf[q[1]] /\ id = IntervalLeft(RangeOf[q[1]]) + q[2] - 1
  BY <1>3, <1>7, <1>9 DEF r
<1>. QED BY <1>1, <1>2, <1>3, <1>9, <1>10, <1>11, <1>12

\* An id belongs to one request, when running gateways have their own ranges.
LEMMA IssuedOnce ==
    ASSUME setup \in Setups, IntervalsSound, RangesApart,
           NEW id, NEW q, NEW p, IssuedFor(id, q), IssuedFor(id, p)
    PROVE  p = q
<1>1. /\ q[1] \in Gateways /\ q[2] \in Nat \ {0} /\ q = <<q[1], q[2]>>
      /\ setup.requests[q[1]] > 0 /\ RangeFromId(id) = RangeOf[q[1]]
      /\ id = IntervalLeft(RangeOf[q[1]]) + q[2] - 1
  BY IssuedParts
<1>2. /\ p[1] \in Gateways /\ p[2] \in Nat \ {0} /\ p = <<p[1], p[2]>>
      /\ setup.requests[p[1]] > 0 /\ RangeFromId(id) = RangeOf[p[1]]
      /\ id = IntervalLeft(RangeOf[p[1]]) + p[2] - 1
  BY IssuedParts
<1>3. p[1] = q[1]
  BY <1>1, <1>2 DEF RangesApart
<1>4. IntervalLeft(RangeOf[q[1]]) \in Nat
  BY <1>1, IdsByRange, Interval
<1>5. p[2] = q[2]
  BY <1>1, <1>2, <1>3, <1>4
<1>. QED BY <1>1, <1>2, <1>3, <1>5

\* A request has one id.
LEMMA OneId ==
    ASSUME setup \in Setups, IntervalsSound,
           NEW id, NEW other, NEW q, IssuedFor(id, q), IssuedFor(other, q)
    PROVE  id = other
BY IssuedParts

\* Ids are issued for good.
LEMMA IssuedStays ==
    ASSUME UNCHANGED setup, IntervalsSound, IntervalsSound',
           \A g \in Gateways : interval_left[g] <= interval_left'[g]
    PROVE  \A id, q : IssuedFor(id, q) => IssuedFor(id, q)'
<1> SUFFICES ASSUME NEW id, NEW q, NEW g \in Gateways,
                    NEW k \in 1 .. setup.requests[g], q = <<g, k>>,
                    id = IntervalLeft(RangeOf[g]) + k - 1, id < interval_left[g]
             PROVE  id < interval_left'[g]
  BY DEF IssuedFor
<1>1. interval_left[g] \in Nat /\ interval_left'[g] \in Nat
  BY DEF IntervalsSound
<1>2. IntervalLeft(RangeOf[g]) \in Nat
  BY IdsByRange, Interval
<1>3. k \in Int
  OBVIOUS
<1>. QED BY <1>1, <1>2, <1>3

-----------------------------------------------------------------------------
(***************************************************************************)
(* What a part of the invariant does not mention does not disturb it.      *)
(***************************************************************************)
Issuing ==
    /\ UNCHANGED setup
    /\ \A id, q : IssuedFor(id, q) => IssuedFor(id, q)'

LEMMA SentFrame ==
    ASSUME SentSound, Issuing, sent' \subseteq sent
    PROVE  SentSound'
BY DEF SentSound, Issuing

LEMMA StoreFrame ==
    ASSUME StoreSound, Issuing, UNCHANGED <<transactions, self_offsets>>
    PROVE  StoreSound'
BY DEF StoreSound, Issuing, PrefixOf, IsTransaction

LEMMA AskedFrame ==
    ASSUME AskedSound, UNCHANGED <<asked, transactions>>
    PROVE  AskedSound'
BY DEF AskedSound

LEMMA EpochsFrame ==
    ASSUME EpochsSound, Issuing, UNCHANGED epochVars
    PROVE  EpochsSound'
BY DEF EpochsSound, Issuing, epochVars

LEMMA UpdatesFrame ==
    ASSUME UpdatesSound, Issuing, updates' \subseteq updates, UNCHANGED unheard
    PROVE  UpdatesSound'
BY DEF UpdatesSound, Issuing

LEMMA GatewayFrame ==
    ASSUME IntervalsSound, AnswersSound, WaitersSound, UNCHANGED setup,
           UNCHANGED <<interval_left, new_requests, ws_registry, answers>>
    PROVE  IntervalsSound' /\ AnswersSound' /\ WaitersSound'
BY DEF IntervalsSound, AnswersSound, WaitersSound, Waits, IssuedFor,
       RangesApart, IdsLeft, Issued

LEMMA ProgressFrame ==
    ASSUME ProgressIsReal, UNCHANGED <<transactions, epochs, executed, working>>
    PROVE  ProgressIsReal'
BY DEF ProgressIsReal, Committed

LEMMA MembershipFrame ==
    ASSUME MembershipInv, RingTypeOK, UNCHANGED <<membershipVars, ringVars>>
    PROVE  MembershipInv' /\ RingTypeOK'
<1>1. UNCHANGED <<setup, ends, broken, crashed, aliveVars>>
  BY DEF membershipVars
<1>2. MembershipInv'
  <2>1. broken \subseteq Connections /\ crashed \subseteq setup.nodes
    BY DEF MembershipInv, MembershipTypeOK
  <2>. QED BY <1>1, <2>1, LossStep
<1>3. RingTypeOK'
  BY <1>1 DEF RingTypeOK, ringVars, MaxSince, Uptimes
<1>. QED BY <1>2, <1>3

\* Nothing is issued, and the connections and the ring stay as they are.
LEMMA QuietFrame ==
    ASSUME RequestsInv, UNCHANGED <<interval_left, membershipVars, ringVars>>
    PROVE  /\ MembershipInv' /\ RingTypeOK' /\ Issuing
           /\ setup \in Setups /\ IntervalsSound /\ UNCHANGED setup
<1>1. UNCHANGED <<setup, interval_left>>
  BY DEF membershipVars
<1>2. MembershipInv' /\ RingTypeOK'
  BY MembershipFrame DEF RequestsInv
<1>3. Issuing
  BY <1>1 DEF Issuing, IssuedFor
<1>. QED BY <1>1, <1>2, <1>3 DEF RequestsInv, MembershipInv, MembershipTypeOK

-----------------------------------------------------------------------------
(***************************************************************************)
(* The gateway.                                                            *)
(***************************************************************************)
LEMMA RefusedCount ==
    ASSUME setup \in Setups, NEW g \in Gateways
    PROVE  Cardinality(Refused(g)) \in Nat
<1>1. setup.requests[g] \in Nat
  BY SetupFacts
<1>2. IsFiniteSet(1 .. setup.requests[g])
  BY <1>1, FS_Interval
<1>3. Refused(g) \in SUBSET (1 .. setup.requests[g])
  BY DEF Refused
<1>. QED BY <1>2, <1>3, FS_Subset, FS_CardinalityType

\* As long as ids are left nobody is sent away, and the next request gets the
\* next id.
LEMMA NextRequest ==
    ASSUME setup \in Setups, IntervalsSound, AnswersSound, NEW g \in Gateways,
           Issued(g) + Cardinality(Refused(g)) + 1 <= setup.requests[g]
    PROVE  LET k == Issued(g) + Cardinality(Refused(g)) + 1
           IN /\ k \in 1 .. setup.requests[g] /\ <<g, k>> \in Requests
              /\ k > Issued(g) /\ Issued(g) \in Nat
              /\ IdsLeft(g) => /\ k = Issued(g) + 1
                               /\ answers[<<g, k>>] = <<>>
<1>1. IntervalLeft(RangeOf[g]) \in Nat /\ interval_left[g] \in Nat
      /\ IntervalLeft(RangeOf[g]) <= interval_left[g]
  BY IdsByRange, Interval DEF IntervalsSound
<1>2. Issued(g) \in Nat /\ Cardinality(Refused(g)) \in Nat
      /\ setup.requests[g] \in Nat
  BY <1>1, RefusedCount, SetupFacts DEF Issued
<1> DEFINE k == Issued(g) + Cardinality(Refused(g)) + 1
<1>3. k \in 1 .. setup.requests[g] /\ k > Issued(g) /\ k \in Nat \ {0}
  BY <1>2
<1>4. <<g, k>> \in Requests
  BY <1>3, SetupFacts
<1>5. ASSUME IdsLeft(g)
      PROVE  k = Issued(g) + 1 /\ answers[<<g, k>>] = <<>>
  <2>1. ASSUME NEW j \in Refused(g)
        PROVE  FALSE
    <3>1. j \in 1 .. setup.requests[g] /\ answers[<<g, j>>] = <<Panic>>
      BY DEF Refused
    <3>2. <<g, j>> \in Requests /\ j \in Nat \ {0}
      BY <1>2, <3>1, SetupFacts
    <3>. QED BY <1>5, <3>1, <3>2 DEF AnswersSound
  <2>2. Cardinality(Refused(g)) = 0
    BY <2>1, FS_EmptySet
  <2>3. k = Issued(g) + 1
    BY <1>2, <2>2
  <2>4. answers[<<g, k>>] = <<>>
    <3> HIDE DEF k
    <3>. QED BY <1>3, <1>4, <1>5 DEF AnswersSound
  <2>. QED BY <2>3, <2>4
<1>. QED BY <1>2, <1>3, <1>4, <1>5

\* A request that gets an id.
LEMMA IssueStep ==
    ASSUME RequestsInv, NEW g \in Gateways, SendRequest(g), IdsLeft(g)
    PROVE  RequestsInv'
<1>0. PICK k, id : k = Issued(g) + Cardinality(Refused(g)) + 1
                      /\ id = interval_left[g]
  OBVIOUS
<1> DEFINE left == IntervalLeft(RangeOf[g])
           queue == new_requests[g]
<1>1. /\ k <= setup.requests[g]
      /\ interval_left' = [interval_left EXCEPT ![g] = @ + 1]
      /\ new_requests' = [new_requests EXCEPT ![g] = Append(@, <<id, <<g, k>> >>)]
      /\ UNCHANGED <<answers, ws_registry, sent, storeVars, epochVars, updates,
                     unheard, membershipVars, ringVars>>
  BY <1>0 DEF SendRequest
<1>2. setup \in Setups /\ UNCHANGED setup
  BY <1>1 DEF RequestsInv, MembershipInv, MembershipTypeOK, membershipVars
<1>3. IntervalsSound /\ AnswersSound /\ WaitersSound
  BY DEF RequestsInv
<1>4. /\ k \in 1 .. setup.requests[g] /\ <<g, k>> \in Requests
      /\ Issued(g) \in Nat /\ k = Issued(g) + 1 /\ answers[<<g, k>>] = <<>>
  BY <1>0, <1>1, <1>2, <1>3, NextRequest
<1>5. /\ left \in Nat /\ id \in Nat /\ left <= id /\ id < IntervalRight(RangeOf[g])
      /\ IntervalRight(RangeOf[g]) = left + SingleBlobSize - 1
      /\ \A x \in left .. IntervalRight(RangeOf[g]) :
            x \in Nat /\ RangeFromId(x) = RangeOf[g]
  BY <1>0, <1>3, IdsByRange, Interval DEF IntervalsSound, IdsLeft
<1>6. /\ interval_left' \in [Gateways -> Nat]
      /\ \A h \in Gateways : interval_left'[h] = IF h = g THEN id + 1
                                                 ELSE interval_left[h]
  BY <1>0, <1>1, <1>3 DEF IntervalsSound
<1>7. IntervalsSound'
  BY <1>0, <1>3, <1>5, <1>6, RangesAssumption DEF IntervalsSound
<1>8. \A h \in Gateways : interval_left[h] <= interval_left'[h]
  BY <1>0, <1>3, <1>5, <1>6 DEF IntervalsSound
<1>9. Issuing
  BY <1>2, <1>3, <1>7, <1>8, IssuedStays DEF Issuing
<1>10. AnswersSound'
  <2>1. UNCHANGED <<answers, setup>>
    BY <1>1, <1>2
  <2>2. ASSUME NEW h \in Gateways
        PROVE  (IdsLeft(h)' => IdsLeft(h)) /\ Issued(h) <= Issued(h)'
               /\ Issued(h) \in Int /\ Issued(h)' \in Int
    <3>1. interval_left[h] \in Nat /\ interval_left'[h] \in Nat
          /\ interval_left[h] <= interval_left'[h]
      BY <1>3, <1>7, <1>8 DEF IntervalsSound
    <3>2. IntervalLeft(RangeOf[h]) \in Nat
      BY IdsByRange, Interval
    <3>3. IntervalRight(RangeOf[h]) = IntervalLeft(RangeOf[h]) + SingleBlobSize - 1
      BY IdsByRange, Interval
    <3>. QED BY <3>1, <3>2, <3>3, RangesAssumption DEF IdsLeft, Issued
  <2>3. RangesApart' = RangesApart
    BY <2>1 DEF RangesApart
  <2>4. ASSUME NEW h \in Gateways, NEW j \in Nat \ {0},
               <<h, j>> \in Requests, IdsLeft(h)'
        PROVE  /\ answers[<<h, j>>] # <<Panic>>
               /\ j > Issued(h)' => answers[<<h, j>>] = <<>>
    BY <1>3, <2>2, <2>4 DEF AnswersSound
  <2>. QED BY <1>3, <2>1, <2>3, <2>4 DEF AnswersSound
<1>11. IssuedFor(id, <<g, k>>)'
  <2>1. id = left + k - 1
    BY <1>0, <1>4, <1>5 DEF Issued
  <2>2. id < interval_left'[g]
    BY <1>5, <1>6
  <2>. QED BY <1>2, <1>4, <2>1, <2>2 DEF IssuedFor
<1>12. WaitersSound'
  <2>1. id \in Ids
    <3>1. id \in left .. IntervalRight(RangeOf[g])
      BY <1>5, RangesAssumption
    <3>. QED BY <3>1, IdsByRange
  <2>2. queue \in Seq(Ids \X Requests) /\ Len(queue) \in Nat
    BY <1>3 DEF WaitersSound
  <2>3. /\ new_requests' \in [Gateways -> Seq(Ids \X Requests)]
        /\ new_requests'[g] = Append(queue, <<id, <<g, k>> >>)
        /\ \A h \in Gateways : h # g => new_requests'[h] = new_requests[h]
    <3>1. Append(queue, <<id, <<g, k>> >>) \in Seq(Ids \X Requests)
      BY <1>4, <2>1, <2>2
    <3>2. new_requests \in [Gateways -> Seq(Ids \X Requests)]
      BY <1>3 DEF WaitersSound
    <3>. QED BY <1>1, <3>1, <3>2
  <2>4. /\ Len(new_requests'[g]) = Len(queue) + 1
        /\ \A i \in 1 .. Len(queue) : new_requests'[g][i] = queue[i]
        /\ new_requests'[g][Len(queue) + 1] = <<id, <<g, k>> >>
    BY <2>2, <2>3
  <2>5. \A h, x, q : Waits(h, x, q) => Waits(h, x, q)'
    BY <1>1, <1>9 DEF Waits, Issuing
  <2>6. \A x, q : Waits(g, x, q) => x # id
    BY <1>0, <1>2, <1>3, <1>5, IssuedParts DEF Waits
  <2>7. \A x \in DOMAIN ws_registry[g] : x # id
    BY <1>3, <2>6 DEF WaitersSound
  <2>8. \A i \in 1 .. Len(queue) : queue[i][1] # id
    BY <1>3, <2>6 DEF WaitersSound
  <2>9. Waits(g, id, <<g, k>>)'
    BY <1>1, <1>4, <1>11 DEF Waits
  <2>10. \A h \in Gateways : \A x \in DOMAIN ws_registry'[h] :
            Waits(h, x, ws_registry[h][x])'
    BY <1>1, <1>3, <2>5 DEF WaitersSound
  <2>11. ASSUME NEW h \in Gateways, NEW i \in 1 .. Len(new_requests'[h])
         PROVE  /\ Waits(h, new_requests[h][i][1], new_requests[h][i][2])'
                /\ new_requests'[h][i][1] \notin DOMAIN ws_registry'[h]
                /\ \A j \in 1 .. Len(new_requests'[h]) :
                      j # i => new_requests'[h][j][1] # new_requests'[h][i][1]
    <3>1. CASE h # g
      BY <1>1, <1>3, <2>3, <2>5, <3>1 DEF WaitersSound
    <3>2. CASE h = g /\ i \in 1 .. Len(queue)
      <4>1. /\ Waits(g, queue[i][1], queue[i][2])
            /\ queue[i][1] \notin DOMAIN ws_registry[g]
            /\ \A j \in 1 .. Len(queue) : j # i => queue[j][1] # queue[i][1]
        BY <1>3, <3>2 DEF WaitersSound
      <4>2. \A j \in 1 .. Len(queue) + 1 : j \in 1 .. Len(queue) \/ j = Len(queue) + 1
        BY <2>2
      <4>. QED BY <1>1, <2>4, <2>5, <2>8, <3>2, <4>1, <4>2
    <3>3. CASE h = g /\ i = Len(queue) + 1
      <4>1. \A j \in 1 .. Len(queue) + 1 : j # i => j \in 1 .. Len(queue)
        BY <2>2, <3>3
      <4>. QED BY <1>1, <2>4, <2>7, <2>8, <2>9, <3>3, <4>1
    <3>. QED BY <2>2, <2>4, <3>1, <3>2, <3>3
  <2>12. DOMAIN ws_registry' = Gateways
    BY <1>1, <1>3 DEF WaitersSound
  <2>. QED BY <2>3, <2>10, <2>11, <2>12 DEF WaitersSound
<1>13. SentSound' /\ StoreSound' /\ AskedSound' /\ EpochsSound' /\ UpdatesSound'
       /\ ProgressIsReal'
  BY <1>1, <1>9, SentFrame, StoreFrame, AskedFrame, EpochsFrame, UpdatesFrame,
     ProgressFrame DEF RequestsInv, storeVars, epochVars
<1>14. MembershipInv' /\ RingTypeOK'
  <2>1. MembershipInv /\ RingTypeOK /\ UNCHANGED <<membershipVars, ringVars>>
    BY <1>1 DEF RequestsInv
  <2>. QED BY <2>1, MembershipFrame
<1>. QED BY <1>7, <1>10, <1>12, <1>13, <1>14 DEF RequestsInv

\* A client that is sent away: it never got an id, so it does not wait.
LEMMA RefuseStep ==
    ASSUME RequestsInv, NEW g \in Gateways, SendRequest(g), ~ IdsLeft(g)
    PROVE  RequestsInv'
<1>0. PICK k : k = Issued(g) + Cardinality(Refused(g)) + 1
  OBVIOUS
<1>1. /\ k <= setup.requests[g]
      /\ answers' = [answers EXCEPT ![<<g, k>>] = <<Panic>>]
      /\ UNCHANGED <<interval_left, new_requests, ws_registry, sent, storeVars,
                     epochVars, updates, unheard, membershipVars, ringVars>>
  BY <1>0 DEF SendRequest
<1>2. /\ MembershipInv' /\ RingTypeOK' /\ Issuing
      /\ setup \in Setups /\ UNCHANGED setup
  BY <1>1, QuietFrame
<1>3. IntervalsSound /\ AnswersSound /\ WaitersSound
  BY DEF RequestsInv
<1>4. <<g, k>> \in Requests /\ k > Issued(g) /\ k \in Nat /\ Issued(g) \in Nat
  BY <1>0, <1>1, <1>2, <1>3, NextRequest
<1>5. IntervalsSound'
  BY <1>1, <1>3 DEF IntervalsSound
<1>6. DOMAIN answers' = Requests
      /\ \A q \in Requests : answers'[q] = IF q = <<g, k>> THEN <<Panic>>
                                           ELSE answers[q]
  BY <1>1, <1>3 DEF AnswersSound
<1>7. AnswersSound'
  <2>1. RangesApart' = RangesApart
    BY <1>2 DEF RangesApart
  <2>2. ASSUME NEW h \in Gateways, NEW j \in Nat \ {0},
               <<h, j>> \in Requests, IdsLeft(h)'
        PROVE  /\ answers'[<<h, j>>] # <<Panic>>
               /\ j > Issued(h)' => answers'[<<h, j>>] = <<>>
    <3>1. IdsLeft(h) /\ Issued(h)' = Issued(h)
      BY <1>1, <2>2 DEF IdsLeft, Issued
    <3>2. <<h, j>> # <<g, k>>
      BY <3>1
    <3>3. answers'[<<h, j>>] = answers[<<h, j>>]
      BY <1>6, <2>2, <3>2
    <3>. QED BY <1>3, <2>2, <3>1, <3>3 DEF AnswersSound
  <2>3. \A q \in Requests : answers'[q] = <<>> \/ \E x : answers'[q] = <<x>>
    BY <1>3, <1>6 DEF AnswersSound
  <2>4. RangesApart =>
           \A q \in Requests : answers'[q] \in {<<>>, <<q>>, <<Panic>>}
    BY <1>3, <1>6 DEF AnswersSound
  <2>. QED BY <1>6, <2>1, <2>2, <2>3, <2>4 DEF AnswersSound
<1>8. ASSUME NEW h, NEW x, NEW q, Waits(h, x, q)
      PROVE  Waits(h, x, q)'
  <2>1. IssuedFor(x, q) /\ answers[q] = <<>> /\ q[1] = h
    BY <1>8 DEF Waits
  <2>2. /\ q \in Requests /\ q[1] \in Gateways /\ q[2] \in Nat \ {0}
        /\ x = IntervalLeft(RangeOf[q[1]]) + q[2] - 1 /\ x < interval_left[q[1]]
    BY <1>2, <1>3, <2>1, IssuedParts
  <2>3. IntervalLeft(RangeOf[q[1]]) \in Nat /\ interval_left[q[1]] \in Nat
    BY <1>3, <2>2, IdsByRange, Interval DEF IntervalsSound
  <2>4. q[2] <= Issued(q[1])
    BY <2>2, <2>3 DEF Issued
  <2>5. q # <<g, k>>
    BY <1>4, <2>2, <2>4
  <2>6. answers'[q] = <<>>
    BY <1>6, <2>1, <2>2, <2>5
  <2>. QED BY <1>2, <2>1, <2>6 DEF Waits, Issuing
<1>9. WaitersSound'
  BY <1>1, <1>3, <1>8 DEF WaitersSound
<1>10. SentSound' /\ StoreSound' /\ AskedSound' /\ EpochsSound' /\ UpdatesSound'
       /\ ProgressIsReal'
  BY <1>1, <1>2, SentFrame, StoreFrame, AskedFrame, EpochsFrame, UpdatesFrame,
     ProgressFrame DEF RequestsInv, storeVars, epochVars
<1>. QED BY <1>2, <1>5, <1>7, <1>9, <1>10 DEF RequestsInv

\* The client's socket is registered under its id, which no other client has,
\* and the transaction goes out.
LEMMA HandleSendStep ==
    ASSUME RequestsInv, NEW g \in Gateways, HandleSendNewRequest(g)
    PROVE  RequestsInv'
<1>0. PICK id, q : id = Head(new_requests[g])[1] /\ q = Head(new_requests[g])[2]
  OBVIOUS
<1> DEFINE queue == new_requests[g]
<1>1. /\ queue # <<>>
      /\ ws_registry' = [ws_registry EXCEPT ![g] = Put(@, id, q)]
      /\ sent' = sent \cup FanOut(g, id, q)
      /\ new_requests' = [new_requests EXCEPT ![g] = Tail(@)]
      /\ UNCHANGED <<interval_left, storeVars, epochVars, answerVars,
                     membershipVars, ringVars>>
  BY <1>0 DEF HandleSendNewRequest
<1>2. /\ MembershipInv' /\ RingTypeOK' /\ Issuing
      /\ setup \in Setups /\ UNCHANGED setup
  BY <1>1, QuietFrame
<1>3. IntervalsSound /\ AnswersSound /\ WaitersSound /\ MembershipInv
  BY DEF RequestsInv
<1>4. queue \in Seq(Ids \X Requests) /\ Len(queue) \in Nat
      /\ new_requests \in [Gateways -> Seq(Ids \X Requests)]
  BY <1>3 DEF WaitersSound
<1>5. /\ Len(queue) >= 1 /\ queue[1] = Head(queue)
      /\ Tail(queue) \in Seq(Ids \X Requests)
      /\ Len(Tail(queue)) = Len(queue) - 1
      /\ \A i \in 1 .. Len(queue) - 1 : Tail(queue)[i] = queue[i + 1]
  BY <1>1, <1>4
<1>6. queue[1][1] = id /\ queue[1][2] = q /\ 1 \in 1 .. Len(queue)
  BY <1>0, <1>4, <1>5
<1>7. /\ Waits(g, id, q) /\ id \notin DOMAIN ws_registry[g]
      /\ \A j \in 1 .. Len(queue) : j # 1 => queue[j][1] # id
  BY <1>3, <1>6 DEF WaitersSound
<1>8. id \in Ids /\ q \in Requests /\ q[1] = g /\ IssuedFor(id, q)
  BY <1>2, <1>3, <1>7, IssuedParts DEF Waits
<1>9. IntervalsSound' /\ AnswersSound'
  BY <1>1, <1>2, <1>3 DEF IntervalsSound, AnswersSound, RangesApart, IdsLeft,
                          Issued, answerVars
<1>10. \A h, x, p : Waits(h, x, p) => Waits(h, x, p)'
  BY <1>1, <1>2 DEF Waits, Issuing, answerVars
<1>11. WaitersSound'
  <2>1. /\ new_requests' \in [Gateways -> Seq(Ids \X Requests)]
        /\ new_requests'[g] = Tail(queue)
        /\ \A h \in Gateways : h # g => new_requests'[h] = new_requests[h]
    BY <1>1, <1>4, <1>5
  <2>2. /\ DOMAIN ws_registry' = Gateways
        /\ ws_registry'[g] = Put(ws_registry[g], id, q)
        /\ \A h \in Gateways : h # g => ws_registry'[h] = ws_registry[h]
    BY <1>1, <1>3 DEF WaitersSound
  <2>3. /\ DOMAIN ws_registry'[g] = DOMAIN ws_registry[g] \cup {id}
        /\ \A x \in DOMAIN ws_registry'[g] :
              ws_registry'[g][x] = IF x = id THEN q ELSE ws_registry[g][x]
    BY <2>2 DEF Put
  <2>4. ASSUME NEW h \in Gateways, NEW x \in DOMAIN ws_registry'[h]
        PROVE  Waits(h, x, ws_registry[h][x])'
    <3>1. CASE h # g
      BY <1>3, <1>10, <2>2, <3>1 DEF WaitersSound
    <3>2. CASE h = g /\ x = id
      BY <1>7, <1>10, <2>3, <3>2
    <3>3. CASE h = g /\ x # id
      <4>1. x \in DOMAIN ws_registry[g]
        BY <2>3, <3>3
      <4>. QED BY <1>3, <1>10, <2>3, <3>3, <4>1 DEF WaitersSound
    <3>. QED BY <3>1, <3>2, <3>3
  <2>5. ASSUME NEW h \in Gateways, NEW i \in 1 .. Len(new_requests'[h])
        PROVE  /\ Waits(h, new_requests[h][i][1], new_requests[h][i][2])'
               /\ new_requests'[h][i][1] \notin DOMAIN ws_registry'[h]
               /\ \A j \in 1 .. Len(new_requests'[h]) :
                     j # i => new_requests'[h][j][1] # new_requests'[h][i][1]
    <3>1. CASE h # g
      <4>1. new_requests'[h] = new_requests[h] /\ ws_registry'[h] = ws_registry[h]
        BY <2>1, <2>2, <3>1
      <4>2. i \in 1 .. Len(new_requests[h])
        BY <4>1
      <4>3. /\ Waits(h, new_requests[h][i][1], new_requests[h][i][2])
            /\ new_requests[h][i][1] \notin DOMAIN ws_registry[h]
            /\ \A j \in 1 .. Len(new_requests[h]) :
                  j # i => new_requests[h][j][1] # new_requests[h][i][1]
        BY <1>3, <4>2 DEF WaitersSound
      <4>4. Waits(h, new_requests[h][i][1], new_requests[h][i][2])'
        <5>1. PICK x, p : x = new_requests[h][i][1] /\ p = new_requests[h][i][2]
          OBVIOUS
        <5>2. x = new_requests'[h][i][1] /\ p = new_requests'[h][i][2]
          BY <4>1, <5>1
        <5>. QED BY <1>10, <4>3, <5>1, <5>2
      <4>. QED BY <4>1, <4>3, <4>4
    <3>2. CASE h = g
      <4>1. i \in 1 .. Len(queue) - 1 /\ i + 1 \in 1 .. Len(queue) /\ i + 1 # 1
            /\ new_requests'[g][i] = queue[i + 1]
        BY <1>4, <1>5, <2>1, <3>2
      <4>2. /\ Waits(g, queue[i + 1][1], queue[i + 1][2])
            /\ queue[i + 1][1] \notin DOMAIN ws_registry[g]
            /\ \A j \in 1 .. Len(queue) :
                  j # i + 1 => queue[j][1] # queue[i + 1][1]
        BY <1>3, <4>1 DEF WaitersSound
      <4>3. queue[i + 1][1] # id
        BY <1>7, <4>1
      <4>4. ASSUME NEW j \in 1 .. Len(new_requests'[g]), j # i
            PROVE  new_requests'[g][j][1] # new_requests'[g][i][1]
        <5>1. j + 1 \in 1 .. Len(queue) /\ j + 1 # i + 1
              /\ new_requests'[g][j] = queue[j + 1]
          BY <1>4, <1>5, <2>1, <4>1, <4>4
        <5>. QED BY <4>1, <4>2, <5>1
      <4>. QED BY <1>10, <2>3, <3>2, <4>1, <4>2, <4>3, <4>4
    <3>. QED BY <3>1, <3>2
  <2>. QED BY <2>1, <2>2, <2>4, <2>5 DEF WaitersSound
<1>12. SentSound'
  <2>1. ASSUME NEW m \in FanOut(g, id, q)
        PROVE  m \in [id : Ids, request : Requests, dial : Dials]
               /\ IssuedFor(m.id, m.request)'
    <3>1. PICK n \in maroon_peer_ids[g] :
             m = [id |-> id, request |-> q, dial |-> <<g, n>>]
      BY DEF FanOut
    <3>2. n \in Nodes /\ g # n
      BY <1>2, <1>3, SetupFacts DEF MembershipInv, MembershipTypeOK
    <3>3. <<g, n>> \in Dials
      BY <3>2 DEF Dials, Peers
    <3>. QED BY <1>2, <1>8, <3>1, <3>3 DEF Issuing
  <2>. QED BY <1>1, <1>2, <2>1 DEF RequestsInv, SentSound, Issuing
<1>13. StoreSound' /\ AskedSound' /\ EpochsSound' /\ UpdatesSound' /\ ProgressIsReal'
  BY <1>1, <1>2, StoreFrame, AskedFrame, EpochsFrame, UpdatesFrame,
     ProgressFrame DEF RequestsInv, storeVars, epochVars, answerVars
<1>. QED BY <1>2, <1>9, <1>11, <1>12, <1>13 DEF RequestsInv

\* Whoever waits for a result of the update is answered with it and waits no
\* more; nobody else notices.
LEMMA HandleInboxStep ==
    ASSUME RequestsInv, NEW u \in updates, HandleInbox(u)
    PROVE  RequestsInv'
<1>0. PICK g, mine : g = u.to /\ mine = DOMAIN u.results \cap DOMAIN ws_registry[g]
  OBVIOUS
<1>1. /\ updates' = updates \ {u}
      /\ answers' = [q \in Requests |->
            IF \E id \in mine : ws_registry[g][id] = q
            THEN Append(answers[q], u.results[CHOOSE id \in mine :
                                                 ws_registry[g][id] = q])
            ELSE answers[q]]
      /\ ws_registry' = [ws_registry EXCEPT ![g] = Without(@, mine)]
      /\ UNCHANGED <<interval_left, new_requests, sent, storeVars, epochVars,
                     unheard, membershipVars, ringVars>>
  BY <1>0 DEF HandleInbox
<1>2. /\ MembershipInv' /\ RingTypeOK' /\ Issuing
      /\ setup \in Setups /\ UNCHANGED setup
  BY <1>1, QuietFrame
<1>3. IntervalsSound /\ AnswersSound /\ WaitersSound /\ UpdatesSound
  BY DEF RequestsInv
<1>4. g \in Gateways /\ \A id \in mine : /\ IssuedFor(id, u.results[id])
                                         /\ Waits(g, id, ws_registry[g][id])
  BY <1>0, <1>3 DEF UpdatesSound, WaitersSound
<1>5. IntervalsSound'
  BY <1>1, <1>3 DEF IntervalsSound
\* Who is answered, and who is not.
<1>6. ASSUME NEW q \in Requests
      PROVE  \/ /\ \A id \in mine : ws_registry[g][id] # q
                /\ answers'[q] = answers[q]
             \/ \E id \in mine : /\ ws_registry[g][id] = q
                                 /\ answers'[q] = <<u.results[id]>>
  <2>1. CASE \A id \in mine : ws_registry[g][id] # q
    BY <1>1, <2>1
  <2>2. CASE \E id \in mine : ws_registry[g][id] = q
    <3>1. PICK id : id = CHOOSE x \in mine : ws_registry[g][x] = q
      OBVIOUS
    <3>2. id \in mine /\ ws_registry[g][id] = q
      BY <2>2, <3>1
    <3>3. answers'[q] = Append(answers[q], u.results[id])
      BY <1>1, <2>2, <3>1
    <3>4. answers[q] = <<>>
      BY <1>4, <3>2 DEF Waits
    <3>5. answers'[q] = <<u.results[id]>>
      BY <3>3, <3>4
    <3>. QED BY <3>2, <3>5
  <2>. QED BY <2>1, <2>2
<1>7. AnswersSound'
  <2>1. RangesApart' = RangesApart
    BY <1>2 DEF RangesApart
  <2>2. DOMAIN answers' = Requests
    BY <1>1
  <2>3. \A q \in Requests : answers'[q] = <<>> \/ \E x : answers'[q] = <<x>>
    BY <1>3, <1>6 DEF AnswersSound
  <2>4. ASSUME RangesApart, NEW q \in Requests
        PROVE  answers'[q] \in {<<>>, <<q>>, <<Panic>>}
    <3>1. ASSUME NEW id \in mine, ws_registry[g][id] = q
          PROVE  u.results[id] = q
      BY <1>2, <1>3, <1>4, <2>4, <3>1, IssuedOnce DEF Waits
    <3>. QED BY <1>3, <1>6, <2>4, <3>1 DEF AnswersSound
  <2>5. ASSUME NEW h \in Gateways, NEW j \in Nat \ {0},
               <<h, j>> \in Requests, IdsLeft(h)'
        PROVE  /\ answers'[<<h, j>>] # <<Panic>>
               /\ j > Issued(h)' => answers'[<<h, j>>] = <<>>
    <3>1. IdsLeft(h) /\ Issued(h)' = Issued(h)
      BY <1>1, <2>5 DEF IdsLeft, Issued
    <3>2. CASE answers'[<<h, j>>] = answers[<<h, j>>]
      BY <1>3, <2>5, <3>1, <3>2 DEF AnswersSound
    <3>3. CASE \E id \in mine : /\ ws_registry[g][id] = <<h, j>>
                                /\ answers'[<<h, j>>] = <<u.results[id]>>
      <4>1. PICK id \in mine : /\ ws_registry[g][id] = <<h, j>>
                               /\ answers'[<<h, j>>] = <<u.results[id]>>
        BY <3>3
      <4>2. u.results[id][2] \in Nat \ {0}
        BY <1>2, <1>3, <1>4, IssuedParts
      <4>3. u.results[id] # Panic
        BY <4>2 DEF Panic
      <4>4. answers'[<<h, j>>] # <<Panic>>
        BY <4>1, <4>3
      <4>5. IssuedFor(id, <<h, j>>)
        BY <1>4, <4>1 DEF Waits
      <4>6. id = IntervalLeft(RangeOf[h]) + j - 1 /\ id < interval_left[h]
        BY <1>2, <1>3, <4>5, IssuedParts
      <4>7. IntervalLeft(RangeOf[h]) \in Nat /\ interval_left[h] \in Nat
        BY <1>3, IdsByRange, Interval DEF IntervalsSound
      <4>8. ~ (j > Issued(h))
        BY <4>6, <4>7 DEF Issued
      <4>. QED BY <3>1, <4>4, <4>8
    <3>. QED BY <1>6, <2>5, <3>2, <3>3
  <2>. QED BY <2>1, <2>2, <2>3, <2>4, <2>5 DEF AnswersSound
<1>8. ASSUME NEW h, NEW x, NEW p, Waits(h, x, p), h # g \/ x \notin mine
      PROVE  Waits(h, x, p)'
  <2>1. p[1] = h /\ IssuedFor(x, p) /\ answers[p] = <<>>
    BY <1>8 DEF Waits
  <2>2. p \in Requests
    BY <1>2, <1>3, <2>1, IssuedParts
  <2>3. \A id \in mine : ws_registry[g][id] # p
    BY <1>2, <1>3, <1>4, <1>8, <2>1, OneId DEF Waits
  <2>4. answers'[p] = answers[p]
    BY <1>6, <2>2, <2>3
  <2>. QED BY <1>2, <2>1, <2>4 DEF Waits, Issuing
<1>9. WaitersSound'
  <2>1. /\ DOMAIN ws_registry' = Gateways
        /\ DOMAIN ws_registry'[g] = DOMAIN ws_registry[g] \ mine
        /\ \A x \in DOMAIN ws_registry'[g] : ws_registry'[g][x] = ws_registry[g][x]
        /\ \A h \in Gateways : h # g => ws_registry'[h] = ws_registry[h]
    BY <1>1, <1>3, <1>4 DEF WaitersSound, Without
  <2>2. ASSUME NEW h \in Gateways, NEW x \in DOMAIN ws_registry'[h]
        PROVE  Waits(h, x, ws_registry[h][x])'
    <3>1. x \in DOMAIN ws_registry[h] /\ ws_registry'[h][x] = ws_registry[h][x]
          /\ (h # g \/ x \notin mine)
      BY <2>1, <2>2
    <3>. QED BY <1>3, <1>8, <3>1 DEF WaitersSound
  <2>3. ASSUME NEW h \in Gateways, NEW i \in 1 .. Len(new_requests'[h])
        PROVE  /\ Waits(h, new_requests[h][i][1], new_requests[h][i][2])'
               /\ new_requests'[h][i][1] \notin DOMAIN ws_registry'[h]
               /\ \A j \in 1 .. Len(new_requests'[h]) :
                     j # i => new_requests'[h][j][1] # new_requests'[h][i][1]
    <3>0. UNCHANGED new_requests
      BY <1>1
    <3>1. /\ Waits(h, new_requests[h][i][1], new_requests[h][i][2])
          /\ new_requests[h][i][1] \notin DOMAIN ws_registry[h]
          /\ \A j \in 1 .. Len(new_requests[h]) :
                j # i => new_requests[h][j][1] # new_requests[h][i][1]
      BY <1>3, <3>0 DEF WaitersSound
    <3>2. h # g \/ new_requests[h][i][1] \notin mine
      BY <1>0, <3>1
    <3>3. Waits(h, new_requests[h][i][1], new_requests[h][i][2])'
      BY <1>8, <3>0, <3>1, <3>2
    <3>4. DOMAIN ws_registry'[h] \subseteq DOMAIN ws_registry[h]
      BY <2>1
    <3>. QED BY <3>0, <3>1, <3>3, <3>4
  <2>. QED BY <1>1, <1>3, <2>1, <2>2, <2>3 DEF WaitersSound
<1>10. SentSound' /\ StoreSound' /\ AskedSound' /\ EpochsSound' /\ UpdatesSound'
       /\ ProgressIsReal'
  BY <1>1, <1>2, SentFrame, StoreFrame, AskedFrame, EpochsFrame, UpdatesFrame,
     ProgressFrame DEF RequestsInv, storeVars, epochVars
<1>. QED BY <1>2, <1>5, <1>7, <1>9, <1>10 DEF RequestsInv

\* Lost messages.
LEMMA LostStep ==
    ASSUME RequestsInv,
           \/ \E m \in sent : LoseRequest(m)
           \/ \E u \in updates : LoseUpdate(u)
    PROVE  RequestsInv'
<1>1. /\ UNCHANGED <<interval_left, new_requests, ws_registry, storeVars,
                     epochVars, unheard, answers, membershipVars, ringVars>>
      /\ sent' \subseteq sent /\ updates' \subseteq updates
  BY DEF LoseRequest, LoseUpdate, gatewayVars, answerVars
<1>2. /\ MembershipInv' /\ RingTypeOK' /\ Issuing
      /\ setup \in Setups /\ UNCHANGED setup
  BY <1>1, QuietFrame
<1>3. IntervalsSound' /\ AnswersSound' /\ WaitersSound'
  BY <1>1, <1>2, GatewayFrame DEF RequestsInv
<1>4. SentSound' /\ StoreSound' /\ AskedSound' /\ EpochsSound' /\ UpdatesSound'
      /\ ProgressIsReal'
  BY <1>1, <1>2, SentFrame, StoreFrame, AskedFrame, EpochsFrame, UpdatesFrame,
     ProgressFrame DEF RequestsInv, storeVars, epochVars
<1>. QED BY <1>2, <1>3, <1>4 DEF RequestsInv

-----------------------------------------------------------------------------
(***************************************************************************)
(* The node's transactions.                                                *)
(***************************************************************************)

\* The scan over full ids stops inside the range, because the last id of a range
\* is not held.
LEMMA ScanStops ==
    ASSUME NEW r \in Nat, NEW held \in SUBSET Nat,
           NEW s \in 0 .. SingleBlobSize - 1,
           IdFrom(r, s) \in held, IntervalRight(r) \notin held
    PROVE  LET o == OffsetFromId(LastContiguous(held, IdFrom(r, s)))
           IN /\ o \in s .. SingleBlobSize - 2
              /\ \A i \in s .. o : IdFrom(r, i) \in held
              /\ IdFrom(r, o + 1) \notin held
<1> DEFINE left == IntervalLeft(r)
           right == IntervalRight(r)
           first == IdFrom(r, s)
           Stops(last) == /\ first <= last
                          /\ first .. last \subseteq held
                          /\ last + 1 \notin held
           T == {x \in Nat : x >= first /\ x + 1 \notin held}
<1>1. /\ left \in Nat /\ right = left + SingleBlobSize - 1
      /\ \A o \in Int : IdFrom(r, o) = left + o
      /\ \A id \in left .. right : OffsetFromId(id) = id - left
  BY Interval
<1>2. SingleBlobSize \in Nat \ {0} /\ s \in Int
  BY RangesAssumption
<1>3. first = left + s /\ first \in Nat
  BY <1>1, <1>2
<1> HIDE DEF left, right, first
<1>4. first \in held /\ right \notin held
  BY DEF first, right
<1>5. first < right
  BY <1>1, <1>2, <1>3, <1>4
<1>6. right - 1 \in T
  BY <1>1, <1>2, <1>3, <1>4, <1>5
<1>7. PICK least \in T : \A y \in T : least <= y
  <2> HIDE DEF T
  <2>1. T \in SUBSET Nat
    BY DEF T
  <2>. QED BY <1>6, <2>1, LeastNatural
<1>8. ASSUME NEW x \in first .. least
      PROVE  x \in held
  <2>1. CASE x = first
    BY <1>4, <2>1
  <2>2. CASE x # first
    <3>1. x - 1 \in Nat /\ x - 1 >= first /\ ~ (least <= x - 1) /\ (x - 1) + 1 = x
      BY <1>3, <2>2
    <3>2. x - 1 \notin T
      BY <1>7, <3>1
    <3>. QED BY <3>1, <3>2
  <2>. QED BY <2>1, <2>2
<1>9. least \in held /\ Stops(least)
  BY <1>3, <1>8
<1>10. PICK last : last = LastContiguous(held, first)
  OBVIOUS
<1>11. last \in held /\ Stops(last)
  BY <1>9, <1>10 DEF LastContiguous
<1>12. last \in first .. right - 1
  <2>1. last \in Nat /\ first <= last
    BY <1>11
  <2>2. ~ (right <= last)
    <3>1. right \in first .. last => right \in held
      BY <1>11
    <3>. QED BY <1>1, <1>2, <1>3, <1>4, <1>5, <2>1, <3>1
  <2>. QED BY <1>1, <1>2, <2>1, <2>2
<1>13. PICK o : o = OffsetFromId(last)
  OBVIOUS
<1>14. o = last - left /\ last \in left .. right
  BY <1>1, <1>2, <1>3, <1>12, <1>13
<1>15. o \in s .. SingleBlobSize - 2
  BY <1>1, <1>2, <1>3, <1>12, <1>14
<1>16. ASSUME NEW i \in s .. o
       PROVE  IdFrom(r, i) \in held
  <2>1. IdFrom(r, i) = left + i
    BY <1>1
  <2>2. left + i \in first .. last
    BY <1>1, <1>2, <1>3, <1>12, <1>14, <1>15
  <2>. QED BY <1>11, <2>1, <2>2
<1>17. IdFrom(r, o + 1) \notin held
  <2>1. IdFrom(r, o + 1) = last + 1
    BY <1>1, <1>12, <1>14, <1>15
  <2>. QED BY <1>11, <2>1
<1>. QED BY <1>10, <1>13, <1>15, <1>16, <1>17 DEF first

\* The offset of a range after a transaction was stored.
LEMMA PrefixGrows ==
    ASSUME NEW held \in SUBSET Nat, NEW id \in Nat, NEW r \in Nat,
           NEW o \in NoOffset .. SingleBlobSize - 1,
           \A x \in held \cup {id} : OffsetFromId(x) < SingleBlobSize - 1,
           PrefixOf(held, r, o)
    PROVE  /\ RangeFromId(id) # r \/ (o = NoOffset /\ OffsetFromId(id) # 0)
              => PrefixOf(held \cup {id}, r, o)
           /\ LET start == IF o = NoOffset THEN 0 ELSE o
                  p == OffsetFromId(LastContiguous(held \cup {id},
                                                   IdFrom(r, start)))
              IN RangeFromId(id) = r /\ (o # NoOffset \/ OffsetFromId(id) = 0)
                 => /\ p \in NoOffset .. SingleBlobSize - 1
                    /\ PrefixOf(held \cup {id}, r, p)
<1>0. SingleBlobSize \in Nat \ {0} /\ o \in Int /\ 0 \in 0 .. SingleBlobSize - 1
  BY RangesAssumption DEF NoOffset
<1>1. /\ IntervalLeft(r) \in Nat
      /\ IntervalRight(r) = IntervalLeft(r) + SingleBlobSize - 1
      /\ IntervalRight(r) = IdFrom(r, SingleBlobSize - 1)
      /\ SingleBlobSize - 1 \in 0 .. SingleBlobSize - 1
  BY <1>0, Interval
<1>2. IntervalRight(r) \notin held \cup {id}
  <2>1. OffsetFromId(IntervalRight(r)) = SingleBlobSize - 1
    BY <1>1, IdJoin
  <2>2. ~ (OffsetFromId(IntervalRight(r)) < SingleBlobSize - 1)
    BY <1>0, <2>1
  <2>. QED BY <2>2
\* The known prefix ends before the last id.
<1>3. o # NoOffset => /\ o \in 0 .. SingleBlobSize - 2
                      /\ \A i \in 0 .. o : IdFrom(r, i) \in held
                      /\ IdFrom(r, o + 1) \notin held /\ IdFrom(r, 0) \in held
  <2> SUFFICES ASSUME o # NoOffset
               PROVE  /\ o \in 0 .. SingleBlobSize - 2
                      /\ \A i \in 0 .. o : IdFrom(r, i) \in held
                      /\ IdFrom(r, o + 1) \notin held /\ IdFrom(r, 0) \in held
    OBVIOUS
  <2>1. /\ IdFrom(r, 0) \in held /\ o >= 0
        /\ \A i \in 0 .. o : IdFrom(r, i) \in held
        /\ IdFrom(r, o + 1) \notin held
    BY DEF PrefixOf
  <2>2. o # SingleBlobSize - 1
    <3>1. IdFrom(r, o) \in held
      BY <1>0, <2>1
    <3>. QED BY <1>1, <1>2, <3>1
  <2>. QED BY <1>0, <2>1, <2>2
<1>4. o = NoOffset => IdFrom(r, 0) \notin held
  BY DEF PrefixOf, NoOffset
<1>5. ASSUME RangeFromId(id) # r \/ (o = NoOffset /\ OffsetFromId(id) # 0)
      PROVE  PrefixOf(held \cup {id}, r, o)
  <2>1. ASSUME NEW i \in 0 .. SingleBlobSize - 1, i = 0 \/ o # NoOffset
        PROVE  IdFrom(r, i) # id
    BY <1>5, <2>1, IdJoin
  <2>2. CASE o = NoOffset
    BY <1>0, <1>4, <2>1, <2>2 DEF PrefixOf
  <2>3. CASE o # NoOffset
    <3>1. o + 1 \in 0 .. SingleBlobSize - 1
      BY <1>0, <1>3, <2>3
    <3>2. IdFrom(r, o + 1) # id
      BY <2>1, <2>3, <3>1
    <3>. QED BY <1>3, <2>3, <3>2 DEF PrefixOf
  <2>. QED BY <2>2, <2>3
<1>6. ASSUME RangeFromId(id) = r, o # NoOffset \/ OffsetFromId(id) = 0,
             NEW start, start = IF o = NoOffset THEN 0 ELSE o,
             NEW p, p = OffsetFromId(LastContiguous(held \cup {id},
                                                    IdFrom(r, start)))
      PROVE  /\ p \in NoOffset .. SingleBlobSize - 1
             /\ PrefixOf(held \cup {id}, r, p)
  <2>1. start \in 0 .. SingleBlobSize - 1 /\ start \in Int
    BY <1>0, <1>3, <1>6
  <2>2. ASSUME NEW i \in 0 .. start
        PROVE  IdFrom(r, i) \in held \cup {id}
    <3>1. CASE o = NoOffset
      <4>1. OffsetFromId(id) = 0 /\ i = 0
        BY <1>6, <2>1, <3>1
      <4>2. id = IdFrom(r, 0)
        BY <1>6, <4>1, IdSplit
      <4>. QED BY <4>1, <4>2
    <3>2. CASE o # NoOffset
      BY <1>3, <1>6, <3>2
    <3>. QED BY <3>1, <3>2
  <2>3. IdFrom(r, start) \in held \cup {id}
    BY <2>1, <2>2
  <2>4. held \cup {id} \in SUBSET Nat
    OBVIOUS
  <2>5. /\ p \in start .. SingleBlobSize - 2
        /\ \A i \in start .. p : IdFrom(r, i) \in held \cup {id}
        /\ IdFrom(r, p + 1) \notin held \cup {id}
    BY <1>2, <1>6, <2>1, <2>3, <2>4, ScanStops
  <2>6. \A i \in 0 .. p : i \in 0 .. start \/ i \in start .. p
    BY <2>1, <2>5
  <2>7. \A i \in 0 .. p : IdFrom(r, i) \in held \cup {id}
    BY <2>2, <2>5, <2>6
  <2>8. p >= 0 /\ p \in NoOffset .. SingleBlobSize - 1 /\ 0 \in 0 .. p
    BY <1>0, <2>1, <2>5 DEF NoOffset
  <2>. QED BY <2>5, <2>7, <2>8 DEF PrefixOf
<1>. QED BY <1>5, <1>6

\* A transaction that is stored: the map has it, and the offset of its range is
\* where the prefix of the range ends now.
LEMMA StoreKeeps ==
    ASSUME setup \in Setups, IntervalsSound, StoreSound, Issuing, NEW n \in Nodes,
           NEW id, NEW tx, IsTransaction(id, tx), Store(n, id, tx)
    PROVE  /\ StoreSound'
           /\ \A m \in Nodes : /\ DOMAIN transactions[m] \subseteq DOMAIN transactions'[m]
                               /\ \A x \in DOMAIN transactions'[m] :
                                     \/ m = n /\ x = id /\ transactions'[m][x] = tx
                                     \/ /\ x \in DOMAIN transactions[m]
                                        /\ transactions'[m][x] = transactions[m][x]
<1>0. PICK r, known, held, start :
        /\ r = RangeFromId(id) /\ known = self_offsets[n][r]
        /\ held = DOMAIN transactions[n]
        /\ start = IF known = NoOffset THEN 0 ELSE known
  OBVIOUS
<1>1. /\ transactions' = [transactions EXCEPT ![n] = Put(@, id, tx)]
      /\ self_offsets' =
            IF known = NoOffset /\ OffsetFromId(id) # 0 THEN self_offsets
            ELSE [self_offsets EXCEPT ![n][r] =
                    OffsetFromId(LastContiguous(held \cup {id}, IdFrom(r, start)))]
  BY <1>0 DEF Store
<1>2. /\ DOMAIN transactions' = Nodes
      /\ transactions'[n] = Put(transactions[n], id, tx)
      /\ \A m \in Nodes : m # n => transactions'[m] = transactions[m]
  BY <1>1 DEF StoreSound
<1>3. /\ DOMAIN transactions'[n] = held \cup {id}
      /\ \A x \in DOMAIN transactions'[n] :
            transactions'[n][x] = IF x = id THEN tx ELSE transactions[n][x]
  BY <1>0, <1>2 DEF Put
<1>4. \A m \in Nodes : /\ DOMAIN transactions[m] \subseteq DOMAIN transactions'[m]
                       /\ \A x \in DOMAIN transactions'[m] :
                             \/ m = n /\ x = id /\ transactions'[m][x] = tx
                             \/ /\ x \in DOMAIN transactions[m]
                                /\ transactions'[m][x] = transactions[m][x]
  BY <1>0, <1>2, <1>3
<1>5. \A x, y : IsTransaction(x, y) => IsTransaction(x, y)'
  BY DEF IsTransaction, Issuing
<1>6. \A m \in Nodes : \A x \in DOMAIN transactions'[m] :
         IsTransaction(x, transactions[m][x])'
  BY <1>4, <1>5 DEF StoreSound
<1>7. ASSUME NEW x \in held \cup {id}
      PROVE  x \in Nat /\ OffsetFromId(x) < SingleBlobSize - 1
  <2>1. \E y : IsTransaction(x, y)
    BY <1>0 DEF StoreSound
  <2>. QED BY <2>1, IssuedParts DEF IsTransaction
<1>8. id \in Nat /\ r \in Ranges /\ Ranges \subseteq Nat
  BY <1>0, IssuedParts, IdsByRange DEF IsTransaction
<1>9. known \in NoOffset .. SingleBlobSize - 1
      /\ \A q \in Ranges : self_offsets[n][q] \in NoOffset .. SingleBlobSize - 1
                           /\ PrefixOf(held, q, self_offsets[n][q])
  BY <1>0, <1>8 DEF StoreSound
<1>10. PICK p : p = OffsetFromId(LastContiguous(held \cup {id}, IdFrom(r, start)))
  OBVIOUS
<1>11. held \in SUBSET Nat
  BY <1>7
<1>12. known # NoOffset \/ OffsetFromId(id) = 0
       => p \in NoOffset .. SingleBlobSize - 1 /\ PrefixOf(held \cup {id}, r, p)
  BY <1>0, <1>7, <1>8, <1>9, <1>10, <1>11, PrefixGrows
<1>13. \A q \in Ranges : q # r \/ (known = NoOffset /\ OffsetFromId(id) # 0 /\ q = r)
                        => PrefixOf(held \cup {id}, q, self_offsets[n][q])
  BY <1>0, <1>7, <1>8, <1>9, <1>11, PrefixGrows
<1>14. /\ self_offsets' \in [Nodes -> [Ranges -> NoOffset .. SingleBlobSize - 1]]
       /\ \A q \in Ranges : PrefixOf(DOMAIN transactions'[n], q, self_offsets'[n][q])
       /\ \A m \in Nodes : m # n => self_offsets'[m] = self_offsets[m]
  <2>1. CASE known = NoOffset /\ OffsetFromId(id) # 0
    <3>1. self_offsets' = self_offsets
      BY <1>1, <2>1
    <3>. QED BY <1>3, <1>13, <2>1, <3>1 DEF StoreSound
  <2>2. CASE known # NoOffset \/ OffsetFromId(id) = 0
    <3>1. self_offsets' = [self_offsets EXCEPT ![n] = [@ EXCEPT ![r] = p]]
      BY <1>1, <1>10, <2>2
    <3>2. self_offsets \in [Nodes -> [Ranges -> NoOffset .. SingleBlobSize - 1]]
      BY DEF StoreSound
    <3>3. /\ self_offsets'[n] \in [Ranges -> NoOffset .. SingleBlobSize - 1]
          /\ self_offsets'[n] = [self_offsets[n] EXCEPT ![r] = p]
          /\ \A m \in Nodes : m # n => self_offsets'[m] = self_offsets[m]
      BY <1>8, <1>12, <2>2, <3>1, <3>2
    <3>4. self_offsets' \in [Nodes -> [Ranges -> NoOffset .. SingleBlobSize - 1]]
      BY <3>1, <3>2, <3>3
    <3>5. \A q \in Ranges : self_offsets'[n][q] = IF q = r THEN p
                                                 ELSE self_offsets[n][q]
      BY <3>2, <3>3
    <3>. QED BY <1>3, <1>12, <1>13, <2>2, <3>3, <3>4, <3>5
  <2>. QED BY <2>1, <2>2
<1>15. \A m \in Nodes, q \in Ranges :
          PrefixOf(DOMAIN transactions'[m], q, self_offsets'[m][q])
  BY <1>2, <1>14 DEF StoreSound
<1>. QED BY <1>2, <1>4, <1>6, <1>14, <1>15 DEF StoreSound

\* What the status of a transaction says is so.
Progressed(id, status) ==
    /\ status # "Created" => id \in Committed
    /\ status = "Finished" =>
          \E m \in Nodes : id \in DOMAIN executed[m] \ working[m]

LEMMA ProgressByStatus ==
    ProgressIsReal <=>
        \A n \in Nodes : \A id \in DOMAIN transactions[n] :
            Progressed(id, transactions[n][id].status)
BY DEF ProgressIsReal, Progressed

\* A new transaction, or another node's copy of one, is stored.
LEMMA StoredStep ==
    ASSUME RequestsInv, NEW n \in Nodes, NEW id, NEW tx,
           IsTransaction(id, tx), Progressed(id, tx.status), Store(n, id, tx),
           sent' \subseteq sent,
           asked' \in [Nodes -> SUBSET (Nodes \X Ids)],
           \A m \in Nodes : asked'[m] \subseteq asked[m],
           UNCHANGED <<interval_left, new_requests, ws_registry, epochVars,
                       answerVars, membershipVars, ringVars>>
    PROVE  RequestsInv'
<1>1. /\ MembershipInv' /\ RingTypeOK' /\ Issuing
      /\ setup \in Setups /\ UNCHANGED setup /\ IntervalsSound
  BY QuietFrame
<1>2. StoreSound /\ AskedSound /\ ProgressIsReal
  BY DEF RequestsInv
<1>3. /\ StoreSound'
      /\ \A m \in Nodes : /\ DOMAIN transactions[m] \subseteq DOMAIN transactions'[m]
                          /\ \A x \in DOMAIN transactions'[m] :
                                \/ m = n /\ x = id /\ transactions'[m][x] = tx
                                \/ /\ x \in DOMAIN transactions[m]
                                   /\ transactions'[m][x] = transactions[m][x]
  BY <1>1, <1>2, StoreKeeps
<1>4. AskedSound'
  <2>1. ASSUME NEW m \in Nodes, NEW p \in asked'[m]
        PROVE  p[2] \in DOMAIN transactions'[p[1]]
    <3>1. p \in asked[m] /\ p[1] \in Nodes
      BY <1>2 DEF AskedSound
    <3>. QED BY <1>2, <1>3, <3>1 DEF AskedSound
  <2>. QED BY <2>1 DEF AskedSound
<1>5. ProgressIsReal'
  <2>1. \A x, s : Progressed(x, s)' <=> Progressed(x, s)
    BY DEF Progressed, Committed, epochVars
  <2>2. ASSUME NEW m \in Nodes, NEW x \in DOMAIN transactions'[m]
        PROVE  Progressed(x, transactions[m][x].status)'
    <3>1. CASE m = n /\ x = id /\ transactions'[m][x] = tx
      BY <2>1, <3>1
    <3>2. CASE /\ x \in DOMAIN transactions[m]
               /\ transactions'[m][x] = transactions[m][x]
      BY <1>2, <2>1, <3>2, ProgressByStatus
    <3>. QED BY <1>3, <3>1, <3>2
  <2>. QED BY <2>2 DEF ProgressIsReal, Progressed
<1>6. IntervalsSound' /\ AnswersSound' /\ WaitersSound'
  BY <1>1, GatewayFrame DEF RequestsInv, answerVars
<1>7. SentSound' /\ EpochsSound' /\ UpdatesSound'
  BY <1>1, SentFrame, EpochsFrame, UpdatesFrame DEF RequestsInv, answerVars
<1>. QED BY <1>1, <1>3, <1>4, <1>5, <1>6, <1>7 DEF RequestsInv

\* A transaction from a gateway.
LEMMA NewTransactionStep ==
    ASSUME RequestsInv, NEW m \in sent, NEW n \in Nodes, NewTransaction(n, m)
    PROVE  RequestsInv'
<1>1. /\ sent' \subseteq sent
      /\ UNCHANGED <<interval_left, new_requests, ws_registry, asked, epochVars,
                     answerVars, membershipVars, ringVars>>
  BY DEF NewTransaction
<1>2. CASE n \in panicked
  <2>1. UNCHANGED <<transactions, self_offsets>>
    BY <1>2 DEF NewTransaction
  <2>2. /\ MembershipInv' /\ RingTypeOK' /\ Issuing /\ UNCHANGED setup
    BY <1>1, QuietFrame
  <2>3. IntervalsSound' /\ AnswersSound' /\ WaitersSound'
    BY <1>1, <2>2, GatewayFrame DEF RequestsInv, answerVars
  <2>4. SentSound' /\ StoreSound' /\ AskedSound' /\ EpochsSound' /\ UpdatesSound'
        /\ ProgressIsReal'
    BY <1>1, <2>1, <2>2, SentFrame, StoreFrame, AskedFrame, EpochsFrame,
       UpdatesFrame, ProgressFrame DEF RequestsInv, epochVars, answerVars
  <2>. QED BY <2>2, <2>3, <2>4 DEF RequestsInv
<1>3. CASE n \notin panicked
  <2>1. PICK tx : tx = [request |-> m.request, status |-> "Created"]
    OBVIOUS
  <2>2. Store(n, m.id, tx)
    BY <1>3, <2>1 DEF NewTransaction
  <2>3. IsTransaction(m.id, tx) /\ Progressed(m.id, tx.status)
    BY <2>1 DEF RequestsInv, SentSound, IsTransaction, Statuses, Progressed
  <2>4. asked' \in [Nodes -> SUBSET (Nodes \X Ids)]
        /\ \A x \in Nodes : asked'[x] \subseteq asked[x]
    BY <1>1 DEF RequestsInv, AskedSound
  <2>. QED BY <1>1, <2>2, <2>3, <2>4, StoredStep
<1>. QED BY <1>2, <1>3

\* Another node's copy.
LEMMA MissingTxStep ==
    ASSUME RequestsInv, NEW n \in Nodes, NEW m \in Nodes, NEW id \in Ids,
           MissingTx(n, m, id)
    PROVE  RequestsInv'
<1>1. /\ <<m, id>> \in asked[n]
      /\ asked' = [asked EXCEPT ![n] = @ \ {<<m, id>>}]
      /\ Store(n, id, transactions[m][id])
      /\ UNCHANGED <<gatewayVars, epochVars, answerVars, membershipVars, ringVars>>
  BY DEF MissingTx
<1>2. PICK tx : tx = transactions[m][id]
  OBVIOUS
<1>3. id \in DOMAIN transactions[m]
  BY <1>1 DEF RequestsInv, AskedSound
<1>4. IsTransaction(id, tx) /\ Progressed(id, tx.status)
  BY <1>2, <1>3, ProgressByStatus DEF RequestsInv, StoreSound
<1>5. asked' \in [Nodes -> SUBSET (Nodes \X Ids)]
      /\ \A x \in Nodes : asked'[x] \subseteq asked[x]
  BY <1>1 DEF RequestsInv, AskedSound
<1>6. sent' \subseteq sent /\ UNCHANGED <<interval_left, new_requests, ws_registry>>
  BY <1>1 DEF gatewayVars
<1>. QED BY <1>1, <1>2, <1>4, <1>5, <1>6, StoredStep

\* A node asks for what the other one has; the process of a panicked App dies.
LEMMA RequestMissingStep ==
    ASSUME RequestsInv, NEW n \in Nodes, NEW m \in Nodes, NEW id \in Ids,
           RequestMissingTxs(n, m, id)
    PROVE  RequestsInv'
<1>1. /\ m \in Live /\ id \in DOMAIN transactions[m]
      /\ IF m \in panicked
         THEN /\ crashed' = crashed \cup {m}
              /\ broken' = broken \cup {d \in Connections : m \in {d[1], d[2]}}
              /\ UNCHANGED asked
         ELSE /\ asked' = [asked EXCEPT ![n] = @ \cup {<<m, id>>}]
              /\ UNCHANGED <<crashed, broken>>
      /\ UNCHANGED <<transactions, self_offsets, gatewayVars, epochVars,
                     answerVars, setup, ends, aliveVars, ringVars>>
  BY DEF RequestMissingTxs
<1>2. MembershipInv'
  <2>1. MembershipInv /\ broken \subseteq Connections /\ crashed \subseteq setup.nodes
    BY DEF RequestsInv, MembershipInv, MembershipTypeOK
  <2>2. /\ broken \subseteq broken' /\ broken' \subseteq Connections
        /\ crashed \subseteq crashed' /\ crashed' \subseteq setup.nodes
    BY <1>1, <2>1 DEF Live
  <2>. QED BY <1>1, <2>1, <2>2, LossStep
<1>3. RingTypeOK'
  BY <1>1 DEF RequestsInv, RingTypeOK, ringVars, MaxSince, Uptimes
<1>4. Issuing
  BY <1>1 DEF Issuing, IssuedFor, gatewayVars
<1>5. IntervalsSound' /\ AnswersSound' /\ WaitersSound'
  BY <1>1, GatewayFrame DEF RequestsInv, gatewayVars, answerVars
<1>6. AskedSound'
  <2>1. CASE m \in panicked
    BY <1>1, <2>1, AskedFrame DEF RequestsInv
  <2>2. CASE m \notin panicked
    <3>1. asked' = [asked EXCEPT ![n] = @ \cup {<<m, id>>}] /\ UNCHANGED transactions
      BY <1>1, <2>2
    <3>2. asked \in [Nodes -> SUBSET (Nodes \X Ids)]
          /\ \A x \in Nodes : \A p \in asked[x] : p[2] \in DOMAIN transactions[p[1]]
      BY DEF RequestsInv, AskedSound
    <3>3. asked' \in [Nodes -> SUBSET (Nodes \X Ids)]
          /\ \A x \in Nodes : \A p \in asked'[x] : p \in asked[x] \/ p = <<m, id>>
      BY <3>1, <3>2
    <3>. QED BY <1>1, <3>1, <3>2, <3>3 DEF AskedSound
  <2>. QED BY <2>1, <2>2
<1>7. SentSound' /\ StoreSound' /\ EpochsSound' /\ UpdatesSound' /\ ProgressIsReal'
  BY <1>1, <1>4, SentFrame, StoreFrame, EpochsFrame, UpdatesFrame,
     ProgressFrame DEF RequestsInv, gatewayVars, epochVars, answerVars
<1>. QED BY <1>2, <1>3, <1>5, <1>6, <1>7 DEF RequestsInv

-----------------------------------------------------------------------------
(***************************************************************************)
(* Epochs and results.                                                     *)
(***************************************************************************)

\* There is a last committed offset, or none.
LEMMA CommitedOffsetIsLast ==
    ASSUME NEW r
    PROVE  /\ CommitedOffset(r) \in NoOffset .. SingleBlobSize - 1
           /\ \A p \in CommitedOffset(r) + 1 .. SingleBlobSize - 1 :
                 IdFrom(r, p) \notin Committed
<1> DEFINE IsLast(o) == /\ o = NoOffset \/ IdFrom(r, o) \in Committed
                        /\ \A p \in o + 1 .. SingleBlobSize - 1 :
                              IdFrom(r, p) \notin Committed
           T == {x \in Nat : \/ x = SingleBlobSize
                             \/ /\ x < SingleBlobSize
                                /\ IdFrom(r, SingleBlobSize - 1 - x) \in Committed}
<1>0. SingleBlobSize \in Nat \ {0}
  BY RangesAssumption
<1>1. SingleBlobSize \in T /\ T \in SUBSET Nat
  BY <1>0
<1>2. PICK x \in T : \A y \in T : x <= y
  <2> HIDE DEF T
  <2>. QED BY <1>1, LeastNatural
<1>3. x \in Nat /\ x <= SingleBlobSize
  BY <1>0
<1>4. PICK o : o = SingleBlobSize - 1 - x
  OBVIOUS
<1>5. o \in NoOffset .. SingleBlobSize - 1
  BY <1>0, <1>3, <1>4 DEF NoOffset
<1>6. o = NoOffset \/ IdFrom(r, o) \in Committed
  BY <1>0, <1>3, <1>4 DEF NoOffset
<1>7. ASSUME NEW p \in o + 1 .. SingleBlobSize - 1
      PROVE  IdFrom(r, p) \notin Committed
  <2>1. PICK y : y = SingleBlobSize - 1 - p
    OBVIOUS
  <2>2. y \in Nat /\ y < x /\ y < SingleBlobSize /\ SingleBlobSize - 1 - y = p
    BY <1>0, <1>3, <1>4, <2>1
  <2>3. ~ (x <= y)
    BY <1>3, <2>2
  <2>4. y \notin T
    BY <1>2, <2>3
  <2>5. IdFrom(r, SingleBlobSize - 1 - y) \notin Committed
    BY <2>2, <2>4
  <2>. QED BY <2>2, <2>5
<1>8. \E z \in NoOffset .. SingleBlobSize - 1 : IsLast(z)
  BY <1>5, <1>6, <1>7
<1>9. CommitedOffset(r) = CHOOSE z \in NoOffset .. SingleBlobSize - 1 : IsLast(z)
  BY DEF CommitedOffset
<1>. QED BY <1>8, <1>9

\* An epoch takes ids of one range that no earlier epoch has.
LEMMA EpochIsNew ==
    ASSUME NEW r \in Ranges, NEW last \in EpochStart(r) .. SingleBlobSize - 1,
           NEW id \in IdFrom(r, EpochStart(r)) .. IdFrom(r, last)
    PROVE  id \in Ids \ Committed
<1>1. SingleBlobSize \in Nat \ {0} /\ r \in Nat
  BY RangesAssumption, IdsByRange
<1>2. /\ IntervalLeft(r) \in Nat
      /\ IntervalRight(r) = IntervalLeft(r) + SingleBlobSize - 1
      /\ \A o \in Int : IdFrom(r, o) = IntervalLeft(r) + o
      /\ \A x \in IntervalLeft(r) .. IntervalRight(r) :
            OffsetFromId(x) = x - IntervalLeft(r) /\ x = IdFrom(r, OffsetFromId(x))
  BY <1>1, Interval
<1>3. PICK c : c = CommitedOffset(r)
  OBVIOUS
<1>4. c \in NoOffset .. SingleBlobSize - 1
      /\ \A p \in c + 1 .. SingleBlobSize - 1 : IdFrom(r, p) \notin Committed
  BY <1>3, CommitedOffsetIsLast
<1>5. EpochStart(r) = c + 1 /\ c + 1 \in Nat /\ last \in Int
  BY <1>1, <1>3, <1>4 DEF EpochStart, NoOffset
<1>6. id \in IntervalLeft(r) + c + 1 .. IntervalLeft(r) + last
  <2>1. IdFrom(r, c + 1) = IntervalLeft(r) + (c + 1) /\ IdFrom(r, last) = IntervalLeft(r) + last
    BY <1>2, <1>5
  <2>. QED BY <1>2, <1>4, <1>5, <2>1
<1>7. id \in IntervalLeft(r) .. IntervalRight(r)
  BY <1>1, <1>2, <1>5, <1>6
<1>8. OffsetFromId(id) \in c + 1 .. SingleBlobSize - 1 /\ id = IdFrom(r, OffsetFromId(id))
  BY <1>1, <1>2, <1>5, <1>6, <1>7
<1>. QED BY <1>4, <1>7, <1>8, IdsByRange

LEMMA CommitStep ==
    ASSUME RequestsInv, NEW r \in Ranges, CommitEpoch(r)
    PROVE  RequestsInv'
<1>1. PICK last \in EpochStart(r) .. SingleBlobSize - 1 :
        epochs' = Append(epochs, IdFrom(r, EpochStart(r)) .. IdFrom(r, last))
  BY DEF CommitEpoch
<1>2. UNCHANGED <<applied, executed, working, panicked, gatewayVars, storeVars,
                  answerVars, membershipVars, ringVars>>
  BY DEF CommitEpoch
<1>3. PICK e : e = IdFrom(r, EpochStart(r)) .. IdFrom(r, last)
  OBVIOUS
<1>4. e \subseteq Ids /\ e \cap Committed = {}
  BY <1>3, EpochIsNew
<1>5. epochs \in Seq(SUBSET Ids) /\ Len(epochs) \in Nat /\ DOMAIN epochs = 1 .. Len(epochs)
  BY DEF RequestsInv, EpochsSound
<1>6. /\ epochs' \in Seq(SUBSET Ids) /\ Len(epochs') = Len(epochs) + 1
      /\ \A i \in 1 .. Len(epochs) : epochs'[i] = epochs[i]
      /\ epochs'[Len(epochs) + 1] = e
      /\ DOMAIN epochs' = 1 .. Len(epochs) + 1
  BY <1>1, <1>3, <1>4, <1>5
<1>7. \A i \in 1 .. Len(epochs) : e \cap epochs[i] = {}
  BY <1>4, <1>5 DEF Committed
<1>8. Committed \subseteq Committed'
  BY <1>5, <1>6 DEF Committed
<1>9. /\ MembershipInv' /\ RingTypeOK' /\ Issuing /\ UNCHANGED setup
  BY <1>2, QuietFrame DEF gatewayVars
<1>10. EpochsSound'
  <2>1. \A i \in 1 .. Len(epochs) + 1 : i \in 1 .. Len(epochs) \/ i = Len(epochs) + 1
    BY <1>5
  <2>2. ASSUME NEW i \in 1 .. Len(epochs'), NEW j \in 1 .. Len(epochs'), i # j
        PROVE  epochs'[i] \cap epochs'[j] = {}
    <3>1. CASE i \in 1 .. Len(epochs) /\ j \in 1 .. Len(epochs)
      BY <1>6, <2>2, <3>1 DEF RequestsInv, EpochsSound
    <3>2. CASE i = Len(epochs) + 1 /\ j \in 1 .. Len(epochs)
      BY <1>6, <1>7, <3>2
    <3>3. CASE i \in 1 .. Len(epochs) /\ j = Len(epochs) + 1
      BY <1>6, <1>7, <3>3
    <3>. QED BY <1>6, <2>1, <2>2, <3>1, <3>2, <3>3
  <2>3. \A n \in Nodes : applied[n] \in 0 .. Len(epochs)
                         /\ 1 .. applied[n] \subseteq 1 .. Len(epochs)
    BY <1>5 DEF RequestsInv, EpochsSound
  <2>4. applied' \in [Nodes -> 0 .. Len(epochs')]
    BY <1>2, <1>5, <1>6 DEF RequestsInv, EpochsSound
  <2>5. ASSUME NEW n \in Nodes, NEW id \in DOMAIN executed'[n]
        PROVE  /\ IssuedFor(id, executed[n][id])'
               /\ \E i \in 1 .. applied'[n] : id \in epochs'[i]
    <3>1. IssuedFor(id, executed[n][id]) /\ \E i \in 1 .. applied[n] : id \in epochs[i]
      BY <1>2, <2>5 DEF RequestsInv, EpochsSound
    <3>. QED BY <1>2, <1>6, <1>9, <2>3, <3>1 DEF Issuing
  <2>. QED BY <1>2, <1>6, <1>9, <2>2, <2>4, <2>5 DEF RequestsInv, EpochsSound
<1>11. ProgressIsReal'
  BY <1>2, <1>8 DEF RequestsInv, ProgressIsReal, storeVars
<1>12. IntervalsSound' /\ AnswersSound' /\ WaitersSound'
  BY <1>2, <1>9, GatewayFrame DEF RequestsInv, gatewayVars, answerVars
<1>13. SentSound' /\ StoreSound' /\ AskedSound' /\ UpdatesSound'
  BY <1>2, <1>9, SentFrame, StoreFrame, AskedFrame, UpdatesFrame
     DEF RequestsInv, gatewayVars, storeVars, answerVars
<1>. QED BY <1>9, <1>10, <1>11, <1>12, <1>13 DEF RequestsInv

\* Nothing but the status of some transactions of one node changes.
WithStatus(n, ids, status) ==
    [transactions EXCEPT ![n] =
        [id \in DOMAIN @ |-> IF id \in ids THEN [@[id] EXCEPT !.status = status]
                                            ELSE @[id]]]

LEMMA StatusesChange ==
    ASSUME StoreSound, AskedSound, Issuing, NEW n \in Nodes, NEW ids,
           NEW status \in Statuses, UNCHANGED <<self_offsets, asked>>,
           transactions' = WithStatus(n, ids, status)
    PROVE  /\ StoreSound' /\ AskedSound'
           /\ \A m \in Nodes : /\ DOMAIN transactions'[m] = DOMAIN transactions[m]
                               /\ \A id \in DOMAIN transactions[m] :
                                     transactions'[m][id].status =
                                        IF m = n /\ id \in ids THEN status
                                        ELSE transactions[m][id].status
<1>1. /\ DOMAIN transactions' = Nodes
      /\ DOMAIN transactions'[n] = DOMAIN transactions[n]
      /\ \A id \in DOMAIN transactions[n] :
            transactions'[n][id] = IF id \in ids
                                   THEN [transactions[n][id] EXCEPT !.status = status]
                                   ELSE transactions[n][id]
      /\ \A m \in Nodes : m # n => transactions'[m] = transactions[m]
  BY DEF StoreSound, WithStatus
<1>2. ASSUME NEW m \in Nodes, NEW id \in DOMAIN transactions[m]
      PROVE  /\ transactions'[m][id] \in [request : Requests, status : Statuses]
             /\ transactions'[m][id].request = transactions[m][id].request
             /\ transactions'[m][id].status = IF m = n /\ id \in ids THEN status
                                              ELSE transactions[m][id].status
  <2>1. transactions[m][id] \in [request : Requests, status : Statuses]
    BY DEF StoreSound, IsTransaction
  <2>2. CASE m = n /\ id \in ids
    <3>1. transactions'[m][id] = [transactions[m][id] EXCEPT !.status = status]
      BY <1>1, <2>2
    <3>. QED BY <2>1, <2>2, <3>1
  <2>3. CASE ~ (m = n /\ id \in ids)
    <3>1. transactions'[m][id] = transactions[m][id]
      BY <1>1, <2>3
    <3>. QED BY <2>1, <2>3, <3>1
  <2>. QED BY <2>2, <2>3
<1>3. ASSUME NEW m \in Nodes, NEW id \in DOMAIN transactions'[m]
      PROVE  IsTransaction(id, transactions[m][id])'
  <2>1. id \in DOMAIN transactions[m]
    BY <1>1
  <2>2. IssuedFor(id, transactions[m][id].request)
    BY <2>1 DEF StoreSound, IsTransaction
  <2>3. IssuedFor(id, transactions[m][id].request)'
    BY <1>2, <2>1, <2>2 DEF Issuing
  <2>. QED BY <1>2, <2>1, <2>3 DEF IsTransaction
<1>4. \A m \in Nodes : DOMAIN transactions'[m] = DOMAIN transactions[m]
  BY <1>1
<1>5. StoreSound'
  BY <1>1, <1>3, <1>4 DEF StoreSound
<1>6. AskedSound'
  BY <1>4 DEF AskedSound
<1>. QED BY <1>2, <1>4, <1>5, <1>6

\* The App hands the transactions of an epoch over, or panics.
LEMMA ApplyStep ==
    ASSUME RequestsInv, NEW n \in Nodes, ApplyEpoch(n)
    PROVE  RequestsInv'
<1>0. PICK a, ids : a = applied[n] /\ ids = epochs[a + 1]
  OBVIOUS
<1>1. /\ n \in Apps /\ a < Len(epochs)
      /\ applied' = [applied EXCEPT ![n] = @ + 1]
      /\ UNCHANGED <<self_offsets, asked, epochs, gatewayVars, answerVars,
                     membershipVars, ringVars>>
  BY <1>0 DEF ApplyEpoch
<1>2. /\ MembershipInv' /\ RingTypeOK' /\ Issuing /\ UNCHANGED setup
  BY <1>1, QuietFrame DEF gatewayVars
<1>3. EpochsSound /\ StoreSound /\ AskedSound /\ ProgressIsReal
  BY DEF RequestsInv
<1>4. epochs \in Seq(SUBSET Ids) /\ Len(epochs) \in Nat /\ a \in Nat
      /\ DOMAIN epochs = 1 .. Len(epochs)
  BY <1>0, <1>3 DEF EpochsSound
<1>5. a + 1 \in 1 .. Len(epochs) /\ ids \subseteq Ids /\ ids \subseteq Committed
  BY <1>0, <1>1, <1>4 DEF Committed
<1>6. /\ applied' \in [Nodes -> 0 .. Len(epochs)] /\ applied'[n] = a + 1
      /\ \A m \in Nodes : m # n => applied'[m] = applied[m]
  BY <1>0, <1>1, <1>3, <1>4, <1>5 DEF EpochsSound
<1>7. \A m \in Nodes : 1 .. applied[m] \subseteq 1 .. applied'[m]
  BY <1>0, <1>4, <1>6
\* What the node executed before is in other epochs.
<1>8. DOMAIN executed[n] \cap ids = {}
  <2>1. ASSUME NEW id \in DOMAIN executed[n]
        PROVE  id \notin ids
    <3>1. PICK i \in 1 .. a : id \in epochs[i]
      BY <1>0, <1>3 DEF EpochsSound
    <3>2. i \in 1 .. Len(epochs) /\ i # a + 1
      BY <1>1, <1>4
    <3>. QED BY <1>0, <1>3, <1>5, <3>1, <3>2 DEF EpochsSound
  <2>. QED BY <2>1
<1>9. IntervalsSound' /\ AnswersSound' /\ WaitersSound' /\ SentSound' /\ UpdatesSound'
  BY <1>1, <1>2, GatewayFrame, SentFrame, UpdatesFrame
     DEF RequestsInv, gatewayVars, answerVars
<1>10. CASE ids \subseteq DOMAIN transactions[n]
  <2>1. /\ transactions' = WithStatus(n, ids, StatusInEpoch)
        /\ executed' = [executed EXCEPT ![n] =
              [id \in DOMAIN @ \cup ids |->
                  IF id \in ids THEN transactions[n][id].request ELSE @[id]]]
        /\ working' = [working EXCEPT ![n] = @ \cup RuntimeAccepts(n, ids)]
        /\ UNCHANGED panicked
    BY <1>0, <1>10 DEF ApplyEpoch, WithStatus
  <2>2. /\ StoreSound' /\ AskedSound'
        /\ \A m \in Nodes : /\ DOMAIN transactions'[m] = DOMAIN transactions[m]
                            /\ \A id \in DOMAIN transactions[m] :
                                  transactions'[m][id].status =
                                     IF m = n /\ id \in ids THEN StatusInEpoch
                                     ELSE transactions[m][id].status
    <3>1. StatusInEpoch \in Statuses
      BY DEF StatusInEpoch, Statuses
    <3>. HIDE DEF StatusInEpoch
    <3>. QED BY <1>1, <1>2, <1>3, <2>1, <3>1, StatusesChange
  <2>3. /\ DOMAIN executed' = Nodes
        /\ DOMAIN executed'[n] = DOMAIN executed[n] \cup ids
        /\ \A id \in DOMAIN executed'[n] :
              executed'[n][id] = IF id \in ids THEN transactions[n][id].request
                                 ELSE executed[n][id]
        /\ \A m \in Nodes : m # n => executed'[m] = executed[m]
    BY <1>3, <2>1 DEF EpochsSound
  <2>4. RuntimeAccepts(n, ids) \subseteq ids
    BY DEF RuntimeAccepts
  <2>5. /\ working' \in [Nodes -> SUBSET Ids]
        /\ working'[n] = working[n] \cup RuntimeAccepts(n, ids)
        /\ \A m \in Nodes : m # n => working'[m] = working[m]
    BY <1>3, <1>5, <2>1, <2>4 DEF EpochsSound
  <2>6. ASSUME NEW m \in Nodes, NEW id \in DOMAIN executed'[m]
        PROVE  /\ IssuedFor(id, executed[m][id])'
               /\ \E i \in 1 .. applied'[m] : id \in epochs[i]
    <3>1. CASE m = n /\ id \in ids
      <4>1. IssuedFor(id, transactions[n][id].request)
        BY <1>3, <1>10, <3>1 DEF StoreSound, IsTransaction
      <4>2. executed'[m][id] = transactions[n][id].request
        BY <2>3, <3>1
      <4>3. a + 1 \in 1 .. applied'[m]
        BY <1>4, <1>6, <3>1
      <4>4. id \in epochs[a + 1]
        BY <1>0, <3>1
      <4>5. IssuedFor(id, executed[m][id])'
        BY <1>2, <4>1, <4>2 DEF Issuing
      <4>. QED BY <4>3, <4>4, <4>5
    <3>2. CASE ~ (m = n /\ id \in ids)
      <4>1. id \in DOMAIN executed[m] /\ executed'[m][id] = executed[m][id]
        BY <2>3, <2>6, <3>2
      <4>2. IssuedFor(id, executed[m][id]) /\ \E i \in 1 .. applied[m] : id \in epochs[i]
        BY <1>3, <4>1 DEF EpochsSound
      <4>3. IssuedFor(id, executed[m][id])'
        BY <1>2, <4>1, <4>2 DEF Issuing
      <4>. QED BY <1>7, <4>2, <4>3
    <3>. QED BY <3>1, <3>2
  <2>7. \A m \in Nodes : working'[m] \subseteq DOMAIN executed'[m]
    BY <1>3, <2>3, <2>4, <2>5 DEF EpochsSound
  <2>8. EpochsSound'
    <3>1. UNCHANGED <<epochs, panicked, setup>>
      BY <1>1, <1>2, <2>1
    <3>2. \A m \in Nodes : \A id \in DOMAIN executed'[m] :
             /\ IssuedFor(id, executed[m][id])'
             /\ \E i \in 1 .. applied'[m] : id \in epochs'[i]
      BY <2>6, <3>1
    <3>3. /\ epochs' \in Seq(SUBSET Ids) /\ panicked' \subseteq setup'.nodes
          /\ \A i, j \in 1 .. Len(epochs') : i # j => epochs'[i] \cap epochs'[j] = {}
          /\ applied' \in [Nodes -> 0 .. Len(epochs')]
      BY <1>3, <1>6, <3>1 DEF EpochsSound
    <3>. QED BY <2>3, <2>5, <2>7, <3>2, <3>3 DEF EpochsSound
  <2>9. ASSUME NEW m \in Nodes, NEW id \in DOMAIN executed[m] \ working[m]
        PROVE  id \in DOMAIN executed'[m] \ working'[m]
    BY <1>8, <2>3, <2>4, <2>5
  <2>10. ProgressIsReal'
    <3>1. Committed' = Committed
      BY <1>1 DEF Committed
    <3>2. ASSUME NEW m \in Nodes, NEW id \in DOMAIN transactions'[m]
          PROVE  /\ transactions'[m][id].status # "Created" => id \in Committed
                 /\ transactions'[m][id].status = "Finished" =>
                       \E x \in Nodes : id \in DOMAIN executed'[x] \ working'[x]
      <4>1. CASE m = n /\ id \in ids
        BY <1>5, <2>2, <4>1 DEF StatusInEpoch
      <4>2. CASE ~ (m = n /\ id \in ids)
        <5>1. id \in DOMAIN transactions[m]
              /\ transactions'[m][id].status = transactions[m][id].status
          BY <2>2, <4>2
        <5>. QED BY <1>3, <2>9, <5>1 DEF ProgressIsReal
      <4>. QED BY <4>1, <4>2
    <3>. QED BY <3>1, <3>2 DEF ProgressIsReal
  <2>. QED BY <1>2, <1>9, <2>2, <2>8, <2>10 DEF RequestsInv
<1>11. CASE ~ (ids \subseteq DOMAIN transactions[n])
  <2>1. panicked' = panicked \cup {n} /\ UNCHANGED <<transactions, executed, working>>
    BY <1>0, <1>11 DEF ApplyEpoch
  <2>2. panicked' \subseteq setup'.nodes
    BY <1>1, <1>2, <1>3, <2>1 DEF EpochsSound, Apps, Live
  <2>3. \A m \in Nodes : \A id \in DOMAIN executed[m] :
           \E i \in 1 .. applied'[m] : id \in epochs[i]
    BY <1>3, <1>7 DEF EpochsSound
  <2>4. EpochsSound'
    BY <1>1, <1>2, <1>3, <1>6, <2>1, <2>2, <2>3 DEF EpochsSound, Issuing
  <2>5. StoreSound' /\ AskedSound' /\ ProgressIsReal'
    BY <1>1, <1>2, <2>1, StoreFrame, AskedFrame, ProgressFrame DEF RequestsInv
  <2>. QED BY <1>2, <1>9, <2>4, <2>5 DEF RequestsInv
<1>. QED BY <1>10, <1>11

\* Results come back from the runtime and go out to the gateways.
LEMMA ReportStep ==
    ASSUME RequestsInv, NEW n \in Nodes, NEW ids, ReportResults(n, ids)
    PROVE  RequestsInv'
<1>1. /\ ids \subseteq working[n]
      /\ working' = [working EXCEPT ![n] = @ \ ids]
      /\ transactions' = WithStatus(n, ids, "Finished")
      /\ UNCHANGED <<self_offsets, asked, epochs, applied, executed, panicked,
                     gatewayVars, answers, membershipVars, ringVars>>
  BY DEF ReportResults, WithStatus
<1>2. /\ MembershipInv' /\ RingTypeOK' /\ Issuing /\ UNCHANGED setup
  BY <1>1, QuietFrame DEF gatewayVars
<1>3. EpochsSound /\ StoreSound /\ AskedSound /\ ProgressIsReal /\ UpdatesSound
  BY DEF RequestsInv
<1>4. /\ StoreSound' /\ AskedSound'
      /\ \A m \in Nodes : /\ DOMAIN transactions'[m] = DOMAIN transactions[m]
                          /\ \A id \in DOMAIN transactions[m] :
                                transactions'[m][id].status =
                                   IF m = n /\ id \in ids THEN "Finished"
                                   ELSE transactions[m][id].status
  <2>1. "Finished" \in Statuses
    BY DEF Statuses
  <2>. QED BY <1>1, <1>2, <1>3, <2>1, StatusesChange
<1>5. /\ working' \in [Nodes -> SUBSET Ids] /\ working'[n] = working[n] \ ids
      /\ \A m \in Nodes : working'[m] \subseteq working[m]
  BY <1>1, <1>3 DEF EpochsSound
<1>6. EpochsSound'
  BY <1>1, <1>2, <1>3, <1>5 DEF EpochsSound, Issuing
<1>7. ids \subseteq DOMAIN executed[n] /\ ids \subseteq Ids
  BY <1>1, <1>3 DEF EpochsSound
<1>8. ids \subseteq Committed
  <2>1. ASSUME NEW id \in ids
        PROVE  id \in Committed
    <3>1. PICK i \in 1 .. applied[n] : id \in epochs[i]
      BY <1>3, <1>7 DEF EpochsSound
    <3>2. Len(epochs) \in Nat /\ applied[n] \in 0 .. Len(epochs)
          /\ DOMAIN epochs = 1 .. Len(epochs)
      BY <1>3 DEF EpochsSound
    <3>3. i \in DOMAIN epochs
      BY <3>2
    <3>. QED BY <3>1, <3>3 DEF Committed
  <2>. QED BY <2>1
<1>9. ProgressIsReal'
  <2>1. Committed' = Committed /\ UNCHANGED executed
    BY <1>1 DEF Committed
  <2>2. ASSUME NEW m \in Nodes, NEW id \in DOMAIN transactions'[m]
        PROVE  /\ transactions'[m][id].status # "Created" => id \in Committed
               /\ transactions'[m][id].status = "Finished" =>
                     \E x \in Nodes : id \in DOMAIN executed[x] \ working'[x]
    <3>1. CASE m = n /\ id \in ids
      BY <1>5, <1>7, <1>8, <3>1
    <3>2. CASE ~ (m = n /\ id \in ids)
      <4>1. id \in DOMAIN transactions[m]
            /\ transactions'[m][id].status = transactions[m][id].status
        BY <1>4, <3>2
      <4>. QED BY <1>3, <1>5, <4>1 DEF ProgressIsReal
    <3>. QED BY <3>1, <3>2
  <2>. QED BY <2>1, <2>2 DEF ProgressIsReal
<1>10. UpdatesSound'
  <2>1. CASE unheard' = unheard \cup ids /\ UNCHANGED updates
    BY <1>2, <1>3, <1>7, <2>1 DEF UpdatesSound, Issuing
  <2>2. CASE /\ updates' = updates \cup
                   {[to |-> g, dial |-> <<g, n>>,
                     results |-> [id \in ids |-> executed[n][id]]] :
                       g \in {h \in Gateways : <<h, n>> \in Connections}}
             /\ UNCHANGED unheard
    <3>1. ASSUME NEW u \in updates' \ updates
          PROVE  /\ u.to \in Gateways
                 /\ \A id \in DOMAIN u.results : IssuedFor(id, u.results[id])
      <4>1. PICK g \in Gateways :
              u = [to |-> g, dial |-> <<g, n>>,
                   results |-> [id \in ids |-> executed[n][id]]]
        BY <2>2, <3>1
      <4>2. u.to = g /\ u.results = [id \in ids |-> executed[n][id]]
        BY <4>1
      <4>. QED BY <1>3, <1>7, <4>2 DEF EpochsSound
    <3>2. \A u \in updates' : /\ u.to \in Gateways
                              /\ \A id \in DOMAIN u.results : IssuedFor(id, u.results[id])
      BY <1>3, <3>1 DEF UpdatesSound
    <3>. QED BY <1>2, <1>3, <2>2, <3>2 DEF UpdatesSound, Issuing
  <2>. QED BY <2>1, <2>2 DEF ReportResults
<1>11. IntervalsSound' /\ AnswersSound' /\ WaitersSound' /\ SentSound'
  BY <1>1, <1>2, GatewayFrame, SentFrame DEF RequestsInv, gatewayVars
<1>. QED BY <1>2, <1>4, <1>6, <1>9, <1>10, <1>11 DEF RequestsInv

-----------------------------------------------------------------------------
(***************************************************************************)
(* The theorems.                                                           *)
(***************************************************************************)
LEMMA RequestsInitInv == Init => RequestsInv
<1> SUFFICES ASSUME Init
             PROVE  RequestsInv
  OBVIOUS
<1>1. MembershipInv /\ setup \in Setups
  BY MembershipInitInv DEF Init, MembershipInv, MembershipTypeOK
<1>2. RingTypeOK
  <2>1. MaxSince \in Nat
    BY <1>1, LongestUptime
  <2>. QED BY <2>1 DEF Init, RingInit, RingTypeOK, Tidings
<1>3. /\ interval_left = [g \in Gateways |-> IntervalLeft(RangeOf[g])]
      /\ new_requests = [g \in Gateways |-> <<>>]
      /\ ws_registry = [g \in Gateways |-> <<>>]
      /\ sent = {}
      /\ transactions = [n \in Nodes |-> <<>>]
      /\ self_offsets = [n \in Nodes |-> [r \in Ranges |-> NoOffset]]
      /\ asked = [n \in Nodes |-> {}]
      /\ panicked = {} /\ epochs = <<>>
      /\ applied = [n \in Nodes |-> 0]
      /\ executed = [n \in Nodes |-> <<>>]
      /\ working = [n \in Nodes |-> {}]
      /\ updates = {} /\ unheard = {}
      /\ answers = [q \in Requests |-> <<>>]
  BY DEF Init, RequestsInit
<1>4. IntervalsSound
  <2>1. ASSUME NEW g \in Gateways
        PROVE  /\ IntervalLeft(RangeOf[g]) \in Nat
               /\ IntervalLeft(RangeOf[g]) <= IntervalRight(RangeOf[g])
    <3>1. /\ IntervalLeft(RangeOf[g]) \in Nat
          /\ IntervalRight(RangeOf[g]) = IntervalLeft(RangeOf[g]) + SingleBlobSize - 1
      BY IdsByRange, Interval
    <3>. QED BY <3>1, RangesAssumption
  <2>. QED BY <1>3, <2>1 DEF IntervalsSound
<1>5. AnswersSound
  BY <1>3 DEF AnswersSound
<1>6. WaitersSound
  BY <1>3 DEF WaitersSound
<1>7. SentSound /\ UpdatesSound /\ AskedSound
  BY <1>3 DEF SentSound, UpdatesSound, AskedSound
<1>8. StoreSound
  <2>1. self_offsets \in [Nodes -> [Ranges -> NoOffset .. SingleBlobSize - 1]]
    BY <1>3, RangesAssumption DEF NoOffset
  <2>2. \A n \in Nodes : DOMAIN transactions[n] = {}
    BY <1>3
  <2>3. \A n \in Nodes, r \in Ranges :
           PrefixOf(DOMAIN transactions[n], r, self_offsets[n][r])
    BY <1>3, <2>2 DEF PrefixOf
  <2>. QED BY <1>3, <2>1, <2>2, <2>3 DEF StoreSound
<1>9. EpochsSound
  <2>1. epochs \in Seq(SUBSET Ids) /\ Len(epochs) = 0
    BY <1>3
  <2>2. \A n \in Nodes : DOMAIN executed[n] = {}
    BY <1>3
  <2>. QED BY <1>3, <2>1, <2>2 DEF EpochsSound
<1>10. ProgressIsReal
  BY <1>3 DEF ProgressIsReal
<1>. QED BY <1>1, <1>2, <1>4, <1>5, <1>6, <1>7, <1>8, <1>9, <1>10 DEF RequestsInv

\* Connections, losses, the clock and the proposals do not touch the requests.
LEMMA BackgroundStep ==
    ASSUME RequestsInv, UNCHANGED requestVars,
           \/ MembershipNext /\ UNCHANGED ringVars
           \/ RingNext
           \/ UNCHANGED <<membershipVars, ringVars>>
    PROVE  RequestsInv'
<1>1. MembershipInv /\ RingTypeOK /\ MembershipTypeOK
  BY DEF RequestsInv, MembershipInv
<1>2. UNCHANGED setup
  <2>1. MembershipNext => UNCHANGED setup
    BY DEF MembershipNext, HandleSwarmEvent, ConnectionEstablished,
           ConnectionClosed, MetaExchange, Break, Crash
  <2>2. RingNext => UNCHANGED setup
    BY <1>1, RingStep DEF membershipVars
  <2>. QED BY <2>1, <2>2 DEF membershipVars
<1>3. MembershipInv' /\ RingTypeOK'
  <2>1. CASE MembershipNext /\ UNCHANGED ringVars
    BY <1>1, <1>2, <2>1, MembershipStep DEF RingTypeOK, ringVars, MaxSince, Uptimes
  <2>2. CASE RingNext
    <3>1. RingTypeOK' /\ UNCHANGED membershipVars
      BY <1>1, <2>2, RingStep
    <3>2. UNCHANGED <<setup, ends, broken, crashed, aliveVars>>
      BY <3>1 DEF membershipVars
    <3>3. broken \subseteq Connections /\ crashed \subseteq setup.nodes
      BY <1>1 DEF MembershipTypeOK
    <3>. QED BY <1>1, <3>1, <3>2, <3>3, LossStep
  <2>3. CASE UNCHANGED <<membershipVars, ringVars>>
    BY <1>1, <2>3, MembershipFrame
  <2>. QED BY <2>1, <2>2, <2>3
<1>4. UNCHANGED <<gatewayVars, storeVars, epochVars, answerVars>>
  BY DEF requestVars
<1>5. Issuing
  BY <1>2, <1>4 DEF Issuing, IssuedFor, gatewayVars
<1>6. IntervalsSound' /\ AnswersSound' /\ WaitersSound'
  BY <1>2, <1>4, GatewayFrame DEF RequestsInv, gatewayVars, answerVars
<1>7. SentSound' /\ UpdatesSound' /\ EpochsSound'
  BY <1>4, <1>5, SentFrame, UpdatesFrame, EpochsFrame
     DEF RequestsInv, gatewayVars, answerVars
<1>8. StoreSound' /\ AskedSound' /\ ProgressIsReal'
  BY <1>4, <1>5, StoreFrame, AskedFrame, ProgressFrame
     DEF RequestsInv, storeVars, epochVars
<1>. QED BY <1>3, <1>6, <1>7, <1>8 DEF RequestsInv

LEMMA RequestsStep == RequestsInv /\ [Next]_vars => RequestsInv'
<1> SUFFICES ASSUME RequestsInv, [Next]_vars
             PROVE  RequestsInv'
  OBVIOUS
<1>1. CASE MembershipNext /\ UNCHANGED <<ringVars, requestVars>>
  BY <1>1, BackgroundStep
<1>2. CASE InRing(RingNext)
  BY <1>2, BackgroundStep DEF InRing
<1>3. ASSUME NEW g \in Gateways, SendRequest(g)
      PROVE  RequestsInv'
  BY <1>3, IssueStep, RefuseStep
<1>4. CASE Delivery
  BY <1>4, NewTransactionStep, HandleInboxStep, LostStep DEF Delivery
<1>5. ASSUME NEW n \in Nodes, AppStep(n)
      PROVE  RequestsInv'
  BY <1>5, RequestMissingStep, MissingTxStep, ApplyStep, ReportStep DEF AppStep
<1>6. CASE Work
  BY <1>4, <1>5, <1>6, HandleSendStep, CommitStep DEF Work
<1>7. CASE UNCHANGED vars
  BY <1>7, BackgroundStep DEF vars
<1>. QED BY <1>1, <1>2, <1>3, <1>6, <1>7 DEF Next

\* The invariant holds in every behaviour of gateways, nodes and connections.
THEOREM RequestsInvariant == Spec => []RequestsInv
BY RequestsInitInv, RequestsStep, PTL DEF Spec

LEMMA ListsFromInv == RequestsInv => ListsFollowConnections
<1> SUFFICES ASSUME RequestsInv
             PROVE  ListsFollowConnections
  OBVIOUS
<1>1. MembershipInv /\ MembershipTypeOK /\ RingTypeOK /\ ListedAreConnected
      /\ setup \in Setups /\ IntervalsSound
  BY DEF RequestsInv, MembershipInv, MembershipTypeOK
<1>2. \A id, q : IssuedFor(id, q) => id \in Ids /\ q \in Requests
  BY <1>1, IssuedParts
<1>3. \A g \in Gateways : \A i \in DOMAIN new_requests[g] :
         new_requests[g][i] \in Ids \X Requests
  BY DEF RequestsInv, WaitersSound
<1>4. \A g \in Gateways : /\ DOMAIN ws_registry[g] \subseteq Ids
                          /\ \A id \in DOMAIN ws_registry[g] :
                                ws_registry[g][id] \in Requests
  BY <1>2 DEF RequestsInv, WaitersSound, Waits
<1>5. \A n \in Nodes : /\ DOMAIN transactions[n] \subseteq Ids
                       /\ \A id \in DOMAIN transactions[n] :
                             transactions[n][id]
                                \in [request : Requests, status : Statuses]
  BY <1>2 DEF RequestsInv, StoreSound, IsTransaction
<1>6. \A i \in DOMAIN epochs : epochs[i] \subseteq Ids
  BY DEF RequestsInv, EpochsSound
<1>7. \A n \in Nodes : /\ DOMAIN executed[n] \subseteq Ids
                       /\ working[n] \subseteq DOMAIN executed[n]
  BY <1>2 DEF RequestsInv, EpochsSound
<1>8. /\ interval_left \in [Gateways -> Nat]
      /\ sent \subseteq [id : Ids, request : Requests, dial : Dials]
      /\ self_offsets \in [Nodes -> [Ranges -> NoOffset .. SingleBlobSize - 1]]
      /\ asked \in [Nodes -> SUBSET (Nodes \X Ids)]
      /\ panicked \subseteq setup.nodes
      /\ applied \in [Nodes -> 0 .. Len(epochs)]
      /\ unheard \subseteq Ids
  BY DEF RequestsInv, IntervalsSound, SentSound, StoreSound, AskedSound,
         EpochsSound, UpdatesSound
<1>9. RequestsTypeOK
  BY <1>1, <1>3, <1>4, <1>5, <1>6, <1>7, <1>8 DEF RequestsTypeOK
<1>. QED BY <1>1, <1>9, SettledFromInv DEF ListsFollowConnections

\* Every piece of state has its type, whoever is listed is connected, and the
\* rings of nodes that know each other agree, in every behaviour with requests.
THEOREM ListsStayRight == Spec => []ListsFollowConnections
BY ListsFromInv, RequestsInvariant, PTL

LEMMA TurnsFromInv == RequestsInv => TurnsApart
<1> SUFFICES ASSUME RequestsInv
             PROVE  TurnsApart
  OBVIOUS
<1>1. MembershipTypeOK /\ RingTypeOK
  BY DEF RequestsInv, MembershipInv
<1>. QED BY <1>1, TurnsFromTypes

\* Two nodes with the same ring and the same uptime, neither of which created the
\* latest epoch, are never due together, for any ring and whoever commits,
\* leaves or comes back.
THEOREM TurnsStayApart == Spec => []TurnsApart
BY TurnsFromInv, RequestsInvariant, PTL

LEMMA AnswersFromInv == RequestsInv => AnsweredOnceAndRight
<1> SUFFICES ASSUME RequestsInv
             PROVE  AnsweredOnceAndRight
  OBVIOUS
<1>1. \A q \in Requests : Len(answers[q]) <= 1
  <2>1. ASSUME NEW q \in Requests
        PROVE  Len(answers[q]) <= 1
    <3>1. CASE answers[q] = <<>>
      BY <3>1
    <3>2. ASSUME NEW x, answers[q] = <<x>>
          PROVE  Len(answers[q]) <= 1
      BY <3>2
    <3>. QED BY <3>1, <3>2 DEF RequestsInv, AnswersSound
  <2>. QED BY <2>1
<1>2. RangesApart => \A q \in Requests : answers[q] \in {<<>>, <<q>>, <<Panic>>}
  BY DEF RequestsInv, AnswersSound
<1>3. \A g \in Gateways : \A id \in DOMAIN ws_registry[g] :
         answers[ws_registry[g][id]] = <<>>
  BY DEF RequestsInv, WaitersSound, Waits
<1>. QED BY <1>1, <1>2, <1>3 DEF AnsweredOnceAndRight

\* A client gets one answer at most, the result of its own request, and waits in
\* the registry until then, for any number of requests, nodes and gateways.
THEOREM OneRightAnswer == Spec => []AnsweredOnceAndRight
BY AnswersFromInv, RequestsInvariant, PTL

LEMMA ExecutionsFromInv == RequestsInv => ExecutedAlike
<1> SUFFICES ASSUME RequestsInv
             PROVE  ExecutedAlike
  OBVIOUS
<1>1. setup \in Setups /\ IntervalsSound
  BY DEF RequestsInv, MembershipInv, MembershipTypeOK
<1> SUFFICES ASSUME RangesApart, NEW n \in Nodes, NEW m \in Nodes,
                    NEW id \in DOMAIN executed[n] \cap DOMAIN executed[m]
             PROVE  executed[n][id] = executed[m][id]
  BY DEF ExecutedAlike
<1>2. IssuedFor(id, executed[n][id]) /\ IssuedFor(id, executed[m][id])
  BY DEF RequestsInv, EpochsSound
<1>. QED BY <1>1, <1>2, IssuedOnce

\* Nodes execute the same payload under the same id, whichever copies of a
\* transaction reached them and in whatever order.
THEOREM ExecutionsAgree == Spec => []ExecutedAlike
BY ExecutionsFromInv, RequestsInvariant, PTL

LEMMA OffsetsFromInv == RequestsInv => OffsetsInRange
<1> SUFFICES ASSUME RequestsInv
             PROVE  OffsetsInRange
  OBVIOUS
<1> DEFINE Held(n, r) == {OffsetFromId(id) :
                  id \in {i \in DOMAIN transactions[n] : RangeFromId(i) = r}}
<1>0. OffsetsInRange <=>
         \A n \in Nodes, r \in Ranges :
            IF 0 \in Held(n, r)
            THEN /\ self_offsets[n][r] \in Held(n, r)
                 /\ 0 .. self_offsets[n][r] \subseteq Held(n, r)
                 /\ self_offsets[n][r] + 1 \notin Held(n, r)
            ELSE self_offsets[n][r] = NoOffset
  BY DEF OffsetsInRange
<1> HIDE DEF Held
<1> SUFFICES ASSUME NEW n \in Nodes, NEW r \in Ranges
             PROVE  IF 0 \in Held(n, r)
                    THEN /\ self_offsets[n][r] \in Held(n, r)
                         /\ 0 .. self_offsets[n][r] \subseteq Held(n, r)
                         /\ self_offsets[n][r] + 1 \notin Held(n, r)
                    ELSE self_offsets[n][r] = NoOffset
  BY <1>0
<1> USE DEF Held
<1> DEFINE held == Held(n, r)
           offset == self_offsets[n][r]
<1>1. SingleBlobSize \in Nat \ {0} /\ r \in Nat
      /\ offset \in NoOffset .. SingleBlobSize - 1 /\ offset \in Int
  BY RangesAssumption, IdsByRange DEF RequestsInv, StoreSound, NoOffset
<1>2. PrefixOf(DOMAIN transactions[n], r, offset)
  BY DEF RequestsInv, StoreSound
<1>3. \A i \in DOMAIN transactions[n] : i \in Nat
  BY IssuedParts DEF RequestsInv, StoreSound, IsTransaction, MembershipInv,
                     MembershipTypeOK
<1>4. ASSUME NEW o \in held
      PROVE  o \in 0 .. SingleBlobSize - 1 /\ IdFrom(r, o) \in DOMAIN transactions[n]
  <2>1. PICK i \in DOMAIN transactions[n] : RangeFromId(i) = r /\ OffsetFromId(i) = o
    OBVIOUS
  <2>. QED BY <1>3, <2>1, IdSplit
<1>5. ASSUME NEW o \in 0 .. SingleBlobSize - 1, IdFrom(r, o) \in DOMAIN transactions[n]
      PROVE  o \in held
  BY <1>1, <1>5, IdJoin
<1>6. CASE 0 \in held
  <2>1. IdFrom(r, 0) \in DOMAIN transactions[n]
    BY <1>4, <1>6
  <2>2. /\ offset >= 0 /\ IdFrom(r, offset + 1) \notin DOMAIN transactions[n]
        /\ \A i \in 0 .. offset : IdFrom(r, i) \in DOMAIN transactions[n]
    BY <1>2, <2>1 DEF PrefixOf
  <2>3. \A i \in 0 .. offset : i \in 0 .. SingleBlobSize - 1
    BY <1>1
  <2>4. 0 .. offset \subseteq held /\ offset \in 0 .. offset
    BY <1>1, <1>5, <2>2, <2>3
  <2>5. offset + 1 \notin held
    BY <1>4, <2>2
  <2>. QED BY <1>6, <2>4, <2>5
<1>7. CASE 0 \notin held
  <2>1. IdFrom(r, 0) \notin DOMAIN transactions[n]
    BY <1>1, <1>5, <1>7
  <2>. QED BY <1>2, <1>7, <2>1 DEF PrefixOf
<1>. QED BY <1>6, <1>7

\* The offset of a range is the end of the prefix of that range, for any blob
\* size: the scan over full ids never runs into the next range.
THEOREM OffsetsStayInRange == Spec => []OffsetsInRange
BY OffsetsFromInv, RequestsInvariant, PTL

\* What is Pending or Finished on a node is committed, and what is Finished was
\* answered by a runtime, copies from other nodes included.
THEOREM ProgressStaysReal == Spec => []ProgressIsReal
BY RequestsInvariant, PTL DEF RequestsInv

=============================================================================
