----------------------------- MODULE MCRequests ------------------------------
EXTENDS Requests, TLC

CONSTANTS first, second, again

\* again is first after a restart: the same KEY_RANGE from the start.
MCRangeOf == (first :> 0) @@ (second :> 1) @@ (again :> 0)

NoRequests == [x \in Gateways |-> 0]
NoUptime == [n \in Nodes |-> 0]

\* Two nodes that dial each other and lose connections.
MutualDials ==
    [nodes |-> {1, 2}, up |-> {}, dials |-> {<<1, 2>>, <<2, 1>>},
     breaks |-> 2, crashes |-> 0, uptime |-> NoUptime, quorum |-> 2,
     requests |-> NoRequests, misrouted |-> {}]

\* Three connected nodes, one of which started later and watches etcd later; two
\* may die.
RingOfThree(young, breaks) ==
    [MutualDials EXCEPT !.nodes = {1, 2, 3}, !.dials = {}, !.breaks = breaks,
                        !.up = {<<1, 2>>, <<1, 3>>, <<2, 3>>}, !.crashes = 2,
                        !.uptime = [n \in Nodes |-> IF n = young THEN 0 ELSE 2]]

\* Two requests to a gateway that dials one node, before or after that.
OneNodeDialled ==
    [MutualDials EXCEPT !.up = {<<1, 2>>}, !.dials = {<<first, 1>>},
                        !.breaks = 0, !.requests = [NoRequests EXCEPT ![first] = 2]]

\* Two requests to a gateway with one node, or already two.
TwoRequests ==
    [OneNodeDialled EXCEPT !.up = {<<1, 2>>, <<first, 1>>}, !.dials = {<<first, 2>>}]

\* One request, to a quorum of one, with connections that break.
BrokenRequest ==
    [OneNodeDialled EXCEPT !.dials = {<<first, 1>>, <<first, 2>>}, !.breaks = 1,
                           !.quorum = 1, !.requests = [NoRequests EXCEPT ![first] = 1]]

\* A request for a queue that does not exist.
MisroutedRequest == [BrokenRequest EXCEPT !.breaks = 0, !.misrouted = {1}]

\* Two gateways with neighbouring ranges, the first of which is used up.
UsedUp ==
    [TwoRequests EXCEPT !.nodes = {1}, !.quorum = 1, !.dials = {},
                        !.up = {<<first, 1>>, <<second, 1>>},
                        !.requests = (first :> 3) @@ (second :> 1) @@ NoRequests]

\* Two gateways and a quorum of one: a node may get an epoch before its
\* transactions, panic, and be asked for what the other one lacks.
HastyQuorum ==
    [TwoRequests EXCEPT !.quorum = 1, !.dials = {},
                        !.up = {<<1, 2>>, <<first, 1>>, <<second, 2>>},
                        !.requests = (first :> 1) @@ (second :> 1) @@ NoRequests]

\* A gateway that starts again with the same range.
Restarted ==
    [OneNodeDialled EXCEPT !.dials = {<<first, 1>>, <<again, 2>>},
                           !.requests = (first :> 1) @@ (again :> 1) @@ NoRequests]

MCSetups == {MutualDials, RingOfThree(1, 1), RingOfThree(3, 0),
             OneNodeDialled, TwoRequests, BrokenRequest, MisroutedRequest, UsedUp,
             HastyQuorum, Restarted}

=============================================================================
