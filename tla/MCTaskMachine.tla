----------------------------- MODULE MCTaskMachine -----------------------------
EXTENDS TaskMachine

Req(kind, n) == [kind |-> kind, n |-> n]

Long == {Req("delay", 7), Req("divisors", 4), Req("fibonacci", 3), Req("factorial", 0),
         Req("factorial", 2)}

\* Beyond MaxU64: the end of a delay, ten times a divisor, 7!, and what is added
\* after the 17th Fibonacci number.
Large == {Req("delay", 2047), Req("divisors", 211)}
Deep == {Req("factorial", 7), Req("fibonacci", 18)}

MCRequests ==
    {1 :> Long \cup Large \cup {Req("send", 0), Req("receive", 0), Req("get_user", 1)}
     @@ 2 :> {Req("receive", 0), Req("get_user", 2)}
     @@ 3 :> {Req("send", 0), Req("get_user", 1)},
     1 :> Deep @@ 2 :> {Req("get_user", 1)} @@ 3 :> {}}
=============================================================================
