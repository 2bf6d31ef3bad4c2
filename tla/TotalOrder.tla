------------------------------ MODULE TotalOrder ------------------------------
(***************************************************************************)
(* What the global queue promises: one append-only sequence of batches, in *)
(* which no transaction occurs twice, and nodes that each observe it from  *)
(* the beginning, batch by batch, at their own pace.                       *)
(***************************************************************************)
EXTENDS Naturals, Sequences

CONSTANTS Nodes, Transactions

VARIABLES
    log,        \* the agreed sequence of batches
    observed    \* what each node has seen of it, oldest first

TotalOrderInit ==
    /\ log = <<>>
    /\ observed = [n \in Nodes |-> <<>>]

\* A batch of transactions that were not ordered before joins the sequence.
Order(batch) ==
    /\ \A i \in 1 .. Len(log) : log[i] \cap batch = {}
    /\ log' = Append(log, batch)
    /\ UNCHANGED observed

\* A node observes the next batch.
Observe(n) ==
    /\ Len(observed[n]) < Len(log)
    /\ observed' = [observed EXCEPT
                      ![n] = Append(observed[n], log[Len(observed[n]) + 1])]
    /\ UNCHANGED log

TotalOrderNext ==
    \/ \E batch \in SUBSET Transactions : Order(batch)
    \/ \E n \in Nodes : Observe(n)

TotalOrderSpec == TotalOrderInit /\ [][TotalOrderNext]_<<log, observed>>

=============================================================================
