------------------------------ MODULE WaitQueues ------------------------------
(***************************************************************************)
(* What the wait registry promises: every queue or future has a FIFO of    *)
(* the selects that wait for it; waking a source takes its oldest waiter   *)
(* and withdraws the other arms of that waiter's select.                   *)
(***************************************************************************)
EXTENDS Naturals, FiniteSets, SequencesExt, Positions

CONSTANTS
    Fibers,     \* the fibers that may wait
    Keys,       \* the queues and futures to wait for
    SelectIds,  \* identities of selects in flight
    MaxArms     \* bound: arms of one select

VARIABLES
    waiters,    \* for each key, the waiting arms, oldest first
    outcome     \* what the last call returned

Nobody == [fiber |-> "nobody", arm |-> 0]

WaitQueuesInit ==
    /\ waiters = [k \in Keys |-> <<>>]
    /\ outcome = Nobody

\* The lists of arms a select may wait with.
ArmLists == UNION {[1 .. n -> Keys] : n \in 0 .. MaxArms}

\* The entries that the arms of a select add to the FIFO of a key.
EntriesFor(key, id, fiber, arms) ==
    At([i \in DOMAIN arms |-> [select |-> id, fiber |-> fiber, arm |-> i]],
       {i \in DOMAIN arms : arms[i] = key})

\* The ids that no waiting select has.
Vacant ==
    {id \in SelectIds : \A k \in Keys : \A w \in ToSet(waiters[k]) : w.select # id}

Register(id, fiber, arms) ==
    /\ outcome' = Nobody
    /\ waiters' = [k \in Keys |->
                      waiters[k] \o EntriesFor(k, id, fiber, arms)]

\* What is left of a FIFO when a select is withdrawn.
Others(list, id) == At(list, {i \in DOMAIN list : list[i].select # id})

Without(id) == [k \in Keys |-> Others(waiters[k], id)]

Wake(key) ==
    \/ /\ waiters[key] = <<>>
       /\ outcome' = Nobody
       /\ UNCHANGED waiters
    \/ /\ waiters[key] # <<>>
       /\ LET first == Head(waiters[key])
          IN /\ outcome' = [fiber |-> first.fiber, arm |-> first.arm]
             /\ waiters' = Without(first.select)

Cancel(id) ==
    /\ outcome' = Nobody
    /\ waiters' = Without(id)

WaitQueuesNext ==
    \/ \E k \in Keys : Wake(k)
    \/ \E id \in SelectIds : Cancel(id)
    \/ \E id \in Vacant, f \in Fibers, arms \in ArmLists :
          Register(id, f, arms)

WaitQueuesSpec == WaitQueuesInit /\ [][WaitQueuesNext]_<<waiters, outcome>>

=============================================================================
