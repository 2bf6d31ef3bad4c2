----------------------------- MODULE WaitRegistry -----------------------------
(***************************************************************************)
(* The registry of fibers that wait in a select                            *)
(* (runtime/src/wait_registry.rs): per source an intrusive doubly linked   *)
(* list whose nodes live in a slab, and a slab of registrations that know  *)
(* their nodes.  Slab keys are reused, so every link that outlives its     *)
(* node would lead to somebody else's.  What an arm binds and where it     *)
(* resumes is abstracted to the position of the arm in its select.         *)
(***************************************************************************)
EXTENDS Integers, FiniteSets, SequencesExt

CONSTANTS
    Fibers,     \* the fibers that may wait
    Keys,       \* WaitKeys: queues and futures
    MaxArms,    \* bound: arms of one select
    MaxNodes    \* bound: arms of all selects

ASSUME WaitersAssumption ==
    IsFiniteSet(Fibers) /\ MaxArms \in Nat /\ MaxNodes \in Nat

VARIABLES
    per_key,    \* WaitRegistry::per_key; a missing entry has no head and tail
    nodes,      \* WaitRegistry::nodes
    regs,       \* WaitRegistry::regs
    outcome,    \* what the last call returned
    panicked    \* an expect() for data consistency has failed

registryVars == <<per_key, nodes, regs, outcome, panicked>>

NoNode == -1
EmptyList == [head |-> NoNode, tail |-> NoNode]
Nobody == [fiber |-> "nobody", arm |-> 0]

\* The lists of arms a select may wait with.
ArmLists == UNION {[1 .. n -> Keys] : n \in 0 .. MaxArms}

-----------------------------------------------------------------------------
(***************************************************************************)
(* The slab: values under small keys.  A removed key is the next to be     *)
(* handed out again.                                                       *)
(***************************************************************************)
EmptySlab == [entries |-> <<>>, free |-> <<>>]

VacantKey(slab) ==
    IF slab.free = <<>> THEN Cardinality(DOMAIN slab.entries)
                        ELSE Head(slab.free)

Insert(slab, value) ==
    LET key == VacantKey(slab)
    IN [entries |-> [k \in DOMAIN slab.entries \cup {key} |->
                        IF k = key THEN value ELSE slab.entries[k]],
        free |-> IF slab.free = <<>> THEN <<>> ELSE Tail(slab.free)]

TryRemove(slab, key) ==
    IF key \in DOMAIN slab.entries
    THEN [entries |-> [k \in DOMAIN slab.entries \ {key} |-> slab.entries[k]],
          free |-> <<key>> \o slab.free]
    ELSE slab

\* get_mut followed by an assignment to one field
SetPrev(slab, key, v) ==
    IF key \in DOMAIN slab.entries
    THEN [slab EXCEPT !.entries[key].prev = v] ELSE slab

SetNext(slab, key, v) ==
    IF key \in DOMAIN slab.entries
    THEN [slab EXCEPT !.entries[key].next = v] ELSE slab

-----------------------------------------------------------------------------
(***************************************************************************)
(* The lists.  A store is a pair of per_key and nodes.                     *)
(***************************************************************************)

\* Mutant of ListPushBack: the new waiter goes to the front.
ListPushFront(store, key, id) ==
    LET head == store.per_key[key].head
    IN IF head = NoNode
       THEN [store EXCEPT !.per_key[key] = [head |-> id, tail |-> id]]
       ELSE [per_key |-> [store.per_key EXCEPT ![key].head = id],
             nodes |-> SetNext(SetPrev(store.nodes, head, id), id, head)]

\* list_push_back
ListPushBack(store, key, id) ==
    LET tail == store.per_key[key].tail
    IN IF tail = NoNode
       THEN [store EXCEPT !.per_key[key] = [head |-> id, tail |-> id]]
       ELSE [per_key |-> [store.per_key EXCEPT ![key].tail = id],
             nodes |-> SetPrev(SetNext(store.nodes, tail, id), id, tail)]

\* list_unlink
ListUnlink(store, key, id) ==
    IF id \notin DOMAIN store.nodes.entries THEN store
    ELSE LET prev == store.nodes.entries[id].prev
             next == store.nodes.entries[id].next
             list == store.per_key[key]
         IN [per_key |-> [store.per_key EXCEPT ![key] =
                [head |-> IF list.head = id THEN next ELSE list.head,
                 tail |-> IF list.tail = id THEN prev ELSE list.tail]],
             nodes |-> SetPrev(SetNext(TryRemove(store.nodes, id), prev, next),
                               next, prev)]

\* Mutant of UnlinkArms: sibling arms stay in their lists.
UnlinkFirstArm(store, arms) ==
    IF arms = <<>> THEN store
    ELSE ListUnlink(store, arms[1].key, arms[1].node_id)

\* The loop over the arms of a removed registration, turn by turn.
UnlinkTurns(store, arms) ==
    LET after[i \in 0 .. Len(arms)] ==
          IF i = 0 THEN store
          ELSE ListUnlink(after[i - 1], arms[i].key, arms[i].node_id)
    IN after
UnlinkArms(store, arms) == UnlinkTurns(store, arms)[Len(arms)]

\* One turn of the loop in register_select: a node and its arm handle.
AddArm(built, key, reg_id, fiber) ==
    LET id == VacantKey(built.store.nodes)
        node == [prev |-> NoNode, next |-> NoNode,
                 reg_id |-> reg_id, fiber_id |-> fiber]
        inserted == [built.store EXCEPT !.nodes = Insert(@, node)]
    IN [store |-> ListPushBack(inserted, key, id),
        arms |-> Append(built.arms, [key |-> key, node_id |-> id])]

\* The loop over the sources of a select, turn by turn.
AddTurns(store, keys, reg_id, fiber) ==
    LET after[i \in 0 .. Len(keys)] ==
          IF i = 0 THEN [store |-> store, arms |-> <<>>]
          ELSE AddArm(after[i - 1], keys[i], reg_id, fiber)
    IN after
AddArms(store, keys, reg_id, fiber) ==
    AddTurns(store, keys, reg_id, fiber)[Len(keys)]

-----------------------------------------------------------------------------
Store == [per_key |-> per_key, nodes |-> nodes]

WaitRegistryInit ==
    /\ per_key = [k \in Keys |-> EmptyList]
    /\ nodes = EmptySlab
    /\ regs = EmptySlab
    /\ outcome = Nobody
    /\ panicked = FALSE

\* register_select.  The fiber of a select is parked, so it does not come again
\* before it is woken.
RegisterSelect(fiber, keys) ==
    /\ ~ panicked
    /\ \A r \in DOMAIN regs.entries : regs.entries[r].fiber_id # fiber
    /\ Cardinality(DOMAIN nodes.entries) + Len(keys) <= MaxNodes
    /\ LET reg_id == VacantKey(regs)
           built == AddArms(Store, keys, reg_id, fiber)
       IN /\ per_key' = built.store.per_key
          /\ nodes' = built.store.nodes
          /\ regs' = Insert(regs, [fiber_id |-> fiber, arms |-> built.arms])
    /\ outcome' = Nobody
    /\ UNCHANGED panicked

\* wake_one, nobody waits for the key
WakeNobody(key) ==
    /\ ~ panicked
    /\ per_key[key].head = NoNode
    /\ outcome' = Nobody
    /\ UNCHANGED <<per_key, nodes, regs, panicked>>

\* The three lookups of wake_one that must not fail.
Consistent(head) ==
    /\ head \in DOMAIN nodes.entries
    /\ nodes.entries[head].reg_id \in DOMAIN regs.entries
    /\ \E i \in DOMAIN regs.entries[nodes.entries[head].reg_id].arms :
          regs.entries[nodes.entries[head].reg_id].arms[i].node_id = head

\* wake_one, the first waiter wins and its other arms are withdrawn
WakeOne(key) ==
    /\ ~ panicked
    /\ per_key[key].head # NoNode
    /\ LET head == per_key[key].head
       IN \/ /\ Consistent(head)
             /\ LET node == nodes.entries[head]
                    arms == regs.entries[node.reg_id].arms
                    left == UnlinkArms(Store, arms)
                IN /\ per_key' = left.per_key
                   /\ nodes' = left.nodes
                   /\ regs' = TryRemove(regs, node.reg_id)
                   /\ outcome' = [fiber |-> node.fiber_id,
                                  arm |-> CHOOSE i \in DOMAIN arms :
                                             arms[i].node_id = head]
             /\ UNCHANGED panicked
          \/ /\ ~ Consistent(head)
             /\ panicked' = TRUE
             /\ UNCHANGED <<per_key, nodes, regs, outcome>>

\* cancel_by_registered_select_id
CancelByRegisteredSelectId(id) ==
    /\ ~ panicked
    /\ id \in DOMAIN regs.entries
    /\ LET left == UnlinkArms(Store, regs.entries[id].arms)
       IN /\ per_key' = left.per_key
          /\ nodes' = left.nodes
    /\ regs' = TryRemove(regs, id)
    /\ outcome' = Nobody
    /\ UNCHANGED panicked

WaitRegistryNext ==
    \/ \E f \in Fibers, keys \in ArmLists : RegisterSelect(f, keys)
    \/ \E k \in Keys : WakeNobody(k) \/ WakeOne(k)
    \/ \E id \in DOMAIN regs.entries : CancelByRegisteredSelectId(id)

WaitRegistrySpec == WaitRegistryInit /\ [][WaitRegistryNext]_registryVars

-----------------------------------------------------------------------------
(***************************************************************************)
(* Properties.                                                             *)
(***************************************************************************)

\* Keys are handed out again: at most one registration per fiber and MaxNodes
\* nodes are ever needed.
RegIds == 0 .. Cardinality(Fibers) - 1
NodeIds == 0 .. MaxNodes - 1
NodeRef == NodeIds \cup {NoNode}

ArmsOf(r) == regs.entries[r].arms

RegistryTypeOK ==
    /\ per_key \in [Keys -> [head : NodeRef, tail : NodeRef]]
    /\ DOMAIN nodes.entries \subseteq NodeIds
    /\ \A n \in DOMAIN nodes.entries :
          nodes.entries[n] \in [prev : NodeRef, next : NodeRef,
                                reg_id : RegIds, fiber_id : Fibers]
    /\ DOMAIN regs.entries \subseteq RegIds
    /\ \A r \in DOMAIN regs.entries :
          /\ regs.entries[r].fiber_id \in Fibers
          /\ ArmsOf(r) \in Seq([key : Keys, node_id : NodeIds])
    /\ panicked \in BOOLEAN

\* The nodes of a list, from its head along the next links, and no further than
\* there are nodes, should the links run in a circle.
Following ==
    [n \in NodeRef |-> IF n \in DOMAIN nodes.entries
                       THEN nodes.entries[n].next ELSE NoNode]
Walk(key) ==
    LET node[i \in 1 .. MaxNodes] ==
          IF i = 1 THEN per_key[key].head ELSE Following[node[i - 1]]
    IN node
Chain(key) ==
    [i \in 1 .. Cardinality({j \in 1 .. MaxNodes : Walk(key)[j] # NoNode}) |->
        Walk(key)[i]]

\* Nodes c with these list ends are a list that is linked in both directions.
WellLinked(ends, entries, c) ==
    /\ IsInjective(c)
    /\ ToSet(c) \subseteq DOMAIN entries
    /\ ends.head = (IF c = <<>> THEN NoNode ELSE c[1])
    /\ ends.tail = (IF c = <<>> THEN NoNode ELSE c[Len(c)])
    /\ \A i \in 1 .. Len(c) :
          /\ entries[c[i]].prev = IF i = 1 THEN NoNode ELSE c[i - 1]
          /\ entries[c[i]].next = IF i = Len(c) THEN NoNode ELSE c[i + 1]

\* The nodes that live selects have for a key.
NodesFor(key) ==
    UNION {{ArmsOf(r)[i].node_id : i \in {j \in DOMAIN ArmsOf(r) :
                                             ArmsOf(r)[j].key = key}} :
              r \in DOMAIN regs.entries}

\* Every list is well linked, and its nodes are those of the arms of live
\* selects, whatever order arms were registered, woken and cancelled in and slab
\* keys reused.
ListsWellLinked ==
    \A k \in Keys : /\ WellLinked(per_key[k], nodes.entries, Chain(k))
                    /\ ToSet(Chain(k)) = NodesFor(k)

\* Every node is held by one arm, of the select and the fiber it names.
NodesOwned ==
    /\ \A r \in DOMAIN regs.entries :
          /\ \A i, j \in DOMAIN ArmsOf(r) :
                ArmsOf(r)[i].node_id = ArmsOf(r)[j].node_id => i = j
          /\ \A i \in DOMAIN ArmsOf(r) :
                LET id == ArmsOf(r)[i].node_id
                IN /\ id \in DOMAIN nodes.entries
                   /\ nodes.entries[id].reg_id = r
                   /\ nodes.entries[id].fiber_id = regs.entries[r].fiber_id
    /\ \A n \in DOMAIN nodes.entries :
          /\ nodes.entries[n].reg_id \in DOMAIN regs.entries
          /\ \E i \in DOMAIN ArmsOf(nodes.entries[n].reg_id) :
                ArmsOf(nodes.entries[n].reg_id)[i].node_id = n

\* No expect() on the registry's consistency fails.
NeverInconsistent == ~ panicked

\* The registry is sound: its lists are well linked, hold exactly the arms of live
\* selects, and no lookup in register, wake or cancel misses.
RegistrySound ==
    RegistryTypeOK /\ ListsWellLinked /\ NodesOwned /\ NeverInconsistent

\* The FIFO entry of a node.
Waiter ==
    [n \in DOMAIN nodes.entries |->
        [select |-> nodes.entries[n].reg_id, fiber |-> nodes.entries[n].fiber_id,
         arm |-> CHOOSE i \in DOMAIN ArmsOf(nodes.entries[n].reg_id) :
                    ArmsOf(nodes.entries[n].reg_id)[i].node_id = n]]

\* Everybody who waits for a key, oldest first.
Waiters(key) == [i \in DOMAIN Chain(key) |-> Waiter[Chain(key)[i]]]

Abstract ==
    INSTANCE WaitQueues
    WITH SelectIds <- RegIds,
         waiters <- [k \in Keys |-> Waiters(k)],
         outcome <- outcome

\* The linked lists are FIFOs: who waited longest for a source is woken first,
\* and a woken or cancelled select leaves no arm behind.
ImplementsWaitQueues == Abstract!WaitQueuesSpec

=============================================================================
