-------------------------- MODULE TaskMachineProofs --------------------------
(***************************************************************************)
(* Proofs about TaskMachine, for any clients, requests, users and largest  *)
(* u64: nothing but an overflow stops the executor, stacks keep their      *)
(* shape however deep the recursion is, and no task is forgotten or        *)
(* resumed twice.  TaskInv is inductive.                                   *)
(***************************************************************************)
EXTENDS TaskMachine, PositionsProofs

(***************************************************************************)
(* The shape of a stack, for each state a scheduled task may be in.        *)
(***************************************************************************)
\* What u64 leaves of a number is a number.
LEMMA CutIsNat ==
    ASSUME NEW x \in Nat
    PROVE  U64(x) \in Nat
<1>1. MaxU64 \in Nat
  BY RequestsAssumption
<1>. QED BY <1>1 DEF U64

Tags == {"SenderInputMessage", "AwaiterInputMessage", "DelayInputMs", "DelayInputMessage",
         "RequesterGetUserInput", "RequesterGotUserResponse", "FactorialInput",
         "FactorialArgument", "FactorialReturnValue"}
Entry == [e : {"State", "Retrn"}, s : TaskStates] \cup [e : {"Value"}, s : Tags, v : Nat]

Tagged(entry, tag) == entry.e = "Value" /\ entry.s = tag

\* State s with no locals, with one and with two, the upper one last.
Bare(stk, s) == Len(stk) = 1 /\ stk[1] = State(s)
OverOne(stk, s, tag) == Len(stk) = 2 /\ Tagged(stk[1], tag) /\ stk[2] = State(s)
OverTwo(stk, s, low, high) ==
    Len(stk) = 3 /\ Tagged(stk[1], low) /\ Tagged(stk[2], high) /\ stk[3] = State(s)

\* The frames under a running call of factorial: the entry, and k calls that
\* wait for the result of the next one.
Frames(stk, k) ==
    /\ Len(stk) >= 2 * k + 2
    /\ Tagged(stk[1], "FactorialInput") /\ stk[2] = Retrn("FactorialDone")
    /\ \A j \in 1 .. k :
          /\ Tagged(stk[2 * j + 1], "FactorialArgument")
          /\ stk[2 * j + 2] = Retrn("FactorialRecursionPostRecursiveCall")

\* A call that runs over k others.
CallStates == {"FactorialRecursiveCall", "FactorialRecursionPostWrite",
               "FactorialRecursionPostSleep"}
Calling(stk, k, s) ==
    /\ Frames(stk, k) /\ Len(stk) = 2 * k + 4
    /\ Tagged(stk[2 * k + 3], "FactorialArgument") /\ stk[2 * k + 4] = State(s)

\* A call that has got its result.
Returning(stk, k) ==
    /\ Frames(stk, k) /\ Len(stk) = 2 * k + 5
    /\ Tagged(stk[2 * k + 3], "FactorialArgument")
    /\ Tagged(stk[2 * k + 4], "FactorialReturnValue")
    /\ stk[2 * k + 5] = State("FactorialRecursionPostRecursiveCall")

FactorialReady(stk) ==
    \/ OverOne(stk, "FactorialEntry", "FactorialInput")
    \/ \E k \in Nat, s \in CallStates : Calling(stk, k, s)
    \/ \E k \in Nat : Returning(stk, k)
    \/ OverTwo(stk, "FactorialDone", "FactorialInput", "FactorialReturnValue")

MessageReady(stk) ==
    \/ OverOne(stk, "WaiterWaitMessageAwaiting", "AwaiterInputMessage")
    \/ OverTwo(stk, "DelayedMessageTaskBegin", "DelayInputMs", "DelayInputMessage")
    \/ OverTwo(stk, "DelayedMessageTaskExecute", "DelayInputMs", "DelayInputMessage")
    \/ OverOne(stk, "RequesterGetUserGot", "RequesterGotUserResponse")

DivisorsHeap == [h : {"Divisors"}, n : Nat, i : Nat]
FibonacciHeap ==
    [h : {"Fibonacci"}, n : Nat, index : Nat, a : Nat, b : Nat, delay_ms : Nat]

DivisorsReady(stk, heap) ==
    /\ heap \in DivisorsHeap
    /\ \E s \in DivisorsStates :
          Bare(stk, s) /\ (s = "DivisorsPrintAndMoveOn" => heap.i > 0)

FibonacciReady(stk, heap) ==
    heap \in FibonacciHeap /\ \E s \in FibonacciStates : Bare(stk, s)

\* Done, over locals nobody will read and no return point.
ValuesBelow(stk) == \A i \in 1 .. Len(stk) - 1 : stk[i].e = "Value"
CompletedReady(stk) ==
    stk # <<>> /\ stk[Len(stk)] = State("Completed") /\ ValuesBelow(stk)
SendReady(stk) == OverOne(stk, "SenderSendMessage", "SenderInputMessage")
AskReady(stk) == OverOne(stk, "RequesterGetUserRequest", "RequesterGetUserInput")

\* A stack from which the next step of the task goes on by itself, and any that a
\* scheduled task may have.
GoingOn(stk, heap) ==
    \/ FactorialReady(stk) \/ MessageReady(stk)
    \/ DivisorsReady(stk, heap) \/ FibonacciReady(stk, heap)
Ready(stk, heap) ==
    GoingOn(stk, heap) \/ CompletedReady(stk) \/ SendReady(stk) \/ AskReady(stk)

-----------------------------------------------------------------------------
(***************************************************************************)
(* The inductive invariant.                                                *)
(***************************************************************************)
StorageHeap == [h |-> "UsersStorage", store |-> Users]
Heaps == {EmptyHeap, StorageHeap} \cup DivisorsHeap \cup FibonacciHeap
Message == [user : Nat, from : Nat]
Tasks == [writer : Clients \cup {0}, stack : Seq(Entry), heap : Heaps,
          in_queue : Seq(Message)]

OpsFor(ops, id) == {op \in DOMAIN ops : op.id = id}
Once(ops, id) == \E op \in DOMAIN ops : OpsFor(ops, id) = {op} /\ ops[op] = 1
QueuedIn(q, id) == {i \in DOMAIN q : q[i].from = id}
QueuedOnce(q, id) == \E i \in DOMAIN q : QueuedIn(q, id) = {i}

\* A task is in one place, with a stack that fits the place: one operation waits
\* for it, or one request of it is queued at the storage, or it is the awaiter.
Settled(task, ops, q, w, id) ==
    \/ /\ Once(ops, id) /\ QueuedIn(q, id) = {} /\ w # id
       /\ Ready(task.stack, task.heap)
    \/ /\ OpsFor(ops, id) = {} /\ QueuedOnce(q, id) /\ w # id
       /\ task.stack = <<>>
    \/ /\ OpsFor(ops, id) = {} /\ QueuedIn(q, id) = {} /\ w = id
       /\ task.stack = <<>>

\* The pending operations are about active tasks.
OpOK(op, ids) ==
    op = Operation(op.ts, op.id) /\ op.ts \in Nat /\ op.id \in ids
OpsOK(ops, ids) == IsABag(ops) /\ \A op \in DOMAIN ops : OpOK(op, ids)

\* The storage is idle between two steps, is asked by active tasks, and has an
\* operation to come if it is asked.
StorageOK(task, ops, ids) ==
    /\ task.stack = <<State("Idle")>> /\ task.heap = StorageHeap
    /\ \A i \in DOMAIN task.in_queue : task.in_queue[i].from \in ids \ {StorageId}
    /\ task.in_queue # <<>> => OpsFor(ops, StorageId) # {}

Machine(n, tasks, ops, w) ==
    [next_task_id |-> n, active_tasks |-> tasks, pending_operations |-> ops,
     awaiter |-> w, daemon_user_storage |-> StorageId]

MachineOK(n, tasks, ops, w) ==
    /\ n \in Nat /\ DOMAIN tasks \subseteq 1 .. n - 1
    /\ tasks \in [DOMAIN tasks -> Tasks]
    /\ StorageId \in DOMAIN tasks
    /\ OpsOK(ops, DOMAIN tasks)
    /\ StorageOK(tasks[StorageId], ops, DOMAIN tasks)
    /\ w \in {0} \cup (DOMAIN tasks \ {StorageId})
    /\ \A id \in DOMAIN tasks \ {StorageId} :
          Settled(tasks[id], ops, tasks[StorageId].in_queue, w, id)

FsmOK(m) ==
    /\ m = Machine(m.next_task_id, m.active_tasks, m.pending_operations, m.awaiter)
    /\ MachineOK(m.next_task_id, m.active_tasks, m.pending_operations, m.awaiter)

\* A client waits for the mutex with one of the requests it may make.
ConnOK ==
    /\ conn \in [Clients -> [phase : {"new", "locking", "scheduled", "refused"},
                             req : Request \cup {NoRequest}, ts : Nat, id : Nat]]
    /\ \A c \in Clients : conn[c].phase = "locking" => conn[c].req \in Request

TaskInv ==
    /\ FsmOK(fsm) /\ ConnOK
    /\ timer \in 0 .. MaxU64 /\ panicked \in {"no", "overflow"}

-----------------------------------------------------------------------------
(***************************************************************************)
(* Pending operations and active tasks.                                    *)
(***************************************************************************)
Added(ops, op) == ops (+) SetToBag({op})
Popped(ops, op) == ops (-) SetToBag({op})
Out(tasks, id) == Restrict(tasks, DOMAIN tasks \ {id})

Kept(ops, new, o) == o # new => Added(ops, new)[o] = ops[o]

\* An operation is pushed onto the heap of pending operations.
LEMMA AddedIs ==
    ASSUME NEW ops, NEW ids, OpsOK(ops, ids), NEW new, OpOK(new, ids)
    PROVE  /\ OpsOK(Added(ops, new), ids)
           /\ DOMAIN Added(ops, new) = DOMAIN ops \cup {new}
           /\ \A o \in DOMAIN ops : Kept(ops, new, o)
           /\ new \notin DOMAIN ops => Added(ops, new)[new] = 1
<1> DEFINE B == Added(ops, new)
<1>1. IsABag(ops) /\ \A o \in DOMAIN ops : OpOK(o, ids)
  BY DEF OpsOK
<1>4. DOMAIN B = DOMAIN ops \cup {new}
  BY DEF Added, SetToBag, (+)
<1>5. \A o \in DOMAIN B :
         B[o] = (IF o \in DOMAIN ops THEN ops[o] ELSE 0)
                + (IF o = new THEN 1 ELSE 0)
  BY <1>4 DEF Added, SetToBag, (+)
<1>6. B = [o \in DOMAIN B |-> B[o]]
  BY <1>4 DEF Added, SetToBag, (+)
<1>. HIDE DEF B
<1>7. \A o \in DOMAIN B : B[o] \in {n \in Nat : n > 0}
  BY <1>1, <1>4, <1>5 DEF IsABag
<1>8. IsABag(B)
  BY <1>6, <1>7 DEF IsABag
<1>9. \A o \in DOMAIN ops : o # new => B[o] = ops[o]
  BY <1>1, <1>4, <1>5 DEF IsABag
<1>10. new \notin DOMAIN ops => B[new] = 1
  BY <1>4, <1>5
<1>11. OpsOK(B, ids)
  BY <1>1, <1>4, <1>8 DEF OpsOK
<1>. QED BY <1>4, <1>9, <1>10, <1>11 DEF B, Kept

\* An operation is popped: one copy of it is gone.
LEMMA RemovedIs ==
    ASSUME NEW ops, NEW ids, OpsOK(ops, ids), NEW op \in DOMAIN ops
    PROVE  /\ OpsOK(Popped(ops, op), ids)
           /\ DOMAIN Popped(ops, op) =
                 IF ops[op] = 1 THEN DOMAIN ops \ {op} ELSE DOMAIN ops
           /\ \A o \in DOMAIN ops : o # op => Popped(ops, op)[o] = ops[o]
<1> DEFINE B == Popped(ops, op)
<1>1. ops \in [DOMAIN ops -> {n \in Nat : n > 0}]
  BY DEF OpsOK, IsABag
<1>2. B = [o \in {d \in DOMAIN ops : (IF d = op THEN ops[d] - 1 ELSE ops[d]) > 0} |->
              IF o = op THEN ops[o] - 1 ELSE ops[o]]
  BY <1>1 DEF Popped, SetToBag, (-)
<1> HIDE DEF B
<1>3. DOMAIN B = IF ops[op] = 1 THEN DOMAIN ops \ {op} ELSE DOMAIN ops
  BY <1>1, <1>2
<1>4. \A o \in DOMAIN B : B[o] = IF o = op THEN ops[o] - 1 ELSE ops[o]
  BY <1>2
<1>5. \A o \in DOMAIN B : B[o] \in {n \in Nat : n > 0}
  BY <1>1, <1>2
<1>6. IsABag(B)
  BY <1>2, <1>5 DEF IsABag
<1>7. OpsOK(B, ids)
  BY <1>3, <1>6 DEF OpsOK
<1>. QED BY <1>3, <1>4, <1>7 DEF B

\* A task is not concerned by the operations of others.
LEMMA OthersAdded ==
    ASSUME NEW ops, NEW ids, OpsOK(ops, ids), NEW new, OpOK(new, ids)
    PROVE  \A other : other # new.id =>
              /\ OpsFor(Added(ops, new), other) = OpsFor(ops, other)
              /\ Once(ops, other) => Once(Added(ops, new), other)
<1> DEFINE B == Added(ops, new)
<1>a. DOMAIN B = DOMAIN ops \cup {new}
  BY AddedIs
<1>b. \A o \in DOMAIN ops : o # new => B[o] = ops[o]
  <2>1. \A o \in DOMAIN ops : Kept(ops, new, o)
    BY AddedIs
  <2>. QED BY <2>1 DEF Kept
<1> HIDE DEF B
<1>1. DOMAIN B = DOMAIN ops \cup {new} /\ \A o \in DOMAIN ops : o # new => B[o] = ops[o]
  BY <1>a, <1>b
<1>2. SUFFICES ASSUME NEW other, other # new.id
               PROVE  /\ OpsFor(B, other) = OpsFor(ops, other)
                      /\ Once(ops, other) => Once(B, other)
  BY DEF B
<1>3. OpsFor(B, other) = OpsFor(ops, other)
  BY <1>1, <1>2 DEF OpsFor
<1>4. Once(ops, other) => Once(B, other)
  BY <1>1, <1>2, <1>3 DEF Once, OpsFor
<1>. QED BY <1>3, <1>4

LEMMA OthersRemoved ==
    ASSUME NEW ops, NEW ids, OpsOK(ops, ids), NEW op \in DOMAIN ops,
           NEW other, other # op.id
    PROVE  /\ OpsFor(Popped(ops, op), other) = OpsFor(ops, other)
           /\ Once(ops, other) => Once(Popped(ops, op), other)
<1> DEFINE B == Popped(ops, op)
<1>1. /\ DOMAIN B = IF ops[op] = 1 THEN DOMAIN ops \ {op} ELSE DOMAIN ops
      /\ \A o \in DOMAIN ops : o # op => B[o] = ops[o]
  BY RemovedIs
<1> HIDE DEF B
<1>3. OpsFor(B, other) = OpsFor(ops, other)
  BY <1>1 DEF OpsFor
<1>4. Once(ops, other) => Once(B, other)
  BY <1>1, <1>3 DEF Once, OpsFor
<1>. QED BY <1>3, <1>4 DEF B

\* One operation comes for the task it is added for, and none is left of the only
\* one that is taken.
LEMMA OwnAdded ==
    ASSUME NEW ops, NEW ids, OpsOK(ops, ids), NEW new, OpOK(new, ids)
    PROVE  /\ OpsFor(Added(ops, new), new.id) # {}
           /\ OpsFor(ops, new.id) = {} => Once(Added(ops, new), new.id)
<1> DEFINE B == Added(ops, new)
<1>1. DOMAIN B = DOMAIN ops \cup {new} /\ (new \notin DOMAIN ops => B[new] = 1)
  BY AddedIs
<1> HIDE DEF B
<1>3. /\ OpsFor(B, new.id) # {}
      /\ OpsFor(ops, new.id) = {} => OpsFor(B, new.id) = {new} /\ new \notin DOMAIN ops
  BY <1>1 DEF OpsFor
<1>. QED BY <1>1, <1>3 DEF Once, B

LEMMA OwnRemoved ==
    ASSUME NEW ops, NEW ids, OpsOK(ops, ids), NEW op \in DOMAIN ops,
           Once(ops, op.id)
    PROVE  OpsFor(Popped(ops, op), op.id) = {}
<1>1. PICK o \in DOMAIN ops : OpsFor(ops, op.id) = {o} /\ ops[o] = 1
  BY DEF Once
<1>2. o = op
  BY <1>1 DEF OpsFor
<1>3. DOMAIN Popped(ops, op) = DOMAIN ops \ {op}
  BY <1>1, <1>2, RemovedIs
<1>. QED BY <1>1, <1>2, <1>3 DEF OpsFor

\* A task is inserted into active_tasks, and taken out of it.
LEMMA PutIs ==
    ASSUME NEW tasks, tasks \in [DOMAIN tasks -> Tasks], NEW id, NEW task \in Tasks
    PROVE  /\ Put(tasks, id, task) \in [DOMAIN tasks \cup {id} -> Tasks]
           /\ DOMAIN Put(tasks, id, task) = DOMAIN tasks \cup {id}
           /\ Put(tasks, id, task)[id] = task
           /\ \A i \in DOMAIN tasks : i # id => Put(tasks, id, task)[i] = tasks[i]
BY DEF Put

LEMMA OutIs ==
    ASSUME NEW tasks, tasks \in [DOMAIN tasks -> Tasks], NEW id
    PROVE  /\ Out(tasks, id) \in [DOMAIN tasks \ {id} -> Tasks]
           /\ DOMAIN Out(tasks, id) = DOMAIN tasks \ {id}
           /\ \A i \in DOMAIN tasks : i # id => Out(tasks, id)[i] = tasks[i]
BY DEF Out, Restrict

\* What concerns a task is left alone by a step.
Unmoved(ops, ops2, q, q2, w, w2, id) ==
    /\ OpsFor(ops2, id) = OpsFor(ops, id)
    /\ Once(ops, id) => Once(ops2, id)
    /\ QueuedIn(q, id) = {} => QueuedIn(q2, id) = {}
    /\ QueuedOnce(q, id) => QueuedOnce(q2, id)
    /\ (w2 = id) <=> (w = id)

\* A task stays settled when nothing that concerns it has moved.
LEMMA SettledStays ==
    ASSUME NEW task, NEW ops, NEW ops2, NEW q, NEW q2, NEW w, NEW w2, NEW id,
           Settled(task, ops, q, w, id), Unmoved(ops, ops2, q, q2, w, w2, id)
    PROVE  Settled(task, ops2, q2, w2, id)
BY DEF Settled, Unmoved

\* Operations stay sound when the set of active tasks changes but keeps theirs.
LEMMA OpsOfIds ==
    ASSUME NEW ops, NEW ids, NEW ids2, OpsOK(ops, ids),
           \A op \in DOMAIN ops : op.id \in ids2
    PROVE  OpsOK(ops, ids2)
BY DEF OpsOK, OpOK

\* A popped operation was the only one of its task.
LEMMA PoppedTask ==
    ASSUME NEW n, NEW tasks, NEW ops, NEW w, MachineOK(n, tasks, ops, w),
           NEW op \in DOMAIN ops, op.id # StorageId
    PROVE  /\ op.id \in DOMAIN tasks \ {StorageId} /\ tasks[op.id] \in Tasks
           /\ op.ts \in Nat /\ op = Operation(op.ts, op.id)
           /\ Once(ops, op.id) /\ QueuedIn(tasks[StorageId].in_queue, op.id) = {}
           /\ w # op.id /\ Ready(tasks[op.id].stack, tasks[op.id].heap)
           /\ OpsFor(Popped(ops, op), op.id) = {}
<1>1. OpOK(op, DOMAIN tasks) /\ OpsOK(ops, DOMAIN tasks)
  BY DEF MachineOK, OpsOK
<1>2. op.id \in DOMAIN tasks \ {StorageId}
  BY <1>1 DEF OpOK
<1>3. Settled(tasks[op.id], ops, tasks[StorageId].in_queue, w, op.id)
  BY <1>2 DEF MachineOK
<1>4. OpsFor(ops, op.id) # {}
  BY DEF OpsFor
<1>5. /\ Once(ops, op.id) /\ QueuedIn(tasks[StorageId].in_queue, op.id) = {}
      /\ w # op.id /\ Ready(tasks[op.id].stack, tasks[op.id].heap)
  BY <1>3, <1>4 DEF Settled
<1>6. OpsFor(Popped(ops, op), op.id) = {}
  BY <1>1, <1>5, OwnRemoved
<1>7. tasks[op.id] \in Tasks
  BY <1>2 DEF MachineOK
<1>. QED BY <1>1, <1>2, <1>5, <1>6, <1>7 DEF OpOK

-----------------------------------------------------------------------------
(***************************************************************************)
(* What a step may do to the machine.                                      *)
(***************************************************************************)

\* The task of an operation is gone.
LEMMA TaskGone ==
    ASSUME NEW n, NEW tasks, NEW ops, NEW w, MachineOK(n, tasks, ops, w),
           NEW op \in DOMAIN ops, op.id # StorageId
    PROVE  MachineOK(n, Out(tasks, op.id), Popped(ops, op), w)
<1> DEFINE t == Out(tasks, op.id)
           B == Popped(ops, op)
           q == tasks[StorageId].in_queue
<1>1. /\ op.id \in DOMAIN tasks \ {StorageId} /\ QueuedIn(q, op.id) = {} /\ w # op.id
      /\ OpsFor(B, op.id) = {}
  BY PoppedTask
<1>2. tasks \in [DOMAIN tasks -> Tasks] /\ StorageId \in DOMAIN tasks
  BY DEF MachineOK
<1>3. DOMAIN t = DOMAIN tasks \ {op.id} /\ t \in [DOMAIN t -> Tasks]
      /\ \A i \in DOMAIN tasks : i # op.id => t[i] = tasks[i]
  BY <1>2, OutIs
<1>4. OpsOK(ops, DOMAIN tasks)
  BY DEF MachineOK
<1>5. OpsOK(B, DOMAIN tasks)
  BY <1>4, RemovedIs
<1>6. \A o \in DOMAIN B : o.id \in DOMAIN t
  BY <1>1, <1>3, <1>5 DEF OpsFor, OpsOK, OpOK
<1>7. OpsOK(B, DOMAIN t)
  BY <1>5, <1>6, OpsOfIds
<1>8. ASSUME NEW id \in DOMAIN tasks, id # op.id
      PROVE  OpsFor(B, id) = OpsFor(ops, id) /\ (Once(ops, id) => Once(B, id))
  BY <1>4, <1>8, OthersRemoved
<1>9. t[StorageId] = tasks[StorageId] /\ OpsFor(B, StorageId) = OpsFor(ops, StorageId)
  BY <1>2, <1>3, <1>8
<1> HIDE DEF t, B
<1>10. StorageOK(t[StorageId], B, DOMAIN t)
  <2>1. StorageOK(tasks[StorageId], ops, DOMAIN tasks)
    BY DEF MachineOK
  <2>2. \A i \in DOMAIN q : q[i].from # op.id
    BY <1>1 DEF QueuedIn
  <2>. QED BY <1>3, <1>9, <2>1, <2>2 DEF StorageOK
<1>11. ASSUME NEW id \in DOMAIN t \ {StorageId}
       PROVE  Settled(t[id], B, t[StorageId].in_queue, w, id)
  <2>1. Settled(tasks[id], ops, q, w, id) /\ t[id] = tasks[id] /\ id # op.id
    BY <1>3 DEF MachineOK
  <2>2. OpsFor(B, id) = OpsFor(ops, id) /\ (Once(ops, id) => Once(B, id))
    BY <1>3, <1>8, <2>1
  <2>3. Unmoved(ops, B, q, q, w, w, id)
    BY <2>2 DEF Unmoved
  <2>. QED BY <1>9, <2>1, <2>3, SettledStays
<1>12. n \in Nat /\ DOMAIN t \subseteq 1 .. n - 1 /\ w \in {0} \cup (DOMAIN t \ {StorageId})
  BY <1>1, <1>3 DEF MachineOK
<1>13. StorageId \in DOMAIN t
  BY <1>1, <1>2, <1>3
<1>14. MachineOK(n, t, B, w)
  BY <1>3, <1>7, <1>10, <1>11, <1>12, <1>13 DEF MachineOK
<1>. QED BY <1>14 DEF t, B

\* A task that does not exist yet, or has just been taken out, is scheduled.
LEMMA TaskScheduled ==
    ASSUME NEW n, NEW m \in Nat, NEW tasks, NEW ops, NEW w, MachineOK(n, tasks, ops, w),
           NEW id \in 1 .. m - 1, id \notin DOMAIN tasks, n <= m,
           NEW task \in Tasks, Ready(task.stack, task.heap), NEW ts \in Nat
    PROVE  MachineOK(m, Put(tasks, id, task), Added(ops, Operation(ts, id)), w)
<1> DEFINE t == Put(tasks, id, task)
           new == Operation(ts, id)
           B == Added(ops, new)
           q == tasks[StorageId].in_queue
<1>1. tasks \in [DOMAIN tasks -> Tasks] /\ StorageId \in DOMAIN tasks /\ n \in Nat
      /\ DOMAIN tasks \subseteq 1 .. n - 1
  BY DEF MachineOK
<1>2. DOMAIN t = DOMAIN tasks \cup {id} /\ t \in [DOMAIN t -> Tasks] /\ t[id] = task
      /\ \A i \in DOMAIN tasks : i # id => t[i] = tasks[i]
  BY <1>1 DEF Put
<1>3. OpsOK(ops, DOMAIN tasks)
  BY DEF MachineOK
<1>4. OpsOK(ops, DOMAIN t)
  <2>1. \A o \in DOMAIN ops : o.id \in DOMAIN t
    BY <1>2, <1>3 DEF OpsOK, OpOK
  <2>. QED BY <1>3, <2>1, OpsOfIds
<1>5. OpOK(new, DOMAIN t) /\ new.id = id
  BY <1>2 DEF OpOK, Operation
<1> HIDE DEF t, new
<1>6. OpsOK(B, DOMAIN t)
  BY <1>4, <1>5, AddedIs
<1>7. OpsFor(ops, id) = {}
  BY <1>3 DEF OpsFor, OpsOK, OpOK
<1>8. Once(B, id)
  BY <1>4, <1>5, <1>7, OwnAdded
<1>9. \A other : other # id =>
         OpsFor(B, other) = OpsFor(ops, other) /\ (Once(ops, other) => Once(B, other))
  BY <1>4, <1>5, OthersAdded
<1> HIDE DEF B
<1>10. t[StorageId] = tasks[StorageId] /\ id # StorageId
  BY <1>1, <1>2
<1>11. StorageOK(tasks[StorageId], ops, DOMAIN tasks)
  BY DEF MachineOK
<1>12. StorageOK(t[StorageId], B, DOMAIN t)
  BY <1>2, <1>9, <1>10, <1>11 DEF StorageOK
<1>13. w \in {0} \cup (DOMAIN tasks \ {StorageId})
  BY DEF MachineOK
<1>14. QueuedIn(q, id) = {} /\ w # id
  <2>1. \A i \in DOMAIN q : q[i].from # id
    BY <1>11 DEF StorageOK
  <2>. QED BY <1>13, <2>1 DEF QueuedIn
<1>15. ASSUME NEW i \in DOMAIN t \ {StorageId}
       PROVE  Settled(t[i], B, t[StorageId].in_queue, w, i)
  <2>1. CASE i = id
    BY <1>2, <1>8, <1>10, <1>14, <2>1 DEF Settled
  <2>2. CASE i # id
    <3>1. Settled(tasks[i], ops, q, w, i) /\ t[i] = tasks[i]
      BY <1>2, <2>2 DEF MachineOK
    <3>2. Unmoved(ops, B, q, q, w, w, i)
      BY <1>9, <2>2 DEF Unmoved
    <3>. QED BY <1>10, <3>1, <3>2, SettledStays
  <2>. QED BY <2>1, <2>2
<1>16. DOMAIN t \subseteq 1 .. m - 1 /\ w \in {0} \cup (DOMAIN t \ {StorageId})
       /\ StorageId \in DOMAIN t
  BY <1>1, <1>2, <1>13
<1>17. MachineOK(m, t, B, w)
  BY <1>2, <1>6, <1>12, <1>15, <1>16 DEF MachineOK
<1>. QED BY <1>17 DEF t, B, new

\* A new task waits as the awaiter.
LEMMA TaskAwaits ==
    ASSUME NEW n, NEW tasks, NEW ops, MachineOK(n, tasks, ops, 0),
           NEW task \in Tasks, task.stack = <<>>
    PROVE  MachineOK(n + 1, Put(tasks, n, task), ops, n)
<1> DEFINE t == Put(tasks, n, task)
           q == tasks[StorageId].in_queue
<1>1. tasks \in [DOMAIN tasks -> Tasks] /\ StorageId \in DOMAIN tasks /\ n \in Nat
      /\ DOMAIN tasks \subseteq 1 .. n - 1
  BY DEF MachineOK
<1>2. DOMAIN t = DOMAIN tasks \cup {n} /\ t \in [DOMAIN t -> Tasks] /\ t[n] = task
      /\ \A i \in DOMAIN tasks : i # n => t[i] = tasks[i]
  BY <1>1 DEF Put
<1>3. n \notin DOMAIN tasks /\ n > StorageId
  BY <1>1 DEF StorageId
<1>4. OpsOK(ops, DOMAIN tasks) /\ StorageOK(tasks[StorageId], ops, DOMAIN tasks)
  BY DEF MachineOK
<1> HIDE DEF t
<1>5. OpsOK(ops, DOMAIN t)
  BY <1>2, <1>4 DEF OpsOK, OpOK
<1>6. t[StorageId] = tasks[StorageId]
  BY <1>1, <1>2, <1>3
<1>7. StorageOK(t[StorageId], ops, DOMAIN t)
  BY <1>2, <1>4, <1>6 DEF StorageOK
<1>8. OpsFor(ops, n) = {}
  BY <1>3, <1>4 DEF OpsFor, OpsOK, OpOK
<1>9. QueuedIn(q, n) = {}
  <2>1. \A i \in DOMAIN q : q[i].from # n
    BY <1>3, <1>4 DEF StorageOK
  <2>. QED BY <2>1 DEF QueuedIn
<1>10. ASSUME NEW i \in DOMAIN t \ {StorageId}
       PROVE  Settled(t[i], ops, t[StorageId].in_queue, n, i)
  <2>1. CASE i = n
    BY <1>2, <1>6, <1>8, <1>9, <2>1 DEF Settled
  <2>2. CASE i # n
    <3>1. Settled(tasks[i], ops, q, 0, i) /\ t[i] = tasks[i] /\ i # 0
      BY <1>1, <1>2, <2>2 DEF MachineOK
    <3>2. Unmoved(ops, ops, q, q, 0, n, i)
      BY <3>1, <2>2 DEF Unmoved
    <3>. QED BY <1>6, <3>1, <3>2, SettledStays
  <2>. QED BY <2>1, <2>2
<1>11. n + 1 \in Nat /\ DOMAIN t \subseteq 1 .. (n + 1) - 1 /\ StorageId \in DOMAIN t
       /\ n \in {0} \cup (DOMAIN t \ {StorageId})
  BY <1>1, <1>2, <1>3 DEF StorageId
<1>12. MachineOK(n + 1, t, ops, n)
  BY <1>2, <1>5, <1>7, <1>10, <1>11 DEF MachineOK
<1>. QED BY <1>12 DEF t

\* The awaiter is woken with a message.
LEMMA AwaiterWoken ==
    ASSUME NEW n, NEW tasks, NEW ops, NEW w, MachineOK(n, tasks, ops, w), w # 0,
           NEW woken \in Tasks, Ready(woken.stack, woken.heap), NEW ts \in Nat
    PROVE  MachineOK(n, Put(tasks, w, woken), Added(ops, Operation(ts, w)), 0)
<1> DEFINE t == Put(tasks, w, woken)
           new == Operation(ts, w)
           B == Added(ops, new)
           q == tasks[StorageId].in_queue
<1>1. tasks \in [DOMAIN tasks -> Tasks] /\ StorageId \in DOMAIN tasks /\ n \in Nat
      /\ DOMAIN tasks \subseteq 1 .. n - 1 /\ w \in DOMAIN tasks \ {StorageId}
  BY DEF MachineOK
<1>2. DOMAIN t = DOMAIN tasks /\ t \in [DOMAIN t -> Tasks] /\ t[w] = woken
      /\ \A i \in DOMAIN tasks : i # w => t[i] = tasks[i]
  BY <1>1 DEF Put
<1>3. OpsOK(ops, DOMAIN t) /\ StorageOK(tasks[StorageId], ops, DOMAIN tasks)
  BY <1>2 DEF MachineOK
<1>4. OpOK(new, DOMAIN t) /\ new.id = w
  BY <1>1, <1>2 DEF OpOK, Operation
<1> HIDE DEF t, new
<1>5. OpsOK(B, DOMAIN t)
  BY <1>3, <1>4, AddedIs
<1>6. Settled(tasks[w], ops, q, w, w)
  BY <1>1 DEF MachineOK
<1>7. OpsFor(ops, w) = {} /\ QueuedIn(q, w) = {}
  BY <1>6 DEF Settled
<1>8. Once(B, w)
  BY <1>3, <1>4, <1>7, OwnAdded
<1>9. \A other : other # w =>
         OpsFor(B, other) = OpsFor(ops, other) /\ (Once(ops, other) => Once(B, other))
  BY <1>3, <1>4, OthersAdded
<1> HIDE DEF B
<1>10. t[StorageId] = tasks[StorageId]
  BY <1>1, <1>2
<1>11. StorageOK(t[StorageId], B, DOMAIN t)
  BY <1>1, <1>2, <1>3, <1>9, <1>10 DEF StorageOK
<1>12. ASSUME NEW i \in DOMAIN t \ {StorageId}
       PROVE  Settled(t[i], B, t[StorageId].in_queue, 0, i)
  <2>1. CASE i = w
    BY <1>2, <1>7, <1>8, <1>10, <2>1 DEF Settled
  <2>2. CASE i # w
    <3>1. Settled(tasks[i], ops, q, w, i) /\ t[i] = tasks[i] /\ i # 0
      BY <1>1, <1>2, <2>2 DEF MachineOK
    <3>2. Unmoved(ops, B, q, q, w, 0, i)
      BY <1>9, <3>1, <2>2 DEF Unmoved
    <3>. QED BY <1>10, <3>1, <3>2, SettledStays
  <2>. QED BY <2>1, <2>2
<1>13. MachineOK(n, t, B, 0)
  BY <1>1, <1>2, <1>5, <1>11, <1>12 DEF MachineOK
<1>. QED BY <1>13 DEF t, B, new

\* A message joins the queue of the storage, or leaves it.
LEMMA QueueGrows ==
    ASSUME NEW q \in Seq(Message), NEW msg \in Message
    PROVE  /\ Append(q, msg) \in Seq(Message) /\ Append(q, msg) # <<>>
           /\ \A i \in DOMAIN Append(q, msg) :
                 Append(q, msg)[i] = IF i = Len(q) + 1 THEN msg ELSE q[i]
           /\ QueuedIn(q, msg.from) = {} =>
                 QueuedOnce(Append(q, msg), msg.from)
           /\ \A id : id # msg.from => QueuedIn(Append(q, msg), id) = QueuedIn(q, id)
<1> DEFINE a == Append(q, msg)
<1>1. a \in Seq(Message) /\ Len(a) = Len(q) + 1 /\ DOMAIN a = 1 .. Len(q) + 1
      /\ \A i \in DOMAIN a : a[i] = IF i = Len(q) + 1 THEN msg ELSE q[i]
  OBVIOUS
<1>2. Len(q) \in Nat /\ DOMAIN q = 1 .. Len(q)
  OBVIOUS
<1> HIDE DEF a
<1>3. QueuedIn(q, msg.from) = {} => QueuedIn(a, msg.from) = {Len(q) + 1}
  <2> SUFFICES ASSUME QueuedIn(q, msg.from) = {} PROVE QueuedIn(a, msg.from) = {Len(q) + 1}
    OBVIOUS
  <2>1. \A i \in 1 .. Len(q) : q[i].from # msg.from
    BY <1>2 DEF QueuedIn
  <2>. QED BY <1>1, <1>2, <2>1 DEF QueuedIn
<1>4. ASSUME NEW id, id # msg.from PROVE QueuedIn(a, id) = QueuedIn(q, id)
  BY <1>1, <1>2, <1>4 DEF QueuedIn
<1>5. a # <<>> /\ Len(q) + 1 \in DOMAIN a
  BY <1>1, <1>2
<1>6. QueuedIn(q, msg.from) = {} => QueuedOnce(a, msg.from)
  BY <1>3, <1>5 DEF QueuedOnce
<1>. QED BY <1>1, <1>4, <1>5, <1>6 DEF a

LEMMA QueueShrinks ==
    ASSUME NEW q \in Seq(Message), q # <<>>
    PROVE  /\ Head(q) \in Message /\ Tail(q) \in Seq(Message) /\ Head(q) = q[1]
           /\ \A i \in DOMAIN Tail(q) : i + 1 \in DOMAIN q /\ Tail(q)[i] = q[i + 1]
           /\ \A id : QueuedIn(q, id) = {} => QueuedIn(Tail(q), id) = {}
           /\ QueuedOnce(q, Head(q).from) => QueuedIn(Tail(q), Head(q).from) = {}
           /\ \A id : id # Head(q).from /\ QueuedOnce(q, id) => QueuedOnce(Tail(q), id)
<1> DEFINE a == Tail(q)
           h == Head(q)
<1>1. a \in Seq(Message) /\ Len(a) = Len(q) - 1 /\ Len(q) \in Nat \ {0} /\ h = q[1]
      /\ h \in Message
  OBVIOUS
<1>2. DOMAIN a = 1 .. Len(q) - 1 /\ DOMAIN q = 1 .. Len(q)
  BY <1>1
<1>3. \A i \in DOMAIN a : a[i] = q[i + 1]
  BY <1>1, <1>2
<1> HIDE DEF a, h
<1>4. \A i \in DOMAIN a : i + 1 \in DOMAIN q /\ a[i] = q[i + 1]
  BY <1>1, <1>2, <1>3
<1>5. ASSUME NEW id, QueuedIn(q, id) = {} PROVE QueuedIn(a, id) = {}
  BY <1>4, <1>5 DEF QueuedIn
<1>6. ASSUME QueuedOnce(q, h.from) PROVE QueuedIn(a, h.from) = {}
  <2>4. PICK j : QueuedIn(q, h.from) = {j}
    BY <1>6 DEF QueuedOnce
  <2>1. 1 \in QueuedIn(q, h.from)
    BY <1>1, <1>2 DEF QueuedIn
  <2>2. \A i \in DOMAIN a : i + 1 # 1 /\ (q[i + 1].from = h.from => i + 1 \in QueuedIn(q, h.from))
    BY <1>1, <1>2, <1>4 DEF QueuedIn
  <2>3. \A i \in DOMAIN a : a[i].from # h.from
    BY <1>4, <2>1, <2>2, <2>4
  <2>. QED BY <2>3 DEF QueuedIn
<1>7. ASSUME NEW id, id # h.from, QueuedOnce(q, id) PROVE QueuedOnce(a, id)
  <2>6. PICK j : QueuedIn(q, id) = {j}
    BY <1>7 DEF QueuedOnce
  <2>1. j \in 1 .. Len(q) /\ q[j].from = id
    BY <1>2, <2>6 DEF QueuedIn
  <2>2. j # 1
    BY <1>1, <1>7, <2>1
  <2>3. j - 1 \in DOMAIN a /\ a[j - 1] = q[j]
    BY <1>1, <1>2, <1>3, <2>1, <2>2
  <2>4. ASSUME NEW i \in DOMAIN a, a[i].from = id PROVE i = j - 1
    <3>1. i + 1 \in QueuedIn(q, id)
      BY <1>4, <2>4 DEF QueuedIn
    <3>2. i + 1 = j
      BY <2>6, <3>1
    <3>. QED BY <1>1, <1>2, <3>2
  <2>5. QueuedIn(a, id) = {j - 1}
    BY <2>1, <2>3, <2>4 DEF QueuedIn
  <2>. QED BY <2>3, <2>5 DEF QueuedOnce
<1>. QED BY <1>1, <1>4, <1>5, <1>6, <1>7 DEF a, h

\* A task that was taken out has asked the storage: its request is queued and the
\* storage has an operation to come.
LEMMA StorageAsked ==
    ASSUME NEW n, NEW tasks, NEW ops, NEW w, MachineOK(n, tasks, ops, w),
           NEW id \in 1 .. n - 1, id \notin DOMAIN tasks, NEW ts \in Nat,
           NEW task \in Tasks, task.stack = <<>>,
           NEW storage \in Tasks, NEW msg \in Message, msg.from = id,
           storage.stack = tasks[StorageId].stack, storage.heap = tasks[StorageId].heap,
           storage.in_queue = Append(tasks[StorageId].in_queue, msg)
    PROVE  MachineOK(n, Put(Put(tasks, StorageId, storage), id, task),
                     Added(ops, Operation(ts, StorageId)), w)
<1> DEFINE t == Put(Put(tasks, StorageId, storage), id, task)
           new == Operation(ts, StorageId)
           B == Added(ops, new)
           q == tasks[StorageId].in_queue
           r == storage.in_queue
<1>1. tasks \in [DOMAIN tasks -> Tasks] /\ StorageId \in DOMAIN tasks /\ n \in Nat
      /\ DOMAIN tasks \subseteq 1 .. n - 1 /\ w \in {0} \cup (DOMAIN tasks \ {StorageId})
  BY DEF MachineOK
<1>2. id # StorageId /\ w # id
  BY <1>1
<1>3. DOMAIN t = DOMAIN tasks \cup {id} /\ t \in [DOMAIN t -> Tasks] /\ t[id] = task
      /\ t[StorageId] = storage
      /\ \A i \in DOMAIN tasks : i # StorageId => t[i] = tasks[i]
  BY <1>1, <1>2 DEF Put
<1>4. OpsOK(ops, DOMAIN tasks) /\ StorageOK(tasks[StorageId], ops, DOMAIN tasks)
  BY DEF MachineOK
<1>5. OpsOK(ops, DOMAIN t)
  BY <1>3, <1>4 DEF OpsOK, OpOK
<1>6. OpOK(new, DOMAIN t) /\ new.id = StorageId
  BY <1>1, <1>3 DEF OpOK, Operation
<1> HIDE DEF t, new
<1>7. OpsOK(B, DOMAIN t)
  BY <1>5, <1>6, AddedIs
<1>8. OpsFor(B, StorageId) # {}
  BY <1>5, <1>6, OwnAdded
<1>9. \A other : other # StorageId =>
         OpsFor(B, other) = OpsFor(ops, other) /\ (Once(ops, other) => Once(B, other))
  BY <1>5, <1>6, OthersAdded
<1> HIDE DEF B
<1>10. q \in Seq(Message)
  BY <1>1 DEF Tasks
<1>20. r = Append(q, msg)
  OBVIOUS
<1> HIDE DEF q, r
<1>11. /\ \A i \in DOMAIN r : r[i] = IF i = Len(q) + 1 THEN msg ELSE q[i]
       /\ QueuedIn(q, id) = {} => QueuedOnce(r, id)
       /\ \A other : other # id => QueuedIn(r, other) = QueuedIn(q, other)
  <2>1. \A i \in DOMAIN r : r[i] = IF i = Len(q) + 1 THEN msg ELSE q[i]
    BY <1>10, <1>20, QueueGrows
  <2>2. QueuedIn(q, id) = {} => QueuedOnce(r, id)
    BY <1>10, <1>20, QueueGrows
  <2>3. \A other : other # id => QueuedIn(r, other) = QueuedIn(q, other)
    BY <1>10, <1>20, QueueGrows
  <2>. QED BY <2>1, <2>2, <2>3
<1> USE DEF q, r
<1>12. \A i \in DOMAIN q : q[i].from \in DOMAIN tasks \ {StorageId}
  BY <1>4 DEF StorageOK
<1>13. \A i \in DOMAIN r : i # Len(q) + 1 => i \in DOMAIN q
  BY <1>10, <1>20
<1>14. StorageOK(storage, B, DOMAIN t)
  <2>1. \A i \in DOMAIN r : r[i].from \in DOMAIN t \ {StorageId}
    BY <1>2, <1>3, <1>11, <1>12, <1>13
  <2>2. storage.stack = <<State("Idle")>> /\ storage.heap = StorageHeap
    BY <1>4 DEF StorageOK
  <2>. QED BY <1>8, <2>1, <2>2 DEF StorageOK
<1>15. QueuedIn(q, id) = {}
  BY <1>12 DEF QueuedIn
<1>16. OpsFor(B, id) = {}
  <2>1. OpsFor(ops, id) = {}
    BY <1>4 DEF OpsFor, OpsOK, OpOK
  <2>. QED BY <1>2, <1>9, <2>1
<1>17. ASSUME NEW i \in DOMAIN t \ {StorageId}
       PROVE  Settled(t[i], B, r, w, i)
  <2>1. CASE i = id
    <3>1. OpsFor(B, i) = {} /\ w # i /\ t[i].stack = <<>>
      BY <1>2, <1>3, <1>16, <2>1
    <3>2. QueuedOnce(r, i)
      BY <1>11, <1>15, <2>1
    <3>. QED BY <3>1, <3>2 DEF Settled
  <2>2. CASE i # id
    <3>1. Settled(tasks[i], ops, q, w, i) /\ t[i] = tasks[i]
      BY <1>3, <2>2 DEF MachineOK
    <3>2. QueuedIn(r, i) = QueuedIn(q, i)
      BY <1>11, <2>2
    <3>3. QueuedOnce(q, i) => QueuedOnce(r, i)
      BY <3>2 DEF QueuedOnce, QueuedIn
    <3>4. Unmoved(ops, B, q, r, w, w, i)
      BY <1>9, <3>2, <3>3 DEF Unmoved
    <3>. QED BY <3>1, <3>4, SettledStays
  <2>. QED BY <2>1, <2>2
<1>18. DOMAIN t \subseteq 1 .. n - 1 /\ w \in {0} \cup (DOMAIN t \ {StorageId})
       /\ StorageId \in DOMAIN t
  BY <1>1, <1>3
<1>19. MachineOK(n, t, B, w)
  BY <1>1, <1>3, <1>7, <1>14, <1>17, <1>18 DEF MachineOK
<1>. QED BY <1>19 DEF t, B, new

\* The storage was woken for nothing.
LEMMA StorageIdles ==
    ASSUME NEW n, NEW tasks, NEW ops, NEW w, MachineOK(n, tasks, ops, w),
           NEW op \in DOMAIN ops, op.id = StorageId,
           tasks[StorageId].in_queue = <<>>
    PROVE  MachineOK(n, tasks, Popped(ops, op), w)
<1> DEFINE B == Popped(ops, op)
           q == tasks[StorageId].in_queue
<1>1. OpsOK(ops, DOMAIN tasks) /\ StorageOK(tasks[StorageId], ops, DOMAIN tasks)
  BY DEF MachineOK
<1>2. OpsOK(B, DOMAIN tasks)
  BY <1>1, RemovedIs
<1>3. StorageOK(tasks[StorageId], B, DOMAIN tasks)
  BY <1>1 DEF StorageOK
<1>4. ASSUME NEW id \in DOMAIN tasks \ {StorageId}
      PROVE  Settled(tasks[id], B, q, w, id)
  <2>1. OpsFor(B, id) = OpsFor(ops, id) /\ (Once(ops, id) => Once(B, id))
    BY <1>1, OthersRemoved
  <2>2. Unmoved(ops, B, q, q, w, w, id)
    BY <2>1 DEF Unmoved
  <2>3. Settled(tasks[id], ops, q, w, id)
    BY DEF MachineOK
  <2>. QED BY <2>2, <2>3, SettledStays
<1>. QED BY <1>2, <1>3, <1>4 DEF MachineOK

\* The storage answers the first task in its queue, and goes on with an operation.
LEMMA StorageAnswers ==
    ASSUME NEW n, NEW tasks, NEW ops, NEW w, MachineOK(n, tasks, ops, w),
           NEW op \in DOMAIN ops, op.id = StorageId, NEW ts \in Nat,
           tasks[StorageId].in_queue # <<>>,
           NEW to, to = Head(tasks[StorageId].in_queue).from,
           NEW asker \in Tasks, Ready(asker.stack, asker.heap),
           NEW storage \in Tasks,
           storage.stack = <<State("Idle")>>, storage.heap = StorageHeap,
           storage.in_queue = Tail(tasks[StorageId].in_queue)
    PROVE  MachineOK(n, Put(Put(Out(tasks, StorageId), to, asker), StorageId, storage),
                     Added(Added(Popped(ops, op), Operation(ts, to)),
                           Operation(ts, StorageId)), w)
<1> DEFINE t == Put(Put(Out(tasks, StorageId), to, asker), StorageId, storage)
           o1 == Popped(ops, op)
           new == Operation(ts, to)
           o2 == Added(o1, new)
           wake == Operation(ts, StorageId)
           o3 == Added(o2, wake)
           q == tasks[StorageId].in_queue
           r == storage.in_queue
<1>1. tasks \in [DOMAIN tasks -> Tasks] /\ StorageId \in DOMAIN tasks /\ n \in Nat
      /\ DOMAIN tasks \subseteq 1 .. n - 1 /\ w \in {0} \cup (DOMAIN tasks \ {StorageId})
  BY DEF MachineOK
<1>2. OpsOK(ops, DOMAIN tasks) /\ StorageOK(tasks[StorageId], ops, DOMAIN tasks)
  BY DEF MachineOK
<1>3. q \in Seq(Message) /\ q # <<>>
  BY <1>1 DEF Tasks
<1>4. r = Tail(q)
  OBVIOUS
<1>5. \A i \in DOMAIN q : q[i].from \in DOMAIN tasks \ {StorageId}
  BY <1>2 DEF StorageOK
<1> HIDE DEF q, r
<1>6. to = q[1].from /\ to = Head(q).from
  BY <1>3 DEF q
<1>7. to \in DOMAIN tasks \ {StorageId}
  <2>1. 1 \in DOMAIN q
    BY <1>3
  <2>. QED BY <1>5, <1>6, <2>1
<1>8. 1 \in QueuedIn(q, to)
  BY <1>3, <1>6 DEF QueuedIn
<1>9. Settled(tasks[to], ops, q, w, to)
  BY <1>7 DEF MachineOK, q
<1>10. OpsFor(ops, to) = {} /\ w # to /\ QueuedOnce(q, to)
  BY <1>8, <1>9 DEF Settled
<1>11. QueuedIn(r, to) = {}
  BY <1>3, <1>4, <1>6, <1>10, QueueShrinks
<1>12. \A id : id # to /\ QueuedOnce(q, id) => QueuedOnce(r, id)
  BY <1>3, <1>4, <1>6, QueueShrinks
<1>13. \A id : QueuedIn(q, id) = {} => QueuedIn(r, id) = {}
  BY <1>3, <1>4, QueueShrinks
<1>14. \A i \in DOMAIN r : r[i].from \in DOMAIN tasks \ {StorageId}
  <2>1. \A i \in DOMAIN r : i + 1 \in DOMAIN q /\ r[i] = q[i + 1]
    BY <1>3, <1>4, QueueShrinks
  <2>. QED BY <1>5, <2>1
<1>15. DOMAIN t = DOMAIN tasks /\ t \in [DOMAIN t -> Tasks] /\ t[to] = asker
       /\ t[StorageId] = storage
       /\ \A i \in DOMAIN tasks : i # StorageId /\ i # to => t[i] = tasks[i]
  BY <1>1, <1>7 DEF Put, Out, Restrict
<1>16. OpOK(new, DOMAIN tasks) /\ new.id = to /\ OpOK(wake, DOMAIN tasks) /\ wake.id = StorageId
  BY <1>1, <1>7 DEF OpOK, Operation
<1> HIDE DEF t, new, wake
<1>17. OpsOK(o1, DOMAIN tasks)
  BY <1>2, RemovedIs
<1>18. OpsOK(o2, DOMAIN tasks)
  BY <1>16, <1>17, AddedIs
<1>19. OpsOK(o3, DOMAIN tasks)
  BY <1>16, <1>18, AddedIs
<1>20. OpsFor(o3, StorageId) # {}
  BY <1>16, <1>18, OwnAdded
<1>21. ASSUME NEW id, id # StorageId
       PROVE  OpsFor(o1, id) = OpsFor(ops, id) /\ (Once(ops, id) => Once(o1, id))
  BY <1>2, <1>21, OthersRemoved
<1>22. ASSUME NEW id, id # to
       PROVE  OpsFor(o2, id) = OpsFor(o1, id) /\ (Once(o1, id) => Once(o2, id))
  BY <1>16, <1>17, <1>22, OthersAdded
<1>23. ASSUME NEW id, id # StorageId
       PROVE  OpsFor(o3, id) = OpsFor(o2, id) /\ (Once(o2, id) => Once(o3, id))
  BY <1>16, <1>18, <1>23, OthersAdded
<1>24. Once(o3, to)
  <2>1. OpsFor(o1, to) = {}
    BY <1>7, <1>10, <1>21
  <2>2. Once(o2, to)
    BY <1>16, <1>17, <2>1, OwnAdded
  <2>. QED BY <1>7, <1>23, <2>2
<1> HIDE DEF o1, o2, o3
<1>25. StorageOK(storage, o3, DOMAIN t)
  BY <1>14, <1>15, <1>20 DEF StorageOK, r
<1>26. ASSUME NEW i \in DOMAIN t \ {StorageId}
       PROVE  Settled(t[i], o3, r, w, i)
  <2>1. CASE i = to
    BY <1>10, <1>11, <1>15, <1>24, <2>1 DEF Settled
  <2>2. CASE i # to
    <3>1. Settled(tasks[i], ops, q, w, i) /\ t[i] = tasks[i]
      BY <1>15, <2>2 DEF MachineOK, q
    <3>2. OpsFor(o3, i) = OpsFor(ops, i) /\ (Once(ops, i) => Once(o3, i))
      BY <1>21, <1>22, <1>23, <2>2
    <3>3. Unmoved(ops, o3, q, r, w, w, i)
      BY <1>12, <1>13, <2>2, <3>2 DEF Unmoved
    <3>. QED BY <3>1, <3>3, SettledStays
  <2>. QED BY <2>1, <2>2
<1>27. MachineOK(n, t, o3, w)
  BY <1>1, <1>15, <1>19, <1>25, <1>26 DEF MachineOK, r
<1>. QED BY <1>27 DEF t, o3, o2, o1, new, wake

-----------------------------------------------------------------------------
(***************************************************************************)
(* One step of a task: its locals, what is under them, and what the        *)
(* results of the step make of the stack.                                  *)
(***************************************************************************)
Locals(stk, k) ==
    Reverse(SubSeq(Front(stk), Len(Front(stk)) - k + 1, Len(Front(stk))))
Under(stk, k) == SubSeq(Front(stk), 1, Len(Front(stk)) - k)
Retop(stk, s) == [stk EXCEPT ![Len(stk)] = State(s)]
WithStack(task, stack, heap) ==
    [writer |-> task.writer, stack |-> stack, heap |-> heap, in_queue |-> task.in_queue]

\* What the steps push are entries of a stack.
LEMMA StateIsEntry == \A s \in TaskStates : State(s) \in Entry /\ Retrn(s) \in Entry
BY DEF State, Retrn, Entry

LEMMA ValueIsEntry == \A s \in Tags, v \in Nat : Value(s, v) \in Entry
BY DEF Value, Entry

\* Lists joined, and a list with its last element replaced.
IsJoin(S, z, x, y, m, n) ==
    /\ z \in Seq(S) /\ Len(z) = m + n /\ m \in Nat /\ n \in Nat
    /\ \A i \in 1 .. m : z[i] = x[i]
    /\ \A i \in m + 1 .. m + n : z[i] = y[i - m]

\* Entries that are pushed onto a stack.
LEMMA JoinIs ==
    ASSUME NEW S, NEW x \in Seq(S), NEW y \in Seq(S), NEW m, NEW n,
           m = Len(x), n = Len(y)
    PROVE  IsJoin(S, x \o y, x, y, m, n)
<1>0. PICK z : z = x \o y
  OBVIOUS
<1>1. m \in Nat /\ n \in Nat
  OBVIOUS
<1>2. z \in Seq(S) /\ Len(z) = m + n
  BY <1>0, ConcatProperties
<1>3. \A i \in 1 .. m + n : z[i] = IF i <= m THEN x[i] ELSE y[i - m]
  BY <1>0, ConcatProperties
<1>4. IsJoin(S, z, x, y, m, n)
  BY <1>1, <1>2, <1>3 DEF IsJoin
<1>. QED BY <1>0, <1>4

Replaced(S, z, x, n, v) ==
    /\ z \in Seq(S) /\ Len(z) = n /\ z[n] = v
    /\ \A i \in 1 .. n - 1 : z[i] = x[i]

\* The entry on top is replaced.
LEMMA LastReplaced ==
    ASSUME NEW S, NEW x \in Seq(S), x # <<>>, NEW v \in S, NEW n, n = Len(x)
    PROVE  Replaced(S, [x EXCEPT ![n] = v], x, n, v)
<1>0. PICK z : z = [x EXCEPT ![n] = v]
  OBVIOUS
<1>1. n \in Nat \ {0} /\ n \in 1 .. Len(x)
  OBVIOUS
<1>2. z \in Seq(S) /\ Len(z) = n
  BY <1>0, <1>1, ExceptSeq
<1>3. \A j \in 1 .. Len(x) : z[j] = IF j = n THEN v ELSE x[j]
  BY <1>0, <1>1, ExceptSeq
<1>4. Replaced(S, z, x, n, v)
  BY <1>1, <1>2, <1>3 DEF Replaced
<1>. QED BY <1>0, <1>4

\* A step takes the top k values as locals and leaves the rest.
LEMMA SlicesAre ==
    ASSUME NEW stk \in Seq(Entry), NEW k \in Nat, k < Len(stk)
    PROVE  /\ Under(stk, k) \in Seq(Entry) /\ Len(Under(stk, k)) = Len(stk) - 1 - k
           /\ \A i \in 1 .. Len(stk) - 1 - k : Under(stk, k)[i] = stk[i]
           /\ Locals(stk, k) \in Seq(Entry) /\ Len(Locals(stk, k)) = k
           /\ \A i \in 1 .. k : Locals(stk, k)[i] = stk[Len(stk) - i]
<1> DEFINE n == Len(stk)
           st == Front(stk)
           u == SubSeq(st, 1, Len(st) - k)
           l == SubSeq(st, Len(st) - k + 1, Len(st))
<1>1. st \in Seq(Entry) /\ Len(st) = n - 1 /\ \A i \in 1 .. n - 1 : st[i] = stk[i]
  <2>1. n \in Nat \ {0} /\ \A i \in 1 .. n - 1 : stk[i] \in Entry
    OBVIOUS
  <2>2. st = SubSeq(stk, 1, n - 1)
    BY DEF Front
  <2> HIDE DEF n, st
  <2>3. st \in Seq(Entry) /\ Len(st) = n - 1 /\ \A i \in 1 .. n - 1 : st[i] = stk[1 + i - 1]
    BY <2>1, <2>2, SubSeqProperties
  <2>. QED BY <2>1, <2>3
<1>2. n \in Nat
  OBVIOUS
<1> HIDE DEF n, st
<1>3. u \in Seq(Entry) /\ Len(u) = n - 1 - k /\ \A i \in 1 .. n - 1 - k : u[i] = st[i]
  BY <1>1, <1>2 DEF n
<1>4. l \in Seq(Entry) /\ Len(l) = k /\ \A i \in 1 .. k : l[i] = st[n - 1 - k + i]
  BY <1>1, <1>2 DEF n
<1> HIDE DEF u, l
<1>5. Reverse(l) = [i \in 1 .. k |-> l[k - i + 1]]
  BY <1>4 DEF Reverse
<1>6. \A i \in 1 .. k : k - i + 1 \in 1 .. k /\ n - 1 - k + (k - i + 1) = n - i
  BY <1>2
<1>7. \A i \in 1 .. k : l[k - i + 1] = stk[n - i] /\ l[k - i + 1] \in Entry
  <2> SUFFICES ASSUME NEW i \in 1 .. k
               PROVE  l[k - i + 1] = stk[n - i] /\ l[k - i + 1] \in Entry
    OBVIOUS
  <2>1. l[k - i + 1] = st[n - 1 - k + (k - i + 1)]
    BY <1>4, <1>6
  <2>2. l[k - i + 1] = st[n - i] /\ n - i \in 1 .. n - 1
    BY <1>2, <1>6, <2>1 DEF n
  <2>. QED BY <1>1, <1>4, <1>6, <2>2
<1>8. Reverse(l) \in Seq(Entry) /\ Len(Reverse(l)) = k
  BY <1>5, <1>7
<1>9. \A i \in 1 .. k : Reverse(l)[i] = stk[n - i]
  BY <1>5, <1>7
<1>10. \A i \in 1 .. n - 1 - k : u[i] = stk[i]
  BY <1>1, <1>2, <1>3
<1>11. Under(stk, k) = u /\ Locals(stk, k) = Reverse(l)
  BY DEF Under, Locals, u, l, st
<1>. QED BY <1>3, <1>8, <1>9, <1>10, <1>11 DEF n

\* A step that puts its locals back only changes the state on top.
LEMMA PutBack ==
    ASSUME NEW stk \in Seq(Entry), NEW k \in Nat, k < Len(stk), NEW s \in TaskStates
    PROVE  /\ Under(stk, k) \o (Reverse(Locals(stk, k)) \o <<State(s)>>) = Retop(stk, s)
           /\ Retop(stk, s) \in Seq(Entry) /\ Len(Retop(stk, s)) = Len(stk)
           /\ Retop(stk, s)[Len(stk)] = State(s)
           /\ \A i \in 1 .. Len(stk) - 1 : Retop(stk, s)[i] = stk[i]
<1> DEFINE u == Under(stk, k)
           l == Locals(stk, k)
           n == Len(stk)
           b == Reverse(l)
           all == u \o (b \o <<State(s)>>)
           t == Retop(stk, s)
<1>1. /\ u \in Seq(Entry) /\ Len(u) = n - 1 - k
      /\ l \in Seq(Entry) /\ Len(l) = k
  BY SlicesAre
<1>a. /\ \A i \in 1 .. n - 1 - k : u[i] = stk[i]
      /\ \A i \in 1 .. k : l[i] = stk[n - i]
  BY SlicesAre
<1>2. State(s) \in Entry
  BY StateIsEntry
<1>3. n \in Nat /\ n > 0
  OBVIOUS
<1>4. t \in Seq(Entry) /\ Len(t) = n /\ t[n] = State(s) /\ \A i \in 1 .. n - 1 : t[i] = stk[i]
  <2>1. stk # <<>> /\ t = [stk EXCEPT ![n] = State(s)]
    BY <1>3 DEF Retop
  <2>2. PICK v \in Entry : v = State(s)
    BY <1>2
  <2> HIDE DEF n, t
  <2>3. n = Len(stk) /\ t = [stk EXCEPT ![n] = v]
    BY <2>1, <2>2 DEF n
  <2>4. Replaced(Entry, [stk EXCEPT ![n] = v], stk, n, v)
    BY <2>1, <2>3, LastReplaced
  <2>5. Replaced(Entry, t, stk, n, v)
    BY <2>3, <2>4
  <2>. QED BY <2>2, <2>5 DEF Replaced
<1> HIDE DEF u, l, n, t
<1>5. b = [i \in 1 .. k |-> l[k - i + 1]]
  BY <1>1 DEF Reverse
<1>6. \A i \in 1 .. k : l[k - i + 1] = stk[n - 1 - k + i] /\ l[k - i + 1] \in Entry
  <2> SUFFICES ASSUME NEW i \in 1 .. k
               PROVE  l[k - i + 1] = stk[n - 1 - k + i] /\ l[k - i + 1] \in Entry
    OBVIOUS
  <2>1. k - i + 1 \in 1 .. k /\ n - (k - i + 1) = n - 1 - k + i
    BY <1>3
  <2>2. l[k - i + 1] = stk[n - (k - i + 1)]
    BY <1>a, <2>1
  <2>. QED BY <1>1, <2>1, <2>2
<1>7. b \in Seq(Entry) /\ Len(b) = k /\ \A i \in 1 .. k : b[i] = stk[n - 1 - k + i]
  BY <1>5, <1>6
<1> HIDE DEF b
<1> DEFINE c == b \o <<State(s)>>
<1>8. c \in Seq(Entry) /\ Len(c) = k + 1 /\ c[k + 1] = State(s) /\ \A i \in 1 .. k : c[i] = b[i]
  <2>1. PICK v \in Entry : v = State(s)
    BY <1>2
  <2>2. <<v>> \in Seq(Entry) /\ Len(<<v>>) = 1 /\ <<v>>[1] = v
    OBVIOUS
  <2>3. PICK one : one = <<v>>
    OBVIOUS
  <2>4. one \in Seq(Entry) /\ Len(one) = 1 /\ one[1] = v
    BY <2>2, <2>3
  <2>5. c = b \o one
    BY <2>1, <2>3
  <2> HIDE DEF c
  <2>6. IsJoin(Entry, b \o one, b, one, k, 1)
    BY <1>7, <2>4, JoinIs
  <2>7. IsJoin(Entry, c, b, one, k, 1)
    BY <2>5, <2>6
  <2>8. k + 1 \in k + 1 .. k + 1 /\ (k + 1) - k = 1
    OBVIOUS
  <2>9. c[k + 1] = one[1]
    BY <2>7, <2>8 DEF IsJoin
  <2>. QED BY <2>1, <2>4, <2>7, <2>9 DEF IsJoin
<1> HIDE DEF c
<1>9. all \in Seq(Entry) /\ Len(all) = n
      /\ \A i \in 1 .. n : all[i] = IF i <= n - 1 - k THEN u[i] ELSE c[i - (n - 1 - k)]
  <2>1. all = u \o c
    BY DEF c
  <2> HIDE DEF all
  <2>2. Len(u) + Len(c) = n
    BY <1>1, <1>3, <1>8
  <2>3. PICK m : m = n - 1 - k
    OBVIOUS
  <2>4. IsJoin(Entry, u \o c, u, c, m, k + 1)
    BY <1>1, <1>8, <2>3, JoinIs
  <2>5. IsJoin(Entry, all, u, c, m, k + 1)
    BY <2>1, <2>4
  <2>6. m + (k + 1) = n
    BY <1>3, <2>3
  <2>7. \A i \in 1 .. n : all[i] = IF i <= m THEN u[i] ELSE c[i - m]
    <3> SUFFICES ASSUME NEW i \in 1 .. n PROVE all[i] = IF i <= m THEN u[i] ELSE c[i - m]
      OBVIOUS
    <3>1. m \in Nat
      BY <2>5 DEF IsJoin
    <3>2. CASE i \in 1 .. m
      BY <1>3, <2>5, <3>1, <3>2 DEF IsJoin
    <3>3. CASE i \in m + 1 .. m + (k + 1)
      BY <1>3, <2>5, <3>1, <3>3 DEF IsJoin
    <3>. QED BY <1>3, <2>6, <3>1, <3>2, <3>3
  <2>. QED BY <2>3, <2>5, <2>6, <2>7 DEF IsJoin
<1> HIDE DEF all
<1>10. \A i \in 1 .. n : all[i] = t[i]
  <2> SUFFICES ASSUME NEW i \in 1 .. n PROVE all[i] = t[i]
    OBVIOUS
  <2>1. CASE i <= n - 1 - k
    <3>1. i \in 1 .. n - 1 - k /\ i \in 1 .. n - 1
      BY <1>3, <2>1
    <3>2. all[i] = u[i]
      BY <1>9, <2>1
    <3>3. u[i] = stk[i]
      BY <1>a, <3>1
    <3>4. t[i] = stk[i]
      BY <1>4, <3>1
    <3>. QED BY <3>2, <3>3, <3>4
  <2>2. CASE i > n - 1 - k /\ i < n
    <3>1. i - (n - 1 - k) \in 1 .. k /\ n - 1 - k + (i - (n - 1 - k)) = i
      BY <1>3, <2>2 DEF n
    <3>2. all[i] = c[i - (n - 1 - k)]
      BY <1>9, <2>2, <1>3
    <3>3. all[i] = stk[n - 1 - k + (i - (n - 1 - k))]
      BY <1>7, <1>8, <3>1, <3>2
    <3>4. i \in 1 .. n - 1
      BY <1>3, <2>2
    <3>5. t[i] = stk[i]
      BY <1>4, <3>4
    <3>6. all[i] = stk[i]
      BY <3>1, <3>3
    <3>. QED BY <3>5, <3>6
  <2>3. CASE i = n
    <3>1. n \in 1 .. n /\ ~ n <= n - 1 - k /\ n - (n - 1 - k) = k + 1
      BY <1>3
    <3>2. all[n] = c[k + 1]
      BY <1>9, <3>1
    <3>3. all[n] = t[n]
      BY <1>4, <1>8, <3>2
    <3>. QED BY <2>3, <3>3
  <2>. QED BY <1>3, <2>1, <2>2, <2>3
<1>11. all = t
  BY <1>3, <1>4, <1>9, <1>10
<1>. QED BY <1>4, <1>11 DEF all, b, u, l, n, t

\* A task with another stack or heap.
SetStack(task, stack) == [task EXCEPT !.stack = stack]
SetHeap(task, heap) == [task EXCEPT !.heap = heap]

\* The parts of a task whose stack and heap were replaced.
LEMMA StackSet ==
    ASSUME NEW task, NEW stack, NEW heap, NEW y
    PROVE  SetStack(WithStack(task, stack, heap), y) = WithStack(task, y, heap)
BY DEF WithStack, SetStack

LEMMA HeapSet ==
    ASSUME NEW task, NEW stack, NEW heap, NEW y
    PROVE  SetHeap(WithStack(task, stack, heap), y) = WithStack(task, stack, y)
BY DEF WithStack, SetHeap

LEMMA PartsSet ==
    ASSUME NEW task, NEW stack, NEW heap
    PROVE  WithStack(task, stack, heap).stack = stack /\ WithStack(task, stack, heap).heap = heap
BY DEF WithStack

\* The step of a state that finds its locals.
LEMMA RunsState ==
    ASSUME NEW m, NEW op, NEW task \in Tasks, NEW stk, stk = task.stack, NEW s, s # "Idle",
           NEW k \in Nat, k = LocalVarsCount(s), k < Len(stk),
           \A i \in 1 .. k : stk[Len(stk) - i].e = "Value"
    PROVE  RunState(m, op, [task EXCEPT !.stack = Front(@)], s) =
              ApplyResult(m, op,
                  WithStack(task, Under(stk, k), GlobalStep(s, Locals(stk, k), task.heap).heap),
                  Locals(stk, k), GlobalStep(s, Locals(stk, k), task.heap).res)
<1>1. stk \in Seq(Entry) /\ task = WithStack(task, stk, task.heap)
  BY DEF Tasks, WithStack
<1>2. [task EXCEPT !.stack = Front(@)] = WithStack(task, Front(stk), task.heap)
  BY <1>1 DEF WithStack
<1>3. PICK t : t = WithStack(task, Front(stk), task.heap)
  OBVIOUS
<1>4. t.stack = Front(stk) /\ t.heap = task.heap
  BY <1>3, PartsSet
<1>15. PICK u : u = Under(stk, k)
  OBVIOUS
<1>16. SubSeq(t.stack, 1, Len(t.stack) - k) = u
  BY <1>4, <1>15 DEF Under
<1>17. SetStack(t, u) = WithStack(task, u, task.heap)
  BY <1>3, StackSet
<1>6. Len(Front(stk)) = Len(stk) - 1
  BY <1>1 DEF Front
<1>7. PICK vs : vs = Locals(stk, k)
  OBVIOUS
<1>8. vs = Reverse(SubSeq(t.stack, Len(t.stack) - k + 1, Len(t.stack)))
  BY <1>4, <1>7 DEF Locals
<1>9. ~ (k > Len(t.stack)) /\ ~ \E i \in 1 .. k : vs[i].e # "Value"
  <2>1. \A i \in 1 .. k : vs[i] = stk[Len(stk) - i]
    BY <1>1, <1>7, SlicesAre
  <2>. QED BY <1>1, <1>4, <1>6, <2>1
<1>10. SetStack(t, u).heap = task.heap
  BY <1>17, PartsSet
<1>11. PICK step : step = GlobalStep(s, vs, task.heap)
  OBVIOUS
<1>12. RunState(m, op, t, s) =
          ApplyResult(m, op, SetHeap(SetStack(t, u), step.heap), vs, step.res)
  BY <1>8, <1>9, <1>10, <1>11, <1>16, Zenon DEF RunState, SetStack, SetHeap
<1>13. SetHeap(SetStack(t, u), step.heap) = WithStack(task, Under(stk, k), step.heap)
  BY <1>15, <1>17, HeapSet
<1>14. RunState(m, op, t, s) =
          ApplyResult(m, op, WithStack(task, Under(stk, k), step.heap), vs, step.res)
  BY <1>12, <1>13
<1>. QED BY <1>2, <1>3, <1>7, <1>11, <1>14

\* The task goes on: it is active again with an operation, and ready for it.
Continues(r, m, id) ==
    \E t \in Tasks, ts \in Nat : \E out :
        Ready(t.stack, t.heap) /\ r = Outcome(Resume(m, id, t, ts), out)

\* A task with another stack and heap is a task, and pushing changes the stack only.
LEMMA WithStackIsTask ==
    ASSUME NEW task \in Tasks, NEW stack \in Seq(Entry), NEW heap \in Heaps
    PROVE  /\ WithStack(task, stack, heap) \in Tasks
           /\ WithStack(task, stack, heap).stack = stack
           /\ WithStack(task, stack, heap).heap = heap
BY DEF WithStack, Tasks

Joined(all, stack, entries) == all = stack \o entries

LEMMA PushIs ==
    ASSUME NEW task, NEW stack, NEW heap, NEW entries, NEW all, Joined(all, stack, entries)
    PROVE  Push(WithStack(task, stack, heap), entries) = WithStack(task, all, heap)
<1>1. PICK x : x = WithStack(task, stack, heap)
  OBVIOUS
<1>2. x.stack = stack
  BY <1>1, PartsSet
<1>3. Push(x, entries) = SetStack(x, all)
  BY <1>2 DEF Push, SetStack, Joined
<1>4. SetStack(x, all) = WithStack(task, all, heap)
  BY <1>1, StackSet
<1>. QED BY <1>1, <1>3, <1>4

\* The result of a step that puts the locals back, below another state.
LEMMA PutBackGoesOn ==
    ASSUME NEW m, NEW id, NEW task \in Tasks, NEW stk \in Seq(Entry), NEW k \in Nat,
           k < Len(stk), NEW heap \in Heaps, NEW s \in TaskStates, NEW ts \in Nat, NEW out,
           Ready(Retop(stk, s), heap)
    PROVE  Continues(Outcome(Resume(m, id, Push(WithStack(task, Under(stk, k), heap),
                        Reverse(Locals(stk, k)) \o <<State(s)>>), ts), out), m, id)
<1>4. Retop(stk, s) \in Seq(Entry)
  BY PutBack
<1>6. PICK all \in Seq(Entry) : all = Retop(stk, s)
  BY <1>4
<1>7. PICK u, entries : u = Under(stk, k) /\ entries = Reverse(Locals(stk, k)) \o <<State(s)>>
  OBVIOUS
<1>1. PICK t : t = WithStack(task, all, heap)
  OBVIOUS
<1>2. Joined(all, u, entries)
  BY <1>6, <1>7, PutBack DEF Joined
<1>3. Push(WithStack(task, u, heap), entries) = t
  <2>1. Push(WithStack(task, u, heap), entries) = WithStack(task, all, heap)
    BY <1>2, PushIs
  <2>. QED BY <1>1, <2>1
<1>5. t \in Tasks /\ t.stack = all /\ t.heap = heap
  BY <1>1, WithStackIsTask
<1>8. Ready(t.stack, t.heap)
  BY <1>5, <1>6
<1>9. Continues(Outcome(Resume(m, id, t, ts), out), m, id)
  BY <1>5, <1>8 DEF Continues
<1>. QED BY <1>3, <1>7, <1>9

\* What each kind of result makes of a task: it is scheduled again, and ready if the
\* stack that the result leaves is.
LEMMA SleepGoesOn ==
    ASSUME NEW m, NEW op, op.ts \in Nat, NEW task \in Tasks, NEW stk \in Seq(Entry),
           NEW k \in Nat, k < Len(stk), NEW heap \in Heaps, NEW s \in TaskStates, NEW ms \in Nat,
           Ready(Retop(stk, s), heap)
    PROVE  Continues(ApplyResult(m, op, WithStack(task, Under(stk, k), heap),
                                 Locals(stk, k), Sleep(ms, s)), m, op.id)
<1>1. U64(op.ts + ms) \in Nat
  <2>1. op.ts + ms \in Nat
    OBVIOUS
  <2>. QED BY <2>1, CutIsNat
<1>2. Sleep(ms, s).r = "Sleep" /\ Sleep(ms, s).ms = ms /\ Sleep(ms, s).next = s
  BY DEF Sleep
<1>3. ApplyResult(m, op, WithStack(task, Under(stk, k), heap), Locals(stk, k), Sleep(ms, s))
      = Outcome(Resume(m, op.id, Push(WithStack(task, Under(stk, k), heap),
                        Reverse(Locals(stk, k)) \o <<State(s)>>), U64(op.ts + ms)), {})
  BY <1>2 DEF ApplyResult, OnSleep
<1>4. PICK ts \in Nat : ts = U64(op.ts + ms)
  BY <1>1
<1>. QED BY <1>3, <1>4, PutBackGoesOn

LEMMA WriteGoesOn ==
    ASSUME NEW m, NEW op, op.ts \in Nat, NEW task \in Tasks, NEW stk \in Seq(Entry),
           NEW k \in Nat, k < Len(stk), NEW heap \in Heaps, NEW s \in TaskStates, NEW text,
           Ready(Retop(stk, s), heap)
    PROVE  Continues(ApplyResult(m, op, WithStack(task, Under(stk, k), heap),
                                 Locals(stk, k), Write(text, s)), m, op.id)
<1>2. Write(text, s).r = "Write" /\ Write(text, s).text = text /\ Write(text, s).next = s
  BY DEF Write
<1>3. PICK out : out = {[to |-> WithStack(task, Under(stk, k), heap).writer, text |-> text]}
  OBVIOUS
<1>4. ApplyResult(m, op, WithStack(task, Under(stk, k), heap), Locals(stk, k), Write(text, s))
      = Outcome(Resume(m, op.id, Push(WithStack(task, Under(stk, k), heap),
                        Reverse(Locals(stk, k)) \o <<State(s)>>), op.ts), out)
  BY <1>2, <1>3 DEF ApplyResult, OnWrite
<1>. QED BY <1>4, PutBackGoesOn

LEMMA NextGoesOn ==
    ASSUME NEW m, NEW op, op.ts \in Nat, NEW task \in Tasks, NEW u \in Seq(Entry),
           NEW heap \in Heaps, NEW entries, NEW vs, NEW all \in Seq(Entry),
           Joined(all, u, entries), Ready(all, heap)
    PROVE  Continues(ApplyResult(m, op, WithStack(task, u, heap), vs, Next_(entries)), m, op.id)
<1>1. Next_(entries).r = "Next" /\ Next_(entries).entries = entries
  BY DEF Next_
<1>2. PICK t : t = WithStack(task, all, heap)
  OBVIOUS
<1>3. Push(WithStack(task, u, heap), entries) = t
  BY <1>2, PushIs
<1>4. ApplyResult(m, op, WithStack(task, u, heap), vs, Next_(entries))
      = Outcome(Resume(m, op.id, t, op.ts), {})
  BY <1>1, <1>3 DEF ApplyResult, OnNext
<1>5. t \in Tasks /\ t.stack = all /\ t.heap = heap
  BY <1>2, WithStackIsTask
<1>7. Ready(t.stack, t.heap)
  BY <1>5
<1>. QED BY <1>4, <1>5, <1>7 DEF Continues

LEMMA ReturnGoesOn ==
    ASSUME NEW m, NEW op, op.ts \in Nat, NEW task \in Tasks, NEW u \in Seq(Entry),
           NEW heap \in Heaps, NEW value, NEW vs, NEW s, NEW back \in Seq(Entry),
           u # <<>>, u[Len(u)] = Retrn(s), Joined(back, Front(u), <<value, State(s)>>),
           Ready(back, heap)
    PROVE  Continues(ApplyResult(m, op, WithStack(task, u, heap), vs, Return(value)), m, op.id)
<1>1. Return(value).r = "Return" /\ Return(value).value = value
  BY DEF Return
<1>2. PICK t : t = WithStack(task, back, heap)
  OBVIOUS
<1>3. Last(u) = u[Len(u)]
  BY DEF Last
<1>4. Last(u).e = "Retrn" /\ Last(u).s = s
  BY <1>3 DEF Retrn
<1>5. PICK x : x = WithStack(task, u, heap)
  OBVIOUS
<1>6. x.stack = u
  BY <1>5 DEF WithStack
<1>11. Front(x.stack) \o <<value, State(Last(x.stack).s)>> = back
  BY <1>4, <1>6 DEF Joined
<1>12. SetStack(x, back) = t
  BY <1>2, <1>5, StackSet
<1>7. [x EXCEPT !.stack = Front(@) \o <<value, State(Last(@).s)>>] = t
  BY <1>11, <1>12 DEF SetStack
<1>8. OnReturn(m, op, x, Return(value)) = Outcome(Resume(m, op.id, t, op.ts), {})
  BY <1>1, <1>4, <1>6, <1>7 DEF OnReturn
<1>9. ApplyResult(m, op, x, vs, Return(value)) = Outcome(Resume(m, op.id, t, op.ts), {})
  BY <1>1, <1>8 DEF ApplyResult
<1>10. t \in Tasks /\ t.stack = back /\ t.heap = heap
  BY <1>2, WithStackIsTask
<1>15. Ready(t.stack, t.heap)
  BY <1>10
<1>. QED BY <1>5, <1>9, <1>10, <1>15 DEF Continues

-----------------------------------------------------------------------------
(***************************************************************************)
(* The steps of a task, from the state it is in.                           *)
(***************************************************************************)
\* State s finds k locals, the step gives a result and a heap, and the task runs it.
Fits(stk, s, k) ==
    /\ s # "Idle" /\ k \in Nat /\ k = LocalVarsCount(s) /\ k < Len(stk)
    /\ \A i \in 1 .. k : stk[Len(stk) - i].e = "Value"
Steps(task, s, k, res, heap) ==
    GlobalStep(s, Locals(task.stack, k), task.heap) = [res |-> res, heap |-> heap]
Runs(m, op, task, s) == RunState(m, op, [task EXCEPT !.stack = Front(@)], s)

\* Running a state applies the result of its step.
LEMMA RunsResult ==
    ASSUME NEW m, NEW op, NEW task \in Tasks, NEW s, NEW k, Fits(task.stack, s, k),
           NEW res, NEW heap, Steps(task, s, k, res, heap)
    PROVE  Runs(m, op, task, s) =
              ApplyResult(m, op, WithStack(task, Under(task.stack, k), heap),
                          Locals(task.stack, k), res)
<1>1. PICK stk : stk = task.stack
  OBVIOUS
<1>2. /\ s # "Idle" /\ k \in Nat /\ k = LocalVarsCount(s) /\ k < Len(stk)
      /\ \A i \in 1 .. k : stk[Len(stk) - i].e = "Value"
  BY <1>1 DEF Fits
<1>3. PICK step : step = GlobalStep(s, Locals(stk, k), task.heap)
  OBVIOUS
<1>4. step.res = res /\ step.heap = heap
  BY <1>1, <1>3 DEF Steps
<1>5. Runs(m, op, task, s) =
         ApplyResult(m, op,
             WithStack(task, Under(stk, k), GlobalStep(s, Locals(stk, k), task.heap).heap),
             Locals(stk, k), GlobalStep(s, Locals(stk, k), task.heap).res)
  BY <1>1, <1>2, RunsState DEF Runs
<1>6. Runs(m, op, task, s) =
         ApplyResult(m, op, WithStack(task, Under(stk, k), step.heap), Locals(stk, k), step.res)
  BY <1>3, <1>5
<1>. QED BY <1>1, <1>4, <1>6

\* The same for the step of a state that fits its stack.
LEMMA SleepStep ==
    ASSUME NEW m, NEW op, op.ts \in Nat, NEW task \in Tasks, NEW s, NEW k,
           Fits(task.stack, s, k), NEW ms \in Nat, NEW next \in TaskStates, NEW heap \in Heaps,
           Steps(task, s, k, Sleep(ms, next), heap), Ready(Retop(task.stack, next), heap)
    PROVE  Continues(Runs(m, op, task, s), m, op.id)
<1>1. PICK stk \in Seq(Entry) : stk = task.stack
  BY DEF Tasks
<1>2. k \in Nat /\ k < Len(stk)
  BY <1>1 DEF Fits
<1>3. Ready(Retop(stk, next), heap)
  BY <1>1
<1>4. Continues(ApplyResult(m, op, WithStack(task, Under(stk, k), heap),
                            Locals(stk, k), Sleep(ms, next)), m, op.id)
  BY <1>2, <1>3, SleepGoesOn
<1>5. PICK res : res = Sleep(ms, next)
  OBVIOUS
<1>6. Runs(m, op, task, s) =
         ApplyResult(m, op, WithStack(task, Under(stk, k), heap), Locals(stk, k), res)
  BY <1>1, <1>5, RunsResult
<1>. QED BY <1>4, <1>5, <1>6

LEMMA WriteStep ==
    ASSUME NEW m, NEW op, op.ts \in Nat, NEW task \in Tasks, NEW s, NEW k,
           Fits(task.stack, s, k), NEW text, NEW next \in TaskStates, NEW heap \in Heaps,
           Steps(task, s, k, Write(text, next), heap), Ready(Retop(task.stack, next), heap)
    PROVE  Continues(Runs(m, op, task, s), m, op.id)
<1>1. PICK stk \in Seq(Entry) : stk = task.stack
  BY DEF Tasks
<1>2. k \in Nat /\ k < Len(stk)
  BY <1>1 DEF Fits
<1>3. Ready(Retop(stk, next), heap)
  BY <1>1
<1>4. Continues(ApplyResult(m, op, WithStack(task, Under(stk, k), heap),
                            Locals(stk, k), Write(text, next)), m, op.id)
  BY <1>2, <1>3, WriteGoesOn
<1>5. PICK res : res = Write(text, next)
  OBVIOUS
<1>6. Runs(m, op, task, s) =
         ApplyResult(m, op, WithStack(task, Under(stk, k), heap), Locals(stk, k), res)
  BY <1>1, <1>5, RunsResult
<1>. QED BY <1>4, <1>5, <1>6

LEMMA NextStep ==
    ASSUME NEW m, NEW op, op.ts \in Nat, NEW task \in Tasks, NEW s, NEW k,
           Fits(task.stack, s, k), NEW entries, NEW all \in Seq(Entry), NEW heap \in Heaps,
           Joined(all, Under(task.stack, k), entries),
           Steps(task, s, k, Next_(entries), heap), Ready(all, heap)
    PROVE  Continues(Runs(m, op, task, s), m, op.id)
<1>1. PICK stk \in Seq(Entry) : stk = task.stack
  BY DEF Tasks
<1>2. k \in Nat /\ k < Len(stk)
  BY <1>1 DEF Fits
<1>3. PICK u \in Seq(Entry) : u = Under(stk, k)
  BY <1>2, SlicesAre
<1>4. Joined(all, u, entries)
  BY <1>1, <1>3
<1>5. Continues(ApplyResult(m, op, WithStack(task, u, heap), Locals(stk, k), Next_(entries)),
                m, op.id)
  BY <1>4, NextGoesOn
<1>6. PICK res : res = Next_(entries)
  OBVIOUS
<1>7. Runs(m, op, task, s) =
         ApplyResult(m, op, WithStack(task, Under(stk, k), heap), Locals(stk, k), res)
  BY <1>1, <1>6, RunsResult
<1>. QED BY <1>3, <1>5, <1>6, <1>7

LEMMA ReturnStep ==
    ASSUME NEW m, NEW op, op.ts \in Nat, NEW task \in Tasks, NEW s, NEW k,
           Fits(task.stack, s, k), NEW value, NEW back \in Seq(Entry), NEW heap \in Heaps,
           NEW to, NEW u \in Seq(Entry), u = Under(task.stack, k), u # <<>>,
           u[Len(u)] = Retrn(to), Joined(back, Front(u), <<value, State(to)>>),
           Steps(task, s, k, Return(value), heap), Ready(back, heap)
    PROVE  Continues(Runs(m, op, task, s), m, op.id)
<1>5. Continues(ApplyResult(m, op, WithStack(task, u, heap), Locals(task.stack, k),
                            Return(value)), m, op.id)
  BY ReturnGoesOn
<1>6. PICK res : res = Return(value)
  OBVIOUS
<1>7. Runs(m, op, task, s) =
         ApplyResult(m, op, WithStack(task, Under(task.stack, k), heap),
                     Locals(task.stack, k), res)
  BY <1>6, RunsResult
<1>. QED BY <1>5, <1>6, <1>7
\* The state on top of a stack is replaced.
LEMMA RetopIs ==
    ASSUME NEW stk \in Seq(Entry), stk # <<>>, NEW s \in TaskStates
    PROVE  Replaced(Entry, Retop(stk, s), stk, Len(stk), State(s))
<1>1. PICK v \in Entry : v = State(s)
  BY StateIsEntry
<1>2. PICK n : n = Len(stk)
  OBVIOUS
<1>3. Replaced(Entry, [stk EXCEPT ![n] = v], stk, n, v)
  BY <1>2, LastReplaced
<1>4. Retop(stk, s) = [stk EXCEPT ![n] = v]
  BY <1>1, <1>2 DEF Retop
<1>5. Replaced(Entry, Retop(stk, s), stk, n, v)
  BY <1>3, <1>4
<1>. QED BY <1>1, <1>2, <1>5

\* A task that is done needs no locals, and nobody waits for it.
LEMMA RetopCompleted ==
    ASSUME NEW stk \in Seq(Entry), stk # <<>>, ValuesBelow(stk), NEW heap
    PROVE  Ready(Retop(stk, "Completed"), heap)
<1>1. PICK c \in TaskStates : c = "Completed"
  BY DEF TaskStates
<1>2. PICK t : t = Retop(stk, c)
  OBVIOUS
<1>3. Replaced(Entry, t, stk, Len(stk), State(c))
  BY <1>2, RetopIs
<1>4. /\ t # <<>> /\ t[Len(t)] = State("Completed")
      /\ Len(t) = Len(stk) /\ \A i \in 1 .. Len(stk) - 1 : t[i] = stk[i]
  BY <1>1, <1>3 DEF Replaced
<1>6. ValuesBelow(t)
  BY <1>4 DEF ValuesBelow
<1>5. Ready(t, heap)
  BY <1>4, <1>6 DEF Ready, CompletedReady
<1>. QED BY <1>1, <1>2, <1>5

\* The shape under the state stays.
LEMMA RetopOverTwo ==
    ASSUME NEW stk \in Seq(Entry), NEW low, NEW high, NEW s, OverTwo(stk, s, low, high),
           NEW next \in TaskStates
    PROVE  OverTwo(Retop(stk, next), next, low, high)
<1>1. PICK t : t = Retop(stk, next)
  OBVIOUS
<1>2. stk # <<>> /\ Len(stk) = 3
  BY DEF OverTwo
<1>3. Replaced(Entry, t, stk, 3, State(next))
  BY <1>1, <1>2, RetopIs
<1>4. Len(t) = 3 /\ t[1] = stk[1] /\ t[2] = stk[2] /\ t[3] = State(next)
  BY <1>3 DEF Replaced
<1>5. OverTwo(t, next, low, high)
  BY <1>4 DEF OverTwo
<1>. QED BY <1>1, <1>5

LEMMA RetopBare ==
    ASSUME NEW stk \in Seq(Entry), NEW s, Bare(stk, s), NEW next \in TaskStates
    PROVE  Bare(Retop(stk, next), next)
<1>1. PICK t : t = Retop(stk, next)
  OBVIOUS
<1>6. Len(stk) = 1
  BY DEF Bare
<1>2. stk # <<>> /\ Len(stk) = 1
  BY <1>6
<1>3. Replaced(Entry, t, stk, 1, State(next))
  BY <1>1, <1>2, RetopIs
<1>4. Len(t) = 1 /\ t[1] = State(next)
  BY <1>3 DEF Replaced
<1>5. Bare(t, next)
  BY <1>4 DEF Bare
<1>. QED BY <1>1, <1>5

\* The locals a state finds.
LEMMA OneLocal ==
    ASSUME NEW stk \in Seq(Entry), NEW s, NEW tag, OverOne(stk, s, tag),
           LocalVarsCount(s) = 1, s # "Idle"
    PROVE  /\ Fits(stk, s, 1) /\ stk # <<>> /\ stk[Len(stk)] = State(s)
           /\ Len(Locals(stk, 1)) = 1 /\ Len(Under(stk, 1)) = 0
           /\ Under(stk, 1) \in Seq(Entry)
           /\ Locals(stk, 1)[1] = stk[1] /\ stk[1].s = tag /\ stk[1].v \in Nat
<1>1. Len(stk) = 2 /\ Tagged(stk[1], tag) /\ stk[2] = State(s) /\ stk[1] \in Entry
  BY DEF OverOne
<1>2. stk[1].e = "Value" /\ stk[1].s = tag /\ stk[1].v \in Nat
  BY <1>1 DEF Tagged, Entry
<1>8. PICK k \in Nat : k = 1
  OBVIOUS
<1>9. k < Len(stk)
  BY <1>1, <1>8
<1>3. PICK u, l : u = Under(stk, k) /\ l = Locals(stk, k)
  OBVIOUS
<1>4. u \in Seq(Entry) /\ Len(u) = Len(stk) - 1 - k /\ Len(l) = k
  BY <1>3, <1>9, SlicesAre
<1>5. \A i \in 1 .. k : l[i] = stk[Len(stk) - i]
  BY <1>3, <1>9, SlicesAre
<1>6. l[1] = stk[1] /\ Len(u) = 0
  BY <1>1, <1>4, <1>5, <1>8
<1>7. Fits(stk, s, 1)
  BY <1>1, <1>2 DEF Fits
<1>10. u = Under(stk, 1) /\ l = Locals(stk, 1)
  BY <1>3, <1>8
<1>11. stk # <<>> /\ stk[Len(stk)] = State(s)
  BY <1>1
<1>12. Len(l) = 1
  BY <1>4, <1>8
<1>. QED BY <1>2, <1>4, <1>6, <1>7, <1>10, <1>11, <1>12

LEMMA TwoLocals ==
    ASSUME NEW stk \in Seq(Entry), NEW s, NEW low, NEW high, OverTwo(stk, s, low, high),
           LocalVarsCount(s) = 2, s # "Idle"
    PROVE  /\ Fits(stk, s, 2) /\ stk # <<>> /\ stk[Len(stk)] = State(s)
           /\ Len(Locals(stk, 2)) = 2
           /\ Locals(stk, 2)[1] = stk[2] /\ stk[2].s = high /\ stk[2].v \in Nat
           /\ Locals(stk, 2)[2] = stk[1] /\ stk[1].s = low /\ stk[1].v \in Nat
<1>1. /\ Len(stk) = 3 /\ Tagged(stk[1], low) /\ Tagged(stk[2], high) /\ stk[3] = State(s)
      /\ stk[1] \in Entry /\ stk[2] \in Entry
  BY DEF OverTwo
<1>2. /\ stk[1].e = "Value" /\ stk[1].s = low /\ stk[1].v \in Nat
      /\ stk[2].e = "Value" /\ stk[2].s = high /\ stk[2].v \in Nat
  BY <1>1 DEF Tagged, Entry
<1>8. PICK k \in Nat : k = 2
  OBVIOUS
<1>9. k < Len(stk)
  BY <1>1, <1>8
<1>3. PICK l : l = Locals(stk, k)
  OBVIOUS
<1>4. Len(l) = k
  BY <1>3, <1>9, SlicesAre
<1>5. \A i \in 1 .. k : l[i] = stk[Len(stk) - i]
  BY <1>3, <1>9, SlicesAre
<1>6. l[1] = stk[2] /\ l[2] = stk[1]
  BY <1>1, <1>5, <1>8
<1>7. Fits(stk, s, 2)
  BY <1>1, <1>2 DEF Fits
<1>10. l = Locals(stk, 2)
  BY <1>3, <1>8
<1>11. stk # <<>> /\ stk[Len(stk)] = State(s)
  BY <1>1
<1>12. Len(l) = 2
  BY <1>4, <1>8
<1>. QED BY <1>2, <1>6, <1>7, <1>10, <1>11, <1>12

LEMMA NoLocals ==
    ASSUME NEW stk \in Seq(Entry), NEW s, Bare(stk, s), LocalVarsCount(s) = 0, s # "Idle"
    PROVE  /\ Fits(stk, s, 0) /\ stk # <<>> /\ stk[Len(stk)] = State(s)
           /\ Under(stk, 0) \in Seq(Entry) /\ Len(Under(stk, 0)) = 0
<1>1. Len(stk) = 1 /\ stk[1] = State(s)
  BY DEF Bare
<1>2. PICK k \in Nat : k = 0
  OBVIOUS
<1>3. k < Len(stk)
  BY <1>1, <1>2
<1>4. PICK u : u = Under(stk, k)
  OBVIOUS
<1>5. u \in Seq(Entry) /\ Len(u) = Len(stk) - 1 - k
  BY <1>3, <1>4, SlicesAre
<1>6. u = Under(stk, 0) /\ Len(u) = 0
  BY <1>1, <1>2, <1>4, <1>5
<1>7. Fits(stk, s, 0) /\ stk # <<>> /\ stk[Len(stk)] = State(s)
  BY <1>1 DEF Fits
<1>. QED BY <1>5, <1>6, <1>7

\* The task can be run, and goes on.
GoesOn(m, op, task) ==
    /\ task.stack # <<>> /\ Last(task.stack).e = "State"
    /\ Continues(Runs(m, op, task, Last(task.stack).s), m, op.id)

\* The executor runs the state on top of the stack.
LEMMA TopRuns ==
    ASSUME NEW m, NEW op, NEW task, NEW stk, stk = task.stack, stk # <<>>,
           NEW s, stk[Len(stk)] = State(s), Continues(Runs(m, op, task, s), m, op.id)
    PROVE  GoesOn(m, op, task)
<1>1. Last(stk).e = "State" /\ Last(stk).s = s
  BY DEF Last, State
<1>. QED BY <1>1 DEF GoesOn
\* What the step of state s does with the task: it writes or sleeps, and goes on in
\* state next with its locals.
Does(task, s, res, heap) ==
    \E k \in Nat : Fits(task.stack, s, k) /\ Steps(task, s, k, res, heap)
WritesThen(task, s, next, heap) == \E text : Does(task, s, Write(text, next), heap)
SleepsThen(task, s, next, heap) == \E ms \in Nat : Does(task, s, Sleep(ms, next), heap)

\* A state that writes or sleeps and puts its locals back leaves a ready task.
LEMMA StepGoesOn ==
    ASSUME NEW m, NEW op, op.ts \in Nat, NEW task \in Tasks, NEW stk, stk = task.stack,
           stk # <<>>, NEW s, stk[Len(stk)] = State(s),
           NEW next \in TaskStates, NEW heap \in Heaps,
           WritesThen(task, s, next, heap) \/ SleepsThen(task, s, next, heap),
           Ready(Retop(stk, next), heap)
    PROVE  GoesOn(m, op, task)
<1>1. Ready(Retop(task.stack, next), heap)
  OBVIOUS
<1>2. CASE WritesThen(task, s, next, heap)
  <2>3. PICK text : Does(task, s, Write(text, next), heap)
    BY <1>2 DEF WritesThen
  <2>1. PICK k \in Nat : Fits(task.stack, s, k) /\ Steps(task, s, k, Write(text, next), heap)
    BY <2>3 DEF Does
  <2>2. Continues(Runs(m, op, task, s), m, op.id)
    BY <1>1, <2>1, WriteStep
  <2>. QED BY <2>2, TopRuns
<1>3. CASE SleepsThen(task, s, next, heap)
  <2>1. PICK ms \in Nat, k \in Nat :
           Fits(task.stack, s, k) /\ Steps(task, s, k, Sleep(ms, next), heap)
    BY <1>3 DEF SleepsThen, Does
  <2>2. Continues(Runs(m, op, task, s), m, op.id)
    BY <1>1, <2>1, SleepStep
  <2>. QED BY <2>2, TopRuns
<1>. QED BY <1>2, <1>3

\* Under the one state of a stack there are only values.
LEMMA OneFrame ==
    ASSUME NEW stk, NEW s, NEW low, NEW high,
           OverOne(stk, s, low) \/ OverTwo(stk, s, low, high)
    PROVE  ValuesBelow(stk)
<1>1. CASE OverOne(stk, s, low)
  <2>1. Len(stk) = 2 /\ stk[1].e = "Value"
    BY <1>1 DEF OverOne, Tagged
  <2>2. \A i \in 1 .. Len(stk) - 1 : i = 1
    BY <2>1
  <2>. QED BY <2>1, <2>2 DEF ValuesBelow
<1>2. CASE OverTwo(stk, s, low, high)
  <2>1. Len(stk) = 3 /\ stk[1].e = "Value" /\ stk[2].e = "Value"
    BY <1>2 DEF OverTwo, Tagged
  <2>2. \A i \in 1 .. Len(stk) - 1 : i = 1 \/ i = 2
    BY <2>1
  <2>. QED BY <2>1, <2>2 DEF ValuesBelow
<1>. QED BY <1>1, <1>2

\* The states that do their work and are done.
LEMMA StepCompletes ==
    ASSUME NEW m, NEW op, op.ts \in Nat, NEW task \in Tasks, NEW stk, stk = task.stack,
           stk # <<>>, ValuesBelow(stk), NEW s, stk[Len(stk)] = State(s), NEW heap \in Heaps,
           WritesThen(task, s, "Completed", heap)
    PROVE  GoesOn(m, op, task)
<1>1. PICK c \in TaskStates : c = "Completed"
  BY DEF TaskStates
<1>2. stk \in Seq(Entry)
  BY DEF Tasks
<1>3. Ready(Retop(stk, c), heap)
  BY <1>1, <1>2, RetopCompleted
<1>4. WritesThen(task, s, c, heap)
  BY <1>1
<1>. QED BY <1>3, <1>4, StepGoesOn

\* What global_step does in the states of the messages.
LEMMA MessageStepIs ==
    ASSUME NEW vs, NEW heap
    PROVE  /\ Len(vs) = 1 /\ vs[1].s = "AwaiterInputMessage" =>
                 GlobalStep("WaiterWaitMessageAwaiting", vs, heap) =
                     [res |-> Write(Text("got", vs[1].v, 0), "Completed"), heap |-> heap]
           /\ Len(vs) = 1 /\ vs[1].s = "RequesterGotUserResponse" =>
                 GlobalStep("RequesterGetUserGot", vs, heap) =
                     [res |-> Write(Text("user", vs[1].v, 0), "Completed"), heap |-> heap]
           /\ Len(vs) = 2 /\ vs[1].s = "DelayInputMessage" /\ vs[2].s = "DelayInputMs" =>
                 /\ GlobalStep("DelayedMessageTaskBegin", vs, heap) =
                        [res |-> Sleep(vs[2].v, "DelayedMessageTaskExecute"), heap |-> heap]
                 /\ GlobalStep("DelayedMessageTaskExecute", vs, heap) =
                        [res |-> Write(Text("after", vs[1].v, vs[2].v), "Completed"),
                         heap |-> heap]
<1>1. ASSUME Len(vs) = 1, vs[1].s = "AwaiterInputMessage"
      PROVE  GlobalStep("WaiterWaitMessageAwaiting", vs, heap) =
                 [res |-> Write(Text("got", vs[1].v, 0), "Completed"), heap |-> heap]
  BY <1>1 DEF GlobalStep, MessageStep, Holds, MessageStates, UserStates,
               DivisorsStates, FibonacciStates, FactorialStates
<1>2. ASSUME Len(vs) = 1, vs[1].s = "RequesterGotUserResponse"
      PROVE  GlobalStep("RequesterGetUserGot", vs, heap) =
                 [res |-> Write(Text("user", vs[1].v, 0), "Completed"), heap |-> heap]
  BY <1>2 DEF GlobalStep, UserStep, Holds, MessageStates, UserStates,
               DivisorsStates, FibonacciStates, FactorialStates
<1>3. ASSUME Len(vs) = 2, vs[1].s = "DelayInputMessage", vs[2].s = "DelayInputMs"
      PROVE  GlobalStep("DelayedMessageTaskBegin", vs, heap) =
                 [res |-> Sleep(vs[2].v, "DelayedMessageTaskExecute"), heap |-> heap]
  BY <1>3 DEF GlobalStep, MessageStep, MessageStates, UserStates,
               DivisorsStates, FibonacciStates, FactorialStates
<1>4. ASSUME Len(vs) = 2, vs[1].s = "DelayInputMessage", vs[2].s = "DelayInputMs"
      PROVE  GlobalStep("DelayedMessageTaskExecute", vs, heap) =
                 [res |-> Write(Text("after", vs[1].v, vs[2].v), "Completed"), heap |-> heap]
  BY <1>4 DEF GlobalStep, MessageStep, Holds, MessageStates, UserStates,
               DivisorsStates, FibonacciStates, FactorialStates
<1>. QED BY <1>1, <1>2, <1>3, <1>4

\* Receivers, delayed messages and answered requesters go on.
LEMMA MessageGoesOn ==
    ASSUME NEW m, NEW op, op.ts \in Nat, NEW task \in Tasks, MessageReady(task.stack)
    PROVE  GoesOn(m, op, task)
<1>1. PICK stk \in Seq(Entry) : stk = task.stack
  BY DEF Tasks
<1>2. PICK heap \in Heaps : heap = task.heap
  BY DEF Tasks
<1>3. CASE OverOne(stk, "WaiterWaitMessageAwaiting", "AwaiterInputMessage")
  <2>1. LocalVarsCount("WaiterWaitMessageAwaiting") = 1
    BY DEF LocalVarsCount
  <2>2. /\ Fits(stk, "WaiterWaitMessageAwaiting", 1) /\ stk # <<>>
        /\ stk[Len(stk)] = State("WaiterWaitMessageAwaiting")
        /\ Len(Locals(stk, 1)) = 1 /\ Locals(stk, 1)[1].s = "AwaiterInputMessage"
    BY <1>3, <2>1, OneLocal
  <2>3. WritesThen(task, "WaiterWaitMessageAwaiting", "Completed", heap)
    <3>1. PICK vs : vs = Locals(stk, 1)
      OBVIOUS
    <3>2. GlobalStep("WaiterWaitMessageAwaiting", vs, heap) =
             [res |-> Write(Text("got", vs[1].v, 0), "Completed"), heap |-> heap]
      BY <2>2, <3>1, MessageStepIs
    <3>3. Steps(task, "WaiterWaitMessageAwaiting", 1,
                Write(Text("got", vs[1].v, 0), "Completed"), heap)
      BY <1>1, <1>2, <3>1, <3>2 DEF Steps
    <3>. QED BY <1>1, <2>2, <3>3 DEF WritesThen, Does
  <2>9. ValuesBelow(stk)
    BY <1>3, OneFrame
  <2>. QED BY <1>1, <2>2, <2>3, <2>9, StepCompletes
<1>4. CASE OverOne(stk, "RequesterGetUserGot", "RequesterGotUserResponse")
  <2>1. LocalVarsCount("RequesterGetUserGot") = 1
    BY DEF LocalVarsCount
  <2>2. /\ Fits(stk, "RequesterGetUserGot", 1) /\ stk # <<>>
        /\ stk[Len(stk)] = State("RequesterGetUserGot")
        /\ Len(Locals(stk, 1)) = 1 /\ Locals(stk, 1)[1].s = "RequesterGotUserResponse"
    BY <1>4, <2>1, OneLocal
  <2>3. WritesThen(task, "RequesterGetUserGot", "Completed", heap)
    <3>1. PICK vs : vs = Locals(stk, 1)
      OBVIOUS
    <3>2. GlobalStep("RequesterGetUserGot", vs, heap) =
             [res |-> Write(Text("user", vs[1].v, 0), "Completed"), heap |-> heap]
      BY <2>2, <3>1, MessageStepIs
    <3>3. Steps(task, "RequesterGetUserGot", 1,
                Write(Text("user", vs[1].v, 0), "Completed"), heap)
      BY <1>1, <1>2, <3>1, <3>2 DEF Steps
    <3>. QED BY <1>1, <2>2, <3>3 DEF WritesThen, Does
  <2>9. ValuesBelow(stk)
    BY <1>4, OneFrame
  <2>. QED BY <1>1, <2>2, <2>3, <2>9, StepCompletes
<1>5. CASE OverTwo(stk, "DelayedMessageTaskBegin", "DelayInputMs", "DelayInputMessage")
  <2>1. LocalVarsCount("DelayedMessageTaskBegin") = 2
    BY DEF LocalVarsCount
  <2>2. /\ Fits(stk, "DelayedMessageTaskBegin", 2) /\ stk # <<>>
        /\ stk[Len(stk)] = State("DelayedMessageTaskBegin")
        /\ Len(Locals(stk, 2)) = 2 /\ Locals(stk, 2)[1].s = "DelayInputMessage"
        /\ Locals(stk, 2)[2].s = "DelayInputMs" /\ Locals(stk, 2)[2].v \in Nat
    BY <1>5, <2>1, TwoLocals
  <2>3. SleepsThen(task, "DelayedMessageTaskBegin", "DelayedMessageTaskExecute", heap)
    <3>1. PICK vs : vs = Locals(stk, 2)
      OBVIOUS
    <3>2. GlobalStep("DelayedMessageTaskBegin", vs, heap) =
             [res |-> Sleep(vs[2].v, "DelayedMessageTaskExecute"), heap |-> heap]
      BY <2>2, <3>1, MessageStepIs
    <3>3. Steps(task, "DelayedMessageTaskBegin", 2,
                Sleep(vs[2].v, "DelayedMessageTaskExecute"), heap)
      BY <1>1, <1>2, <3>1, <3>2 DEF Steps
    <3>4. vs[2].v \in Nat
      BY <2>2, <3>1
    <3>. QED BY <1>1, <2>2, <3>3, <3>4 DEF SleepsThen, Does
  <2>4. PICK next \in TaskStates : next = "DelayedMessageTaskExecute"
    BY DEF TaskStates, MessageStates
  <2>5. OverTwo(Retop(stk, next), next, "DelayInputMs", "DelayInputMessage")
    BY <1>5, RetopOverTwo
  <2>6. Ready(Retop(stk, next), heap)
    BY <2>4, <2>5 DEF Ready, GoingOn, MessageReady
  <2>7. SleepsThen(task, "DelayedMessageTaskBegin", next, heap)
    BY <2>3, <2>4
  <2>. QED BY <1>1, <2>2, <2>6, <2>7, StepGoesOn
<1>6. CASE OverTwo(stk, "DelayedMessageTaskExecute", "DelayInputMs", "DelayInputMessage")
  <2>1. LocalVarsCount("DelayedMessageTaskExecute") = 2
    BY DEF LocalVarsCount
  <2>2. /\ Fits(stk, "DelayedMessageTaskExecute", 2) /\ stk # <<>>
        /\ stk[Len(stk)] = State("DelayedMessageTaskExecute")
        /\ Len(Locals(stk, 2)) = 2 /\ Locals(stk, 2)[1].s = "DelayInputMessage"
        /\ Locals(stk, 2)[2].s = "DelayInputMs"
    BY <1>6, <2>1, TwoLocals
  <2>3. WritesThen(task, "DelayedMessageTaskExecute", "Completed", heap)
    <3>1. PICK vs : vs = Locals(stk, 2)
      OBVIOUS
    <3>2. GlobalStep("DelayedMessageTaskExecute", vs, heap) =
             [res |-> Write(Text("after", vs[1].v, vs[2].v), "Completed"), heap |-> heap]
      BY <2>2, <3>1, MessageStepIs
    <3>3. Steps(task, "DelayedMessageTaskExecute", 2,
                Write(Text("after", vs[1].v, vs[2].v), "Completed"), heap)
      BY <1>1, <1>2, <3>1, <3>2 DEF Steps
    <3>. QED BY <1>1, <2>2, <3>3 DEF WritesThen, Does
  <2>9. ValuesBelow(stk)
    BY <1>6, OneFrame
  <2>. QED BY <1>1, <2>2, <2>3, <2>9, StepCompletes
<1>. QED BY <1>1, <1>3, <1>4, <1>5, <1>6 DEF MessageReady

\* A task that keeps everything in its heap has only a state on its stack.
Moves(res, next) ==
    \/ \E text : res = Write(text, next)
    \/ \E ms \in Nat : res = Sleep(ms, next)
    \/ res = Goto(next)
ReadyBare(next, heap) == \A t \in Seq(Entry) : Bare(t, next) => Ready(t, heap)

\* A state without locals, which keeps what it knows on the heap, goes on.
LEMMA BareGoesOn ==
    ASSUME NEW m, NEW op, op.ts \in Nat, NEW task \in Tasks, NEW s, Bare(task.stack, s),
           s # "Idle", LocalVarsCount(s) = 0,
           NEW res, NEW heap \in Heaps, NEW next \in TaskStates, ReadyBare(next, heap),
           \A vs : GlobalStep(s, vs, task.heap) = [res |-> res, heap |-> heap], Moves(res, next)
    PROVE  GoesOn(m, op, task)
<1>1. PICK stk \in Seq(Entry) : stk = task.stack
  BY DEF Tasks
<1>2. PICK k \in Nat : k = 0
  OBVIOUS
<1>3. /\ Fits(stk, s, k) /\ stk # <<>> /\ stk[Len(stk)] = State(s)
      /\ Under(stk, k) \in Seq(Entry) /\ Len(Under(stk, k)) = 0
  BY <1>1, <1>2, NoLocals
<1>4. Does(task, s, res, heap)
  BY <1>1, <1>3 DEF Does, Steps
<1>5. CASE res # Goto(next)
  <2>1. WritesThen(task, s, next, heap) \/ SleepsThen(task, s, next, heap)
    BY <1>4, <1>5 DEF Moves, WritesThen, SleepsThen
  <2>2. Bare(Retop(stk, next), next)
    BY <1>1, RetopBare
  <2>3. Retop(stk, next) \in Seq(Entry)
    <3>1. Replaced(Entry, Retop(stk, next), stk, Len(stk), State(next))
      BY <1>3, RetopIs
    <3>. QED BY <3>1 DEF Replaced
  <2>4. Ready(Retop(stk, next), heap)
    BY <2>2, <2>3 DEF ReadyBare
  <2>. QED BY <1>1, <1>3, <2>1, <2>4, StepGoesOn
<1>6. CASE res = Goto(next)
  <2>1. PICK entries : entries = <<State(next)>>
    OBVIOUS
  <2>2. Steps(task, s, k, Next_(entries), heap) /\ Fits(task.stack, s, k)
    <3>1. res = Next_(entries)
      BY <1>6, <2>1 DEF Goto
    <3>. QED BY <1>1, <1>3, <3>1 DEF Steps
  <2>3. entries \in Seq(Entry) /\ Len(entries) = 1 /\ entries[1] = State(next)
    BY <2>1, StateIsEntry
  <2>4. Bare(entries, next)
    BY <2>3 DEF Bare
  <2>5. Ready(entries, heap)
    BY <2>3, <2>4 DEF ReadyBare
  <2>6. Under(stk, k) = <<>>
    BY <1>3
  <2>7. Joined(entries, Under(task.stack, k), entries)
    <3>1. <<>> \o entries = entries
      BY <2>3
    <3>. QED BY <1>1, <2>6, <3>1 DEF Joined
  <2>8. Continues(Runs(m, op, task, s), m, op.id)
    BY <2>2, <2>3, <2>5, <2>7, NextStep
  <2>. QED BY <1>1, <1>3, <2>8, TopRuns
<1>. QED BY <1>5, <1>6

\* Where such a state may go.
LEMMA BareCompleted ==
    ASSUME NEW heap
    PROVE  ReadyBare("Completed", heap)
<1> SUFFICES ASSUME NEW t \in Seq(Entry), Bare(t, "Completed") PROVE CompletedReady(t)
  BY DEF ReadyBare, Ready
<1>1. Len(t) = 1 /\ t[1] = State("Completed")
  BY DEF Bare
<1>. QED BY <1>1 DEF CompletedReady, ValuesBelow

LEMMA BareDivisors ==
    ASSUME NEW heap \in DivisorsHeap, NEW s \in DivisorsStates,
           s = "DivisorsPrintAndMoveOn" => heap.i > 0
    PROVE  ReadyBare(s, heap)
BY DEF ReadyBare, Ready, GoingOn, DivisorsReady

LEMMA BareFibonacci ==
    ASSUME NEW heap \in FibonacciHeap, NEW s \in FibonacciStates
    PROVE  ReadyBare(s, heap)
BY DEF ReadyBare, Ready, GoingOn, FibonacciReady

\* The largest divisor that is left, or zero.
LEMMA LargestDivisor ==
    ASSUME NEW n \in Nat, NEW i \in Nat,
           NEW d, d = Max({j \in 0 .. i : j = 0 \/ n % j = 0})
    PROVE  d \in 0 .. i
<1> DEFINE S == {j \in 0 .. i : j = 0 \/ n % j = 0}
           T == {i - j : j \in S}
<1>1. T \subseteq Nat /\ i \in T
  OBVIOUS
<1>2. PICK t \in T : \A u \in T : t <= u
  BY <1>1, LeastNatural
<1>3. PICK e \in S : t = i - e
  BY <1>2
<1>4. \A j \in S : e >= j
  <2> SUFFICES ASSUME NEW j \in S PROVE e >= j
    OBVIOUS
  <2>1. i - j \in T
    OBVIOUS
  <2>2. i - e <= i - j
    BY <1>2, <1>3, <2>1
  <2>. QED BY <2>2
<1>5. d \in S
  BY <1>3, <1>4 DEF Max
<1>. QED BY <1>5

\* A search for divisors goes on.
LEMMA DivisorsGoesOn ==
    ASSUME NEW m, NEW op, op.ts \in Nat, NEW task \in Tasks,
           DivisorsReady(task.stack, task.heap)
    PROVE  GoesOn(m, op, task)
<1>1. PICK s \in DivisorsStates :
         Bare(task.stack, s) /\ (s = "DivisorsPrintAndMoveOn" => task.heap.i > 0)
  BY DEF DivisorsReady
<1>2. PICK heap \in DivisorsHeap : heap = task.heap
  BY DEF DivisorsReady
<1>3. heap.h = "Divisors" /\ heap.n \in Nat /\ heap.i \in Nat
  BY DEF DivisorsHeap
<1>4. s # "Idle" /\ LocalVarsCount(s) = 0
  BY DEF DivisorsStates, LocalVarsCount
<1>5. \A vs : GlobalStep(s, vs, heap) = DivisorsStep(s, heap)
  BY DEF GlobalStep, MessageStates, UserStates, DivisorsStates, FibonacciStates, FactorialStates
<1>6. CASE s = "DivisorsTaskBegin"
  <2>1. PICK h \in DivisorsHeap : h = [heap EXCEPT !.i = heap.n]
    BY <1>3 DEF DivisorsHeap
  <2>2. PICK next \in DivisorsStates : next = "DivisorsTaskIteration"
    BY DEF DivisorsStates
  <2>3. PICK res : res = Goto(next)
    OBVIOUS
  <2>4. DivisorsStep(s, heap) = [res |-> res, heap |-> h]
    BY <1>3, <1>6, <2>1, <2>2, <2>3 DEF DivisorsStep
  <2>5. ReadyBare(next, h) /\ h \in Heaps /\ next \in TaskStates /\ Moves(res, next)
    BY <2>2, <2>3, BareDivisors DEF Heaps, TaskStates, Moves
  <2>6. \A vs : GlobalStep(s, vs, task.heap) = [res |-> res, heap |-> h]
    BY <1>2, <1>5, <2>4
  <2>. QED BY <1>1, <1>4, <2>5, <2>6, BareGoesOn
<1>7. CASE s = "DivisorsTaskIteration"
  <2>1. PICK d : d = NextDivisor(heap)
    OBVIOUS
  <2>2. d \in 0 .. heap.i
    BY <1>3, <2>1, LargestDivisor DEF NextDivisor
  <2>3. CASE d = 0
    <3>1. PICK next \in TaskStates : next = "Completed"
      BY DEF TaskStates
    <3>2. PICK res : res = Write(Text("divided", heap.n, 0), next)
      OBVIOUS
    <3>3. DivisorsStep(s, heap) = [res |-> res, heap |-> heap]
      BY <1>3, <1>7, <2>1, <2>3, <3>1, <3>2 DEF DivisorsStep
    <3>4. ReadyBare(next, heap) /\ heap \in Heaps /\ Moves(res, next)
      BY <3>1, <3>2, BareCompleted DEF Heaps, Moves
    <3>5. \A vs : GlobalStep(s, vs, task.heap) = [res |-> res, heap |-> heap]
      BY <1>2, <1>5, <3>3
    <3>. QED BY <1>1, <1>4, <3>4, <3>5, BareGoesOn
  <2>4. CASE d # 0
    <3>9. d \in Nat
      BY <1>3, <2>2
    <3>1. PICK h \in DivisorsHeap : h = [heap EXCEPT !.i = d]
      BY <3>9 DEF DivisorsHeap
    <3>2. PICK next \in DivisorsStates : next = "DivisorsPrintAndMoveOn"
      BY DEF DivisorsStates
    <3>10. PICK ms \in Nat : ms = U64(d * 10)
      <4>1. d * 10 \in Nat
        BY <3>9
      <4>. QED BY <4>1, CutIsNat
    <3>3. PICK res : res = Sleep(ms, next)
      OBVIOUS
    <3>4. DivisorsStep(s, heap) = [res |-> res, heap |-> h]
      BY <1>3, <1>7, <2>1, <2>4, <3>1, <3>2, <3>3, <3>10 DEF DivisorsStep
    <3>5. h.i > 0
      BY <1>3, <2>2, <2>4, <3>1 DEF DivisorsHeap
    <3>6. ReadyBare(next, h)
      BY <3>5, BareDivisors
    <3>7. h \in Heaps /\ next \in TaskStates /\ Moves(res, next)
      BY <3>3, <3>5 DEF Heaps, TaskStates, Moves
    <3>8. \A vs : GlobalStep(s, vs, task.heap) = [res |-> res, heap |-> h]
      BY <1>2, <1>5, <3>4
    <3>. QED BY <1>1, <1>4, <3>6, <3>7, <3>8, BareGoesOn
  <2>. QED BY <2>3, <2>4
<1>8. CASE s = "DivisorsPrintAndMoveOn"
  <2>7. PICK i \in Nat : i = heap.i - 1
    BY <1>1, <1>2, <1>3, <1>8
  <2>8. PICK h \in DivisorsHeap : h = [heap EXCEPT !.i = i]
    BY DEF DivisorsHeap
  <2>1. h = [heap EXCEPT !.i = heap.i - 1]
    BY <2>7, <2>8
  <2>2. PICK next \in DivisorsStates : next = "DivisorsTaskIteration"
    BY DEF DivisorsStates
  <2>3. PICK res : res = Write(Text("divides", heap.n, heap.i), next)
    OBVIOUS
  <2>4. DivisorsStep(s, heap) = [res |-> res, heap |-> h]
    BY <1>3, <1>8, <2>1, <2>2, <2>3 DEF DivisorsStep
  <2>5. ReadyBare(next, h) /\ h \in Heaps /\ next \in TaskStates /\ Moves(res, next)
    BY <2>2, <2>3, BareDivisors DEF Heaps, TaskStates, Moves
  <2>6. \A vs : GlobalStep(s, vs, task.heap) = [res |-> res, heap |-> h]
    BY <1>2, <1>5, <2>4
  <2>. QED BY <1>1, <1>4, <2>5, <2>6, BareGoesOn
<1>. QED BY <1>1, <1>6, <1>7, <1>8 DEF DivisorsStates

\* A computation of a Fibonacci number goes on.
LEMMA FibonacciGoesOn ==
    ASSUME NEW m, NEW op, op.ts \in Nat, NEW task \in Tasks,
           FibonacciReady(task.stack, task.heap)
    PROVE  GoesOn(m, op, task)
<1>1. PICK s \in FibonacciStates : Bare(task.stack, s)
  BY DEF FibonacciReady
<1>2. PICK heap \in FibonacciHeap : heap = task.heap
  BY DEF FibonacciReady
<1>3. /\ heap.h = "Fibonacci" /\ heap.n \in Nat /\ heap.index \in Nat
      /\ heap.a \in Nat /\ heap.b \in Nat /\ heap.delay_ms \in Nat
  BY DEF FibonacciHeap
<1>4. s # "Idle" /\ LocalVarsCount(s) = 0
  BY DEF FibonacciStates, LocalVarsCount
<1>5. \A vs : GlobalStep(s, vs, heap) = FibonacciStep(s, heap)
  BY DEF GlobalStep, MessageStates, UserStates, DivisorsStates, FibonacciStates, FactorialStates
<1>6. ASSUME NEW res, NEW h \in FibonacciHeap, NEW next \in FibonacciStates,
             FibonacciStep(s, heap) = [res |-> res, heap |-> h], Moves(res, next)
      PROVE  GoesOn(m, op, task)
  <2>1. ReadyBare(next, h) /\ h \in Heaps /\ next \in TaskStates
    BY BareFibonacci DEF Heaps, TaskStates
  <2>2. \A vs : GlobalStep(s, vs, task.heap) = [res |-> res, heap |-> h]
    BY <1>2, <1>5, <1>6
  <2>. QED BY <1>1, <1>4, <1>6, <2>1, <2>2, BareGoesOn
<1>7. ASSUME NEW text,
             FibonacciStep(s, heap) = [res |-> Write(text, "Completed"), heap |-> heap]
      PROVE  GoesOn(m, op, task)
  <2>1. PICK next \in TaskStates : next = "Completed"
    BY DEF TaskStates
  <2>2. PICK res : res = Write(text, next)
    OBVIOUS
  <2>3. ReadyBare(next, heap) /\ heap \in Heaps /\ Moves(res, next)
    BY <2>1, <2>2, BareCompleted DEF Heaps, Moves
  <2>4. \A vs : GlobalStep(s, vs, task.heap) = [res |-> res, heap |-> heap]
    BY <1>2, <1>5, <1>7, <2>1, <2>2
  <2>. QED BY <1>1, <1>4, <2>3, <2>4, BareGoesOn
<1>8. CASE s = "FibonacciTaskBegin"
  <2>1. CASE heap.n <= 1
    <3>1. FibonacciStep(s, heap) =
             [res |-> Write(Text("fib", heap.n, heap.n), "Completed"), heap |-> heap]
      BY <1>3, <1>8, <2>1 DEF FibonacciStep
    <3>. QED BY <1>7, <3>1
  <2>2. CASE ~ (heap.n <= 1)
    <3>1. PICK h \in FibonacciHeap : h = [heap EXCEPT !.index = 1, !.a = 0, !.b = 1]
      BY <1>3 DEF FibonacciHeap
    <3>2. PICK next \in FibonacciStates : next = "FibonacciTaskCalculate"
      BY DEF FibonacciStates
    <3>3. PICK res : res = Goto(next)
      OBVIOUS
    <3>4. FibonacciStep(s, heap) = [res |-> res, heap |-> h]
      BY <1>3, <1>8, <2>2, <3>1, <3>2, <3>3 DEF FibonacciStep
    <3>5. Moves(res, next)
      BY <3>3 DEF Moves
    <3>. QED BY <1>6, <3>4, <3>5
  <2>. QED BY <2>1, <2>2
<1>9. CASE s = "FibonacciTaskCalculate"
  <2>1. CASE heap.index >= heap.n
    <3>2. PICK next \in FibonacciStates : next = "FibonacciTaskResult"
      BY DEF FibonacciStates
    <3>3. PICK res : res = Goto(next)
      OBVIOUS
    <3>4. FibonacciStep(s, heap) = [res |-> res, heap |-> heap]
      BY <1>3, <1>9, <2>1, <3>2, <3>3 DEF FibonacciStep
    <3>5. Moves(res, next)
      BY <3>3 DEF Moves
    <3>. QED BY <1>6, <3>4, <3>5
  <2>2. CASE ~ (heap.index >= heap.n)
    <3>6. PICK ms \in Nat : ms = U64(5 * heap.index)
      <4>1. 5 * heap.index \in Nat
        BY <1>3
      <4>. QED BY <4>1, CutIsNat
    <3>7. PICK h \in FibonacciHeap : h = [heap EXCEPT !.delay_ms = ms]
      BY DEF FibonacciHeap
    <3>1. h = [heap EXCEPT !.delay_ms = U64(5 * heap.index)]
      BY <3>6, <3>7
    <3>2. PICK next \in FibonacciStates : next = "FibonacciTaskStep"
      BY DEF FibonacciStates
    <3>3. PICK res : res = Write(Text("fib_step", heap.index, heap.b), next)
      OBVIOUS
    <3>4. FibonacciStep(s, heap) = [res |-> res, heap |-> h]
      BY <1>3, <1>9, <2>2, <3>1, <3>2, <3>3 DEF FibonacciStep
    <3>5. Moves(res, next)
      BY <3>3 DEF Moves
    <3>. QED BY <1>6, <3>4, <3>5
  <2>. QED BY <2>1, <2>2
<1>10. CASE s = "FibonacciTaskStep"
  <2>6. PICK i \in Nat, sum \in Nat : i = heap.index + 1 /\ sum = U64(heap.a + heap.b)
    <3>1. heap.index + 1 \in Nat /\ heap.a + heap.b \in Nat
      BY <1>3
    <3>. QED BY <3>1, CutIsNat
  <2>7. PICK h \in FibonacciHeap : h = [heap EXCEPT !.index = i, !.a = heap.b, !.b = sum]
    BY <1>3 DEF FibonacciHeap
  <2>1. h = [heap EXCEPT !.index = @ + 1, !.a = heap.b, !.b = U64(heap.a + heap.b)]
    BY <2>6, <2>7
  <2>2. PICK next \in FibonacciStates : next = "FibonacciTaskCalculate"
    BY DEF FibonacciStates
  <2>3. PICK res : res = Sleep(heap.delay_ms, next)
    OBVIOUS
  <2>4. FibonacciStep(s, heap) = [res |-> res, heap |-> h]
    BY <1>3, <1>10, <2>1, <2>2, <2>3 DEF FibonacciStep
  <2>5. Moves(res, next)
    BY <1>3, <2>3 DEF Moves
  <2>. QED BY <1>6, <2>4, <2>5
<1>11. CASE s = "FibonacciTaskResult"
  <2>1. FibonacciStep(s, heap) =
           [res |-> Write(Text("fib", heap.n, heap.b), "Completed"), heap |-> heap]
    BY <1>3, <1>11 DEF FibonacciStep
  <2>. QED BY <1>7, <2>1
<1>. QED BY <1>1, <1>8, <1>9, <1>10, <1>11 DEF FibonacciStates

-----------------------------------------------------------------------------
(***************************************************************************)
(* The steps of a factorial, at any depth of the recursion.                *)
(***************************************************************************)
CallEntries(tag, to, n, arg) ==
    <<Value(tag, n), Retrn(to), Value("FactorialArgument", arg),
      State("FactorialRecursiveCall")>>

\* What global_step does in the states of factorial.
LEMMA FactorialStepIs ==
    ASSUME NEW vs, NEW heap, NEW s \in FactorialStates
    PROVE  /\ Len(vs) = 1 /\ vs[1].s = "FactorialInput" /\ s = "FactorialEntry" =>
                 GlobalStep(s, vs, heap) =
                   [res |-> Next_(CallEntries("FactorialInput", "FactorialDone",
                                              vs[1].v, vs[1].v)), heap |-> heap]
           /\ Len(vs) = 1 /\ vs[1].s = "FactorialArgument" /\ s = "FactorialRecursiveCall" =>
                 GlobalStep(s, vs, heap) =
                   [res |-> Write(Text("f", vs[1].v, 0), "FactorialRecursionPostWrite"),
                    heap |-> heap]
           /\ Len(vs) = 1 /\ vs[1].s = "FactorialArgument" /\ s = "FactorialRecursionPostWrite" =>
                 GlobalStep(s, vs, heap) =
                   [res |-> Sleep(U64(vs[1].v * 50), "FactorialRecursionPostSleep"), heap |-> heap]
           /\ Len(vs) = 1 /\ vs[1].s = "FactorialArgument" /\ s = "FactorialRecursionPostSleep"
              /\ vs[1].v > 1 =>
                 GlobalStep(s, vs, heap) =
                   [res |-> Next_(CallEntries("FactorialArgument",
                                              "FactorialRecursionPostRecursiveCall",
                                              vs[1].v, vs[1].v - 1)), heap |-> heap]
           /\ Len(vs) = 1 /\ vs[1].s = "FactorialArgument" /\ s = "FactorialRecursionPostSleep"
              /\ ~ (vs[1].v > 1) =>
                 GlobalStep(s, vs, heap) =
                   [res |-> Return(Value("FactorialReturnValue", 1)), heap |-> heap]
           /\ Len(vs) = 2 /\ vs[1].s = "FactorialReturnValue" /\ vs[2].s = "FactorialArgument"
              /\ s = "FactorialRecursionPostRecursiveCall" =>
                 GlobalStep(s, vs, heap) =
                   [res |-> Return(Value("FactorialReturnValue", U64(vs[1].v * vs[2].v))),
                    heap |-> heap]
           /\ Len(vs) = 2 /\ vs[1].s = "FactorialReturnValue" /\ vs[2].s = "FactorialInput"
              /\ s = "FactorialDone" =>
                 GlobalStep(s, vs, heap) =
                   [res |-> Write(Text("factorial", vs[2].v, vs[1].v), "Completed"),
                    heap |-> heap]
<1>1. GlobalStep(s, vs, heap) = FactorialStep(s, vs, heap)
  BY DEF GlobalStep, MessageStates, UserStates, DivisorsStates, FibonacciStates, FactorialStates
<1>2. Len(vs) = 1 => \A tag : vs[1].s = tag => Holds(vs, <<tag>>)
  BY DEF Holds
<1>3. Len(vs) = 2 => \A a, b : vs[1].s = a /\ vs[2].s = b => Holds(vs, <<a, b>>)
  BY DEF Holds
<1>4. ASSUME Len(vs) = 1, vs[1].s = "FactorialInput", s = "FactorialEntry"
      PROVE  FactorialStep(s, vs, heap) =
                 [res |-> Next_(CallEntries("FactorialInput", "FactorialDone",
                                            vs[1].v, vs[1].v)), heap |-> heap]
  BY <1>2, <1>4 DEF FactorialStep, CallEntries
<1>5. ASSUME Len(vs) = 1, vs[1].s = "FactorialArgument", s = "FactorialRecursiveCall"
      PROVE  FactorialStep(s, vs, heap) =
                 [res |-> Write(Text("f", vs[1].v, 0), "FactorialRecursionPostWrite"),
                  heap |-> heap]
  BY <1>2, <1>5 DEF FactorialStep
<1>6. ASSUME Len(vs) = 1, vs[1].s = "FactorialArgument", s = "FactorialRecursionPostWrite"
      PROVE  FactorialStep(s, vs, heap) =
                 [res |-> Sleep(U64(vs[1].v * 50), "FactorialRecursionPostSleep"), heap |-> heap]
  BY <1>2, <1>6 DEF FactorialStep
<1>7. ASSUME Len(vs) = 1, vs[1].s = "FactorialArgument", s = "FactorialRecursionPostSleep",
             vs[1].v > 1
      PROVE  FactorialStep(s, vs, heap) =
                 [res |-> Next_(CallEntries("FactorialArgument",
                                            "FactorialRecursionPostRecursiveCall",
                                            vs[1].v, vs[1].v - 1)), heap |-> heap]
  BY <1>2, <1>7 DEF FactorialStep, CallEntries
<1>8. ASSUME Len(vs) = 1, vs[1].s = "FactorialArgument", s = "FactorialRecursionPostSleep",
             ~ (vs[1].v > 1)
      PROVE  FactorialStep(s, vs, heap) =
                 [res |-> Return(Value("FactorialReturnValue", 1)), heap |-> heap]
  BY <1>2, <1>8 DEF FactorialStep
<1>9. ASSUME Len(vs) = 2, vs[1].s = "FactorialReturnValue", vs[2].s = "FactorialArgument",
             s = "FactorialRecursionPostRecursiveCall"
      PROVE  FactorialStep(s, vs, heap) =
                 [res |-> Return(Value("FactorialReturnValue", U64(vs[1].v * vs[2].v))),
                  heap |-> heap]
  BY <1>3, <1>9 DEF FactorialStep
<1>10. ASSUME Len(vs) = 2, vs[1].s = "FactorialReturnValue", vs[2].s = "FactorialInput",
              s = "FactorialDone"
       PROVE  FactorialStep(s, vs, heap) =
                  [res |-> Write(Text("factorial", vs[2].v, vs[1].v), "Completed"),
                   heap |-> heap]
  BY <1>3, <1>10 DEF FactorialStep
<1>. QED BY <1>1, <1>4, <1>5, <1>6, <1>7, <1>8, <1>9, <1>10

\* Frames that another stack begins with.
LEMMA FramesKept ==
    ASSUME NEW stk, NEW k \in Nat, Frames(stk, k), NEW t, NEW l \in Nat, l <= k,
           Len(t) \in Nat, Len(t) >= 2 * l + 2, \A i \in 1 .. 2 * l + 2 : t[i] = stk[i]
    PROVE  Frames(t, l)
<1>1. t[1] = stk[1] /\ t[2] = stk[2]
  OBVIOUS
<1>2. ASSUME NEW j \in 1 .. l
      PROVE  /\ Tagged(t[2 * j + 1], "FactorialArgument")
             /\ t[2 * j + 2] = Retrn("FactorialRecursionPostRecursiveCall")
  <2>1. /\ Tagged(stk[2 * j + 1], "FactorialArgument")
        /\ stk[2 * j + 2] = Retrn("FactorialRecursionPostRecursiveCall")
    BY DEF Frames
  <2>2. t[2 * j + 1] = stk[2 * j + 1] /\ t[2 * j + 2] = stk[2 * j + 2]
    OBVIOUS
  <2>. QED BY <2>1, <2>2
<1>. QED BY <1>1, <1>2 DEF Frames

\* A result is handed to the frame below.
CanReturn(u, value, to, back) ==
    /\ u # <<>> /\ u[Len(u)] = Retrn(to) /\ Joined(back, Front(u), <<value, State(to)>>)
    /\ FactorialReady(back)

\* The result of a call meets a return point: of the call above, or of the entry.
LEMMA ResultReturned ==
    ASSUME NEW stk, NEW k \in Nat, Frames(stk, k),
           NEW u \in Seq(Entry), Len(u) = 2 * k + 2, \A i \in 1 .. 2 * k + 2 : u[i] = stk[i],
           NEW value \in Entry, Tagged(value, "FactorialReturnValue")
    PROVE  \E to, back : back \in Seq(Entry) /\ CanReturn(u, value, to, back)
<1>1. PICK to \in TaskStates : u[Len(u)] = Retrn(to)
         /\ to = (IF k = 0 THEN "FactorialDone" ELSE "FactorialRecursionPostRecursiveCall")
  <2>1. CASE k = 0
    BY <2>1 DEF Frames, TaskStates, FactorialStates
  <2>2. CASE k # 0
    <3>1. k \in 1 .. k
      BY <2>2
    <3>2. stk[2 * k + 2] = Retrn("FactorialRecursionPostRecursiveCall")
      BY <3>1 DEF Frames
    <3>3. u[2 * k + 2] = stk[2 * k + 2]
      OBVIOUS
    <3>. QED BY <2>2, <3>2, <3>3 DEF TaskStates, FactorialStates
  <2>. QED BY <2>1, <2>2
<1>2. PICK f : f = Front(u)
  OBVIOUS
<1>3. f \in Seq(Entry) /\ Len(f) = 2 * k + 1 /\ \A i \in 1 .. 2 * k + 1 : f[i] = stk[i]
  <2>1. f = SubSeq(u, 1, 2 * k + 1)
    BY <1>2 DEF Front
  <2>2. \A i \in 1 .. 2 * k + 1 : u[i] \in Entry
    OBVIOUS
  <2>3. PICK n \in Nat : n = 2 * k + 1
    OBVIOUS
  <2>4. f \in Seq(Entry) /\ Len(f) = n /\ \A i \in 1 .. n : f[i] = u[1 + i - 1]
    BY <2>1, <2>2, <2>3, SubSeqProperties
  <2>5. \A i \in 1 .. n : f[i] = u[i]
    BY <2>4
  <2>. QED BY <2>3, <2>4, <2>5
<1>17. PICK st \in Entry : st = State(to)
  BY StateIsEntry
<1>19. <<value, st>> \in Seq(Entry)
  OBVIOUS
<1>18. PICK top \in Seq(Entry) : top = <<value, st>>
  BY <1>19
<1>4. top = <<value, State(to)>>
  BY <1>17, <1>18
<1>5. Len(top) = 2 /\ top[1] = value /\ top[2] = State(to)
  BY <1>4
<1>6. PICK back : back = f \o top
  OBVIOUS
<1>7. PICK a, b : a = 2 * k + 1 /\ b = 2
  OBVIOUS
<1>8. a = Len(f) /\ b = Len(top)
  BY <1>3, <1>5, <1>7
<1>9. IsJoin(Entry, f \o top, f, top, a, b)
  BY <1>3, <1>8, JoinIs
<1>10. IsJoin(Entry, back, f, top, a, b)
  BY <1>6, <1>9
<1>11. back \in Seq(Entry) /\ Len(back) = 2 * k + 3
  BY <1>7, <1>10 DEF IsJoin
<1>12. \A i \in 1 .. 2 * k + 1 : back[i] = stk[i]
  BY <1>3, <1>7, <1>10 DEF IsJoin
<1>13. back[2 * k + 2] = value /\ back[2 * k + 3] = State(to)
  <2>1. a + 1 \in a + 1 .. a + b /\ (a + 1) - a = 1 /\ a + 2 \in a + 1 .. a + b /\ (a + 2) - a = 2
    BY <1>7
  <2>2. back[a + 1] = top[(a + 1) - a] /\ back[a + 2] = top[(a + 2) - a]
    BY <1>10, <2>1 DEF IsJoin
  <2>3. back[a + 1] = value /\ back[a + 2] = State(to)
    BY <1>5, <2>1, <2>2
  <2>. QED BY <1>7, <2>3
<1>14. FactorialReady(back)
  <2>1. CASE k = 0
    <3>1. OverTwo(back, "FactorialDone", "FactorialInput", "FactorialReturnValue")
      BY <1>1, <1>11, <1>12, <1>13, <2>1 DEF OverTwo, Frames
    <3>. QED BY <3>1 DEF FactorialReady
  <2>2. CASE k # 0
    <3>1. PICK l \in Nat : l = k - 1
      BY <2>2
    <3>2. Len(back) = 2 * l + 5 /\ l <= k
      BY <1>11, <3>1
    <3>3. Frames(back, l)
      BY <1>12, <3>1, <3>2, FramesKept
    <3>4. Tagged(back[2 * l + 3], "FactorialArgument")
      <4>1. k \in 1 .. k /\ 2 * l + 3 = 2 * k + 1 /\ 2 * k + 1 \in 1 .. 2 * k + 1
        BY <2>2, <3>1
      <4>2. Tagged(stk[2 * k + 1], "FactorialArgument")
        BY <4>1 DEF Frames
      <4>. QED BY <1>12, <4>1, <4>2
    <3>5. 2 * l + 4 = 2 * k + 2 /\ 2 * l + 5 = 2 * k + 3
      BY <3>1
    <3>6. /\ Tagged(back[2 * l + 4], "FactorialReturnValue")
          /\ back[2 * l + 5] = State("FactorialRecursionPostRecursiveCall")
      BY <1>1, <1>13, <2>2, <3>5
    <3>7. Returning(back, l)
      BY <3>2, <3>3, <3>4, <3>6 DEF Returning
    <3>. QED BY <3>7 DEF FactorialReady
  <2>. QED BY <2>1, <2>2
<1>15. u # <<>>
  OBVIOUS
<1>16. Joined(back, Front(u), <<value, State(to)>>)
  BY <1>2, <1>4, <1>6 DEF Joined
<1>. QED BY <1>1, <1>11, <1>14, <1>15, <1>16 DEF CanReturn

\* A call that begins, over the frames below.
CallOn(all, u, base, tag, to) ==
    /\ all \in Seq(Entry) /\ Len(all) = base + 4
    /\ \A i \in 1 .. base : all[i] = u[i]
    /\ Tagged(all[base + 1], tag) /\ all[base + 2] = Retrn(to)
    /\ Tagged(all[base + 3], "FactorialArgument")
    /\ all[base + 4] = State("FactorialRecursiveCall")

\* A call: the frame of the caller with its return point, and the frame of the callee.
LEMMA CallMade ==
    ASSUME NEW u \in Seq(Entry), NEW base \in Nat, Len(u) = base, NEW tag \in Tags,
           NEW to \in TaskStates, NEW n \in Nat, NEW arg \in Nat,
           NEW all, Joined(all, u, CallEntries(tag, to, n, arg))
    PROVE  CallOn(all, u, base, tag, to)
<1>1. PICK e1 \in Entry, e2 \in Entry : e1 = Value(tag, n) /\ e2 = Retrn(to)
  BY StateIsEntry, ValueIsEntry
<1>2. PICK e3 \in Entry : e3 = Value("FactorialArgument", arg)
  BY ValueIsEntry DEF Tags
<1>3. PICK e4 \in Entry : e4 = State("FactorialRecursiveCall")
  BY StateIsEntry DEF TaskStates, FactorialStates
<1>16. <<e1, e2, e3, e4>> \in Seq(Entry)
  OBVIOUS
<1>4. PICK c \in Seq(Entry) : c = <<e1, e2, e3, e4>>
  BY <1>16
<1>5. Len(c) = 4 /\ c[1] = e1 /\ c[2] = e2 /\ c[3] = e3 /\ c[4] = e4
  BY <1>4
<1>6. all = u \o c
  BY <1>1, <1>2, <1>3, <1>4 DEF Joined, CallEntries
<1>7. PICK b : b = 4
  OBVIOUS
<1>8. b = Len(c)
  BY <1>5, <1>7
<1>9. IsJoin(Entry, u \o c, u, c, base, b)
  BY <1>8, JoinIs
<1>10. IsJoin(Entry, all, u, c, base, b)
  BY <1>6, <1>9
<1>11. \A j \in 1 .. 4 : base + j \in base + 1 .. base + b /\ (base + j) - base = j
  BY <1>7
<1>12. \A j \in 1 .. 4 : all[base + j] = c[j]
  BY <1>10, <1>11 DEF IsJoin
<1>13. all[base + 1] = e1 /\ all[base + 2] = e2 /\ all[base + 3] = e3 /\ all[base + 4] = e4
  BY <1>5, <1>12
<1>14. Tagged(e1, tag) /\ Tagged(e3, "FactorialArgument")
  BY <1>1, <1>2 DEF Tagged, Value
<1>15. all \in Seq(Entry) /\ Len(all) = base + 4 /\ \A i \in 1 .. base : all[i] = u[i]
  BY <1>7, <1>10 DEF IsJoin
<1>. QED BY <1>1, <1>3, <1>13, <1>14, <1>15 DEF CallOn

\* The first call of factorial.
LEMMA FactorialEntered ==
    ASSUME NEW m, NEW op, op.ts \in Nat, NEW task \in Tasks,
           OverOne(task.stack, "FactorialEntry", "FactorialInput")
    PROVE  GoesOn(m, op, task)
<1>1. PICK stk \in Seq(Entry) : stk = task.stack
  BY DEF Tasks
<1>2. PICK heap \in Heaps : heap = task.heap
  BY DEF Tasks
<1>3. PICK s \in FactorialStates : s = "FactorialEntry"
  BY DEF FactorialStates
<1>4. LocalVarsCount(s) = 1 /\ s # "Idle"
  BY <1>3 DEF LocalVarsCount
<1>5. PICK one \in Nat : one = 1
  OBVIOUS
<1>6. PICK u, vs : u = Under(stk, one) /\ vs = Locals(stk, one)
  OBVIOUS
<1>7. /\ Fits(stk, s, one) /\ stk # <<>> /\ stk[Len(stk)] = State(s)
      /\ Len(vs) = 1 /\ Len(u) = 0 /\ u \in Seq(Entry)
      /\ vs[1].s = "FactorialInput" /\ vs[1].v \in Nat
  BY <1>1, <1>3, <1>4, <1>5, <1>6, OneLocal
<1>8. PICK n \in Nat : n = vs[1].v
  BY <1>7
<1>9. PICK tag \in Tags, to \in TaskStates : tag = "FactorialInput" /\ to = "FactorialDone"
  BY DEF Tags, TaskStates, FactorialStates
<1>10. PICK entries : entries = CallEntries(tag, to, n, n)
  OBVIOUS
<1>11. PICK all : all = u \o entries
  OBVIOUS
<1>12. PICK base \in Nat : base = 0
  OBVIOUS
<1>13. Joined(all, u, CallEntries(tag, to, n, n))
  BY <1>10, <1>11 DEF Joined
<1>14. /\ all \in Seq(Entry) /\ Len(all) = base + 4
       /\ Tagged(all[base + 1], tag) /\ all[base + 2] = Retrn(to)
       /\ Tagged(all[base + 3], "FactorialArgument")
       /\ all[base + 4] = State("FactorialRecursiveCall")
  <2>1. Len(u) = base
    BY <1>7, <1>12
  <2>2. CallOn(all, u, base, tag, to)
    BY <1>7, <1>13, <2>1, CallMade
  <2>. QED BY <2>2 DEF CallOn
<1>15. Calling(all, base, "FactorialRecursiveCall")
  BY <1>9, <1>12, <1>14 DEF Calling, Frames
<1>16. Ready(all, heap)
  BY <1>15 DEF Ready, GoingOn, FactorialReady, CallStates
<1>17. Steps(task, s, one, Next_(entries), heap)
  <2>1. GlobalStep(s, vs, heap) = [res |-> Next_(entries), heap |-> heap]
    BY <1>3, <1>7, <1>8, <1>9, <1>10, FactorialStepIs
  <2>. QED BY <1>1, <1>2, <1>6, <2>1 DEF Steps
<1>18. Fits(task.stack, s, one) /\ Joined(all, Under(task.stack, one), entries)
  BY <1>1, <1>6, <1>7, <1>11 DEF Joined
<1>19. Continues(Runs(m, op, task, s), m, op.id)
  BY <1>14, <1>16, <1>17, <1>18, NextStep
<1>. QED BY <1>1, <1>7, <1>19, TopRuns

\* What a running call finds.
LEMMA CallLocals ==
    ASSUME NEW stk \in Seq(Entry), NEW k \in Nat, NEW s \in CallStates, Calling(stk, k, s),
           NEW one \in Nat, one = 1
    PROVE  /\ Fits(stk, s, one) /\ stk # <<>> /\ stk[Len(stk)] = State(s)
           /\ Len(Locals(stk, one)) = 1 /\ Locals(stk, one)[1].s = "FactorialArgument"
           /\ Locals(stk, one)[1].v \in Nat
           /\ Under(stk, one) \in Seq(Entry) /\ Len(Under(stk, one)) = 2 * k + 2
           /\ \A i \in 1 .. 2 * k + 2 : Under(stk, one)[i] = stk[i]
<1>1. /\ Len(stk) = 2 * k + 4 /\ Tagged(stk[2 * k + 3], "FactorialArgument")
      /\ stk[2 * k + 4] = State(s)
  BY DEF Calling
<1>2. stk[2 * k + 3] \in Entry
  BY <1>1
<1>3. /\ stk[2 * k + 3].e = "Value" /\ stk[2 * k + 3].s = "FactorialArgument"
      /\ stk[2 * k + 3].v \in Nat
  BY <1>1, <1>2 DEF Tagged, Entry
<1>4. one < Len(stk)
  BY <1>1
<1>5. PICK u, l : u = Under(stk, one) /\ l = Locals(stk, one)
  OBVIOUS
<1>6. u \in Seq(Entry) /\ Len(u) = Len(stk) - 1 - one /\ Len(l) = one
  BY <1>4, <1>5, SlicesAre
<1>7. \A i \in 1 .. one : l[i] = stk[Len(stk) - i]
  BY <1>4, <1>5, SlicesAre
<1>8. \A i \in 1 .. Len(stk) - 1 - one : u[i] = stk[i]
  BY <1>4, <1>5, SlicesAre
<1>9. 1 \in 1 .. one /\ Len(stk) - 1 = 2 * k + 3 /\ Len(stk) - 1 - one = 2 * k + 2
  BY <1>1
<1>10. l[1] = stk[2 * k + 3] /\ Len(u) = 2 * k + 2 /\ \A i \in 1 .. 2 * k + 2 : u[i] = stk[i]
  BY <1>6, <1>7, <1>8, <1>9
<1>11. s # "Idle" /\ LocalVarsCount(s) = one
  BY DEF CallStates, LocalVarsCount
<1>12. \A i \in 1 .. one : stk[Len(stk) - i].e = "Value"
  BY <1>3, <1>9
<1>13. Fits(stk, s, one)
  BY <1>4, <1>11, <1>12 DEF Fits
<1>14. stk # <<>> /\ stk[Len(stk)] = State(s)
  BY <1>1
<1>15. Len(l) = 1
  BY <1>6
<1>. QED BY <1>3, <1>5, <1>6, <1>10, <1>13, <1>14, <1>15
\* A running call goes to another state of its frame.
LEMMA RetopCalling ==
    ASSUME NEW stk \in Seq(Entry), NEW k \in Nat, NEW s, Calling(stk, k, s),
           NEW next \in TaskStates
    PROVE  Calling(Retop(stk, next), k, next)
<1>1. PICK t : t = Retop(stk, next)
  OBVIOUS
<1>2. Len(stk) = 2 * k + 4 /\ Frames(stk, k) /\ Tagged(stk[2 * k + 3], "FactorialArgument")
  BY DEF Calling
<1>3. stk # <<>>
  BY <1>2
<1>4. Replaced(Entry, t, stk, Len(stk), State(next))
  BY <1>1, <1>3, RetopIs
<1>5. /\ Len(t) = 2 * k + 4 /\ t[2 * k + 4] = State(next)
      /\ \A i \in 1 .. 2 * k + 3 : t[i] = stk[i]
  BY <1>2, <1>4 DEF Replaced
<1>6. t[2 * k + 3] = stk[2 * k + 3] /\ \A i \in 1 .. 2 * k + 2 : t[i] = stk[i]
  BY <1>5
<1>7. Frames(t, k)
  BY <1>2, <1>5, <1>6, FramesKept
<1>8. Calling(t, k, next)
  BY <1>2, <1>5, <1>6, <1>7 DEF Calling
<1>. QED BY <1>1, <1>8

\* The result goes back to the frame below.
LEMMA ResultGoesOn ==
    ASSUME NEW m, NEW op, op.ts \in Nat, NEW task \in Tasks, NEW stk, stk = task.stack,
           NEW k \in Nat, Frames(stk, k), NEW s, NEW l \in Nat, Fits(stk, s, l),
           stk # <<>>, stk[Len(stk)] = State(s), NEW u \in Seq(Entry), u = Under(stk, l),
           Len(u) = 2 * k + 2, \A i \in 1 .. 2 * k + 2 : u[i] = stk[i],
           NEW v \in Nat, NEW heap \in Heaps,
           Steps(task, s, l, Return(Value("FactorialReturnValue", v)), heap)
    PROVE  GoesOn(m, op, task)
<1>1. PICK value \in Entry : value = Value("FactorialReturnValue", v)
  BY ValueIsEntry DEF Tags
<1>2. Tagged(value, "FactorialReturnValue")
  BY <1>1 DEF Tagged, Value
<1>3. PICK to, back : back \in Seq(Entry) /\ CanReturn(u, value, to, back)
  BY <1>2, ResultReturned
<1>4. /\ u # <<>> /\ u[Len(u)] = Retrn(to) /\ Joined(back, Front(u), <<value, State(to)>>)
      /\ FactorialReady(back)
  BY <1>3 DEF CanReturn
<1>5. Ready(back, heap)
  BY <1>4 DEF Ready, GoingOn
<1>6. Steps(task, s, l, Return(value), heap)
  BY <1>1
<1>7. Fits(task.stack, s, l) /\ u = Under(task.stack, l)
  OBVIOUS
<1>8. Continues(Runs(m, op, task, s), m, op.id)
  BY <1>3, <1>4, <1>5, <1>6, <1>7, ReturnStep
<1>. QED BY <1>8, TopRuns

\* A running call recurses, returns one, writes or sleeps.
LEMMA CallGoesOn ==
    ASSUME NEW m, NEW op, op.ts \in Nat, NEW task \in Tasks,
           NEW k \in Nat, NEW s \in CallStates, Calling(task.stack, k, s)
    PROVE  GoesOn(m, op, task)
<1>1. PICK stk \in Seq(Entry) : stk = task.stack
  BY DEF Tasks
<1>2. PICK heap \in Heaps : heap = task.heap
  BY DEF Tasks
<1>3. s \in FactorialStates /\ Calling(stk, k, s)
  BY <1>1 DEF CallStates, FactorialStates
<1>5. PICK one \in Nat : one = 1
  OBVIOUS
<1>6. PICK u, vs : u = Under(stk, one) /\ vs = Locals(stk, one)
  OBVIOUS
<1>7. /\ Fits(stk, s, one) /\ stk # <<>> /\ stk[Len(stk)] = State(s)
      /\ Len(vs) = 1 /\ vs[1].s = "FactorialArgument" /\ vs[1].v \in Nat
  BY <1>3, <1>5, <1>6, CallLocals
<1>8. u \in Seq(Entry) /\ Len(u) = 2 * k + 2 /\ \A i \in 1 .. 2 * k + 2 : u[i] = stk[i]
  BY <1>3, <1>5, <1>6, CallLocals
<1>9. PICK n \in Nat : n = vs[1].v
  BY <1>7
<1>10. ASSUME NEW res, GlobalStep(s, vs, heap) = [res |-> res, heap |-> heap]
       PROVE  Steps(task, s, one, res, heap) /\ Does(task, s, res, heap)
  BY <1>1, <1>2, <1>6, <1>7, <1>10 DEF Steps, Does
<1>11. ASSUME NEW next \in CallStates,
              WritesThen(task, s, next, heap) \/ SleepsThen(task, s, next, heap)
       PROVE  GoesOn(m, op, task)
  <2>1. next \in TaskStates
    BY DEF CallStates, TaskStates, FactorialStates
  <2>2. Calling(Retop(stk, next), k, next)
    BY <1>3, <2>1, RetopCalling
  <2>3. Ready(Retop(stk, next), heap)
    BY <2>2 DEF Ready, GoingOn, FactorialReady
  <2>. QED BY <1>1, <1>7, <1>11, <2>1, <2>3, StepGoesOn
<1>12. CASE s = "FactorialRecursiveCall"
  <2>1. GlobalStep(s, vs, heap) =
           [res |-> Write(Text("f", vs[1].v, 0), "FactorialRecursionPostWrite"), heap |-> heap]
    BY <1>3, <1>7, <1>12, FactorialStepIs
  <2>2. WritesThen(task, s, "FactorialRecursionPostWrite", heap)
    BY <1>10, <2>1 DEF WritesThen
  <2>. QED BY <1>11, <2>2 DEF CallStates
<1>13. CASE s = "FactorialRecursionPostWrite"
  <2>1. GlobalStep(s, vs, heap) =
           [res |-> Sleep(U64(vs[1].v * 50), "FactorialRecursionPostSleep"), heap |-> heap]
    BY <1>3, <1>7, <1>13, FactorialStepIs
  <2>2. PICK ms \in Nat : ms = U64(vs[1].v * 50)
    <3>1. vs[1].v * 50 \in Nat
      BY <1>7
    <3>. QED BY <3>1, CutIsNat
  <2>3. Does(task, s, Sleep(ms, "FactorialRecursionPostSleep"), heap)
    BY <1>10, <2>1, <2>2
  <2>4. SleepsThen(task, s, "FactorialRecursionPostSleep", heap)
    BY <2>3 DEF SleepsThen
  <2>. QED BY <1>11, <2>4 DEF CallStates
<1>14. CASE s = "FactorialRecursionPostSleep" /\ vs[1].v > 1
  <2>1. PICK less \in Nat : less = n - 1
    BY <1>9, <1>14
  <2>2. PICK tag \in Tags, to \in TaskStates :
           tag = "FactorialArgument" /\ to = "FactorialRecursionPostRecursiveCall"
    BY DEF Tags, TaskStates, FactorialStates
  <2>3. PICK entries : entries = CallEntries(tag, to, n, less)
    OBVIOUS
  <2>4. GlobalStep(s, vs, heap) = [res |-> Next_(entries), heap |-> heap]
    BY <1>3, <1>7, <1>9, <1>14, <2>1, <2>2, <2>3, FactorialStepIs
  <2>5. PICK base \in Nat : base = 2 * k + 2
    OBVIOUS
  <2>6. PICK all : all = u \o entries
    OBVIOUS
  <2>7. Joined(all, u, CallEntries(tag, to, n, less)) /\ Len(u) = base
    BY <1>8, <2>3, <2>5, <2>6 DEF Joined
  <2>8. CallOn(all, u, base, tag, to)
    BY <1>8, <2>7, CallMade
  <2>9. PICK d \in Nat : d = k + 1
    OBVIOUS
  <2>10. all \in Seq(Entry) /\ Len(all) = 2 * d + 4 /\ \A i \in 1 .. 2 * k + 2 : all[i] = stk[i]
    BY <1>8, <2>5, <2>8, <2>9 DEF CallOn
  <2>11. Frames(all, k)
    <3>1. Frames(stk, k)
      BY <1>3 DEF Calling
    <3>. QED BY <2>9, <2>10, <3>1, FramesKept
  <2>12. /\ base + 1 = 2 * d + 1 /\ base + 2 = 2 * d + 2 /\ base + 3 = 2 * d + 3
         /\ base + 4 = 2 * d + 4
    BY <2>5, <2>9
  <2>13. /\ Tagged(all[2 * d + 1], "FactorialArgument")
         /\ all[2 * d + 2] = Retrn("FactorialRecursionPostRecursiveCall")
         /\ Tagged(all[2 * d + 3], "FactorialArgument")
         /\ all[2 * d + 4] = State("FactorialRecursiveCall")
    BY <2>2, <2>8, <2>12 DEF CallOn
  <2>14. Frames(all, d)
    <3>1. \A j \in 1 .. d : j \in 1 .. k \/ j = d
      BY <2>9
    <3>2. \A j \in 1 .. d : /\ Tagged(all[2 * j + 1], "FactorialArgument")
                            /\ all[2 * j + 2] = Retrn("FactorialRecursionPostRecursiveCall")
      BY <2>11, <2>13, <3>1 DEF Frames
    <3>. QED BY <2>10, <2>11, <3>2 DEF Frames
  <2>15. Calling(all, d, "FactorialRecursiveCall")
    BY <2>10, <2>13, <2>14 DEF Calling
  <2>16. Ready(all, heap)
    BY <2>15 DEF Ready, GoingOn, FactorialReady, CallStates
  <2>17. Fits(task.stack, s, one) /\ Joined(all, Under(task.stack, one), entries)
    BY <1>1, <1>6, <1>7, <2>6 DEF Joined
  <2>18. Steps(task, s, one, Next_(entries), heap)
    BY <1>10, <2>4
  <2>19. Continues(Runs(m, op, task, s), m, op.id)
    BY <2>10, <2>16, <2>17, <2>18, NextStep
  <2>. QED BY <1>1, <1>7, <2>19, TopRuns
<1>15. CASE s = "FactorialRecursionPostSleep" /\ ~ (vs[1].v > 1)
  <2>1. GlobalStep(s, vs, heap) =
           [res |-> Return(Value("FactorialReturnValue", 1)), heap |-> heap]
    BY <1>3, <1>7, <1>15, FactorialStepIs
  <2>2. Steps(task, s, one, Return(Value("FactorialReturnValue", one)), heap)
    BY <1>5, <1>10, <2>1
  <2>3. Frames(stk, k)
    BY <1>3 DEF Calling
  <2>. QED BY <1>1, <1>6, <1>7, <1>8, <2>2, <2>3, ResultGoesOn
<1>. QED BY <1>12, <1>13, <1>14, <1>15 DEF CallStates

\* A call that has got its result multiplies and returns.
LEMMA ReturnedGoesOn ==
    ASSUME NEW m, NEW op, op.ts \in Nat, NEW task \in Tasks,
           NEW k \in Nat, Returning(task.stack, k)
    PROVE  GoesOn(m, op, task)
<1>1. PICK stk \in Seq(Entry) : stk = task.stack
  BY DEF Tasks
<1>2. PICK heap \in Heaps : heap = task.heap
  BY DEF Tasks
<1>3. PICK s \in FactorialStates : s = "FactorialRecursionPostRecursiveCall"
  BY DEF FactorialStates
<1>4. /\ Frames(stk, k) /\ Len(stk) = 2 * k + 5
      /\ Tagged(stk[2 * k + 3], "FactorialArgument")
      /\ Tagged(stk[2 * k + 4], "FactorialReturnValue")
      /\ stk[2 * k + 5] = State(s)
  BY <1>1, <1>3 DEF Returning
<1>5. PICK two \in Nat : two = 2
  OBVIOUS
<1>6. PICK u, vs : u = Under(stk, two) /\ vs = Locals(stk, two)
  OBVIOUS
<1>7. two < Len(stk)
  BY <1>4, <1>5
<1>8. u \in Seq(Entry) /\ Len(u) = Len(stk) - 1 - two /\ Len(vs) = two
  BY <1>6, <1>7, SlicesAre
<1>9. \A i \in 1 .. two : vs[i] = stk[Len(stk) - i]
  BY <1>6, <1>7, SlicesAre
<1>10. \A i \in 1 .. Len(stk) - 1 - two : u[i] = stk[i]
  BY <1>6, <1>7, SlicesAre
<1>11. Len(u) = 2 * k + 2 /\ \A i \in 1 .. 2 * k + 2 : u[i] = stk[i]
  <2>1. Len(stk) - 1 - two = 2 * k + 2
    BY <1>4, <1>5
  <2>. QED BY <1>8, <1>10, <2>1
<1>12. Len(vs) = 2 /\ vs[1] = stk[2 * k + 4] /\ vs[2] = stk[2 * k + 3]
  <2>1. 1 \in 1 .. two /\ 2 \in 1 .. two /\ Len(stk) - 1 = 2 * k + 4 /\ Len(stk) - 2 = 2 * k + 3
    BY <1>4, <1>5
  <2>. QED BY <1>5, <1>8, <1>9, <2>1
<1>13. stk[2 * k + 3] \in Entry /\ stk[2 * k + 4] \in Entry
  BY <1>4
<1>14. /\ vs[1].s = "FactorialReturnValue" /\ vs[1].v \in Nat /\ vs[1].e = "Value"
       /\ vs[2].s = "FactorialArgument" /\ vs[2].v \in Nat /\ vs[2].e = "Value"
  BY <1>4, <1>12, <1>13 DEF Tagged, Entry
<1>15. LocalVarsCount(s) = two /\ s # "Idle"
  BY <1>3, <1>5 DEF LocalVarsCount
<1>16. \A i \in 1 .. two : stk[Len(stk) - i].e = "Value"
  <2>1. \A i \in 1 .. two : i = 1 \/ i = 2
    BY <1>5
  <2>. QED BY <1>9, <1>14, <2>1
<1>17. Fits(stk, s, two) /\ stk # <<>> /\ stk[Len(stk)] = State(s)
  BY <1>4, <1>7, <1>15, <1>16 DEF Fits
<1>18. PICK v \in Nat : v = U64(vs[1].v * vs[2].v)
  <2>1. vs[1].v * vs[2].v \in Nat
    BY <1>14
  <2>. QED BY <2>1, CutIsNat
<1>19. GlobalStep(s, vs, heap) =
          [res |-> Return(Value("FactorialReturnValue", v)), heap |-> heap]
  BY <1>3, <1>12, <1>14, <1>18, FactorialStepIs
<1>20. Steps(task, s, two, Return(Value("FactorialReturnValue", v)), heap)
  BY <1>1, <1>2, <1>6, <1>19 DEF Steps
<1>. QED BY <1>1, <1>4, <1>6, <1>8, <1>11, <1>17, <1>20, ResultGoesOn

\* The entry has got its result and writes it.
LEMMA FactorialEnds ==
    ASSUME NEW m, NEW op, op.ts \in Nat, NEW task \in Tasks,
           OverTwo(task.stack, "FactorialDone", "FactorialInput", "FactorialReturnValue")
    PROVE  GoesOn(m, op, task)
<1>1. PICK stk \in Seq(Entry) : stk = task.stack
  BY DEF Tasks
<1>2. PICK heap \in Heaps : heap = task.heap
  BY DEF Tasks
<1>3. PICK s \in FactorialStates : s = "FactorialDone"
  BY DEF FactorialStates
<1>4. LocalVarsCount(s) = 2 /\ s # "Idle"
  BY <1>3 DEF LocalVarsCount
<1>5. PICK vs : vs = Locals(stk, 2)
  OBVIOUS
<1>6. /\ Fits(stk, s, 2) /\ stk # <<>> /\ stk[Len(stk)] = State(s)
      /\ Len(vs) = 2 /\ vs[1].s = "FactorialReturnValue" /\ vs[2].s = "FactorialInput"
  BY <1>1, <1>3, <1>4, <1>5, TwoLocals
<1>7. PICK text : text = Text("factorial", vs[2].v, vs[1].v)
  OBVIOUS
<1>8. GlobalStep(s, vs, heap) = [res |-> Write(text, "Completed"), heap |-> heap]
  BY <1>3, <1>6, <1>7, FactorialStepIs
<1>9. Steps(task, s, 2, Write(text, "Completed"), heap)
  BY <1>1, <1>2, <1>5, <1>8 DEF Steps
<1>10. WritesThen(task, s, "Completed", heap)
  BY <1>1, <1>6, <1>9 DEF WritesThen, Does
<1>11. ValuesBelow(stk)
  BY <1>1, OneFrame
<1>. QED BY <1>1, <1>6, <1>10, <1>11, StepCompletes

\* Every step of a task that goes on by itself.
LEMMA TaskGoesOn ==
    ASSUME NEW m, NEW op, op.ts \in Nat, NEW task \in Tasks,
           GoingOn(task.stack, task.heap)
    PROVE  GoesOn(m, op, task)
<1>1. CASE FactorialReady(task.stack)
  BY <1>1, FactorialEntered, CallGoesOn, ReturnedGoesOn, FactorialEnds DEF FactorialReady
<1>2. CASE MessageReady(task.stack)
  BY <1>2, MessageGoesOn
<1>3. CASE DivisorsReady(task.stack, task.heap)
  BY <1>3, DivisorsGoesOn
<1>4. CASE FibonacciReady(task.stack, task.heap)
  BY <1>4, FibonacciGoesOn
<1>. QED BY <1>1, <1>2, <1>3, <1>4 DEF GoingOn

-----------------------------------------------------------------------------
(***************************************************************************)
(* One operation is executed.                                              *)
(***************************************************************************)
LEMMA MachineParts ==
    ASSUME NEW n, NEW tasks, NEW ops, NEW w
    PROVE  /\ Machine(n, tasks, ops, w).next_task_id = n
           /\ Machine(n, tasks, ops, w).active_tasks = tasks
           /\ Machine(n, tasks, ops, w).pending_operations = ops
           /\ Machine(n, tasks, ops, w).awaiter = w
           /\ Machine(n, tasks, ops, w).daemon_user_storage = StorageId
BY DEF Machine

\* The fields of the machine, one by one.
LEMMA MachineSound ==
    ASSUME NEW n, NEW tasks, NEW ops, NEW w, MachineOK(n, tasks, ops, w)
    PROVE  FsmOK(Machine(n, tasks, ops, w))
<1>1. PICK m : m = Machine(n, tasks, ops, w)
  OBVIOUS
<1>2. m.next_task_id = n /\ m.active_tasks = tasks /\ m.pending_operations = ops /\ m.awaiter = w
  BY <1>1, MachineParts
<1>. QED BY <1>1, <1>2 DEF FsmOK

SetTasks(m, tasks) == [m EXCEPT !.active_tasks = tasks]
SetOps(m, ops) == [m EXCEPT !.pending_operations = ops]

LEMMA TasksSet ==
    ASSUME NEW n, NEW tasks, NEW ops, NEW w, NEW t
    PROVE  SetTasks(Machine(n, tasks, ops, w), t) = Machine(n, t, ops, w)
BY DEF SetTasks, Machine

LEMMA OpsSet ==
    ASSUME NEW n, NEW tasks, NEW ops, NEW w, NEW o
    PROVE  SetOps(Machine(n, tasks, ops, w), o) = Machine(n, tasks, o, w)
BY DEF SetOps, Machine

\* What scheduling, keeping and taking a task do to the fields.
LEMMA MachineResumes ==
    ASSUME NEW n, NEW tasks, NEW ops, NEW w, NEW id, NEW task, NEW ts
    PROVE  Resume(Machine(n, tasks, ops, w), id, task, ts) =
              Machine(n, Put(tasks, id, task), Added(ops, Operation(ts, id)), w)
<1>1. PICK t, o : t = Put(tasks, id, task) /\ o = ops (+) SetToBag({Operation(ts, id)})
  OBVIOUS
<1>2. PICK x : x = Machine(n, tasks, ops, w)
  OBVIOUS
<1>3. x.active_tasks = tasks /\ x.pending_operations = ops
  BY <1>2, MachineParts
<1>4. Resume(x, id, task, ts) = SetOps(SetTasks(x, t), o)
  BY <1>1, <1>3 DEF Resume, SetTasks, SetOps
<1>5. SetOps(SetTasks(x, t), o) = Machine(n, t, o, w)
  BY <1>2, TasksSet, OpsSet
<1>. QED BY <1>1, <1>2, <1>4, <1>5 DEF Added

LEMMA MachineKeeps ==
    ASSUME NEW n, NEW tasks, NEW ops, NEW w, NEW id, NEW task
    PROVE  Keep(Machine(n, tasks, ops, w), id, task) = Machine(n, Put(tasks, id, task), ops, w)
BY DEF Keep, Machine

\* The machine the step of a popped operation begins with.
Taken(m, op) ==
    TakeOut([m EXCEPT !.pending_operations = @ (-) SetToBag({op})], op.id)

LEMMA MachineTaken ==
    ASSUME NEW n, NEW tasks, NEW ops, NEW w, NEW op
    PROVE  Taken(Machine(n, tasks, ops, w), op) =
              Machine(n, Out(tasks, op.id), Popped(ops, op), w)
<1>1. PICK r : r = ops (-) SetToBag({op})
  OBVIOUS
<1>2. [Machine(n, tasks, ops, w) EXCEPT !.pending_operations = @ (-) SetToBag({op})]
      = Machine(n, tasks, r, w)
  BY <1>1 DEF Machine
<1>3. TakeOut(Machine(n, tasks, r, w), op.id) = Machine(n, Out(tasks, op.id), r, w)
  BY DEF TakeOut, Machine, Out
<1>. QED BY <1>1, <1>2, <1>3 DEF Taken, Popped

\* The executor finds the task of an operation and a state on top of its stack.
LEMMA RunOperationIs ==
    ASSUME NEW m, NEW op, NEW task, op.id \in DOMAIN m.active_tasks,
           task = m.active_tasks[op.id],
           task.stack # <<>>, Last(task.stack).e = "State"
    PROVE  RunOperation(m, op) = Runs(Taken(m, op), op, task, Last(task.stack).s)
BY DEF RunOperation, Runs, Taken

\* The result leaves a sound machine and no panic.
Sound(r) == r.ok = TRUE /\ FsmOK(r.m)

\* An outcome with a sound machine is sound.
LEMMA OutcomeSound ==
    ASSUME NEW n, NEW tasks, NEW ops, NEW w, MachineOK(n, tasks, ops, w),
           NEW m, m = Machine(n, tasks, ops, w), NEW out
    PROVE  Sound(Outcome(m, out))
<1>1. FsmOK(m)
  BY MachineSound
<1>2. Outcome(m, out).ok = TRUE /\ Outcome(m, out).m = m
  BY DEF Outcome
<1>. QED BY <1>1, <1>2 DEF Sound

\* A task goes on by itself.
LEMMA GoingOnSound ==
    ASSUME NEW n, NEW tasks, NEW ops, NEW w, MachineOK(n, tasks, ops, w),
           NEW op \in DOMAIN ops, op.id # StorageId,
           GoingOn(tasks[op.id].stack, tasks[op.id].heap)
    PROVE  Sound(RunOperation(Machine(n, tasks, ops, w), op))
<1>1. PICK id : id = op.id
  OBVIOUS
<1>2. id \in DOMAIN tasks \ {StorageId} /\ tasks[id] \in Tasks /\ op.ts \in Nat
  BY <1>1, PoppedTask
<1>3. PICK task \in Tasks : task = tasks[id]
  BY <1>2
<1>4. PICK t, o : t = Out(tasks, id) /\ o = Popped(ops, op)
  OBVIOUS
<1>5. MachineOK(n, t, o, w)
  BY <1>1, <1>4, TaskGone
<1>6. PICK m, m2 : m = Machine(n, tasks, ops, w) /\ m2 = Machine(n, t, o, w)
  OBVIOUS
<1>7. GoesOn(m2, op, task)
  BY <1>1, <1>2, <1>3, TaskGoesOn
<1>8. task.stack # <<>> /\ Last(task.stack).e = "State"
  BY <1>7 DEF GoesOn
<1>9. Taken(m, op) = m2
  BY <1>1, <1>4, <1>6, MachineTaken
<1>10. m.active_tasks = tasks
  BY <1>6, MachineParts
<1>11. RunOperation(m, op) = Runs(m2, op, task, Last(task.stack).s)
  BY <1>1, <1>2, <1>3, <1>8, <1>9, <1>10, RunOperationIs
<1>12. Continues(RunOperation(m, op), m2, id)
  BY <1>1, <1>7, <1>11 DEF GoesOn
<1>13. PICK x \in Tasks, ts \in Nat :
          \E out : Ready(x.stack, x.heap) /\ RunOperation(m, op) = Outcome(Resume(m2, id, x, ts), out)
  BY <1>12 DEF Continues
<1>14. PICK out : Ready(x.stack, x.heap) /\ RunOperation(m, op) = Outcome(Resume(m2, id, x, ts), out)
  BY <1>13
<1>15. n \in Nat /\ n <= n /\ id \in 1 .. n - 1 /\ id \notin DOMAIN t
  <2>1. n \in Nat /\ DOMAIN tasks \subseteq 1 .. n - 1 /\ tasks \in [DOMAIN tasks -> Tasks]
    BY DEF MachineOK
  <2>2. DOMAIN t = DOMAIN tasks \ {id}
    BY <1>4, <2>1, OutIs
  <2>. QED BY <1>2, <2>1, <2>2
<1>16. PICK t3, o3 : t3 = Put(t, id, x) /\ o3 = Added(o, Operation(ts, id))
  OBVIOUS
<1>17. MachineOK(n, t3, o3, w)
  BY <1>5, <1>14, <1>15, <1>16, TaskScheduled
<1>18. Resume(m2, id, x, ts) = Machine(n, t3, o3, w)
  BY <1>6, <1>16, MachineResumes
<1>19. Sound(Outcome(Resume(m2, id, x, ts), out))
  BY <1>17, <1>18, OutcomeSound
<1>. QED BY <1>6, <1>14, <1>19

\* A task is done.
LEMMA CompletedSound ==
    ASSUME NEW n, NEW tasks, NEW ops, NEW w, MachineOK(n, tasks, ops, w),
           NEW op \in DOMAIN ops, op.id # StorageId, CompletedReady(tasks[op.id].stack)
    PROVE  Sound(RunOperation(Machine(n, tasks, ops, w), op))
<1>1. PICK id : id = op.id
  OBVIOUS
<1>2. id \in DOMAIN tasks \ {StorageId} /\ tasks[id] \in Tasks
  BY <1>1, PoppedTask
<1>3. PICK task \in Tasks : task = tasks[id]
  BY <1>2
<1>4. PICK stk \in Seq(Entry) : stk = task.stack
  BY DEF Tasks
<1>5. stk # <<>> /\ stk[Len(stk)] = State("Completed")
  BY <1>1, <1>3, <1>4 DEF CompletedReady
<1>6. Last(stk).e = "State" /\ Last(stk).s = "Completed"
  BY <1>5 DEF Last, State
<1>7. PICK t, o : t = Out(tasks, id) /\ o = Popped(ops, op)
  OBVIOUS
<1>8. MachineOK(n, t, o, w)
  BY <1>1, <1>7, TaskGone
<1>9. PICK m, m2 : m = Machine(n, tasks, ops, w) /\ m2 = Machine(n, t, o, w)
  OBVIOUS
<1>10. Taken(m, op) = m2 /\ m.active_tasks = tasks
  BY <1>1, <1>7, <1>9, MachineTaken, MachineParts
<1>11. RunOperation(m, op) = Runs(m2, op, task, "Completed")
  BY <1>1, <1>2, <1>3, <1>4, <1>5, <1>6, <1>10, RunOperationIs
<1>12. PICK k \in Nat : k = 0
  OBVIOUS
<1>13. Fits(task.stack, "Completed", k)
  BY <1>4, <1>5, <1>12 DEF Fits, LocalVarsCount
<1>14. PICK heap : heap = task.heap
  OBVIOUS
<1>15. \A vs : GlobalStep("Completed", vs, heap) = [res |-> Done, heap |-> heap]
  BY DEF GlobalStep, MessageStates, UserStates, DivisorsStates, FibonacciStates, FactorialStates
<1>16. Steps(task, "Completed", k, Done, heap)
  BY <1>14, <1>15 DEF Steps
<1>17. PICK res : res = Done
  OBVIOUS
<1>18. Steps(task, "Completed", k, res, heap)
  BY <1>16, <1>17
<1>19. PICK x, vs : x = WithStack(task, Under(task.stack, k), heap) /\ vs = Locals(task.stack, k)
  OBVIOUS
<1>20. Runs(m2, op, task, "Completed") = ApplyResult(m2, op, x, vs, res)
  BY <1>13, <1>18, <1>19, RunsResult
<1>21. ApplyResult(m2, op, x, vs, res) = Outcome(m2, {})
  BY <1>17 DEF ApplyResult, Done
<1>22. Sound(Outcome(m2, {}))
  BY <1>8, <1>9, OutcomeSound
<1>. QED BY <1>9, <1>11, <1>20, <1>21, <1>22

\* A task with one local, run: what is left of it and what it finds.
Yields(s, tag, v, res) ==
    \A vs, heap : Len(vs) = 1 /\ vs[1].s = tag /\ vs[1].v = v =>
        GlobalStep(s, vs, heap) = [res |-> res, heap |-> heap]
Applies(r, m, op, res) ==
    \E rest \in Tasks : rest.stack = <<>> /\ \E vs : r = ApplyResult(m, op, rest, vs, res)

\* A state over one local runs: the executor applies the result to the rest.
LEMMA OneLocalRuns ==
    ASSUME NEW n, NEW tasks, NEW ops, NEW w, MachineOK(n, tasks, ops, w),
           NEW op \in DOMAIN ops, op.id # StorageId, NEW s, NEW tag,
           OverOne(tasks[op.id].stack, s, tag), LocalVarsCount(s) = 1, s # "Idle",
           NEW res, NEW v, v = tasks[op.id].stack[1].v, Yields(s, tag, v, res)
    PROVE  /\ v \in Nat
           /\ Applies(RunOperation(Machine(n, tasks, ops, w), op),
                      Machine(n, Out(tasks, op.id), Popped(ops, op), w), op, res)
<1>1. PICK id : id = op.id
  OBVIOUS
<1>2. id \in DOMAIN tasks \ {StorageId} /\ tasks[id] \in Tasks
  BY <1>1, PoppedTask
<1>3. PICK task \in Tasks : task = tasks[id]
  BY <1>2
<1>4. PICK stk \in Seq(Entry) : stk = task.stack
  BY DEF Tasks
<1>5. PICK heap \in Heaps : heap = task.heap
  BY DEF Tasks
<1>6. PICK one \in Nat : one = 1
  OBVIOUS
<1>7. PICK u, vs : u = Under(stk, one) /\ vs = Locals(stk, one)
  OBVIOUS
<1>8. OverOne(stk, s, tag)
  BY <1>1, <1>3, <1>4
<1>9. /\ Fits(stk, s, one) /\ stk # <<>> /\ stk[Len(stk)] = State(s)
      /\ Len(vs) = 1 /\ Len(u) = 0 /\ u \in Seq(Entry)
      /\ vs[1] = stk[1] /\ stk[1].s = tag /\ stk[1].v \in Nat
  BY <1>6, <1>7, <1>8, OneLocal
<1>10. v = stk[1].v
  BY <1>1, <1>3, <1>4
<1>11. GlobalStep(s, vs, heap) = [res |-> res, heap |-> heap]
  BY <1>9, <1>10 DEF Yields
<1>12. Steps(task, s, one, res, heap) /\ Fits(task.stack, s, one)
  BY <1>4, <1>5, <1>7, <1>9, <1>11 DEF Steps
<1>13. PICK m, m2 : /\ m = Machine(n, tasks, ops, w)
                    /\ m2 = Machine(n, Out(tasks, id), Popped(ops, op), w)
  OBVIOUS
<1>14. Taken(m, op) = m2 /\ m.active_tasks = tasks
  BY <1>1, <1>13, MachineTaken, MachineParts
<1>15. Last(stk).e = "State" /\ Last(stk).s = s
  BY <1>9 DEF Last, State
<1>16. RunOperation(m, op) = Runs(m2, op, task, s)
  BY <1>1, <1>2, <1>3, <1>4, <1>9, <1>14, <1>15, RunOperationIs
<1>17. Runs(m2, op, task, s) =
          ApplyResult(m2, op, WithStack(task, Under(task.stack, one), heap),
                      Locals(task.stack, one), res)
  BY <1>12, RunsResult
<1>18. PICK rest : rest = WithStack(task, u, heap)
  OBVIOUS
<1>19. rest \in Tasks /\ rest.stack = u
  BY <1>9, <1>18, WithStackIsTask
<1>20. u = <<>>
  BY <1>9
<1>21. RunOperation(m, op) = ApplyResult(m2, op, rest, vs, res)
  BY <1>4, <1>7, <1>16, <1>17, <1>18
<1>22. v \in Nat
  BY <1>9, <1>10
<1>23. Applies(RunOperation(m, op), m2, op, res)
  BY <1>19, <1>20, <1>21 DEF Applies
<1>. QED BY <1>1, <1>13, <1>22, <1>23

\* The stack of a task that was empty, with a value and a state, or a state only.
LEMMA PushedOne ==
    ASSUME NEW rest \in Tasks, rest.stack = <<>>, NEW s \in TaskStates
    PROVE  /\ Push(rest, <<State(s)>>) \in Tasks
           /\ Push(rest, <<State(s)>>).stack = <<State(s)>>
           /\ Push(rest, <<State(s)>>) = WithStack(rest, <<State(s)>>, rest.heap)
<1>1. PICK st \in Entry : st = State(s)
  BY StateIsEntry
<1>2. <<st>> \in Seq(Entry) /\ <<>> \o <<st>> = <<st>>
  OBVIOUS
<1>3. PICK stack \in Seq(Entry) : stack = <<st>>
  BY <1>2
<1>4. rest = WithStack(rest, <<>>, rest.heap) /\ rest.heap \in Heaps
  BY DEF Tasks, WithStack
<1>5. Joined(stack, <<>>, stack)
  BY <1>2, <1>3 DEF Joined
<1>6. PICK empty : empty = <<>>
  OBVIOUS
<1>7. Joined(stack, empty, stack) /\ rest = WithStack(rest, empty, rest.heap)
  BY <1>4, <1>5, <1>6
<1>8. Push(rest, stack) = WithStack(rest, stack, rest.heap)
  <2>1. Push(WithStack(rest, empty, rest.heap), stack) = WithStack(rest, stack, rest.heap)
    BY <1>7, PushIs
  <2>. QED BY <1>7, <2>1
<1>9. Push(rest, stack) \in Tasks /\ Push(rest, stack).stack = stack
  BY <1>4, <1>8, WithStackIsTask
<1>. QED BY <1>1, <1>3, <1>8, <1>9

LEMMA PushedTwo ==
    ASSUME NEW rest \in Tasks, rest.stack = <<>>, NEW tag \in Tags, NEW v \in Nat,
           NEW s \in TaskStates
    PROVE  /\ Push(rest, <<Value(tag, v), State(s)>>) \in Tasks
           /\ OverOne(Push(rest, <<Value(tag, v), State(s)>>).stack, s, tag)
<1>1. PICK st \in Entry, val \in Entry : st = State(s) /\ val = Value(tag, v)
  BY StateIsEntry, ValueIsEntry
<1>2. <<val, st>> \in Seq(Entry) /\ <<>> \o <<val, st>> = <<val, st>>
  OBVIOUS
<1>3. PICK stack \in Seq(Entry) : stack = <<val, st>>
  BY <1>2
<1>4. rest = WithStack(rest, <<>>, rest.heap) /\ rest.heap \in Heaps
  BY DEF Tasks, WithStack
<1>5. Joined(stack, <<>>, stack)
  BY <1>2, <1>3 DEF Joined
<1>6. PICK empty : empty = <<>>
  OBVIOUS
<1>7. Joined(stack, empty, stack) /\ rest = WithStack(rest, empty, rest.heap)
  BY <1>4, <1>5, <1>6
<1>8. Push(rest, stack) = WithStack(rest, stack, rest.heap)
  <2>1. Push(WithStack(rest, empty, rest.heap), stack) = WithStack(rest, stack, rest.heap)
    BY <1>7, PushIs
  <2>. QED BY <1>7, <2>1
<1>9. Push(rest, stack) \in Tasks /\ Push(rest, stack).stack = stack
  BY <1>4, <1>8, WithStackIsTask
<1>10. Tagged(val, tag)
  BY <1>1 DEF Tagged, Value
<1>11. Len(stack) = 2 /\ stack[1] = val /\ stack[2] = st
  BY <1>3
<1>12. OverOne(stack, s, tag)
  BY <1>1, <1>10, <1>11 DEF OverOne
<1>. QED BY <1>1, <1>3, <1>9, <1>12

\* A message is sent: to nobody, or to the awaiter.
LEMMA SendSound ==
    ASSUME NEW n, NEW tasks, NEW ops, NEW w, MachineOK(n, tasks, ops, w),
           NEW op \in DOMAIN ops, op.id # StorageId, SendReady(tasks[op.id].stack)
    PROVE  Sound(RunOperation(Machine(n, tasks, ops, w), op))
<1>1. PICK id : id = op.id
  OBVIOUS
<1>2. id \in DOMAIN tasks \ {StorageId} /\ op.ts \in Nat /\ w # id
  BY <1>1, PoppedTask
<1>3. PICK t, o : t = Out(tasks, id) /\ o = Popped(ops, op)
  OBVIOUS
<1>4. MachineOK(n, t, o, w)
  BY <1>1, <1>3, TaskGone
<1>5. PICK m, m2 : m = Machine(n, tasks, ops, w) /\ m2 = Machine(n, t, o, w)
  OBVIOUS
<1>6. PICK s, tag : s = "SenderSendMessage" /\ tag = "SenderInputMessage"
  OBVIOUS
<1>7. PICK v : v = tasks[op.id].stack[1].v
  OBVIOUS
<1>8. PICK res : res = [r |-> "Send", msg |-> v, next |-> "Completed"]
  OBVIOUS
<1>9. Yields(s, tag, v, res)
  <2> SUFFICES ASSUME NEW vs, NEW heap, Len(vs) = 1, vs[1].s = tag, vs[1].v = v
               PROVE  GlobalStep(s, vs, heap) = [res |-> res, heap |-> heap]
    BY DEF Yields
  <2>1. GlobalStep(s, vs, heap) = MessageStep(s, vs, heap)
    BY <1>6 DEF GlobalStep, MessageStates, UserStates, DivisorsStates, FibonacciStates,
                FactorialStates
  <2>2. Holds(vs, <<"SenderInputMessage">>)
    BY <1>6 DEF Holds
  <2>. QED BY <1>6, <1>8, <2>1, <2>2 DEF MessageStep
<1>10. OverOne(tasks[op.id].stack, s, tag) /\ LocalVarsCount(s) = 1 /\ s # "Idle"
  BY <1>6 DEF SendReady, LocalVarsCount
<1>11. v \in Nat /\ Applies(RunOperation(m, op), m2, op, res)
  BY <1>1, <1>3, <1>5, <1>7, <1>9, <1>10, OneLocalRuns
<1>12. PICK rest \in Tasks :
          rest.stack = <<>> /\ \E vs : RunOperation(m, op) = ApplyResult(m2, op, rest, vs, res)
  BY <1>11 DEF Applies
<1>13. PICK vs : RunOperation(m, op) = ApplyResult(m2, op, rest, vs, res)
  BY <1>12
<1>14. res.r = "Send" /\ res.msg = v /\ res.next = "Completed"
  BY <1>8
<1>15. RunOperation(m, op) = OnSend(m2, op, rest, res)
  BY <1>13, <1>14 DEF ApplyResult
<1>16. m2.awaiter = w /\ m2.active_tasks = t
  BY <1>5, MachineParts
<1>17. CASE w = 0
  <2>1. PICK out : OnSend(m2, op, rest, res) = Outcome(m2, out)
    BY <1>16, <1>17 DEF OnSend
  <2>2. Sound(Outcome(m2, out))
    BY <1>4, <1>5, OutcomeSound
  <2>. QED BY <1>5, <1>15, <2>1, <2>2
<1>18. CASE w # 0
  <2>1. /\ n \in Nat /\ DOMAIN tasks \subseteq 1 .. n - 1 /\ tasks \in [DOMAIN tasks -> Tasks]
        /\ w \in DOMAIN tasks \ {StorageId} /\ StorageId \in DOMAIN tasks
    BY <1>18 DEF MachineOK
  <2>2. DOMAIN t = DOMAIN tasks \ {id} /\ t \in [DOMAIN t -> Tasks]
    BY <1>3, <2>1, OutIs
  <2>3. w \in DOMAIN t \ {StorageId} /\ id \notin DOMAIN t /\ n <= n /\ id \in 1 .. n - 1
    BY <1>2, <2>1, <2>2
  <2>4. t[w] \in Tasks /\ t[w].stack = <<>>
    <3>1. Settled(t[w], o, t[StorageId].in_queue, w, w)
      BY <1>4, <2>3 DEF MachineOK
    <3>. QED BY <2>2, <2>3, <3>1 DEF Settled
  <2>5. PICK sender \in Tasks : /\ sender = Push(rest, <<State("Completed")>>)
                                /\ sender.stack = <<State("Completed")>>
    BY <1>12, PushedOne DEF TaskStates
  <2>6. Ready(sender.stack, sender.heap)
    <3>1. PICK stk : stk = sender.stack
      OBVIOUS
    <3>2. Len(stk) = 1 /\ stk[Len(stk)] = State("Completed") /\ stk # <<>>
      BY <2>5, <3>1
    <3>3. ValuesBelow(stk)
      BY <3>2 DEF ValuesBelow
    <3>. QED BY <3>1, <3>2, <3>3 DEF Ready, CompletedReady
  <2>7. PICK x \in Tasks : x = t[w] /\ x.stack = <<>>
    BY <2>4
  <2>8. PICK tg \in Tags, st \in TaskStates :
           tg = "AwaiterInputMessage" /\ st = "WaiterWaitMessageAwaiting"
    BY DEF Tags, TaskStates, MessageStates
  <2>9. PICK woken \in Tasks : /\ woken = Push(x, <<Value(tg, v), State(st)>>)
                               /\ OverOne(woken.stack, st, tg)
    BY <1>11, <2>7, PushedTwo
  <2>10. Ready(woken.stack, woken.heap)
    BY <2>8, <2>9 DEF Ready, GoingOn, MessageReady
  <2>11. PICK t1, o1 : t1 = Put(t, id, sender) /\ o1 = Added(o, Operation(op.ts, id))
    OBVIOUS
  <2>12. PICK ts \in Nat : ts = op.ts
    BY <1>2
  <2>13. MachineOK(n, t1, o1, w)
    BY <1>4, <2>1, <2>3, <2>6, <2>11, <2>12, TaskScheduled
  <2>14. PICK t2, o2 : t2 = Put(t1, w, woken) /\ o2 = Added(o1, Operation(ts, w))
    OBVIOUS
  <2>15. MachineOK(n, t2, o2, 0)
    BY <1>18, <2>10, <2>13, <2>14, AwaiterWoken
  <2>16. PICK m3 : m3 = [m2 EXCEPT !.awaiter = 0]
    OBVIOUS
  <2>17. m3 = Machine(n, t, o, 0)
    BY <1>5, <2>16 DEF Machine
  <2>18. PICK m4 : m4 = Resume(m3, id, sender, ts)
    OBVIOUS
  <2>19. m4 = Machine(n, t1, o1, 0)
    BY <2>11, <2>12, <2>17, <2>18, MachineResumes
  <2>20. PICK m5 : m5 = Resume(m4, w, woken, ts)
    OBVIOUS
  <2>21. m5 = Machine(n, t2, o2, 0)
    BY <2>14, <2>19, <2>20, MachineResumes
  <2>22. PICK out : OnSend(m2, op, rest, res) = Outcome(m5, out)
    <3>1. w \in DOMAIN m2.active_tasks /\ m2.active_tasks[w] = x
      BY <1>16, <2>3, <2>7
    <3>2. Push(rest, <<State(res.next)>>) = sender
      BY <1>14, <2>5
    <3>3. Push(x, <<Value("AwaiterInputMessage", res.msg), State("WaiterWaitMessageAwaiting")>>)
          = woken
      BY <1>14, <2>8, <2>9
    <3>. QED BY <1>1, <1>16, <1>18, <2>12, <2>16, <2>18, <2>20, <3>1, <3>2, <3>3 DEF OnSend
  <2>23. Sound(Outcome(m5, out))
    BY <2>15, <2>21, OutcomeSound
  <2>. QED BY <1>5, <1>15, <2>22, <2>23
<1>. QED BY <1>17, <1>18
\* A user is asked for: the request is queued at the storage, which is woken.
LEMMA AskSound ==
    ASSUME NEW n, NEW tasks, NEW ops, NEW w, MachineOK(n, tasks, ops, w),
           NEW op \in DOMAIN ops, op.id # StorageId, AskReady(tasks[op.id].stack)
    PROVE  Sound(RunOperation(Machine(n, tasks, ops, w), op))
<1>1. PICK id : id = op.id
  OBVIOUS
<1>2. id \in DOMAIN tasks \ {StorageId} /\ op.ts \in Nat
  BY <1>1, PoppedTask
<1>3. PICK t, o : t = Out(tasks, id) /\ o = Popped(ops, op)
  OBVIOUS
<1>4. MachineOK(n, t, o, w)
  BY <1>1, <1>3, TaskGone
<1>5. PICK m, m2 : m = Machine(n, tasks, ops, w) /\ m2 = Machine(n, t, o, w)
  OBVIOUS
<1>6. PICK s, tag : s = "RequesterGetUserRequest" /\ tag = "RequesterGetUserInput"
  OBVIOUS
<1>7. PICK v : v = tasks[op.id].stack[1].v
  OBVIOUS
<1>8. PICK res : res = [r |-> "SendGetUserRequestIM", user |-> v]
  OBVIOUS
<1>9. Yields(s, tag, v, res)
  <2> SUFFICES ASSUME NEW vs, NEW heap, Len(vs) = 1, vs[1].s = tag, vs[1].v = v
               PROVE  GlobalStep(s, vs, heap) = [res |-> res, heap |-> heap]
    BY DEF Yields
  <2>1. GlobalStep(s, vs, heap) = UserStep(s, vs, heap)
    BY <1>6 DEF GlobalStep, MessageStates, UserStates, DivisorsStates, FibonacciStates,
                FactorialStates
  <2>2. Holds(vs, <<"RequesterGetUserInput">>)
    BY <1>6 DEF Holds
  <2>. QED BY <1>6, <1>8, <2>1, <2>2 DEF UserStep
<1>10. OverOne(tasks[op.id].stack, s, tag) /\ LocalVarsCount(s) = 1 /\ s # "Idle"
  BY <1>6 DEF AskReady, LocalVarsCount
<1>11. v \in Nat /\ Applies(RunOperation(m, op), m2, op, res)
  BY <1>1, <1>3, <1>5, <1>7, <1>9, <1>10, OneLocalRuns
<1>12. PICK rest \in Tasks :
          rest.stack = <<>> /\ \E vs : RunOperation(m, op) = ApplyResult(m2, op, rest, vs, res)
  BY <1>11 DEF Applies
<1>13. PICK vs : RunOperation(m, op) = ApplyResult(m2, op, rest, vs, res)
  BY <1>12
<1>14. res.r = "SendGetUserRequestIM" /\ res.user = v
  BY <1>8
<1>15. RunOperation(m, op) = OnSendGetUserRequest(m2, op, rest, res)
  BY <1>13, <1>14 DEF ApplyResult
<1>16. m2.daemon_user_storage = StorageId /\ m2.active_tasks = t
  BY <1>5, MachineParts
<1>17. /\ n \in Nat /\ DOMAIN tasks \subseteq 1 .. n - 1 /\ tasks \in [DOMAIN tasks -> Tasks]
       /\ StorageId \in DOMAIN tasks
  BY DEF MachineOK
<1>18. DOMAIN t = DOMAIN tasks \ {id} /\ t \in [DOMAIN t -> Tasks]
  BY <1>3, <1>17, OutIs
<1>19. StorageId \in DOMAIN t /\ id \notin DOMAIN t /\ id \in 1 .. n - 1 /\ id \in Nat
  BY <1>2, <1>17, <1>18
<1>20. PICK old \in Tasks : old = t[StorageId]
  BY <1>18, <1>19
<1>21. PICK msg \in Message : msg = [user |-> v, from |-> id]
  BY <1>11, <1>19 DEF Message
<1>35. old.in_queue \in Seq(Message)
  BY DEF Tasks
<1>36. Append(old.in_queue, msg) \in Seq(Message)
  BY <1>35
<1>22. PICK q \in Seq(Message) : q = Append(old.in_queue, msg)
  BY <1>36
<1>23. PICK storage : storage = [old EXCEPT !.in_queue = q]
  OBVIOUS
<1>24. /\ storage \in Tasks /\ storage.stack = old.stack /\ storage.heap = old.heap
       /\ storage.in_queue = q
  BY <1>23 DEF Tasks
<1>25. PICK ts \in Nat : ts = op.ts
  BY <1>2
<1>26. PICK t1, o1 : t1 = Put(t, StorageId, storage) /\ o1 = Added(o, Operation(ts, StorageId))
  OBVIOUS
<1>27. PICK t2 : t2 = Put(t1, id, rest)
  OBVIOUS
<1>28. MachineOK(n, t2, o1, w)
  <2>1. /\ storage.stack = t[StorageId].stack /\ storage.heap = t[StorageId].heap
        /\ storage.in_queue = Append(t[StorageId].in_queue, msg) /\ msg.from = id
    BY <1>20, <1>21, <1>22, <1>24
  <2>2. MachineOK(n, Put(Put(t, StorageId, storage), id, rest),
                  Added(o, Operation(ts, StorageId)), w)
    BY <1>4, <1>12, <1>19, <1>24, <2>1, StorageAsked
  <2>. QED BY <1>26, <1>27, <2>2
<1>29. PICK m3 : m3 = Resume(m2, StorageId, storage, ts)
  OBVIOUS
<1>30. m3 = Machine(n, t1, o1, w)
  BY <1>5, <1>26, <1>29, MachineResumes
<1>31. PICK m4 : m4 = Keep(m3, id, rest)
  OBVIOUS
<1>32. m4 = Machine(n, t2, o1, w)
  BY <1>27, <1>30, <1>31, MachineKeeps
<1>33. OnSendGetUserRequest(m2, op, rest, res) = Outcome(m4, {})
  <2>1. [m2.active_tasks[StorageId] EXCEPT !.in_queue = Append(@, [user |-> res.user, from |-> op.id])]
        = storage
    BY <1>1, <1>14, <1>16, <1>20, <1>21, <1>22, <1>23
  <2>2. StorageId # 0 /\ StorageId \in DOMAIN m2.active_tasks
    BY <1>16, <1>19 DEF StorageId
  <2>. QED BY <1>1, <1>16, <1>25, <1>29, <1>31, <2>1, <2>2 DEF OnSendGetUserRequest
<1>34. Sound(Outcome(m4, {}))
  BY <1>28, <1>32, OutcomeSound
<1>. QED BY <1>5, <1>15, <1>33, <1>34

\* The storage runs: what RunState makes of its stack.
LEMMA StorageRuns ==
    ASSUME NEW m, NEW op, NEW task \in Tasks, task.stack = <<State("Idle")>>
    PROVE  Runs(m, op, task, "Idle") = RunIdle(m, op, WithStack(task, <<>>, task.heap))
<1>1. PICK stk : stk = task.stack
  OBVIOUS
<1>2. stk = <<State("Idle")>> /\ Len(stk) = 1 /\ stk \in Seq(Entry)
  BY <1>1 DEF Tasks
<1>3. Front(stk) = <<>>
  BY <1>2 DEF Front
<1>4. PICK t : t = WithStack(task, <<>>, task.heap)
  OBVIOUS
<1>5. [task EXCEPT !.stack = Front(@)] = t
  BY <1>1, <1>3, <1>4 DEF Tasks, WithStack
<1>6. t.stack = <<>>
  BY <1>4, PartsSet
<1>7. LocalVarsCount("Idle") = 0
  BY DEF LocalVarsCount
<1>8. PICK u : u = SubSeq(t.stack, 1, Len(t.stack) - 0)
  OBVIOUS
<1>9. u = <<>>
  BY <1>6, <1>8
<1>10. SetStack(t, u) = t
  BY <1>4, <1>9, StackSet
<1>11. ~ (0 > Len(t.stack)) /\ 1 .. 0 = {}
  BY <1>6
<1>12. RunState(m, op, t, "Idle") = RunIdle(m, op, SetStack(t, u))
  BY <1>7, <1>8, <1>11 DEF RunState, SetStack
<1>. QED BY <1>4, <1>5, <1>10, <1>12 DEF Runs

\* An operation of the storage finds it idle.
LEMMA StorageRun ==
    ASSUME NEW n, NEW tasks, NEW ops, NEW w, MachineOK(n, tasks, ops, w),
           NEW op \in DOMAIN ops, op.id = StorageId
    PROVE  /\ RunOperation(Machine(n, tasks, ops, w), op) =
                 RunIdle(Machine(n, Out(tasks, StorageId), Popped(ops, op), w), op,
                         WithStack(tasks[StorageId], <<>>, StorageHeap))
           /\ tasks[StorageId] \in Tasks /\ tasks[StorageId].stack = <<State("Idle")>>
           /\ tasks[StorageId].heap = StorageHeap /\ op.ts \in Nat
<1>1. PICK task : task = tasks[StorageId]
  OBVIOUS
<1>2. StorageId \in DOMAIN tasks /\ task \in Tasks
  BY <1>1 DEF MachineOK
<1>3. task.stack = <<State("Idle")>> /\ task.heap = StorageHeap
  BY <1>1 DEF MachineOK, StorageOK
<1>4. op.ts \in Nat
  BY DEF MachineOK, OpsOK, OpOK
<1>5. PICK m, m2 : /\ m = Machine(n, tasks, ops, w)
                   /\ m2 = Machine(n, Out(tasks, StorageId), Popped(ops, op), w)
  OBVIOUS
<1>6. Taken(m, op) = m2 /\ m.active_tasks = tasks
  BY <1>5, MachineTaken, MachineParts
<1>7. task.stack # <<>> /\ Last(task.stack) = State("Idle")
  BY <1>3 DEF Last
<1>8. Last(task.stack).e = "State" /\ Last(task.stack).s = "Idle"
  BY <1>7 DEF State
<1>9. RunOperation(m, op) = Runs(m2, op, task, "Idle")
  BY <1>1, <1>2, <1>6, <1>7, <1>8, RunOperationIs
<1>10. Runs(m2, op, task, "Idle") = RunIdle(m2, op, WithStack(task, <<>>, task.heap))
  BY <1>2, <1>3, StorageRuns
<1>. QED BY <1>1, <1>2, <1>3, <1>4, <1>5, <1>9, <1>10

\* The storage finds its queue empty.
LEMMA StorageIdleSound ==
    ASSUME NEW n, NEW tasks, NEW ops, NEW w, MachineOK(n, tasks, ops, w),
           NEW op \in DOMAIN ops, op.id = StorageId, tasks[StorageId].in_queue = <<>>
    PROVE  Sound(RunOperation(Machine(n, tasks, ops, w), op))
<1>1. PICK task \in Tasks : task = tasks[StorageId]
  BY StorageRun
<1>2. task.stack = <<State("Idle")>> /\ task.heap = StorageHeap /\ task.in_queue = <<>>
  BY <1>1, StorageRun
<1>3. PICK m, m2 : /\ m = Machine(n, tasks, ops, w)
                   /\ m2 = Machine(n, Out(tasks, StorageId), Popped(ops, op), w)
  OBVIOUS
<1>4. PICK x : x = WithStack(task, <<>>, StorageHeap)
  OBVIOUS
<1>5. RunOperation(m, op) = RunIdle(m2, op, x)
  BY <1>1, <1>3, <1>4, StorageRun
<1>6. x.stack = <<>> /\ x.in_queue = <<>> /\ x.heap = StorageHeap
  BY <1>2, <1>4 DEF WithStack
<1>7. x \in Tasks
  <2>1. StorageHeap \in Heaps /\ <<>> \in Seq(Entry)
    BY DEF Heaps
  <2>. QED BY <1>4, <2>1, WithStackIsTask
<1>8. Push(x, <<State("Idle")>>) = task
  <2>1. "Idle" \in TaskStates
    BY DEF TaskStates, UserStates
  <2>2. Push(x, <<State("Idle")>>) = WithStack(x, <<State("Idle")>>, x.heap)
    BY <1>6, <1>7, <2>1, PushedOne
  <2>3. WithStack(x, <<State("Idle")>>, x.heap) = WithStack(task, task.stack, task.heap)
    BY <1>2, <1>4, <1>6 DEF WithStack
  <2>4. WithStack(task, task.stack, task.heap) = task
    BY DEF WithStack, Tasks
  <2>. QED BY <2>2, <2>3, <2>4
<1>9. RunIdle(m2, op, x) = Outcome(Keep(m2, StorageId, task), {})
  BY <1>6, <1>8 DEF RunIdle
<1>10. PICK t, o : t = Put(Out(tasks, StorageId), StorageId, task) /\ o = Popped(ops, op)
  OBVIOUS
<1>11. Keep(m2, StorageId, task) = Machine(n, t, o, w)
  BY <1>3, <1>10, MachineKeeps
<1>12. t = tasks
  <2>1. tasks \in [DOMAIN tasks -> Tasks] /\ StorageId \in DOMAIN tasks
    BY DEF MachineOK
  <2>. QED BY <1>1, <1>10, <2>1 DEF Put, Out, Restrict
<1>13. MachineOK(n, t, o, w)
  BY <1>10, <1>12, StorageIdles
<1>14. Sound(Outcome(Keep(m2, StorageId, task), {}))
  BY <1>11, <1>13, OutcomeSound
<1>. QED BY <1>3, <1>5, <1>9, <1>14

\* The storage takes a request from its queue and answers it.
LEMMA StorageAnswerSound ==
    ASSUME NEW n, NEW tasks, NEW ops, NEW w, MachineOK(n, tasks, ops, w),
           NEW op \in DOMAIN ops, op.id = StorageId, tasks[StorageId].in_queue # <<>>
    PROVE  Sound(RunOperation(Machine(n, tasks, ops, w), op))
<1>1. PICK task \in Tasks : task = tasks[StorageId]
  BY StorageRun
<1>2. task.stack = <<State("Idle")>> /\ task.heap = StorageHeap /\ task.in_queue # <<>>
  BY <1>1, StorageRun
<1>3. PICK t, o : t = Out(tasks, StorageId) /\ o = Popped(ops, op)
  OBVIOUS
<1>4. PICK m, m2 : m = Machine(n, tasks, ops, w) /\ m2 = Machine(n, t, o, w)
  OBVIOUS
<1>5. PICK x : x = WithStack(task, <<>>, StorageHeap)
  OBVIOUS
<1>6. RunOperation(m, op) = RunIdle(m2, op, x)
  BY <1>1, <1>3, <1>4, <1>5, StorageRun
<1>7. PICK q \in Seq(Message) : q = task.in_queue
  BY DEF Tasks
<1>8. x.stack = <<>> /\ x.in_queue = q /\ x.heap = StorageHeap
  BY <1>5, <1>7 DEF WithStack
<1>9. x \in Tasks
  <2>1. StorageHeap \in Heaps /\ <<>> \in Seq(Entry)
    BY DEF Heaps
  <2>. QED BY <1>5, <2>1, WithStackIsTask
<1>10. PICK msg \in Message : msg = Head(q)
  BY <1>2, <1>7, QueueShrinks
<1>11. PICK r \in Seq(Message) : r = Tail(q)
  BY <1>2, <1>7, QueueShrinks
<1>12. msg.user \in Nat /\ msg.from \in Nat
  BY DEF Message
<1>13. PICK to : to = msg.from
  OBVIOUS
<1>14. PICK y : y = [x EXCEPT !.in_queue = r]
  OBVIOUS
<1>15. y \in Tasks /\ y.stack = <<>> /\ y.heap = StorageHeap /\ y.in_queue = r
  BY <1>8, <1>9, <1>14 DEF Tasks
<1>16. PICK vs : vs = <<Value("UserStorageGetUserRequestUserId", msg.user),
                        Value("UserStorageGetUserRequestRetTask", msg.from)>>
  OBVIOUS
<1>17. PICK res : res = [r |-> "UserStorageSendResponse", user |-> msg.user, to |-> to]
  OBVIOUS
<1>18. GlobalStep("UsersStorageGetUserRequest", vs, StorageHeap)
       = [res |-> res, heap |-> StorageHeap]
  <2>1. GlobalStep("UsersStorageGetUserRequest", vs, StorageHeap)
        = UserStep("UsersStorageGetUserRequest", vs, StorageHeap)
    BY DEF GlobalStep, MessageStates, UserStates, DivisorsStates, FibonacciStates,
           FactorialStates
  <2>2. /\ Len(vs) = 2 /\ vs[1].s = "UserStorageGetUserRequestUserId"
        /\ vs[2].s = "UserStorageGetUserRequestRetTask" /\ vs[1].v = msg.user
        /\ vs[2].v = msg.from
    BY <1>16 DEF Value
  <2>3. Holds(vs, <<"UserStorageGetUserRequestUserId", "UserStorageGetUserRequestRetTask">>)
    BY <2>2 DEF Holds
  <2>. QED BY <1>13, <1>17, <2>1, <2>2, <2>3 DEF UserStep
<1>19. RunIdle(m2, op, x) = ApplyResult(m2, op, y, vs, res)
  <2>1. SetHeap(y, StorageHeap) = y
    BY <1>15 DEF SetHeap, Tasks
  <2>2. PICK step : step = GlobalStep("UsersStorageGetUserRequest", vs, y.heap)
    OBVIOUS
  <2>3. step.res = res /\ step.heap = StorageHeap
    BY <1>15, <1>18, <2>2
  <2>4. RunIdle(m2, op, x) = ApplyResult(m2, op, SetHeap(y, step.heap), vs, step.res)
    BY <1>2, <1>7, <1>8, <1>10, <1>11, <1>14, <1>16, <2>2, Zenon DEF RunIdle, SetHeap
  <2>. QED BY <2>1, <2>3, <2>4
<1>20. res.r = "UserStorageSendResponse" /\ res.user = msg.user /\ res.to = to
  BY <1>17
<1>21. ApplyResult(m2, op, y, vs, res) = OnUserStorageResponse(m2, op, y, res)
  BY <1>20 DEF ApplyResult
<1>22. /\ tasks \in [DOMAIN tasks -> Tasks] /\ StorageId \in DOMAIN tasks
       /\ StorageOK(task, ops, DOMAIN tasks)
  BY <1>1 DEF MachineOK
<1>23. to = q[1].from /\ 1 \in DOMAIN q /\ 1 \in QueuedIn(q, to)
  BY <1>2, <1>7, <1>10, <1>13 DEF QueuedIn
<1>24. to \in DOMAIN tasks \ {StorageId}
  BY <1>7, <1>22, <1>23 DEF StorageOK
<1>25. Settled(tasks[to], ops, q, w, to)
  BY <1>1, <1>7, <1>24 DEF MachineOK
<1>26. PICK asked \in Tasks : asked = tasks[to] /\ asked.stack = <<>>
  BY <1>22, <1>23, <1>24, <1>25 DEF Settled
<1>27. DOMAIN t = DOMAIN tasks \ {StorageId} /\ t[to] = asked
  BY <1>3, <1>22, <1>24, <1>26, OutIs
<1>28. m2.active_tasks = t
  BY <1>4, MachineParts
<1>29. PICK user \in Nat : user = IF msg.user \in Users THEN msg.user ELSE 0
  BY <1>12
<1>30. PICK tg \in Tags, st \in TaskStates :
          tg = "RequesterGotUserResponse" /\ st = "RequesterGetUserGot"
  BY DEF Tags, TaskStates, UserStates
<1>31. PICK asker \in Tasks : /\ asker = Push(asked, <<Value(tg, user), State(st)>>)
                              /\ OverOne(asker.stack, st, tg)
  BY <1>26, PushedTwo
<1>32. Ready(asker.stack, asker.heap)
  BY <1>30, <1>31 DEF Ready, GoingOn, MessageReady
<1>33. PICK idle \in TaskStates : idle = "Idle"
  BY DEF TaskStates, UserStates
<1>34. PICK storage \in Tasks : /\ storage = Push(y, <<State(idle)>>)
                                /\ storage.stack = <<State(idle)>>
                                /\ storage = WithStack(y, <<State(idle)>>, y.heap)
  BY <1>15, PushedOne
<1>35. storage.stack = <<State("Idle")>> /\ storage.heap = StorageHeap /\ storage.in_queue = r
  BY <1>15, <1>33, <1>34 DEF WithStack
<1>36. PICK ts \in Nat : ts = op.ts
  BY StorageRun
<1>37. PICK t1, o1 : t1 = Put(t, to, asker) /\ o1 = Added(o, Operation(ts, to))
  OBVIOUS
<1>38. PICK t2, o2 : /\ t2 = Put(t1, StorageId, storage)
                     /\ o2 = Added(o1, Operation(ts, StorageId))
  OBVIOUS
<1>39. MachineOK(n, t2, o2, w)
  <2>1. /\ to = Head(tasks[StorageId].in_queue).from
        /\ storage.in_queue = Tail(tasks[StorageId].in_queue)
    BY <1>1, <1>7, <1>10, <1>11, <1>13, <1>35
  <2>2. MachineOK(n, Put(Put(Out(tasks, StorageId), to, asker), StorageId, storage),
                  Added(Added(Popped(ops, op), Operation(ts, to)), Operation(ts, StorageId)), w)
    BY <1>32, <1>35, <2>1, StorageAnswers
  <2>. QED BY <1>3, <1>37, <1>38, <2>2
<1>40. PICK m3 : m3 = Resume(m2, to, asker, ts)
  OBVIOUS
<1>41. m3 = Machine(n, t1, o1, w)
  BY <1>4, <1>37, <1>40, MachineResumes
<1>42. PICK m4 : m4 = Resume(m3, StorageId, storage, ts)
  OBVIOUS
<1>43. m4 = Machine(n, t2, o2, w)
  BY <1>38, <1>41, <1>42, MachineResumes
<1>44. OnUserStorageResponse(m2, op, y, res) = Outcome(m4, {})
  <2>1. y.heap.h = "UsersStorage" /\ y.heap.store = Users
    BY <1>15 DEF StorageHeap
  <2>2. to \in DOMAIN m2.active_tasks /\ m2.active_tasks[to] = asked
    BY <1>24, <1>27, <1>28
  <2>3. user = IF res.user \in y.heap.store THEN res.user ELSE 0
    BY <1>20, <1>29, <2>1
  <2>4. Push(m2.active_tasks[to], <<Value("RequesterGotUserResponse", user),
                                    State("RequesterGetUserGot")>>) = asker
    BY <1>30, <1>31, <2>2
  <2>5. Push(y, <<State("Idle")>>) = storage
    BY <1>33, <1>34
  <2>. QED BY <1>20, <1>36, <1>40, <1>42, <2>1, <2>2, <2>3, <2>4, <2>5, Zenon
           DEF OnUserStorageResponse
<1>45. Sound(Outcome(m4, {}))
  BY <1>39, <1>43, OutcomeSound
<1>. QED BY <1>4, <1>6, <1>19, <1>21, <1>44, <1>45

\* Executing an operation never panics and leaves a sound machine.
LEMMA OperationSound ==
    ASSUME NEW m, FsmOK(m), NEW op \in DOMAIN m.pending_operations
    PROVE  Sound(RunOperation(m, op))
<1>1. PICK n, tasks, ops, w : m = Machine(n, tasks, ops, w) /\ MachineOK(n, tasks, ops, w)
  BY DEF FsmOK
<1>2. op \in DOMAIN ops
  BY <1>1, MachineParts
<1>3. CASE op.id = StorageId
  BY <1>1, <1>2, <1>3, StorageIdleSound, StorageAnswerSound
<1>4. CASE op.id # StorageId
  <2>1. Ready(tasks[op.id].stack, tasks[op.id].heap)
    BY <1>1, <1>2, <1>4, PoppedTask
  <2>. QED BY <1>1, <1>2, <1>4, <2>1, GoingOnSound, CompletedSound, SendSound, AskSound
           DEF Ready
<1>. QED BY <1>3, <1>4

-----------------------------------------------------------------------------
(***************************************************************************)
(* The invariant holds in the beginning, and every step keeps it.          *)
(***************************************************************************)
LEMMA InitiallySound == Init => TaskInv
<1> SUFFICES ASSUME Init PROVE TaskInv
  OBVIOUS
<1>1. PICK task : task = Task(0, <<State("Idle")>>, StorageHeap)
  OBVIOUS
<1>2. /\ task.stack = <<State("Idle")>> /\ task.heap = StorageHeap /\ task.in_queue = <<>>
      /\ task.writer = 0
  BY <1>1 DEF Task
<1>3. task \in Tasks
  <2>1. State("Idle") \in Entry
    BY StateIsEntry DEF TaskStates, UserStates
  <2>2. StorageHeap \in Heaps /\ <<State("Idle")>> \in Seq(Entry) /\ <<>> \in Seq(Message)
    BY <2>1 DEF Heaps
  <2>. QED BY <1>1, <2>2 DEF Task, Tasks
<1>4. PICK tasks : tasks = [id \in {StorageId} |-> task]
  OBVIOUS
<1>5. /\ DOMAIN tasks = {StorageId} /\ tasks[StorageId] = task
      /\ tasks \in [DOMAIN tasks -> Tasks]
  BY <1>3, <1>4
<1>6. fsm = Machine(2, tasks, EmptyBag, 0)
  BY <1>1, <1>4 DEF Init, CreateUserStorage, Machine, StorageHeap
<1>7. IsABag(EmptyBag) /\ DOMAIN EmptyBag = {}
  BY DEF EmptyBag, SetToBag, IsABag
<1>8. OpsOK(EmptyBag, DOMAIN tasks)
  BY <1>7 DEF OpsOK
<1>9. StorageOK(task, EmptyBag, DOMAIN tasks)
  BY <1>2 DEF StorageOK
<1>10. MachineOK(2, tasks, EmptyBag, 0)
  BY <1>5, <1>8, <1>9 DEF MachineOK, StorageId
<1>11. FsmOK(fsm)
  BY <1>6, <1>10, MachineSound
<1>12. ConnOK
  <2>1. PICK all : all = Request \cup {NoRequest}
    OBVIOUS
  <2>2. NoRequest \in all
    BY <2>1
  <2>3. conn = [c \in Clients |-> Conn("new", NoRequest, 0, 0)]
    BY DEF Init
  <2>4. conn \in [Clients -> [phase : {"new", "locking", "scheduled", "refused"},
                             req : all, ts : Nat, id : Nat]]
    BY <2>2, <2>3 DEF Conn
  <2>5. \A c \in Clients : conn[c].phase = "new"
    BY <2>3 DEF Conn
  <2>. QED BY <2>1, <2>4, <2>5 DEF ConnOK
<1>13. timer \in 0 .. MaxU64 /\ panicked \in {"no", "overflow"}
  BY RequestsAssumption DEF Init
<1>. QED BY <1>11, <1>12, <1>13 DEF TaskInv

\* The task a handler makes is ready to run, or to wait as the awaiter.
LEMMA NewTaskReady ==
    ASSUME NEW c \in Clients, NEW req, req = conn[c].req, req.kind \in Kinds, req.n \in Nat
    PROVE  /\ NewTask(c) \in Tasks
           /\ req.kind # "receive" => Ready(NewTask(c).stack, NewTask(c).heap)
           /\ req.kind = "receive" => NewTask(c).stack = <<>>
<1>1. PICK stk, heap : stk = RequestStack(c, req) /\ heap = RequestHeap(req)
  OBVIOUS
<1>2. NewTask(c) = Task(c, stk, heap)
  BY <1>1 DEF NewTask
<1>3. PICK n \in Nat, v \in Nat : n = req.n /\ v = c
  BY RequestsAssumption
<1>4. heap \in Heaps
  BY <1>1, <1>3 DEF RequestHeap, Heaps, DivisorsHeap, FibonacciHeap
<1>5. SUFFICES /\ stk \in Seq(Entry)
               /\ req.kind # "receive" => Ready(stk, heap)
               /\ req.kind = "receive" => stk = <<>>
  <2>1. PICK x : x = NewTask(c)
    OBVIOUS
  <2>2. x.stack = stk /\ x.heap = heap
    BY <1>2, <2>1 DEF Task
  <2>3. stk \in Seq(Entry) => x \in Tasks
    BY <1>2, <1>4, <2>1 DEF Task, Tasks
  <2>. QED BY <2>1, <2>2, <2>3
<1>6. ASSUME NEW s \in TaskStates, stk = <<State(s)>>
      PROVE  stk \in Seq(Entry) /\ Bare(stk, s)
  <2>1. PICK st \in Entry : st = State(s)
    BY StateIsEntry
  <2>2. <<st>> \in Seq(Entry) /\ Len(<<st>>) = 1 /\ <<st>>[1] = st
    OBVIOUS
  <2>. QED BY <1>6, <2>1, <2>2 DEF Bare
<1>7. ASSUME NEW tag \in Tags, NEW a \in Nat, NEW s \in TaskStates,
             stk = <<Value(tag, a), State(s)>>
      PROVE  stk \in Seq(Entry) /\ OverOne(stk, s, tag)
  <2>1. PICK st \in Entry, val \in Entry : st = State(s) /\ val = Value(tag, a)
    BY StateIsEntry, ValueIsEntry
  <2>2. <<val, st>> \in Seq(Entry) /\ stk = <<val, st>>
    BY <1>7, <2>1
  <2>3. Tagged(val, tag)
    BY <2>1 DEF Tagged, Value
  <2>4. Len(stk) = 2 /\ stk[1] = val /\ stk[2] = st
    BY <2>2
  <2>. QED BY <2>1, <2>2, <2>3, <2>4 DEF OverOne
<1>8. CASE req.kind = "delay"
  <2>1. PICK e1 \in Entry : e1 = Value("DelayInputMs", n)
    BY ValueIsEntry DEF Tags
  <2>2. PICK e2 \in Entry : e2 = Value("DelayInputMessage", v)
    BY ValueIsEntry DEF Tags
  <2>3. PICK e3 \in Entry : e3 = State("DelayedMessageTaskBegin")
    BY StateIsEntry DEF TaskStates, MessageStates
  <2>4. stk = <<e1, e2, e3>>
    BY <1>1, <1>3, <1>8, <2>1, <2>2, <2>3 DEF RequestStack
  <2>5. <<e1, e2, e3>> \in Seq(Entry)
    OBVIOUS
  <2>6. Len(stk) = 3 /\ stk[1] = e1 /\ stk[2] = e2 /\ stk[3] = e3
    BY <2>4
  <2>7. Tagged(e1, "DelayInputMs") /\ Tagged(e2, "DelayInputMessage")
    BY <2>1, <2>2 DEF Tagged, Value
  <2>8. OverTwo(stk, "DelayedMessageTaskBegin", "DelayInputMs", "DelayInputMessage")
    BY <2>3, <2>6, <2>7 DEF OverTwo
  <2>9. Ready(stk, heap)
    BY <2>8 DEF Ready, GoingOn, MessageReady
  <2>. QED BY <1>8, <2>4, <2>5, <2>9
<1>9. CASE req.kind = "send"
  <2>1. stk = <<Value("SenderInputMessage", v), State("SenderSendMessage")>>
    BY <1>1, <1>3, <1>9 DEF RequestStack
  <2>2. stk \in Seq(Entry) /\ OverOne(stk, "SenderSendMessage", "SenderInputMessage")
    BY <1>7, <2>1 DEF Tags, TaskStates, MessageStates
  <2>. QED BY <1>9, <2>2 DEF Ready, SendReady
<1>10. CASE req.kind = "receive"
  BY <1>1, <1>10 DEF RequestStack
<1>11. CASE req.kind = "divisors"
  <2>1. stk = <<State("DivisorsTaskBegin")>> /\ heap \in DivisorsHeap
    BY <1>1, <1>3, <1>11 DEF RequestStack, RequestHeap, DivisorsHeap
  <2>2. stk \in Seq(Entry) /\ Bare(stk, "DivisorsTaskBegin")
    BY <1>6, <2>1 DEF TaskStates, DivisorsStates
  <2>3. DivisorsReady(stk, heap)
    BY <2>1, <2>2 DEF DivisorsReady, DivisorsStates
  <2>. QED BY <1>11, <2>2, <2>3 DEF Ready, GoingOn
<1>12. CASE req.kind = "fibonacci"
  <2>1. stk = <<State("FibonacciTaskBegin")>> /\ heap \in FibonacciHeap
    BY <1>1, <1>3, <1>12 DEF RequestStack, RequestHeap, FibonacciHeap
  <2>2. stk \in Seq(Entry) /\ Bare(stk, "FibonacciTaskBegin")
    BY <1>6, <2>1 DEF TaskStates, FibonacciStates
  <2>3. FibonacciReady(stk, heap)
    BY <2>1, <2>2 DEF FibonacciReady, FibonacciStates
  <2>. QED BY <1>12, <2>2, <2>3 DEF Ready, GoingOn
<1>13. CASE req.kind = "factorial"
  <2>1. stk = <<Value("FactorialInput", n), State("FactorialEntry")>>
    BY <1>1, <1>3, <1>13 DEF RequestStack
  <2>2. stk \in Seq(Entry) /\ OverOne(stk, "FactorialEntry", "FactorialInput")
    BY <1>7, <2>1 DEF Tags, TaskStates, FactorialStates
  <2>. QED BY <1>13, <2>2 DEF Ready, GoingOn, FactorialReady
<1>14. CASE req.kind = "get_user"
  <2>1. stk = <<Value("RequesterGetUserInput", n), State("RequesterGetUserRequest")>>
    BY <1>1, <1>3, <1>14 DEF RequestStack
  <2>2. stk \in Seq(Entry) /\ OverOne(stk, "RequesterGetUserRequest", "RequesterGetUserInput")
    BY <1>7, <2>1 DEF Tags, TaskStates, UserStates
  <2>. QED BY <1>14, <2>2 DEF Ready, AskReady
<1>. QED BY <1>8, <1>9, <1>10, <1>11, <1>12, <1>13, <1>14 DEF Kinds

\* A handler gets the mutex or a client is upgraded: the connections stay sound.
LEMMA ConnStays ==
    ASSUME ConnOK, NEW c \in Clients, NEW new, conn' = [conn EXCEPT ![c] = new],
           new \in [phase : {"new", "locking", "scheduled", "refused"},
                    req : Request \cup {NoRequest}, ts : Nat, id : Nat],
           new.phase = "locking" => new.req \in Request
    PROVE  ConnOK'
BY DEF ConnOK

\* A handler is done: its client is scheduled or refused.
LEMMA ConnMoved ==
    ASSUME ConnOK, NEW c \in Clients, NEW id \in Nat, NEW phase \in {"scheduled", "refused"},
           conn' = [conn EXCEPT ![c] = [@ EXCEPT !.phase = phase, !.id = id]]
    PROVE  ConnOK'
<1>1. PICK old : old = conn[c]
  OBVIOUS
<1>2. PICK all : all = Request \cup {NoRequest}
  OBVIOUS
<1>3. old \in [phase : {"new", "locking", "scheduled", "refused"}, req : all, ts : Nat, id : Nat]
  BY <1>1, <1>2 DEF ConnOK
<1>4. PICK new : new = [old EXCEPT !.phase = phase, !.id = id]
  OBVIOUS
<1>5. /\ new \in [phase : {"new", "locking", "scheduled", "refused"}, req : all, ts : Nat, id : Nat]
      /\ new.phase = phase
  BY <1>3, <1>4
<1>6. conn' = [conn EXCEPT ![c] = new]
  BY <1>1, <1>4
<1>7. new.phase # "locking"
  BY <1>5
<1>. QED BY <1>2, <1>5, <1>6, <1>7, ConnStays

\* The request of a client that waits for the mutex.
LEMMA LockingRequest ==
    ASSUME ConnOK, NEW c \in Clients, conn[c].phase = "locking"
    PROVE  conn[c].req.kind \in Kinds /\ conn[c].req.n \in Nat /\ conn[c].ts \in Nat
<1>1. conn[c].req \in Request
  BY DEF ConnOK
<1>2. conn[c].req.kind \in Kinds /\ conn[c].req.n \in Nat
  BY <1>1, RequestsAssumption DEF Request
<1>3. conn[c].ts \in Nat
  BY DEF ConnOK
<1>. QED BY <1>2, <1>3

\* One lemma per action: it keeps the invariant.
LEMMA UpgradeKeeps ==
    ASSUME TaskInv, NEW c \in Clients, NEW req \in RequestsOf(c), Upgrade(c, req)
    PROVE  TaskInv'
<1>1. PICK new : new = Conn("locking", req, timer, 0)
  OBVIOUS
<1>2. PICK all : all = Request \cup {NoRequest}
  OBVIOUS
<1>3. req \in Request /\ req \in all
  <2>1. PICK q \in Requests : req \in q[c]
    BY DEF RequestsOf
  <2>2. q[c] \subseteq Request
    BY <2>1, RequestsAssumption
  <2>. QED BY <1>2, <2>1, <2>2
<1>4. timer \in Nat /\ ConnOK
  BY RequestsAssumption DEF TaskInv
<1>5. /\ new \in [phase : {"new", "locking", "scheduled", "refused"}, req : all, ts : Nat, id : Nat]
      /\ new.req = req
  BY <1>1, <1>3, <1>4 DEF Conn
<1>6. conn' = [conn EXCEPT ![c] = new]
  BY <1>1 DEF Upgrade
<1>7. ConnOK'
  BY <1>2, <1>3, <1>4, <1>5, <1>6, ConnStays
<1>8. fsm' = fsm /\ timer' = timer /\ panicked' = panicked
  BY DEF Upgrade
<1>. QED BY <1>7, <1>8 DEF TaskInv

LEMMA ScheduleKeeps ==
    ASSUME TaskInv, NEW c \in Clients, Schedule(c)
    PROVE  TaskInv'
<1>1. ConnOK /\ conn[c].phase = "locking" /\ conn[c].req.kind # "receive" /\ FsmOK(fsm)
  BY DEF TaskInv, Schedule
<1>2. conn[c].req.kind \in Kinds /\ conn[c].req.n \in Nat /\ conn[c].ts \in Nat
  BY <1>1, LockingRequest
<1>3. PICK task \in Tasks : task = NewTask(c) /\ Ready(task.stack, task.heap)
  BY <1>1, <1>2, NewTaskReady
<1>4. PICK n, tasks, ops, w : fsm = Machine(n, tasks, ops, w) /\ MachineOK(n, tasks, ops, w)
  BY <1>1 DEF FsmOK
<1>5. PICK next \in Nat : next = n + 1
  BY <1>4 DEF MachineOK
<1>6. n \in 1 .. next - 1 /\ n \notin DOMAIN tasks /\ n <= next /\ n \in Nat
  BY <1>4, <1>5 DEF MachineOK, StorageId
<1>7. PICK ts \in Nat : ts = conn[c].ts
  BY <1>2
<1>8. PICK t, o : t = Put(tasks, n, task) /\ o = Added(ops, Operation(ts, n))
  OBVIOUS
<1>9. MachineOK(next, t, o, w)
  BY <1>3, <1>4, <1>6, <1>8, TaskScheduled
<1>10. fsm.next_task_id = n
  BY <1>4, MachineParts
<1>11. PICK m : m = [fsm EXCEPT !.next_task_id = @ + 1]
  OBVIOUS
<1>12. m = Machine(next, tasks, ops, w)
  <2>1. m = [fsm EXCEPT !.next_task_id = next]
    BY <1>5, <1>10, <1>11
  <2>2. [Machine(n, tasks, ops, w) EXCEPT !.next_task_id = next] = Machine(next, tasks, ops, w)
    BY DEF Machine
  <2>. QED BY <1>4, <2>1, <2>2
<1>13. fsm' = Resume(m, n, task, ts)
  BY <1>3, <1>7, <1>10, <1>11 DEF Schedule
<1>14. fsm' = Machine(next, t, o, w)
  BY <1>8, <1>12, <1>13, MachineResumes
<1>15. FsmOK(fsm')
  BY <1>9, <1>14, MachineSound
<1>16. ConnOK'
  <2>1. conn' = [conn EXCEPT ![c] = [@ EXCEPT !.phase = "scheduled", !.id = n]]
    BY <1>1, <1>10 DEF Schedule, ConnOK
  <2>. QED BY <1>1, <1>6, <2>1, ConnMoved
<1>17. timer' = timer /\ panicked' = panicked
  BY DEF Schedule
<1>. QED BY <1>15, <1>16, <1>17 DEF TaskInv, FsmOK

LEMMA ParkAwaiterKeeps ==
    ASSUME TaskInv, NEW c \in Clients, ParkAwaiter(c)
    PROVE  TaskInv'
<1>1. ConnOK /\ conn[c].phase = "locking" /\ conn[c].req.kind = "receive" /\ FsmOK(fsm)
  BY DEF TaskInv, ParkAwaiter
<1>2. conn[c].req.kind \in Kinds /\ conn[c].req.n \in Nat
  BY <1>1, LockingRequest
<1>3. PICK task \in Tasks : task = NewTask(c) /\ task.stack = <<>>
  BY <1>1, <1>2, NewTaskReady
<1>4. PICK n, tasks, ops, w : fsm = Machine(n, tasks, ops, w) /\ MachineOK(n, tasks, ops, w)
  BY <1>1 DEF FsmOK
<1>5. fsm.next_task_id = n /\ fsm.awaiter = w /\ n \in Nat
  BY <1>4, MachineParts DEF MachineOK
<1>6. w = 0
  BY <1>5 DEF ParkAwaiter
<1>7. PICK t, next : t = Put(tasks, n, task) /\ next = n + 1
  OBVIOUS
<1>8. MachineOK(next, t, ops, n)
  BY <1>3, <1>4, <1>6, <1>7, TaskAwaits
<1>9. PICK m : m = [fsm EXCEPT !.next_task_id = @ + 1, !.awaiter = fsm.next_task_id]
  OBVIOUS
<1>10. m = Machine(next, tasks, ops, n)
  <2>1. m = [[fsm EXCEPT !.next_task_id = next] EXCEPT !.awaiter = n]
    BY <1>5, <1>7, <1>9
  <2>2. PICK a : a = [Machine(n, tasks, ops, w) EXCEPT !.next_task_id = next]
    OBVIOUS
  <2>3. a = Machine(next, tasks, ops, w)
    BY <2>2 DEF Machine
  <2>4. [Machine(next, tasks, ops, w) EXCEPT !.awaiter = n] = Machine(next, tasks, ops, n)
    BY DEF Machine
  <2>. QED BY <1>4, <2>1, <2>2, <2>3, <2>4
<1>11. fsm' = Keep(m, n, task)
  BY <1>3, <1>5, <1>9 DEF ParkAwaiter
<1>12. fsm' = Machine(next, t, ops, n)
  BY <1>7, <1>10, <1>11, MachineKeeps
<1>13. FsmOK(fsm')
  BY <1>8, <1>12, MachineSound
<1>14. ConnOK'
  <2>1. conn' = [conn EXCEPT ![c] = [@ EXCEPT !.phase = "scheduled", !.id = n]]
    BY <1>1, <1>5 DEF ParkAwaiter, ConnOK
  <2>. QED BY <1>1, <1>5, <2>1, ConnMoved
<1>15. timer' = timer /\ panicked' = panicked
  BY DEF ParkAwaiter
<1>. QED BY <1>13, <1>14, <1>15 DEF TaskInv, FsmOK

LEMMA RefusedKeeps ==
    ASSUME TaskInv, NEW c \in Clients, AwaiterRefused(c)
    PROVE  TaskInv'
<1>1. ConnOK /\ FsmOK(fsm)
  BY DEF TaskInv
<1>2. PICK old : old = conn[c]
  OBVIOUS
<1>3. PICK all : all = Request \cup {NoRequest}
  OBVIOUS
<1>4. old \in [phase : {"new", "locking", "scheduled", "refused"}, req : all, ts : Nat, id : Nat]
  BY <1>1, <1>2, <1>3 DEF ConnOK
<1>5. PICK new : new = [old EXCEPT !.phase = "refused"]
  OBVIOUS
<1>6. /\ new \in [phase : {"new", "locking", "scheduled", "refused"}, req : all, ts : Nat, id : Nat]
      /\ new.phase = "refused"
  BY <1>4, <1>5
<1>7. conn' = [conn EXCEPT ![c] = new]
  BY <1>2, <1>5 DEF AwaiterRefused
<1>8. ConnOK'
  BY <1>1, <1>3, <1>6, <1>7, ConnStays
<1>9. fsm' = fsm /\ timer' = timer /\ panicked' = panicked
  BY DEF AwaiterRefused
<1>. QED BY <1>8, <1>9 DEF TaskInv

\* The storage does no arithmetic.
LEMMA StorageNeverOverflows ==
    ASSUME FsmOK(fsm), NEW op, op.id = StorageId
    PROVE  ~ Overflows(op)
<1>1. PICK task : task = fsm.active_tasks[op.id]
  OBVIOUS
<1>2. task.stack = <<State("Idle")>>
  BY <1>1 DEF FsmOK, MachineOK, StorageOK
<1>3. Last(task.stack).s = "Idle"
  BY <1>2 DEF Last, State
<1>4. \A ts, vs, heap : Computed(ts, "Idle", vs, heap) = 0
  BY DEF Computed
<1>5. PICK vs : vs = [i \in 1 .. LocalVarsCount("Idle") |-> task.stack[Len(task.stack) - i]]
  OBVIOUS
<1>6. Overflows(op) => Computed(op.ts, "Idle", vs, task.heap) > MaxU64
  BY <1>1, <1>3, <1>5 DEF Overflows
<1>. QED BY <1>4, <1>6, RequestsAssumption

\* A panic of the arithmetic takes the task with it, and leaves the rest as it was.
LEMMA OverflowSound ==
    ASSUME FsmOK(fsm), NEW op \in DOMAIN fsm.pending_operations, Overflows(op)
    PROVE  FsmOK(Taken(fsm, op))
<1>1. PICK n, tasks, ops, w : fsm = Machine(n, tasks, ops, w) /\ MachineOK(n, tasks, ops, w)
  BY DEF FsmOK
<1>2. op \in DOMAIN ops /\ op.id # StorageId
  BY <1>1, MachineParts, StorageNeverOverflows
<1>3. PICK t, o : t = Out(tasks, op.id) /\ o = Popped(ops, op)
  OBVIOUS
<1>4. MachineOK(n, t, o, w)
  BY <1>1, <1>2, <1>3, TaskGone
<1>5. Taken(fsm, op) = Machine(n, t, o, w)
  BY <1>1, <1>3, MachineTaken
<1>. QED BY <1>4, <1>5, MachineSound

LEMMA ExecuteKeeps ==
    ASSUME TaskInv, Execute
    PROVE  TaskInv'
<1>1. PICK op \in DueOperations :
         \/ /\ fsm' = RunOperation(fsm, op).m
            /\ panicked' = IF RunOperation(fsm, op).ok THEN "no" ELSE "broken"
         \/ Overflows(op) /\ fsm' = Taken(fsm, op) /\ panicked' = "overflow"
  BY DEF Execute, Taken
<1>2. op \in DOMAIN fsm.pending_operations
  BY <1>1 DEF DueOperations, BagToSet
<1>3. FsmOK(fsm)
  BY DEF TaskInv
<1>4. Sound(RunOperation(fsm, op))
  BY <1>2, <1>3, OperationSound
<1>5. FsmOK(fsm') /\ panicked' \in {"no", "overflow"}
  <2>1. CASE /\ fsm' = RunOperation(fsm, op).m
             /\ panicked' = IF RunOperation(fsm, op).ok THEN "no" ELSE "broken"
    BY <1>4, <2>1 DEF Sound
  <2>2. CASE Overflows(op) /\ fsm' = Taken(fsm, op) /\ panicked' = "overflow"
    BY <1>2, <1>3, <2>2, OverflowSound
  <2>. QED BY <1>1, <2>1, <2>2
<1>6. timer' = timer /\ conn' = conn
  BY DEF Execute
<1>7. ConnOK'
  BY <1>6 DEF TaskInv, ConnOK
<1>8. timer' \in 0 .. MaxU64
  BY <1>6 DEF TaskInv
<1>. QED BY <1>5, <1>7, <1>8 DEF TaskInv, FsmOK

LEMMA TickKeeps ==
    ASSUME TaskInv, Tick
    PROVE  TaskInv'
<1>1. PICK op \in DOMAIN fsm.pending_operations :
         \E t \in {op.ts, op.ts + 1} : timer' = t /\ t <= MaxU64
  BY DEF Tick, BagToSet
<1>2. op.ts \in Nat
  BY <1>1 DEF TaskInv, FsmOK, MachineOK, OpsOK, OpOK
<1>3. timer' \in 0 .. MaxU64
  BY <1>1, <1>2, RequestsAssumption
<1>4. fsm' = fsm /\ conn' = conn /\ panicked' = panicked
  BY DEF Tick
<1>. QED BY <1>3, <1>4 DEF TaskInv, ConnOK

\* Whatever clients ask for, in whatever order handlers get the mutex and operations come
\* due: tasks, pending operations, the queue of the storage and the awaiter fit together.
THEOREM TaskInvariant == Spec => []TaskInv
<1>1. TaskInv /\ [Next]_vars => TaskInv'
  <2> SUFFICES ASSUME TaskInv, [Next]_vars PROVE TaskInv'
    OBVIOUS
  <2>1. CASE UNCHANGED vars
    BY <2>1 DEF vars, TaskInv, ConnOK
  <2>2. CASE Next
    BY <2>2, UpgradeKeeps, ScheduleKeeps, ParkAwaiterKeeps, RefusedKeeps, ExecuteKeeps,
       TickKeeps DEF Next
  <2>. QED BY <2>1, <2>2
<1>. QED BY InitiallySound, <1>1, PTL DEF Spec

-----------------------------------------------------------------------------
(***************************************************************************)
(* What the invariant says of stacks, and of where every task is.          *)
(***************************************************************************)
CountAt(stk, i) ==
    IF stk[i].e = "State" THEN LocalVarsCount(stk[i].s) ELSE ReturnLocalVarsCount(stk[i].s)
BelowAt(stk, i) == i - CountAt(stk, i) - 1
FrameAt(stk, i) ==
    /\ BelowAt(stk, i) >= 0
    /\ \A j \in BelowAt(stk, i) + 1 .. i - 1 : stk[j].e = "Value"
    /\ BelowAt(stk, i) > 0 => stk[BelowAt(stk, i)].e # "Value"

\* A stack is valid if there is a frame under each of its states and return points.
LEMMA FramedIsValid ==
    ASSUME NEW stk, stk # <<>>, stk[Len(stk)].e # "Value",
           \A i \in DOMAIN stk : stk[i].e # "Value" => FrameAt(stk, i)
    PROVE  ValidStack(stk)
<1>1. Last(stk).e # "Value"
  BY DEF Last
<1>. QED BY <1>1 DEF ValidStack, FrameAt, BelowAt, CountAt

\* A frame: what it counts, and what is found there.
LEMMA FrameIs ==
    ASSUME NEW stk, NEW i \in Nat, NEW k \in Nat, CountAt(stk, i) = k, k < i,
           \A j \in i - k .. i - 1 : stk[j].e = "Value",
           i - k - 1 > 0 => stk[i - k - 1].e # "Value"
    PROVE  FrameAt(stk, i)
<1>1. BelowAt(stk, i) = i - k - 1
  BY DEF BelowAt
<1>. QED BY <1>1 DEF FrameAt

\* Each shape of a ready stack is a valid one.
LEMMA BareValid ==
    ASSUME NEW stk \in Seq(Entry), NEW s, Bare(stk, s), LocalVarsCount(s) = 0
    PROVE  ValidStack(stk)
<1>1. Len(stk) = 1 /\ stk[1] = State(s)
  BY DEF Bare
<1>2. DOMAIN stk = {1} /\ stk # <<>> /\ stk[1].e = "State" /\ CountAt(stk, 1) = 0
  BY <1>1 DEF CountAt, State
<1>3. FrameAt(stk, 1)
  BY <1>2 DEF FrameAt, BelowAt
<1>. QED BY <1>1, <1>2, <1>3, FramedIsValid

LEMMA OverOneValid ==
    ASSUME NEW stk \in Seq(Entry), NEW s, NEW tag, OverOne(stk, s, tag), LocalVarsCount(s) = 1
    PROVE  ValidStack(stk)
<1>1. Len(stk) = 2 /\ stk[2] = State(s) /\ stk[1].e = "Value"
  BY DEF OverOne, Tagged
<1>2. DOMAIN stk = {1, 2} /\ stk # <<>> /\ stk[2].e = "State" /\ CountAt(stk, 2) = 1
  BY <1>1 DEF CountAt, State
<1>3. FrameAt(stk, 2)
  BY <1>1, <1>2 DEF FrameAt, BelowAt
<1>. QED BY <1>1, <1>2, <1>3, FramedIsValid

LEMMA OverTwoValid ==
    ASSUME NEW stk \in Seq(Entry), NEW s, NEW low, NEW high, OverTwo(stk, s, low, high),
           LocalVarsCount(s) = 2
    PROVE  ValidStack(stk)
<1>1. Len(stk) = 3 /\ stk[3] = State(s) /\ stk[1].e = "Value" /\ stk[2].e = "Value"
  BY DEF OverTwo, Tagged
<1>2. DOMAIN stk = {1, 2, 3} /\ stk # <<>> /\ stk[3].e = "State" /\ CountAt(stk, 3) = 2
  BY <1>1 DEF CountAt, State
<1>3. FrameAt(stk, 3)
  BY <1>1, <1>2 DEF FrameAt, BelowAt
<1>. QED BY <1>1, <1>2, <1>3, FramedIsValid

\* The frames of a factorial: values at odd places, return points at even ones.
LEMMA FramesValid ==
    ASSUME NEW stk, NEW k \in Nat, Frames(stk, k)
    PROVE  /\ \A j \in 0 .. k : stk[2 * j + 1].e = "Value" /\ stk[2 * j + 2].e = "Retrn"
           /\ \A i \in 1 .. 2 * k + 2 : stk[i].e # "Value" => FrameAt(stk, i)
<1>1. ASSUME NEW j \in 0 .. k
      PROVE  /\ stk[2 * j + 1].e = "Value" /\ stk[2 * j + 2].e = "Retrn"
             /\ CountAt(stk, 2 * j + 2) = 1
  <2>1. CASE j = 0
    BY <2>1 DEF Frames, Tagged, Retrn, CountAt, ReturnLocalVarsCount
  <2>2. CASE j # 0
    <3>1. j \in 1 .. k
      BY <2>2
    <3>2. /\ Tagged(stk[2 * j + 1], "FactorialArgument")
          /\ stk[2 * j + 2] = Retrn("FactorialRecursionPostRecursiveCall")
      BY <3>1 DEF Frames
    <3>. QED BY <3>2 DEF Tagged, Retrn, CountAt, ReturnLocalVarsCount
  <2>. QED BY <2>1, <2>2
<1>2. ASSUME NEW j \in 0 .. k PROVE FrameAt(stk, 2 * j + 2)
  <2>1. PICK i \in Nat : i = 2 * j + 2
    OBVIOUS
  <2>2. PICK one \in Nat : one = 1
    OBVIOUS
  <2>3. CountAt(stk, i) = one /\ one < i
    BY <1>1, <2>1, <2>2
  <2>4. \A h \in i - one .. i - 1 : stk[h].e = "Value"
    <3>1. \A h \in i - one .. i - 1 : h = 2 * j + 1
      BY <2>1, <2>2
    <3>. QED BY <1>1, <3>1
  <2>5. i - one - 1 > 0 => stk[i - one - 1].e # "Value"
    <3>1. CASE j = 0
      BY <2>1, <2>2, <3>1
    <3>2. CASE j # 0
      <4>1. j - 1 \in 0 .. k /\ i - one - 1 = 2 * (j - 1) + 2
        BY <2>1, <2>2, <3>2
      <4>2. stk[2 * (j - 1) + 2].e = "Retrn"
        BY <1>1, <4>1
      <4>. QED BY <4>1, <4>2
    <3>. QED BY <3>1, <3>2
  <2>6. FrameAt(stk, i)
    BY <2>3, <2>4, <2>5, FrameIs
  <2>. QED BY <2>1, <2>6
<1>3. ASSUME NEW i \in 1 .. 2 * k + 2, stk[i].e # "Value" PROVE FrameAt(stk, i)
  <2>1. PICK j \in Nat : i = 2 * j + 1 \/ i = 2 * j + 2
    <3>1. (i - 1) \div 2 \in Nat /\ (i = 2 * ((i - 1) \div 2) + 1 \/ i = 2 * ((i - 1) \div 2) + 2)
      OBVIOUS
    <3>. QED BY <3>1
  <2>2. j \in 0 .. k
    BY <2>1
  <2>3. i = 2 * j + 2
    BY <1>1, <1>3, <2>1, <2>2
  <2>. QED BY <1>2, <2>2, <2>3
<1>. QED BY <1>1, <1>3

\* So are the stacks of factorial, at any depth.
LEMMA CallingValid ==
    ASSUME NEW stk \in Seq(Entry), NEW k \in Nat, NEW s \in CallStates, Calling(stk, k, s)
    PROVE  ValidStack(stk)
<1>1. /\ Frames(stk, k) /\ Len(stk) = 2 * k + 4 /\ stk[2 * k + 3].e = "Value"
      /\ stk[2 * k + 4] = State(s)
  BY DEF Calling, Tagged
<1>2. k \in 0 .. k /\ stk[2 * k + 2].e = "Retrn"
  BY <1>1, FramesValid
<1>3. PICK i \in Nat, one \in Nat : i = 2 * k + 4 /\ one = 1
  OBVIOUS
<1>4. CountAt(stk, i) = one /\ one < i /\ stk[i].e = "State"
  BY <1>1, <1>3 DEF CountAt, State, CallStates, LocalVarsCount
<1>5. \A h \in i - one .. i - 1 : stk[h].e = "Value"
  <2>1. \A h \in i - one .. i - 1 : h = 2 * k + 3
    BY <1>3
  <2>. QED BY <1>1, <2>1
<1>6. i - one - 1 > 0 => stk[i - one - 1].e # "Value"
  <2>1. i - one - 1 = 2 * k + 2
    BY <1>3
  <2>. QED BY <1>2, <2>1
<1>7. FrameAt(stk, i)
  BY <1>4, <1>5, <1>6, FrameIs
<1>8. ASSUME NEW h \in DOMAIN stk, stk[h].e # "Value" PROVE FrameAt(stk, h)
  <2>1. h \in 1 .. 2 * k + 2 \/ h = 2 * k + 3 \/ h = i
    BY <1>1, <1>3
  <2>2. h \in 1 .. 2 * k + 2 => FrameAt(stk, h)
    BY <1>1, <1>8, FramesValid
  <2>. QED BY <1>1, <1>7, <1>8, <2>1, <2>2
<1>9. stk # <<>> /\ stk[Len(stk)].e # "Value"
  BY <1>1, <1>3, <1>4
<1>. QED BY <1>8, <1>9, FramedIsValid

LEMMA ReturningValid ==
    ASSUME NEW stk \in Seq(Entry), NEW k \in Nat, Returning(stk, k)
    PROVE  ValidStack(stk)
<1>1. /\ Frames(stk, k) /\ Len(stk) = 2 * k + 5 /\ stk[2 * k + 3].e = "Value"
      /\ stk[2 * k + 4].e = "Value"
      /\ stk[2 * k + 5] = State("FactorialRecursionPostRecursiveCall")
  BY DEF Returning, Tagged
<1>2. k \in 0 .. k /\ stk[2 * k + 2].e = "Retrn"
  BY <1>1, FramesValid
<1>3. PICK i \in Nat, two \in Nat : i = 2 * k + 5 /\ two = 2
  OBVIOUS
<1>4. CountAt(stk, i) = two /\ two < i /\ stk[i].e = "State"
  BY <1>1, <1>3 DEF CountAt, State, LocalVarsCount
<1>5. \A h \in i - two .. i - 1 : stk[h].e = "Value"
  <2>1. \A h \in i - two .. i - 1 : h = 2 * k + 3 \/ h = 2 * k + 4
    BY <1>3
  <2>. QED BY <1>1, <2>1
<1>6. i - two - 1 > 0 => stk[i - two - 1].e # "Value"
  <2>1. i - two - 1 = 2 * k + 2
    BY <1>3
  <2>. QED BY <1>2, <2>1
<1>7. FrameAt(stk, i)
  BY <1>4, <1>5, <1>6, FrameIs
<1>8. ASSUME NEW h \in DOMAIN stk, stk[h].e # "Value" PROVE FrameAt(stk, h)
  <2>1. h \in 1 .. 2 * k + 2 \/ h = 2 * k + 3 \/ h = 2 * k + 4 \/ h = i
    BY <1>1, <1>3
  <2>2. h \in 1 .. 2 * k + 2 => FrameAt(stk, h)
    BY <1>1, <1>8, FramesValid
  <2>. QED BY <1>1, <1>7, <1>8, <2>1, <2>2
<1>9. stk # <<>> /\ stk[Len(stk)].e # "Value"
  BY <1>1, <1>3, <1>4
<1>. QED BY <1>8, <1>9, FramedIsValid

\* A scheduled task that is not done has a valid stack.
LEMMA ReadyIsValid ==
    ASSUME NEW stk \in Seq(Entry), NEW heap, Ready(stk, heap), ~ CompletedReady(stk)
    PROVE  ValidStack(stk)
<1>1. CASE FactorialReady(stk)
  <2>1. LocalVarsCount("FactorialEntry") = 1 /\ LocalVarsCount("FactorialDone") = 2
    BY DEF LocalVarsCount
  <2>. QED BY <1>1, <2>1, OverOneValid, OverTwoValid, CallingValid, ReturningValid
           DEF FactorialReady
<1>2. CASE MessageReady(stk)
  <2>1. /\ LocalVarsCount("WaiterWaitMessageAwaiting") = 1
        /\ LocalVarsCount("RequesterGetUserGot") = 1
        /\ LocalVarsCount("DelayedMessageTaskBegin") = 2
        /\ LocalVarsCount("DelayedMessageTaskExecute") = 2
    BY DEF LocalVarsCount
  <2>. QED BY <1>2, <2>1, OverOneValid, OverTwoValid DEF MessageReady
<1>3. CASE SendReady(stk) \/ AskReady(stk)
  <2>1. /\ LocalVarsCount("SenderSendMessage") = 1
        /\ LocalVarsCount("RequesterGetUserRequest") = 1
    BY DEF LocalVarsCount
  <2>. QED BY <1>3, <2>1, OverOneValid DEF SendReady, AskReady
<1>4. CASE DivisorsReady(stk, heap) \/ FibonacciReady(stk, heap)
  <2>1. \A s \in DivisorsStates \cup FibonacciStates : LocalVarsCount(s) = 0
    BY DEF LocalVarsCount, DivisorsStates, FibonacciStates
  <2>2. PICK s \in DivisorsStates \cup FibonacciStates : Bare(stk, s)
    BY <1>4 DEF DivisorsReady, FibonacciReady
  <2>. QED BY <2>1, <2>2, BareValid
<1>. QED BY <1>1, <1>2, <1>3, <1>4 DEF Ready, GoingOn


-----------------------------------------------------------------------------
(***************************************************************************)
(* The invariant implies the properties the runs check.                    *)
(***************************************************************************)
\* The numbered copies of the operations of a task, and the operations.
LEMMA NumberedCopies ==
    ASSUME TaskInv, NEW id
    PROVE  /\ Pending(id) <=> OpsFor(fsm.pending_operations, id) # {}
           /\ OpsFor(fsm.pending_operations, id) = {} => OperationsOf(id) = {}
           /\ \A op : OpsFor(fsm.pending_operations, id) = {op}
                      /\ fsm.pending_operations[op] = 1
                         => OperationsOf(id) = {<<op, 1>>}
<1>1. PICK ops : ops = fsm.pending_operations
  OBVIOUS
<1>2. IsABag(ops)
  BY <1>1 DEF TaskInv, FsmOK, MachineOK, OpsOK
<1>3. \A op \in DOMAIN ops : ops[op] \in Nat /\ ops[op] > 0
  BY <1>2 DEF IsABag
<1>4. PICK S : S = OpsFor(ops, id)
  OBVIOUS
<1>5. S \subseteq DOMAIN ops
  BY <1>4 DEF OpsFor
<1>6. OperationsOf(id) = UNION {{op} \X (1 .. ops[op]) : op \in S}
  BY <1>1, <1>4, Zenon DEF OperationsOf, OpsFor, BagToSet
<1>7. ASSUME NEW op \in S PROVE <<op, 1>> \in OperationsOf(id)
  <2>1. 1 \in 1 .. ops[op]
    BY <1>3, <1>5
  <2>2. <<op, 1>> \in {op} \X (1 .. ops[op])
    BY <2>1
  <2>. QED BY <1>6, <2>2
<1>8. S = {} => OperationsOf(id) = {}
  BY <1>6
<1>9. Pending(id) <=> S # {}
  BY <1>7, <1>8 DEF Pending
<1>10. ASSUME NEW op, S = {op}, ops[op] = 1 PROVE OperationsOf(id) = {<<op, 1>>}
  <2>1. OperationsOf(id) = {op} \X (1 .. ops[op])
    BY <1>6, <1>10
  <2>2. 1 .. ops[op] = {1}
    BY <1>10
  <2>. QED BY <2>1, <2>2
<1>. QED BY <1>1, <1>4, <1>8, <1>9, <1>10

\* No panic but of the arithmetic, and stacks with a shape.
LEMMA InvariantGivesExecutorSound ==
    ASSUME TaskInv
    PROVE  ExecutorSound
<1>1. MachineOK(fsm.next_task_id, fsm.active_tasks, fsm.pending_operations, fsm.awaiter)
  BY DEF TaskInv, FsmOK
<1>2. TaskTypeOK
  <2>1. timer \in 0 .. MaxU64 /\ panicked \in {"no", "overflow", "broken"}
    BY DEF TaskInv
  <2>2. conn \in [Clients -> [phase : {"new", "locking", "scheduled", "refused"},
                              req : Request \cup {NoRequest}, ts : Nat, id : Nat]]
    BY DEF TaskInv, ConnOK
  <2>3. DOMAIN fsm.active_tasks \subseteq 1 .. fsm.next_task_id - 1
    BY <1>1 DEF MachineOK
  <2>4. \A op \in BagToSet(fsm.pending_operations) :
           op.ts \in Nat /\ op.id \in 1 .. fsm.next_task_id - 1
    BY <1>1, <2>3 DEF MachineOK, OpsOK, OpOK, BagToSet
  <2>. QED BY <2>1, <2>2, <2>3, <2>4 DEF TaskTypeOK
<1>3. OnlyOverflowPanics
  BY DEF TaskInv, OnlyOverflowPanics
<1>4. StacksValid
  <2>1. SUFFICES ASSUME NEW id \in DOMAIN fsm.active_tasks, Pending(id)
                 PROVE  \/ ValidStack(fsm.active_tasks[id].stack)
                        \/ Finishing(fsm.active_tasks[id].stack)
    BY Zenon DEF StacksValid
  <2>2. OpsFor(fsm.pending_operations, id) # {}
    BY <2>1, NumberedCopies
  <2>3. PICK task : task = fsm.active_tasks[id]
    OBVIOUS
  <2>4. task \in Tasks
    BY <1>1, <2>3 DEF MachineOK
  <2>5. PICK stk \in Seq(Entry) : stk = task.stack
    BY <2>4 DEF Tasks
  <2>6. CASE id = StorageId
    <3>1. stk = <<State("Idle")>>
      BY <1>1, <2>3, <2>5, <2>6 DEF MachineOK, StorageOK
    <3>2. Bare(stk, "Idle") /\ LocalVarsCount("Idle") = 0
      BY <3>1 DEF Bare, LocalVarsCount
    <3>3. ValidStack(stk)
      BY <3>2, BareValid
    <3>. QED BY <2>3, <2>5, <3>3
  <2>7. CASE id # StorageId
    <3>1. Settled(task, fsm.pending_operations, fsm.active_tasks[StorageId].in_queue,
                  fsm.awaiter, id)
      BY <1>1, <2>1, <2>3, <2>7 DEF MachineOK
    <3>2. Ready(stk, task.heap)
      BY <2>2, <2>5, <3>1 DEF Settled
    <3>3. CompletedReady(stk) => Finishing(stk)
      BY DEF CompletedReady, ValuesBelow, Finishing, Last
    <3>4. ~ CompletedReady(stk) => ValidStack(stk)
      BY <3>2, ReadyIsValid
    <3>. QED BY <2>3, <2>5, <3>3, <3>4
  <2>. QED BY <2>6, <2>7
<1>. QED BY <1>2, <1>3, <1>4 DEF ExecutorSound

\* One place per task: the three cases of Settled, counted.
LEMMA InvariantGivesNobodyForgotten ==
    ASSUME TaskInv
    PROVE  NobodyForgotten
<1>1. MachineOK(fsm.next_task_id, fsm.active_tasks, fsm.pending_operations, fsm.awaiter)
  BY DEF TaskInv, FsmOK
<1>2. TasksInOnePlace
  <2>1. SUFFICES ASSUME NEW id \in DOMAIN fsm.active_tasks \ {StorageId}
                 PROVE  Cardinality(OperationsOf(id)) + Cardinality(QueuedBy(id))
                          + (IF fsm.awaiter = id THEN 1 ELSE 0) = 1
    BY Zenon DEF TasksInOnePlace
  <2>2. PICK q : q = fsm.active_tasks[StorageId].in_queue
    OBVIOUS
  <2>3. PICK ops : ops = fsm.pending_operations
    OBVIOUS
  <2>4. PICK w : w = fsm.awaiter
    OBVIOUS
  <2>5. Settled(fsm.active_tasks[id], ops, q, w, id)
    BY <1>1, <2>1, <2>2, <2>3, <2>4 DEF MachineOK
  <2>6. QueuedBy(id) = QueuedIn(q, id)
    BY <2>2, Zenon DEF QueuedBy, QueuedIn, Storage
  <2>7. Cardinality({}) = 0 /\ \A x : Cardinality({x}) = 1
    BY FS_EmptySet, FS_Singleton
  <2>8. Once(ops, id) => Cardinality(OperationsOf(id)) = 1
    BY <2>3, <2>7, NumberedCopies DEF Once
  <2>9. OpsFor(ops, id) = {} => Cardinality(OperationsOf(id)) = 0
    BY <2>3, <2>7, NumberedCopies
  <2>10. QueuedOnce(q, id) => Cardinality(QueuedBy(id)) = 1
    BY <2>6, <2>7 DEF QueuedOnce
  <2>11. QueuedIn(q, id) = {} => Cardinality(QueuedBy(id)) = 0
    BY <2>6, <2>7
  <2>. QED BY <2>4, <2>5, <2>8, <2>9, <2>10, <2>11 DEF Settled
<1>3. StorageWakes
  BY <1>1, NumberedCopies DEF StorageWakes, Storage, MachineOK, StorageOK
<1>. QED BY <1>2, <1>3 DEF NobodyForgotten

\* The executor and global_step reach none of their expects, asserts and panic! calls:
\* nothing but a sum or product that leaves u64 stops them, in a debug build.  Between
\* two steps every scheduled task has a stack of frames, each a state or return point
\* over its own locals, or is Completed over locals nobody reads, for any number of
\* clients, any width of u64 and however deep factorial recurses.
THEOREM ExecutorStaysSound == Spec => []ExecutorSound
BY InvariantGivesExecutorSound, TaskInvariant, PTL

\* Every active task waits for exactly one operation, in exactly one entry of the
\* queue of the storage, or as the awaiter; and a storage that is asked has a wake-up
\* among the pending operations.
THEOREM NobodyIsForgotten == Spec => []NobodyForgotten
BY InvariantGivesNobodyForgotten, TaskInvariant, PTL

=============================================================================
