------------------------------ MODULE TaskMachine ------------------------------
(***************************************************************************)
(* The hand-written state machine in state/: tasks with a stack of states, *)
(* return points and values, a heap of pending operations ordered by       *)
(* logical time, an executor that pops one due operation at a time, and    *)
(* the web handlers that create tasks.                                     *)
(*                                                                         *)
(* Everything behind the mutex of AppState is the one variable fsm; a      *)
(* handler reads the clock before it waits for that mutex.  Texts written  *)
(* to a client are records of what they tell apart; user ids and messages  *)
(* are numbers.                                                            *)
(***************************************************************************)
EXTENDS Integers, Sequences, FiniteSets, FiniteSetsExt, Bags, SequencesExt

CONSTANTS Clients,   \* web socket connections, each makes one request
          Requests,  \* alternatives: client -> the requests it may make
          Users,     \* the ids create_user_storage puts into the storage
          MaxU64     \* the largest u64

Kinds == {"delay", "send", "receive", "divisors", "fibonacci", "factorial",
          "get_user"}

Request == [kind : Kinds, n : 0 .. MaxU64]

ASSUME RequestsAssumption ==
    /\ Clients \subseteq Nat \ {0}
    /\ MaxU64 \in Nat
    /\ Requests \subseteq [Clients -> SUBSET Request]
    /\ Users \subseteq Nat \ {0}

VARIABLES fsm,      \* MaroonRuntime, guarded by AppState::fsm
          timer,    \* AppState::timer, milliseconds since start
          conn,     \* client -> where its request is
          written,  \* client -> what its Writer was given, with timestamps
          panicked  \* why the executor panicked: the process is gone

vars == <<fsm, timer, conn, written, panicked>>

-----------------------------------------------------------------------------
\* Stack entries, step results and texts.

State(s) == [e |-> "State", s |-> s]
Retrn(s) == [e |-> "Retrn", s |-> s]
Value(s, v) == [e |-> "Value", s |-> s, v |-> v]

Done == [r |-> "Done"]
Next_(entries) == [r |-> "Next", entries |-> entries]
Goto(s) == Next_(<<State(s)>>)
Sleep(ms, s) == [r |-> "Sleep", ms |-> ms, next |-> s]
Write(text, s) == [r |-> "Write", text |-> text, next |-> s]
Return(value) == [r |-> "Return", value |-> value]
Panic == [r |-> "Panic"]

Text(t, a, b) == [t |-> t, a |-> a, b |-> b]

\* The u64 that a sum or product leaves, if it does not panic.
U64(x) == x % (MaxU64 + 1)

LocalVarsCount(s) ==
    CASE s \in {"FactorialEntry", "FactorialRecursiveCall",
                "FactorialRecursionPostWrite", "FactorialRecursionPostSleep",
                "SenderSendMessage", "WaiterWaitMessageAwaiting",
                "RequesterGetUserRequest", "RequesterGetUserGot"} -> 1
      [] s \in {"FactorialRecursionPostRecursiveCall", "FactorialDone",
                "DelayedMessageTaskBegin", "DelayedMessageTaskExecute"} -> 2
      [] OTHER -> 0

ReturnLocalVarsCount(s) ==
    IF s \in {"FactorialDone", "FactorialRecursionPostRecursiveCall"} THEN 1 ELSE 0

-----------------------------------------------------------------------------
(***************************************************************************)
(* global_step, one operator per kind of task.  vars holds the local       *)
(* variables, the top of the stack first; each operator gives the result   *)
(* of the step and the heap after it.                                      *)
(***************************************************************************)
Holds(vs, tags) ==
    Len(vs) >= Len(tags) /\ \A i \in DOMAIN tags : vs[i].s = tags[i]

MessageStep(s, vs, heap) ==
    LET res ==
        CASE s = "SenderSendMessage" ->
                 IF Holds(vs, <<"SenderInputMessage">>)
                 THEN [r |-> "Send", msg |-> vs[1].v, next |-> "Completed"]
                 ELSE Panic
          [] s = "WaiterWaitMessageAwaiting" ->
                 IF Holds(vs, <<"AwaiterInputMessage">>)
                 THEN Write(Text("got", vs[1].v, 0), "Completed") ELSE Panic
          [] s = "DelayedMessageTaskBegin" ->
                 IF Len(vs) > 1 /\ vs[2].s = "DelayInputMs"
                 THEN Sleep(vs[2].v, "DelayedMessageTaskExecute") ELSE Panic
          [] s = "DelayedMessageTaskExecute" ->
                 IF Holds(vs, <<"DelayInputMessage", "DelayInputMs">>)
                 THEN Write(Text("after", vs[1].v, vs[2].v), "Completed") ELSE Panic
    IN  [res |-> res, heap |-> heap]

UserStep(s, vs, heap) ==
    LET res ==
        CASE s = "RequesterGetUserRequest" ->
                 IF Holds(vs, <<"RequesterGetUserInput">>)
                 THEN [r |-> "SendGetUserRequestIM", user |-> vs[1].v] ELSE Panic
          [] s = "RequesterGetUserGot" ->
                 IF Holds(vs, <<"RequesterGotUserResponse">>)
                 THEN Write(Text("user", vs[1].v, 0), "Completed") ELSE Panic
          [] s = "UsersStorageGetUserRequest" ->
                 IF Holds(vs, <<"UserStorageGetUserRequestUserId",
                                "UserStorageGetUserRequestRetTask">>)
                 THEN [r |-> "UserStorageSendResponse", user |-> vs[1].v, to |-> vs[2].v]
                 ELSE Panic
          [] s = "Idle" -> Panic
    IN  [res |-> res, heap |-> heap]

\* The largest divisor of n up to i, or 0.
NextDivisor(heap) == Max({j \in 0 .. heap.i : j = 0 \/ heap.n % j = 0})

DivisorsStep(s, heap) ==
    CASE heap.h # "Divisors" -> [res |-> Panic, heap |-> heap]
      [] s = "DivisorsTaskBegin" ->
             [res |-> Goto("DivisorsTaskIteration"), heap |-> [heap EXCEPT !.i = heap.n]]
      [] s = "DivisorsTaskIteration" ->
             LET i == NextDivisor(heap)
             IN  IF i = 0
                 THEN [res |-> Write(Text("divided", heap.n, 0), "Completed"), heap |-> heap]
                 ELSE [res |-> Sleep(U64(i * 10), "DivisorsPrintAndMoveOn"),
                       heap |-> [heap EXCEPT !.i = i]]
      [] s = "DivisorsPrintAndMoveOn" ->
             [res |-> Write(Text("divides", heap.n, heap.i), "DivisorsTaskIteration"),
              heap |-> [heap EXCEPT !.i = heap.i - 1]]

FibonacciStep(s, heap) ==
    CASE heap.h # "Fibonacci" -> [res |-> Panic, heap |-> heap]
      [] s = "FibonacciTaskBegin" ->
             IF heap.n <= 1
             THEN [res |-> Write(Text("fib", heap.n, heap.n), "Completed"), heap |-> heap]
             ELSE [res |-> Goto("FibonacciTaskCalculate"),
                   heap |-> [heap EXCEPT !.index = 1, !.a = 0, !.b = 1]]
      [] s = "FibonacciTaskCalculate" ->
             IF heap.index >= heap.n
             THEN [res |-> Goto("FibonacciTaskResult"), heap |-> heap]
             ELSE [res |-> Write(Text("fib_step", heap.index, heap.b), "FibonacciTaskStep"),
                   heap |-> [heap EXCEPT !.delay_ms = U64(5 * heap.index)]]
      [] s = "FibonacciTaskStep" ->
             [res |-> Sleep(heap.delay_ms, "FibonacciTaskCalculate"),
              heap |-> [heap EXCEPT !.index = @ + 1, !.a = heap.b,
                                    !.b = U64(heap.a + heap.b)]]
      [] s = "FibonacciTaskResult" ->
             [res |-> Write(Text("fib", heap.n, heap.b), "Completed"), heap |-> heap]

FactorialStep(s, vs, heap) ==
    LET arg == Holds(vs, <<"FactorialArgument">>)
        n   == vs[1].v
        res ==
        CASE s = "FactorialEntry" ->
                 IF Holds(vs, <<"FactorialInput">>)
                 THEN Next_(<<Value("FactorialInput", n), Retrn("FactorialDone"),
                              Value("FactorialArgument", n), State("FactorialRecursiveCall")>>)
                 ELSE Panic
          [] s = "FactorialRecursiveCall" ->
                 IF arg THEN Write(Text("f", n, 0), "FactorialRecursionPostWrite") ELSE Panic
          [] s = "FactorialRecursionPostWrite" ->
                 IF arg THEN Sleep(U64(n * 50), "FactorialRecursionPostSleep") ELSE Panic
          [] s = "FactorialRecursionPostSleep" ->
                 CASE ~arg -> Panic
                   [] arg /\ n > 1 ->
                        Next_(<<Value("FactorialArgument", n),
                                Retrn("FactorialRecursionPostRecursiveCall"),
                                Value("FactorialArgument", n - 1),
                                State("FactorialRecursiveCall")>>)
                   [] OTHER -> Return(Value("FactorialReturnValue", 1))
          [] s = "FactorialRecursionPostRecursiveCall" ->
                 IF Holds(vs, <<"FactorialReturnValue", "FactorialArgument">>)
                 THEN Return(Value("FactorialReturnValue", U64(vs[1].v * vs[2].v)))
                 ELSE Panic
          [] s = "FactorialDone" ->
                 IF Holds(vs, <<"FactorialReturnValue", "FactorialInput">>)
                 THEN Write(Text("factorial", vs[2].v, vs[1].v), "Completed") ELSE Panic
    IN  [res |-> res, heap |-> heap]

DivisorsStates == {"DivisorsTaskBegin", "DivisorsTaskIteration", "DivisorsPrintAndMoveOn"}
FibonacciStates == {"FibonacciTaskBegin", "FibonacciTaskCalculate", "FibonacciTaskStep",
                    "FibonacciTaskResult"}
FactorialStates == {"FactorialEntry", "FactorialRecursiveCall", "FactorialRecursionPostWrite",
                    "FactorialRecursionPostSleep", "FactorialRecursionPostRecursiveCall",
                    "FactorialDone"}
MessageStates == {"SenderSendMessage", "WaiterWaitMessageAwaiting",
                  "DelayedMessageTaskBegin", "DelayedMessageTaskExecute"}
UserStates == {"RequesterGetUserRequest", "RequesterGetUserGot",
               "UsersStorageGetUserRequest", "Idle"}
TaskStates == DivisorsStates \cup FibonacciStates \cup FactorialStates
              \cup MessageStates \cup UserStates \cup {"Completed"}

GlobalStep(s, vs, heap) ==
    CASE s \in MessageStates   -> MessageStep(s, vs, heap)
      [] s \in UserStates      -> UserStep(s, vs, heap)
      [] s \in DivisorsStates  -> DivisorsStep(s, heap)
      [] s \in FibonacciStates -> FibonacciStep(s, heap)
      [] s \in FactorialStates -> FactorialStep(s, vs, heap)
      [] s = "Completed"       -> [res |-> Done, heap |-> heap]

-----------------------------------------------------------------------------
\* The runtime behind the mutex.

Operation(ts, id) == [ts |-> ts, id |-> id]

\* active_tasks.insert: a task under an id, in the place of one that was there.
Put(tasks, id, task) ==
    [i \in DOMAIN tasks \cup {id} |-> IF i = id THEN task ELSE tasks[i]]

\* A task goes back to active_tasks and is pushed to pending_operations.
Resume(m, id, task, ts) ==
    [m EXCEPT !.active_tasks = Put(@, id, task),
              !.pending_operations = @ (+) SetToBag({Operation(ts, id)})]

Keep(m, id, task) == [m EXCEPT !.active_tasks = Put(@, id, task)]

TakeOut(m, id) == [m EXCEPT !.active_tasks = Restrict(@, DOMAIN @ \ {id})]

Push(task, entries) == [task EXCEPT !.stack = @ \o entries]

Task(client, stack, heap) ==
    [writer |-> client, stack |-> stack, heap |-> heap, in_queue |-> <<>>]

EmptyHeap == [h |-> "Empty"]

\* What executing one operation leaves: the runtime, what is written (a set
\* of at most one [to, text]), and whether the executor panicked.
Outcome(m, out) == [m |-> m, out |-> out, ok |-> TRUE]
Crash(m) == [m |-> m, out |-> {}, ok |-> FALSE]

\* Mutant: the delay counts from the clock, not from the operation.
OnSleepFromClock(m, op, task, vs, res) ==
    Outcome(Resume(m, op.id, Push(task, Reverse(vs) \o <<State(res.next)>>), U64(timer + res.ms)), {})
OnSleep(m, op, task, vs, res) ==
    Outcome(Resume(m, op.id, Push(task, Reverse(vs) \o <<State(res.next)>>), U64(op.ts + res.ms)), {})

OnWrite(m, op, task, vs, res) ==
    Outcome(Resume(m, op.id, Push(task, Reverse(vs) \o <<State(res.next)>>), op.ts),
            {[to |-> task.writer, text |-> res.text]})

OnNext(m, op, task, res) ==
    Outcome(Resume(m, op.id, Push(task, res.entries), op.ts), {})

\* Mutant: the returned value is not pushed.
OnReturnWithoutValue(m, op, task, res) ==
    IF task.stack # <<>> /\ Last(task.stack).e = "Retrn"
    THEN Outcome(Resume(m, op.id,
                        [task EXCEPT !.stack = Front(@) \o <<State(Last(@).s)>>], op.ts), {})
    ELSE Crash(m)
OnReturn(m, op, task, res) ==
    IF task.stack # <<>> /\ Last(task.stack).e = "Retrn"
    THEN Outcome(Resume(m, op.id,
                        [task EXCEPT !.stack = Front(@) \o <<res.value, State(Last(@).s)>>],
                        op.ts), {})
    ELSE Crash(m)

\* Mutants: the awaiter is not taken; the message is not the sender's.
SendTo(m, m1, op, task, res, msg) ==
    LET w == m.awaiter
        Tell(t) == {[to |-> task.writer, text |-> Text(t, 0, 0)]}
    IN  IF w \notin DOMAIN m.active_tasks THEN Outcome(m1, Tell("no_awaiter"))
        ELSE Outcome(Resume(Resume(m1, op.id, Push(task, <<State(res.next)>>), op.ts), w,
                            Push(m.active_tasks[w],
                                 <<Value("AwaiterInputMessage", msg),
                                   State("WaiterWaitMessageAwaiting")>>), op.ts), Tell("sent"))
OnSendKeepsAwaiter(m, op, task, res) == SendTo(m, m, op, task, res, res.msg)
OnSendOwnId(m, op, task, res) == SendTo(m, [m EXCEPT !.awaiter = 0], op, task, res, 0)
OnSend(m, op, task, res) ==
    LET Tell(t) == {[to |-> task.writer, text |-> Text(t, 0, 0)]}
        w  == m.awaiter
        m1 == [m EXCEPT !.awaiter = 0]
    IN  CASE w = 0 -> Outcome(m, Tell("no_awaiter"))
          [] w # 0 /\ w \notin DOMAIN m.active_tasks -> Outcome(m1, Tell("internal_error"))
          [] OTHER ->
               LET m2 == Resume(m1, op.id, Push(task, <<State(res.next)>>), op.ts)
                   woken == Push(m.active_tasks[w],
                                 <<Value("AwaiterInputMessage", res.msg),
                                   State("WaiterWaitMessageAwaiting")>>)
               IN  Outcome(Resume(m2, w, woken, op.ts), Tell("sent"))

\* Mutant: the storage is not woken.
AskStorage(m, op, res) ==
    [m.active_tasks[m.daemon_user_storage] EXCEPT
        !.in_queue = Append(@, [user |-> res.user, from |-> op.id])]
OnRequestWithoutWake(m, op, task, res) ==
    Outcome(Keep(Keep(m, m.daemon_user_storage, AskStorage(m, op, res)), op.id, task), {})
OnSendGetUserRequest(m, op, task, res) ==
    LET u == m.daemon_user_storage
    IN  IF u = 0 \/ u \notin DOMAIN m.active_tasks THEN Crash(m)
        ELSE LET storage == [m.active_tasks[u] EXCEPT
                                !.in_queue = Append(@, [user |-> res.user, from |-> op.id])]
             IN  Outcome(Keep(Resume(m, u, storage, op.ts), op.id, task), {})

OnUserStorageResponse(m, op, task, res) ==
    IF res.to \notin DOMAIN m.active_tasks \/ task.heap.h # "UsersStorage" THEN Crash(m)
    ELSE LET user  == IF res.user \in task.heap.store THEN res.user ELSE 0
             asker == Push(m.active_tasks[res.to],
                           <<Value("RequesterGotUserResponse", user),
                             State("RequesterGetUserGot")>>)
         IN  Outcome(Resume(Resume(m, res.to, asker, op.ts), op.id,
                            Push(task, <<State("Idle")>>), op.ts), {})

ApplyResult(m, op, task, vs, res) ==
    CASE res.r = "Done"   -> Outcome(m, {})
      [] res.r = "Panic"  -> Crash(m)
      [] res.r = "Sleep"  -> OnSleep(m, op, task, vs, res)
      [] res.r = "Write"  -> OnWrite(m, op, task, vs, res)
      [] res.r = "Next"   -> OnNext(m, op, task, res)
      [] res.r = "Return" -> OnReturn(m, op, task, res)
      [] res.r = "Send"   -> OnSend(m, op, task, res)
      [] res.r = "SendGetUserRequestIM"    -> OnSendGetUserRequest(m, op, task, res)
      [] res.r = "UserStorageSendResponse" -> OnUserStorageResponse(m, op, task, res)

\* An idle task with an empty queue stays active and asks for no operation;
\* with a message it runs the message's state.
RunIdle(m, op, task) ==
    IF task.in_queue = <<>>
    THEN IF task.stack = <<>>
         THEN Outcome(Keep(m, op.id, Push(task, <<State("Idle")>>)), {})
         ELSE Crash(m)
    ELSE LET msg  == Head(task.in_queue)
             vs   == <<Value("UserStorageGetUserRequestUserId", msg.user),
                       Value("UserStorageGetUserRequestRetTask", msg.from)>>
             rest == [task EXCEPT !.in_queue = Tail(@)]
             step == GlobalStep("UsersStorageGetUserRequest", vs, rest.heap)
         IN  ApplyResult(m, op, [rest EXCEPT !.heap = step.heap], vs, step.res)

RunState(m, op, task, s) ==
    LET k  == LocalVarsCount(s)
        n  == Len(task.stack)
        vs == Reverse(SubSeq(task.stack, n - k + 1, n))
    IN  IF k > n \/ \E i \in 1 .. k : vs[i].e # "Value" THEN Crash(m)
        ELSE LET rest == [task EXCEPT !.stack = SubSeq(@, 1, n - k)]
                 step == GlobalStep(s, vs, rest.heap)
             IN  IF s = "Idle" THEN RunIdle(m, op, rest)
                 ELSE ApplyResult(m, op, [rest EXCEPT !.heap = step.heap], vs, step.res)

\* execute_pending_operations_inner for one popped operation.
RunOperation(m, op) ==
    LET m1 == [m EXCEPT !.pending_operations = @ (-) SetToBag({op})]
        m2 == TakeOut(m1, op.id)
        task == m.active_tasks[op.id]
    IN  IF op.id \notin DOMAIN m.active_tasks THEN Crash(m1)
        ELSE IF task.stack = <<>> \/ Last(task.stack).e # "State" THEN Crash(m2)
             ELSE RunState(m2, op, [task EXCEPT !.stack = Front(@)], Last(task.stack).s)

\* The heap gives an operation with the smallest timestamp; which one of
\* several is not specified.
DueOperations ==
    {op \in BagToSet(fsm.pending_operations) :
        /\ op.ts <= timer
        /\ \A o \in BagToSet(fsm.pending_operations) : op.ts <= o.ts}

\* The largest sum or product that a step computes before u64 cuts it: products
\* first, and the time at which a sleep ends.
Computed(ts, s, vs, heap) ==
    CASE s = "DelayedMessageTaskBegin" -> ts + vs[2].v
      [] s = "DivisorsTaskIteration" -> ts + NextDivisor(heap) * 10
      [] s = "FibonacciTaskCalculate" /\ heap.index < heap.n -> 5 * heap.index
      [] s = "FibonacciTaskStep" -> Max({heap.a + heap.b, ts + heap.delay_ms})
      [] s = "FactorialRecursionPostWrite" -> ts + vs[1].v * 50
      [] s = "FactorialRecursionPostRecursiveCall" -> vs[1].v * vs[2].v
      [] OTHER -> 0

\* The arithmetic of an operation leaves u64.
Overflows(op) ==
    LET task == fsm.active_tasks[op.id]
        s    == Last(task.stack).s
        k    == Len(task.stack)
        vs   == [i \in 1 .. LocalVarsCount(s) |-> task.stack[k - i]]
    IN  Computed(op.ts, s, vs, task.heap) > MaxU64

-----------------------------------------------------------------------------
\* What a handler puts on the stack and the heap of its task.

RequestStack(c, req) ==
    CASE req.kind = "delay" -> <<Value("DelayInputMs", req.n), Value("DelayInputMessage", c),
                                 State("DelayedMessageTaskBegin")>>
      [] req.kind = "send" -> <<Value("SenderInputMessage", c), State("SenderSendMessage")>>
      [] req.kind = "receive" -> <<>>
      [] req.kind = "divisors" -> <<State("DivisorsTaskBegin")>>
      [] req.kind = "fibonacci" -> <<State("FibonacciTaskBegin")>>
      [] req.kind = "factorial" -> <<Value("FactorialInput", req.n), State("FactorialEntry")>>
      [] req.kind = "get_user" -> <<Value("RequesterGetUserInput", req.n),
                                    State("RequesterGetUserRequest")>>

RequestHeap(req) ==
    CASE req.kind = "divisors" -> [h |-> "Divisors", n |-> req.n, i |-> req.n]
      [] req.kind = "fibonacci" -> [h |-> "Fibonacci", n |-> req.n, index |-> 0,
                                    a |-> 0, b |-> 0, delay_ms |-> 0]
      [] OTHER -> EmptyHeap

NoRequest == [kind |-> "none", n |-> 0]
Conn(phase, req, ts, id) == [phase |-> phase, req |-> req, ts |-> ts, id |-> id]

\* main() creates the storage before it serves the first request.
StorageId == 1
CreateUserStorage ==
    [next_task_id |-> 2,
     active_tasks |-> [id \in {StorageId} |->
         Task(0, <<State("Idle")>>, [h |-> "UsersStorage", store |-> Users])],
     pending_operations |-> EmptyBag, awaiter |-> 0, daemon_user_storage |-> StorageId]

Init ==
    /\ fsm = CreateUserStorage
    /\ timer = 0
    /\ conn = [c \in Clients |-> Conn("new", NoRequest, 0, 0)]
    /\ written = [c \in Clients |-> <<>>]
    /\ panicked = "no"

\* What client c may ask for, given what the others have asked for.
RequestsOf(c) ==
    UNION {r[c] : r \in {q \in Requests :
                           \A d \in Clients \ {c} : conn[d].req \in q[d] \cup {NoRequest}}}

\* The socket is upgraded: the handler reads the clock and then waits for
\* the mutex.
Upgrade(c, req) ==
    /\ panicked = "no" /\ conn[c].phase = "new"
    /\ conn' = [conn EXCEPT ![c] = Conn("locking", req, timer, 0)]
    /\ UNCHANGED <<fsm, timer, written, panicked>>

NewTask(c) ==
    Task(c, RequestStack(c, conn[c].req), RequestHeap(conn[c].req))

Schedule(c) ==
    /\ panicked = "no" /\ conn[c].phase = "locking" /\ conn[c].req.kind # "receive"
    /\ fsm' = Resume([fsm EXCEPT !.next_task_id = @ + 1], fsm.next_task_id, NewTask(c), conn[c].ts)
    /\ conn' = [conn EXCEPT ![c].phase = "scheduled", ![c].id = fsm.next_task_id]
    /\ UNCHANGED <<timer, written, panicked>>

ParkAwaiter(c) ==
    /\ panicked = "no" /\ conn[c].phase = "locking" /\ conn[c].req.kind = "receive"
    /\ fsm.awaiter = 0
    /\ fsm' = Keep([fsm EXCEPT !.next_task_id = @ + 1, !.awaiter = fsm.next_task_id],
                   fsm.next_task_id, NewTask(c))
    /\ conn' = [conn EXCEPT ![c].phase = "scheduled", ![c].id = fsm.next_task_id]
    /\ UNCHANGED <<timer, written, panicked>>

\* "only one awaiter at once": the handler's own task panics, the mutex of
\* tokio is not poisoned and everything else goes on.
AwaiterRefused(c) ==
    /\ panicked = "no" /\ conn[c].phase = "locking" /\ conn[c].req.kind = "receive"
    /\ fsm.awaiter # 0
    /\ conn' = [conn EXCEPT ![c].phase = "refused"]
    /\ UNCHANGED <<fsm, timer, written, panicked>>

\* A sum or product that leaves u64 wraps around in a release build; a debug
\* build panics, and the popped operation and its task are gone.
Execute ==
    /\ panicked = "no"
    /\ \E op \in DueOperations :
         \E o \in {RunOperation(fsm, op)} :
            \/ /\ fsm' = o.m
               /\ panicked' = IF o.ok THEN "no" ELSE "broken"
               /\ written' = [c \in Clients |->
                    LET texts == {w.text : w \in {x \in o.out : x.to = c}}
                    IN  written[c] \o [i \in 1 .. Cardinality(texts) |->
                                          [text |-> CHOOSE t \in texts : TRUE, ts |-> op.ts]]]
            \/ /\ o.ok /\ Overflows(op)
               /\ fsm' = TakeOut([fsm EXCEPT !.pending_operations = @ (-) SetToBag({op})],
                                 op.id)
               /\ panicked' = "overflow"
               /\ UNCHANGED written
    /\ UNCHANGED <<timer, conn>>

\* Time only matters against the scheduled timestamps: the clock moves to
\* one of them, or past it before the executor gets there.
Tick ==
    /\ panicked = "no"
    /\ \E op \in BagToSet(fsm.pending_operations) : \E t \in {op.ts, op.ts + 1} :
          t > timer /\ t <= MaxU64 /\ timer' = t
    /\ UNCHANGED <<fsm, conn, written, panicked>>

HandlerStep(c) == Schedule(c) \/ ParkAwaiter(c) \/ AwaiterRefused(c)

Next ==
    \/ \E c \in Clients : \E req \in RequestsOf(c) : Upgrade(c, req)
    \/ \E c \in Clients : Schedule(c)
    \/ \E c \in Clients : ParkAwaiter(c)
    \/ \E c \in Clients : AwaiterRefused(c)
    \/ Execute
    \/ Tick

\* WF_vars(Execute) with its guard written out: an operation that stays due
\* is executed.
ExecutorRuns == []<>(panicked # "no" \/ DueOperations = {}) \/ []<><<Execute>>_vars

\* The executor runs for ever, the clock goes on, and the mutex is handed
\* out first come, first served.
Spec ==
    /\ Init /\ [][Next]_vars
    /\ ExecutorRuns /\ WF_vars(Tick)
    /\ \A c \in Clients : WF_vars(HandlerStep(c))

-----------------------------------------------------------------------------
\* Properties.

\* The operations that wait for a task, the copies of one told apart by number.
OperationsOf(id) ==
    UNION {{op} \X (1 .. fsm.pending_operations[op]) :
              op \in {o \in BagToSet(fsm.pending_operations) : o.id = id}}
Pending(id) == OperationsOf(id) # {}

Storage == fsm.active_tasks[StorageId]
QueuedBy(id) == {i \in DOMAIN Storage.in_queue : Storage.in_queue[i].from = id}
Finished(c) == conn[c].phase = "scheduled" /\ conn[c].id \notin DOMAIN fsm.active_tasks

\* The variables have their types; every pending operation names a task
\* created before.
TaskTypeOK ==
    /\ timer \in 0 .. MaxU64
    /\ panicked \in {"no", "overflow", "broken"}
    /\ conn \in [Clients -> [phase : {"new", "locking", "scheduled", "refused"},
                             req : Request \cup {NoRequest}, ts : Nat, id : Nat]]
    /\ DOMAIN fsm.active_tasks \subseteq 1 .. fsm.next_task_id - 1
    /\ \A op \in BagToSet(fsm.pending_operations) :
          op.ts \in Nat /\ op.id \in 1 .. fsm.next_task_id - 1

\* None of the expect, assert and panic! calls of the executor and of
\* global_step is ever reached: no step finds a task missing, a stack
\* without a state on top, or locals of another state.  The one panic there is
\* comes from arithmetic: a sum or product that leaves u64, in a debug build.
OnlyOverflowPanics == panicked # "broken"

\* A task is in exactly one place: it waits for one operation, or it is the
\* awaiter, or it has exactly one request in the queue of the storage.  A
\* task in two places would be resumed twice, the second time with a stack
\* that is not its own; a task in none would stay active for ever.
TasksInOnePlace ==
    \A id \in DOMAIN fsm.active_tasks \ {StorageId} :
        Cardinality(OperationsOf(id)) + Cardinality(QueuedBy(id))
            + (IF fsm.awaiter = id THEN 1 ELSE 0) = 1

\* No wake-up of the users storage is lost: while a request is in its queue
\* it has an operation, whatever the order in which late requests with
\* older timestamps came in and how many wake-ups found the queue empty.
StorageWakes == Storage.in_queue # <<>> => Pending(StorageId)

\* The stack is made of frames, each a state or return point over exactly its
\* locals.  (debug_validate_maroon_stack, compiled for unit tests only, asks for
\* the same, but does not look at an entry that is alone under all frames.)
ValidStack(stk) ==
    LET Count(i) == IF stk[i].e = "State" THEN LocalVarsCount(stk[i].s)
                                          ELSE ReturnLocalVarsCount(stk[i].s)
        Below(i) == i - Count(i) - 1
    IN  /\ stk # <<>> /\ Last(stk).e # "Value"
        /\ \A i \in DOMAIN stk : stk[i].e # "Value" =>
              /\ Below(i) >= 0
              /\ \A j \in Below(i) + 1 .. i - 1 : stk[j].e = "Value"
              /\ Below(i) > 0 => stk[Below(i)].e # "Value"

\* Completed over the locals of the last state, which OnWrite puts back although
\* Completed counts none, and over nothing else: nobody waits for a result.  With
\* two of them (a delay, a factorial) the validator would panic.
Finishing(stk) ==
    /\ stk # <<>> /\ Last(stk) = State("Completed")
    /\ \A i \in 1 .. Len(stk) - 1 : stk[i].e = "Value"

\* Between two steps each state finds its own locals on the stack and each
\* return point the locals it kept across the call; what completes has no
\* return point left.
StacksValid ==
    \A id \in DOMAIN fsm.active_tasks :
        LET stk == fsm.active_tasks[id].stack
        IN  Pending(id) => ValidStack(stk) \/ Finishing(stk)

\* The executor is sound: nothing but an overflow stops it, and between two
\* steps every scheduled task has a stack its next step can use.
ExecutorSound == TaskTypeOK /\ OnlyOverflowPanics /\ StacksValid

\* Nobody is forgotten or resumed twice: every task is in exactly one place,
\* and the storage, in whose queue it may be, has a wake-up to come.
NobodyForgotten == TasksInOnePlace /\ StorageWakes

SumTo[n \in Nat] == IF n = 0 THEN 0 ELSE n + SumTo[n - 1]
Fact[n \in Nat] == IF n = 0 THEN 1 ELSE n * Fact[n - 1]
Fib[n \in Nat] == IF n <= 1 THEN n ELSE Fib[n - 1] + Fib[n - 2]

Stamped(t, a, b, ts) == [text |-> Text(t, a, b), ts |-> U64(ts)]

\* What a task that computes alone must have written in the end, with the
\* logical time of every line, all modulo 2^64.
ExpectedOutput(c) ==
    LET n  == conn[c].req.n
        t0 == conn[c].ts
        divs == SetToSortSeq({d \in 1 .. n : n % d = 0}, >)
        Spent(i) == 10 * SumSet({divs[j] : j \in 1 .. i})
    IN  CASE conn[c].req.kind = "delay" -> <<Stamped("after", c, n, t0 + n)>>
          [] conn[c].req.kind = "divisors" ->
               [i \in 1 .. Len(divs) |-> Stamped("divides", n, divs[i], t0 + Spent(i))]
                  \o <<Stamped("divided", n, 0, t0 + Spent(Len(divs)))>>
          [] conn[c].req.kind = "fibonacci" ->
               [i \in 1 .. n - 1 |-> Stamped("fib_step", i, U64(Fib[i]), t0 + 5 * SumTo[i - 1])]
                  \o <<Stamped("fib", n, U64(Fib[n]), t0 + 5 * SumTo[IF n = 0 THEN 0 ELSE n - 1])>>
          [] conn[c].req.kind = "factorial" ->
               [i \in 1 .. (IF n = 0 THEN 1 ELSE n) |->
                    Stamped("f", n - i + 1, 0, t0 + 50 * (SumTo[n] - SumTo[n - i + 1]))]
                  \o <<Stamped("factorial", n, U64(Fact[n]), t0 + 50 * SumTo[n])>>

\* A delay, divisors, fibonacci or factorial task writes the lines it should,
\* in order and stamped with its own logical time, however late the
\* executor runs it and whatever runs in between; numbers that leave u64 are
\* cut as in the arithmetic modulo 2^64, or are not written at all.
OutputsExact ==
    \A c \in Clients :
        conn[c].phase = "scheduled"
          /\ conn[c].req.kind \in {"delay", "divisors", "fibonacci", "factorial"} =>
            /\ IsPrefix(written[c], ExpectedOutput(c))
            /\ Finished(c) /\ panicked = "no" => written[c] = ExpectedOutput(c)

\* A client that asked for a user gets one answer, and it is the user with
\* that id if the storage has it: answers never go to another client.
UserAnswersMatch ==
    \A c \in Clients :
        conn[c].req.kind = "get_user" =>
            /\ \A i \in DOMAIN written[c] :
                  written[c][i].text = Text("user", IF conn[c].req.n \in Users
                                                    THEN conn[c].req.n ELSE 0, 0)
            /\ Len(written[c]) <= 1
            /\ Finished(c) /\ panicked = "no" => Len(written[c]) = 1

\* Clients are told the right things: the lines of their own computation with
\* its logical times, or the user they asked for.
ToldTheTruth == OutputsExact /\ UserAnswersMatch

\* Every request that is not a receive runs to its end unless an overflow stops
\* the executor.  (A client makes one request, and what is finished stays so.)
RequestsFinish ==
    <>[](panicked = "overflow" \/ \A c \in Clients :
            conn[c].phase \in {"locking", "scheduled"} /\ conn[c].req.kind # "receive"
              => Finished(c))

\* A client that is told its message was sent has it delivered: some
\* receiver writes this very message, unless an overflow stops the executor.
SentMessagesArrive ==
    <>[](panicked = "overflow" \/ \A c \in Clients :
            (\E i \in DOMAIN written[c] : written[c][i].text.t = "sent")
              => \E d \in Clients : \E i \in DOMAIN written[d] :
                    written[d][i].text = Text("got", c, 0))
=============================================================================
