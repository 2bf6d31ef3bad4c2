------------------------------- MODULE Runtime -------------------------------
(***************************************************************************)
(* The execution engine of a node (runtime/src/runtime.rs): one task that  *)
(* goes round a loop of timers, fibers, resolved futures, queues and       *)
(* input.  What a fiber computes (fiber.rs and the generated code) is a    *)
(* free choice of what it asks the runtime for next; values are left out,  *)
(* except that an external message carries the future of its answer.  The  *)
(* wait registry appears as the FIFOs of module WaitQueues, which module   *)
(* WaitRegistry implements.                                                *)
(***************************************************************************)
EXTENDS Integers, FiniteSets, SequencesExt

CONSTANTS
    QueueNames,     \* names of queues
    Txs,            \* transactions of committed epochs
    MaxHandovers,   \* bound: how often the App hands a transaction over
    MaxFibers,      \* bound: fibers ever created
    MaxFutures,     \* bound: futures ever created
    MaxMessages,    \* bound: messages in a queue that fibers add to
    MaxResolved,    \* bound: resolved futures that fibers add to
    MaxTime,        \* bound: the clock
    EpochTimes,     \* creation times of epochs
    Delays,         \* delays of the timers that fibers create
    MaxArms,        \* bound: arms of one select
    MaxPrimitives   \* bound: primitives created by one request

FiberIds == 0 .. MaxFibers - 1

\* <<tx, k>>: the k-th time the App hands tx over.  An epoch that a re-created
\* watch delivers again (EpochLog, Reconnect) is handed over again.
Handovers == Txs \X (1 .. MaxHandovers)

FutureIds == 0 .. MaxFutures - 1
WaitKeys == QueueNames \cup FutureIds
Plain == -1         \* a message that carries no future

ASSUME RuntimeAssumption ==
    /\ IsFiniteSet(QueueNames) /\ IsFiniteSet(Txs) /\ MaxHandovers \in Nat
    /\ MaxFibers \in Nat \ {0} /\ MaxFutures \in Nat /\ MaxMessages \in Nat
    /\ MaxResolved \in Nat /\ MaxTime \in Nat /\ MaxArms \in Nat \ {0}
    /\ EpochTimes \subseteq 0 .. MaxTime /\ Delays \subseteq 0 .. MaxTime
    /\ MaxPrimitives \in Nat \ {0}
    /\ QueueNames \cap FutureIds = {}

VARIABLES
    phase,                  \* the part of 'main_loop that comes next
    active_fibers,          \* Runtime::active_fibers
    awaiting_fibers,        \* Runtime::awaiting_fibers
    wait_index,             \* Runtime::wait_index, the FIFO of each key
    scheduled,              \* Runtime::scheduled
    next_fiber_id,          \* Runtime::next_fiber_id
    next_created_future_id, \* Runtime::next_created_future_id
    public_futures,         \* Runtime::public_futures
    queue_messages,         \* Runtime::queue_messages
    non_empty_queues,       \* Runtime::non_empty_queues
    resolved_futures,       \* Runtime::resolved_futures
    active_tasks,           \* Runtime::active_tasks
    receiver,               \* batches on their way from the App
    current_queue,          \* the rest of the batch that is taken in
    answers,                \* (hand-over) results sent to the App
    unsent,                 \* hand-overs that have not happened yet
    last_epoch,             \* the App's latest batch, if there is one
    now,                    \* the timer
    crashed                 \* a panic of the task and its reason

fiberVars == <<active_fibers, awaiting_fibers, wait_index, next_fiber_id>>
futureVars == <<scheduled, next_created_future_id, public_futures,
                resolved_futures>>
queueVars == <<queue_messages, non_empty_queues>>
appVars == <<active_tasks, receiver, current_queue, answers, unsent,
             last_epoch>>
runtimeVars == <<phase, fiberVars, futureVars, queueVars, appVars, now, crashed>>

WaitIndex == INSTANCE WaitQueues
             WITH Fibers <- FiberIds, Keys <- WaitKeys, SelectIds <- FiberIds,
                  waiters <- wait_index, outcome <- Plain

\* A select is named by its fiber, which waits with one at a time.
Waiter == {w \in [select : FiberIds, fiber : FiberIds, arm : 1 .. MaxArms] :
             w.select = w.fiber}
Task == [tx : Handovers, queue : QueueNames]
Batch == [time : 0 .. MaxTime, tasks : Seq(Task)]

\* active_tasks holds at most the one batch that was too early.
Pending == active_tasks \o receiver

TxsOf(tasks) == {task.tx : task \in ToSet(tasks)}

\* Hand-overs on their way to the queues, and those among them that have not
\* happened yet.
InFlight ==
    TxsOf(current_queue) \cup UNION {TxsOf(b.tasks) : b \in ToSet(Pending)}
Undelivered == unsent \cup InFlight

RuntimeInit ==
    /\ phase = "timers"
    /\ active_fibers = <<0>>
    /\ awaiting_fibers = {}
    /\ wait_index = [k \in WaitKeys |-> <<>>]
    /\ next_fiber_id = 1
    /\ scheduled = {} /\ resolved_futures = <<>>
    /\ next_created_future_id = 0 /\ public_futures = <<>>
    /\ queue_messages = <<>> /\ non_empty_queues = <<>>
    /\ active_tasks = <<>> /\ receiver = <<>> /\ current_queue = <<>>
    /\ answers = <<>>
    /\ unsent = Handovers /\ last_epoch = <<>>
    /\ now = 0
    /\ crashed = "no"

-----------------------------------------------------------------------------
\* Mutant of Rotated: what nobody waits for stays in front.
KeptInFront(list) == list

\* What nobody waits for goes to the back.
Rotated(list) == Append(Tail(list), Head(list))

\* wake_one: who is woken for a key, and the FIFOs without its select.
Woken(key) == Head(wait_index[key]).fiber

\* Mutant of Withdrawn: the sibling arms of the woken fiber stay.
WithdrawnHere(key) == [wait_index EXCEPT ![key] = Tail(@)]

Withdrawn(key) == WaitIndex!Without(Woken(key))

(***************************************************************************)
(* Timers: at most one due future per round, in front of all others.       *)
(***************************************************************************)
EarliestScheduled ==
    {s \in scheduled : \A t \in scheduled : s.when <= t.when}

TakeScheduled ==
    /\ phase = "timers"
    /\ \/ /\ \A s \in scheduled : s.when > now
          /\ UNCHANGED <<scheduled, resolved_futures>>
       \/ \E s \in EarliestScheduled :
            /\ s.when <= now
            /\ scheduled' = scheduled \ {s}
            /\ resolved_futures' = <<s.what>> \o resolved_futures
    /\ phase' = "fibers"
    /\ UNCHANGED <<fiberVars, next_created_future_id, public_futures,
                   queueVars, appVars, now, crashed>>

-----------------------------------------------------------------------------
(***************************************************************************)
(* Fibers: the first active fiber runs until it asks the runtime for       *)
(* something.  All but Done and Select put it back in front, so several    *)
(* values or fibers in one request are as many requests.                   *)
(***************************************************************************)
Running == phase = "fibers" /\ active_fibers # <<>>

FiberDone ==
    /\ Running
    /\ active_fibers' = Tail(active_fibers)
    /\ UNCHANGED <<phase, awaiting_fibers, wait_index, next_fiber_id,
                   futureVars, queueVars, appVars, now, crashed>>

\* Nobody has read the future of an external message before its message.
KnownFutures ==
    (0 .. next_created_future_id - 1)
      \ UNION {ToSet(queue_messages[q]) : q \in DOMAIN queue_messages}

\* At least one arm: a fiber that selects on nothing stays in awaiting_fibers for
\* ever and is never heard of again, like one that is done.
ArmLists ==
    UNION {[1 .. n -> QueueNames \cup KnownFutures] : n \in 1 .. MaxArms}

FiberSelect(arms) ==
    /\ Running
    /\ LET fiber == Head(active_fibers)
       IN /\ wait_index' = [k \in WaitKeys |-> wait_index[k] \o
                              WaitIndex!EntriesFor(k, fiber, fiber, arms)]
          /\ awaiting_fibers' = awaiting_fibers \cup {fiber}
    /\ active_fibers' = Tail(active_fibers)
    /\ UNCHANGED <<phase, next_fiber_id, futureVars, queueVars, appVars, now,
                   crashed>>

FiberCreatesFiber ==
    /\ Running
    /\ next_fiber_id < MaxFibers
    /\ active_fibers' = Append(active_fibers, next_fiber_id)
    /\ next_fiber_id' = next_fiber_id + 1
    /\ UNCHANGED <<phase, awaiting_fibers, wait_index, futureVars, queueVars,
                   appVars, now, crashed>>

\* Mutant of Push: the name is added whenever a message is.
PushAndList(queue, message) ==
    /\ queue_messages' = [queue_messages EXCEPT ![queue] = Append(@, message)]
    /\ non_empty_queues' = Append(non_empty_queues, queue)

\* queue.push_back, and the name into non_empty_queues if it was empty
Push(queue, message) ==
    /\ queue_messages' = [queue_messages EXCEPT ![queue] = Append(@, message)]
    /\ non_empty_queues' = IF queue_messages[queue] = <<>>
                           THEN Append(non_empty_queues, queue)
                           ELSE non_empty_queues

\* SetValues with a message for a queue; there is no queue: the task panics
FiberSendsMessage(queue) ==
    /\ Running
    /\ \/ /\ queue \in DOMAIN queue_messages
          /\ Len(queue_messages[queue]) < MaxMessages
          /\ Push(queue, Plain)
          /\ UNCHANGED crashed
       \/ /\ queue \notin DOMAIN queue_messages
          /\ crashed' = "no such queue"
          /\ UNCHANGED queueVars
    /\ UNCHANGED <<phase, fiberVars, futureVars, appVars, now>>

\* Mutant of FiberSetsFuture: the public future is looked up, not removed.
FiberSetsFutureAgain(future) ==
    /\ Running
    /\ future \in DOMAIN public_futures
    /\ Len(answers) < 2
    /\ answers' = Append(answers, public_futures[future])
    /\ UNCHANGED <<phase, fiberVars, futureVars, queueVars, active_tasks,
                   receiver, current_queue, unsent, last_epoch, now, crashed>>

\* SetValues with a future: of an external message, or any other
FiberSetsFuture(future) ==
    /\ Running
    /\ \/ /\ future \in DOMAIN public_futures
          /\ answers' = Append(answers, public_futures[future])
          /\ public_futures' = [f \in DOMAIN public_futures \ {future} |->
                                  public_futures[f]]
          /\ UNCHANGED resolved_futures
       \/ /\ future \notin DOMAIN public_futures
          /\ Len(resolved_futures) < MaxResolved
          /\ resolved_futures' = Append(resolved_futures, future)
          /\ UNCHANGED <<answers, public_futures>>
    /\ UNCHANGED <<phase, fiberVars, scheduled, next_created_future_id,
                   queueVars, active_tasks, receiver, current_queue, unsent,
                   last_epoch, now, crashed>>

Primitives ==
    [kind : {"queue"}, name : QueueNames] \cup [kind : {"future"}]
      \cup [kind : {"schedule"}, ms : Delays]
PrimitiveLists == UNION {[1 .. n -> Primitives] : n \in 1 .. MaxPrimitives}

QueuesAmong(primitives) ==
    {i \in DOMAIN primitives : primitives[i].kind = "queue"}
FuturesAmong(primitives) == DOMAIN primitives \ QueuesAmong(primitives)

AlreadyExists(primitives) ==
    \E i \in QueuesAmong(primitives) :
        \/ primitives[i].name \in DOMAIN queue_messages
        \/ \E j \in QueuesAmong(primitives) :
              j < i /\ primitives[j].name = primitives[i].name

\* Futures are numbered in the order of the primitives.
NumberAt(primitives, i) ==
    next_created_future_id
      + Cardinality({j \in FuturesAmong(primitives) : j < i})

\* Nothing is created if one of the primitives cannot be.
FiberCreateFails(primitives) ==
    /\ Running
    /\ AlreadyExists(primitives)
    /\ UNCHANGED runtimeVars

FiberCreates(primitives) ==
    /\ Running
    /\ ~ AlreadyExists(primitives)
    /\ LET created == next_created_future_id
                         + Cardinality(FuturesAmong(primitives))
       IN /\ created + Cardinality(InFlight) <= MaxFutures
          /\ next_created_future_id' = created
    /\ queue_messages' =
         [q \in DOMAIN queue_messages
                  \cup {primitives[i].name : i \in QueuesAmong(primitives)} |->
            IF q \in DOMAIN queue_messages THEN queue_messages[q] ELSE <<>>]
    /\ scheduled' = scheduled \cup
         {[when |-> now + primitives[i].ms, what |-> NumberAt(primitives, i)] :
             i \in {j \in DOMAIN primitives : primitives[j].kind = "schedule"}}
    /\ UNCHANGED <<phase, fiberVars, public_futures, resolved_futures,
                   non_empty_queues, appVars, now, crashed>>

NoFiberLeft ==
    /\ phase = "fibers"
    /\ active_fibers = <<>>
    /\ phase' = "futures"
    /\ UNCHANGED <<fiberVars, futureVars, queueVars, appVars, now, crashed>>

-----------------------------------------------------------------------------
(***************************************************************************)
(* Resolved futures: one per round.  The fiber that waited goes to the     *)
(* front of active_fibers, but the round goes on with queues and input.    *)
(***************************************************************************)
ResolveFuture ==
    /\ phase = "futures"
    /\ resolved_futures # <<>>
    /\ LET future == Head(resolved_futures)
       IN \/ /\ wait_index[future] = <<>>
             /\ resolved_futures' = Rotated(resolved_futures)
             /\ phase' = "queues"
             /\ UNCHANGED <<fiberVars, crashed>>
          \/ /\ wait_index[future] # <<>>
             /\ Woken(future) \in awaiting_fibers
             /\ wait_index' = Withdrawn(future)
             /\ awaiting_fibers' = awaiting_fibers \ {Woken(future)}
             /\ active_fibers' = <<Woken(future)>> \o active_fibers
             /\ resolved_futures' = Tail(resolved_futures)
             /\ phase' = "queues"
             /\ UNCHANGED <<next_fiber_id, crashed>>
          \/ /\ wait_index[future] # <<>>
             /\ Woken(future) \notin awaiting_fibers
             /\ crashed' = "inconsistent"
             /\ UNCHANGED <<phase, fiberVars, resolved_futures>>
    /\ UNCHANGED <<scheduled, next_created_future_id, public_futures, queueVars,
                   appVars, now>>

NoResolvedFuture ==
    /\ phase = "futures"
    /\ resolved_futures = <<>>
    /\ phase' = "queues"
    /\ UNCHANGED <<fiberVars, futureVars, queueVars, appVars, now, crashed>>

-----------------------------------------------------------------------------
(***************************************************************************)
(* Queues: the first listed one.  A delivered message starts a new round   *)
(* at once (continue 'main_loop), without a look at the input.             *)
(***************************************************************************)
DeliverMessage ==
    /\ phase = "queues"
    /\ non_empty_queues # <<>>
    /\ LET queue == Head(non_empty_queues)
       IN \/ /\ wait_index[queue] = <<>>
             /\ non_empty_queues' = Rotated(non_empty_queues)
             /\ phase' = "input"
             /\ UNCHANGED <<fiberVars, queue_messages, crashed>>
          \/ /\ wait_index[queue] # <<>>
             /\ Woken(queue) \in awaiting_fibers
             /\ queue \in DOMAIN queue_messages
             /\ queue_messages[queue] # <<>>
             /\ wait_index' = Withdrawn(queue)
             /\ awaiting_fibers' = awaiting_fibers \ {Woken(queue)}
             /\ active_fibers' = <<Woken(queue)>> \o active_fibers
             /\ queue_messages' = [queue_messages EXCEPT ![queue] = Tail(@)]
             /\ non_empty_queues' =
                  IF Len(queue_messages[queue]) > 1
                  THEN Rotated(non_empty_queues)
                  ELSE Tail(non_empty_queues)
             /\ phase' = "timers"
             /\ UNCHANGED <<next_fiber_id, crashed>>
          \/ /\ wait_index[queue] # <<>>
             /\ \/ Woken(queue) \notin awaiting_fibers
                \/ queue \notin DOMAIN queue_messages
                \/ queue_messages[queue] = <<>>
             /\ crashed' = "inconsistent"
             /\ UNCHANGED <<phase, fiberVars, queueVars>>
    /\ UNCHANGED <<futureVars, appVars, now>>

NoMessage ==
    /\ phase = "queues"
    /\ non_empty_queues = <<>>
    /\ phase' = "input"
    /\ UNCHANGED <<fiberVars, futureVars, queueVars, appVars, now, crashed>>

-----------------------------------------------------------------------------
(***************************************************************************)
(* Input: every batch that is due, until there is none or one is too       *)
(* early.  The task sleeps then, with all its fibers.                      *)
(***************************************************************************)

Idle == phase = "input" /\ current_queue = <<>>

TakeBatch ==
    /\ Idle
    /\ Pending # <<>>
    /\ Head(Pending).time <= now
    /\ current_queue' = Head(Pending).tasks
    /\ active_tasks' = <<>>
    /\ receiver' = IF active_tasks = <<>> THEN Tail(receiver) ELSE receiver
    /\ UNCHANGED <<phase, fiberVars, futureVars, queueVars, answers, unsent,
                   last_epoch, now, crashed>>

\* public_futures with the next future for transaction tx
WithPublic(tx) ==
    [f \in DOMAIN public_futures \cup {next_created_future_id} |->
        IF f = next_created_future_id THEN tx ELSE public_futures[f]]

\* Mutant of AcceptTask: the counter of futures is not moved on.
AcceptTaskSameNumber ==
    /\ phase = "input"
    /\ current_queue # <<>>
    /\ LET task == Head(current_queue)
       IN \/ /\ task.queue \in DOMAIN queue_messages
             /\ Push(task.queue, next_created_future_id)
             /\ public_futures' = WithPublic(task.tx)
          \/ /\ task.queue \notin DOMAIN queue_messages
             /\ UNCHANGED <<queueVars, public_futures>>
    /\ current_queue' = Tail(current_queue)
    /\ UNCHANGED <<phase, fiberVars, next_created_future_id, scheduled,
                   resolved_futures, active_tasks, receiver, answers, unsent,
                   last_epoch, now, crashed>>

\* One turn of the loop over a batch; a task for no queue is dropped.
AcceptTask ==
    /\ phase = "input"
    /\ current_queue # <<>>
    /\ LET task == Head(current_queue)
       IN \/ /\ task.queue \in DOMAIN queue_messages
             /\ Push(task.queue, next_created_future_id)
             /\ public_futures' = WithPublic(task.tx)
             /\ next_created_future_id' = next_created_future_id + 1
          \/ /\ task.queue \notin DOMAIN queue_messages
             /\ UNCHANGED <<queueVars, public_futures, next_created_future_id>>
    /\ current_queue' = Tail(current_queue)
    /\ UNCHANGED <<phase, fiberVars, scheduled, resolved_futures, active_tasks,
                   receiver, answers, unsent, last_epoch, now, crashed>>

BatchTooEarly ==
    /\ Idle
    /\ Pending # <<>>
    /\ Head(Pending).time > now
    /\ active_tasks' = <<Head(Pending)>>
    /\ receiver' = IF active_tasks = <<>> THEN Tail(receiver) ELSE receiver
    /\ phase' = "asleep"
    /\ UNCHANGED <<fiberVars, futureVars, queueVars, current_queue, answers,
                   unsent, last_epoch, now, crashed>>

\* The sleep ends when the batch is due.
WakeUp ==
    /\ phase = "asleep"
    /\ Head(active_tasks).time <= now
    /\ phase' = "timers"
    /\ UNCHANGED <<fiberVars, futureVars, queueVars, appVars, now, crashed>>

NoInput ==
    /\ Idle
    /\ Pending = <<>>
    /\ phase' = "timers"
    /\ UNCHANGED <<fiberVars, futureVars, queueVars, appVars, now, crashed>>

-----------------------------------------------------------------------------
(***************************************************************************)
(* The App hands over the transactions of an epoch; time passes.           *)
(***************************************************************************)
AppSends(time, tasks) ==
    LET batch == [time |-> time, tasks |-> tasks]
    IN /\ next_created_future_id + Cardinality(InFlight \cup TxsOf(tasks))
             <= MaxFutures
       /\ unsent' = unsent \ TxsOf(tasks)
       /\ receiver' = Append(receiver, batch)
       /\ last_epoch' = <<batch>>
       /\ UNCHANGED <<phase, fiberVars, futureVars, queueVars, active_tasks,
                      current_queue, answers, now, crashed>>

\* Lists of tasks still to be handed over, each once.
TaskLists ==
    {tasks \in UNION {[1 .. n -> [tx : unsent, queue : QueueNames]] :
                         n \in 1 .. Cardinality(unsent)} :
       \A i, j \in DOMAIN tasks : tasks[i].tx = tasks[j].tx => i = j}

\* A new epoch: transactions that were in none before.
NewEpoch ==
    \E time \in EpochTimes, tasks \in TaskLists :
        /\ \A i \in DOMAIN tasks : tasks[i].tx[2] = 1
        /\ AppSends(time, tasks)

\* The tasks of an epoch when it comes once more.
OnceMore(tasks) ==
    [i \in DOMAIN tasks |->
        [tasks[i] EXCEPT !.tx = <<tasks[i].tx[1], tasks[i].tx[2] + 1>>]]

\* The watch brings the latest epoch again: handle_epoch_coordinator_updates
\* hands the same tasks over with the same time.
SameEpoch ==
    /\ last_epoch # <<>>
    /\ LET again == OnceMore(last_epoch[1].tasks)
       IN /\ again \in TaskLists
          /\ AppSends(last_epoch[1].time, again)

Tick ==
    /\ now < MaxTime
    /\ now' = now + 1
    /\ UNCHANGED <<phase, fiberVars, futureVars, queueVars, appVars, crashed>>

-----------------------------------------------------------------------------
FiberStep ==
    \/ FiberDone
    \/ \E arms \in ArmLists : FiberSelect(arms)
    \/ FiberCreatesFiber
    \/ \E q \in QueueNames : FiberSendsMessage(q)
    \/ \E f \in KnownFutures : FiberSetsFuture(f)
    \/ \E p \in PrimitiveLists : FiberCreateFails(p) \/ FiberCreates(p)

RuntimeStep ==
    /\ crashed = "no"
    /\ \/ TakeScheduled
       \/ FiberStep
       \/ NoFiberLeft
       \/ ResolveFuture
       \/ NoResolvedFuture
       \/ DeliverMessage
       \/ NoMessage
       \/ TakeBatch
       \/ AcceptTask
       \/ BatchTooEarly
       \/ WakeUp
       \/ NoInput

Environment == NewEpoch \/ SameEpoch \/ Tick

RuntimeSpec ==
    RuntimeInit /\ [][RuntimeStep \/ Environment]_runtimeVars

-----------------------------------------------------------------------------
(***************************************************************************)
(* Properties.                                                             *)
(***************************************************************************)
RuntimeTypeOK ==
    /\ phase \in {"timers", "fibers", "futures", "queues", "input", "asleep"}
    /\ active_fibers \in Seq(FiberIds)
    /\ awaiting_fibers \subseteq FiberIds
    /\ wait_index \in [WaitKeys -> Seq(Waiter)]
    /\ next_fiber_id \in 1 .. MaxFibers
    /\ scheduled \subseteq [when : 0 .. 2 * MaxTime, what : FutureIds]
    /\ next_created_future_id \in 0 .. MaxFutures
    /\ DOMAIN public_futures \subseteq FutureIds
    /\ \A f \in DOMAIN public_futures : public_futures[f] \in Handovers
    /\ DOMAIN queue_messages \subseteq QueueNames
    /\ \A q \in DOMAIN queue_messages :
          queue_messages[q] \in Seq(FutureIds \cup {Plain})
    /\ non_empty_queues \in Seq(QueueNames)
    /\ resolved_futures \in Seq(FutureIds)
    /\ active_tasks \in Seq(Batch) /\ receiver \in Seq(Batch)
    /\ current_queue \in Seq(Task)
    /\ answers \in Seq(Handovers) /\ unsent \subseteq Handovers
    /\ last_epoch \in Seq(Batch)
    /\ now \in 0 .. MaxTime
    /\ crashed \in {"no", "no such queue", "inconsistent"}

\* non_empty_queues lists exactly the queues that have messages, each once,
\* whoever put the messages there and took them: no message is forgotten and
\* no fiber is woken for an empty queue.
QueuesListedOnce ==
    /\ IsInjective(non_empty_queues)
    /\ ToSet(non_empty_queues) =
          {q \in DOMAIN queue_messages : queue_messages[q] # <<>>}

\* A fiber is active or parked, never both, and a fiber parked with at least one
\* arm can be woken: awaiting_fibers are the fibers that the wait registry knows.
FibersInOnePlace ==
    /\ IsInjective(active_fibers)
    /\ ToSet(active_fibers) \cap awaiting_fibers = {}
    /\ awaiting_fibers =
          {w.fiber : w \in UNION {ToSet(wait_index[k]) : k \in WaitKeys}}

\* None of the expect() calls on the consistency of the runtime fails.
RuntimeConsistent == crashed # "inconsistent"

\* The fibers are sound: each is in one place, whoever is parked can be woken,
\* and no wake-up looks for a fiber, a queue or a message that is not there.
FibersSound == RuntimeTypeOK /\ FibersInOnePlace /\ RuntimeConsistent

\* However often the App hands a transaction over, every hand-over is answered
\* at most once, and is waiting to be taken, waiting for its answer or answered,
\* never two of these at a time.  (A transaction that is handed over twice is
\* executed twice and answered twice: the runtime does not look at the id.)
HandoversAnsweredOnce ==
    LET waiting == {public_futures[f] : f \in DOMAIN public_futures}
    IN /\ IsInjective(answers)
       /\ IsInjective(public_futures)
       /\ waiting \cap ToSet(answers) = {}
       /\ Undelivered \cap (waiting \cup ToSet(answers)) = {}

\* The future of an unanswered transaction is nobody else's: no fiber waits
\* for a timer of the same number, and no value set for it stays inside.
PublicFuturesApart ==
    \A f \in DOMAIN public_futures :
        /\ f \notin ToSet(resolved_futures)
        /\ f \notin {s.what : s \in scheduled}

\* g is the first to be woken for key k, which is resolved or has messages, and
\* how many keys are tried before it.
FirstToWake(k, g) ==
    /\ k \in ToSet(resolved_futures) \cup ToSet(non_empty_queues)
    /\ wait_index[k] # <<>>
    /\ Woken(k) = g

Ahead(k) ==
    LET list == IF k \in QueueNames THEN non_empty_queues ELSE resolved_futures
    IN Cardinality({i \in DOMAIN list : \A j \in 1 .. i : list[j] # k})

\* A step that puts a due timer in front of future k, and one that looks at the
\* first of the futures or queues among which k is.
TimerFires(k) == k \in FutureIds /\ phase = "timers" /\ scheduled' # scheduled
LooksFor(k) ==
    /\ phase = IF k \in QueueNames THEN "queues" ELSE "futures"
    /\ phase' # phase

\* A fiber that waits longest for a resolved future or a queue with messages
\* gets nearer with every look at the futures or the queues until it is woken,
\* by this key or another: nobody overtakes it but a due timer, which goes in
\* front of all resolved futures.  (One future is looked at per round, so timers
\* that are due in every round keep it waiting for ever.)
OnlyTimersOvertake ==
    [][\A k \in WaitKeys, g \in FiberIds :
          FirstToWake(k, g) /\ g \in awaiting_fibers' /\ crashed' = "no" =>
             /\ FirstToWake(k, g)'
             /\ Ahead(k)' <= Ahead(k) + (IF TimerFires(k) THEN 1 ELSE 0)
                                      - (IF LooksFor(k) THEN 1 ELSE 0)
      ]_runtimeVars

=============================================================================
