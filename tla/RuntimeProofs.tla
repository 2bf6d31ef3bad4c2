---------------------------- MODULE RuntimeProofs ----------------------------
(***************************************************************************)
(* Proofs about Runtime, for any queues, transactions and bounds.          *)
(* RuntimeInv is inductive; its parts are about fibers, queues, futures    *)
(* and batches, and a step of the loop disturbs one or two of them.        *)
(***************************************************************************)
EXTENDS Runtime, PositionsProofs

(***************************************************************************)
(* The inductive invariant.                                                *)
(***************************************************************************)

\* Fibers get fresh ids.
FibersCounted ==
    \A f \in ToSet(active_fibers) \cup awaiting_fibers : f < next_fiber_id

FiberPart ==
    /\ active_fibers \in Seq(FiberIds)
    /\ awaiting_fibers \subseteq FiberIds
    /\ wait_index \in [WaitKeys -> Seq(Waiter)]
    /\ next_fiber_id \in 1 .. MaxFibers
    /\ FibersInOnePlace
    /\ FibersCounted

QueuePart ==
    /\ DOMAIN queue_messages \subseteq QueueNames
    /\ \A q \in DOMAIN queue_messages :
          queue_messages[q] \in Seq(FutureIds \cup {Plain})
    /\ non_empty_queues \in Seq(QueueNames)
    /\ QueuesListedOnce

\* Futures get fresh numbers.
FuturesCounted ==
    /\ \A f \in DOMAIN public_futures : f < next_created_future_id
    /\ \A f \in ToSet(resolved_futures) : f < next_created_future_id
    /\ \A s \in scheduled : s.what < next_created_future_id

FuturePart ==
    /\ scheduled \subseteq [when : 0 .. 2 * MaxTime, what : FutureIds]
    /\ next_created_future_id \in 0 .. MaxFutures
    /\ DOMAIN public_futures \subseteq FutureIds
    /\ resolved_futures \in Seq(FutureIds)
    /\ FuturesCounted
    /\ PublicFuturesApart

\* A transaction is on its way at one place of one batch.
Once(tasks) == \A i, j \in DOMAIN tasks : tasks[i].tx = tasks[j].tx => i = j

BatchesApart ==
    /\ Once(current_queue)
    /\ TxsOf(current_queue) \cap unsent = {}
    /\ \A a \in DOMAIN Pending :
          /\ Once(Pending[a].tasks)
          /\ TxsOf(Pending[a].tasks) \cap unsent = {}
          /\ TxsOf(Pending[a].tasks) \cap TxsOf(current_queue) = {}
          /\ \A b \in DOMAIN Pending :
                a # b => TxsOf(Pending[a].tasks) \cap TxsOf(Pending[b].tasks) = {}

BatchPart ==
    /\ active_tasks \in Seq(Batch) /\ receiver \in Seq(Batch)
    /\ Len(active_tasks) <= 1
    /\ current_queue \in Seq(Task)
    /\ unsent \subseteq Handovers
    /\ last_epoch \in Seq(Batch)
    /\ BatchesApart

\* There is a number for every hand-over that is on its way.
RoomLeft == next_created_future_id + Cardinality(InFlight) <= MaxFutures

AnswerPart ==
    /\ \A f \in DOMAIN public_futures : public_futures[f] \in Handovers
    /\ answers \in Seq(Handovers)
    /\ HandoversAnsweredOnce
    /\ RoomLeft

LoopPart ==
    /\ phase \in {"timers", "fibers", "futures", "queues", "input", "asleep"}
    /\ now \in 0 .. MaxTime
    /\ crashed \in {"no", "no such queue"}

RuntimeInv ==
    /\ FiberPart /\ QueuePart /\ FuturePart
    /\ BatchPart /\ AnswerPart /\ LoopPart

-----------------------------------------------------------------------------
(***************************************************************************)
(* Lists: their elements, and what the operations of the loop do to them.  *)
(***************************************************************************)

\* The FIFOs of the wait index count and pick as PositionsProofs does.
LEMMA SamePositions ==
    ASSUME NEW list, NEW P PROVE WaitIndex!At(list, P) = At(list, P)
<1>1. \A S : WaitIndex!Cardinality(S) = Cardinality(S)
  BY DEF WaitIndex!Cardinality, Cardinality
<1>2. ASSUME NEW n PROVE WaitIndex!Nth(P, n) = Nth(P, n)
  <2>1. WaitIndex!Nth(P, n) = CHOOSE i \in P : Before(P, i) = n - 1
    BY <1>1 DEF Before, WaitIndex!Nth
  <2>2. Nth(P, n) = CHOOSE i \in P : Before(P, i) = n - 1
    BY DEF Before, Nth
  <2>. QED BY <2>1, <2>2
<1>3. WaitIndex!At(list, P) = [n \in 1 .. WaitIndex!Cardinality(P) |-> list[WaitIndex!Nth(P, n)]]
  BY DEF WaitIndex!At
<1>4. At(list, P) = [n \in 1 .. Cardinality(P) |-> list[Nth(P, n)]]
  BY DEF At
<1>. QED BY <1>1, <1>2, <1>3, <1>4

LEMMA PickedElements ==
    ASSUME NEW S, NEW list \in Seq(S), NEW P \in SUBSET DOMAIN list
    PROVE  /\ WaitIndex!At(list, P) \in Seq(S)
           /\ ToSet(WaitIndex!At(list, P)) = {list[i] : i \in P}
BY AtElements, SamePositions

LEMMA RotatedElements ==
    ASSUME NEW S, NEW list \in Seq(S), list # <<>>
    PROVE  /\ Rotated(list) \in Seq(S) /\ ToSet(Rotated(list)) = ToSet(list)
           /\ IsInjective(list) => IsInjective(Rotated(list))
<1>1. PICK t \in Seq(S), x \in S : t = Tail(list) /\ x = Head(list)
  BY ListTail
<1>2. Rotated(list) = Append(t, x) /\ ToSet(list) = ToSet(t) \cup {x}
  BY <1>1, ListTail DEF Rotated
<1>3. Append(t, x) \in Seq(S) /\ ToSet(Append(t, x)) = ToSet(t) \cup {x}
  BY ListAppend
<1>4. IsInjective(list) => IsInjective(Append(t, x))
  <2> SUFFICES ASSUME IsInjective(list) PROVE IsInjective(Append(t, x))
    OBVIOUS
  <2>1. IsInjective(t) /\ x \in S \ ToSet(t)
    BY <1>1, TailKeepsApart
  <2>. QED BY <2>1, AppendKeepsApart
<1>. QED BY <1>2, <1>3, <1>4

-----------------------------------------------------------------------------
(***************************************************************************)
(* Fibers.                                                                 *)
(***************************************************************************)

\* The fibers that wait in a wait registry.
ParkedIn(index) == {w.fiber : w \in UNION {ToSet(index[k]) : k \in WaitKeys}}

LEMMA ParkedOnes ==
    ASSUME NEW index, NEW f
    PROVE  f \in ParkedIn(index) <=>
             \E k \in WaitKeys : \E w \in ToSet(index[k]) : w.fiber = f
BY DEF ParkedIn

\* FiberPart without the names of the properties.
LEMMA FiberParts ==
    FiberPart <=>
      /\ active_fibers \in Seq(FiberIds)
      /\ awaiting_fibers \subseteq FiberIds
      /\ wait_index \in [WaitKeys -> Seq(Waiter)]
      /\ next_fiber_id \in 1 .. MaxFibers
      /\ IsInjective(active_fibers)
      /\ ToSet(active_fibers) \cap awaiting_fibers = {}
      /\ awaiting_fibers = ParkedIn(wait_index)
      /\ \A f \in ToSet(active_fibers) \cup awaiting_fibers : f < next_fiber_id
BY DEF FiberPart, FibersInOnePlace, FibersCounted, ParkedIn

LEMMA FiberFrame ==
    ASSUME FiberPart, UNCHANGED fiberVars
    PROVE  FiberPart'
BY DEF FiberPart, FibersInOnePlace, FibersCounted, fiberVars

LEMMA FiberDoneStep ==
    ASSUME FiberPart, FiberDone
    PROVE  FiberPart'
<1>1. /\ active_fibers # <<>> /\ active_fibers' = Tail(active_fibers)
      /\ UNCHANGED <<awaiting_fibers, wait_index, next_fiber_id>>
  BY DEF FiberDone, Running
<1>2. /\ active_fibers \in Seq(FiberIds) /\ IsInjective(active_fibers)
  BY FiberParts
<1>3. /\ active_fibers' \in Seq(FiberIds) /\ IsInjective(active_fibers')
      /\ ToSet(active_fibers') \subseteq ToSet(active_fibers)
  BY <1>1, <1>2, ListTail, TailKeepsApart
<1>4. FibersInOnePlace' /\ FibersCounted'
  BY <1>1, <1>3 DEF FiberPart, FibersInOnePlace, FibersCounted
<1>. QED BY <1>1, <1>3, <1>4 DEF FiberPart

LEMMA FiberCreatesFiberStep ==
    ASSUME FiberPart, FiberCreatesFiber
    PROVE  FiberPart'
<1>1. /\ next_fiber_id < MaxFibers
      /\ active_fibers' = Append(active_fibers, next_fiber_id)
      /\ next_fiber_id' = next_fiber_id + 1
      /\ UNCHANGED <<awaiting_fibers, wait_index>>
  BY DEF FiberCreatesFiber
<1>2. /\ active_fibers \in Seq(FiberIds) /\ IsInjective(active_fibers)
      /\ next_fiber_id \in 1 .. MaxFibers /\ MaxFibers \in Nat
      /\ awaiting_fibers \subseteq FiberIds
      /\ \A f \in ToSet(active_fibers) \cup awaiting_fibers : f < next_fiber_id
  BY FiberParts, RuntimeAssumption
<1>3. next_fiber_id \in FiberIds \ ToSet(active_fibers)
      /\ next_fiber_id \notin awaiting_fibers
  BY <1>1, <1>2 DEF FiberIds
<1>4. /\ active_fibers' \in Seq(FiberIds) /\ IsInjective(active_fibers')
      /\ ToSet(active_fibers') = ToSet(active_fibers) \cup {next_fiber_id}
  BY <1>1, <1>2, <1>3, ListAppend, AppendKeepsApart
<1>5. FibersInOnePlace'
  BY <1>1, <1>3, <1>4 DEF FiberPart, FibersInOnePlace
<1>6. \A f \in FiberIds : f \in Nat
  BY <1>2 DEF FiberIds
<1>7. FibersCounted'
  <2> SUFFICES ASSUME NEW f \in ToSet(active_fibers') \cup awaiting_fibers'
               PROVE  f < next_fiber_id'
    BY DEF FibersCounted
  <2>1. f = next_fiber_id \/ f \in ToSet(active_fibers) \cup awaiting_fibers
    BY <1>1, <1>4
  <2>2. f \in Nat
    BY <1>1, <1>2, <1>4, <1>6, <2>1 DEF ToSet
  <2>. QED BY <1>1, <1>2, <2>1, <2>2
<1>. QED BY <1>1, <1>2, <1>4, <1>5, <1>7 DEF FiberPart

\* Who waits for a key is parked.
LEMMA WokenIsParked ==
    ASSUME FiberPart, NEW k \in WaitKeys, wait_index[k] # <<>>
    PROVE  /\ Woken(k) \in awaiting_fibers /\ Woken(k) \in FiberIds
           /\ Woken(k) \notin ToSet(active_fibers)
<1>1. wait_index[k] \in Seq(Waiter) /\ awaiting_fibers = ParkedIn(wait_index)
      /\ awaiting_fibers \subseteq FiberIds
      /\ ToSet(active_fibers) \cap awaiting_fibers = {}
  BY FiberParts
<1>2. Head(wait_index[k]) \in ToSet(wait_index[k])
  BY <1>1, ListTail
<1>3. Woken(k) \in ParkedIn(wait_index)
  BY <1>2, ParkedOnes DEF Woken
<1>. QED BY <1>1, <1>3

\* Withdrawing a fiber takes its entries out of every FIFO and no others.
LEMMA WithdrawnOnes ==
    ASSUME FiberPart, NEW f \in FiberIds
    PROVE  /\ WaitIndex!Without(f) \in [WaitKeys -> Seq(Waiter)]
           /\ \A k \in WaitKeys : ToSet(WaitIndex!Without(f)[k]) =
                 {w \in ToSet(wait_index[k]) : w.fiber # f}
<1> DEFINE Rest(k) == {i \in DOMAIN wait_index[k] : wait_index[k][i].select # f}
<1>1. WaitIndex!Without(f) = [k \in WaitKeys |-> WaitIndex!At(wait_index[k], Rest(k))]
  BY DEF WaitIndex!Without, WaitIndex!Others
<1>2. ASSUME NEW k \in WaitKeys
      PROVE  /\ WaitIndex!At(wait_index[k], Rest(k)) \in Seq(Waiter)
             /\ ToSet(WaitIndex!At(wait_index[k], Rest(k))) =
                   {w \in ToSet(wait_index[k]) : w.fiber # f}
  <2>1. wait_index[k] \in Seq(Waiter)
    BY FiberParts
  <2>2. Rest(k) \in SUBSET DOMAIN wait_index[k]
    OBVIOUS
  <2>3. \A i \in DOMAIN wait_index[k] : wait_index[k][i].select = wait_index[k][i].fiber
    BY <2>1 DEF Waiter
  <2>4. {wait_index[k][i] : i \in Rest(k)} =
           {w \in ToSet(wait_index[k]) : w.fiber # f}
    BY <2>3 DEF ToSet
  <2>5. /\ WaitIndex!At(wait_index[k], Rest(k)) \in Seq(Waiter)
        /\ ToSet(WaitIndex!At(wait_index[k], Rest(k))) =
              {wait_index[k][i] : i \in Rest(k)}
    <3> HIDE DEF Rest
    <3>. QED BY <2>1, <2>2, PickedElements
  <2>. QED BY <2>4, <2>5
<1> HIDE DEF Rest
<1>. QED BY <1>1, <1>2

\* A wake-up takes a fiber out of the registry and out of awaiting_fibers at
\* once, and puts it in front of the active ones.
LEMMA WakeStep ==
    ASSUME FiberPart, NEW k \in WaitKeys, wait_index[k] # <<>>,
           wait_index' = Withdrawn(k),
           awaiting_fibers' = awaiting_fibers \ {Woken(k)},
           active_fibers' = <<Woken(k)>> \o active_fibers,
           next_fiber_id' = next_fiber_id
    PROVE  FiberPart'
<1>1. PICK f \in FiberIds : f = Woken(k)
  BY WokenIsParked
<1>2. /\ active_fibers \in Seq(FiberIds) /\ IsInjective(active_fibers)
      /\ awaiting_fibers \subseteq FiberIds
      /\ next_fiber_id \in 1 .. MaxFibers
      /\ awaiting_fibers = ParkedIn(wait_index)
      /\ ToSet(active_fibers) \cap awaiting_fibers = {}
      /\ \A g \in ToSet(active_fibers) \cup awaiting_fibers : g < next_fiber_id
  BY FiberParts
<1>3. f \in awaiting_fibers /\ f \in FiberIds \ ToSet(active_fibers)
  BY <1>1, WokenIsParked
<1>4. /\ wait_index' = WaitIndex!Without(f)
      /\ awaiting_fibers' = awaiting_fibers \ {f}
      /\ active_fibers' = <<f>> \o active_fibers
  BY <1>1 DEF Withdrawn
<1>5. /\ active_fibers' \in Seq(FiberIds) /\ IsInjective(active_fibers')
      /\ ToSet(active_fibers') = ToSet(active_fibers) \cup {f}
  BY <1>2, <1>3, <1>4, ListPush, PushKeepsApart
<1>6. /\ wait_index' \in [WaitKeys -> Seq(Waiter)]
      /\ \A q \in WaitKeys : ToSet(wait_index'[q]) =
            {w \in ToSet(wait_index[q]) : w.fiber # f}
  BY <1>4, WithdrawnOnes
<1>7. awaiting_fibers' = ParkedIn(wait_index')
  <2>1. ASSUME NEW g PROVE g \in ParkedIn(wait_index') <=> g \in awaiting_fibers'
    <3>1. g \in ParkedIn(wait_index') <=>
            \E q \in WaitKeys : \E w \in ToSet(wait_index'[q]) : w.fiber = g
      BY ParkedOnes
    <3>2. g \in ParkedIn(wait_index) <=>
            \E q \in WaitKeys : \E w \in ToSet(wait_index[q]) : w.fiber = g
      BY ParkedOnes
    <3>. QED BY <1>2, <1>4, <1>6, <3>1, <3>2
  <2>. QED BY <2>1
<1>8. /\ ToSet(active_fibers') \cap awaiting_fibers' = {}
      /\ \A g \in ToSet(active_fibers') \cup awaiting_fibers' : g < next_fiber_id'
      /\ awaiting_fibers' \subseteq FiberIds
  BY <1>2, <1>3, <1>4, <1>5
<1>9. FibersInOnePlace' /\ FibersCounted'
  BY <1>5, <1>7, <1>8 DEF FibersInOnePlace, FibersCounted, ParkedIn
<1>. QED BY <1>2, <1>5, <1>6, <1>8, <1>9 DEF FiberPart

LEMMA ListConcat ==
    ASSUME NEW S, NEW s \in Seq(S), NEW t \in Seq(S)
    PROVE  s \o t \in Seq(S) /\ ToSet(s \o t) = ToSet(s) \cup ToSet(t)
<1> DEFINE u == s \o t
<1>1. /\ u \in Seq(S) /\ DOMAIN u = 1 .. Len(s) + Len(t)
      /\ DOMAIN s = 1 .. Len(s) /\ DOMAIN t = 1 .. Len(t)
      /\ Len(s) \in Nat /\ Len(t) \in Nat
      /\ \A i \in 1 .. Len(s) : u[i] = s[i]
      /\ \A i \in 1 .. Len(t) : u[Len(s) + i] = t[i]
  OBVIOUS
<1>2. /\ \A i \in DOMAIN s : i \in DOMAIN u
      /\ \A i \in DOMAIN t : Len(s) + i \in DOMAIN u
  BY <1>1
<1> HIDE DEF u
<1>3. ASSUME NEW i \in DOMAIN u PROVE u[i] \in ToSet(s) \cup ToSet(t)
  <2>1. CASE i \in 1 .. Len(s)
    BY <1>1, <2>1 DEF ToSet
  <2>2. CASE i \notin 1 .. Len(s)
    <3>1. i - Len(s) \in 1 .. Len(t) /\ Len(s) + (i - Len(s)) = i
      BY <1>1, <2>2
    <3>2. u[i] = t[i - Len(s)]
      BY <1>1, <3>1
    <3>. QED BY <1>1, <3>1, <3>2 DEF ToSet
  <2>. QED BY <2>1, <2>2
<1>4. \A x \in ToSet(s) : x \in ToSet(u)
  BY <1>1, <1>2 DEF ToSet
<1>5. \A x \in ToSet(t) : x \in ToSet(u)
  BY <1>1, <1>2 DEF ToSet
<1>6. ToSet(u) \subseteq ToSet(s) \cup ToSet(t)
  BY <1>3 DEF ToSet
<1>. QED BY <1>1, <1>4, <1>5, <1>6 DEF u

\* Futures are numbers below their bound.
LEMMA FutureNumbers ==
    /\ MaxFutures \in Nat
    /\ \A f : f \in FutureIds <=> f \in Nat /\ f < MaxFutures
<1>1. MaxFutures \in Nat
  BY RuntimeAssumption
<1>2. PICK d \in Int : d = MaxFutures - 1
  BY <1>1
<1>3. FutureIds = 0 .. d
  BY <1>2 DEF FutureIds
<1>4. \A f : f \in 0 .. d <=> f \in Nat /\ f < MaxFutures
  BY <1>1, <1>2
<1>. QED BY <1>1, <1>3, <1>4

\* There are finitely many hand-overs.
LEMMA HandoversFinite == IsFiniteSet(Handovers)
<1>1. IsFiniteSet(1 .. MaxHandovers)
  <2>1. 1 \in Int /\ MaxHandovers \in Int
    BY RuntimeAssumption
  <2>. QED BY <2>1, FS_Interval
<1>. QED BY <1>1, RuntimeAssumption, FS_Product DEF Handovers

\* A fiber waits for queues and futures that exist.
LEMMA KnownKeys ==
    ASSUME FuturePart
    PROVE  KnownFutures \subseteq FutureIds
           /\ \A f \in KnownFutures : f < next_created_future_id
<1>1. next_created_future_id \in 0 .. MaxFutures
  BY DEF FuturePart
<1>2. KnownFutures \subseteq 0 .. next_created_future_id - 1
  BY DEF KnownFutures
<1>3. \A f \in 0 .. next_created_future_id - 1 :
         f \in FutureIds /\ f < next_created_future_id
  BY <1>1, FutureNumbers
<1>. QED BY <1>2, <1>3

LEMMA KnownArms ==
    ASSUME FuturePart, NEW arms \in ArmLists
    PROVE  \E n \in 1 .. MaxArms : arms \in [1 .. n -> WaitKeys]
<1>1. QueueNames \cup KnownFutures \subseteq WaitKeys
  BY KnownKeys DEF WaitKeys
<1>2. PICK n \in 1 .. MaxArms : arms \in [1 .. n -> QueueNames \cup KnownFutures]
  BY DEF ArmLists
<1>. QED BY <1>1, <1>2

\* The entries of a select: one for every arm with this key.
LEMMA EntriesOfArms ==
    ASSUME NEW f \in FiberIds, NEW n \in 1 .. MaxArms,
           NEW arms \in [1 .. n -> WaitKeys], NEW k \in WaitKeys
    PROVE  /\ WaitIndex!EntriesFor(k, f, f, arms) \in Seq(Waiter)
           /\ \A w \in ToSet(WaitIndex!EntriesFor(k, f, f, arms)) : w.fiber = f
           /\ k = arms[1] => ToSet(WaitIndex!EntriesFor(k, f, f, arms)) # {}
<1> DEFINE list == [i \in DOMAIN arms |-> [select |-> f, fiber |-> f, arm |-> i]]
           P == {i \in DOMAIN arms : arms[i] = k}
<1>1. WaitIndex!EntriesFor(k, f, f, arms) = WaitIndex!At(list, P)
  BY DEF WaitIndex!EntriesFor
<1>2. MaxArms \in Nat /\ n \in Nat /\ DOMAIN arms = 1 .. n /\ 1 \in 1 .. n
  BY RuntimeAssumption
<1>3. \A i \in 1 .. n : [select |-> f, fiber |-> f, arm |-> i] \in Waiter
  BY <1>2 DEF Waiter
<1>4. list \in Seq(Waiter) /\ DOMAIN list = 1 .. n
  BY <1>2, <1>3
<1>5. P \in SUBSET DOMAIN list /\ (k = arms[1] => 1 \in P)
      /\ \A i \in P : list[i].fiber = f
  BY <1>2
<1> HIDE DEF list, P
<1>6. WaitIndex!At(list, P) \in Seq(Waiter)
      /\ ToSet(WaitIndex!At(list, P)) = {list[i] : i \in P}
  BY <1>4, <1>5, PickedElements
<1>. QED BY <1>1, <1>5, <1>6

LEMMA FiberSelectStep ==
    ASSUME FiberPart, FuturePart, NEW arms \in ArmLists, FiberSelect(arms)
    PROVE  FiberPart'
<1>0. active_fibers # <<>> /\ active_fibers \in Seq(FiberIds)
      /\ IsInjective(active_fibers)
  BY FiberParts DEF FiberSelect, Running
<1>1. PICK f \in FiberIds : f = Head(active_fibers)
  BY <1>0, ListTail
<1>2. PICK n \in 1 .. MaxArms : arms \in [1 .. n -> WaitKeys]
  BY KnownArms
<1> DEFINE Entries(k) == WaitIndex!EntriesFor(k, f, f, arms)
<1>3. /\ wait_index' = [k \in WaitKeys |-> wait_index[k] \o Entries(k)]
      /\ awaiting_fibers' = awaiting_fibers \cup {f}
      /\ active_fibers' = Tail(active_fibers)
      /\ next_fiber_id' = next_fiber_id
  BY <1>1 DEF FiberSelect
<1>4. /\ awaiting_fibers \subseteq FiberIds
      /\ wait_index \in [WaitKeys -> Seq(Waiter)]
      /\ next_fiber_id \in 1 .. MaxFibers
      /\ awaiting_fibers = ParkedIn(wait_index)
      /\ ToSet(active_fibers) \cap awaiting_fibers = {}
      /\ \A g \in ToSet(active_fibers) \cup awaiting_fibers : g < next_fiber_id
  BY FiberParts
<1>5. /\ active_fibers' \in Seq(FiberIds) /\ IsInjective(active_fibers')
      /\ ToSet(active_fibers') = ToSet(active_fibers) \ {f}
      /\ f \in ToSet(active_fibers)
  BY <1>0, <1>1, <1>3, ListTail, TailKeepsApart
<1>6. \A k \in WaitKeys : /\ Entries(k) \in Seq(Waiter)
                          /\ \A w \in ToSet(Entries(k)) : w.fiber = f
                          /\ k = arms[1] => ToSet(Entries(k)) # {}
  BY <1>2, EntriesOfArms
<1>7. arms[1] \in WaitKeys
  <2>1. 1 \in 1 .. n
    BY RuntimeAssumption
  <2>. QED BY <1>2, <2>1
<1> HIDE DEF Entries
<1>8. ASSUME NEW k \in WaitKeys
      PROVE  /\ wait_index'[k] \in Seq(Waiter)
             /\ ToSet(wait_index'[k]) = ToSet(wait_index[k]) \cup ToSet(Entries(k))
  <2>1. wait_index'[k] = wait_index[k] \o Entries(k)
    BY <1>3
  <2>. QED BY <1>4, <1>6, <2>1, ListConcat
<1>9. wait_index' \in [WaitKeys -> Seq(Waiter)]
  BY <1>3, <1>8
<1>10. awaiting_fibers' = ParkedIn(wait_index')
  <2>1. ASSUME NEW g PROVE g \in ParkedIn(wait_index') <=> g \in awaiting_fibers'
    <3>1. g \in ParkedIn(wait_index') <=>
            \E q \in WaitKeys : \E w \in ToSet(wait_index'[q]) : w.fiber = g
      BY ParkedOnes
    <3>2. g \in ParkedIn(wait_index) <=>
            \E q \in WaitKeys : \E w \in ToSet(wait_index[q]) : w.fiber = g
      BY ParkedOnes
    <3>3. CASE g = f
      <4>1. PICK w \in ToSet(Entries(arms[1])) : w.fiber = f
        BY <1>6, <1>7
      <4>2. w \in ToSet(wait_index'[arms[1]])
        BY <1>7, <1>8
      <4>. QED BY <1>3, <1>7, <3>1, <3>3, <4>1, <4>2
    <3>4. CASE g # f
      BY <1>3, <1>4, <1>6, <1>8, <3>1, <3>2, <3>4
    <3>. QED BY <3>3, <3>4
  <2>. QED BY <2>1
<1>11. /\ ToSet(active_fibers') \cap awaiting_fibers' = {}
       /\ \A g \in ToSet(active_fibers') \cup awaiting_fibers' : g < next_fiber_id'
       /\ awaiting_fibers' \subseteq FiberIds
  BY <1>3, <1>4, <1>5
<1>12. FibersInOnePlace' /\ FibersCounted'
  BY <1>5, <1>10, <1>11 DEF FibersInOnePlace, FibersCounted, ParkedIn
<1>. QED BY <1>3, <1>4, <1>5, <1>9, <1>11, <1>12 DEF FiberPart

-----------------------------------------------------------------------------
(***************************************************************************)
(* Queues.                                                                 *)
(***************************************************************************)
Messages == FutureIds \cup {Plain}

LEMMA QueueParts ==
    QueuePart <=>
      /\ DOMAIN queue_messages \subseteq QueueNames
      /\ \A q \in DOMAIN queue_messages : queue_messages[q] \in Seq(Messages)
      /\ non_empty_queues \in Seq(QueueNames)
      /\ IsInjective(non_empty_queues)
      /\ ToSet(non_empty_queues) =
            {q \in DOMAIN queue_messages : queue_messages[q] # <<>>}
BY DEF QueuePart, QueuesListedOnce, Messages

LEMMA QueueFrame ==
    ASSUME QueuePart, UNCHANGED queueVars
    PROVE  QueuePart'
BY DEF QueuePart, QueuesListedOnce, queueVars

\* Whoever adds a message lists its queue unless it is listed already.
LEMMA PushStep ==
    ASSUME QueuePart, NEW q \in DOMAIN queue_messages, NEW m \in Messages, Push(q, m)
    PROVE  QueuePart'
<1>1. /\ queue_messages' = [queue_messages EXCEPT ![q] = Append(@, m)]
      /\ non_empty_queues' = IF queue_messages[q] = <<>>
                             THEN Append(non_empty_queues, q) ELSE non_empty_queues
  BY DEF Push
<1>2. /\ DOMAIN queue_messages \subseteq QueueNames
      /\ \A p \in DOMAIN queue_messages : queue_messages[p] \in Seq(Messages)
      /\ non_empty_queues \in Seq(QueueNames)
      /\ IsInjective(non_empty_queues)
      /\ ToSet(non_empty_queues) =
            {p \in DOMAIN queue_messages : queue_messages[p] # <<>>}
  BY QueueParts
<1>3. /\ Append(queue_messages[q], m) \in Seq(Messages)
      /\ Append(queue_messages[q], m) # <<>>
  <2>1. PICK old \in Seq(Messages) : old = queue_messages[q]
    BY <1>2
  <2>2. Append(old, m) \in Seq(Messages) /\ Append(old, m) # <<>>
    OBVIOUS
  <2>. QED BY <2>1, <2>2
<1>4. /\ DOMAIN queue_messages' = DOMAIN queue_messages
      /\ queue_messages'[q] = Append(queue_messages[q], m)
      /\ \A p \in DOMAIN queue_messages : p # q => queue_messages'[p] = queue_messages[p]
  BY <1>1
<1>5. {p \in DOMAIN queue_messages' : queue_messages'[p] # <<>>}
        = ToSet(non_empty_queues) \cup {q}
  BY <1>2, <1>3, <1>4
<1>6. CASE queue_messages[q] = <<>>
  <2>1. q \in QueueNames \ ToSet(non_empty_queues)
    BY <1>2, <1>6
  <2>2. /\ non_empty_queues' \in Seq(QueueNames) /\ IsInjective(non_empty_queues')
        /\ ToSet(non_empty_queues') = ToSet(non_empty_queues) \cup {q}
    BY <1>1, <1>2, <1>6, <2>1, ListAppend, AppendKeepsApart
  <2>. QED BY <1>2, <1>3, <1>4, <1>5, <2>2 DEF QueuePart, QueuesListedOnce, Messages
<1>7. CASE queue_messages[q] # <<>>
  <2>1. q \in ToSet(non_empty_queues) /\ non_empty_queues' = non_empty_queues
    BY <1>1, <1>2, <1>7
  <2>. QED BY <1>2, <1>3, <1>4, <1>5, <2>1 DEF QueuePart, QueuesListedOnce, Messages
<1>. QED BY <1>6, <1>7

\* New queues are empty and not listed.
LEMMA NewQueuesStep ==
    ASSUME QueuePart, NEW names \in SUBSET QueueNames,
           queue_messages' =
             [q \in DOMAIN queue_messages \cup names |->
                IF q \in DOMAIN queue_messages THEN queue_messages[q] ELSE <<>>],
           non_empty_queues' = non_empty_queues
    PROVE  QueuePart'
<1>1. /\ DOMAIN queue_messages' = DOMAIN queue_messages \cup names
      /\ \A q \in DOMAIN queue_messages : queue_messages'[q] = queue_messages[q]
      /\ \A q \in names : q \notin DOMAIN queue_messages => queue_messages'[q] = <<>>
  OBVIOUS
<1>2. {q \in DOMAIN queue_messages' : queue_messages'[q] # <<>>}
        = {q \in DOMAIN queue_messages : queue_messages[q] # <<>>}
  BY <1>1
<1>3. \A q \in DOMAIN queue_messages' : queue_messages'[q] \in Seq(Messages)
  BY <1>1, QueueParts
<1>. QED BY <1>1, <1>2, <1>3 DEF QueuePart, QueuesListedOnce, Messages

LEMMA RotateQueues ==
    ASSUME QueuePart, non_empty_queues # <<>>,
           non_empty_queues' = Rotated(non_empty_queues),
           queue_messages' = queue_messages
    PROVE  QueuePart'
<1>1. /\ non_empty_queues' \in Seq(QueueNames) /\ IsInjective(non_empty_queues')
      /\ ToSet(non_empty_queues') = ToSet(non_empty_queues)
  BY QueueParts, RotatedElements
<1>. QED BY <1>1 DEF QueuePart, QueuesListedOnce

\* The listed queue that is delivered from exists and has a message.
LEMMA ListedHasMessage ==
    ASSUME QueuePart, non_empty_queues # <<>>
    PROVE  /\ Head(non_empty_queues) \in QueueNames
           /\ Head(non_empty_queues) \in DOMAIN queue_messages
           /\ queue_messages[Head(non_empty_queues)] # <<>>
<1>1. Head(non_empty_queues) \in ToSet(non_empty_queues)
  BY QueueParts, ListTail
<1>. QED BY <1>1, QueueParts

\* A delivered message leaves its queue, which is listed as long as it has more.
LEMMA TakeMessageStep ==
    ASSUME QueuePart, non_empty_queues # <<>>,
           NEW q, q = Head(non_empty_queues),
           queue_messages' = [queue_messages EXCEPT ![q] = Tail(@)],
           non_empty_queues' = IF Len(queue_messages[q]) > 1
                               THEN Rotated(non_empty_queues)
                               ELSE Tail(non_empty_queues)
    PROVE  QueuePart'
<1>1. q \in DOMAIN queue_messages /\ queue_messages[q] # <<>>
  BY ListedHasMessage
<1>2. /\ DOMAIN queue_messages \subseteq QueueNames
      /\ \A p \in DOMAIN queue_messages : queue_messages[p] \in Seq(Messages)
      /\ non_empty_queues \in Seq(QueueNames)
      /\ IsInjective(non_empty_queues)
      /\ ToSet(non_empty_queues) =
            {p \in DOMAIN queue_messages : queue_messages[p] # <<>>}
  BY QueueParts
<1>3. /\ Tail(queue_messages[q]) \in Seq(Messages)
      /\ (Tail(queue_messages[q]) # <<>>) <=> (Len(queue_messages[q]) > 1)
  <2>1. PICK list \in Seq(Messages) : list = queue_messages[q]
    BY <1>1, <1>2
  <2>2. list # <<>>
    BY <1>1, <2>1
  <2>3. Tail(list) \in Seq(Messages) /\ Len(Tail(list)) = Len(list) - 1
        /\ Len(list) \in Nat
    BY <2>2
  <2>4. (Tail(list) # <<>>) <=> (Len(Tail(list)) > 0)
    <3>1. PICK t \in Seq(Messages) : t = Tail(list)
      BY <2>3
    <3>2. t # <<>> => Len(t) > 0
      OBVIOUS
    <3>3. t = <<>> => Len(t) = 0
      OBVIOUS
    <3>. QED BY <3>1, <3>2, <3>3
  <2>. QED BY <2>1, <2>3, <2>4
<1>4. /\ DOMAIN queue_messages' = DOMAIN queue_messages
      /\ queue_messages'[q] = Tail(queue_messages[q])
      /\ \A p \in DOMAIN queue_messages : p # q => queue_messages'[p] = queue_messages[p]
  BY <1>1
<1>5. CASE Len(queue_messages[q]) > 1
  <2>1. /\ non_empty_queues' \in Seq(QueueNames) /\ IsInjective(non_empty_queues')
        /\ ToSet(non_empty_queues') = ToSet(non_empty_queues)
    BY <1>2, <1>5, RotatedElements
  <2>2. {p \in DOMAIN queue_messages' : queue_messages'[p] # <<>>}
           = {p \in DOMAIN queue_messages : queue_messages[p] # <<>>}
    BY <1>1, <1>3, <1>4, <1>5
  <2>. QED BY <1>2, <1>3, <1>4, <2>1, <2>2 DEF QueuePart, QueuesListedOnce, Messages
<1>6. CASE ~ (Len(queue_messages[q]) > 1)
  <2>1. /\ non_empty_queues' \in Seq(QueueNames) /\ IsInjective(non_empty_queues')
        /\ ToSet(non_empty_queues') = ToSet(non_empty_queues) \ {q}
    BY <1>2, <1>6, ListTail, TailKeepsApart
  <2>2. {p \in DOMAIN queue_messages' : queue_messages'[p] # <<>>}
           = {p \in DOMAIN queue_messages : queue_messages[p] # <<>>} \ {q}
    BY <1>1, <1>3, <1>4, <1>6
  <2>. QED BY <1>2, <1>3, <1>4, <2>1, <2>2 DEF QueuePart, QueuesListedOnce, Messages
<1>. QED BY <1>5, <1>6

-----------------------------------------------------------------------------
(***************************************************************************)
(* Futures.                                                                *)
(***************************************************************************)
Whats == {s.what : s \in scheduled}

LEMMA FutureParts ==
    FuturePart <=>
      /\ scheduled \subseteq [when : 0 .. 2 * MaxTime, what : FutureIds]
      /\ next_created_future_id \in 0 .. MaxFutures
      /\ DOMAIN public_futures \subseteq FutureIds
      /\ resolved_futures \in Seq(FutureIds)
      /\ \A f \in DOMAIN public_futures :
            /\ f < next_created_future_id
            /\ f \notin ToSet(resolved_futures) /\ f \notin Whats
      /\ \A f \in ToSet(resolved_futures) : f < next_created_future_id
      /\ \A f \in Whats : f < next_created_future_id
BY DEF FuturePart, FuturesCounted, PublicFuturesApart, Whats

LEMMA FutureFrame ==
    ASSUME FuturePart, UNCHANGED futureVars
    PROVE  FuturePart'
BY DEF FuturePart, FuturesCounted, PublicFuturesApart, futureVars

\* No new number is given: what is resolved was resolved before, was due, or is
\* a known future that no transaction waits for.
LEMMA SameNumbers ==
    ASSUME FuturePart,
           scheduled' \subseteq scheduled,
           next_created_future_id' = next_created_future_id,
           DOMAIN public_futures' \subseteq DOMAIN public_futures,
           resolved_futures' \in Seq(FutureIds),
           \A f \in ToSet(resolved_futures') :
              \/ f \in ToSet(resolved_futures) \cup Whats
              \/ f < next_created_future_id /\ f \notin DOMAIN public_futures
    PROVE  FuturePart'
<1>1. Whats' \subseteq Whats
  BY DEF Whats
<1>2. \A f \in ToSet(resolved_futures') :
         f < next_created_future_id /\ f \notin DOMAIN public_futures
  BY FutureParts
<1>3. \A f \in DOMAIN public_futures' :
         /\ f < next_created_future_id'
         /\ f \notin ToSet(resolved_futures') /\ f \notin Whats'
  BY <1>1, <1>2, FutureParts
<1>4. PublicFuturesApart'
  BY <1>3 DEF PublicFuturesApart, Whats
<1>5. \A s \in scheduled' : s.what < next_created_future_id'
  BY FutureParts DEF Whats
<1>6. FuturesCounted'
  BY <1>2, <1>3, <1>5 DEF FuturesCounted
<1>. QED BY <1>4, <1>6 DEF FuturePart

\* A due timer goes to the front of the resolved futures.
LEMMA TakeScheduledStep ==
    ASSUME FuturePart, TakeScheduled
    PROVE  FuturePart'
<1>1. /\ next_created_future_id' = next_created_future_id
      /\ public_futures' = public_futures
      /\ resolved_futures \in Seq(FutureIds)
  BY FutureParts DEF TakeScheduled
<1>2. CASE UNCHANGED <<scheduled, resolved_futures>>
  BY <1>1, <1>2, FutureFrame DEF futureVars
<1>3. CASE \E s \in EarliestScheduled :
             /\ s.when <= now
             /\ scheduled' = scheduled \ {s}
             /\ resolved_futures' = <<s.what>> \o resolved_futures
  <2>1. PICK s \in scheduled : /\ scheduled' = scheduled \ {s}
                               /\ resolved_futures' = <<s.what>> \o resolved_futures
    BY <1>3 DEF EarliestScheduled
  <2>2. PICK f \in FutureIds : f = s.what /\ f \in Whats
    BY FutureParts DEF Whats
  <2>3. /\ resolved_futures' \in Seq(FutureIds)
        /\ ToSet(resolved_futures') = ToSet(resolved_futures) \cup {f}
    BY <1>1, <2>1, <2>2, ListPush
  <2>. QED BY <1>1, <2>1, <2>2, <2>3, SameNumbers
<1>. QED BY <1>2, <1>3 DEF TakeScheduled

\* A value that is set answers a transaction or stays inside.
LEMMA SetsFutureStep ==
    ASSUME FuturePart, NEW f \in KnownFutures, FiberSetsFuture(f)
    PROVE  FuturePart'
<1>1. /\ next_created_future_id' = next_created_future_id
      /\ scheduled' = scheduled /\ resolved_futures \in Seq(FutureIds)
  BY FutureParts DEF FiberSetsFuture
<1>2. f \in FutureIds /\ f < next_created_future_id
  BY KnownKeys
<1>3. CASE /\ f \in DOMAIN public_futures
           /\ public_futures' = [g \in DOMAIN public_futures \ {f} |->
                                   public_futures[g]]
           /\ UNCHANGED resolved_futures
  <2>1. DOMAIN public_futures' \subseteq DOMAIN public_futures
    BY <1>3
  <2>. QED BY <1>1, <1>3, <2>1, SameNumbers
<1>4. CASE /\ f \notin DOMAIN public_futures
           /\ resolved_futures' = Append(resolved_futures, f)
           /\ UNCHANGED <<answers, public_futures>>
  <2>1. /\ resolved_futures' \in Seq(FutureIds)
        /\ ToSet(resolved_futures') = ToSet(resolved_futures) \cup {f}
    BY <1>1, <1>2, <1>4, ListAppend
  <2>. QED BY <1>1, <1>2, <1>4, <2>1, SameNumbers
<1>. QED BY <1>3, <1>4 DEF FiberSetsFuture

\* A resolved future is taken or goes to the back.
LEMMA ResolvedStep ==
    ASSUME FuturePart, resolved_futures # <<>>,
           \/ resolved_futures' = Rotated(resolved_futures)
           \/ resolved_futures' = Tail(resolved_futures)
           \/ resolved_futures' = resolved_futures,
           UNCHANGED <<scheduled, next_created_future_id, public_futures>>
    PROVE  FuturePart'
<1>1. resolved_futures \in Seq(FutureIds)
  BY FutureParts
<1>2. /\ resolved_futures' \in Seq(FutureIds)
      /\ ToSet(resolved_futures') \subseteq ToSet(resolved_futures)
  <2>1. /\ Rotated(resolved_futures) \in Seq(FutureIds)
        /\ ToSet(Rotated(resolved_futures)) = ToSet(resolved_futures)
    BY <1>1, RotatedElements
  <2>2. /\ Tail(resolved_futures) \in Seq(FutureIds)
        /\ ToSet(Tail(resolved_futures)) \subseteq ToSet(resolved_futures)
    BY <1>1, ListTail
  <2>. QED BY <1>1, <2>1, <2>2
<1>. QED BY <1>2, SameNumbers

\* The next number is nobody's.
LEMMA NextIsFresh ==
    ASSUME FuturePart, next_created_future_id < MaxFutures
    PROVE  /\ next_created_future_id \in FutureIds
           /\ next_created_future_id \notin DOMAIN public_futures
           /\ next_created_future_id \notin ToSet(resolved_futures) \cup Whats
<1>1. next_created_future_id \in 0 .. MaxFutures
      /\ MaxFutures \in Nat
  BY FutureParts, FutureNumbers
<1>2. ~ (next_created_future_id < next_created_future_id)
  BY <1>1
<1>3. next_created_future_id \in FutureIds
  BY <1>1, FutureNumbers
<1>. QED BY <1>2, <1>3, FutureParts

\* An external message gets the next number.
LEMMA PublicStep ==
    ASSUME FuturePart, next_created_future_id < MaxFutures, NEW tx,
           public_futures' = WithPublic(tx),
           next_created_future_id' = next_created_future_id + 1,
           UNCHANGED <<scheduled, resolved_futures>>
    PROVE  FuturePart'
<1>1. DOMAIN public_futures' = DOMAIN public_futures \cup {next_created_future_id}
  BY DEF WithPublic
<1>2. /\ next_created_future_id \in Nat /\ MaxFutures \in Nat
      /\ next_created_future_id' \in 0 .. MaxFutures
  BY FutureParts, FutureNumbers
<1>3. \A f \in FutureIds : f \in Nat
  BY FutureNumbers
<1>4. /\ \A f \in DOMAIN public_futures : f \in Nat /\ f < next_created_future_id
      /\ \A f \in ToSet(resolved_futures) : f \in Nat /\ f < next_created_future_id
      /\ \A s \in scheduled : s.what \in Nat /\ s.what < next_created_future_id
  <2>1. ToSet(resolved_futures) \subseteq FutureIds
    BY FutureParts DEF ToSet
  <2>2. \A s \in scheduled : s.what \in FutureIds
    BY FutureParts
  <2>. QED BY <1>3, <2>1, <2>2, FutureParts DEF Whats
<1>5. FuturesCounted'
  BY <1>1, <1>2, <1>4 DEF FuturesCounted
<1>6. PublicFuturesApart'
  BY <1>1, NextIsFresh, FutureParts DEF PublicFuturesApart, Whats
<1>. QED BY <1>1, <1>2, <1>5, <1>6, NextIsFresh, FutureParts DEF FuturePart

\* The futures among some primitives, and the numbers they get.
LEMMA PrimitiveNumbers ==
    ASSUME FuturePart, NEW p \in PrimitiveLists
    PROVE  /\ IsFiniteSet(FuturesAmong(p)) /\ Cardinality(FuturesAmong(p)) \in Nat
           /\ \A i \in FuturesAmong(p) :
                 /\ NumberAt(p, i) \in Nat
                 /\ NumberAt(p, i) >= next_created_future_id
                 /\ NumberAt(p, i) < next_created_future_id
                                       + Cardinality(FuturesAmong(p))
           /\ \A i \in DOMAIN p : p[i] \in Primitives
<1>1. PICK n \in 1 .. MaxPrimitives : p \in [1 .. n -> Primitives]
  BY DEF PrimitiveLists
<1>2. n \in Nat /\ n \in Int
  BY RuntimeAssumption
<1> DEFINE F == FuturesAmong(p)
<1>3. F \in SUBSET (1 .. n)
  BY <1>1 DEF FuturesAmong
<1>4. IsFiniteSet(1 .. n)
  BY <1>2, FS_Interval, 1 \in Int
<1>5. IsFiniteSet(F) /\ F \in SUBSET Nat /\ Cardinality(F) \in Nat
  BY <1>2, <1>3, <1>4, FS_Subset, FS_CardinalityType
<1>6. next_created_future_id \in Nat
  BY FutureParts, FutureNumbers
<1>7. ASSUME NEW i \in F
      PROVE  /\ NumberAt(p, i) \in Nat
             /\ NumberAt(p, i) >= next_created_future_id
             /\ NumberAt(p, i) < next_created_future_id + Cardinality(F)
  <2>1. Before(F, i) \in 0 .. Cardinality(F) - 1
    BY <1>5, BeforeCounts
  <2>2. NumberAt(p, i) = next_created_future_id + Before(F, i)
    BY DEF NumberAt, Before
  <2> HIDE DEF F
  <2>. QED BY <1>5, <1>6, <2>1, <2>2
<1>. QED BY <1>1, <1>5, <1>7

\* A timer of a list of primitives.
LEMMA TimerPrimitive ==
    ASSUME NEW x \in Primitives, x.kind = "schedule"
    PROVE  x.ms \in 0 .. MaxTime
BY RuntimeAssumption DEF Primitives

LEMMA CreatesFuturesStep ==
    ASSUME FuturePart, LoopPart, NEW p \in PrimitiveLists, FiberCreates(p),
           Cardinality(InFlight) \in Nat
    PROVE  FuturePart'
<1> DEFINE F == FuturesAmong(p)
           c == Cardinality(F)
           Timers == {j \in DOMAIN p : p[j].kind = "schedule"}
           New == {[when |-> now + p[i].ms, what |-> NumberAt(p, i)] : i \in Timers}
<1>1. /\ next_created_future_id + c + Cardinality(InFlight) <= MaxFutures
      /\ next_created_future_id' = next_created_future_id + c
      /\ scheduled' = scheduled \cup New
      /\ public_futures' = public_futures /\ resolved_futures' = resolved_futures
  BY DEF FiberCreates
<1>2. /\ c \in Nat /\ next_created_future_id \in Nat
      /\ MaxFutures \in Nat
      /\ \A i \in DOMAIN p : p[i] \in Primitives
      /\ \A i \in F : /\ NumberAt(p, i) \in Nat
                      /\ NumberAt(p, i) >= next_created_future_id
                      /\ NumberAt(p, i) < next_created_future_id + c
  BY PrimitiveNumbers, FutureParts, FutureNumbers
<1>3. Timers \subseteq F
  BY DEF FuturesAmong, QueuesAmong
<1>4. ASSUME NEW s \in New
      PROVE  /\ s \in [when : 0 .. 2 * MaxTime, what : FutureIds]
             /\ s.what \in Nat
             /\ s.what >= next_created_future_id
             /\ s.what < next_created_future_id'
  <2>1. PICK i \in Timers : s = [when |-> now + p[i].ms, what |-> NumberAt(p, i)]
    OBVIOUS
  <2>2. p[i].ms \in 0 .. MaxTime
    BY <1>2, TimerPrimitive
  <2>3. now + p[i].ms \in 0 .. 2 * MaxTime
    <3>1. PICK t \in 0 .. MaxTime, ms \in 0 .. MaxTime : t = now /\ ms = p[i].ms
      BY <2>2 DEF LoopPart
    <3>2. t + ms \in 0 .. 2 * MaxTime
      BY RuntimeAssumption
    <3>. QED BY <3>1, <3>2
  <2>4. PICK m \in Nat : m = NumberAt(p, i) /\ m >= next_created_future_id
                         /\ m < next_created_future_id + c
    BY <1>2, <1>3
  <2> HIDE DEF c
  <2>5. m \in FutureIds
    BY <1>1, <1>2, <2>4, FutureNumbers
  <2>. QED BY <1>1, <2>1, <2>3, <2>4, <2>5
<1> HIDE DEF New, c
<1>5. /\ scheduled' \subseteq [when : 0 .. 2 * MaxTime, what : FutureIds]
      /\ next_created_future_id' \in 0 .. MaxFutures
  BY <1>1, <1>2, <1>4, FutureParts
<1>6. \A f \in FutureIds : f < next_created_future_id => f < next_created_future_id'
  BY <1>1, <1>2, FutureNumbers
<1>7. ToSet(resolved_futures) \subseteq FutureIds
      /\ \A s \in scheduled : s.what \in FutureIds
  BY FutureParts DEF ToSet
<1>8. \A s \in scheduled' : s.what < next_created_future_id'
  BY <1>1, <1>4, <1>6, <1>7, FutureParts DEF Whats
<1>9. FuturesCounted'
  BY <1>1, <1>6, <1>7, <1>8, FutureParts DEF FuturesCounted
<1>10. ASSUME NEW f \in DOMAIN public_futures, NEW s \in New
       PROVE  s.what # f
  <2>1. f \in Nat /\ f < next_created_future_id
    BY FutureParts, FutureNumbers
  <2>. QED BY <1>2, <1>4, <2>1
<1>11. PublicFuturesApart'
  BY <1>1, <1>10, FutureParts DEF PublicFuturesApart, Whats
<1>. QED BY <1>1, <1>5, <1>9, <1>11, FutureParts DEF FuturePart

-----------------------------------------------------------------------------
(***************************************************************************)
(* Batches.                                                                *)
(***************************************************************************)
LEMMA TxIsAt ==
    ASSUME NEW tasks, NEW x
    PROVE  x \in TxsOf(tasks) <=> \E i \in DOMAIN tasks : tasks[i].tx = x
BY DEF TxsOf, ToSet

\* The transactions of some batches.
TxsAhead(batches) == UNION {TxsOf(b.tasks) : b \in ToSet(batches)}

LEMMA TxIsAhead ==
    ASSUME NEW batches, NEW x
    PROVE  x \in TxsAhead(batches) <=>
             \E a \in DOMAIN batches : x \in TxsOf(batches[a].tasks)
BY DEF TxsAhead, ToSet

\* Batches that share no transaction with each other, nor with some set.
Apart(batches, others) ==
    /\ \A a \in DOMAIN batches :
          Once(batches[a].tasks) /\ TxsOf(batches[a].tasks) \cap others = {}
    /\ \A a, b \in DOMAIN batches :
          a # b => TxsOf(batches[a].tasks) \cap TxsOf(batches[b].tasks) = {}

LEMMA BatchParts ==
    BatchPart <=>
      /\ active_tasks \in Seq(Batch) /\ receiver \in Seq(Batch)
      /\ Len(active_tasks) <= 1
      /\ current_queue \in Seq(Task)
      /\ unsent \subseteq Handovers
      /\ last_epoch \in Seq(Batch)
      /\ Once(current_queue)
      /\ TxsOf(current_queue) \cap unsent = {}
      /\ Apart(Pending, unsent \cup TxsOf(current_queue))
BY DEF BatchPart, BatchesApart, Apart

LEMMA UndeliveredOnes ==
    /\ InFlight = TxsOf(current_queue) \cup TxsAhead(Pending)
    /\ Undelivered = unsent \cup InFlight
BY DEF Undelivered, InFlight, TxsAhead

LEMMA BatchFrame ==
    ASSUME BatchPart,
           UNCHANGED <<active_tasks, receiver, current_queue, unsent, last_epoch>>
    PROVE  BatchPart' /\ Undelivered' = Undelivered /\ InFlight' = InFlight
BY DEF BatchPart, BatchesApart, Pending, Undelivered, InFlight

LEMMA PendingBatches ==
    ASSUME BatchPart
    PROVE  Pending \in Seq(Batch)
BY ConcatProperties DEF BatchPart, Pending

LEMMA UndeliveredFinite ==
    ASSUME BatchPart
    PROVE  /\ Undelivered \subseteq Handovers /\ IsFiniteSet(InFlight)
           /\ InFlight \subseteq Undelivered /\ Cardinality(InFlight) \in Nat
<1>1. Pending \in Seq(Batch) /\ current_queue \in Seq(Task) /\ unsent \subseteq Handovers
  BY PendingBatches, BatchParts
<1>2. ASSUME NEW tasks \in Seq(Task) PROVE TxsOf(tasks) \subseteq Handovers
  <2>1. \A i \in DOMAIN tasks : tasks[i] \in Task
    OBVIOUS
  <2>2. \A i \in DOMAIN tasks : tasks[i].tx \in Handovers
    BY <2>1 DEF Task
  <2>. QED BY <2>2, TxIsAt
<1>3. \A a \in DOMAIN Pending : Pending[a].tasks \in Seq(Task)
  <2>1. \A a \in DOMAIN Pending : Pending[a] \in Batch
    BY <1>1
  <2>. QED BY <2>1 DEF Batch
<1>4. TxsAhead(Pending) \subseteq Handovers
  BY <1>2, <1>3, TxIsAhead
<1>5. Undelivered \subseteq Handovers /\ InFlight \subseteq Undelivered
  BY <1>1, <1>2, <1>4, UndeliveredOnes
<1>6. InFlight \subseteq Handovers
  BY <1>5
<1>7. IsFiniteSet(InFlight)
  BY <1>6, HandoversFinite, FS_Subset
<1>. QED BY <1>5, <1>7, FS_CardinalityType

\* The first batch of Pending is the early one, if there is one.
LEMMA FirstBatch ==
    ASSUME BatchPart, Pending # <<>>
    PROVE  LET rest == IF active_tasks = <<>> THEN Tail(receiver) ELSE receiver
           IN rest \in Seq(Batch) /\ Pending = <<Head(Pending)>> \o rest
              /\ Head(Pending) \in Batch
<1>1. active_tasks \in Seq(Batch) /\ receiver \in Seq(Batch)
      /\ Len(active_tasks) <= 1
  BY BatchParts
<1>2. CASE active_tasks = <<>>
  <2>1. Pending = receiver
    BY <1>1, <1>2, ConcatEmptySeq DEF Pending
  <2>2. receiver # <<>>
    BY <2>1
  <2>3. /\ Tail(receiver) \in Seq(Batch) /\ Head(receiver) \in Batch
        /\ receiver = <<Head(receiver)>> \o Tail(receiver)
    BY <1>1, <2>2, HeadTailProperties
  <2>. QED BY <1>2, <2>1, <2>3
<1>3. CASE active_tasks # <<>>
  <2>1. PICK b \in Batch : active_tasks = <<b>>
    <3>1. Len(active_tasks) = 1
      <4>1. Len(active_tasks) \in Nat \ {0}
        BY <1>1, <1>3, EmptySeq
      <4>2. PICK n \in Nat \ {0} : n = Len(active_tasks)
        BY <4>1
      <4>3. n <= 1
        BY <1>1, <4>2
      <4>4. n = 1
        BY <4>3
      <4>. QED BY <4>2, <4>4
    <3>2. PICK b \in Batch : b = active_tasks[1]
      BY <1>1, <3>1, ElementOfSeq, 1 \in 1 .. 1
    <3>3. <<b>> \in Seq(Batch) /\ Len(<<b>>) = 1 /\ <<b>>[1] = b
      OBVIOUS
    <3>4. \A i \in 1 .. Len(active_tasks) : active_tasks[i] = <<b>>[i]
      BY <3>1, <3>2, <3>3
    <3>5. active_tasks = <<b>>
      BY <1>1, <3>1, <3>3, <3>4, SeqEqual
    <3>. QED BY <3>5
  <2>2. Pending = <<b>> \o receiver
    BY <2>1 DEF Pending
  <2>3. Head(<<b>> \o receiver) = b
    BY <1>1
  <2>. QED BY <1>1, <1>3, <2>2, <2>3
<1>. QED BY <1>2, <1>3

LEMMA ApartAtFront ==
    ASSUME NEW rest \in Seq(Batch), NEW b \in Batch, NEW others,
           Apart(<<b>> \o rest, others)
    PROVE  /\ Once(b.tasks) /\ TxsOf(b.tasks) \cap others = {}
           /\ Apart(rest, others \cup TxsOf(b.tasks))
<1> DEFINE all == <<b>> \o rest
<1>1. /\ DOMAIN all = 1 .. Len(rest) + 1 /\ DOMAIN rest = 1 .. Len(rest)
      /\ all[1] = b /\ Len(rest) \in Nat
      /\ \A i \in 1 .. Len(rest) : all[i + 1] = rest[i]
  OBVIOUS
<1>2. /\ 1 \in DOMAIN all
      /\ \A i \in DOMAIN rest : /\ i + 1 \in DOMAIN all /\ i + 1 # 1
                                /\ all[i + 1] = rest[i]
      /\ \A i, j \in DOMAIN rest : i # j => i + 1 # j + 1
  BY <1>1
<1>3. Apart(all, others)
  OBVIOUS
<1> HIDE DEF all
<1>4. Once(b.tasks) /\ TxsOf(b.tasks) \cap others = {}
  BY <1>1, <1>2, <1>3 DEF Apart
<1>5. \A i \in DOMAIN rest :
         Once(rest[i].tasks) /\ TxsOf(rest[i].tasks) \cap others = {}
  BY <1>2, <1>3 DEF Apart
<1>6. \A i \in DOMAIN rest : TxsOf(rest[i].tasks) \cap TxsOf(b.tasks) = {}
  BY <1>1, <1>2, <1>3 DEF Apart
<1>7. \A i, j \in DOMAIN rest :
         i # j => TxsOf(rest[i].tasks) \cap TxsOf(rest[j].tasks) = {}
  BY <1>2, <1>3 DEF Apart
<1>. QED BY <1>4, <1>5, <1>6, <1>7 DEF Apart

\* A batch that is due leaves Pending for current_queue.
LEMMA TakeBatchStep ==
    ASSUME BatchPart, TakeBatch
    PROVE  BatchPart' /\ Undelivered' = Undelivered /\ InFlight' = InFlight
<1>1. /\ current_queue = <<>> /\ Pending # <<>>
      /\ current_queue' = Head(Pending).tasks
      /\ active_tasks' = <<>>
      /\ receiver' = IF active_tasks = <<>> THEN Tail(receiver) ELSE receiver
      /\ unsent' = unsent /\ last_epoch' = last_epoch
  BY DEF TakeBatch, Idle
<1>2. PICK b \in Batch : b = Head(Pending)
  BY <1>1, FirstBatch
<1>3. PICK rest \in Seq(Batch) : rest = receiver' /\ Pending = <<b>> \o rest
  BY <1>1, <1>2, FirstBatch
<1>4. Pending' = rest
  BY <1>1, <1>3, ConcatEmptySeq DEF Pending
<1>5. TxsOf(<<>>) = {}
  BY DEF TxsOf, ToSet
<1>6. Apart(<<b>> \o rest, unsent) /\ unsent \subseteq Handovers
  BY <1>1, <1>3, <1>5, BatchParts
<1>7. /\ Once(b.tasks) /\ TxsOf(b.tasks) \cap unsent = {}
      /\ Apart(rest, unsent \cup TxsOf(b.tasks))
  BY <1>6, ApartAtFront
<1>8. b.tasks \in Seq(Task) /\ current_queue' = b.tasks
  BY <1>1, <1>2 DEF Batch
<1>9. active_tasks' \in Seq(Batch) /\ Len(active_tasks') <= 1
  BY <1>1
<1>10. BatchPart'
  <2>1. Once(current_queue') /\ TxsOf(current_queue') \cap unsent' = {}
        /\ Apart(Pending', unsent' \cup TxsOf(current_queue'))
    BY <1>1, <1>4, <1>7, <1>8
  <2>2. BatchesApart'
    BY <2>1 DEF BatchesApart, Apart
  <2>. QED BY <1>1, <1>3, <1>6, <1>8, <1>9, <2>2 DEF BatchPart
<1>11. TxsAhead(Pending) = TxsAhead(rest) \cup TxsOf(b.tasks)
  <2>1. ToSet(Pending) = ToSet(rest) \cup {b}
    BY <1>3, ListPush
  <2>. QED BY <2>1 DEF TxsAhead
<1>12. /\ InFlight' = TxsOf(current_queue') \cup TxsAhead(Pending')
       /\ Undelivered' = unsent' \cup InFlight'
  BY DEF Undelivered, InFlight, TxsAhead
<1>. QED BY <1>1, <1>4, <1>5, <1>8, <1>10, <1>11, <1>12, UndeliveredOnes

\* A batch that is too early stays the first.
LEMMA BatchTooEarlyStep ==
    ASSUME BatchPart, BatchTooEarly
    PROVE  BatchPart' /\ Undelivered' = Undelivered /\ InFlight' = InFlight
<1>1. /\ Pending # <<>> /\ active_tasks' = <<Head(Pending)>>
      /\ receiver' = IF active_tasks = <<>> THEN Tail(receiver) ELSE receiver
      /\ UNCHANGED <<current_queue, unsent, last_epoch>>
  BY DEF BatchTooEarly
<1>2. PICK b \in Batch : b = Head(Pending)
  BY <1>1, FirstBatch
<1>3. receiver' \in Seq(Batch) /\ Pending = <<b>> \o receiver'
  BY <1>1, <1>2, FirstBatch
<1>4. Pending' = Pending
  BY <1>1, <1>2, <1>3 DEF Pending
<1>5. active_tasks' \in Seq(Batch) /\ Len(active_tasks') <= 1
  BY <1>1, <1>2
<1>6. BatchesApart' /\ Undelivered' = Undelivered /\ InFlight' = InFlight
  BY <1>1, <1>4 DEF BatchPart, BatchesApart, Undelivered, InFlight
<1>. QED BY <1>1, <1>3, <1>5, <1>6 DEF BatchPart

\* A task that is accepted leaves the batch, and its transaction is on its way
\* nowhere else.
LEMMA NextTaskStep ==
    ASSUME BatchPart, current_queue # <<>>, current_queue' = Tail(current_queue),
           UNCHANGED <<active_tasks, receiver, unsent, last_epoch>>
    PROVE  /\ BatchPart' /\ Head(current_queue) \in Task
           /\ Head(current_queue).tx \in InFlight
           /\ Undelivered' = Undelivered \ {Head(current_queue).tx}
           /\ InFlight' = InFlight \ {Head(current_queue).tx}
<1>1. /\ current_queue \in Seq(Task) /\ Once(current_queue)
      /\ TxsOf(current_queue) \cap unsent = {}
      /\ Apart(Pending, unsent \cup TxsOf(current_queue))
      /\ Pending' = Pending
  BY BatchParts DEF Pending
<1>2. /\ Head(current_queue) \in Task /\ current_queue' \in Seq(Task)
      /\ ToSet(current_queue) = ToSet(current_queue') \cup {Head(current_queue)}
  BY <1>1, ListTail
<1>3. PICK x : x = Head(current_queue).tx
  OBVIOUS
<1>4. TxsOf(current_queue) = TxsOf(current_queue') \cup {x}
  BY <1>2, <1>3 DEF TxsOf
<1>5. /\ DOMAIN current_queue = 1 .. Len(current_queue) /\ Len(current_queue) >= 1
      /\ Head(current_queue) = current_queue[1]
      /\ DOMAIN current_queue' = 1 .. Len(current_queue) - 1
      /\ \A i \in 1 .. Len(current_queue) - 1 : current_queue'[i] = current_queue[i + 1]
  BY <1>1
<1>6. /\ 1 \in DOMAIN current_queue
      /\ \A i \in DOMAIN current_queue' :
            /\ i + 1 \in DOMAIN current_queue /\ i + 1 # 1
            /\ current_queue'[i] = current_queue[i + 1]
      /\ \A i, j \in DOMAIN current_queue' : i + 1 = j + 1 => i = j
  BY <1>5
<1>7. Once(current_queue') /\ \A i \in DOMAIN current_queue' : current_queue'[i].tx # x
  BY <1>1, <1>3, <1>5, <1>6 DEF Once
<1>8. x \notin TxsOf(current_queue')
  BY <1>7, TxIsAt
<1>9. x \notin unsent /\ x \notin TxsAhead(Pending)
  BY <1>1, <1>4, TxIsAhead DEF Apart
<1>10. /\ InFlight' = TxsOf(current_queue') \cup TxsAhead(Pending)
       /\ Undelivered' = unsent \cup InFlight'
  BY <1>1 DEF Undelivered, InFlight, TxsAhead
<1>11. /\ Undelivered' = Undelivered \ {x} /\ InFlight' = InFlight \ {x}
       /\ x \in InFlight
  BY <1>4, <1>8, <1>9, <1>10, UndeliveredOnes
<1>12. /\ TxsOf(current_queue') \cap unsent' = {}
       /\ Apart(Pending', unsent' \cup TxsOf(current_queue'))
  BY <1>1, <1>4 DEF Apart
<1>13. BatchesApart'
  BY <1>7, <1>12 DEF BatchesApart, Apart
<1>14. BatchPart'
  BY <1>2, <1>13 DEF BatchPart
<1>. QED BY <1>2, <1>3, <1>11, <1>14

\* What the App hands over.
LEMMA TaskListsAre ==
    ASSUME BatchPart, NEW tasks \in TaskLists
    PROVE  tasks \in Seq(Task) /\ Once(tasks) /\ TxsOf(tasks) \subseteq unsent
<1>1. PICK n \in 1 .. Cardinality(unsent) : tasks \in [1 .. n -> [tx : unsent, queue : QueueNames]]
  BY DEF TaskLists
<1>2. Once(tasks)
  BY DEF TaskLists, Once
<1>3. unsent \subseteq Handovers
  BY BatchParts
<1>4. IsFiniteSet(unsent)
  BY <1>3, HandoversFinite, FS_Subset
<1>5. Cardinality(unsent) \in Nat
  BY <1>4, FS_CardinalityType
<1>6. n \in Nat
  BY <1>5
<1>7. \A i \in 1 .. n : tasks[i] \in Task /\ tasks[i].tx \in unsent
  BY <1>1, <1>3 DEF Task
<1>8. tasks \in Seq(Task) /\ DOMAIN tasks = 1 .. n
  BY <1>1, <1>6, <1>7
<1>9. TxsOf(tasks) \subseteq unsent
  BY <1>7, <1>8, TxIsAt
<1>. QED BY <1>2, <1>8, <1>9

LEMMA AppSendsStep ==
    ASSUME BatchPart, NEW time \in 0 .. MaxTime, NEW tasks \in TaskLists,
           AppSends(time, tasks)
    PROVE  /\ BatchPart' /\ Undelivered' = Undelivered
           /\ InFlight' = InFlight \cup TxsOf(tasks)
<1> DEFINE b == [time |-> time, tasks |-> tasks]
<1>1. /\ unsent' = unsent \ TxsOf(tasks)
      /\ receiver' = Append(receiver, b) /\ last_epoch' = <<b>>
      /\ UNCHANGED <<active_tasks, current_queue>>
  BY DEF AppSends
<1>2. tasks \in Seq(Task) /\ Once(tasks) /\ TxsOf(tasks) \subseteq unsent
  BY TaskListsAre
<1>3. b \in Batch /\ b.tasks = tasks
  BY <1>2 DEF Batch
<1> HIDE DEF b
<1>4. /\ active_tasks \in Seq(Batch) /\ receiver \in Seq(Batch)
      /\ Len(active_tasks) <= 1
      /\ current_queue \in Seq(Task) /\ unsent \subseteq Handovers
      /\ Once(current_queue) /\ TxsOf(current_queue) \cap unsent = {}
      /\ Apart(Pending, unsent \cup TxsOf(current_queue))
      /\ Pending \in Seq(Batch)
  BY BatchParts, PendingBatches
<1>5. receiver' \in Seq(Batch) /\ last_epoch' \in Seq(Batch)
  BY <1>1, <1>3, <1>4
<1>6. Pending' = Append(Pending, b)
  <2>1. /\ Append(receiver, b) = receiver \o <<b>>
        /\ Append(Pending, b) = Pending \o <<b>>
    BY <1>3, <1>4, AppendIsConcat
  <2>2. <<b>> \in Seq(Batch)
    BY <1>3
  <2>3. (active_tasks \o receiver) \o <<b>> = active_tasks \o (receiver \o <<b>>)
    BY <1>4, <2>2, ConcatAssociative
  <2>. QED BY <1>1, <2>1, <2>3 DEF Pending
<1>7. ToSet(Pending') = ToSet(Pending) \cup {b}
  BY <1>3, <1>4, <1>6, ListAppend
<1>8. /\ InFlight' = TxsOf(current_queue) \cup TxsAhead(Pending) \cup TxsOf(tasks)
      /\ Undelivered' = unsent' \cup InFlight'
  BY <1>1, <1>3, <1>7 DEF Undelivered, InFlight, TxsAhead
<1>9. Undelivered' = Undelivered /\ InFlight' = InFlight \cup TxsOf(tasks)
  BY <1>1, <1>2, <1>8, UndeliveredOnes
<1>10. /\ DOMAIN Pending' = DOMAIN Pending \cup {Len(Pending) + 1}
       /\ Pending'[Len(Pending) + 1] = b /\ Len(Pending) + 1 \notin DOMAIN Pending
       /\ \A a \in DOMAIN Pending : Pending'[a] = Pending[a]
  BY <1>3, <1>4, <1>6
<1>11. Apart(Pending', unsent' \cup TxsOf(current_queue))
  <2>1. ASSUME NEW a \in DOMAIN Pending'
        PROVE  Once(Pending'[a].tasks)
               /\ TxsOf(Pending'[a].tasks) \cap (unsent' \cup TxsOf(current_queue)) = {}
    <3>1. CASE a \in DOMAIN Pending
      BY <1>1, <1>4, <1>10, <3>1 DEF Apart
    <3>2. CASE a = Len(Pending) + 1
      BY <1>1, <1>2, <1>3, <1>4, <1>10, <3>2
    <3>. QED BY <1>10, <3>1, <3>2
  <2>2. ASSUME NEW a \in DOMAIN Pending', NEW c \in DOMAIN Pending', a # c
        PROVE  TxsOf(Pending'[a].tasks) \cap TxsOf(Pending'[c].tasks) = {}
    <3>0. \A e \in DOMAIN Pending : TxsOf(Pending'[e].tasks) \cap TxsOf(tasks) = {}
      BY <1>2, <1>4, <1>10 DEF Apart
    <3>1. CASE a \in DOMAIN Pending /\ c \in DOMAIN Pending
      BY <1>4, <1>10, <2>2, <3>1 DEF Apart
    <3>2. CASE a = Len(Pending) + 1
      <4>1. c \in DOMAIN Pending
        BY <1>10, <2>2, <3>2
      <4>. QED BY <1>3, <1>10, <3>0, <3>2, <4>1
    <3>3. CASE c = Len(Pending) + 1
      <4>1. a \in DOMAIN Pending
        BY <1>10, <2>2, <3>3
      <4>. QED BY <1>3, <1>10, <3>0, <3>3, <4>1
    <3>. QED BY <1>10, <3>1, <3>2, <3>3
  <2>. QED BY <2>1, <2>2 DEF Apart
<1>12. BatchesApart'
  BY <1>1, <1>4, <1>11 DEF BatchesApart, Apart
<1>13. BatchPart'
  BY <1>1, <1>4, <1>5, <1>12 DEF BatchPart
<1>. QED BY <1>9, <1>13

-----------------------------------------------------------------------------
(***************************************************************************)
(* Answers.                                                                *)
(***************************************************************************)
WaitingTxs == {public_futures[f] : f \in DOMAIN public_futures}

LEMMA AnswerParts ==
    AnswerPart <=>
      /\ \A f \in DOMAIN public_futures : public_futures[f] \in Handovers
      /\ answers \in Seq(Handovers)
      /\ IsInjective(answers) /\ IsInjective(public_futures)
      /\ WaitingTxs \cap ToSet(answers) = {}
      /\ Undelivered \cap (WaitingTxs \cup ToSet(answers)) = {}
      /\ next_created_future_id + Cardinality(InFlight) <= MaxFutures
BY DEF AnswerPart, HandoversAnsweredOnce, RoomLeft, WaitingTxs

LEMMA AnswerFrame ==
    ASSUME AnswerPart, Undelivered' = Undelivered, InFlight' = InFlight,
           UNCHANGED <<public_futures, answers, next_created_future_id>>
    PROVE  AnswerPart'
BY DEF AnswerPart, HandoversAnsweredOnce, RoomLeft

\* The transaction of a public future is answered and waits no more.
LEMMA AnswerStep ==
    ASSUME AnswerPart, NEW f \in DOMAIN public_futures,
           answers' = Append(answers, public_futures[f]),
           public_futures' = [g \in DOMAIN public_futures \ {f} |->
                                public_futures[g]],
           next_created_future_id' = next_created_future_id,
           Undelivered' = Undelivered, InFlight' = InFlight
    PROVE  AnswerPart'
<1>1. /\ \A g \in DOMAIN public_futures : public_futures[g] \in Handovers
      /\ answers \in Seq(Handovers)
      /\ IsInjective(answers) /\ IsInjective(public_futures)
      /\ WaitingTxs \cap ToSet(answers) = {}
      /\ Undelivered \cap (WaitingTxs \cup ToSet(answers)) = {}
  BY AnswerParts
<1>2. PICK x \in Handovers : x = public_futures[f]
  BY <1>1
<1>3. x \in WaitingTxs /\ x \notin ToSet(answers)
  BY <1>1, <1>2 DEF WaitingTxs
<1>4. /\ answers' \in Seq(Handovers) /\ IsInjective(answers')
      /\ ToSet(answers') = ToSet(answers) \cup {x}
  <2>1. answers' = Append(answers, x)
    BY <1>2
  <2>2. x \in Handovers \ ToSet(answers)
    BY <1>3
  <2>. QED BY <1>1, <2>1, <2>2, ListAppend, AppendKeepsApart
<1>5. /\ DOMAIN public_futures' = DOMAIN public_futures \ {f}
      /\ \A g \in DOMAIN public_futures' : public_futures'[g] = public_futures[g]
  OBVIOUS
<1>6. /\ \A g \in DOMAIN public_futures' : public_futures'[g] \in Handovers
      /\ IsInjective(public_futures')
  BY <1>1, <1>5 DEF IsInjective
<1>7. WaitingTxs' \subseteq WaitingTxs /\ x \notin WaitingTxs'
  BY <1>1, <1>2, <1>5 DEF WaitingTxs, IsInjective
<1>8. /\ WaitingTxs' \cap ToSet(answers') = {}
      /\ Undelivered' \cap (WaitingTxs' \cup ToSet(answers')) = {}
  BY <1>1, <1>3, <1>4, <1>7
<1>9. HandoversAnsweredOnce'
  BY <1>4, <1>6, <1>8 DEF HandoversAnsweredOnce, WaitingTxs
<1>. QED BY <1>4, <1>6, <1>9 DEF AnswerPart, RoomLeft

\* There is a number for a hand-over that is on its way.
LEMMA RoomForNext ==
    ASSUME AnswerPart, FuturePart, BatchPart, NEW x \in InFlight
    PROVE  /\ next_created_future_id < MaxFutures
           /\ next_created_future_id + 1 + Cardinality(InFlight \ {x})
                <= MaxFutures
<1>1. IsFiniteSet(InFlight) /\ Cardinality(InFlight) \in Nat
  BY UndeliveredFinite
<1>2. /\ IsFiniteSet(InFlight \ {x})
      /\ Cardinality(InFlight \ {x}) = Cardinality(InFlight) - 1
  BY <1>1, FS_RemoveElement
<1>3. Cardinality(InFlight \ {x}) \in Nat
  BY <1>2, FS_CardinalityType
<1>4. /\ next_created_future_id \in Nat /\ MaxFutures \in Nat
      /\ next_created_future_id + Cardinality(InFlight) <= MaxFutures
  BY FutureParts, FutureNumbers, AnswerParts
<1>. QED BY <1>1, <1>2, <1>3, <1>4

\* An accepted transaction waits for its answer under a number of its own.
LEMMA AcceptedStep ==
    ASSUME AnswerPart, FuturePart, BatchPart, NEW x \in InFlight,
           public_futures' = WithPublic(x),
           next_created_future_id' = next_created_future_id + 1,
           answers' = answers,
           Undelivered' = Undelivered \ {x}, InFlight' = InFlight \ {x}
    PROVE  AnswerPart'
<1> DEFINE n == next_created_future_id
<1>1. /\ \A g \in DOMAIN public_futures : public_futures[g] \in Handovers
      /\ answers \in Seq(Handovers)
      /\ IsInjective(answers) /\ IsInjective(public_futures)
      /\ WaitingTxs \cap ToSet(answers) = {}
      /\ Undelivered \cap (WaitingTxs \cup ToSet(answers)) = {}
  BY AnswerParts
<1>2. /\ x \in Handovers /\ x \in Undelivered
      /\ x \notin WaitingTxs /\ x \notin ToSet(answers)
  BY <1>1, UndeliveredFinite
<1>3. n \notin DOMAIN public_futures
  BY RoomForNext, NextIsFresh
<1>4. /\ DOMAIN public_futures' = DOMAIN public_futures \cup {n}
      /\ public_futures'[n] = x
      /\ \A g \in DOMAIN public_futures : public_futures'[g] = public_futures[g]
  BY <1>3 DEF WithPublic
<1> HIDE DEF n
<1>5. WaitingTxs' = WaitingTxs \cup {x}
  BY <1>3, <1>4 DEF WaitingTxs
<1>6. \A g \in DOMAIN public_futures : public_futures[g] # x
  BY <1>2 DEF WaitingTxs
<1>7. /\ \A g \in DOMAIN public_futures' : public_futures'[g] \in Handovers
      /\ IsInjective(public_futures')
  BY <1>1, <1>2, <1>3, <1>4, <1>6 DEF IsInjective
<1>8. /\ WaitingTxs' \cap ToSet(answers') = {}
      /\ Undelivered' \cap (WaitingTxs' \cup ToSet(answers')) = {}
  BY <1>1, <1>2, <1>5
<1>9. HandoversAnsweredOnce'
  BY <1>1, <1>7, <1>8 DEF HandoversAnsweredOnce, WaitingTxs
<1>10. RoomLeft'
  BY RoomForNext DEF RoomLeft
<1>. QED BY <1>1, <1>7, <1>9, <1>10 DEF AnswerPart

\* A task for no queue is dropped: its transaction is never answered.
LEMMA DroppedStep ==
    ASSUME AnswerPart, FuturePart, BatchPart, NEW x \in InFlight,
           UNCHANGED <<public_futures, answers, next_created_future_id>>,
           Undelivered' = Undelivered \ {x}, InFlight' = InFlight \ {x}
    PROVE  AnswerPart'
<1>1. HandoversAnsweredOnce'
  BY DEF AnswerPart, HandoversAnsweredOnce
<1>2. RoomLeft'
  <2>1. next_created_future_id \in Nat /\ MaxFutures \in Nat
    BY FutureParts, FutureNumbers
  <2>2. IsFiniteSet(InFlight)
    BY UndeliveredFinite
  <2>3. IsFiniteSet(InFlight \ {x})
    BY <2>2, FS_RemoveElement
  <2>4. Cardinality(InFlight \ {x}) \in Nat
    BY <2>3, FS_CardinalityType
  <2>. QED BY <2>1, <2>4, RoomForNext DEF RoomLeft
<1>. QED BY <1>1, <1>2 DEF AnswerPart

-----------------------------------------------------------------------------
(***************************************************************************)
(* The steps of the loop.                                                  *)
(***************************************************************************)
LEMMA InvInitially ==
    ASSUME RuntimeInit
    PROVE  RuntimeInv
<1>1. /\ 0 \in FiberIds /\ 1 \in 1 .. MaxFibers
      /\ 0 \in 0 .. MaxFutures /\ 0 \in 0 .. MaxTime
  BY RuntimeAssumption, FutureNumbers DEF FiberIds
<1>2. /\ ToSet(<<>>) = {} /\ IsInjective(<<>>) /\ TxsOf(<<>>) = {}
      /\ DOMAIN <<>> = {} /\ \A S : <<>> \in Seq(S)
  BY DEF ToSet, IsInjective, TxsOf
<1>3. <<0>> \in Seq(FiberIds) /\ IsInjective(<<0>>) /\ ToSet(<<0>>) = {0}
  BY <1>1 DEF IsInjective, ToSet
<1>4. FiberPart
  <2>1. ParkedIn(wait_index) = {}
    <3>1. \A k \in WaitKeys : ToSet(wait_index[k]) = {}
      BY <1>2 DEF RuntimeInit
    <3>. QED BY <3>1 DEF ParkedIn
  <2>2. wait_index \in [WaitKeys -> Seq(Waiter)]
    BY <1>2 DEF RuntimeInit
  <2>3. \A f \in ToSet(active_fibers) \cup awaiting_fibers : f < next_fiber_id
    BY <1>3 DEF RuntimeInit
  <2>. QED BY <1>1, <1>3, <2>1, <2>2, <2>3, FiberParts DEF RuntimeInit
<1>5. QueuePart
  BY <1>2, QueueParts DEF RuntimeInit
<1>6. FuturePart
  <2>1. Whats = {}
    BY DEF Whats, RuntimeInit
  <2>. QED BY <1>1, <1>2, <2>1, FutureParts DEF RuntimeInit
<1>7. Pending = <<>>
  BY <1>2, ConcatEmptySeq DEF Pending, RuntimeInit
<1>8. BatchPart
  <2>1. Len(active_tasks) <= 1
    BY DEF RuntimeInit
  <2>2. BatchesApart
    BY <1>2, <1>7 DEF BatchesApart, Once, RuntimeInit
  <2>. QED BY <1>2, <2>1, <2>2 DEF BatchPart, RuntimeInit
<1>9. AnswerPart
  <2>1. InFlight = {}
    BY <1>2, <1>7 DEF InFlight, RuntimeInit
  <2>2. 0 + Cardinality({}) <= MaxFutures
    BY FutureNumbers, FS_EmptySet
  <2>3. WaitingTxs = {}
    BY <1>2 DEF WaitingTxs, RuntimeInit
  <2>. QED BY <1>2, <2>1, <2>2, <2>3, AnswerParts DEF RuntimeInit
<1>10. LoopPart
  BY <1>1 DEF LoopPart, RuntimeInit
<1>. QED BY <1>4, <1>5, <1>6, <1>8, <1>9, <1>10 DEF RuntimeInv

\* A step that leaves the variables of the other parts alone.
LEMMA AppFrame ==
    ASSUME RuntimeInv,
           UNCHANGED <<active_tasks, receiver, current_queue, unsent, last_epoch>>
    PROVE  /\ BatchPart' /\ Undelivered' = Undelivered /\ InFlight' = InFlight
           /\ UNCHANGED <<public_futures, answers, next_created_future_id>>
                => AnswerPart'
BY BatchFrame, AnswerFrame DEF RuntimeInv

LEMMA FiberStepKeeps ==
    ASSUME RuntimeInv, FiberStep, crashed = "no"
    PROVE  RuntimeInv'
<1>0. /\ FiberPart /\ QueuePart /\ FuturePart
      /\ BatchPart /\ AnswerPart /\ LoopPart
  BY DEF RuntimeInv
<1>1. CASE FiberDone
  <2>1. UNCHANGED <<futureVars, queueVars, appVars, phase, now, crashed>>
    BY <1>1 DEF FiberDone
  <2>. QED BY <1>0, <1>1, <2>1, FiberDoneStep, QueueFrame, FutureFrame, AppFrame
          DEF RuntimeInv, LoopPart, appVars, futureVars
<1>2. ASSUME NEW arms \in ArmLists, FiberSelect(arms)
      PROVE  RuntimeInv'
  <2>1. UNCHANGED <<futureVars, queueVars, appVars, phase, now, crashed>>
    BY <1>2 DEF FiberSelect
  <2>. QED BY <1>0, <1>2, <2>1, FiberSelectStep, QueueFrame, FutureFrame, AppFrame
          DEF RuntimeInv, LoopPart, appVars, futureVars
<1>3. CASE FiberCreatesFiber
  <2>1. UNCHANGED <<futureVars, queueVars, appVars, phase, now, crashed>>
    BY <1>3 DEF FiberCreatesFiber
  <2>. QED BY <1>0, <1>3, <2>1, FiberCreatesFiberStep, QueueFrame, FutureFrame,
              AppFrame
          DEF RuntimeInv, LoopPart, appVars, futureVars
<1>4. ASSUME NEW q \in QueueNames, FiberSendsMessage(q)
      PROVE  RuntimeInv'
  <2>1. UNCHANGED <<fiberVars, futureVars, appVars, phase, now>>
    BY <1>4 DEF FiberSendsMessage
  <2>2. QueuePart' /\ crashed' \in {"no", "no such queue"}
    <3>1. CASE q \in DOMAIN queue_messages /\ Push(q, Plain) /\ UNCHANGED crashed
      <4>1. Plain \in Messages
        BY DEF Messages
      <4>. QED BY <1>0, <3>1, <4>1, PushStep DEF LoopPart
    <3>2. CASE crashed' = "no such queue" /\ UNCHANGED queueVars
      BY <1>0, <3>2, QueueFrame
    <3>. QED BY <1>4, <3>1, <3>2 DEF FiberSendsMessage
  <2>. QED BY <1>0, <2>1, <2>2, FiberFrame, FutureFrame, AppFrame
          DEF RuntimeInv, LoopPart, appVars, futureVars
<1>5. ASSUME NEW f \in KnownFutures, FiberSetsFuture(f)
      PROVE  RuntimeInv'
  <2>1. UNCHANGED <<fiberVars, queueVars, phase, now, crashed, active_tasks,
                    receiver, current_queue, unsent, last_epoch,
                    next_created_future_id>>
    BY <1>5 DEF FiberSetsFuture
  <2>2. /\ FuturePart' /\ BatchPart' /\ Undelivered' = Undelivered
        /\ InFlight' = InFlight
    BY <1>0, <1>5, <2>1, SetsFutureStep, AppFrame
  <2>3. AnswerPart'
    <3>1. CASE /\ f \in DOMAIN public_futures
               /\ answers' = Append(answers, public_futures[f])
               /\ public_futures' = [g \in DOMAIN public_futures \ {f} |->
                                       public_futures[g]]
      BY <1>0, <2>1, <2>2, <3>1, AnswerStep
    <3>2. CASE UNCHANGED <<answers, public_futures>>
      BY <1>0, <2>1, <2>2, <3>2, AnswerFrame
    <3>. QED BY <1>5, <3>1, <3>2 DEF FiberSetsFuture
  <2>. QED BY <1>0, <2>1, <2>2, <2>3, FiberFrame, QueueFrame
          DEF RuntimeInv, LoopPart
<1>6. ASSUME NEW p \in PrimitiveLists, FiberCreateFails(p)
      PROVE  RuntimeInv'
  <2>1. UNCHANGED runtimeVars
    BY <1>6 DEF FiberCreateFails
  <2>. QED BY <1>0, <2>1, FiberFrame, QueueFrame, FutureFrame, AppFrame
          DEF RuntimeInv, LoopPart, runtimeVars, appVars, futureVars
<1>7. ASSUME NEW p \in PrimitiveLists, FiberCreates(p)
      PROVE  RuntimeInv'
  <2>1. /\ UNCHANGED <<fiberVars, appVars, phase, now, crashed, public_futures,
                       non_empty_queues>>
        /\ next_created_future_id' + Cardinality(InFlight) <= MaxFutures
    BY <1>7 DEF FiberCreates
  <2>2. BatchPart' /\ Undelivered' = Undelivered /\ InFlight' = InFlight
    BY <2>1, AppFrame DEF appVars
  <2>3. FuturePart'
    BY <1>0, <1>7, UndeliveredFinite, CreatesFuturesStep
  <2>4. QueuePart'
    <3> DEFINE names == {p[i].name : i \in QueuesAmong(p)}
    <3>1. ASSUME NEW i \in QueuesAmong(p) PROVE p[i].name \in QueueNames
      <4>1. p[i] \in Primitives /\ p[i].kind = "queue"
        BY <1>0, PrimitiveNumbers DEF QueuesAmong
      <4>. QED BY <4>1 DEF Primitives
    <3>2. names \in SUBSET QueueNames
      BY <3>1
    <3>3. queue_messages' =
            [q \in DOMAIN queue_messages \cup names |->
               IF q \in DOMAIN queue_messages THEN queue_messages[q] ELSE <<>>]
      BY <1>7 DEF FiberCreates
    <3> HIDE DEF names
    <3>. QED BY <1>0, <2>1, <3>2, <3>3, NewQueuesStep
  <2>5. AnswerPart'
    BY <1>0, <2>1, <2>2 DEF AnswerPart, HandoversAnsweredOnce, RoomLeft, appVars
  <2>. QED BY <1>0, <2>1, <2>2, <2>3, <2>4, <2>5, FiberFrame
          DEF RuntimeInv, LoopPart
<1>. QED BY <1>1, <1>2, <1>3, <1>4, <1>5, <1>6, <1>7 DEF FiberStep

LEMMA ResolveFutureKeeps ==
    ASSUME RuntimeInv, ResolveFuture
    PROVE  RuntimeInv'
<1>0. /\ FiberPart /\ QueuePart /\ FuturePart
      /\ BatchPart /\ AnswerPart /\ LoopPart
  BY DEF RuntimeInv
<1>1. /\ resolved_futures # <<>>
      /\ UNCHANGED <<scheduled, next_created_future_id, public_futures, queueVars,
                     appVars, now>>
  BY DEF ResolveFuture
<1>2. PICK k \in WaitKeys : k = Head(resolved_futures)
  <2>1. Head(resolved_futures) \in FutureIds
    BY <1>0, <1>1, ListTail DEF FuturePart
  <2>. QED BY <2>1 DEF WaitKeys
<1>3. QueuePart' /\ BatchPart' /\ AnswerPart'
  BY <1>0, <1>1, QueueFrame, AppFrame DEF appVars
<1>4. CASE /\ wait_index[k] = <<>>
           /\ resolved_futures' = Rotated(resolved_futures)
           /\ phase' = "queues" /\ UNCHANGED <<fiberVars, crashed>>
  <2>1. FiberPart' /\ FuturePart'
    BY <1>0, <1>1, <1>4, FiberFrame, ResolvedStep
  <2>. QED BY <1>0, <1>1, <1>3, <1>4, <2>1 DEF RuntimeInv, LoopPart
<1>5. CASE /\ wait_index[k] # <<>>
           /\ wait_index' = Withdrawn(k)
           /\ awaiting_fibers' = awaiting_fibers \ {Woken(k)}
           /\ active_fibers' = <<Woken(k)>> \o active_fibers
           /\ resolved_futures' = Tail(resolved_futures)
           /\ phase' = "queues" /\ UNCHANGED <<next_fiber_id, crashed>>
  <2>1. FiberPart'
    BY <1>0, <1>5, WakeStep
  <2>2. FuturePart'
    BY <1>0, <1>1, <1>5, ResolvedStep
  <2>. QED BY <1>0, <1>1, <1>3, <1>5, <2>1, <2>2 DEF RuntimeInv, LoopPart
<1>6. ~ (wait_index[k] # <<>> /\ Woken(k) \notin awaiting_fibers)
  BY <1>0, WokenIsParked
<1>. QED BY <1>2, <1>4, <1>5, <1>6 DEF ResolveFuture

LEMMA DeliverMessageKeeps ==
    ASSUME RuntimeInv, DeliverMessage
    PROVE  RuntimeInv'
<1>0. /\ FiberPart /\ QueuePart /\ FuturePart
      /\ BatchPart /\ AnswerPart /\ LoopPart
  BY DEF RuntimeInv
<1>1. non_empty_queues # <<>> /\ UNCHANGED <<futureVars, appVars, now>>
  BY DEF DeliverMessage
<1>2. PICK k \in WaitKeys : k = Head(non_empty_queues)
  BY <1>0, <1>1, ListedHasMessage DEF WaitKeys
<1>3. k \in DOMAIN queue_messages /\ queue_messages[k] # <<>>
  BY <1>0, <1>1, <1>2, ListedHasMessage
<1>4. FuturePart' /\ BatchPart' /\ AnswerPart'
  BY <1>0, <1>1, FutureFrame, AppFrame DEF appVars, futureVars
<1>5. CASE /\ wait_index[k] = <<>>
           /\ non_empty_queues' = Rotated(non_empty_queues)
           /\ phase' = "input"
           /\ UNCHANGED <<fiberVars, queue_messages, crashed>>
  <2>1. FiberPart' /\ QueuePart'
    BY <1>0, <1>1, <1>5, FiberFrame, RotateQueues
  <2>. QED BY <1>0, <1>1, <1>4, <1>5, <2>1 DEF RuntimeInv, LoopPart
<1>6. CASE /\ wait_index[k] # <<>>
           /\ wait_index' = Withdrawn(k)
           /\ awaiting_fibers' = awaiting_fibers \ {Woken(k)}
           /\ active_fibers' = <<Woken(k)>> \o active_fibers
           /\ queue_messages' = [queue_messages EXCEPT ![k] = Tail(@)]
           /\ non_empty_queues' = IF Len(queue_messages[k]) > 1
                                  THEN Rotated(non_empty_queues)
                                  ELSE Tail(non_empty_queues)
           /\ phase' = "timers"
           /\ UNCHANGED <<next_fiber_id, crashed>>
  <2>1. FiberPart'
    BY <1>0, <1>6, WakeStep
  <2>2. QueuePart'
    BY <1>0, <1>1, <1>2, <1>6, TakeMessageStep
  <2>. QED BY <1>0, <1>1, <1>4, <1>6, <2>1, <2>2 DEF RuntimeInv, LoopPart
<1>7. wait_index[k] # <<>> => Woken(k) \in awaiting_fibers
  BY <1>0, WokenIsParked
<1>. QED BY <1>2, <1>3, <1>5, <1>6, <1>7 DEF DeliverMessage

\* A turn of the loop over a batch.
LEMMA AcceptTaskKeeps ==
    ASSUME RuntimeInv, AcceptTask
    PROVE  RuntimeInv'
<1>0. /\ FiberPart /\ QueuePart /\ FuturePart
      /\ BatchPart /\ AnswerPart /\ LoopPart
  BY DEF RuntimeInv
<1>1. /\ current_queue # <<>> /\ current_queue' = Tail(current_queue)
      /\ UNCHANGED <<phase, fiberVars, scheduled, resolved_futures, active_tasks,
                     receiver, answers, unsent, last_epoch, now, crashed>>
  BY DEF AcceptTask
<1>2. PICK task \in Task : task = Head(current_queue)
  BY <1>0, <1>1, NextTaskStep
<1>3. /\ BatchPart' /\ task.tx \in InFlight
      /\ Undelivered' = Undelivered \ {task.tx}
      /\ InFlight' = InFlight \ {task.tx}
  BY <1>0, <1>1, <1>2, NextTaskStep
<1>4. CASE /\ task.queue \in DOMAIN queue_messages
           /\ Push(task.queue, next_created_future_id)
           /\ public_futures' = WithPublic(task.tx)
           /\ next_created_future_id' = next_created_future_id + 1
  <2>1. next_created_future_id < MaxFutures
    BY <1>0, <1>3, RoomForNext
  <2>2. next_created_future_id \in Messages
    BY <1>0, <2>1, NextIsFresh DEF Messages
  <2>3. QueuePart'
    BY <1>0, <1>4, <2>2, PushStep
  <2>4. FuturePart'
    BY <1>0, <1>1, <1>4, <2>1, PublicStep
  <2>5. AnswerPart'
    BY <1>0, <1>1, <1>3, <1>4, AcceptedStep
  <2>. QED BY <1>0, <1>1, <1>3, <2>3, <2>4, <2>5, FiberFrame
          DEF RuntimeInv, LoopPart
<1>5. CASE UNCHANGED <<queueVars, public_futures, next_created_future_id>>
  <2>1. AnswerPart'
    BY <1>0, <1>1, <1>3, <1>5, DroppedStep
  <2>2. UNCHANGED futureVars
    BY <1>1, <1>5 DEF futureVars
  <2>. QED BY <1>0, <1>1, <1>3, <1>5, <2>1, <2>2, FiberFrame, QueueFrame, FutureFrame
          DEF RuntimeInv, LoopPart
<1>. QED BY <1>2, <1>4, <1>5 DEF AcceptTask

\* The places of the loop where nothing but phase and time change.
LEMMA NothingElseChanges ==
    ASSUME RuntimeInv, UNCHANGED <<fiberVars, futureVars, queueVars, appVars, crashed>>,
           phase' \in {"timers", "fibers", "futures", "queues", "input", "asleep"},
           now' \in 0 .. MaxTime
    PROVE  RuntimeInv'
BY FiberFrame, QueueFrame, FutureFrame, AppFrame
   DEF RuntimeInv, LoopPart, appVars, futureVars

LEMMA RuntimeStepKeeps ==
    ASSUME RuntimeInv, RuntimeStep
    PROVE  RuntimeInv'
<1>0. /\ FiberPart /\ QueuePart /\ FuturePart
      /\ BatchPart /\ AnswerPart /\ LoopPart /\ crashed = "no"
  BY DEF RuntimeInv, RuntimeStep
<1>1. CASE TakeScheduled
  <2>1. /\ UNCHANGED <<fiberVars, queueVars, appVars, now, crashed, public_futures,
                       next_created_future_id>>
        /\ phase' = "fibers"
    BY <1>1 DEF TakeScheduled
  <2>. QED BY <1>0, <1>1, <2>1, TakeScheduledStep, FiberFrame, QueueFrame, AppFrame
          DEF RuntimeInv, LoopPart, appVars
<1>2. CASE FiberStep
  BY <1>0, <1>2, FiberStepKeeps
<1>3. CASE NoFiberLeft \/ NoResolvedFuture \/ NoMessage \/ WakeUp \/ NoInput
  <2>1. UNCHANGED <<fiberVars, futureVars, queueVars, appVars, now, crashed>>
        /\ phase' \in {"timers", "futures", "queues", "input"}
    BY <1>3 DEF NoFiberLeft, NoResolvedFuture, NoMessage, WakeUp, NoInput
  <2>. QED BY <1>0, <2>1, NothingElseChanges DEF LoopPart
<1>4. CASE ResolveFuture
  BY <1>4, ResolveFutureKeeps
<1>5. CASE DeliverMessage
  BY <1>5, DeliverMessageKeeps
<1>6. CASE TakeBatch
  <2>1. UNCHANGED <<phase, fiberVars, futureVars, queueVars, answers, now, crashed>>
    BY <1>6 DEF TakeBatch
  <2>2. BatchPart' /\ Undelivered' = Undelivered /\ InFlight' = InFlight
    BY <1>0, <1>6, TakeBatchStep
  <2>. QED BY <1>0, <2>1, <2>2, FiberFrame, QueueFrame, FutureFrame, AnswerFrame
          DEF RuntimeInv, LoopPart, futureVars
<1>7. CASE AcceptTask
  BY <1>7, AcceptTaskKeeps
<1>8. CASE BatchTooEarly
  <2>1. UNCHANGED <<fiberVars, futureVars, queueVars, answers, now, crashed>>
        /\ phase' = "asleep"
    BY <1>8 DEF BatchTooEarly
  <2>2. BatchPart' /\ Undelivered' = Undelivered /\ InFlight' = InFlight
    BY <1>0, <1>8, BatchTooEarlyStep
  <2>. QED BY <1>0, <2>1, <2>2, FiberFrame, QueueFrame, FutureFrame, AnswerFrame
          DEF RuntimeInv, LoopPart, futureVars
<1>. QED BY <1>1, <1>2, <1>3, <1>4, <1>5, <1>6, <1>7, <1>8 DEF RuntimeStep

LEMMA EnvironmentKeeps ==
    ASSUME RuntimeInv, Environment
    PROVE  RuntimeInv'
<1>0. /\ FiberPart /\ QueuePart /\ FuturePart
      /\ BatchPart /\ AnswerPart /\ LoopPart
  BY DEF RuntimeInv
<1>1. ASSUME NEW time \in 0 .. MaxTime, NEW tasks \in TaskLists, AppSends(time, tasks)
      PROVE  RuntimeInv'
  <2>1. UNCHANGED <<phase, fiberVars, futureVars, queueVars, answers, now, crashed>>
    BY <1>1 DEF AppSends
  <2>2. /\ BatchPart' /\ Undelivered' = Undelivered
        /\ InFlight' = InFlight \cup TxsOf(tasks)
    BY <1>0, <1>1, AppSendsStep
  <2>3. UNCHANGED <<public_futures, next_created_future_id>>
    BY <2>1 DEF futureVars
  <2>4. RoomLeft'
    BY <1>1, <2>2, <2>3 DEF AppSends, RoomLeft
  <2>5. HandoversAnsweredOnce'
    BY <1>0, <2>1, <2>2, <2>3 DEF AnswerPart, HandoversAnsweredOnce
  <2>6. AnswerPart'
    BY <1>0, <2>1, <2>3, <2>4, <2>5 DEF AnswerPart
  <2>. QED BY <1>0, <2>1, <2>2, <2>6, FiberFrame, QueueFrame, FutureFrame
          DEF RuntimeInv, LoopPart, futureVars
<1>2. CASE Tick
  <2>1. UNCHANGED <<phase, fiberVars, futureVars, queueVars, appVars, crashed>>
    BY <1>2 DEF Tick
  <2>2. PICK t \in 0 .. MaxTime : t = now
    BY <1>0 DEF LoopPart
  <2>3. now' = t + 1 /\ t < MaxTime
    BY <1>2, <2>2 DEF Tick
  <2>4. now' \in 0 .. MaxTime
    BY <2>2, <2>3, RuntimeAssumption
  <2>. QED BY <1>0, <2>1, <2>4, NothingElseChanges DEF LoopPart
<1>3. CASE NewEpoch
  <2>1. PICK time \in EpochTimes, tasks \in TaskLists : AppSends(time, tasks)
    BY <1>3 DEF NewEpoch
  <2>2. time \in 0 .. MaxTime
    BY RuntimeAssumption
  <2>. QED BY <1>1, <2>1, <2>2
<1>4. CASE SameEpoch
  <2>1. last_epoch # <<>> /\ last_epoch \in Seq(Batch)
    BY <1>0, <1>4, BatchParts DEF SameEpoch
  <2>2. PICK b \in Batch : b = last_epoch[1]
    <3>1. Head(last_epoch) \in Batch /\ Head(last_epoch) = last_epoch[1]
      BY <2>1
    <3>. QED BY <3>1
  <2>3. b.time \in 0 .. MaxTime
    BY DEF Batch
  <2>4. PICK again \in TaskLists : AppSends(b.time, again)
    BY <1>4, <2>2 DEF SameEpoch
  <2>. QED BY <1>1, <2>3, <2>4
<1>. QED BY <1>2, <1>3, <1>4 DEF Environment

-----------------------------------------------------------------------------
(***************************************************************************)
(* Theorems.                                                               *)
(***************************************************************************)

\* The invariant holds in every behaviour of the loop, its fibers and the App.
THEOREM RuntimeInvariant == RuntimeSpec => []RuntimeInv
<1>1. RuntimeInit => RuntimeInv
  BY InvInitially
<1>2. RuntimeInv /\ [RuntimeStep \/ Environment]_runtimeVars => RuntimeInv'
  <2> SUFFICES ASSUME RuntimeInv, [RuntimeStep \/ Environment]_runtimeVars
               PROVE  RuntimeInv'
    OBVIOUS
  <2>1. CASE UNCHANGED runtimeVars
    <3>1. UNCHANGED <<fiberVars, futureVars, queueVars, appVars, phase, now, crashed>>
      BY <2>1 DEF runtimeVars
    <3>. QED BY <3>1, NothingElseChanges DEF RuntimeInv, LoopPart
  <2>. QED BY <2>1, RuntimeStepKeeps, EnvironmentKeeps
<1>. QED BY <1>1, <1>2, PTL DEF RuntimeSpec

LEMMA FibersFromInv ==
    ASSUME RuntimeInv
    PROVE  FibersSound
<1>1. FibersInOnePlace
  BY DEF RuntimeInv, FiberPart
<1>2. RuntimeConsistent
  BY DEF RuntimeInv, LoopPart, RuntimeConsistent
<1>3. RuntimeTypeOK
  BY DEF RuntimeTypeOK, RuntimeInv, FiberPart, QueuePart, FuturePart, BatchPart,
         AnswerPart, LoopPart
<1>. QED BY <1>1, <1>2, <1>3 DEF FibersSound

\* Every fiber is in one place, whoever is parked can be woken, and none of the
\* expect() calls on the consistency of the runtime fails, for any number of
\* fibers, queues, futures and transactions.
THEOREM FibersStaySound == RuntimeSpec => []FibersSound
BY FibersFromInv, RuntimeInvariant, PTL

LEMMA PartsFromInv ==
    ASSUME RuntimeInv
    PROVE  QueuesListedOnce /\ HandoversAnsweredOnce /\ PublicFuturesApart
BY DEF RuntimeInv, QueuePart, FuturePart, AnswerPart

\* non_empty_queues lists the queues with messages, each once, although fibers
\* and the input add messages and deliveries take them.
THEOREM QueuesStayListed == RuntimeSpec => []QueuesListedOnce
BY PartsFromInv, RuntimeInvariant, PTL

\* Whatever the fibers do and however often the App hands a transaction over,
\* no hand-over is answered twice, or answered while it still waits.
THEOREM EachHandoverAnsweredOnce == RuntimeSpec => []HandoversAnsweredOnce
BY PartsFromInv, RuntimeInvariant, PTL

\* The one counter of futures never gives a transaction the number of a timer
\* or of a future inside.
THEOREM NumbersStayApart == RuntimeSpec => []PublicFuturesApart
BY PartsFromInv, RuntimeInvariant, PTL

=============================================================================
