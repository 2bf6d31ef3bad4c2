---- MODULE FiberMachine ----
(***************************************************************************)
(* Fiber::run (runtime/src/fiber.rs) over the generated code: one flat     *)
(* stack of Retrn, Value and State entries on which global_step's results  *)
(* are applied, with the runtime's side of a Select and a Create           *)
(* (runtime/src/runtime.rs) as the environment of the fiber.               *)
(*                                                                         *)
(* A fiber runs one of the programs IR::is_valid accepts.  The sample runs *)
(* from the generated file itself, the others from what codegen would make *)
(* of them.  An entry is <<"State", <<fiber, func, step>>>>, <<"Retrn",    *)
(* offset>> or <<"Value", name, <<type, payload>>>>.                       *)
(***************************************************************************)
EXTENDS Codegen, SampleIr, SequencesExt, TLC

CONSTANTS Programs,     \* the IRs, by name; "sample" is sample_ir()
          InitVars,     \* the init_vars a fiber may start with, by fiber
          Taken,        \* the sets of queues that may exist already
          Deliveries,   \* the payloads that may arrive, by type
          MaxU64, MaxMessages,
          MaxStack      \* the entries that fit into memory

VARIABLES program, fiber,
          code,             \* the arms of global_step the fiber was built with
          stack, heap,      \* Fiber.stack, Fiber.heap
          status,           \* running, parked in select or create, done; or
                            \* panicked: overflow in a block, else corrupt;
                            \* or killed: no_memory for its stack
          request,          \* while parked: the state and what it asked for
          queues,           \* the names in queue_messages
          got, sent         \* what was delivered to it, and what it sent out

vars == <<program, fiber, code, stack, heap, status, request, queues, got, sent>>

Accepted == {p \in DOMAIN Programs : IsValid(Programs[p])}
CodeOf == [p \in DOMAIN Programs |-> IF p = "sample" THEN Assembler
                                     ELSE Generate(Programs[p])]

\* The calls on the stack, each from its Retrn up to the next, as IrMachine
\* sees them; while the fiber is parked the top state is off the stack.
FramesOf ==
    LET starts == SelectSeq([k \in DOMAIN stack |-> k], LAMBDA k : stack[k][1] = "Retrn")
        Frame(k) ==
            LET low == starts[k]
                high == IF k < Len(starts) THEN starts[k + 1] - 1 ELSE Len(stack)
                resting == stack[high][1] = "State"
                state == IF resting THEN stack[high][2] ELSE request[1].at
                slots == low + 1 .. (IF resting THEN high - 1 ELSE high)
            IN  [func |-> <<state[1], state[2]>>, at |-> state[3],
                 bind |-> IF k = 1 \/ stack[low][2] = <<>> THEN <<>>
                          ELSE <<stack[low - stack[low][2][1]][2]>>,
                 vars |-> [x \in {stack[i][2] : i \in slots} |->
                             stack[CHOOSE i \in slots : stack[i][2] = x][3]]]
    IN  [k \in DOMAIN starts |-> Frame(k)]

Abs == INSTANCE IrMachine WITH frames <- FramesOf

StateAt(func, step) == <<"State", <<fiber, func, step>>>>
ValueOf(name, type, payload) == <<"Value", name, <<type, payload>>>>

\* The state on top, its function and arm, and where its frame starts.
AtState == stack # <<>> /\ Last(stack)[1] = "State"
Here == Last(stack)[2]
Fn == code[Here[1]][Here[2]]
Arm == Fn.steps[Here[3]]
Below == Front(stack)
Start == Len(Below) - Len(Fn.frame)
SlotValue(i) == Below[Start + 1 + i][3]

\* Fiber::run panics where the frame is short, and the arm where a slot does
\* not hold what it unpacks.
Holds(i, type) == /\ Below[Start + 1 + i][1] = "Value"
                  /\ SlotValue(i)[1] = type
Unpacks ==
    /\ Start >= 0
    /\ \A i \in Arm.reads : Holds(i, Fn.frame[i + 1][2])
    /\ Arm.op = "CreateAll" =>
         \A k \in DOMAIN Arm.primitives :
             /\ Arm.primitives[k].kind = "Schedule" => Holds(Arm.primitives[k].on[2], UInt64)
             /\ Arm.primitives[k].kind = "Queue" => Holds(Arm.primitives[k].on[2], String)
    /\ Arm.op = "Spawn" =>
         \A d \in Range(Arm.details) : \A place \in Range(d[2]) :
             place[1] = "StringAt" => Holds(place[2], String)

\* What an expression of an arm evaluates to.
RECURSIVE Payload(_)
Payload(e) ==
    CASE e[1] \in {"Slot", "StringAt"} -> SlotValue(e[2])[2]
      [] e[1] = "InVar" -> heap.in_vars[e[2]]
      [] e[1] = "Equal" -> Payload(e[2]) = Payload(e[3])
      [] e[1] = "Greater" -> Payload(e[2]) > Payload(e[3])
      [] e[1] = "Less" -> Payload(e[2]) < Payload(e[3])
      [] e[1] = "Some" -> <<Payload(e[2])>>
      [] e[1] = "None" -> <<>>
      [] e[1] = "Default" -> Abs!DefaultOf(e[2])
      [] OTHER -> e[2]
\* A variable with its type, as it is sent out of the fiber.
Whole(place) == IF place[1] = "Slot" THEN <<Fn.frame[place[2] + 1][2], Payload(place)>>
                ELSE <<String, Payload(place)>>

\* The variables a block sees by name, and what it returns.
Visible == [x \in {Fn.frame[i][1] : i \in DOMAIN Fn.frame} \union DOMAIN heap.in_vars |->
              IF \E i \in DOMAIN Fn.frame : Fn.frame[i][1] = x
              THEN SlotValue((CHOOSE i \in DOMAIN Fn.frame : Fn.frame[i][1] = x) - 1)[2]
              ELSE heap.in_vars[x]]
Computed == RunBlock(Arm.code, Visible, heap)
IsU64(n) == 0 <= n /\ n <= MaxU64

\* Where run or the runtime finds the stack or the program corrupt.
Corrupt ==
    \/ ~ Unpacks
    \/ /\ Arm.op \in {"ReturnExpr", "ReturnBlock", "ReturnUnit"}
       /\ Start = 0 \/ Below[Start][1] # "Retrn"
    \/ /\ Arm.op = "Spawn"
       /\ \E i \in DOMAIN Arm.details : Arm.details[i][1] \notin DOMAIN code
\* Where a block panics: u64 arithmetic (of a debug build) or an index.
Overflows ==
    \/ /\ Arm.op = "Block"
       /\ \/ BlockPanics(Arm.code, Visible, heap)
          \/ \E i \in DOMAIN Arm.slots :
                Fn.frame[Arm.slots[i] + 1][2] = UInt64 /\ ~ IsU64(Computed[i])
    \/ /\ Arm.op = "ReturnBlock" /\ Arm.type = UInt64 /\ ~ IsU64(Computed[1])

Exec(op) == /\ status = "running" /\ AtState /\ Arm.op = op
            /\ ~ Corrupt /\ ~ Overflows

\* StackEntry::FrameAssign: the slots keep their labels.
FrameAssign(slots, types, payloads) ==
    [k \in DOMAIN Below |->
        IF \E i \in DOMAIN slots : k = Start + 1 + slots[i]
        THEN LET i == CHOOSE i \in DOMAIN slots : k = Start + 1 + slots[i]
             IN  ValueOf(Below[k][2], types[i], payloads[i])
        ELSE Below[k]]
Goes(below, next) == stack' = Append(below, StateAt(Here[2], next))

----------------------------------------------------------------------------
\* The steps that stay inside the fiber.
RunGoTo ==
    /\ \E op \in {"GoTo", "Dbg"} : Exec(op)
    /\ Goes(Below, Arm.next)
    /\ UNCHANGED <<program, fiber, code, heap, status, request, queues, got, sent>>
RunBranch ==
    /\ Exec("Branch")
    /\ Goes(Below, IF Payload(Arm.cond) THEN Arm.then ELSE Arm.else)
    /\ UNCHANGED <<program, fiber, code, heap, status, request, queues, got, sent>>
RunAssign ==
    /\ Exec("Assign")
    /\ Goes(FrameAssign(<<Arm.slot>>, <<Arm.type>>, <<Payload(Arm.expr)>>), Arm.next)
    /\ UNCHANGED <<program, fiber, code, heap, status, request, queues, got, sent>>
RunBlockCode ==
    /\ Exec("Block")
    /\ Goes(FrameAssign(Arm.slots,
                        [i \in DOMAIN Arm.slots |-> Fn.frame[Arm.slots[i] + 1][2]],
                        Computed), Arm.next)
    /\ heap' = HeapAfter(Arm.code, Visible, heap)
    /\ UNCHANGED <<program, fiber, code, status, request, queues, got, sent>>
CalleeFrame == code[Arm.callee[1]][Arm.callee[2]].frame
FitsMemory == Len(stack) + Len(CalleeFrame) + 2 <= MaxStack
RunCall ==
    LET callee == code[Arm.callee[1]][Arm.callee[2]]
    IN  /\ Exec("CallNext") /\ FitsMemory
        /\ stack' = Below \o <<StateAt(Here[2], Arm.ret), <<"Retrn", Arm.retrn>>>>
              \o [i \in DOMAIN Arm.values |->
                    ValueOf(Arm.values[i][1], callee.frame[i][2], Payload(Arm.values[i][2]))]
              \o <<<<"State", <<Arm.callee[1], Arm.callee[2], "entry">>>>>>
        /\ UNCHANGED <<program, fiber, code, heap, status, request, queues, got, sent>>

\* The Vec of the stack grows until the process is killed.
RunOutOfMemory ==
    /\ Exec("CallNext") /\ ~ FitsMemory
    /\ status' = "no_memory"
    /\ UNCHANGED <<program, fiber, code, stack, heap, request, queues, got, sent>>

\* Mutant: the offset is counted from the length, not from the last entry.
ReturnValueOneUp(value) ==
    LET caller == SubSeq(Below, 1, Start - 1)
        offset == Below[Start][2]
    IN  IF offset = <<>> THEN caller
        ELSE [caller EXCEPT ![Len(caller) - offset[1] + 2] =
                <<"Value", IF @[1] = "Value" THEN @[2] ELSE "ret", value>>]
\* Return drops the frame and its Retrn and writes the value `offset' entries
\* from the top of what is left.
ReturnValue(value) ==
    LET caller == SubSeq(Below, 1, Start - 1)
        offset == Below[Start][2]
    IN  IF offset = <<>> THEN caller
        ELSE [caller EXCEPT ![Len(caller) - offset[1] + 1] =
                <<"Value", IF @[1] = "Value" THEN @[2] ELSE "ret", value>>]
RunReturn ==
    /\ Exec("ReturnExpr")
    /\ stack' = ReturnValue(<<Fn.out, Payload(Arm.value)>>)
    /\ UNCHANGED <<program, fiber, code, heap, status, request, queues, got, sent>>
RunReturnBlock ==
    /\ Exec("ReturnBlock")
    /\ stack' = ReturnValue(<<Arm.type, Computed[1]>>)
    /\ UNCHANGED <<program, fiber, code, heap, status, request, queues, got, sent>>
RunReturnVoid ==
    /\ Exec("ReturnUnit")
    /\ stack' = SubSeq(Below, 1, Start - 1)
    /\ UNCHANGED <<program, fiber, code, heap, status, request, queues, got, sent>>

\* No state on top: the fiber has finished.
RunDone ==
    /\ status = "running" /\ ~ AtState
    /\ status' = "done"
    /\ UNCHANGED <<program, fiber, code, stack, heap, request, queues, got, sent>>

RunPanics ==
    /\ status = "running" /\ AtState
    /\ Corrupt \/ (~ Corrupt /\ Overflows)
    /\ status' = IF Corrupt THEN "corrupt" ELSE "overflow"
    /\ UNCHANGED <<program, fiber, code, stack, heap, request, queues, got, sent>>

----------------------------------------------------------------------------
\* The steps that return to the runtime: SetValues and CreateFibers have
\* pushed the next state, Select and Create leave that to the runtime.
RunSetValues ==
    /\ Exec("SetAll") /\ Goes(Below, Arm.next)
    /\ sent' = sent \o [i \in DOMAIN Arm.values |->
                  <<Arm.values[i].kind, Payload(Arm.values[i].on),
                    Whole(Arm.values[i].value)>>]
    /\ UNCHANGED <<program, fiber, code, heap, status, request, queues, got>>
RunCreateFibers ==
    /\ Exec("Spawn") /\ Goes(Below, Arm.next)
    /\ sent' = sent \o [i \in DOMAIN Arm.details |->
                  <<"Fiber", Arm.details[i][1],
                    [k \in DOMAIN Arm.details[i][2] |-> Whole(Arm.details[i][2][k])]>>]
    /\ UNCHANGED <<program, fiber, code, heap, status, request, queues, got>>
RunSelect ==
    /\ Exec("Park")
    /\ status' = "select" /\ stack' = Below
    /\ request' = <<[at |-> Here, arms |-> Arm.arms]>>
    /\ UNCHANGED <<program, fiber, code, heap, queues, got, sent>>
RunCreate ==
    /\ Exec("CreateAll")
    /\ status' = "create" /\ stack' = Below
    /\ request' = <<[at |-> Here, arm |-> Arm,
                     kinds |-> [i \in DOMAIN Arm.primitives |-> Arm.primitives[i].kind],
                     names |-> [i \in DOMAIN Arm.primitives |->
                                  IF Arm.primitives[i].kind = "Future" THEN ""
                                  ELSE Payload(Arm.primitives[i].on)]]>>
    /\ UNCHANGED <<program, fiber, code, heap, queues, got, sent>>

\* assign_local: the topmost entry with that name.
AssignLocal(entries, name, value) ==
    LET named == {k \in DOMAIN entries : entries[k][1] = "Value" /\ entries[k][2] = name}
    IN  [entries EXCEPT ![CHOOSE k \in named : \A j \in named : j <= k] =
            <<"Value", name, value>>]
AssignLocals(names, values) ==
    FoldLeftDomain(LAMBDA entries, i : AssignLocal(entries, names[i], values[i]),
                   stack, names)
Asked == request[1]
Labels == {stack[k][2] : k \in {i \in DOMAIN stack : stack[i][1] = "Value"}}
\* assign_local panics on a name that no entry has.
Resumes(names, values, next) ==
    /\ request' = <<>>
    /\ IF Range(names) \subseteq Labels
       THEN /\ stack' = Append(AssignLocals(names, values),
                              <<"State", <<Asked.at[1], Asked.at[2], next>>>>)
            /\ status' = "running"
       ELSE status' = "corrupt" /\ UNCHANGED stack

\* The runtime wakes a parked fiber with a message or a resolved future.
FrameOfAsked == code[Asked.at[1]][Asked.at[2]].frame
BoundType(name) ==
    LET found == {i \in DOMAIN FrameOfAsked : FrameOfAsked[i][1] = name}
    IN  IF found = {} THEN Abs!Foreign ELSE FrameOfAsked[CHOOSE i \in found : TRUE][2]
AwaitedType(arm) == IF arm.on[1] = "Slot" THEN FrameOfAsked[arm.on[2] + 1][2] ELSE String
Resume ==
    /\ status = "select"
    /\ \E i \in DOMAIN Asked.arms :
         LET arm == Asked.arms[i]
         IN  IF arm.bind = <<>> THEN Resumes(<<>>, <<>>, arm.next) /\ UNCHANGED got
             ELSE /\ Len(got) < MaxMessages
                  /\ \E type \in Abs!ArrivalTypes(AwaitedType(arm), BoundType(arm.bind[1])) :
                     \E payload \in Deliveries[type] :
                        LET v == Abs!Arriving(type, payload, Len(got) + 1)
                        IN  /\ Resumes(arm.bind, <<v>>, arm.next)
                            /\ got' = Append(got, v)
    /\ UNCHANGED <<program, fiber, code, heap, queues, sent>>

\* The runtime creates all primitives or none.
CreateErrorsOf == Abs!CreateErrors(Asked.kinds, Asked.names)
CreateSucceeds ==
    LET binds == Asked.arm.binds
        ids == Abs!CreatedIds(Asked.kinds, Asked.names, Len(got))
    IN  /\ status = "create" /\ ~ Abs!Failed(CreateErrorsOf)
        /\ queues' = queues \union Abs!CreatedQueues(Asked.kinds, Asked.names)
        /\ IF DOMAIN binds \subseteq DOMAIN ids
           THEN Resumes(binds, [i \in DOMAIN binds |-> <<Asked.arm.kinds[i], ids[i]>>],
                        Asked.arm.success)
           ELSE status' = "corrupt" /\ request' = <<>> /\ UNCHANGED stack
        /\ UNCHANGED <<program, fiber, code, heap, got, sent>>
CreateFails ==
    LET binds == Asked.arm.fail_binds
        errors == CreateErrorsOf
    IN  /\ status = "create" /\ Abs!Failed(errors)
        /\ Resumes(binds, [i \in DOMAIN binds |->
              <<Option(String), IF i \in DOMAIN errors THEN errors[i] ELSE <<>>>>],
                   Asked.arm.fail)
        /\ UNCHANGED <<program, fiber, code, heap, queues, got, sent>>
\* Fiber::new: the prepared stack of main and the init_vars in the heap.
PrepareMain(f) ==
    LET frame == code[f].main.frame
    IN  <<<<"Retrn", <<1>>>>>>
          \o [i \in DOMAIN frame |->
                ValueOf(frame[i][1], frame[i][2], Abs!DefaultOf(frame[i][2]))]
          \o <<<<"State", <<f, "main", "entry">>>>>>

PrepareHeap(in_vars) == [in_vars |-> in_vars, binarySearchValues |-> <<>>]

Init ==
    /\ program \in Accepted
    /\ fiber \in DOMAIN Programs[program].fibers
    /\ code = CodeOf[program]
    /\ stack = PrepareMain(fiber)
    /\ \E in_vars \in InitVars[fiber] : heap = PrepareHeap(in_vars)
    /\ status = "running" /\ request = <<>>
    /\ queues \in Taken /\ got = <<>> /\ sent = <<>>

RunStep == \/ RunGoTo \/ RunBranch \/ RunAssign \/ RunBlockCode
           \/ RunCall \/ RunOutOfMemory \/ RunReturn \/ RunReturnBlock \/ RunReturnVoid \/ RunDone \/ RunPanics
           \/ RunSetValues \/ RunCreateFibers \/ RunSelect \/ RunCreate
Next == RunStep \/ Resume \/ CreateSucceeds \/ CreateFails

Spec == Init /\ [][Next]_vars
\* run is a loop that ends only by returning to the runtime.
FairSpec == Spec /\ WF_vars(RunStep)

----------------------------------------------------------------------------
\* The shape of the state.
FiberTypeOK ==
    /\ program \in DOMAIN Programs /\ fiber \in DOMAIN code
    /\ \A k \in DOMAIN stack :
         \/ /\ stack[k][1] = "State"
            /\ stack[k][2][3] \in DOMAIN code[stack[k][2][1]][stack[k][2][2]].steps
         \/ stack[k][1] = "Retrn" /\ Len(stack[k][2]) <= 1
         \/ stack[k][1] = "Value" /\ Len(stack[k][3]) = 2
    /\ status \in {"running", "select", "create", "done", "overflow", "corrupt",
                   "no_memory"}
    /\ Len(request) = (IF status \in {"select", "create"} THEN 1 ELSE 0)

\* The steps is_valid accepts that cannot be carried out.  A Let of what is no
\* local and a Create or CreateFibers of what is no slot fall back to slot 0
\* (codegen.rs:1462, 1275, 1239).
FallsBack(f, s) ==
    CASE s.op = "Let" -> \A v \in Range(f.locals) : v[1] # s.local
      [] s.op = "Create" -> \E p \in Range(s.primitives) :
                               p.kind # "Future" /\ ~ Owns(f, p.var)
      [] s.op = "CreateFibers" -> \E d \in Range(s.details) :
                                     \E x \in Range(d.init_vars) : ~ Owns(f, x)
      [] OTHER -> FALSE
\* A Call is left out where its function does not exist (codegen.rs:957), and
\* its response where the bound variable is no slot (925).
CallDropped(f, s) ==
    /\ s.op = "Call"
    /\ \/ s.target[2] \notin DOMAIN Programs[program].fibers[s.target[1]].funcs
       \/ s.bind # <<>> /\ ~ Owns(f, s.bind[1])
\* What the runtime answers is bound by name, whatever its type, and
\* assign_local finds no init_var (fiber.rs:107).
Misbinds(f, s) ==
    LET Wrong(arm) == /\ arm.bind # <<>>
                      /\ \/ ~ Owns(f, arm.bind[1])
                         \/ /\ Owns(f, arm.on) /\ TypeOf(f, arm.on)[1] = "Future"
                            /\ TypeOf(f, arm.on)[2] # TypeOf(f, arm.bind[1])
    IN  CASE s.op = "Select" -> \E arm \in Range(s.arms) : Wrong(arm)
          [] s.op = "Create" -> \E x \in Range(s.id_binds \o s.error_binds) :
                                   ~ Owns(f, x)
          [] OTHER -> FALSE
OverlookedStep ==
    /\ AtState
    /\ LET f == Abs!FuncOf(<<Here[1], Here[2]>>)
       IN  \E s \in {f.steps[id] : id \in DOMAIN f.steps \cap {Here[3]}} :
              FallsBack(f, s) \/ CallDropped(f, s)
HasMistypedStep ==
    \E f \in Range(Programs[program].fibers[fiber].funcs) :
        \E s \in Range(f.steps) : FallsBack(f, s) \/ Misbinds(f, s)

\* A fiber of a program that IR::is_valid accepts panics on its stack only
\* because of a step is_valid is known to overlook, or of a message of another
\* type than the variable it is bound to: otherwise there is no slot of
\* another type than the arm unpacks, no missing Retrn, unknown fiber or id
\* without a primitive (fiber.rs:156, 200; runtime.rs:328).  What it resolves
\* a future with is of the type of that future.
AcceptedNeverCorrupt ==
    /\ status = "corrupt" =>
         HasMistypedStep \/ \E i \in DOMAIN got : got[i][1] = Abs!Foreign
    /\ \A i \in DOMAIN sent : sent[i][1] = "Future" =>
         \A k \in DOMAIN stack :
            (/\ stack[k][1] = "Value" /\ stack[k][3][1][1] = "Future"
             /\ stack[k][3][2] = sent[i][2]) => stack[k][3][1][2] = sent[i][3][1]

\* The checked-in generated file is what codegen makes of the sample IR: the
\* arm a fiber is about to run is the one rendered from its step.
Rendered == Generate(SampleIR)
GeneratedIsCurrent ==
    (program = "sample" /\ AtState) => Fn = Rendered[Here[1]][Here[2]]

\* The flat stack is a sequence of whole frames: every State has its
\* function's variables below it, by name and in order, then a Retrn, and
\* below that the State its caller goes on from; a Retrn that carries an
\* offset points at a variable of that caller.
StackWellFramed ==
    \A k \in DOMAIN stack : stack[k][1] = "State" =>
        LET frame == code[stack[k][2][1]][stack[k][2][2]].frame
            low == k - Len(frame) - 1
        IN  /\ low >= 1 /\ stack[low][1] = "Retrn"
            /\ \A i \in DOMAIN frame : /\ stack[low + i][1] = "Value"
                                        /\ stack[low + i][2] = frame[i][1]
            /\ low > 1 =>
                 /\ stack[low - 1][1] = "State"
                 /\ stack[low][2] # <<>> =>
                      LET caller == code[stack[low - 1][2][1]]
                                                   [stack[low - 1][2][2]].frame
                      IN  stack[low][2][1] \in 2 .. Len(caller) + 1

\* What is_valid accepts runs on a sound stack: whole frames, a request for the
\* runtime exactly while parked, and every slot of the type its arm unpacks,
\* unless a step that is_valid overlooks or a message of a foreign type has
\* spoilt it.
StackSound == FiberTypeOK /\ StackWellFramed /\ AcceptedNeverCorrupt

\* Every service fiber answers the messages it took, each on the future that
\* came with it, in the order they came, with the right answer, and has
\* answered all of them when it waits again or ends (ir_spec.rs: the blocks
\* of testCalculator, testInfiniteSummator, testCreateQueue and
\* testTaskExecutorIncrementer).
AnswerTo(m) ==
    CASE m[1] \in {Custom("TestCalculatorTask"),
                   Custom("TestInfiniteSummatorQueueMessage")} ->
            <<UInt64, m[2].a * m[2].b>>
      [] m[1] = Custom("TestCreateQueueMessage") -> <<UInt64, m[2].value + 2>>
      [] m[1] = Custom("TestIncrementTask") ->
            <<m[1], [m[2] EXCEPT !.in_str_value = @ + 1]>>
FutureIn(m) == m[2][CHOOSE f \in DOMAIN m[2] : f \in Abs!IdFields]
AnswersRequests ==
    LET asked == SelectSeq(got, LAMBDA m : m[1][1] = "Custom")
        answers == SelectSeq(sent, LAMBDA e : e[1] = "Future")
    IN  /\ Len(answers) <= Len(asked)
        /\ \A i \in DOMAIN answers :
             answers[i] = <<"Future", FutureIn(asked[i]), AnswerTo(asked[i])>>
        /\ status \in {"select", "done"} => Len(answers) = Len(asked)

\* When testFunctionsCall finishes, its variables hold the product, the
\* factorial, and a position of the target in the array or None if it has
\* none.  No search for an absent target finishes, and none that has to go to
\* the right of a middle: they overflow, leave the array or recurse until the
\* memory is full.
Product(n) == FoldLeft(LAMBDA x, y : x * y, 1, [i \in 1 .. n |-> i])
ResultsRight ==
    (AtState /\ Here = <<"testFunctionsCall", "main", "finish">>) =>
        LET v == Visible
        IN  /\ v.multResult = v.multa * v.multb
            /\ v.factorialResult = Product(v.factorialStart)
            /\ IF v.binarySearchResult = <<>>
               THEN v.binarySearchTarget \notin Range(v.binarySearchArray)
               ELSE v.binarySearchArray[v.binarySearchResult[1] + 1] = v.binarySearchTarget

\* Fibers that finish computed what they are for: services answer every
\* message on its own future, and calls and recursion give the right results.
AnswersRight == AnswersRequests /\ ResultsRight

\* What the fiber does on its stack is what its IR says: names for slots,
\* calls for Retrn offsets, the same heap, messages and effects, for every
\* step but those that is_valid overlooks and those that end in a panic.
Died == status \in {"overflow", "corrupt", "no_memory"}
FollowsIr ==
    Abs!IrInit /\ [][Died' \/ OverlookedStep \/ Abs!IrNext]_<<FramesOf, heap, status, queues,
                                                            got, sent>>


\* "local variable into which response will be written" (dsl/src/ir.rs:70):
\* when binary_search calls itself, the call before it, of add or of sub,
\* has written its response into left or into right.
ResponsesBound ==
    (AtState /\ Here = <<"testFunctionsCall", "binary_search", "recursive_call">>) =>
        Visible.left = Visible.div + 1 \/ Visible.right + 1 = Visible.div
====
