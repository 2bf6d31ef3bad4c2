---- MODULE Assembler ----
(***************************************************************************)
(* generated/src/maroon_assembler.rs: the functions as the runtime        *)
(* executes them.  A function is its frame (the Value entries func_args_   *)
(* count expects below its State, with the names and types its prepare     *)
(* function pushes) and one arm of global_step per State variant.          *)
(*                                                                         *)
(* An arm first unpacks the slots in `reads' (a slot that does not hold    *)
(* the type of its variable ends in unreachable!) and then builds the      *)
(* StepResult in `op'.  Slots count from 0 as vars[i] does.                *)
(***************************************************************************)
EXTENDS Ir

Slot(i) == <<"Slot", i>>
InVar(x) == <<"InVar", x>>
StringAt(i) == <<"StringAt", i>>   \* a slot unpacked as a String

\* The StepResults.
GoTo(reads, next) == [op |-> "GoTo", reads |-> reads, next |-> next]
Branch(reads, cond, then, else) ==
    [op |-> "Branch", reads |-> reads, cond |-> cond, then |-> then, else |-> else]
\* Next with one FrameAssign of an expression, or of what a block computes.
Assign(reads, slot, type, expr, next) ==
    [op |-> "Assign", reads |-> reads, slot |-> slot, type |-> type, expr |-> expr,
     next |-> next]
Block(reads, code, slots, next) ==
    [op |-> "Block", reads |-> reads, code |-> code, slots |-> slots, next |-> next]
\* Next with a return state, a Retrn, the callee's values and its entry.
CallNext(reads, ret, retrn, values, callee) ==
    [op |-> "CallNext", reads |-> reads, ret |-> ret, retrn |-> retrn,
     values |-> values, callee |-> callee]
ReturnExpr(reads, value) == [op |-> "ReturnExpr", reads |-> reads, value |-> value]
ReturnBlock(reads, code, type) ==
    [op |-> "ReturnBlock", reads |-> reads, code |-> code, type |-> type]
ReturnUnit == [op |-> "ReturnUnit", reads |-> {}]
Park(reads, arms) == [op |-> "Park", reads |-> reads, arms |-> arms]
QueueArm(on, bind, next) ==
    [kind |-> "Queue", on |-> on, bind |-> <<bind>>, next |-> next]
FutureArm(on, bind, next) ==
    [kind |-> "Future", on |-> on, bind |-> bind, next |-> next]
CreateAll(reads, primitives, success, binds, kinds, fail, fail_binds) ==
    [op |-> "CreateAll", reads |-> reads, primitives |-> primitives,
     success |-> success, binds |-> binds, kinds |-> kinds,
     fail |-> fail, fail_binds |-> fail_binds]
Primitive(kind, on) == [kind |-> kind, on |-> on]
SetAll(reads, values, next) ==
    [op |-> "SetAll", reads |-> reads, values |-> values, next |-> next]
SetTo(kind, on, value) == [kind |-> kind, on |-> on, value |-> value]
Spawn(reads, details, next) ==
    [op |-> "Spawn", reads |-> reads, details |-> details, next |-> next]
Dbg(next) == [op |-> "Dbg", reads |-> {}, next |-> next]

Code(frame, out, steps) == [frame |-> frame, out |-> out, steps |-> steps]

----------------------------------------------------------------------------
RootFrame == <<>>
RootCode == Code(RootFrame, Void,
    [entry |-> Spawn({}, <<<<"testInfiniteSummator", <<>>>>>>, "return"),
     return |-> ReturnUnit])

CalculatorFrame ==
    <<<<"request", Custom("TestCalculatorTask")>>, <<"result", UInt64>>,
      <<"respFutureId", Future(UInt64)>>>>
CalculatorCode == Code(CalculatorFrame, Void,
    [entry |-> Dbg("select_queue"),
     calculate |-> Block({0, 1, 2}, "a*b of task", <<1, 2>>, "response"),
     debug_gotten_task |-> Dbg("debug_vars"),
     debug_vars |-> Dbg("calculate"),
     response |-> SetAll({1, 2}, <<SetTo("Future", Slot(2), Slot(1))>>, "return"),
     return |-> ReturnUnit,
     select_queue |-> Park({}, <<QueueArm(InVar("calculationRequestsQueueName"),
                                          "request", "debug_gotten_task")>>)])

CreateQueueFrame ==
    <<<<"value", Custom("TestCreateQueueMessage")>>, <<"f_queueName", String>>,
      <<"created_queue_name", String>>,
      <<"f_queueCreationError", Option(String)>>,
      <<"f_future_id_response", Future(UInt64)>>, <<"f_res_inc", UInt64>>>>
CreateQueueCode == Code(CreateQueueFrame, Void,
    [entry |-> Assign({}, 1, String, Str("randomQueueName"), "wrong_queue_creation"),
     answer |-> SetAll({4, 5}, <<SetTo("Future", Slot(4), Slot(5))>>, "return"),
     await_on_queue |-> Park({2}, <<QueueArm(Slot(2), "value",
                                             "extract_fut_and_inc")>>),
     clean_up |-> Block(0..5, "clean_up", <<2, 3>>, "correct_creation"),
     correct_creation |-> CreateAll({1}, <<Primitive("Queue", Slot(1))>>,
        "debug_vars_2", <<"created_queue_name">>, <<String>>,
        "return", <<"f_queueCreationError">>),
     debug_vars |-> Dbg("clean_up"),
     debug_vars_2 |-> Dbg("await_on_queue"),
     debug_vars_3 |-> Dbg("answer"),
     extract_fut_and_inc |-> Block(0..5, "value+2", <<4, 5>>, "debug_vars_3"),
     return |-> ReturnUnit,
     wrong_queue_creation |-> CreateAll({1},
        <<Primitive("Queue", Slot(1)), Primitive("Queue", Slot(1))>>,
        "return", <<"created_queue_name", "created_queue_name">>,
        <<String, String>>,
        "debug_vars", <<"f_queueCreationError", "f_queueCreationError">>)])

BinarySearchFrame ==
    <<<<"e", UInt64>>, <<"left", UInt64>>, <<"right", UInt64>>,
      <<"div", UInt64>>, <<"v_by_index_div", UInt64>>,
      <<"fac_call_res", Option(UInt64)>>>>
BinarySearchCode == Code(BinarySearchFrame, Option(UInt64),
    [entry |-> Branch({0, 1, 2}, Greater(Slot(1), Slot(2)), "return_None",
                      "calculate_div"),
     calculate_div |-> Block(0..5, "middle", <<3, 4>>, "return_if_equal"),
     cmp_less |-> Branch({0, 4}, Less(Slot(4), Slot(0)), "go_right",
                         "go_left_check_overflow"),
     go_left |-> CallNext({3}, "recursive_call", <<5>>,
        <<<<"a", Slot(3)>>, <<"b", Num(1)>>, <<"sub", Num(0)>>>>,
        <<"testFunctionsCall", "sub">>),
     go_left_check_overflow |-> Branch({3}, Less(Slot(3), Num(0)),
                                       "return_None", "go_left"),
     go_right |-> GoTo({3}, "recursive_call"),
     recursive_call |-> CallNext({0, 1, 2}, "return_result", <<2>>,
        <<<<"e", Slot(0)>>, <<"left", Slot(1)>>, <<"right", Slot(2)>>,
          <<"div", Num(0)>>, <<"v_by_index_div", Num(0)>>,
          <<"fac_call_res", RetNone>>>>,
        <<"testFunctionsCall", "binary_search">>),
     return_None |-> ReturnExpr({}, RetNone),
     return_found |-> ReturnExpr({3}, RetSome(Slot(3))),
     return_if_equal |-> Branch({0, 4}, Equal(Slot(4), Slot(0)),
                                "return_found", "cmp_less"),
     return_result |-> ReturnExpr({5}, Slot(5))])

FactorialFrame ==
    <<<<"n", UInt64>>, <<"fac_call_res", UInt64>>, <<"subtract_res", UInt64>>,
      <<"result", UInt64>>>>
FactorialCode == Code(FactorialFrame, UInt64,
    [entry |-> Branch({0}, Equal(Slot(0), Num(1)), "return_1", "subtract"),
     factorial_call |-> CallNext({2}, "multiply", <<4>>,
        <<<<"n", Slot(2)>>, <<"fac_call_res", Num(0)>>,
          <<"subtract_res", Num(0)>>, <<"result", Num(0)>>>>,
        <<"testFunctionsCall", "factorial">>),
     multiply |-> CallNext({0, 1}, "return", <<2>>,
        <<<<"a", Slot(0)>>, <<"b", Slot(1)>>, <<"mult", Num(0)>>>>,
        <<"testFunctionsCall", "mult">>),
     return |-> ReturnExpr({3}, Slot(3)),
     return_1 |-> ReturnExpr({}, Num(1)),
     subtract |-> CallNext({0}, "factorial_call", <<3>>,
        <<<<"a", Slot(0)>>, <<"b", Num(1)>>, <<"sub", Num(0)>>>>,
        <<"testFunctionsCall", "sub">>)])

FunctionsCallMainFrame ==
    <<<<"multResult", UInt64>>, <<"factorialResult", UInt64>>,
      <<"binarySearchResult", Option(UInt64)>>,
      <<"binarySearchLeft", UInt64>>, <<"binarySearchRight", UInt64>>>>
FunctionsCallMainCode == Code(FunctionsCallMainFrame, Void,
    [entry |-> Dbg("multiply"),
     after_binary |-> Dbg("finish"),
     after_factorial |-> Dbg("set_b_search_values"),
     after_multiply |-> Dbg("factorial"),
     binary_search |-> CallNext({3, 4}, "after_binary", <<4>>,
        <<<<"e", InVar("binarySearchTarget")>>, <<"left", Slot(3)>>,
          <<"right", Slot(4)>>, <<"div", Num(0)>>,
          <<"v_by_index_div", Num(0)>>, <<"fac_call_res", RetNone>>>>,
        <<"testFunctionsCall", "binary_search">>),
     factorial |-> CallNext({}, "after_factorial", <<5>>,
        <<<<"n", InVar("factorialStart")>>, <<"fac_call_res", Num(0)>>,
          <<"subtract_res", Num(0)>>, <<"result", Num(0)>>>>,
        <<"testFunctionsCall", "factorial">>),
     finish |-> ReturnUnit,
     multiply |-> CallNext({}, "after_multiply", <<6>>,
        <<<<"a", InVar("multa")>>, <<"b", InVar("multb")>>, <<"mult", Num(0)>>>>,
        <<"testFunctionsCall", "mult">>),
     set_b_search_values |-> Block(0..4, "set values", <<3, 4>>,
                                   "binary_search")])

MultFrame ==
    <<<<"a", UInt64>>, <<"b", UInt64>>, <<"mult", UInt64>>>>
MultCode == Code(MultFrame, UInt64,
    [entry |-> ReturnBlock({0, 1, 2}, "a*b", UInt64)])

SubFrame ==
    <<<<"a", UInt64>>, <<"b", UInt64>>, <<"sub", UInt64>>>>
SubCode == Code(SubFrame, UInt64,
    [entry |-> ReturnBlock({0, 1, 2}, "a-b", UInt64)])

SummatorFrame ==
    <<<<"infiniteCalculatorQueue", String>>,
      <<"request", Custom("TestInfiniteSummatorQueueMessage")>>,
      <<"result", UInt64>>, <<"createQueueError", Option(String)>>,
      <<"respFutureId", Future(UInt64)>>>>
SummatorCode == Code(SummatorFrame, Void,
    [entry |-> Assign({}, 0, String, Str("testInfiniteCalculatorQueue"), "create_queue"),
     calculate |-> Block(0..4, "a*b of message", <<2, 4>>, "response"),
     create_queue |-> CreateAll({0}, <<Primitive("Queue", Slot(0))>>,
        "select_queue", <<"infiniteCalculatorQueue">>, <<String>>,
        "return", <<"createQueueError">>),
     response |-> SetAll({2, 4}, <<SetTo("Future", Slot(4), Slot(2))>>,
                         "select_queue"),
     return |-> ReturnUnit,
     select_queue |-> Park({0}, <<QueueArm(Slot(0), "request", "calculate")>>)])

TestRootFrame ==
    <<<<"rootQueueName", String>>,
      <<"calculatorTask", Custom("TestCalculatorTask")>>,
      <<"calculatorTask2", Custom("TestCalculatorTask")>>,
      <<"responseFutureId", Future(UInt64)>>,
      <<"responseFutureId2", Future(UInt64)>>,
      <<"responseFromCalculator", String>>,
      <<"responseFromCalculator2", String>>,
      <<"createQueueError", Option(String)>>,
      <<"createFutureError", Option(String)>>,
      <<"createFutureError2", Option(String)>>>>
TestRootCode == Code(TestRootFrame, Void,
    [entry |-> Assign({}, 0, String, Str("rootQueue"), "create_queueues"),
     await_response |-> Park({4}, <<FutureArm(Slot(4),
        <<"responseFromCalculator">>, "await_response_2")>>),
     await_response_2 |-> Park({3}, <<FutureArm(Slot(3),
        <<"responseFromCalculator2">>, "return_dbg")>>),
     create_fiber |-> Spawn({0}, <<<<"testCalculator", <<Slot(0)>>>>,
                                   <<"testCalculator", <<Slot(0)>>>>>>,
                            "create_future"),
     create_future |-> CreateAll({},
        <<Primitive("Future", <<>>), Primitive("Future", <<>>)>>,
        "prepareCalculationRequests", <<"responseFutureId", "responseFutureId2">>,
        <<Future(UInt64), Future(UInt64)>>,
        "return_dbg", <<"createFutureError", "createFutureError2">>),
     create_queueues |-> CreateAll({0}, <<Primitive("Queue", Slot(0))>>,
        "create_fiber", <<"rootQueueName">>, <<String>>,
        "return_dbg", <<"createQueueError">>),
     prepareCalculationRequests |-> Block(0..9, "two tasks", <<1, 2>>,
                                          "send_calculation_request"),
     return |-> ReturnUnit,
     return_dbg |-> Dbg("return"),
     send_calculation_request |-> SetAll({0, 1, 2},
        <<SetTo("Queue", Slot(0), Slot(1)), SetTo("Queue", Slot(0), Slot(2))>>,
        "await_response")])

SleepFrame ==
    <<<<"scheduledFutId", Future(Void)>>, <<"createScheduleError", Option(String)>>,
      <<"await_milliseconds", UInt64>>>>
SleepCode == Code(SleepFrame, Void,
    [entry |-> Assign({}, 2, UInt64, Num(150), "create_primitives"),
     create_primitives |-> CreateAll({}, <<Primitive("Schedule", Slot(2))>>,
        "seelect", <<"scheduledFutId">>, <<Future(Void)>>,
        "return_dbg", <<"createScheduleError">>),
     return |-> ReturnUnit,
     return_dbg |-> Dbg("return"),
     seelect |-> Park({0}, <<FutureArm(Slot(0), <<>>, "return_dbg")>>)])

SelectQueueFrame ==
    <<<<"counter", UInt64>>, <<"responseFromFut", UInt64>>,
      <<"counterStartQueueName", String>>, <<"futureId", String>>,
      <<"isThree", Bool>>>>
SelectQueueCode == Code(SelectQueueFrame, Void,
    [entry |-> Assign({}, 2, String, Str("counterStartQueue"), "init_future_id"),
     compare |-> Branch({4}, Slot(4), "return", "start_work"),
     inc_from_fut |-> Block(0..4, "responseFromFut-1", <<0>>, "prepare_cond"),
     init_future_id |-> Assign({}, 3, String, Str("testSelectQueue_future_1"),
                               "select_counter"),
     prepare_cond |-> Assign({0}, 4, Bool, Equal(Slot(0), Num(3)), "compare"),
     return |-> ReturnUnit,
     select_counter |-> Park({2, 3}, <<
        QueueArm(Slot(2), "counter", "start_work"),
        FutureArm(Slot(3), <<"responseFromFut">>, "inc_from_fut")>>),
     start_work |-> Block(0..4, "counter+1", <<0>>, "prepare_cond")])

IncrementerFrame ==
    <<<<"f_task", Custom("TestIncrementTask")>>,
      <<"f_respFutureId", Future(Custom("TestIncrementTask"))>>,
      <<"f_respQueueName", String>>, <<"f_tasksQueueName", String>>>>
IncrementerCode == Code(IncrementerFrame, Void,
    [entry |-> Dbg("init_queue_name"),
     await |-> Park({3}, <<QueueArm(Slot(3), "f_task", "increment")>>),
     debug2 |-> Dbg("debug_vars2"),
     debug_vars |-> Dbg("await"),
     debug_vars2 |-> Dbg("return_result"),
     increment |-> Block(0..3, "increment", <<0, 2, 1>>, "debug2"),
     init_queue_name |-> Block(0..3, "in_taskQueueName", <<3>>, "debug_vars"),
     return |-> ReturnUnit,
     return_result |-> SetAll({0, 1, 2},
        <<SetTo("Future", Slot(1), Slot(0)), SetTo("Queue", Slot(2), Slot(0))>>,
        "return")])

\* get_prepare_fn and global_step dispatch over these.
Assembler ==
    [root |-> [main |-> RootCode],
     testSelectQueue |-> [main |-> SelectQueueCode],
     testTaskExecutorIncrementer |-> [main |-> IncrementerCode],
     testCreateQueue |-> [main |-> CreateQueueCode],
     testRootFiber |-> [main |-> TestRootCode],
     testCalculator |-> [main |-> CalculatorCode],
     testRootFiberSleepTest |-> [main |-> SleepCode],
     testInfiniteSummator |-> [main |-> SummatorCode],
     testFunctionsCall |-> [main |-> FunctionsCallMainCode, mult |-> MultCode,
                            sub |-> SubCode, factorial |-> FactorialCode,
                            binary_search |-> BinarySearchCode]]
====
