---- MODULE SampleIr ----
(***************************************************************************)
(* sample_ir(), the programs the repository generates its fibers from      *)
(* (runtime/src/ir_spec.rs).  The body of a RustBlock is named by what it  *)
(* computes; RunBlock gives its meaning.                                   *)
(***************************************************************************)
EXTENDS Ir, Integers

\* root starts the one service fiber.
RootFiber ==
  FiberDef(<<>>, [main |-> Func(<<>>, Void, <<>>,
    [entry |-> CreateFibers(<<NewFiber("testInfiniteSummator", <<>>)>>, "return"),
     return |-> ReturnVoid])])

\* testSelectQueue waits for a message or a future, then counts to three.
SelectQueueFiber ==
  FiberDef(<<>>, [main |-> Func(<<>>, Void,
    <<<<"counter", UInt64>>, <<"responseFromFut", UInt64>>,
      <<"counterStartQueueName", String>>, <<"futureId", String>>,
      <<"isThree", Bool>>>>,
    [entry |-> Let("counterStartQueueName", Str("counterStartQueue"),
                   "init_future_id"),
     init_future_id |-> Let("futureId", Str("testSelectQueue_future_1"),
                            "select_counter"),
     select_counter |-> Select(<<
        AwaitQueue("counterStartQueueName", "counter", "start_work"),
        AwaitFuture("futureId", <<"responseFromFut">>, "inc_from_fut")>>),
     inc_from_fut |-> RustBlock(<<"counter">>, "responseFromFut-1",
                                "prepare_cond"),
     start_work |-> RustBlock(<<"counter">>, "counter+1", "prepare_cond"),
     prepare_cond |-> Let("isThree", Equal(Var("counter"), Num(3)), "compare"),
     compare |-> If(Var("isThree"), "return", "start_work"),
     return |-> ReturnVoid])])

\* testTaskExecutorIncrementer answers one task on a future and on a queue.
IncrementerFiber ==
  FiberDef(<<<<"in_taskQueueName", String>>>>, [main |-> Func(<<>>, Void,
    <<<<"f_task", Custom("TestIncrementTask")>>,
      <<"f_respFutureId", Future(Custom("TestIncrementTask"))>>,
      <<"f_respQueueName", String>>, <<"f_tasksQueueName", String>>>>,
    [entry |-> Debug("init_queue_name"),
     init_queue_name |-> RustBlock(<<"f_tasksQueueName">>, "in_taskQueueName",
                                   "debug_vars"),
     debug_vars |-> DebugPrintVars("await"),
     await |-> Select(<<AwaitQueue("f_tasksQueueName", "f_task", "increment")>>),
     increment |-> RustBlock(<<"f_task", "f_respQueueName", "f_respFutureId">>,
                             "increment", "debug2"),
     debug2 |-> Debug("debug_vars2"),
     debug_vars2 |-> DebugPrintVars("return_result"),
     return_result |-> SetValues(<<SetFuture("f_respFutureId", "f_task"),
                                   SetQueue("f_respQueueName", "f_task")>>,
                                 "return"),
     return |-> ReturnVoid])])

\* testCreateQueue asks for the same queue twice, then once, and answers the
\* first message.
CreateQueueFiber ==
  FiberDef(<<>>, [main |-> Func(<<>>, Void,
    <<<<"value", Custom("TestCreateQueueMessage")>>, <<"f_queueName", String>>,
      <<"created_queue_name", String>>,
      <<"f_queueCreationError", Option(String)>>,
      <<"f_future_id_response", Future(UInt64)>>, <<"f_res_inc", UInt64>>>>,
    [entry |-> Let("f_queueName", Str("randomQueueName"), "wrong_queue_creation"),
     wrong_queue_creation |-> Create(
        <<NewQueue("f_queueName"), NewQueue("f_queueName")>>,
        "return", <<"created_queue_name", "created_queue_name">>,
        "debug_vars", <<"f_queueCreationError", "f_queueCreationError">>),
     debug_vars |-> DebugPrintVars("clean_up"),
     clean_up |-> RustBlock(<<"created_queue_name", "f_queueCreationError">>,
                            "clean_up", "correct_creation"),
     correct_creation |-> Create(<<NewQueue("f_queueName")>>,
        "debug_vars_2", <<"created_queue_name">>,
        "return", <<"f_queueCreationError">>),
     debug_vars_2 |-> DebugPrintVars("await_on_queue"),
     await_on_queue |-> Select(<<
        AwaitQueue("created_queue_name", "value", "extract_fut_and_inc")>>),
     extract_fut_and_inc |-> RustBlock(<<"f_future_id_response", "f_res_inc">>,
                                       "value+2", "debug_vars_3"),
     debug_vars_3 |-> DebugPrintVars("answer"),
     answer |-> SetValues(<<SetFuture("f_future_id_response", "f_res_inc")>>,
                          "return"),
     return |-> ReturnVoid])])

\* testRootFiber starts two calculators and waits for both answers, the
\* second one first.
TestRootFiber ==
  FiberDef(<<>>, [main |-> Func(<<>>, Void,
    <<<<"rootQueueName", String>>,
      <<"calculatorTask", Custom("TestCalculatorTask")>>,
      <<"calculatorTask2", Custom("TestCalculatorTask")>>,
      <<"responseFutureId", Future(UInt64)>>,
      <<"responseFutureId2", Future(UInt64)>>,
      <<"responseFromCalculator", String>>,
      <<"responseFromCalculator2", String>>,
      <<"createQueueError", Option(String)>>,
      <<"createFutureError", Option(String)>>,
      <<"createFutureError2", Option(String)>>>>,
    [entry |-> Let("rootQueueName", Str("rootQueue"), "create_queueues"),
     create_queueues |-> Create(<<NewQueue("rootQueueName")>>,
        "create_fiber", <<"rootQueueName">>,
        "return_dbg", <<"createQueueError">>),
     create_fiber |-> CreateFibers(
        <<NewFiber("testCalculator", <<"rootQueueName">>),
          NewFiber("testCalculator", <<"rootQueueName">>)>>, "create_future"),
     create_future |-> Create(<<NewFuture, NewFuture>>,
        "prepareCalculationRequests", <<"responseFutureId", "responseFutureId2">>,
        "return_dbg", <<"createFutureError", "createFutureError2">>),
     prepareCalculationRequests |-> RustBlock(
        <<"calculatorTask", "calculatorTask2">>, "two tasks",
        "send_calculation_request"),
     send_calculation_request |-> SetValues(
        <<SetQueue("rootQueueName", "calculatorTask"),
          SetQueue("rootQueueName", "calculatorTask2")>>, "await_response"),
     await_response |-> Select(<<AwaitFuture("responseFutureId2",
        <<"responseFromCalculator">>, "await_response_2")>>),
     await_response_2 |-> Select(<<AwaitFuture("responseFutureId",
        <<"responseFromCalculator2">>, "return_dbg")>>),
     return_dbg |-> DebugPrintVars("return"),
     return |-> ReturnVoid])])

\* testCalculator multiplies once.
CalculatorFiber ==
  FiberDef(<<<<"calculationRequestsQueueName", String>>>>,
   [main |-> Func(<<>>, Void,
    <<<<"request", Custom("TestCalculatorTask")>>, <<"result", UInt64>>,
      <<"respFutureId", Future(UInt64)>>>>,
    [entry |-> DebugPrintVars("select_queue"),
     select_queue |-> Select(<<AwaitQueue("calculationRequestsQueueName",
                                          "request", "debug_gotten_task")>>),
     debug_gotten_task |-> Debug("debug_vars"),
     debug_vars |-> DebugPrintVars("calculate"),
     calculate |-> RustBlock(<<"result", "respFutureId">>, "a*b of task",
                             "response"),
     response |-> SetValues(<<SetFuture("respFutureId", "result")>>, "return"),
     return |-> ReturnVoid])])

\* testRootFiberSleepTest waits for a timer.
SleepFiber ==
  FiberDef(<<>>, [main |-> Func(<<>>, Void,
    <<<<"scheduledFutId", Future(Void)>>,
      <<"createScheduleError", Option(String)>>,
      <<"await_milliseconds", UInt64>>>>,
    [entry |-> Let("await_milliseconds", Num(150), "create_primitives"),
     create_primitives |-> Create(<<NewSchedule("await_milliseconds")>>,
        "seelect", <<"scheduledFutId">>,
        "return_dbg", <<"createScheduleError">>),
     seelect |-> Select(<<AwaitFuture("scheduledFutId", <<>>, "return_dbg")>>),
     return_dbg |-> DebugPrintVars("return"),
     return |-> ReturnVoid])])

\* testInfiniteSummator answers messages for ever.
SummatorFiber ==
  FiberDef(<<>>, [main |-> Func(<<>>, Void,
    <<<<"infiniteCalculatorQueue", String>>,
      <<"request", Custom("TestInfiniteSummatorQueueMessage")>>,
      <<"result", UInt64>>, <<"createQueueError", Option(String)>>,
      <<"respFutureId", Future(UInt64)>>>>,
    [entry |-> Let("infiniteCalculatorQueue",
                   Str("testInfiniteCalculatorQueue"), "create_queue"),
     create_queue |-> Create(<<NewQueue("infiniteCalculatorQueue")>>,
        "select_queue", <<"infiniteCalculatorQueue">>,
        "return", <<"createQueueError">>),
     select_queue |-> Select(<<AwaitQueue("infiniteCalculatorQueue",
                                          "request", "calculate")>>),
     calculate |-> RustBlock(<<"result", "respFutureId">>, "a*b of message",
                             "response"),
     response |-> SetValues(<<SetFuture("respFutureId", "result")>>,
                            "select_queue"),
     return |-> ReturnVoid])])

----------------------------------------------------------------------------
\* testFunctionsCall: main and the functions it calls.
Local(func) == <<"testFunctionsCall", func>>

FunctionsCallMain == Func(<<>>, Void,
    <<<<"multResult", UInt64>>, <<"factorialResult", UInt64>>,
      <<"binarySearchResult", Option(UInt64)>>,
      <<"binarySearchLeft", UInt64>>, <<"binarySearchRight", UInt64>>>>,
    [entry |-> DebugPrintVars("multiply"),
     multiply |-> Call(Local("mult"), <<Var("multa"), Var("multb")>>,
                       <<"multResult">>, "after_multiply"),
     after_multiply |-> DebugPrintVars("factorial"),
     factorial |-> Call(Local("factorial"), <<Var("factorialStart")>>,
                        <<"factorialResult">>, "after_factorial"),
     after_factorial |-> DebugPrintVars("set_b_search_values"),
     set_b_search_values |-> RustBlock(
        <<"binarySearchLeft", "binarySearchRight">>, "set values",
        "binary_search"),
     binary_search |-> Call(Local("binary_search"),
        <<Var("binarySearchTarget"), Var("binarySearchLeft"),
          Var("binarySearchRight")>>, <<"binarySearchResult">>, "after_binary"),
     after_binary |-> DebugPrintVars("finish"),
     finish |-> ReturnVoid])

Mult == Func(<<<<"a", UInt64>>, <<"b", UInt64>>>>, UInt64, <<<<"mult", UInt64>>>>,
    [entry |-> RustBlock(<<"mult">>, "a*b", "return"),
     return |-> Return(Var("mult"))])

Sub == Func(<<<<"a", UInt64>>, <<"b", UInt64>>>>, UInt64, <<<<"sub", UInt64>>>>,
    [entry |-> RustBlock(<<"sub">>, "a-b", "return"),
     return |-> Return(Var("sub"))])

Factorial == Func(<<<<"n", UInt64>>>>, UInt64,
    <<<<"fac_call_res", UInt64>>, <<"subtract_res", UInt64>>,
      <<"result", UInt64>>>>,
    [entry |-> If(Equal(Var("n"), Num(1)), "return_1", "subtract"),
     return_1 |-> Return(Num(1)),
     subtract |-> Call(Local("sub"), <<Var("n"), Num(1)>>, <<"subtract_res">>,
                       "factorial_call"),
     factorial_call |-> Call(Local("factorial"), <<Var("subtract_res")>>,
                             <<"fac_call_res">>, "multiply"),
     multiply |-> Call(Local("mult"), <<Var("n"), Var("fac_call_res")>>,
                       <<"result">>, "return"),
     return |-> Return(Var("result"))])

BinarySearch == Func(
    <<<<"e", UInt64>>, <<"left", UInt64>>, <<"right", UInt64>>>>, Option(UInt64),
    <<<<"div", UInt64>>, <<"v_by_index_div", UInt64>>,
      <<"fac_call_res", Option(UInt64)>>>>,
    [entry |-> If(Greater(Var("left"), Var("right")), "return_None",
                  "calculate_div"),
     return_None |-> Return(RetNone),
     calculate_div |-> RustBlock(<<"div", "v_by_index_div">>, "middle",
                                 "return_if_equal"),
     return_if_equal |-> If(Equal(Var("v_by_index_div"), Var("e")),
                            "return_found", "cmp_less"),
     return_found |-> Return(RetSome(Var("div"))),
     cmp_less |-> If(Less(Var("v_by_index_div"), Var("e")), "go_right",
                     "go_left_check_overflow"),
     go_right |-> Call(Local("add"), <<Var("div"), Num(1)>>, <<"left">>,
                       "recursive_call"),
     go_left_check_overflow |-> If(Less(Var("div"), Num(0)), "return_None",
                                   "go_left"),
     go_left |-> Call(Local("sub"), <<Var("div"), Num(1)>>, <<"right">>,
                      "recursive_call"),
     recursive_call |-> Call(Local("binary_search"),
        <<Var("e"), Var("left"), Var("right")>>, <<"fac_call_res">>,
        "return_result"),
     return_result |-> Return(Var("fac_call_res"))])

FunctionsCallFiber ==
  FiberDef(<<<<"multa", UInt64>>, <<"multb", UInt64>>,
             <<"factorialStart", UInt64>>, <<"binarySearchArray", Array(UInt64)>>,
             <<"binarySearchTarget", UInt64>>>>,
           [main |-> FunctionsCallMain, mult |-> Mult, sub |-> Sub,
            factorial |-> Factorial, binary_search |-> BinarySearch])

----------------------------------------------------------------------------
\* The blocks: from the variables in scope (and, for the last two, the heap)
\* to the values they return.
CountFromFuture(v) == <<v.responseFromFut - 1>>
CountUp(v) == <<v.counter + 1>>
TaskQueueName(v) == <<v.in_taskQueueName>>
Increment(v) ==
    LET task == [v.f_task EXCEPT !.in_str_value = @ + 1]
    IN  <<task, task.in_str_resp_queue_name, task.in_str_resp_future_id>>
CleanUp == <<"", <<>>>>
PlusTwo(v) == <<v.value.public_future_id, v.value.value + 2>>
TwoTasks(v) ==
    <<[a |-> 10, b |-> 15, response_future_id |-> v.responseFutureId],
      [a |-> 2, b |-> 4, response_future_id |-> v.responseFutureId2]>>
MultiplyTask(v) == <<v.request.a * v.request.b, v.request.response_future_id>>
\* Mutant: a sum for a product.
AddMessage(v) == <<v.request.a + v.request.b, v.request.public_future_id>>
MultiplyMessage(v) == <<v.request.a * v.request.b, v.request.public_future_id>>
SetValuesAndBounds(v) == <<0, Len(v.binarySearchArray) - 1>>
Middle(v, values) ==
    LET div == (v.left + v.right) \div 2 IN <<div, values[div + 1]>>

\* What a block returns and the heap it leaves; an index behind the end of
\* the array panics.
BlockPanics(code, v, heap) ==
    code = "middle" /\ (v.left + v.right) \div 2 >= Len(heap.binarySearchValues)

RunBlock(code, v, heap) ==
    CASE code = "responseFromFut-1" -> CountFromFuture(v)
      [] code = "counter+1" -> CountUp(v)
      [] code = "in_taskQueueName" -> TaskQueueName(v)
      [] code = "increment" -> Increment(v)
      [] code = "clean_up" -> CleanUp
      [] code = "value+2" -> PlusTwo(v)
      [] code = "two tasks" -> TwoTasks(v)
      [] code = "a*b of task" -> MultiplyTask(v)
      [] code = "a*b of message" -> MultiplyMessage(v)
      [] code = "set values" -> SetValuesAndBounds(v)
      [] code = "middle" -> Middle(v, heap.binarySearchValues)
      [] code = "a*b" -> <<v.a * v.b>>
      [] code = "a-b" -> <<v.a - v.b>>

HeapAfter(code, v, heap) ==
    IF code = "set values"
    THEN [heap EXCEPT !.binarySearchValues = v.binarySearchArray] ELSE heap

----------------------------------------------------------------------------
\* The declared structs and public queue messages.
SampleTypes == <<
    [kind |-> "Struct", name |-> "TestIncrementTask",
     fields |-> <<<<"in_str_value", UInt64>>, <<"in_str_resp_future_id", String>>,
                  <<"in_str_resp_queue_name", String>>>>],
    [kind |-> "PubQueueMessage", name |-> "TestCreateQueueMessage",
     fields |-> <<<<"value", UInt64>>, <<"public_future_id", Future(UInt64)>>>>],
    [kind |-> "Struct", name |-> "TestCalculatorTask",
     fields |-> <<<<"a", UInt64>>, <<"b", UInt64>>,
                  <<"response_future_id", Future(UInt64)>>>>],
    [kind |-> "PubQueueMessage", name |-> "TestInfiniteSummatorQueueMessage",
     fields |-> <<<<"a", UInt64>>, <<"b", UInt64>>,
                  <<"public_future_id", Future(UInt64)>>>>]>>

SampleIR ==
    [types |-> SampleTypes,
     fibers |-> [root |-> RootFiber,
                 testSelectQueue |-> SelectQueueFiber,
                 testTaskExecutorIncrementer |-> IncrementerFiber,
                 testCreateQueue |-> CreateQueueFiber,
                 testRootFiber |-> TestRootFiber,
                 testCalculator |-> CalculatorFiber,
                 testRootFiberSleepTest |-> SleepFiber,
                 testInfiniteSummator |-> SummatorFiber,
                 testFunctionsCall |-> FunctionsCallFiber]]
====
