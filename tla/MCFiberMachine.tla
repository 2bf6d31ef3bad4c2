---- MODULE MCFiberMachine ----
\* The sample programs, programs with one mistake that is_valid has to refuse
\* or is known to overlook, and small inputs for TLC.
EXTENDS FiberMachine

In(f, funcs) == [SampleIR EXCEPT !.fibers[f].funcs = funcs]
Main(f, steps) == [SampleIR EXCEPT !.fibers[f].funcs.main.steps = steps]
StepsOf(f) == SampleIR.fibers[f].funcs.main.steps

\* One fiber on its own, beside a root that does nothing.
Idle == FiberDef(<<>>, [main |-> Func(<<>>, Void, <<>>, [entry |-> ReturnVoid])])
Alone(f, fiber_def) ==
    [SampleIR EXCEPT !.fibers = "root" :> Idle @@ f :> fiber_def]
\* A fiber with an init_var and steps of its own.
WithInitVar(steps) ==
    Alone("testCalculator",
          FiberDef(SampleIR.fibers["testCalculator"].init_vars,
                   [main |-> Func(<<>>, Void,
                       <<<<"answer", Future(UInt64)>>, <<"name", String>>,
                         <<"error", Option(String)>>>>,
                       [return |-> ReturnVoid] @@ steps)]))
InitVarName == "calculationRequestsQueueName"
LetParam ==
    [SampleIR.fibers["testFunctionsCall"] EXCEPT
        !.funcs["main"].steps["multiply"].args = @ \o <<BoolLit(TRUE)>>,
        !.funcs["factorial"].steps["multiply"].args = @ \o <<BoolLit(TRUE)>>,
        !.funcs["mult"].in_vars = @ \o <<<<"c", Bool>>>>,
        !.funcs["mult"].steps =
            [entry |-> Let("c", BoolLit(FALSE), "multiply"), multiply |-> @["entry"],
             return |-> @["return"]]]

MCPrograms ==
    [sample |-> SampleIR,
     call_bind |-> Main("testFunctionsCall", [StepsOf("testFunctionsCall")
        EXCEPT !.multiply.bind = <<"binarySearchResult">>]),
     few_args |-> [SampleIR EXCEPT
        !.fibers["testFunctionsCall"].funcs["factorial"].steps["subtract"].args = <<Var("n")>>],
     id_bind |-> Main("testInfiniteSummator", [StepsOf("testInfiniteSummator")
        EXCEPT !.create_queue.id_binds = <<"createQueueError">>]),
     more_ids |-> Main("testInfiniteSummator", [StepsOf("testInfiniteSummator")
        EXCEPT !.create_queue.id_binds = @ \o @]),
     error_bind |-> Main("testCreateQueue", [StepsOf("testCreateQueue")
        EXCEPT !.wrong_queue_creation.error_binds = <<"f_res_inc", "f_res_inc">>]),
     unknown_fiber |-> Main("root", [StepsOf("root")
        EXCEPT !.entry.details = <<NewFiber("nobody", <<>>)>>]),
     schedule |-> Main("testRootFiberSleepTest", [StepsOf("testRootFiberSleepTest")
        EXCEPT !.create_primitives.primitives = <<NewSchedule("createScheduleError")>>]),
     set_future |-> Main("testInfiniteSummator", [StepsOf("testInfiniteSummator")
        EXCEPT !.response.values = <<SetFuture("respFutureId", "infiniteCalculatorQueue")>>]),
     no_entry |-> [SampleIR EXCEPT
        !.fibers["testFunctionsCall"].funcs["mult"].steps = [return |-> Return(Var("mult"))]],
     let_param |-> Alone("testFunctionsCall", LetParam),
     create_init_var |-> WithInitVar([entry |->
        Create(<<NewQueue(InitVarName)>>, "return", <<"name">>, "return", <<"error">>)]),
     spawn_init_var |-> WithInitVar([entry |->
        CreateFibers(<<NewFiber("testCalculator", <<InitVarName>>)>>, "return")]),
     await_init_var |-> WithInitVar([entry |->
        Select(<<AwaitQueue(InitVarName, InitVarName, "return")>>)]),
     await_bind |-> WithInitVar(
        [entry |-> Create(<<NewFuture>>, "await", <<"answer">>, "return", <<"error">>),
         await |-> Select(<<AwaitFuture("answer", <<"name">>, "use")>>),
         use |-> If(Equal(Var("name"), Str("")), "return", "return")])]

\* Searches for each element and for absent ones, an empty array and
\* factorial(0).
Call3(n, array, target) ==
    [multa |-> 3, multb |-> 5, factorialStart |-> n,
     binarySearchArray |-> array, binarySearchTarget |-> target]
Nothing == {[none |-> 0]}
MCInitVars ==
    [f \in DOMAIN SampleIR.fibers |->
        CASE f = "testFunctionsCall" ->
                {Call3(n, <<2, 4, 6, 8>>, t) : n \in {1, 2, 5}, t \in {2, 4}}
                  \union {Call3(1, <<2, 4, 6, 8>>, t) : t \in {3, 6, 8}}
                  \union {Call3(0, <<2>>, 2), Call3(1, <<>>, 2), Call3(1, <<2, 4>>, 1)}
          [] f = "testCalculator" -> {[calculationRequestsQueueName |-> "rootQueue"]}
          [] f = "testTaskExecutorIncrementer" -> {[in_taskQueueName |-> "tasks"]}
          [] OTHER -> Nothing]

MCTaken == {{}, {"randomQueueName", "rootQueue", "testInfiniteCalculatorQueue"}}

MCDeliveries ==
    UInt64 :> {0, 1, 2}
    @@ <<"Foreign">> :> {""}
    @@ Custom("TestCalculatorTask") :> [a : {2, 3}, b : {0, 4}, response_future_id : {""}]
    @@ Custom("TestInfiniteSummatorQueueMessage") :>
          [a : {2, 3}, b : {0, 4}, public_future_id : {""}]
    @@ Custom("TestCreateQueueMessage") :> [value : {0, 7}, public_future_id : {""}]
    @@ Custom("TestIncrementTask") :>
          [in_str_value : {0, 3}, in_str_resp_future_id : {""},
           in_str_resp_queue_name : {"answers"}]
====
