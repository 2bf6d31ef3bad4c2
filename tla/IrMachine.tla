---- MODULE IrMachine ----
(***************************************************************************)
(* What an IR program means (the Step variants of dsl/src/ir.rs): a fiber  *)
(* is a stack of calls, each with the step it is at and its variables by   *)
(* name.  FiberMachine, which runs the generated code over one flat stack  *)
(* of slots and offsets, implements this.                                  *)
(*                                                                         *)
(* A value is <<type, payload>>; a future id and a queue name is a string. *)
(***************************************************************************)
EXTENDS SampleIr, SequencesExt, TLC

CONSTANTS Programs,     \* the IRs, by name
          Deliveries    \* the payloads that may arrive, by type

VARIABLES program, fiber, frames, heap, status, queues, got, sent

vars == <<program, fiber, frames, heap, status, queues, got, sent>>

\* What a wrapper of type t holds before anything is written to it.
DefaultOf(t) ==
    LET Plain(u) == CASE u = UInt64 -> 0
                      [] u = Bool -> FALSE
                      [] u[1] \in {"Option", "Array"} -> <<>>
                      [] OTHER -> ""
        fields == UNION {Range(d.fields) : d \in {c \in Range(SampleTypes) :
                                                   t = Custom(c.name)}}
    IN  IF t[1] = "Custom"
        THEN [n \in {x[1] : x \in fields} |->
                Plain((CHOOSE x \in fields : x[1] = n)[2])]
        ELSE Plain(t)
Default(t) == <<t, DefaultOf(t)>>

\* Messages and futures carry the id to answer on: a fresh one per delivery.
IdFields == {"public_future_id", "response_future_id", "in_str_resp_future_id"}
Stamped(payload, id) == [f \in DOMAIN payload |->
                            IF f \in IdFields THEN id ELSE payload[f]]
Arriving(t, payload, n) ==
    <<t, IF t[1] = "Custom" THEN Stamped(payload, "p" \o ToString(n)) ELSE payload>>

\* What an await resolves to.  A typed future says it.  A queue, or a future
\* known by its name, holds what its senders put there, which nothing compares
\* with the variable it is bound to: a value of that variable's type, or one
\* of a type no step expects.
Foreign == <<"Foreign">>
ArrivalTypes(awaited, bound) ==
    IF awaited[1] = "Future" THEN {awaited[2]} ELSE {bound, Foreign}

\* Which primitives of a Create fail: a queue that exists or is asked for
\* twice.  ids are what the successful ones are known by.
CreateErrors(kinds, names) ==
    [i \in DOMAIN kinds |->
        IF kinds[i] = "Queue" /\ (\/ names[i] \in queues
                                  \/ \E j \in 1 .. i - 1 : /\ kinds[j] = "Queue"
                                                           /\ names[j] = names[i])
        THEN <<"already_exists">> ELSE <<>>]
CreatedIds(kinds, names, n) ==
    [i \in DOMAIN kinds |-> IF kinds[i] = "Queue" THEN names[i]
                            ELSE "c" \o ToString(n + i)]
Failed(errors) == \E i \in DOMAIN errors : errors[i] # <<>>
CreatedQueues(kinds, names) == {names[i] : i \in {k \in DOMAIN kinds : kinds[k] = "Queue"}}

----------------------------------------------------------------------------
IR == Programs[program]
FuncOf(ref) == IR.fibers[ref[1]].funcs[ref[2]]
Top == Last(frames)
\* The step the fiber is at; where there is none the IR says nothing.
S == LET steps == FuncOf(Top.func).steps
     IN  IF Top.at \in DOMAIN steps THEN steps[Top.at] ELSE [op |-> "none"]
Declared(f) == f.in_vars \o f.locals
Owned(ref) == {Declared(FuncOf(ref))[i][1] : i \in DOMAIN Declared(FuncOf(ref))}
DeclaredType(ref, x) == VarsMap(IR.fibers[ref[1]], FuncOf(ref))[x]
Env == [x \in DOMAIN VarsMap(IR.fibers[fiber], FuncOf(Top.func)) |->
          IF x \in Owned(Top.func) THEN Top.vars[x][2] ELSE heap.in_vars[x]]

RECURSIVE Meaning(_, _)
Meaning(e, env) ==
    CASE e[1] = "Var" -> env[e[2]]
      [] e[1] \in {"UInt64", "Str", "Bool"} -> e[2]
      [] e[1] = "Equal" -> Meaning(e[2], env) = Meaning(e[3], env)
      [] e[1] = "Greater" -> Meaning(e[2], env) > Meaning(e[3], env)
      [] e[1] = "Less" -> Meaning(e[2], env) < Meaning(e[3], env)
      [] e[1] = "Some" -> <<Meaning(e[2], env)>>
      [] e[1] = "None" -> <<>>

\* The top call goes on at `next' with some variables assigned.
Moved(frame, assigned, next) ==
    [frame EXCEPT !.at = next,
                  !.vars = [x \in DOMAIN @ |-> IF x \in DOMAIN assigned
                                               THEN assigned[x] ELSE @[x]]]
GoOn(assigned, next) ==
    frames' = Append(Front(frames), Moved(Top, assigned, next))
Value(x, payload) == <<DeclaredType(Top.func, x), payload>>
Doing(op) == status = "running" /\ frames # <<>> /\ S.op = op
\* A later binding of the same name wins.
Bound(names, values) ==
    [x \in Range(names) |->
        values[CHOOSE i \in DOMAIN names : /\ names[i] = x
                                           /\ \A j \in DOMAIN names :
                                                names[j] = x => j <= i]]

IrDebug == /\ Doing("Debug") \/ Doing("DebugPrintVars")
           /\ GoOn(<<>>, S.next)
           /\ UNCHANGED <<program, fiber, heap, status, queues, got, sent>>
IrIf == /\ Doing("If")
        /\ GoOn(<<>>, IF Meaning(S.cond, Env) THEN S.then ELSE S.else)
        /\ UNCHANGED <<program, fiber, heap, status, queues, got, sent>>
IrLet == /\ Doing("Let")
         /\ GoOn([x \in {S.local} |-> Value(x, Meaning(S.expr, Env))], S.next)
         /\ UNCHANGED <<program, fiber, heap, status, queues, got, sent>>
IrBlock ==
    /\ Doing("RustBlock")
    /\ GoOn([x \in Range(S.binds) |->
                Value(x, RunBlock(S.code, Env, heap)
                            [CHOOSE i \in DOMAIN S.binds : S.binds[i] = x])],
            S.next)
    /\ heap' = HeapAfter(S.code, Env, heap)
    /\ UNCHANGED <<program, fiber, status, queues, got, sent>>
IrCall ==
    LET callee == FuncOf(S.target)
        Given(i) == IF i \in DOMAIN S.args
                    THEN <<callee.in_vars[i][2], Meaning(S.args[i], Env)>>
                    ELSE Default(Declared(callee)[i][2])
    IN  /\ Doing("Call")
        /\ S.target[2] \in DOMAIN IR.fibers[S.target[1]].funcs
        /\ frames' = Append(Append(Front(frames), Moved(Top, <<>>, S.next)),
              [func |-> S.target, at |-> "entry", bind |-> S.bind,
               vars |-> [x \in Owned(S.target) |->
                           Given(CHOOSE i \in DOMAIN Declared(callee) :
                                    Declared(callee)[i][1] = x)]])
        /\ UNCHANGED <<program, fiber, heap, status, queues, got, sent>>

\* A call returns: the caller, already at the step behind its Call, binds
\* the value if it wants it.
Returned(value) ==
    LET rest == Front(frames)
    IN  IF rest = <<>> THEN <<>>
        ELSE Append(Front(rest),
                    Moved(Last(rest),
                          IF Top.bind = <<>> THEN <<>>
                          ELSE [x \in {Top.bind[1]} |-> value],
                          Last(rest).at))
IrReturn ==
    /\ Doing("Return")
    /\ frames' = Returned(<<FuncOf(Top.func).out, Meaning(S.value, Env)>>)
    /\ UNCHANGED <<program, fiber, heap, status, queues, got, sent>>
IrReturnVoid ==
    /\ Doing("ReturnVoid")
    /\ frames' = Returned(<<Void, "">>)
    /\ UNCHANGED <<program, fiber, heap, status, queues, got, sent>>
\* A block and the Return of what it computed, in one step.
IrBlockReturn ==
    /\ Doing("RustBlock") /\ Len(S.binds) = 1
    /\ FuncOf(Top.func).steps[S.next] = Return(Var(S.binds[1]))
    /\ frames' = Returned(<<FuncOf(Top.func).out,
                            RunBlock(S.code, Env, heap)[1]>>)
    /\ UNCHANGED <<program, fiber, heap, status, queues, got, sent>>

\* Steps that leave the fiber: an await and a Create wait for the runtime.
IrSelect == /\ Doing("Select") /\ status' = "select"
            /\ UNCHANGED <<program, fiber, frames, heap, queues, got, sent>>
IrSetValues ==
    /\ Doing("SetValues")
    /\ GoOn(<<>>, S.next)
    /\ sent' = sent \o [i \in DOMAIN S.values |->
          <<S.values[i].kind, Env[S.values[i].on],
            Value(S.values[i].var, Env[S.values[i].var])>>]
    /\ UNCHANGED <<program, fiber, heap, status, queues, got>>
IrCreateFibers ==
    /\ Doing("CreateFibers")
    /\ GoOn(<<>>, S.next)
    /\ sent' = sent \o [i \in DOMAIN S.details |->
          <<"Fiber", S.details[i].f_name,
            [k \in DOMAIN S.details[i].init_vars |->
                Value(S.details[i].init_vars[k], Env[S.details[i].init_vars[k]])]>>]
    /\ UNCHANGED <<program, fiber, heap, status, queues, got>>
IrStartCreate == /\ Doing("Create") /\ status' = "create"
                 /\ UNCHANGED <<program, fiber, frames, heap, queues, got, sent>>

IrCreated ==
    LET kinds == [i \in DOMAIN S.primitives |-> S.primitives[i].kind]
        names == [i \in DOMAIN S.primitives |->
                    IF kinds[i] = "Future" THEN "" ELSE Env[S.primitives[i].var]]
        errors == CreateErrors(kinds, names)
        ids == CreatedIds(kinds, names, Len(got))
    IN  /\ status = "create" /\ status' = "running"
        /\ IF Failed(errors)
           THEN /\ GoOn(Bound(S.error_binds,
                        [i \in DOMAIN S.error_binds |-> <<Option(String), errors[i]>>]),
                        S.fail)
                /\ UNCHANGED queues
           ELSE /\ GoOn(Bound(S.id_binds,
                        [i \in DOMAIN S.id_binds |->
                            Value(S.id_binds[i], ids[i])]), S.success)
                /\ queues' = queues \union CreatedQueues(kinds, names)
        /\ UNCHANGED <<program, fiber, heap, got, sent>>
IrAwaited ==
    /\ status = "select" /\ status' = "running"
    /\ \E i \in DOMAIN S.arms :
         LET arm == S.arms[i]
         IN  IF arm.bind = <<>>
             THEN GoOn(<<>>, arm.next) /\ UNCHANGED got
             ELSE \E type \in ArrivalTypes(DeclaredType(Top.func, arm.on),
                                         DeclaredType(Top.func, arm.bind[1])) :
                  \E payload \in Deliveries[type] :
                    LET v == Arriving(type, payload, Len(got) + 1)
                    IN  /\ GoOn([x \in {arm.bind[1]} |-> v], arm.next)
                        /\ got' = Append(got, v)
    /\ UNCHANGED <<program, fiber, heap, queues, sent>>
IrEnd == /\ status = "running" /\ frames = <<>> /\ status' = "done"
         /\ UNCHANGED <<program, fiber, frames, heap, queues, got, sent>>

IrInit ==
    /\ frames = <<[func |-> <<fiber, "main">>, at |-> "entry", bind |-> <<>>,
                   vars |-> [x \in Owned(<<fiber, "main">>) |->
                               Default(DeclaredType(<<fiber, "main">>, x))]]>>
    /\ status = "running" /\ got = <<>> /\ sent = <<>>

IrNext == \/ IrDebug \/ IrIf \/ IrLet \/ IrBlock \/ IrCall \/ IrReturn
          \/ IrReturnVoid \/ IrBlockReturn \/ IrSelect \/ IrSetValues
          \/ IrCreateFibers \/ IrStartCreate \/ IrCreated \/ IrAwaited \/ IrEnd

IrSpec == IrInit /\ [][IrNext]_vars
====
