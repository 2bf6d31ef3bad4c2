---- MODULE Ir ----
(***************************************************************************)
(* The intermediate representation of fibers (dsl/src/ir.rs): types,       *)
(* expressions, steps and functions as data, and IR::is_valid, the check   *)
(* that the repository's test runs over the sample programs before code    *)
(* is generated from them.                                                 *)
(*                                                                         *)
(* A type, an expression and a returned value is a tuple that starts with  *)
(* its variant; a step is a record with its variant in `op'.  Vec is a     *)
(* sequence, HashMap a function, Option<X> is <<>> or <<x>>, and a step    *)
(* id, a variable name and a FuncRef <<fiber, func>> are what they name.   *)
(***************************************************************************)
EXTENDS Naturals, Sequences, Functions

\* Types.
UInt64 == <<"UInt64">>
String == <<"String">>
Bool == <<"Bool">>
Void == <<"Void">>
Array(t) == <<"Array", t>>
Option(t) == <<"Option", t>>
Future(t) == <<"Future", t>>
Custom(name) == <<"Custom", name>>

\* Expressions; the first three are also the literals a Return may hold.
Num(n) == <<"UInt64", n>>
Str(s) == <<"Str", s>>
BoolLit(b) == <<"Bool", b>>
Var(x) == <<"Var", x>>
Equal(a, b) == <<"Equal", a, b>>
Greater(a, b) == <<"Greater", a, b>>
Less(a, b) == <<"Less", a, b>>
IsSome(e) == <<"IsSome", e>>
Unwrap(e) == <<"Unwrap", e>>
GetField(e, field) == <<"GetField", e, field>>
StructUpdate(base, updates) == <<"StructUpdate", base, updates>>

\* Returned values: a literal, a variable, Some of one, or None.
RetSome(value) == <<"Some", value>>
RetNone == <<"None">>

\* Steps.
Call(target, args, bind, ret_to) ==
    [op |-> "Call", target |-> target, args |-> args, bind |-> bind,
     next |-> ret_to]
Return(value) == [op |-> "Return", value |-> value]
ReturnVoid == [op |-> "ReturnVoid"]
If(cond, then, else) ==
    [op |-> "If", cond |-> cond, then |-> then, else |-> else]
Let(local, expr, next) ==
    [op |-> "Let", local |-> local, expr |-> expr, next |-> next]
RustBlock(binds, code, next) ==
    [op |-> "RustBlock", binds |-> binds, code |-> code, next |-> next]
Select(arms) == [op |-> "Select", arms |-> arms]
SetValues(values, next) ==
    [op |-> "SetValues", values |-> values, next |-> next]
Create(primitives, success, id_binds, fail, error_binds) ==
    [op |-> "Create", primitives |-> primitives,
     success |-> success, id_binds |-> id_binds,
     fail |-> fail, error_binds |-> error_binds]
CreateFibers(details, next) ==
    [op |-> "CreateFibers", details |-> details, next |-> next]
Debug(next) == [op |-> "Debug", next |-> next]
DebugPrintVars(next) == [op |-> "DebugPrintVars", next |-> next]

\* The arms of a Select, the targets of SetValues, the primitives of Create
\* and the fibers of CreateFibers.
AwaitQueue(queue_name, message_var, next) ==
    [kind |-> "Queue", on |-> queue_name, bind |-> <<message_var>>,
     next |-> next]
AwaitFuture(future_id, bind, ret_to) ==
    [kind |-> "Future", on |-> future_id, bind |-> bind, next |-> ret_to]
SetFuture(f_var, var) == [kind |-> "Future", on |-> f_var, var |-> var]
SetQueue(f_var, var) == [kind |-> "Queue", on |-> f_var, var |-> var]
NewFuture == [kind |-> "Future"]
NewQueue(name) == [kind |-> "Queue", var |-> name]
NewSchedule(ms_var) == [kind |-> "Schedule", var |-> ms_var]
NewFiber(f_name, init_vars) ==
    [f_name |-> f_name, init_vars |-> init_vars]

\* Vars is a sequence of <<name, type>>.
Func(in_vars, out, locals, steps) ==
    [in_vars |-> in_vars, out |-> out, locals |-> locals, steps |-> steps]
FiberDef(init_vars, funcs) == [init_vars |-> init_vars, funcs |-> funcs]

----------------------------------------------------------------------------
\* vars_map: the parameters and locals of a function, and behind them the
\* init_vars of its fiber.
VarsMap(fiber, f) ==
    LET Typed(vars) ==
            [x \in {vars[i][1] : i \in DOMAIN vars} |->
                vars[CHOOSE i \in DOMAIN vars : vars[i][1] = x][2]]
        own == Typed(f.in_vars \o f.locals)
        init == Typed(fiber.init_vars)
    IN  [x \in DOMAIN own \union DOMAIN init |->
            IF x \in DOMAIN own THEN own[x] ELSE init[x]]

\* No parameter or local is declared twice.
NoDuplicates(f) == IsInjective([i \in DOMAIN (f.in_vars \o f.locals) |->
                                  (f.in_vars \o f.locals)[i][1]])

\* resolve_struct_field_type: <<type>> of a field, or <<>>.
FieldType(ir, t, field) ==
    LET found == {d \in Range(ir.types) :
                     /\ t = Custom(d.name)
                     /\ \E i \in DOMAIN d.fields : d.fields[i][1] = field}
    IN  IF found = {} THEN <<>>
        ELSE LET d == CHOOSE d \in found : TRUE
             IN  <<d.fields[CHOOSE i \in DOMAIN d.fields :
                              d.fields[i][1] = field][2]>>

\* infer_expr_type: <<type>>, or <<>> where it cannot be inferred.
RECURSIVE InferExprType(_, _, _)
InferExprType(ir, e, vars) ==
    LET inner == InferExprType(ir, e[2], vars)
    IN  CASE e[1] = "UInt64" -> <<UInt64>>
          [] e[1] = "Str" -> <<String>>
          [] e[1] = "Var" -> IF e[2] \in DOMAIN vars THEN <<vars[e[2]]>>
                                                     ELSE <<>>
          [] e[1] \in {"Bool", "Equal", "Greater", "Less", "IsSome"} -> <<Bool>>
          [] e[1] = "Unwrap" -> IF inner # <<>> /\ inner[1][1] = "Option"
                                THEN <<inner[1][2]>> ELSE <<>>
          [] e[1] = "GetField" -> IF inner = <<>> THEN <<>>
                                  ELSE FieldType(ir, inner[1], e[3])
          [] e[1] = "StructUpdate" -> inner

\* collect_vars_from_expr: every variable of the expression is in scope.
RECURSIVE InScope(_, _)
InScope(e, vars) ==
    CASE e[1] \in {"UInt64", "Str", "Bool"} -> TRUE
      [] e[1] = "Var" -> e[2] \in DOMAIN vars
      [] e[1] \in {"Equal", "Greater", "Less"} ->
            InScope(e[2], vars) /\ InScope(e[3], vars)
      [] e[1] \in {"IsSome", "Unwrap", "GetField"} -> InScope(e[2], vars)
      [] e[1] = "StructUpdate" ->
            /\ InScope(e[2], vars)
            /\ \A i \in DOMAIN e[3] : InScope(e[3][i][2], vars)

\* Where both types are known they are the same.
Matches(t, inferred) == inferred = <<>> \/ t = inferred[1]

----------------------------------------------------------------------------
\* The checks of uses_correct_variables, one operator per kind of step.
CreateFibersOK(ir, s, vars) ==
    \A i \in DOMAIN s.details :
        LET d == s.details[i]
        IN  /\ d.f_name \in DOMAIN ir.fibers
            /\ LET wanted == ir.fibers[d.f_name].init_vars
               IN  /\ Len(d.init_vars) = Len(wanted)
                   /\ \A k \in DOMAIN d.init_vars :
                        /\ d.init_vars[k] \in DOMAIN vars
                        /\ k \in DOMAIN wanted =>
                             vars[d.init_vars[k]] = wanted[k][2]

\* Mutant: the type of the variable a result is bound to is not compared.
CallOKUntyped(ir, s, vars) ==
    /\ \A i \in DOMAIN s.args : InScope(s.args[i], vars)
    /\ s.bind # <<>> => s.bind[1] \in DOMAIN vars
    /\ (/\ s.target[1] \in DOMAIN ir.fibers
        /\ s.target[2] \in DOMAIN ir.fibers[s.target[1]].funcs) =>
         Len(ir.fibers[s.target[1]].funcs[s.target[2]].in_vars) = Len(s.args)
\* A callee that does not exist is not an error here.
CallOK(ir, s, vars) ==
    /\ \A i \in DOMAIN s.args : InScope(s.args[i], vars)
    /\ s.bind # <<>> => s.bind[1] \in DOMAIN vars
    /\ (/\ s.target[1] \in DOMAIN ir.fibers
        /\ s.target[2] \in DOMAIN ir.fibers[s.target[1]].funcs) =>
         LET callee == ir.fibers[s.target[1]].funcs[s.target[2]]
         IN  /\ Len(callee.in_vars) = Len(s.args)
             /\ \A i \in DOMAIN s.args : i \in DOMAIN callee.in_vars =>
                    Matches(callee.in_vars[i][2],
                            InferExprType(ir, s.args[i], vars))
             /\ (s.bind # <<>> /\ s.bind[1] \in DOMAIN vars) =>
                    vars[s.bind[1]] = callee.out

\* infer_ret_value_type and return_type_compatible.
RECURSIVE InferRetValueType(_, _)
InferRetValueType(value, vars) ==
    CASE value[1] = "None" -> <<Option(Void)>>
      [] value[1] = "Some" ->
            LET inner == InferRetValueType(value[2], vars)
            IN  IF inner = <<>> THEN <<>> ELSE <<Option(inner[1])>>
      [] value[1] = "Var" -> IF value[2] \in DOMAIN vars
                             THEN <<vars[value[2]]>> ELSE <<>>
      [] value[1] = "UInt64" -> <<UInt64>>
      [] value[1] = "Str" -> <<String>>
      [] value[1] = "Bool" -> <<Bool>>

ReturnOK(f, s, vars) ==
    LET inferred == InferRetValueType(s.value, vars)
    IN  /\ s.value[1] = "Var" => s.value[2] \in DOMAIN vars
        /\ s.value[1] = "Some" => inferred # <<>>
        /\ \/ s.value[1] \in {"None", "Some"} /\ f.out[1] = "Option"
           \/ Matches(f.out, inferred)

IfOK(ir, s, vars) ==
    LET cond == InferExprType(ir, s.cond, vars)
        left == InferExprType(ir, s.cond[2], vars)
        right == InferExprType(ir, s.cond[3], vars)
    IN  /\ InScope(s.cond, vars)
        /\ Matches(Bool, cond)
        /\ (s.cond[1] \in {"Equal", "Greater", "Less"} /\ left # <<>> /\ right # <<>>) =>
              /\ left[1][1] = right[1][1]
              /\ s.cond[1] # "Equal" => left[1] = UInt64

LetOK(ir, s, vars) ==
    /\ s.local \in DOMAIN vars
    /\ InScope(s.expr, vars)
    /\ Matches(vars[s.local], InferExprType(ir, s.expr, vars))

\* What a Select binds is not compared with what arrives, and an init_var of
\* any fiber passes for a queue name.
SelectOK(ir, s, vars) ==
    \A i \in DOMAIN s.arms :
        LET arm == s.arms[i]
        IN  /\ arm.bind # <<>> => arm.bind[1] \in DOMAIN vars
            /\ arm.kind = "Queue" =>
                 IF arm.on \in DOMAIN vars THEN vars[arm.on] = String
                 ELSE \E fiber \in Range(ir.fibers) :
                        \E k \in DOMAIN fiber.init_vars :
                            fiber.init_vars[k][1] = arm.on

SetValuesOK(s, vars) ==
    \A i \in DOMAIN s.values :
        LET v == s.values[i]
        IN  /\ {v.on, v.var} \subseteq DOMAIN vars
            /\ IF v.kind = "Queue" THEN vars[v.on] = String
                                   ELSE vars[v.on] = Future(vars[v.var])

\* The variable an id is bound to fits the primitive, the one for the error
\* is an Option<String>, and what the primitive reads has its type.
CreateOK(s, vars) ==
    LET Fits(p, t) == CASE p.kind = "Queue" -> t = String
                        [] p.kind = "Future" -> t[1] = "Future"
                        [] p.kind = "Schedule" -> t = Future(Void)
    IN  /\ Len(s.id_binds) = Len(s.primitives)
        /\ Len(s.error_binds) = Len(s.primitives)
        /\ \A i \in DOMAIN s.primitives :
             LET p == s.primitives[i]
             IN  /\ s.id_binds[i] \in DOMAIN vars /\ Fits(p, vars[s.id_binds[i]])
                 /\ s.error_binds[i] \in DOMAIN vars
                 /\ vars[s.error_binds[i]] = Option(String)
                 /\ p.kind = "Queue" =>
                      p.var \in DOMAIN vars /\ vars[p.var] = String
                 /\ p.kind = "Schedule" =>
                      p.var \in DOMAIN vars /\ vars[p.var] = UInt64

UsesCorrectVariables(ir, fiber, f) ==
    LET vars == VarsMap(fiber, f)
    IN  /\ NoDuplicates(f)
        /\ \A id \in DOMAIN f.steps :
             LET s == f.steps[id]
             IN  CASE s.op = "CreateFibers" -> CreateFibersOK(ir, s, vars)
                   [] s.op = "Call" -> CallOK(ir, s, vars)
                   [] s.op = "Return" -> ReturnOK(f, s, vars)
                   [] s.op = "If" -> IfOK(ir, s, vars)
                   [] s.op = "Let" -> LetOK(ir, s, vars)
                   [] s.op = "RustBlock" -> Range(s.binds) \subseteq DOMAIN vars
                   [] s.op = "Select" -> SelectOK(ir, s, vars)
                   [] s.op = "SetValues" -> SetValuesOK(s, vars)
                   [] s.op = "Create" -> CreateOK(s, vars)
                   [] OTHER -> TRUE

\* IR::is_valid.
IsValid(ir) ==
    /\ "root" \in DOMAIN ir.fibers
    /\ \A fiber \in Range(ir.fibers) :
         /\ "main" \in DOMAIN fiber.funcs
         /\ fiber.funcs["main"].out = Void
         /\ \A f \in Range(fiber.funcs) :
              "entry" \in DOMAIN f.steps /\ UsesCorrectVariables(ir, fiber, f)
    /\ \A d \in Range(ir.types) : d.kind = "PubQueueMessage" =>
         \E i \in DOMAIN d.fields :
             /\ d.fields[i][1] = "public_future_id"
             /\ d.fields[i][2] = String \/ d.fields[i][2][1] = "Future"
====
