---- MODULE Codegen ----
(***************************************************************************)
(* dsl/src/codegen.rs: what generate_rust_types makes of an IR.  The Rust  *)
(* text is left out; what is kept is the State variants that exist, the    *)
(* slots an arm of global_step unpacks, the offsets it computes and the    *)
(* StepResult it builds, in the form of Assembler.                         *)
(***************************************************************************)
EXTENDS Assembler

Vars(f) == f.in_vars \o f.locals
Owns(f, x) == \E i \in DOMAIN Vars(f) : Vars(f)[i][1] = x

\* The slot of a variable: parameters first, then locals.  A name that is
\* neither falls back to 0.
SlotOf(f, x) ==
    IF Owns(f, x) THEN (CHOOSE i \in DOMAIN Vars(f) : Vars(f)[i][1] = x) - 1
                  ELSE 0
LocalSlot(f, x) ==
    IF \E i \in DOMAIN f.locals : f.locals[i][1] = x THEN SlotOf(f, x) ELSE 0
TypeOf(f, x) == Vars(f)[SlotOf(f, x) + 1][2]

\* A variable that is no slot is an init_var in the heap.
Place(f, x) == IF Owns(f, x) THEN Slot(SlotOf(f, x)) ELSE InVar(x)

\* collect_vars_from_expr and collect_vars_from_retvalue.
RECURSIVE VarsIn(_)
VarsIn(e) ==
    CASE e[1] = "Var" -> {e[2]}
      [] e[1] \in {"Equal", "Greater", "Less"} -> VarsIn(e[2]) \union VarsIn(e[3])
      [] e[1] \in {"IsSome", "Unwrap", "GetField", "Some"} -> VarsIn(e[2])
      [] OTHER -> {}

\* render_expr_code and render_ret_value.
RECURSIVE Render(_, _)
Render(f, e) ==
    CASE e[1] = "Var" -> Place(f, e[2])
      [] e[1] \in {"Equal", "Greater", "Less"} ->
            <<e[1], Render(f, e[2]), Render(f, e[3])>>
      [] e[1] \in {"IsSome", "Unwrap", "Some"} -> <<e[1], Render(f, e[2])>>
      [] e[1] = "GetField" -> <<e[1], Render(f, e[2]), e[3]>>
      [] OTHER -> e

DefaultValueExpr(t) ==
    CASE t = UInt64 -> Num(0)
      [] t = String -> Str("")
      [] t = Bool -> BoolLit(FALSE)
      [] t[1] = "Option" -> RetNone
      [] OTHER -> <<"Default", t>>

----------------------------------------------------------------------------
\* A RustBlock whose only result is returned by the next step returns it
\* itself, and that Return has no state of its own.
DirectReturn(f, s) ==
    /\ s.op = "RustBlock" /\ Len(s.binds) = 1
    /\ s.next \in DOMAIN f.steps
    /\ f.steps[s.next] = Return(Var(s.binds[1]))

Suppressed(f) == {f.steps[id].next : id \in {i \in DOMAIN f.steps :
                                               DirectReturn(f, f.steps[i])}}

\* The variables a step refers to.
Referenced(f, s) ==
    CASE s.op = "SetValues" ->
            UNION {{s.values[i].on, s.values[i].var} : i \in DOMAIN s.values}
      [] s.op = "Create" -> {p.var : p \in {q \in Range(s.primitives) :
                                              q.kind = "Queue"}}
      [] s.op = "CreateFibers" ->
            UNION {Range(s.details[i].init_vars) : i \in DOMAIN s.details}
      [] s.op = "Select" -> {s.arms[i].on : i \in DOMAIN s.arms}
      [] s.op = "Call" -> UNION {VarsIn(s.args[i]) : i \in DOMAIN s.args}
      [] s.op = "Return" -> VarsIn(s.value)
      [] s.op = "If" -> VarsIn(s.cond)
      [] s.op = "Let" -> VarsIn(s.expr)
      [] s.op = "RustBlock" -> {Vars(f)[i][1] : i \in DOMAIN Vars(f)}
      [] OTHER -> {}

\* The slots unpacked before a step; the entry step unpacks the parameters.
EntryReads(f, id) == IF id = "entry" THEN 0 .. Len(f.in_vars) - 1 ELSE {}
Reads(f, id, s) ==
    EntryReads(f, id)
      \union {SlotOf(f, x) : x \in {y \in Referenced(f, s) : Owns(f, y)}}

----------------------------------------------------------------------------
\* Mutant: the offset of the bound variable is one short.
RenderCallShort(ir, f, reads, s) ==
    LET callee == ir.fibers[s.target[1]].funcs[s.target[2]]
    IN  CallNext(reads, s.next,
                 IF s.bind # <<>> /\ Owns(f, s.bind[1])
                 THEN <<Len(Vars(f)) - SlotOf(f, s.bind[1])>> ELSE <<>>,
                 [i \in DOMAIN callee.in_vars |->
                     <<callee.in_vars[i][1], Render(f, s.args[i])>>]
                   \o [i \in DOMAIN callee.locals |->
                         <<callee.locals[i][1], DefaultValueExpr(callee.locals[i][2])>>],
                 s.target)
\* render_call_step: a call of a function that does not exist goes straight
\* to the step behind it.
RenderCall(ir, f, reads, s) ==
    IF ~ (/\ s.target[1] \in DOMAIN ir.fibers
          /\ s.target[2] \in DOMAIN ir.fibers[s.target[1]].funcs)
    THEN GoTo(reads, s.next)
    ELSE LET callee == ir.fibers[s.target[1]].funcs[s.target[2]]
             given == {i \in DOMAIN callee.in_vars : i \in DOMAIN s.args}
         IN  CallNext(reads, s.next,
                IF s.bind # <<>> /\ Owns(f, s.bind[1])
                THEN <<Len(Vars(f)) + 1 - SlotOf(f, s.bind[1])>> ELSE <<>>,
                [i \in given |-> <<callee.in_vars[i][1], Render(f, s.args[i])>>]
                  \o [i \in DOMAIN callee.locals |->
                        <<callee.locals[i][1],
                          DefaultValueExpr(callee.locals[i][2])>>],
                s.target)

RenderRustBlock(f, reads, s) ==
    IF DirectReturn(f, s)
    THEN ReturnBlock(reads, s.code, TypeOf(f, s.binds[1]))
    ELSE Block(reads, s.code,
               [i \in DOMAIN s.binds |-> SlotOf(f, s.binds[i])], s.next)

\* The kind of an id follows the variable it is bound to.
RenderCreate(f, reads, s) ==
    CreateAll(reads,
        [i \in DOMAIN s.primitives |->
            LET p == s.primitives[i]
            IN  Primitive(p.kind, IF p.kind = "Future" THEN <<>>
                                  ELSE Slot(SlotOf(f, p.var)))],
        s.success, s.id_binds,
        [i \in DOMAIN s.id_binds |->
            IF /\ i \in DOMAIN s.primitives /\ s.primitives[i].kind # "Queue"
               /\ Owns(f, s.id_binds[i])
               /\ TypeOf(f, s.id_binds[i])[1] = "Future"
            THEN TypeOf(f, s.id_binds[i]) ELSE String],
        s.fail, s.error_binds)

RenderSetValues(f, reads, s) ==
    SetAll(reads,
           [i \in DOMAIN s.values |->
               SetTo(s.values[i].kind, Place(f, s.values[i].on),
                     Place(f, s.values[i].var))],
           s.next)

RenderSelect(f, reads, s) ==
    Park(reads, [i \in DOMAIN s.arms |->
                    [s.arms[i] EXCEPT !.on = Place(f, s.arms[i].on)]])

\* An init_var is taken for a String in slot 0.
RenderCreateFibers(f, reads, s) ==
    Spawn(reads,
          [i \in DOMAIN s.details |->
              <<s.details[i].f_name,
                [k \in DOMAIN s.details[i].init_vars |->
                    LET x == s.details[i].init_vars[k]
                    IN  IF Owns(f, x) THEN Slot(SlotOf(f, x)) ELSE StringAt(0)]>>],
          s.next)

\* One arm of global_step.
RenderStep(ir, f, id) ==
    LET s == f.steps[id]
        reads == Reads(f, id, s)
    IN  CASE s.op = "Call" -> RenderCall(ir, f, reads, s)
          [] s.op = "Return" -> ReturnExpr(reads, Render(f, s.value))
          [] s.op = "ReturnVoid" -> [ReturnUnit EXCEPT !.reads = reads]
          [] s.op = "If" -> Branch(reads, Render(f, s.cond), s.then, s.else)
          [] s.op = "Let" -> Assign(reads, LocalSlot(f, s.local),
                                    TypeOf(f, s.local), Render(f, s.expr), s.next)
          [] s.op = "RustBlock" -> RenderRustBlock(f, reads, s)
          [] s.op = "Select" -> RenderSelect(f, reads, s)
          [] s.op = "SetValues" -> RenderSetValues(f, reads, s)
          [] s.op = "Create" -> RenderCreate(f, reads, s)
          [] s.op = "CreateFibers" -> RenderCreateFibers(f, reads, s)
          [] s.op \in {"Debug", "DebugPrintVars"} ->
                [Dbg(s.next) EXCEPT !.reads = reads]

\* The arm of the entry state.  A function without an entry step jumps to
\* its entry for ever.
RenderEntry(ir, f) ==
    IF "entry" \in DOMAIN f.steps THEN RenderStep(ir, f, "entry")
    ELSE GoTo(0 .. Len(f.in_vars) - 1, "entry")

\* generate_func_args_count: the entries of a frame.
FuncArgs(f) == Vars(f)

\* The State variants of a function, with their arms.
RenderFunc(ir, f) ==
    Code(FuncArgs(f), f.out,
         [id \in (DOMAIN f.steps \ Suppressed(f)) \union {"entry"} |->
             IF id = "entry" THEN RenderEntry(ir, f) ELSE RenderStep(ir, f, id)])

Generate(ir) ==
    [fiber \in DOMAIN ir.fibers |->
        [func \in DOMAIN ir.fibers[fiber].funcs |->
            RenderFunc(ir, ir.fibers[fiber].funcs[func])]]
====
