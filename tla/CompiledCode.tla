---------------------------- MODULE CompiledCode ----------------------------
(***************************************************************************)
(* A program from its tree to the end of its run: the passes of app/Main.hs*)
(* one after the other, then the instructions of interpreter.c that the    *)
(* passes make, on one thread.  The meaning of the source tree is defined  *)
(* beside it (Meaning), and what the bytecode shows is compared with it.    *)
(* Handlers of events are compiled but not run: CallStack and ActorRuntime *)
(* are about their execution.                                              *)
(***************************************************************************)
EXTENDS Compiler

CONSTANT Programs  \* the trees that are compiled

VARIABLES
  program,  \* the tree, as erased types leave it
  stage,    \* the pass that comes next, or "running", "over", "refused", "thrown"
  tree,     \* the tree so far
  code,     \* segments, and then instructions; the first is instruction 0
  pc, values, bp, globals, heap,
  out,      \* what the natives of the program have shown
  (* For the properties only.                                              *)
  constructs  \* what the program has of the constructs the passes get wrong

compileVars == <<program, tree, code, constructs>>
vars == <<compileVars, stage, pc, values, bp, globals, heap, out>>
-----------------------------------------------------------------------------
(* What the program means, with lexical scopes, from left to right.  effect*)
(* stands for a native that shows its argument and returns it,             *)
(* mutable_value reads a mutable.                                          *)
Result(value, env, s) == [value |-> value, env |-> env, s |-> s]

Unit == <<"unit">>

Int32(n) == <<"int", n>>

Holds(v) == v # Int32(0)

Binding(params, args) == [x \in ToSet(params) |-> args[CHOOSE i \in DOMAIN params : params[i] = x]]

RECURSIVE Eval(_, _, _), EvalAll(_, _, _), Loop(_, _, _), Apply(_, _, _, _)
EvalAll(es, env, s) ==
  FoldLeft(LAMBDA done, e :
             LET r == Eval(e, done.env, done.s) IN Result(Append(done.value, r.value), r.env, r.s),
           Result(<<>>, env, s), es)

Loop(e, env, s) ==
  LET c == Eval(e.kids[1], env, s)
  IN  IF Holds(c.value) THEN Loop(e, env, Eval(e.kids[2], env, c.s).s) ELSE Result(Unit, env, c.s)

Apply(f, args, env, s) ==
  CASE f[1] = "native" /\ f[2] = "effect"        ->
         Result(args[1], env, [s EXCEPT !.out = Append(@, args[1])])
    [] f[1] = "native" /\ f[2] = "mutable_value" -> Result(s.cells[args[1][2]], env, s)
    [] f[1] = "closure" ->
         LET r == Eval(f[3], Binding(f[2], args) @@ f[4], s) IN Result(r.value, env, r.s)

Eval(e, env, s) ==
  LET r      == EvalAll(e.kids, env, s)
      Define(v, state) == Result(Unit, (e.name :> v) @@ r.env, state)
  IN  CASE e.op = "literal"     -> Result(Int32(e.value), env, s)
        [] e.op = "variable"    -> Result(env[e.name], env, s)
        [] e.op = "native"      -> Define(<<"native", e.name>>, s)
        [] e.op = "lambda"      -> Result(<<"closure", e.params, e.kids[1], env>>, env, s)
        [] e.op = "application" -> Apply(r.value[1], Tail(r.value), r.env, r.s)
        [] e.op = "let"         -> Define(r.value[1], r.s)
        [] e.op = "mut"         ->
             Define(<<"mutable", Len(r.s.cells) + 1>>, [r.s EXCEPT !.cells = Append(@, r.value[1])])
        [] e.op = "update"      ->
             Result(Unit, r.env, [r.s EXCEPT !.cells[r.env[e.name][2]] = r.value[1]])
        [] e.op = "block"       -> Result(IF r.value = <<>> THEN Unit ELSE Last(r.value), env, r.s)
        [] e.op = "list"        -> Result(<<"list", r.value>>, r.env, r.s)
        [] e.op = "index"       -> Result(r.value[1][2][r.value[2][2] + 1], r.env, r.s)
        [] e.op = "while"       -> Loop(e, env, s)
        [] e.op = "ternary"     ->
             LET c == Eval(e.kids[1], env, s)
                 b == Eval(e.kids[IF Holds(c.value) THEN 2 ELSE 3], c.env, c.s)
             IN  Result(b.value, env, b.s)

Meaning(p) == EvalAll(p, <<>>, [out |-> <<>>, cells |-> <<>>]).s.out
-----------------------------------------------------------------------------
(* The constructs that the passes get wrong.                               *)
Constructs == {"reordered", "function value", "mut in lambda", "shadowing", "hidden let"}

RECURSIVE Parts(_)
Parts(e) == {e} \cup UNION {Parts(e.kids[i]) : i \in DOMAIN e.kids}

PartsOf(p) == UNION {Parts(p[i]) : i \in DOMAIN p}

Toplevel(p) == {e.name : e \in {d \in ToSet(p) : d.op \in {"let", "mut", "native"}}}

(* The calls that become unpacks, and so lets of the block around them.    *)
IsLifted(e, names) ==
  \/ e.op \in {"send", "spawn"}
  \/ e.op = "application" /\ ~(e.kids[1].op = "variable" /\ e.kids[1].name \in names)

RECURSIVE HasLifted(_, _), Stays(_, _)
HasLifted(e, names) ==
  /\ e.op \notin {"block", "lambda", "event"}
  /\ IsLifted(e, names) \/ \E i \in DOMAIN e.kids : HasLifted(e.kids[i], names)

(* What is done or seen where it stands, after the lets.                   *)
Stays(e, names) ==
  /\ ~IsLifted(e, names) /\ e.op \notin {"lambda", "event"}
  /\ e.op \in {"application", "update", "block"} \/ \E i \in DOMAIN e.kids : Stays(e.kids[i], names)

(* A call that is made before what stands on its left, on both branches,   *)
(* once instead of every time, or outside its function.                    *)
Reordered(names, e) ==
  \/ \E i, j \in DOMAIN e.kids : i < j /\ Stays(e.kids[i], names) /\ HasLifted(e.kids[j], names)
  \/ e.op = "ternary" /\ (HasLifted(e.kids[2], names) \/ HasLifted(e.kids[3], names))
  \/ e.op = "while" /\ HasLifted(e.kids[1], names)
  \/ e.op = "on" /\ HasLifted(e.kids[1], names)
  \/ IsLambdaLet(e) /\ e.name \in names /\ HasLifted(e.kids[1].kids[1], names)

(* A function of the program that is not called but passed on.             *)
FunctionValue(functions, e) ==
  \E i \in DOMAIN e.kids :
    /\ e.kids[i].op = "variable" /\ e.kids[i].name \in functions
    /\ ~(e.op = "application" /\ i = 1)

MutInLambda(e) ==
  e.op \in {"lambda", "on"} /\ \E k \in Parts(e.kids[1]) : k.op = "mut"

(* A block outside all functions whose definitions are no globals, for it   *)
(* stands in a loop, a call or a definition.                               *)
RECURSIVE DefinesInside(_, _), HiddenLet(_, _)
DefinesInside(e, names) ==
  /\ e.op \notin {"lambda", "event"}
  /\ \/ e.op = "block"
        /\ \E i \in DOMAIN e.kids : e.kids[i].op \in {"let", "mut"} \/ HasLifted(e.kids[i], names)
     \/ \E i \in DOMAIN e.kids : DefinesInside(e.kids[i], names)

HiddenLet(e, names) ==
  \E i \in DOMAIN e.kids : IF e.op \in {"block", "ternary"} THEN HiddenLet(e.kids[i], names)
                           ELSE DefinesInside(e.kids[i], names)

(* The names of a function, and the functions in it.                       *)
RECURSIVE Own(_), Functions(_), Shadowing(_, _, _)
Own(e) ==
  IF e.op \in {"lambda", "on"} THEN <<>>
  ELSE (IF e.op \in {"let", "mut", "native"} THEN <<e.name>> ELSE <<>>)
       \o FlattenSeq([i \in DOMAIN e.kids |-> Own(e.kids[i])])

Functions(e) ==
  IF e.op \in {"lambda", "on"} THEN {e} ELSE UNION {Functions(e.kids[i]) : i \in DOMAIN e.kids}

(* A name that is defined twice in a function, or in one around it too.     *)
Shadowing(params, es, outer) ==
  LET own == params \o FlattenSeq([i \in DOMAIN es |-> Own(es[i])])
  IN  \/ ~IsInjective(own)
      \/ ToSet(own) \cap outer # {}
      \/ \E f \in UNION {Functions(es[i]) : i \in DOMAIN es} :
           Shadowing(f.params, f.kids, outer \cup ToSet(own))

ConstructsOf(p) ==
  LET names     == Toplevel(p)
      IsAlias(d) == d.op = "let" /\ d.kids[1].op = "variable"
      functions == {e.name : e \in {d \in ToSet(p) : d.op = "native" \/ IsLambdaLet(d) \/ IsAlias(d)}}
      Body(e)   == IF IsLambdaLet(e) THEN e.kids[1].kids[1] ELSE e
  IN  {c \in Constructs :
         \/ c = "reordered" /\ \E e \in PartsOf(p) : Reordered(names, e)
         \/ c = "function value" /\ \E i \in DOMAIN p :
              ~IsAlias(p[i]) /\ \E e \in Parts(p[i]) : FunctionValue(functions, e)
         \/ c = "mut in lambda" /\ \E i \in DOMAIN p : \E e \in Parts(Body(p[i])) : MutInLambda(e)
         \/ c = "hidden let" /\ \E i \in DOMAIN p : HiddenLet(p[i], names)
         \/ c = "shadowing" /\ Shadowing(<<>>, p, {"env"})}

(* Only the passes are about programs with actors.                         *)
HasActors(p) == \E e \in PartsOf(p) : e.op \in {"event", "spawn", "send"}
-----------------------------------------------------------------------------
Garbage == <<"garbage">>

Init ==
  /\ program \in Programs
  /\ constructs = ConstructsOf(program)
  /\ stage = "closures"
  /\ tree = program
  /\ code = <<>>
  /\ pc = 0
  /\ values = <<>>
  /\ bp = 0
  /\ globals = <<>>
  /\ heap = <<>>
  /\ out = <<>>

machineVars == <<pc, values, bp, globals, heap, out>>

Pass(from, result, to) ==
  /\ stage = from
  /\ stage' = to
  /\ tree' = result
  /\ UNCHANGED <<program, constructs, code, machineVars>>

ConvertClosures == Pass("closures", runClosureConversion(tree), "hoisting")
Hoist           == Pass("hoisting", runClosureHoisting(tree), "anf")
ConvertANF      == Pass("anf", runANFConversion(tree), "llir")

ConvertLLIR ==
  /\ stage = "llir"
  /\ stage' = "bytecode"
  /\ code' = runLLIRConversion(tree)
  /\ tree' = <<>>
  /\ UNCHANGED <<program, constructs, machineVars>>

(* "not found in globals, locals or natives"                               *)
IsRefused(instructions) == \E i \in DOMAIN instructions : instructions[i].op = "refused"

ConvertBytecode ==
  /\ stage = "bytecode"
  /\ code' = runBytecodeConversion(code)
  /\ stage' = IF IsRefused(code') THEN "refused" ELSE "compiled"
  /\ UNCHANGED <<program, constructs, tree, machineVars>>

Run ==
  /\ stage = "compiled"
  /\ ~HasActors(program)
  /\ stage' = "running"
  /\ UNCHANGED <<compileVars, machineVars>>
-----------------------------------------------------------------------------
(* The instruction at pc.                                                  *)
Now == code[pc + 1]

Executes(op) ==
  /\ stage = "running"
  /\ Now.op = op
  /\ UNCHANGED compileVars

(* ASSERT_TYPE: without the right operands the program ends.               *)
Checked(right) == stage' = IF right THEN "running" ELSE "thrown"

(* The operand n below the top, and the stack without the n operands on top.*)
(* Below the program's own values stack_pop goes on into the globals.       *)
Operand(n) == IF n < Len(values) THEN values[Len(values) - n] ELSE Garbage
Without(n) == SubSeq(values, 1, Len(values) - n)

(* values is the stack afterwards; the next instruction follows.           *)
Advance(stack) == values' = stack /\ pc' = pc + 1

LoadLocal ==
  /\ Executes("load_local")
  /\ Advance(Append(values, values[bp + Now.n]))
  /\ UNCHANGED <<stage, bp, globals, heap, out>>

StoreLocal ==
  /\ Executes("store_local")
  /\ Advance([Without(1) EXCEPT ![bp + Now.n] = Operand(0)])
  /\ UNCHANGED <<stage, bp, globals, heap, out>>

LoadConstant ==
  /\ Executes("load_constant")
  /\ Advance(Append(values, Int32(Now.n)))
  /\ UNCHANGED <<stage, bp, globals, heap, out>>

LoadGlobal ==
  /\ Executes("load_global")
  /\ Advance(Append(values, IF Now.name \in DOMAIN globals THEN globals[Now.name] ELSE Garbage))
  /\ UNCHANGED <<stage, bp, globals, heap, out>>

LoadNative ==
  /\ Executes("load_native")
  /\ Advance(Append(values, <<"native", Now.name>>))
  /\ UNCHANGED <<stage, bp, globals, heap, out>>

StoreGlobal ==
  /\ Executes("store_global")
  /\ Advance(Without(1))
  /\ globals' = (Now.name :> Operand(0)) @@ globals
  /\ UNCHANGED <<stage, bp, heap, out>>

MakeFunctionAndStore ==
  /\ Executes("make_function_and_store")
  /\ globals' = (Now.name :> <<"function", pc + 1, Now.space>>) @@ globals
  /\ pc' = pc + Now.m + 1
  /\ UNCHANGED <<stage, values, bp, heap, out>>

(* MAKE_LIST and MAKE_MUTABLE                                              *)
Make(n) ==
  /\ heap' = Append(heap, SubSeq(values, Len(values) - n + 1, Len(values)))
  /\ Advance(Append(Without(n), <<Now.op, Len(heap')>>))

MakeList ==
  /\ Executes("make_list")
  /\ Make(Now.n)
  /\ UNCHANGED <<stage, bp, globals, out>>

MakeMutable ==
  /\ Executes("make_mutable")
  /\ Make(1)
  /\ UNCHANGED <<stage, bp, globals, out>>

IsList(v) == v[1] = "make_list"
IsMutable(v) == v[1] = "make_mutable"

UpdateMutable ==
  LET variable == Operand(0)
  IN  /\ Executes("update")
      /\ Checked(IsMutable(variable))
      /\ heap' = IF IsMutable(variable) THEN [heap EXCEPT ![variable[2]] = <<Operand(1)>>] ELSE heap
      /\ Advance(Without(2))
      /\ UNCHANGED <<bp, globals, out>>

(* The element i of a list, in place of the n operands on top.             *)
Take(n, l, i) ==
  LET right == /\ IsList(l)
               /\ i[1] = "int"
               /\ i[2] + 1 \in DOMAIN heap[l[2]]
  IN  /\ Checked(right)
      /\ Advance(IF right THEN Append(Without(n), heap[l[2]][i[2] + 1]) ELSE values)
      /\ UNCHANGED <<bp, globals, heap, out>>

ListGet  == Executes("list_get") /\ Take(1, Operand(0), Int32(Now.n))
GetIndex == Executes("get_index") /\ Take(2, Operand(1), Operand(0))

(* case_call and op_call: the locals above the arguments are what was on   *)
(* the stack before.                                                       *)
CallFunction ==
  LET callee == Operand(0)
      frame  == <<"frame", pc + 1, Len(values) - 1 - Now.n, bp>>
  IN  /\ Executes("call")
      /\ callee[1] = "function"
      /\ values' = Without(1) \o [i \in 1 .. callee[3] - Now.n |-> Garbage] \o <<frame>>
      /\ bp' = Len(values')
      /\ pc' = callee[2]
      /\ UNCHANGED <<stage, globals, heap, out>>

(* op_native_call                                                          *)
CallNative ==
  LET argument == Operand(1)
      right == Operand(0)[1] = "native" /\ (Operand(0)[2] = "mutable_value" => IsMutable(argument))
  IN  /\ Executes("call")
      /\ Operand(0)[1] # "function"
      /\ Checked(right)
      /\ IF right /\ Operand(0)[2] = "mutable_value"
         THEN out' = out /\ Advance(Append(Without(2), heap[argument[2]][1]))
         ELSE out' = Append(out, argument) /\ Advance(Without(1))
      /\ UNCHANGED <<bp, globals, heap>>

Return ==
  LET frame == values[bp]
  IN  /\ Executes("return")
      /\ values' = Append(SubSeq(values, 1, frame[3]), Operand(0))
      /\ bp' = frame[4]
      /\ pc' = frame[2]
      /\ UNCHANGED <<stage, globals, heap, out>>

JumpIfFalse ==
  /\ Executes("jump_if_false")
  /\ values' = Without(1)
  /\ pc' = pc + IF Holds(Operand(0)) THEN 1 ELSE Now.n
  /\ UNCHANGED <<stage, bp, globals, heap, out>>

JumpRel ==
  /\ Executes("jump_rel")
  /\ pc' = pc + Now.n
  /\ UNCHANGED <<stage, values, bp, globals, heap, out>>

Halt ==
  /\ Executes("halt")
  /\ stage' = "over"
  /\ UNCHANGED machineVars

Next ==
  \/ ConvertClosures \/ Hoist \/ ConvertANF \/ ConvertLLIR \/ ConvertBytecode
  \/ Run
  \/ LoadLocal \/ StoreLocal \/ LoadConstant \/ LoadGlobal \/ LoadNative \/ StoreGlobal
  \/ MakeFunctionAndStore \/ MakeList \/ MakeMutable \/ UpdateMutable \/ ListGet \/ GetIndex
  \/ CallFunction \/ CallNative \/ Return \/ JumpIfFalse \/ JumpRel
  \/ Halt

Spec == Init /\ [][Next]_vars
-----------------------------------------------------------------------------
TypeOK ==
  /\ stage \in {"closures", "hoisting", "anf", "llir", "bytecode", "compiled", "running", "over",
                "refused", "thrown"}
  /\ stage \in {"running", "thrown"} => pc \in 0 .. Len(code) - 1
  /\ bp \in 0 .. Len(values)
  /\ bp > 0 => values[bp][1] = "frame"

(* The bytecode shows what the source means, in the order of the source:   *)
(* no pass refuses it, no instruction meets a wrong operand, and closures  *)
(* see the variables they were made with.                                  *)
ShowsItsMeaning ==
  /\ stage \notin {"refused", "thrown"}
  /\ stage = "over" => out = Meaning(program)

(* All programs without the constructs above do (Closure/Conversion.hs,    *)
(* "carries an environment").                                              *)
RunsAsWritten ==
  /\ TypeOK
  /\ constructs \subseteq {"shadowing"} => ShowsItsMeaning

(* Whatever the program, its computations are those it was checked for     *)
(* (README.md, "guarantee types and computations in your code").           *)
EveryProgramRunsAsWritten == ShowsItsMeaning

(* The instructions of functions and handlers, and their slots.            *)
Bodies ==
  {[from |-> i + 1, to |-> i + code[i].m, space |-> code[i].space]
   : i \in {j \in DOMAIN code : code[j].op \in {"make_function_and_store", "event_on"}}}

Within(body, i) == i \in body.from .. body.to

BodiesAreClosed ==
  stage = "compiled" =>
    /\ \A body \in Bodies :
         /\ code[body.to].op = "return"
         /\ \A i \in body.from .. body.to :
              /\ code[i].op \in {"load_local", "store_local"} => code[i].n \in -body.space .. -1
              /\ code[i].op \in {"jump_rel", "jump_if_false"} => Within(body, i + code[i].n)
    /\ \A i \in DOMAIN code : (\A body \in Bodies : ~Within(body, i)) =>
         /\ code[i].op \notin {"load_local", "store_local"}
         /\ code[i].op \in {"jump_rel", "jump_if_false"} =>
              /\ i + code[i].n \in DOMAIN code
              /\ \A body \in Bodies : ~Within(body, i + code[i].n)

(* Every local and every jump of a body stays in its body, taken or not:   *)
(* the passes count locals and instructions in three places, the machine   *)
(* in a fourth.  They agree on all programs that define no name twice.     *)
StaysInItsBody == "shadowing" \notin constructs => BodiesAreClosed

(* And on all others: a body has the slots its locals are counted for      *)
(* (LLIR/Conversion.hs, "locals", and README.md, "guarantee types and      *)
(* computations in your code").                                            *)
EveryBodyStaysClosed == BodiesAreClosed

(* No instruction takes up a slot that nothing was stored to since the     *)
(* call: what an older call left there has another type, or is freed       *)
(* (README.md, "guarantee types and computations in your code"; the mut in *)
(* a handler of example/main.bzi).                                         *)
LocalsStoredFirst ==
  /\ bp < Len(values) => Last(values) # Garbage
  /\ \A a \in DOMAIN heap : ~Contains(heap[a], Garbage)
=============================================================================
