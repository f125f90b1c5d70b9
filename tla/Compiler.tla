------------------------------ MODULE Compiler ------------------------------
(***************************************************************************)
(* The passes of the compiler after the type checker (Backend/): closure   *)
(* conversion, hoisting, ANF conversion, LLIR and bytecode.  Trees have    *)
(* one shape for all expressions, so that a pass that only goes through an *)
(* expression is one case.  Positions (MkExprLoc), which every pass looks  *)
(* through, are left out, and so are the constant pool and the numbers of  *)
(* globals and events, which stand for names one to one.                   *)
(***************************************************************************)
EXTENDS Integers, FiniteSets, SequencesExt, TLC

Node(op, name, value, params, kids) ==
  [op |-> op, name |-> name, value |-> value, params |-> params, kids |-> kids]

Literal(n)           == Node("literal", "", n, <<>>, <<>>)
Variable(x)          == Node("variable", x, 0, <<>>, <<>>)
Native(x, arity)     == Node("native", x, arity, <<>>, <<>>)
Application(f, args) == Node("application", "", 0, <<>>, <<f>> \o args)
Lambda(params, body) == Node("lambda", "", 0, params, <<body>>)
Ternary(c, t, e)     == Node("ternary", "", 0, <<>>, <<c, t, e>>)
While(c, body)       == Node("while", "", 0, <<>>, <<c, body>>)
LetIn(x, e)          == Node("let", x, 0, <<>>, <<e>>)
Mut(x, e)            == Node("mut", x, 0, <<>>, <<e>>)
Update(x, e)         == Node("update", x, 0, <<>>, <<e>>)
Block(es)            == Node("block", "", 0, <<>>, es)
List(es)             == Node("list", "", 0, <<>>, es)
Index(e, i)          == Node("index", "", 0, <<>>, <<e, i>>)
Event(ons)           == Node("event", "", 0, <<>>, ons)
On(ev, params, body) == Node("on", ev, 0, params, <<body>>)
Send(e, ev, args)    == Node("send", ev, 0, <<>>, <<e>> \o args)
Spawn(e)             == Node("spawn", "", 0, <<>>, <<e>>)
Unpack(x, e, body)   == Node("unpack", x, 0, <<>>, <<e, body>>)

With(e, kids) == [e EXCEPT !.kids = kids]

IsLambdaLet(e) == e.op = "let" /\ e.kids[1].op = "lambda"

Variables(names) == [i \in DOMAIN names |-> Variable(names[i])]

(* Set.toList, in some order.                                              *)
AsSeq(S) == FoldSet(LAMBDA x, s : Append(s, x), <<>>, S)

(* The counters of fresh names: a name is unique by its place in the tree.  *)
Below(path, i) == path \o "." \o ToString(i)
-----------------------------------------------------------------------------
(* Closure/Free.hs.  A block binds what its lets define, but not what its   *)
(* muts do.                                                                *)
Bound(e) ==
  CASE e.op \in {"lambda", "on"} -> ToSet(e.params)
    [] e.op \in {"let", "mut"}   -> {e.name}
    [] OTHER                     -> {}

RECURSIVE free(_), freeBlock(_)
free(e) ==
  CASE e.op = "block"  -> freeBlock(e.kids)
    [] e.op = "unpack" -> free(e.kids[1]) \cup (free(e.kids[2]) \ {e.name})
    [] OTHER -> {x \in {e.name} : e.op \in {"variable", "native", "update"}}
                \cup (UNION {free(e.kids[i]) : i \in DOMAIN e.kids} \ Bound(e))

freeBlock(es) ==
  IF es = <<>> THEN {}
  ELSE (free(Head(es)) \cup freeBlock(Tail(es))) \ {x \in {Head(es).name} : Head(es).op = "let"}

\* Mutant: a lambda takes its own arguments with it.
WithArguments(names, reserved, args) == AsSeq(names \ DOMAIN reserved)

(* The variables a lambda or an event takes with it.                       *)
Environment(names, reserved, args) == AsSeq(names \ (DOMAIN reserved \cup ToSet(args)))

Prefix(env) == [i \in DOMAIN env |-> LetIn(env[i], Index(Variable("env"), Literal(i - 1)))]

Statements(e) == IF e.op = "block" THEN e.kids ELSE <<e>>

Incorporate(on, env) ==
  IF env = <<>> THEN on ELSE With(on, <<Block(Prefix(env) \o Statements(on.kids[1]))>>)

(* A function that is used as a value becomes a lambda around a call.       *)
AsValue(x, reserved) ==
  IF x \in DOMAIN reserved /\ reserved[x] >= 0
  THEN LET args == [i \in 1 .. reserved[x] |-> "arg" \o ToString(i - 1)]
       IN  Lambda(args, Application(Variable(x), Variables(args)))
  ELSE Variable(x)

IsReserved(f, reserved) == f.op = "variable" /\ f.name \in DOMAIN reserved

(* Closure/Conversion.hs.  reserved maps the globals and natives seen so    *)
(* far to their arity, -1 for what is no function.                         *)
RECURSIVE convertClosures(_, _, _)
convertClosures(e, path, reserved) ==
  LET kids   == [i \in DOMAIN e.kids |-> convertClosures(e.kids[i], Below(path, i), reserved)]
      name   == e.op \o path
      Part(i) == Index(Variable(name), Literal(i))
      lambdaEnv == Environment(free(e.kids[1]), reserved, e.params)
      eventEnv  == Environment(UNION {free(e.kids[i]) : i \in DOMAIN e.kids}, reserved, <<>>)
  IN  CASE e.op = "variable" -> AsValue(e.name, reserved)
        [] e.op = "lambda"   ->
             List(<<Lambda(<<"env">> \o e.params, Block(Prefix(lambdaEnv) \o Statements(kids[1]))),
                    List(Variables(lambdaEnv))>>)
        [] e.op = "application" ->
             IF IsReserved(e.kids[1], reserved) THEN Application(e.kids[1], Tail(kids))
             ELSE Unpack(name, kids[1], Application(Part(0), <<Part(1)>> \o Tail(kids)))
        [] e.op = "event" ->
             List(<<Event([i \in DOMAIN kids |-> Incorporate(kids[i], eventEnv)]),
                    List(Variables(eventEnv))>>)
        [] e.op = "on"    -> On(e.name, <<"env">> \o e.params, kids[1])
        [] e.op = "send"  ->
             IF e.name \in DOMAIN reserved THEN Application(Variable(e.name), Tail(kids))
             ELSE Unpack(name, kids[1], Send(Part(0), e.name, <<Part(1)>> \o Tail(kids)))
        [] e.op = "spawn" -> Unpack(name, kids[1], List(<<Spawn(Part(0)), Part(1)>>))
        [] OTHER          -> With(e, kids)

ArityOf(e) == IF e.op = "lambda" THEN Len(e.params) ELSE -1

(* convertToplevel adds a global before it converts its body.              *)
ReservedWith(e, reserved) ==
  CASE e.op = "let"    -> (e.name :> ArityOf(e.kids[1])) @@ reserved
    [] e.op = "native" -> (e.name :> e.value) @@ reserved
    [] OTHER           -> reserved

convertToplevel(e, path, reserved) ==
  IF IsLambdaLet(e)
  THEN LetIn(e.name, With(e.kids[1], <<convertClosures(e.kids[1].kids[1], path, reserved)>>))
  ELSE convertClosures(e, path, reserved)

runClosureConversion(es) ==
  FoldLeft(LAMBDA done, e :
             LET r == ReservedWith(e, done.reserved)
             IN  [reserved |-> r,
                  tree |-> Append(done.tree, convertToplevel(e, Below("", Len(done.tree)), r))],
           [reserved |-> <<>>, tree |-> <<>>], es).tree
-----------------------------------------------------------------------------
(* Closure/Hoisting.hs: lambdas and events become definitions of the       *)
(* program.  [tree, lets] is what stays and what goes before it.           *)
RECURSIVE hoist(_, _)
hoist(e, path) ==
  LET parts == [i \in DOMAIN e.kids |-> hoist(e.kids[i], Below(path, i))]
      tree  == With(e, [i \in DOMAIN parts |-> parts[i].tree])
      lets  == FlattenSeq([i \in DOMAIN parts |-> parts[i].lets])
      name  == "hoist" \o path
  IN  IF e.op \in {"lambda", "event"}
      THEN [tree |-> Variable(name), lets |-> <<LetIn(name, tree)>> \o lets]
      ELSE [tree |-> tree, lets |-> lets]

hoistToplevel(e, path) ==
  IF IsLambdaLet(e)
  THEN LET body == hoist(e.kids[1].kids[1], path)
       IN  Append(body.lets, LetIn(e.name, With(e.kids[1], <<body.tree>>)))
  ELSE LET all == hoist(e, path) IN Append(all.lets, all.tree)

runClosureHoisting(es) == FlattenSeq([i \in DOMAIN es |-> hoistToplevel(es[i], Below("", i))])
-----------------------------------------------------------------------------
(* ANF/Conversion.hs: an unpack becomes two lets of the block around it.    *)
createBlock(parts) == FlattenSeq([i \in DOMAIN parts |-> Append(parts[i].lets, parts[i].tree)])

RECURSIVE convertANF(_, _)
convertANF(e, path) ==
  LET parts == [i \in DOMAIN e.kids |-> convertANF(e.kids[i], Below(path, i))]
      lets  == FlattenSeq([i \in DOMAIN parts |-> parts[i].lets])
      name  == "anf" \o path
  IN  CASE e.op = "block"  -> [tree |-> Block(createBlock(parts)), lets |-> <<>>]
        [] e.op = "unpack" -> [tree |-> Variable(name),
                               lets |-> lets \o <<LetIn(e.name, parts[1].tree),
                                                  LetIn(name, parts[2].tree)>>]
        [] OTHER -> [tree |-> With(e, [i \in DOMAIN parts |-> parts[i].tree]), lets |-> lets]

runANFConversion(es) == createBlock([i \in DOMAIN es |-> convertANF(es[i], Below("", i))])
-----------------------------------------------------------------------------
(* Backend/LLIR/Free.hs: what a body needs a slot for, its lets, muts and   *)
(* parameters included, less the reserved names it only reads.             *)
RECURSIVE needed(_, _)
needed(reserved, e) ==
  ({x \in {e.name} : e.op \in {"variable", "update"}} \ reserved)
  \cup {x \in {e.name} : e.op \in {"let", "mut"}}
  \cup ToSet(e.params)
  \cup UNION {needed(reserved, e.kids[i]) : i \in DOMAIN e.kids}

(* An instruction, or a segment with the instructions of a body.           *)
Instr(op, name, n) == [op |-> op, name |-> name, n |-> n, locals |-> <<>>, body |-> <<>>]

Segment(op, name, n, locals, body) ==
  [op |-> op, name |-> name, n |-> n, locals |-> locals, body |-> body]

Refused == <<Instr("refused", "", 0)>>

(* A name is a local, or else a global, or else a native.                   *)
Fetch(x, locals, globals, natives) ==
  CASE x \in locals -> <<Instr("load_local", x, 0)>>
    [] x \in globals \ locals -> <<Instr("load_global", x, 0)>>
    [] x \in natives \ (globals \cup locals) -> <<Instr("load_native", x, 0)>>
    [] OTHER -> Refused

Store(x, locals, globals) ==
  CASE x \in locals -> <<Instr("store_local", x, 0)>>
    [] x \in globals \ locals -> <<Instr("store_global", x, 0)>>
    [] OTHER -> Refused

\* Mutant: the jump at the end of the branch is jumped to.
OntoTheJump(then) == Len(then) + 1

(* The jump over the branch and the jump at its end.                       *)
OverThen(then) == Len(then) + 2

OverElse(else) == Len(else) + 1

BackTo(test, body) == -(Len(test) + Len(body) + 1)

Nub(s) == FoldLeft(LAMBDA seen, x : IF Contains(seen, x) THEN seen ELSE Append(seen, x), <<>>, s)

(* The locals of a handler: its arguments are not removed from the names.   *)
HandlerLocals(args, names) == args \o AsSeq(names)

LocalsOf(args, names) == Nub(args \o AsSeq(names))

(* LLIR/Conversion.hs                                                      *)
RECURSIVE assemble(_, _, _, _)
assemble(e, locals, globals, natives) ==
  LET reserved == globals \cup natives
      Kid(i)   == assemble(e.kids[i], locals, globals, natives)
      All(ks)  == FlattenSeq([i \in DOMAIN ks |-> assemble(ks[i], locals, globals, natives)])
  IN  CASE e.op = "literal"     -> <<Instr("load_constant", "", e.value)>>
        [] e.op = "variable"    -> Fetch(e.name, locals, globals, natives)
        [] e.op = "native"      -> <<>>
        [] e.op = "application" ->
             All(Tail(e.kids)) \o Kid(1) \o <<Instr("call", "", Len(e.kids) - 1)>>
        [] e.op = "ternary"     ->
             Kid(1) \o <<Instr("jump_if_false", "", OverThen(Kid(2)))>>
             \o Kid(2) \o <<Instr("jump_rel", "", OverElse(Kid(3)))>> \o Kid(3)
        [] e.op = "while"       ->
             Kid(1) \o <<Instr("jump_if_false", "", OverThen(Kid(2)))>>
             \o Kid(2) \o <<Instr("jump_rel", "", BackTo(Kid(1), Kid(2)))>>
        [] e.op = "update"      ->
             Kid(1) \o Fetch(e.name, locals, globals, natives) \o <<Instr("update", "", 0)>>
        [] e.op = "mut"         ->
             Kid(1) \o <<Instr("make_mutable", "", 0)>> \o Store(e.name, locals, globals)
        [] e.op = "block"       -> All(e.kids)
        [] e.op = "list"        -> All(e.kids) \o <<Instr("make_list", "", Len(e.kids))>>
        [] e.op = "index"       ->
             IF e.kids[2].op = "literal"
             THEN Kid(1) \o <<Instr("list_get", "", e.kids[2].value)>>
             ELSE All(e.kids) \o <<Instr("get_index", "", 0)>>
        [] e.op = "send"        -> All(e.kids) \o <<Instr("send", e.name, Len(e.kids) - 1)>>
        [] e.op = "spawn"       -> Kid(1) \o <<Instr("spawn", "", 0)>>
        [] e.op = "on"          ->
             <<Segment("event_on", e.name, Len(e.params),
                       HandlerLocals(e.params, needed(reserved \cup ToSet(e.params), e.kids[1])),
                       Append(Kid(1), Instr("return", "", 0)))>>
        [] IsLambdaLet(e)       ->
             LET lambda == e.kids[1]
                 freed  == needed(reserved, lambda.kids[1])
                 env    == freed \cup ToSet(lambda.params)
             IN  <<Segment("function", e.name, Cardinality(env), LocalsOf(lambda.params, freed),
                           assemble(lambda.kids[1], locals \cup env, globals, natives))>>
        [] e.op = "let" /\ e.kids[1].op = "event" ->
             LET env == UNION {needed(reserved, e.kids[1].kids[i]) : i \in DOMAIN e.kids[1].kids}
             IN  <<Segment("event", e.name, Len(e.kids[1].kids), <<>>,
                           FlattenSeq([i \in DOMAIN e.kids[1].kids |->
                             assemble(e.kids[1].kids[i], locals \cup env, globals, natives)]))>>
        [] e.op = "let" /\ e.kids[1].op \notin {"lambda", "event"} ->
             Kid(1) \o Store(e.name, locals, globals)

(* What becomes a global: blocks and branches at the top level included,    *)
(* the bodies of loops not.                                                *)
RECURSIVE getGlobals(_)
getGlobals(es) ==
  UNION {{x \in {es[i].name} : es[i].op \in {"let", "mut"}}
         \cup (IF es[i].op \in {"ternary", "block"} THEN getGlobals(es[i].kids) ELSE {})
         : i \in DOMAIN es}

getNatives(es) == {e.name : e \in {n \in ToSet(es) : n.op = "native"}}

runLLIRConversion(es) ==
  FlattenSeq([i \in DOMAIN es |-> assemble(es[i], {}, getGlobals(es), getNatives(es))])
-----------------------------------------------------------------------------
(* Backend/Bytecode/Conversion.hs.  A local is addressed from the base      *)
(* pointer down: withLocals makes a map of the list, the last entry of a    *)
(* name counts.                                                            *)
negIdx(x, locals) ==
  LET last == CHOOSE i \in DOMAIN locals : /\ locals[i] = x
                                          /\ \A j \in DOMAIN locals : locals[j] = x => j <= i
  IN  -Cardinality(ToSet(locals)) + last - 1

Bytecode(op, name, n, m, space) == [op |-> op, name |-> name, n |-> n, m |-> m, space |-> space]

(* The length of a body with the instruction that ends it.                  *)
BodyLength(body) == Len(body) + 1

RECURSIVE assembleBytecode(_, _)
assembleBytecode(segments, locals) ==
  LET Code(s) ==
        LET body == assembleBytecode(s.body, IF s.op = "event" THEN locals ELSE s.locals)
        IN  CASE s.op \in {"load_local", "store_local"} ->
                   IF Contains(locals, s.name) THEN <<Bytecode(s.op, "", negIdx(s.name, locals), 0, 0)>>
                   ELSE <<Bytecode("refused", s.name, 0, 0, 0)>>
              [] s.op = "function" ->
                   <<Bytecode("make_function_and_store", s.name, 0, BodyLength(body), s.n)>>
                   \o Append(body, Bytecode("return", "", 0, 0, 0))
              [] s.op = "event_on" ->
                   <<Bytecode("event_on", s.name, s.n, Len(body), Len(s.locals))>> \o body
              [] s.op = "event"    ->
                   <<Bytecode("make_event", s.name, s.n, BodyLength(body), 0)>>
                   \o body \o <<Bytecode("return_event", "", 0, 0, 0),
                                Bytecode("store_global", s.name, 0, 0, 0)>>
              [] OTHER -> <<Bytecode(s.op, s.name, s.n, 0, 0)>>
  IN  FlattenSeq([i \in DOMAIN segments |-> Code(segments[i])])

runBytecodeConversion(segments) ==
  Append(assembleBytecode(segments, <<>>), Bytecode("halt", "", 0, 0, 0))
=============================================================================
