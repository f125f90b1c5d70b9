-------------------------- MODULE MC_CompiledCode --------------------------
(* Programs of one closure that captures an argument and a mutable, and up  *)
(* to two statements with it, in every place a body can stand; and actors.  *)
EXTENDS CompiledCode

Call(f, x) == Application(Variable(f), <<x>>)

Effect(x) == Call("effect", x)

M == Call("value", Variable("m"))

Prelude ==
  <<Native("effect", 1), Native("mutable_value", 1), LetIn("value", Variable("mutable_value")),
    LetIn("show", Lambda(<<"q">>, Call("effect", Variable("q")))),
    LetIn("apply", Lambda(<<"h", "q">>, Block(<<Call("h", Variable("q"))>>)))>>

(* The bodies of the closure, and a call of it in which both arguments may  *)
(* be given.                                                               *)
ClosureBodies ==
  {Variable("q"), Variable("p"), M,
   Block(<<Update("m", Variable("q")), Effect(M)>>),
   Effect(Application(Lambda(<<"s">>, M), <<Variable("q")>>)),
   Block(<<Mut("n", Variable("q")), Call("value", Variable("n"))>>),
   Block(<<LetIn("h", Lambda(<<"r">>, Block(<<Effect(Variable("r")), Effect(M), Variable("p")>>))),
           Ternary(Variable("q"), Block(<<Call("h", Variable("q"))>>), Block(<<Variable("p")>>))>>)}

Curried == Lambda(<<"r">>, Block(<<Update("m", Variable("q")), Effect(Variable("r"))>>))

G(x) == Call("g", x)

Statement ==
  {Effect(G(Literal(1))), Effect(G(Effect(M))), Effect(M),
   Update("m", Literal(0)), Update("m", G(M)),
   Application(Variable("apply"), <<Variable("g"), M>>),
   Application(Variable("apply"), <<Variable("show"), M>>),
   LetIn("x", G(Literal(0))), LetIn("p", M), Mut("y", M),
   Effect(Ternary(M, Literal(1), G(Literal(0)))),
   Ternary(M, Block(<<Effect(M), Effect(G(M))>>), Block(<<Effect(Literal(0))>>)),
   While(M, Block(<<Effect(G(Literal(1))), Update("m", Literal(0))>>)),
   Effect(Index(List(<<Literal(0), M>>), Literal(1))),
   Effect(Index(List(<<G(M), Literal(1)>>), Variable("p"))),
   List(<<Effect(M), G(M)>>)}

CurriedStatement ==
  {Effect(Application(G(Literal(1)), <<Literal(0)>>)), Effect(M),
   Effect(Application(G(M), <<Application(G(Literal(0)), <<M>>)>>))}

UpTo(n, S) == UNION {[1 .. k -> S] : k \in 1 .. n}

(* The closure, and up to n statements.                                    *)
FunctionBodies(n) ==
  {<<LetIn("g", Lambda(<<"q">>, body))>> \o ss : body \in ClosureBodies, ss \in UpTo(n, Statement)}
  \cup {<<LetIn("g", Lambda(<<"q">>, Curried))>> \o ss : ss \in UpTo(n, CurriedStatement)}

InFunction(ss, n) ==
  <<LetIn("f", Lambda(<<"p">>, Block(<<Mut("m", Variable("p"))>> \o ss))), Call("f", Literal(n))>>

InBlock(ss) == <<LetIn("p", Literal(1)), Block(<<Mut("m", Literal(1))>> \o ss)>>

AtTop(ss) == <<LetIn("p", Literal(1)), Mut("m", Literal(1))>> \o ss

InLambda(ss) ==
  <<Mut("m", Literal(1)), Effect(Application(Lambda(<<"p">>, Block(Append(ss, M))), <<Literal(1)>>))>>

Actors ==
  LET On1(x, y) ==
        On("add", <<x>>, Block(<<LetIn(y, Effect(Variable(x))),
                                 Ternary(Variable(y), Block(<<Update("m", Variable(x))>>),
                                         Block(<<Effect(M)>>))>>))
      On2(k) == On("get", <<k>>, Block(<<Send(Variable(k), "result", <<M>>)>>))
      On3(x) == On("result", <<x>>, Effect(Variable(x)))
  IN  {<<Mut("m", Literal(1)), LetIn("counter", Event(<<On1(x, y), On2(k)>>)),
         LetIn("f", Lambda(<<"b">>, Block(<<LetIn("a", Spawn(Variable("counter"))),
                                            Send(Variable("a"), "get", <<Variable("b")>>)>>))),
         Call("f", Spawn(Event(<<On3(z)>>)))>>
       : x, y, k, z \in {"x", "y", "m"}}

MCPrograms ==
  {Prelude \o p : p \in Actors \cup {InFunction(ss, 1) : ss \in FunctionBodies(2)}
                        \cup {InLambda(ss) : ss \in FunctionBodies(2)}
                        \cup {InFunction(ss, 0) : ss \in FunctionBodies(1)}
                        \cup {InBlock(ss) : ss \in FunctionBodies(1)}
                        \cup {AtTop(ss) : ss \in FunctionBodies(1)}}

(* Those with one of the constructs, and nothing else that goes wrong.     *)
Only(c) == {p \in MCPrograms : ConstructsOf(p) = {c}}

WithReordered     == Only("reordered")
WithFunctionValue == Only("function value")
WithMutInLambda   == Only("mut in lambda")
WithShadowing     == Only("shadowing")
WithHiddenLet     == Only("hidden let")
=============================================================================
