----------------------------- MODULE TypeChecker -----------------------------
(***************************************************************************)
(* The type checker (Frontend/Typechecking): inference with type variables *)
(* that are references, unified in place, and let-polymorphism decided by  *)
(* levels.                                                                 *)
(*                                                                         *)
(* typecheck walks an expression; the programs are arbitrary.  What it has *)
(* found for the parts of the expressions around is a stack of types, the  *)
(* lets, muts and lambdas it is inside of are a stack of scopes, and each  *)
(* of its cases is an action, those with a body two.  Actors and their     *)
(* events are left out; lambdas and calls have at most one argument.       *)
(***************************************************************************)
EXTENDS Naturals, Sequences, SequencesExt, FiniteSets, FiniteSetsExt

CONSTANTS
  Identifiers,  \* the variables of the programs
  Natives,      \* Natives[x]: generic names and type of a native
  Literals,     \* the names of the types of literals
  MaxRefs,      \* bound: the type variables that are made
  MaxOperands,  \* bound: the types of parts that wait
  MaxScopes,    \* bound: how deep lets, muts and lambdas nest
  MaxSize,      \* bound: the names in the type of a list
  MaxCases      \* bound: the cases of typecheck that a program leads to

VARIABLES
  store,     \* store[r]: the TyVar in the reference r
  level,     \* currentLevel
  env,       \* checkerState.variables: schemes
  operands,  \* the types of the parts of expressions
  scopes,    \* the lets, muts and lambdas whose bodies are being checked
  error,     \* has a UnificationFail been thrown?
  cases,     \* how many cases there have been
  (* For the properties only.                                              *)
  last,      \* the pairs that the last step unified
  lambda,    \* has the last step finished a lambda?
  cells      \* the references for what the muts outside of lambdas hold

vars == <<store, level, env, operands, scopes, error, cases, last, lambda, cells>>

TyId(n)        == <<"id", n>>
TyVar(r)       == <<"var", r>>
Quantified(n)  == <<"quantified", n>>
TyApp(n, ts)   == <<"app", n, ts>>
Fun(args, ret) == TyApp("#func", <<ret>> \o args)
List(t)        == TyApp("list", <<t>>)
Mutable(t)     == TyApp("mutable", <<t>>)

IsVar(t) == t[1] = "var"
IsApp(t) == t[1] = "app"

Unbound(lvl) == [kind |-> "unbound", level |-> lvl]
Link(t)      == [kind |-> "link", type |-> t]

Forall(names, t) == [names |-> names, type |-> t]

(* genSymbol                                                               *)
NameOf(r) == <<"a", "b", "c", "d", "e", "f", "g", "h">>[r]
-----------------------------------------------------------------------------
IsLink(s, r) == s[r].kind = "link"

RECURSIVE VariablesIn(_)
VariablesIn(t) ==
  CASE IsVar(t) -> {t[2]}
    [] IsApp(t) -> UNION {VariablesIn(t[3][i]) : i \in DOMAIN t[3]}
    [] OTHER    -> {}

(* The references met on the way through t and the links in it.            *)
RECURSIVE Met(_, _)
Met(s, t) ==
  LET direct == VariablesIn(t)
  IN  direct \cup UNION {Met(s, s[r].type) : r \in {q \in direct : IsLink(s, q)}}

Free(s, t) == {r \in Met(s, t) : ~IsLink(s, r)}

RECURSIVE compressPaths(_, _)
compressPaths(s, t) ==
  CASE IsVar(t) /\ IsLink(s, t[2]) -> compressPaths(s, s[t[2]].type)
    [] IsApp(t) -> TyApp(t[2], [i \in DOMAIN t[3] |-> compressPaths(s, t[3][i])])
    [] OTHER    -> t

(* The links it writes.                                                    *)
Compressed(s, t) ==
  [r \in DOMAIN s |-> IF IsLink(s, r) /\ r \in Met(s, t) THEN Link(compressPaths(s, TyVar(r)))
                                                         ELSE s[r]]

\* Mutant: an application is not searched.
OccursAtTop(s, r, t) == t = TyVar(r)

(* doesOccurB: does r occur in t?  And the levels it writes.               *)
Occurs(s, r, t) == r \in Free(s, t)

\* Mutant: levels are left as they are.
LevelsKept(s, r, t) == s

Lowered(s, r, t) ==
  [q \in DOMAIN s |-> IF q \in Free(s, t) THEN Unbound(Min({s[q].level, s[r].level})) ELSE s[q]]

Done(s) == [ok |-> TRUE, store |-> s]
Fail(s) == [ok |-> FALSE, store |-> s]

(* length t1b == length t2b, and the heads unify.                          *)
SameHead(t1, t2) == IsApp(t1) /\ IsApp(t2) /\ t1[2] = t2[2] /\ Len(t1[3]) = Len(t2[3])

\* Mutant: only the first arguments are unified.
FirstOnly(ts) == {1} \cap DOMAIN ts

(* zipWithM_: the arguments that are unified.                              *)
Each(ts) == DOMAIN ts

RECURSIVE unifiesWith(_, _, _)
unifiesWith(s, t, u) ==
  LET t1 == compressPaths(s, t)
      t2 == compressPaths(s, u)
      c  == Compressed(Compressed(s, t), u)
      Then(r, i) == IF r.ok /\ i \in Each(t1[3]) THEN unifiesWith(r.store, t1[3][i], t2[3][i]) ELSE r
  IN  CASE t1 = t2 -> Done(c)
        [] t1 # t2 /\ IsVar(t1) ->
             IF Occurs(c, t1[2], t2) THEN Fail(c)
             ELSE Done([Lowered(c, t1[2], t2) EXCEPT ![t1[2]] = Link(t2)])
        [] t1 # t2 /\ ~IsVar(t1) /\ IsVar(t2) -> unifiesWith(c, t2, t1)
        [] t1 # t2 /\ SameHead(t1, t2) -> FoldLeftDomain(LAMBDA r, i : Then(r, i), Done(c), t1[3])
        [] OTHER -> Fail(c)

(* The pairs of types in equations, one after the other.                   *)
Unified(s, equations) ==
  FoldLeft(LAMBDA r, e : IF r.ok THEN unifiesWith(r.store, e[1], e[2]) ELSE r, Done(s), equations)
-----------------------------------------------------------------------------
(* fresh, n times.                                                         *)
Fresh(s, lvl, n) == s \o [i \in 1 .. n |-> Unbound(lvl)]
New(k)  == TyVar(Len(store) + k)
Room(n) == Len(store) + n <= MaxRefs

\* Mutant: the level is left after the variables are generalised.
BeforeExit(s, r, lvl) == s[r].level > lvl + 1

AboveLevel(s, r, lvl) == s[r].level > lvl

generalize(s, lvl, t) == Forall({NameOf(r) : r \in {q \in Free(s, t) : AboveLevel(s, q, lvl)}}, t)

(* instantiateWithSub: what go makes of t.                                 *)
RECURSIVE Replaced(_, _, _)
Replaced(s, sub, t) ==
  LET Named(n) == IF n \in DOMAIN sub THEN sub[n] ELSE t
  IN  CASE t[1] \in {"quantified", "id"} -> Named(t[2])
        [] IsApp(t) -> TyApp(t[2], [i \in DOMAIN t[3] |-> Replaced(s, sub, t[3][i])])
        [] IsVar(t) /\ IsLink(s, t[2])  -> Replaced(s, sub, s[t[2]].type)
        [] IsVar(t) /\ ~IsLink(s, t[2]) -> Named(NameOf(t[2]))

instantiate(scheme) ==
  LET names == SetToSeq(scheme.names)
      Number(n) == CHOOSE k \in DOMAIN names : names[k] = n
  IN  Replaced(store, [n \in scheme.names |-> New(Number(n))], scheme.type)
-----------------------------------------------------------------------------
Init ==
  /\ store = <<>>
  /\ level = 0
  /\ env = <<>>
  /\ operands = <<>>
  /\ scopes = <<>>
  /\ error = FALSE
  /\ cases = 0
  /\ last = <<>>
  /\ lambda = FALSE
  /\ cells = {}

(* The parts that belong to the innermost scope.                           *)
Base == IF scopes = <<>> THEN 0 ELSE Last(scopes).base

(* The case goes on with the types of its last n parts: Part(1) is that of *)
(* the last.                                                               *)
Parts(n) == ~error /\ Len(operands) - n >= Base
Part(k)  == operands[Len(operands) - k + 1]

Counted == cases < MaxCases /\ cases' = cases + 1

(* Its own type takes their place.                                         *)
Yields(n, t) ==
  /\ Counted
  /\ Len(operands) - n < MaxOperands
  /\ operands' = Append(SubSeq(operands, 1, Len(operands) - n), t)

(* unifiesWith on the new store s; a failure ends the checker.             *)
Unify(s, equations) ==
  LET r == Unified(s, equations)
  IN  /\ last' = equations
      /\ error' = ~r.ok
      /\ store' = IF r.ok THEN r.store ELSE s

Silently(s) == store' = s /\ last' = <<>> /\ UNCHANGED error

Literal(n) ==
  /\ Parts(0)
  /\ Yields(0, TyId(n))
  /\ Silently(store)
  /\ UNCHANGED <<level, env, scopes>>

Variable(x) ==
  /\ Parts(0)
  /\ x \in DOMAIN env
  /\ Room(Cardinality(env[x].names))
  /\ Silently(Fresh(store, level, Cardinality(env[x].names)))
  /\ Yields(0, instantiate(env[x]))
  /\ UNCHANGED <<level, scopes, env>>

With(x, scheme) == [y \in DOMAIN env \cup {x} |-> IF y = x THEN scheme ELSE env[y]]

(* Between the statements of a program: natives are declared there only,   *)
(* so that their own types are no parts of an expression.                  *)
AtToplevel == ~error /\ scopes = <<>> /\ operands = <<>>

Native(x) ==
  /\ AtToplevel
  /\ Counted
  /\ x \in DOMAIN Natives
  /\ env' = With(x, Natives[x])
  /\ Silently(store)
  /\ UNCHANGED <<level, scopes, operands>>

(* traverse typecheck: a statement of the program is done.                 *)
Statement ==
  /\ ~error
  /\ scopes = <<>>
  /\ Len(operands) = 1
  /\ operands' = <<>>
  /\ Silently(store)
  /\ UNCHANGED <<level, env, scopes, cases>>

(* A block has the type of its last statement; blocks and lists without    *)
(* any have a new one.                                                     *)
Block(n) ==
  /\ Parts(n)
  /\ Room(IF n = 0 THEN 1 ELSE 0)
  /\ IF n = 0 THEN Silently(Fresh(store, level, 1)) /\ Yields(0, New(1))
              ELSE Silently(store) /\ Yields(n, Part(1))
  /\ UNCHANGED <<level, env, scopes>>

Application(n) ==
  /\ Parts(n + 1)
  /\ Room(1)
  /\ Unify(Fresh(store, level, 1), <<<<Part(n + 1), Fun(SubSeq(operands, Len(operands) - n + 1, Len(operands)), New(1))>>>>)
  /\ Yields(n + 1, New(1))
  /\ UNCHANGED <<level, env, scopes>>

Ternary ==
  /\ Parts(3)
  /\ Unify(store, <<<<Part(2), Part(1)>>, <<Part(3), TyId("bool")>>>>)
  /\ Yields(3, Part(2))
  /\ UNCHANGED <<level, env, scopes>>

While ==
  /\ Parts(2)
  /\ Unify(store, <<<<Part(2), TyId("bool")>>>>)
  /\ Yields(2, TyId("unit"))
  /\ UNCHANGED <<level, env, scopes>>

(* The target of an update is a variable or an index, checked as such.     *)
Update ==
  /\ Parts(2)
  /\ Unify(store, <<<<Part(2), Mutable(Part(1))>>>>)
  /\ Yields(2, TyId("unit"))
  /\ UNCHANGED <<level, env, scopes>>

Index ==
  /\ Parts(2)
  /\ Room(1)
  /\ Unify(Fresh(store, level, 1), <<<<Part(2), List(New(1))>>, <<Part(1), TyId("int")>>>>)
  /\ Yields(2, New(1))
  /\ UNCHANGED <<level, env, scopes>>

RECURSIVE Size(_)
Size(t) == IF IsApp(t) THEN 1 + FoldLeft(LAMBDA n, u : n + Size(u), 0, t[3]) ELSE 1

ListOf(n) ==
  LET Element(k) == Part(n - k + 1)
  IN  /\ Parts(n)
      /\ IF n = 0
         THEN /\ Room(1)
              /\ Silently(Fresh(store, level, 1))
              /\ Yields(0, List(New(1)))
         ELSE /\ Size(compressPaths(store, Element(1))) < MaxSize
              /\ Unify(store, [k \in 1 .. n |-> <<Element(k), Element(1)>>])
              /\ Yields(n, List(Element(1)))
      /\ UNCHANGED <<level, env, scopes>>
-----------------------------------------------------------------------------
Scope(kind, x, t, ret) ==
  [kind |-> kind, name |-> x, type |-> t, ret |-> ret, saved |-> env, base |-> Len(operands)]

(* M.with: the body is checked with x in the environment, which is then    *)
(* what it was.                                                            *)
Enter(kind, x, t, ret) ==
  /\ Parts(0)
  /\ Counted
  /\ Len(scopes) < MaxScopes
  /\ cases' + Len(scopes) < MaxCases
  /\ scopes' = Append(scopes, Scope(kind, x, t, ret))
  /\ UNCHANGED operands

Ends(kind) ==
  /\ Parts(1)
  /\ scopes # <<>>
  /\ Last(scopes).kind = kind
  /\ Len(operands) = Base + 1
  /\ scopes' = Front(scopes)

Inserted(x, scheme) ==
  [y \in DOMAIN Last(scopes).saved \cup {x} |-> IF y = x THEN scheme ELSE Last(scopes).saved[y]]

BeginLambda(x) ==
  /\ Room(2)
  /\ Silently(Fresh(store, level, 2))
  /\ Enter("lambda", x, New(1), New(2))
  /\ env' = With(x, Forall({}, New(1)))
  /\ UNCHANGED level

EndLambda ==
  /\ Ends("lambda")
  /\ Unify(store, <<<<Part(1), Last(scopes).ret>>>>)
  /\ env' = Last(scopes).saved
  /\ Yields(1, Fun(<<Last(scopes).type>>, Last(scopes).ret))
  /\ UNCHANGED level

enterLevel == level + 1

BeginLet(x) ==
  /\ Room(1)
  /\ level' = enterLevel
  /\ Silently(Fresh(store, level', 1))
  /\ Enter("let", x, New(1), New(1))
  /\ env' = With(x, Forall({}, New(1)))

EndLet ==
  LET x == Last(scopes).name
      t == Last(scopes).type
  IN  /\ Ends("let")
      /\ Unify(store, <<<<t, Part(1)>>>>)
      /\ level' = level - 1
      /\ env' = IF error' THEN Last(scopes).saved ELSE Inserted(x, generalize(store', level', t))
      /\ Yields(1, TyId("unit"))

BeginMut(x) ==
  /\ Room(1)
  /\ Silently(Fresh(store, level, 1))
  /\ Enter("mut", x, New(1), New(1))
  /\ env' = With(x, Forall({}, Mutable(New(1))))
  /\ UNCHANGED level

EndMut ==
  LET t == Last(scopes).type
  IN  /\ Ends("mut")
      /\ Unify(store, <<<<t, Part(1)>>>>)
      /\ env' = Inserted(Last(scopes).name, Forall({}, Mutable(t)))
      /\ Yields(1, Part(1))
      /\ UNCHANGED level

typecheck ==
  \/ \E n \in Literals : Literal(n)
  \/ \E x \in Identifiers : Variable(x) \/ Native(x)
  \/ Statement
  \/ \E n \in {0, 2} : Block(n) \/ ListOf(n)
  \/ \E n \in {0, 1} : Application(n)
  \/ Ternary
  \/ While
  \/ Update
  \/ Index
  \/ \E x \in Identifiers : BeginLambda(x) \/ BeginLet(x)
  \/ EndLet
  \/ EndMut

InLambda == \E i \in DOMAIN scopes : scopes[i].kind = "lambda"

Next ==
  \/ typecheck /\ lambda' = FALSE /\ UNCHANGED cells
  \/ EndLambda /\ lambda' = TRUE /\ UNCHANGED cells
  \/ /\ \E x \in Identifiers : BeginMut(x)
     /\ lambda' = FALSE
     /\ cells' = IF InLambda THEN cells ELSE cells \cup {Len(store')}

Spec == Init /\ [][Next]_vars
-----------------------------------------------------------------------------
TypeOK ==
  /\ Len(store) <= MaxRefs
  /\ \A r \in DOMAIN store : IF IsLink(store, r) THEN VariablesIn(store[r].type) \subseteq DOMAIN store
                                                 ELSE store[r].level \in 0 .. MaxScopes
  /\ level = Cardinality({i \in DOMAIN scopes : scopes[i].kind = "let"})
  /\ \A i \in DOMAIN operands : VariablesIn(operands[i]) \subseteq DOMAIN store
  /\ error \in BOOLEAN
  /\ cases \in 0 .. MaxCases
  /\ lambda \in BOOLEAN
  /\ cells \subseteq DOMAIN store

(* No variable is linked to a type it occurs in: links lead to an end, or  *)
(* compressPaths and the printing of a type would not come back.           *)
LinksEnd ==
  /\ TypeOK
  /\ \A R \in SUBSET DOMAIN store :
       R # {} => \E r \in R : ~IsLink(store, r) \/ VariablesIn(store[r].type) \cap R = {}

(* The types a variable may stand for, in the check of unification.        *)
Ground == {TyId("int"), TyId("bool"), List(TyId("int")), Mutable(TyId("int")),
           Fun(<<TyId("int")>>, TyId("int"))}

RECURSIVE Meaning(_, _, _)
Meaning(s, sigma, t) ==
  CASE IsVar(t) /\ t[2] \in DOMAIN sigma -> sigma[t[2]]
    [] IsVar(t) /\ t[2] \notin DOMAIN sigma -> Meaning(s, sigma, s[t[2]].type)
    [] IsApp(t) -> TyApp(t[2], [i \in DOMAIN t[3] |-> Meaning(s, sigma, t[3][i])])
    [] OTHER    -> t

(* unifiesWith makes two types equal, rules out nothing that makes them    *)
(* equal already, and fails only if nothing does (Unification.hs, "Fail if *)
(* it does" of an occurs check).                                           *)
UnifiesExactly ==
  [][LET before == store \o SubSeq(store', Len(store) + 1, Len(store'))
         met == UNION {Met(before, last'[i][1]) \cup Met(before, last'[i][2]) : i \in DOMAIN last'}
         unbound == {r \in met : ~IsLink(before, r)}
         Same(sigma) == \A i \in DOMAIN last' :
                          Meaning(before, sigma, last'[i][1]) = Meaning(before, sigma, last'[i][2])
         Kept(sigma) == \A r \in met : IsLink(store', r) =>
                          Meaning(before, sigma, TyVar(r)) = Meaning(before, sigma, store'[r].type)
     IN  last' # <<>> =>
           IF error' THEN \A sigma \in [unbound -> Ground] : ~Same(sigma)
           ELSE /\ \A i \in DOMAIN last' :
                     compressPaths(store', last'[i][1]) = compressPaths(store', last'[i][2])
                /\ \A sigma \in [unbound -> Ground] : Same(sigma) => Kept(sigma)]_vars

(* What is free in a scheme, and what is around: the environments that are *)
(* or will be in force, and the types of what is not finished.             *)
FreeIn(s, scheme) == {r \in Free(s, scheme.type) : NameOf(r) \notin scheme.names}

Schemes(environment) == {environment[x] : x \in DOMAIN environment}

Saved == {scopes[i].saved : i \in DOMAIN scopes}

Context(inForce) ==
  UNION {UNION {FreeIn(store, scheme) : scheme \in Schemes(e)} : e \in Saved \cup {inForce}}
  \cup UNION {Free(store, operands[i]) : i \in DOMAIN operands}
  \cup UNION {Free(store, scopes[i].type) \cup Free(store, scopes[i].ret) : i \in DOMAIN scopes}

Without(x) == [y \in DOMAIN env \ {x} |-> env[y]]

(* A variable that a let has generalised stays unbound, and no type that   *)
(* is still to be unified contains it (Type.hs, "It is used to determine   *)
(* the scope of a type variable", of levels).                              *)
GeneralisedStayApart ==
  ~error => \A e \in Saved \cup {env} : \A scheme \in Schemes(e) : \A r \in DOMAIN store :
    NameOf(r) \in scheme.names => ~IsLink(store, r) /\ r \notin Context(env)

(* Levels find what looking through the environment would: a let of a       *)
(* lambda makes all variables of its type general but those that are free  *)
(* around it.  Its body runs anew in every call, so that no two calls share*)
(* a mutable; what other lets may do is said below.                        *)
LambdasGeneralise ==
  [][\A x \in Identifiers :
       EndLet /\ lambda /\ ~error' /\ x = Last(scopes).name =>
         env'[x].names = {NameOf(r) : r \in Free(store', env'[x].type) \ Context(Without(x))'}]_vars

(* A mutable holds values of one type, whoever reads and writes it         *)
(* (README.md, "guarantee types and computations", "Throw errors for       *)
(* incompatible types"): a variable for a mutable that is made once, by a  *)
(* mut outside of all functions, has no type that each use may choose.     *)
Content(s, t) == LET c == compressPaths(s, t) IN IF IsApp(c) /\ c[2] = "mutable" THEN Free(s, c) ELSE {}

MutablesKeepOneType ==
  \A scheme \in Schemes(env) : \A c \in cells :
    \A r \in Content(store, scheme.type) \cap Free(store, TyVar(c)) : NameOf(r) \notin scheme.names
=============================================================================
