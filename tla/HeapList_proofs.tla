---------------------------- MODULE HeapList_proofs ----------------------------
(***************************************************************************)
(* The linked list of a module holds its objects while sweep takes nodes   *)
(* out of it, beside the other modules' steps, until a freed node has lost *)
(* its next (cut).  Until then, and until a pointer has come to where its  *)
(* owner does not look (exposed), the walk implements the sweep of one     *)
(* step.                                                                   *)
(***************************************************************************)
EXTENDS HeapList, GarbageCollector_proofs

(* Nodes, for any links.                                                   *)
Chain(f, o) ==
  {n \in Objects : \A S \in SUBSET Objects :
     /\ {o} \ {NULL} \subseteq S
     /\ \A p \in S : {f[p]} \ {NULL} \subseteq S
     => n \in S}

(* From o the links f lead to an end, and to no node twice.                *)
ProperList(f, o) ==
  /\ \A n \in Chain(f, o) : n \notin Chain(f, f[n])
  /\ \A n, p \in Chain(f, o) : f[n] = f[p] /\ f[n] # NULL => n = p
  /\ Chain(f, o) # {} => \E n \in Chain(f, o) : f[n] = NULL

ListTypes ==
  /\ first \in [Modules -> Value]
  /\ next \in [Objects -> Value]
  /\ object \in [Modules -> Value \cup {FIRST}]
  /\ gone \in [Modules -> Value]

(* The lists are proper and apart, and where sweep stands on them.         *)
Lists ==
  /\ \A m \in Modules : ProperList(next, first[m])
  /\ \A m, k \in Modules : m # k => Chain(next, first[m]) \cap Chain(next, first[k]) = {}
  /\ \A m \in Modules : objects[m] = Chain(next, first[m]) \ {gone[m]}
  /\ \A m \in Modules : Sweeping(m) => /\ phase[m] = "sweep"
                                       /\ object[m] = FIRST \/ object[m] \in objects[m]
  /\ \A m \in Modules : gone[m] # NULL => Sweeping(m) /\ Link(m) = gone[m]

ListInv == TypeOK /\ ListTypes /\ Lists
-----------------------------------------------------------------------------
(* A chain is closed, and the least closed set.                            *)
LEMMA ChainClosed ==
  ASSUME NEW f \in [Objects -> Value], NEW o \in Value
  PROVE  /\ Chain(f, o) \subseteq Objects
         /\ o # NULL => o \in Chain(f, o)
         /\ \A n \in Chain(f, o) : f[n] # NULL => f[n] \in Chain(f, o)
  BY DEF Chain, Value

LEMMA ChainLeast ==
  ASSUME NEW f \in [Objects -> Value], NEW o \in Value, NEW S \in SUBSET Objects,
         o # NULL => o \in S, \A n \in S : f[n] # NULL => f[n] \in S
  PROVE  Chain(f, o) \subseteq S
  BY DEF Chain

LEMMA ChainOfNull ==
  ASSUME NEW f \in [Objects -> Value]
  PROVE  Chain(f, NULL) = {}
  <1>1. {} \in SUBSET Objects /\ NULL \in Value /\ \A n \in {} : f[n] # NULL => f[n] \in {}
    BY DEF Value
  <1>2. Chain(f, NULL) \subseteq {}
    BY <1>1, ChainLeast
  <1> QED
    BY <1>2

LEMMA ChainStep ==
  ASSUME NEW f \in [Objects -> Value], NEW o \in Objects
  PROVE  Chain(f, o) = {o} \cup Chain(f, f[o])
  <1>1. o \in Value /\ f[o] \in Value /\ o # NULL
    BY CollectorAssumption DEF Value
  <1>2. Chain(f, o) \subseteq {o} \cup Chain(f, f[o])
    <2> DEFINE S == {o} \cup Chain(f, f[o])
    <2>1. S \in SUBSET Objects /\ o \in S /\ \A n \in S : f[n] # NULL => f[n] \in S
      BY <1>1, ChainClosed
    <2> HIDE DEF S
    <2>2. Chain(f, o) \subseteq S
      BY <1>1, <2>1, ChainLeast
    <2> QED
      BY <2>2 DEF S
  <1>3. Chain(f, f[o]) \subseteq Chain(f, o)
    BY <1>1, ChainClosed, ChainLeast
  <1> QED
    BY <1>1, <1>2, <1>3, ChainClosed

LEMMA ChainWithin ==
  ASSUME NEW f \in [Objects -> Value], NEW o \in Value, NEW n \in Chain(f, o)
  PROVE  /\ Chain(f, n) \subseteq Chain(f, o)
         /\ Chain(f, f[n]) \subseteq Chain(f, o)
  <1>1. n \in Objects /\ n \in Value /\ f[n] \in Value
    BY ChainClosed DEF Value
  <1> QED
    BY <1>1, ChainClosed, ChainLeast

(* Links elsewhere do not matter.                                          *)
LEMMA ChainFrame ==
  ASSUME NEW f \in [Objects -> Value], NEW g \in [Objects -> Value], NEW o \in Value,
         \A n \in Chain(f, o) : g[n] = f[n]
  PROVE  Chain(g, o) = Chain(f, o)
  <1>1. Chain(g, o) \subseteq Chain(f, o)
    BY ChainClosed, ChainLeast
  <1>2. Chain(f, o) \subseteq Chain(g, o)
    <2>1. \A n \in Chain(g, o) : f[n] # NULL => f[n] \in Chain(g, o)
      BY <1>1, ChainClosed
    <2> QED
      BY <2>1, ChainClosed, ChainLeast
  <1> QED
    BY <1>1, <1>2

LEMMA ListFrame ==
  ASSUME NEW f \in [Objects -> Value], NEW g \in [Objects -> Value], NEW o \in Value,
         \A n \in Chain(f, o) : g[n] = f[n], ProperList(f, o)
  PROVE  ProperList(g, o)
  <1>1. Chain(g, o) = Chain(f, o)
    BY ChainFrame
  <1>2. \A n \in Chain(f, o) : Chain(g, g[n]) = Chain(f, f[n])
    <2> SUFFICES ASSUME NEW n \in Chain(f, o)
                 PROVE  Chain(g, g[n]) = Chain(f, f[n])
      OBVIOUS
    <2>1. n \in Objects /\ f[n] \in Value /\ g[n] = f[n]
      BY ChainClosed
    <2>2. \A p \in Chain(f, f[n]) : g[p] = f[p]
      BY ChainWithin
    <2> QED
      BY <2>1, <2>2, ChainFrame
  <1> QED
    BY <1>1, <1>2 DEF ProperList

(* The head is taken off.                                                  *)
LEMMA HeadOff ==
  ASSUME NEW f \in [Objects -> Value], NEW o \in Objects, ProperList(f, o)
  PROVE  /\ Chain(f, f[o]) = Chain(f, o) \ {o}
         /\ ProperList(f, f[o])
  <1>1. o \in Value /\ o # NULL /\ f[o] \in Value
    BY CollectorAssumption DEF Value
  <1>2. o \in Chain(f, o)
    BY <1>1, ChainClosed
  <1>3. Chain(f, f[o]) = Chain(f, o) \ {o}
    BY <1>2, ChainStep DEF ProperList
  <1>4. ASSUME Chain(f, f[o]) # {}
        PROVE  \E n \in Chain(f, f[o]) : f[n] = NULL
    <2>1. f[o] # NULL
      BY <1>4, ChainOfNull
    <2>2. PICK n \in Chain(f, o) : f[n] = NULL
      BY <1>2 DEF ProperList
    <2> QED
      BY <2>1, <2>2, <1>3
  <1> QED
    BY <1>3, <1>4 DEF ProperList

(* The node behind p is taken out.                                         *)
LEMMA NodeOut ==
  ASSUME NEW f \in [Objects -> Value], NEW o \in Value, ProperList(f, o),
         NEW p \in Chain(f, o), f[p] # NULL,
         NEW h \in [Objects -> Value], h[p] = f[f[p]], \A n \in Objects \ {p} : h[n] = f[n]
  PROVE  /\ Chain(h, o) = Chain(f, o) \ {f[p]}
         /\ Chain(h, f[f[p]]) = Chain(f, f[f[p]])
         /\ ProperList(h, o)
  <1> DEFINE g == f[p]
  <1>1. /\ p \in Objects /\ g \in Objects /\ f[g] \in Value /\ p \in Value
        /\ g \in Chain(f, o)
    BY ChainClosed DEF Value
  <1>2. /\ h \in [Objects -> Value] /\ h[p] = f[g]
        /\ \A n \in Objects : n # p => h[n] = f[n]
    BY <1>1
  <1>3. g # p /\ p \notin Chain(f, g) /\ g \notin Chain(f, f[g]) /\ f[g] # g
    <2>1. p \notin Chain(f, g) /\ g \notin Chain(f, f[g])
      BY <1>1 DEF ProperList
    <2>2. g \in Chain(f, g)
      BY <1>1, ChainStep
    <2>3. f[g] = g => g \in Chain(f, f[g])
      BY <2>2
    <2> QED
      BY <2>1, <2>2, <2>3
  <1>4. \A n \in Chain(f, o) : n # p => f[n] # g
    BY <1>1 DEF ProperList
  <1> HIDE DEF g
  <1>5. ASSUME NEW q \in Value, q # NULL => q \in Chain(f, o), q # g
        PROVE  Chain(h, q) = Chain(f, q) \ {g}
    <2>1. Chain(f, q) \subseteq Chain(f, o)
      BY <1>5, ChainClosed, ChainLeast
    <2>2. Chain(h, q) \subseteq Chain(f, q) \ {g}
      <3>1. \A n \in Chain(f, q) \ {g} : h[n] # NULL => h[n] \in Chain(f, q) \ {g}
        <4> SUFFICES ASSUME NEW n \in Chain(f, q) \ {g}, h[n] # NULL
                     PROVE  h[n] \in Chain(f, q) \ {g}
          OBVIOUS
        <4>1. CASE n = p
          <5>1. g \in Chain(f, q)
            BY <4>1, <1>1, ChainClosed DEF g
          <5> QED
            BY <4>1, <5>1, <1>2, <1>3, ChainClosed
        <4>2. CASE n # p
          <5>1. h[n] = f[n] /\ f[n] # g
            BY <4>2, <1>2, <1>4, <2>1, ChainClosed
          <5> QED
            BY <5>1, ChainClosed
        <4> QED
          BY <4>1, <4>2
      <3>2. Chain(f, q) \ {g} \in SUBSET Objects /\ (q # NULL => q \in Chain(f, q) \ {g})
        BY <1>5, ChainClosed
      <3>3. PICK S \in SUBSET Objects : S = Chain(f, q) \ {g}
        BY <3>2
      <3>4. (q # NULL => q \in S) /\ \A n \in S : h[n] # NULL => h[n] \in S
        BY <3>1, <3>2, <3>3
      <3>5. Chain(h, q) \subseteq S
        BY <3>4, <1>2, ChainLeast
      <3> QED
        BY <3>3, <3>5
    <2>3. Chain(f, q) \subseteq Chain(h, q) \cup {g}
      <3> DEFINE S == Chain(h, q) \cup (IF p \in Chain(h, q) THEN {g} ELSE {})
      <3>1. Chain(h, q) \subseteq Objects
        BY <1>2, ChainClosed
      <3>2. S \in SUBSET Objects /\ (q # NULL => q \in S)
        BY <3>1, <1>1, <1>2, ChainClosed
      <3>3. \A n \in S : f[n] # NULL => f[n] \in S
        <4> SUFFICES ASSUME NEW n \in S, f[n] # NULL
                     PROVE  f[n] \in S
          OBVIOUS
        <4>1. CASE n = p
          <5>1. p \in Chain(h, q)
            BY <4>1, <1>3
          <5> QED
            BY <4>1, <5>1 DEF g
        <4>2. CASE n # p /\ n \in Chain(h, q)
          BY <4>2, <3>1, <1>2, ChainClosed
        <4>3. CASE n = g /\ p \in Chain(h, q)
          BY <4>3, <1>2, ChainClosed
        <4> QED
          BY <4>1, <4>2, <4>3
      <3> HIDE DEF S
      <3>4. Chain(f, q) \subseteq S
        BY <3>2, <3>3, ChainLeast
      <3> QED
        BY <3>4 DEF S
    <2> QED
      BY <2>2, <2>3
  <1>6. o # NULL => o \in Chain(f, o)
    BY ChainClosed
  <1>7. o # g
    <2>1. Chain(f, g) = Chain(f, o) \/ o # g
      OBVIOUS
    <2> QED
      BY <1>3, <2>1
  <1>8. Chain(h, o) = Chain(f, o) \ {g}
    BY <1>5, <1>6, <1>7
  <1>9. \A n \in Chain(f, o) \ {g} : h[n] \in Value /\ (h[n] # NULL => h[n] \in Chain(f, o)) /\ h[n] # g
    <2> SUFFICES ASSUME NEW n \in Chain(f, o) \ {g}
                 PROVE  h[n] \in Value /\ (h[n] # NULL => h[n] \in Chain(f, o)) /\ h[n] # g
      OBVIOUS
    <2>1. n \in Objects
      BY ChainClosed
    <2>2. CASE n = p
      BY <2>2, <1>1, <1>2, <1>3, ChainClosed
    <2>3. CASE n # p
      BY <2>1, <2>3, <1>1, <1>2, <1>4, ChainClosed
    <2> QED
      BY <2>2, <2>3
  <1>10. \A n \in Chain(f, o) \ {g} : Chain(h, h[n]) = Chain(f, h[n]) \ {g}
    BY <1>5, <1>9
  <1>11. ASSUME NEW n \in Chain(h, o)
         PROVE  n \notin Chain(h, h[n])
    <2>1. n \in Chain(f, o) \ {g} /\ n \in Objects
      BY <1>8, ChainClosed
    <2>2. CASE n = p
      <3>1. Chain(f, f[g]) \subseteq Chain(f, g)
        BY <1>1, ChainStep
      <3> QED
        BY <2>1, <2>2, <3>1, <1>2, <1>3, <1>10
    <2>3. CASE n # p
      BY <2>1, <2>3, <1>2, <1>10 DEF ProperList
    <2> QED
      BY <2>2, <2>3
  <1>12. \A n, q \in Chain(h, o) : h[n] = h[q] /\ h[n] # NULL => n = q
    <2> SUFFICES ASSUME NEW n \in Chain(h, o), NEW q \in Chain(h, o), h[n] = h[q], h[n] # NULL
                 PROVE  n = q
      OBVIOUS
    <2>1. /\ n \in Chain(f, o) /\ q \in Chain(f, o) /\ n # g /\ q # g
          /\ n \in Objects /\ q \in Objects
      BY <1>8, ChainClosed
    <2>2. /\ n # p => h[n] = f[n]
          /\ q # p => h[q] = f[q]
      BY <1>2, <2>1
    <2>3. \A x, y \in Chain(f, o) : f[x] = f[y] /\ f[x] # NULL => x = y
      BY DEF ProperList
    <2>4. n = p /\ q # p => q = g
      BY <1>1, <1>2, <2>1, <2>2, <2>3
    <2>5. q = p /\ n # p => n = g
      BY <1>1, <1>2, <2>1, <2>2, <2>3
    <2>6. n # p /\ q # p => n = q
      BY <2>1, <2>2, <2>3
    <2> QED
      BY <2>1, <2>4, <2>5, <2>6
  <1>13. ASSUME Chain(h, o) # {}
         PROVE  \E n \in Chain(h, o) : h[n] = NULL
    <2>1. PICK l \in Chain(f, o) : f[l] = NULL
      BY DEF ProperList
    <2>2. l # p
      BY <2>1
    <2>3. CASE l = g
      BY <2>3, <2>1, <1>2, <1>3, <1>8
    <2>4. CASE l # g
      BY <2>4, <2>1, <2>2, <1>2, <1>8, ChainClosed
    <2> QED
      BY <2>3, <2>4
  <1>14. Chain(h, f[g]) = Chain(f, f[g])
    <2>1. f[g] # NULL => f[g] \in Chain(f, o)
      BY <1>1, ChainClosed
    <2> QED
      BY <1>1, <1>3, <1>5, <2>1
  <1> QED
    BY <1>2, <1>8, <1>11, <1>12, <1>13, <1>14 DEF g, ProperList

(* A node is put before the head.                                          *)
LEMMA HeadOn ==
  ASSUME NEW f \in [Objects -> Value], NEW o \in Value, ProperList(f, o),
         NEW n \in Objects \ Chain(f, o)
  PROVE  LET h == [f EXCEPT ![n] = o]
         IN  /\ h \in [Objects -> Value]
             /\ Chain(h, n) = {n} \cup Chain(f, o)
             /\ ProperList(h, n)
  <1> DEFINE h == [f EXCEPT ![n] = o]
  <1>1. /\ h \in [Objects -> Value] /\ h[n] = o
        /\ \A p \in Objects : p # n => h[p] = f[p]
    OBVIOUS
  <1>2. \A p \in Chain(f, o) : h[p] = f[p] /\ p \in Objects
    BY <1>1, ChainClosed
  <1> HIDE DEF h
  <1>3. Chain(h, o) = Chain(f, o) /\ ProperList(h, o)
    BY <1>1, <1>2, ChainFrame, ListFrame
  <1>4. Chain(h, n) = {n} \cup Chain(f, o)
    BY <1>1, <1>3, ChainStep
  <1>5. \A p \in Chain(h, n) : p \notin Chain(h, h[p])
    BY <1>1, <1>3, <1>4 DEF ProperList
  <1>6. o # NULL => \A p \in Chain(f, o) : h[p] # o
    <2> SUFFICES ASSUME o # NULL, NEW p \in Chain(f, o), h[p] = o PROVE FALSE
      OBVIOUS
    <2>1. f[p] = o
      BY <1>2
    <2> QED
      BY <2>1 DEF ProperList
  <1>7. \A p, q \in Chain(h, n) : h[p] = h[q] /\ h[p] # NULL => p = q
    <2> SUFFICES ASSUME NEW p \in Chain(h, n), NEW q \in Chain(h, n), h[p] = h[q], h[p] # NULL
                 PROVE  p = q
      OBVIOUS
    <2>1. CASE p \in Chain(f, o) /\ q \in Chain(f, o)
      BY <2>1, <1>3 DEF ProperList
    <2>2. CASE p = n \/ q = n
      BY <2>2, <1>1, <1>4, <1>6
    <2> QED
      BY <2>1, <2>2, <1>4
  <1>8. \E p \in Chain(h, n) : h[p] = NULL
    <2>1. CASE o = NULL
      BY <2>1, <1>1, <1>4
    <2>2. CASE o # NULL
      <3>1. Chain(f, o) # {}
        BY <2>2, ChainClosed
      <3> QED
        BY <3>1, <1>3, <1>4 DEF ProperList
    <2> QED
      BY <2>1, <2>2
  <1> QED
    BY <1>1, <1>4, <1>5, <1>7, <1>8 DEF ProperList, h

LEMMA NodesAreChain == ASSUME NEW o PROVE Nodes(o) = Chain(next, o)
  BY DEF Nodes, Chain
-----------------------------------------------------------------------------
(* Where sweep stands: its link belongs to the module's own list, and to   *)
(* no other one.                                                           *)
LEMMA SweepStands ==
  ASSUME ListInv, NEW m \in Modules, Sweeping(m)
  PROVE  /\ object[m] # FIRST => /\ object[m] \in objects[m]
                                 /\ object[m] \in Chain(next, first[m]) /\ object[m] \in Objects
         /\ Link(m) \in Value
         /\ Link(m) # NULL => Link(m) \in Chain(next, first[m]) /\ Link(m) \in Objects
         /\ Link(m) # NULL => Link(m) # object[m]
         /\ object[m] # FIRST => object[m] # gone[m]
         /\ \A k \in Modules : k # m => /\ object[m] \notin Chain(next, first[k])
                                        /\ Link(m) \notin Chain(next, first[k])
  <1>1. first[m] \in Value /\ next \in [Objects -> Value] /\ first \in [Modules -> Value]
    BY DEF ListInv, ListTypes
  <1>2. object[m] # FIRST => /\ object[m] \in objects[m]
                             /\ object[m] \in Chain(next, first[m]) /\ object[m] \in Objects
                             /\ object[m] # gone[m]
    BY <1>1, ChainClosed DEF ListInv, Lists
  <1>3. Link(m) \in Value /\ (Link(m) # NULL => Link(m) \in Chain(next, first[m]) /\ Link(m) \in Objects)
    BY <1>1, <1>2, ChainClosed DEF Link, Value
  <1>4. Link(m) # NULL => Link(m) # object[m]
    <2>1. CASE object[m] = FIRST
      BY <2>1, <1>3, ListAssumption
    <2>2. CASE object[m] # FIRST
      <3>1. Link(m) # NULL => Link(m) \in Chain(next, Link(m))
        BY <1>1, <1>3, ChainClosed
      <3>2. object[m] \notin Chain(next, next[object[m]])
        BY <1>2, <2>2 DEF ListInv, Lists, ProperList
      <3> QED
        BY <2>2, <3>1, <3>2 DEF Link
    <2> QED
      BY <2>1, <2>2
  <1>5. FIRST \notin Objects /\ NULL \notin Objects
    BY ListAssumption, CollectorAssumption DEF Value
  <1>6. ASSUME NEW k \in Modules, k # m
        PROVE  object[m] \notin Chain(next, first[k]) /\ Link(m) \notin Chain(next, first[k])
    <2>1. /\ Chain(next, first[m]) \cap Chain(next, first[k]) = {}
          /\ Chain(next, first[k]) \subseteq Objects
      BY <1>1, <1>6, ChainClosed DEF ListInv, Lists
    <2> QED
      BY <2>1, <1>2, <1>3, <1>5
  <1> QED
    BY <1>2, <1>3, <1>4, <1>6

(* The program leaves lists and sweeps alone.                              *)
LEMMA ProgramFacts ==
  ASSUME TypeOK, NEW m \in Modules, Program(m)
  PROVE  /\ Next
         /\ UNCHANGED listVars /\ UNCHANGED heapVars
         /\ \A k \in Modules : phase[k] = "sweep" => phase'[k] = "sweep"
  <1>1. Next /\ UNCHANGED listVars
    BY DEF Program, Next
  <1>2. CASE \E a \in Modules : Start(a, m)
    BY <1>1, <1>2 DEF Start, TypeOK, heapVars
  <1>3. CASE ~\E a \in Modules : Start(a, m)
    <2>1. /\ UNCHANGED heapVars
          /\ phase[m] \in {"run", "mark"}
          /\ \A k \in Modules : k # m => phase'[k] = phase[k]
      BY <1>3 DEF Program, Load, Pop, Store, Update, Make, MarkAll, Send, Receive, TypeOK
    <2> QED
      BY <1>1, <2>1
  <1> QED
    BY <1>2, <1>3

LEMMA ProgramLists == ASSUME ListInv, NEW m \in Modules, Program(m) PROVE ListInv'
  <1>1. /\ Next /\ UNCHANGED listVars /\ UNCHANGED heapVars
        /\ \A k \in Modules : phase[k] = "sweep" => phase'[k] = "sweep"
    BY ProgramFacts DEF ListInv
  <1>2. TypeOK'
    BY <1>1, TypeStep DEF ListInv
  <1> QED
    BY <1>1, <1>2 DEF ListInv, ListTypes, Lists, listVars, heapVars, Sweeping, Link

LEMMA BeginSweepLists == ASSUME ListInv, NEW m \in Modules, BeginSweep(m) PROVE ListInv'
  <1>1. /\ phase[m] = "sweep" /\ gone[m] = NULL
        /\ object' = [object EXCEPT ![m] = FIRST]
        /\ UNCHANGED <<vars, first, next, gone, cut>>
    BY DEF BeginSweep, ListInv, Lists
  <1>2. \A k \in Modules : object'[k] = IF k = m THEN FIRST ELSE object[k]
    BY <1>1 DEF ListInv, ListTypes
  <1>3. TypeOK'
    BY <1>1 DEF ListInv, TypeOK, vars
  <1>4. ListTypes'
    BY <1>1 DEF ListInv, ListTypes
  <1>5. UNCHANGED <<objects, phase>>
    BY <1>1 DEF vars
  <1> QED
    BY <1>1, <1>2, <1>3, <1>4, <1>5 DEF ListInv, Lists, Sweeping, Link

LEMMA FreeNodeLists ==
  ASSUME ListInv, ~cut', NEW m \in Modules, FreeNode(m)
  PROVE  ListInv'
  <1> DEFINE o == Link(m)
  <1>1. /\ Sweeping(m) /\ gone[m] = NULL /\ o # NULL
        /\ objects' = [k \in Modules |-> objects[k] \ {o}]
        /\ Freed({o})
        /\ gone' = [gone EXCEPT ![m] = o]
        /\ UNCHANGED <<stackVars, numObjects, maxObjects, marked, phase, operands, making,
                       inFlight, exposed, first, next, object>>
    BY DEF FreeNode, AtNode
  <1>2. /\ o \in Chain(next, first[m]) /\ o \in Objects /\ o # object[m]
        /\ \A k \in Modules : k # m => o \notin Chain(next, first[k])
    BY <1>1, SweepStands
  <1> HIDE DEF o
  <1>3. \A k \in Modules : gone'[k] = IF k = m THEN o ELSE gone[k]
    BY <1>1 DEF ListInv, ListTypes
  <1>4. \A k \in Modules : objects'[k] = IF k = m THEN objects[m] \ {o} ELSE objects[k]
    BY <1>1, <1>2 DEF ListInv, Lists
  <1>5. TypeOK'
    BY <1>1, <1>4 DEF ListInv, TypeOK, Freed, stackVars
  <1>6. ListTypes'
    BY <1>1, <1>2 DEF ListInv, ListTypes, Value
  <1>7. \A k \in Modules : Sweeping(k)' = Sweeping(k) /\ Link(k)' = Link(k)
    BY <1>1 DEF Sweeping, Link
  <1>8. NULL \notin Objects /\ \A k \in Modules : Chain(next, first[k]) \subseteq Objects
    BY CollectorAssumption, ChainClosed DEF ListInv, ListTypes
  <1>9. objects'[m] = Chain(next, first[m]) \ {gone'[m]}
    BY <1>1, <1>3, <1>4, <1>8 DEF ListInv, Lists
  <1>10. gone'[m] # NULL => Sweeping(m)' /\ Link(m)' = gone'[m]
    BY <1>1, <1>3, <1>7 DEF o
  <1> QED
    BY <1>1, <1>2, <1>3, <1>4, <1>5, <1>6, <1>7, <1>9, <1>10 DEF ListInv, Lists

(* What the unlinking of a node does to the lists.                         *)
LEMMA UnlinkFacts ==
  ASSUME ListInv, NEW m \in Modules, Unlink(m)
  PROVE  /\ Sweeping(m) /\ gone[m] # NULL /\ gone[m] = Link(m)
         /\ gone[m] \in Chain(next, first[m]) /\ gone[m] \in Objects
         /\ first' \in [Modules -> Value] /\ next' \in [Objects -> Value]
         /\ Chain(next', first'[m]) = Chain(next, first[m]) \ {gone[m]}
         /\ ProperList(next', first'[m])
         /\ Link(m)' = next[gone[m]]
         /\ Chain(next', next[gone[m]]) = Chain(next, next[gone[m]])
         /\ \A k \in Modules : k # m =>
              /\ first'[k] = first[k]
              /\ \A n \in Chain(next, first[k]) : next'[n] = next[n]
         /\ UNCHANGED <<stackVars, objects, maxObjects, points, mutable, marked, phase, operands,
                        making, inFlight, exposed, object>>
         /\ gone' = [gone EXCEPT ![m] = NULL]
         /\ numObjects' = [numObjects EXCEPT ![m] = @ - 1]
  <1> DEFINE g == gone[m]
             p == object[m]
  <1>1. /\ g # NULL
        /\ p = FIRST => first' = [first EXCEPT ![m] = next[g]] /\ next' = next
        /\ p # FIRST => next' = [next EXCEPT ![p] = next[g]] /\ first' = first
        /\ UNCHANGED <<stackVars, objects, maxObjects, points, mutable, marked, phase, operands,
                       making, inFlight, exposed, object>>
        /\ gone' = [gone EXCEPT ![m] = NULL]
        /\ numObjects' = [numObjects EXCEPT ![m] = @ - 1]
    BY DEF Unlink, Where, OneLess
  <1>2. Sweeping(m) /\ g = Link(m)
    BY <1>1 DEF ListInv, Lists
  <1>3. /\ g \in Chain(next, first[m]) /\ g \in Objects
        /\ p # FIRST => p \in Chain(next, first[m]) /\ p \in Objects
        /\ \A k \in Modules : k # m => p \notin Chain(next, first[k])
    BY <1>1, <1>2, SweepStands
  <1>4. /\ first \in [Modules -> Value] /\ next \in [Objects -> Value] /\ first[m] \in Value
        /\ ProperList(next, first[m]) /\ next[g] \in Value
    BY <1>3 DEF ListInv, ListTypes, Lists
  <1>5. object'[m] = p
    BY <1>1
  <1> HIDE DEF g, p
  <1>6. CASE p = FIRST
    <2>1. g = first[m]
      BY <1>2, <1>6 DEF Link, p
    <2>2. Chain(next, next[g]) = Chain(next, first[m]) \ {g} /\ ProperList(next, next[g])
      BY <2>1, <1>3, <1>4, HeadOff
    <2>3. /\ first' \in [Modules -> Value] /\ first'[m] = next[g] /\ next' = next
          /\ \A k \in Modules : k # m => first'[k] = first[k]
      BY <1>1, <1>4, <1>6
    <2>4. Link(m)' = next[g]
      BY <2>3, <1>5, <1>6 DEF Link
    <2> QED
      BY <2>2, <2>3, <2>4, <1>1, <1>2, <1>3, <1>4 DEF g
  <1>7. CASE p # FIRST
    <2>1. g = next[p]
      BY <1>2, <1>7 DEF Link, p
    <2>2. /\ next' \in [Objects -> Value]
          /\ Chain(next', first[m]) = Chain(next, first[m]) \ {g}
          /\ Chain(next', next[g]) = Chain(next, next[g])
          /\ ProperList(next', first[m])
      <3>1. /\ next' \in [Objects -> Value] /\ next'[p] = next[next[p]] /\ next[p] # NULL
            /\ \A n \in Objects \ {p} : next'[n] = next[n]
        BY <2>1, <1>1, <1>3, <1>4, <1>7
      <3>2. p \in Chain(next, first[m])
        BY <1>3, <1>7
      <3> QED
        BY <2>1, <3>1, <3>2, <1>4, NodeOut
    <2>3. /\ first' = first /\ next'[p] = next[g]
          /\ \A n \in Objects : n # p => next'[n] = next[n]
      BY <1>1, <1>3, <1>4, <1>7
    <2>4. Link(m)' = next[g]
      BY <2>3, <1>5, <1>7 DEF Link
    <2>5. ASSUME NEW k \in Modules, k # m, NEW n \in Chain(next, first[k])
          PROVE  next'[n] = next[n]
      <3>1. first[k] \in Value
        BY <1>4
      <3>2. n \in Objects /\ n # p
        BY <3>1, <2>5, <1>3, <1>4, ChainClosed
      <3> QED
        BY <3>2, <2>3
    <2> QED
      BY <2>2, <2>3, <2>4, <2>5, <1>1, <1>2, <1>3, <1>4 DEF g
  <1> QED
    BY <1>6, <1>7

LEMMA UnlinkLists == ASSUME ListInv, NEW m \in Modules, Unlink(m) PROVE ListInv'
  <1>1. /\ Sweeping(m) /\ gone[m] # NULL /\ gone[m] = Link(m)
        /\ gone[m] \in Chain(next, first[m]) /\ gone[m] \in Objects
        /\ first' \in [Modules -> Value] /\ next' \in [Objects -> Value]
        /\ Chain(next', first'[m]) = Chain(next, first[m]) \ {gone[m]}
        /\ ProperList(next', first'[m])
        /\ \A k \in Modules : k # m =>
             /\ first'[k] = first[k]
             /\ \A n \in Chain(next, first[k]) : next'[n] = next[n]
        /\ UNCHANGED <<stackVars, objects, maxObjects, points, mutable, marked, phase, operands,
                       making, inFlight, exposed, object>>
        /\ gone' = [gone EXCEPT ![m] = NULL]
        /\ numObjects' = [numObjects EXCEPT ![m] = @ - 1]
    BY UnlinkFacts
  <1>2. TypeOK'
    <2>1. numObjects' \in [Modules -> Int]
      BY <1>1 DEF ListInv, TypeOK
    <2> QED
      BY <1>1, <2>1 DEF ListInv, TypeOK, stackVars
  <1>3. first \in [Modules -> Value] /\ next \in [Objects -> Value]
    BY DEF ListInv, ListTypes
  <1>4. ListTypes' /\ \A k \in Modules : gone'[k] = IF k = m THEN NULL ELSE gone[k]
    BY <1>1 DEF ListInv, ListTypes, Value
  <1>5. \A k \in Modules : k # m => /\ Chain(next', first'[k]) = Chain(next, first[k])
                                    /\ ProperList(next', first'[k])
    <2> SUFFICES ASSUME NEW k \in Modules, k # m
                 PROVE  /\ Chain(next', first'[k]) = Chain(next, first[k])
                        /\ ProperList(next', first'[k])
      OBVIOUS
    <2>1. /\ first[k] \in Value /\ first'[k] = first[k] /\ ProperList(next, first[k])
          /\ \A n \in Chain(next, first[k]) : next'[n] = next[n]
      BY <1>1, <1>3 DEF ListInv, Lists
    <2> QED
      BY <2>1, <1>1, <1>3, ChainFrame, ListFrame
  <1>6. \A k \in Modules : ProperList(next', first'[k])
    BY <1>1, <1>5
  <1>7. \A k \in Modules : Chain(next', first'[k]) \subseteq Chain(next, first[k])
    BY <1>1, <1>5
  <1>8. \A k, l \in Modules : k # l => Chain(next', first'[k]) \cap Chain(next', first'[l]) = {}
    BY <1>7 DEF ListInv, Lists
  <1>9. \A k \in Modules : objects'[k] = Chain(next', first'[k]) \ {gone'[k]}
    <2>1. NULL \notin Chain(next, first[m])
      BY <1>3, CollectorAssumption, ChainClosed
    <2>2. \A k \in Modules : objects'[k] = Chain(next, first[k]) \ {gone[k]}
      BY <1>1 DEF ListInv, Lists
    <2>3. objects'[m] = Chain(next', first'[m]) \ {gone'[m]}
      BY <2>1, <2>2, <1>1, <1>4
    <2> QED
      BY <2>2, <2>3, <1>4, <1>5
  <1>10. \A k \in Modules : Sweeping(k)' => /\ phase'[k] = "sweep"
                                            /\ object'[k] = FIRST \/ object'[k] \in objects'[k]
    BY <1>1 DEF ListInv, Lists, Sweeping
  <1>11. ASSUME NEW k \in Modules, gone'[k] # NULL
         PROVE  Sweeping(k)' /\ Link(k)' = gone'[k]
    <2>1. k # m /\ gone[k] # NULL /\ gone'[k] = gone[k]
      BY <1>4, <1>11
    <2>2. Sweeping(k) /\ Link(k) = gone[k]
      BY <2>1 DEF ListInv, Lists
    <2>3. object[k] # FIRST => object[k] \in Chain(next, first[k])
      BY <2>2, SweepStands
    <2>4. Link(k)' = Link(k)
      BY <2>1, <2>3, <1>1 DEF Link
    <2> QED
      BY <2>1, <2>2, <2>4, <1>1 DEF Sweeping
  <1>12. Lists'
    BY <1>6, <1>8, <1>9, <1>10, <1>11 DEF Lists
  <1> QED
    BY <1>2, <1>4, <1>12 DEF ListInv

LEMMA PassNodeLists == ASSUME ListInv, NEW m \in Modules, PassNode(m) PROVE ListInv'
  <1>1. /\ Sweeping(m) /\ gone[m] = NULL /\ Link(m) # NULL
        /\ marked' = marked \ {Link(m)}
        /\ object' = [object EXCEPT ![m] = Link(m)]
        /\ UNCHANGED <<stackVars, heapVars, points, mutable, phase, operands, making, inFlight,
                       exposed, first, next, gone>>
    BY DEF PassNode, AtNode, Cleared
  <1>2. Link(m) \in Value /\ Link(m) \in Chain(next, first[m]) /\ Link(m) \in Objects
    BY <1>1, SweepStands
  <1>3. Link(m) \in objects[m]
    BY <1>1, <1>2 DEF ListInv, Lists
  <1>4. \A k \in Modules : object'[k] = IF k = m THEN Link(m) ELSE object[k]
    BY <1>1 DEF ListInv, ListTypes
  <1>5. TypeOK'
    BY <1>1 DEF ListInv, TypeOK, stackVars, heapVars
  <1>6. ListTypes'
    BY <1>1, <1>2 DEF ListInv, ListTypes
  <1> QED
    BY <1>1, <1>3, <1>4, <1>5, <1>6 DEF ListInv, Lists, Sweeping, Link, heapVars

LEMMA EndSweepLists == ASSUME ListInv, NEW m \in Modules, EndSweep(m) PROVE ListInv'
  <1>1. /\ Sweeping(m) /\ gone[m] = NULL
        /\ object' = [object EXCEPT ![m] = NULL]
        /\ maxObjects' = [maxObjects EXCEPT ![m] = LimitFor(numObjects[m])]
        /\ phase' = [phase EXCEPT ![m] = "allocate"]
        /\ UNCHANGED <<stackVars, objects, numObjects, points, mutable, marked, operands, making,
                       inFlight, exposed, first, next, gone>>
    BY DEF EndSweep
  <1>2. /\ \A k \in Modules : object'[k] = IF k = m THEN NULL ELSE object[k]
        /\ \A k \in Modules : phase'[k] = IF k = m THEN "allocate" ELSE phase[k]
    BY <1>1 DEF ListInv, ListTypes, TypeOK
  <1>3. LimitFor(numObjects[m]) \in Nat
    BY LimitIsNat DEF ListInv, TypeOK
  <1>4. TypeOK'
    BY <1>1, <1>3 DEF ListInv, TypeOK, stackVars
  <1>5. ListTypes'
    BY <1>1 DEF ListInv, ListTypes, Value
  <1> QED
    BY <1>1, <1>2, <1>4, <1>5 DEF ListInv, Lists, Sweeping, Link

LEMMA AllocateFirstLists ==
  ASSUME ListInv, ~cut', NEW m \in Modules, NEW o \in Objects, AllocateFirst(m, o)
  PROVE  ListInv'
  <1>1. /\ Allocate(m, o)
        /\ \A k \in Modules : gone[k] # o
        /\ next' = [next EXCEPT ![o] = first[m]]
        /\ first' = [first EXCEPT ![m] = o]
        /\ UNCHANGED <<object, gone>>
    BY DEF AllocateFirst
  <1>2. /\ phase[m] = "allocate" /\ o \notin Live
        /\ objects' = [objects EXCEPT ![m] = @ \cup {o}]
        /\ phase' = [phase EXCEPT ![m] = "run"]
    BY <1>1 DEF Allocate
  <1>3. TypeOK'
    <2>1. Next
      BY <1>1 DEF Next
    <2> QED
      BY <2>1, TypeStep DEF ListInv
  <1>4. first \in [Modules -> Value] /\ next \in [Objects -> Value]
    BY DEF ListInv, ListTypes
  <1>5. /\ ListTypes'
        /\ \A k \in Modules : first'[k] = IF k = m THEN o ELSE first[k]
        /\ \A n \in Objects : n # o => next'[n] = next[n]
    BY <1>1, <1>4 DEF ListInv, ListTypes, Value
  <1>6. \A k \in Modules : o \notin Chain(next, first[k])
    BY <1>1, <1>2 DEF ListInv, Lists, Live
  <1>7. /\ next' \in [Objects -> Value]
        /\ Chain(next', o) = {o} \cup Chain(next, first[m])
        /\ ProperList(next', o)
    <2>1. first[m] \in Value /\ ProperList(next, first[m]) /\ o \in Objects \ Chain(next, first[m])
      BY <1>4, <1>6 DEF ListInv, Lists
    <2> QED
      BY <2>1, <1>1, <1>4, HeadOn
  <1>8. \A k \in Modules : k # m => /\ Chain(next', first'[k]) = Chain(next, first[k])
                                    /\ ProperList(next', first'[k])
    <2> SUFFICES ASSUME NEW k \in Modules, k # m
                 PROVE  /\ Chain(next', first'[k]) = Chain(next, first[k])
                        /\ ProperList(next', first'[k])
      OBVIOUS
    <2>1. first[k] \in Value /\ first'[k] = first[k] /\ ProperList(next, first[k])
      BY <1>4, <1>5 DEF ListInv, Lists
    <2>2. \A n \in Chain(next, first[k]) : next'[n] = next[n]
      BY <2>1, <1>4, <1>5, <1>6, ChainClosed
    <2> QED
      BY <2>1, <2>2, <1>4, <1>7, ChainFrame, ListFrame
  <1>9. \A k \in Modules : ProperList(next', first'[k])
    BY <1>5, <1>7, <1>8
  <1>10. \A k, l \in Modules : k # l => Chain(next', first'[k]) \cap Chain(next', first'[l]) = {}
    BY <1>5, <1>6, <1>7, <1>8 DEF ListInv, Lists
  <1>11. ~Sweeping(m) /\ gone[m] = NULL
    BY <1>2 DEF ListInv, Lists
  <1>12. \A k \in Modules : objects'[k] = Chain(next', first'[k]) \ {gone'[k]}
    <2>1. objects'[m] = objects[m] \cup {o} /\ \A k \in Modules : k # m => objects'[k] = objects[k]
      BY <1>2 DEF ListInv, TypeOK
    <2>2. \A k \in Modules : objects[k] = Chain(next, first[k]) \ {gone[k]}
      BY DEF ListInv, Lists
    <2>3. objects'[m] = Chain(next', first'[m]) \ {gone'[m]}
      BY <2>1, <2>2, <1>1, <1>5, <1>7, <1>11, ZenonT(30)
    <2> QED
      BY <2>1, <2>2, <2>3, <1>1, <1>8
  <1>13. \A k \in Modules : Sweeping(k)' =>
            /\ k # m /\ Sweeping(k)
            /\ phase'[k] = "sweep"
            /\ object'[k] = FIRST \/ object'[k] \in objects'[k]
    BY <1>1, <1>2, <1>11 DEF ListInv, Lists, Sweeping, TypeOK
  <1>14. ASSUME NEW k \in Modules, gone'[k] # NULL
         PROVE  Sweeping(k)' /\ Link(k)' = gone'[k]
    <2>1. k # m /\ gone[k] # NULL /\ gone'[k] = gone[k]
      BY <1>1, <1>11, <1>14
    <2>2. Sweeping(k) /\ Link(k) = gone[k]
      BY <2>1 DEF ListInv, Lists
    <2>3. object[k] # FIRST => object[k] \in Objects /\ object[k] # o
      BY <2>2, <1>6, SweepStands
    <2>4. Link(k)' = Link(k)
      BY <2>1, <2>3, <1>1, <1>5 DEF Link
    <2> QED
      BY <2>1, <2>2, <2>4, <1>1 DEF Sweeping
  <1>15. Lists'
    BY <1>9, <1>10, <1>12, <1>13, <1>14 DEF Lists
  <1> QED
    BY <1>3, <1>5, <1>15 DEF ListInv

LEMMA ForceSweepLists == ASSUME ListInv, NEW m \in Modules, ForceSweepList(m) PROVE ListInv'
  <1> DEFINE nodes == Nodes(first[m])
  <1>1. /\ phase[m] = "run"
        /\ objects' = [k \in Modules |-> objects[k] \ nodes]
        /\ Freed(nodes)
        /\ numObjects' = [numObjects EXCEPT ![m] = 0]
        /\ first' = [first EXCEPT ![m] = NULL]
        /\ phase' = [phase EXCEPT ![m] = "over"]
        /\ sp' = [sp EXCEPT ![m] = 0]
        /\ UNCHANGED <<stack, maxObjects, marked, operands, making, inFlight, exposed, next, object,
                       gone>>
    BY DEF ForceSweepList
  <1>2. nodes = Chain(next, first[m])
    BY NodesAreChain
  <1> HIDE DEF nodes
  <1>3. ~Sweeping(m) /\ gone[m] = NULL
    BY <1>1 DEF ListInv, Lists
  <1>4. first \in [Modules -> Value] /\ next \in [Objects -> Value]
    BY DEF ListInv, ListTypes
  <1>5. TypeOK'
    <2>1. /\ objects' \in [Modules -> SUBSET Objects] /\ numObjects' \in [Modules -> Int]
          /\ points' \in [Objects -> SUBSET Objects] /\ mutable' \subseteq Objects
          /\ phase' \in [Modules -> {"unborn", "run", "mark", "sweep", "allocate", "over"}]
          /\ sp' \in [Modules -> 0 .. Depth]
      BY <1>1, CollectorAssumption DEF ListInv, TypeOK, Freed
    <2> QED
      BY <1>1, <2>1 DEF ListInv, TypeOK
  <1>6. ListTypes' /\ \A k \in Modules : first'[k] = IF k = m THEN NULL ELSE first[k]
    BY <1>1, <1>4 DEF ListInv, ListTypes, Value
  <1>7. Chain(next, NULL) = {} /\ ProperList(next, NULL)
    BY <1>4, ChainOfNull DEF ProperList
  <1>8. \A k \in Modules : objects'[k] = IF k = m THEN {} ELSE objects[k]
    BY <1>1, <1>2 DEF ListInv, Lists
  <1>9. \A k \in Modules :
          /\ ProperList(next', first'[k])
          /\ Chain(next', first'[k]) \subseteq Chain(next, first[k])
          /\ objects'[k] = Chain(next', first'[k]) \ {gone'[k]}
    BY <1>1, <1>6, <1>7, <1>8 DEF ListInv, Lists
  <1>10. \A k, l \in Modules : k # l => Chain(next', first'[k]) \cap Chain(next', first'[l]) = {}
    BY <1>9 DEF ListInv, Lists
  <1>11. ASSUME NEW k \in Modules, Sweeping(k)'
         PROVE  /\ k # m /\ Sweeping(k) /\ phase'[k] = "sweep" /\ Link(k)' = Link(k)
                /\ object'[k] = FIRST \/ object'[k] \in objects'[k]
    <2>1. k # m /\ Sweeping(k)
      BY <1>1, <1>3, <1>11 DEF Sweeping
    <2>2. phase'[k] = phase[k]
      BY <2>1, <1>1 DEF ListInv, TypeOK
    <2> QED
      BY <2>1, <2>2, <1>1, <1>6, <1>8 DEF ListInv, Lists, Link
  <1>12. \A k \in Modules : gone'[k] # NULL => Sweeping(k)' /\ Link(k)' = gone'[k]
    BY <1>1, <1>11 DEF ListInv, Lists, Sweeping
  <1>13. Lists'
    BY <1>9, <1>10, <1>11, <1>12 DEF Lists
  <1> QED
    BY <1>5, <1>6, <1>13 DEF ListInv
-----------------------------------------------------------------------------
LEMMA ListInitInv == ListInit => ListInv
  <1> SUFFICES ASSUME ListInit PROVE ListInv
    OBVIOUS
  <1>1. TypeOK /\ \A m \in Modules : objects[m] = {}
    BY InitIInv DEF ListInit, UntilExposed, Init
  <1>2. ListTypes /\ \A m \in Modules : first[m] = NULL /\ gone[m] = NULL /\ ~Sweeping(m)
    BY DEF ListInit, ListTypes, Value, Sweeping
  <1>3. Chain(next, NULL) = {}
    BY <1>2, ChainOfNull DEF ListTypes
  <1> QED
    BY <1>1, <1>2, <1>3 DEF ListInv, Lists, ProperList

(* What is cut stays so.                                                   *)
LEMMA CutStays == ASSUME [ListNext]_heapListVars, cut PROVE cut'
  <1>1. CASE UNCHANGED heapListVars
    BY <1>1 DEF heapListVars, listVars
  <1>2. CASE ListNext
    BY <1>2 DEF ListNext, Program, listVars, BeginSweep, FreeNode, Unlink, PassNode, EndSweep,
       AllocateFirst, ForceSweepList
  <1> QED
    BY <1>1, <1>2

LEMMA ListStep == ASSUME ListInv, ~cut', [ListNext]_heapListVars PROVE ListInv'
  <1>1. CASE UNCHANGED heapListVars
    BY <1>1
    DEF heapListVars, vars, listVars, ListInv, TypeOK, ListTypes, Lists, Sweeping, Link
  <1>2. CASE ListNext
    BY <1>2, ProgramLists, BeginSweepLists, FreeNodeLists, UnlinkLists, PassNodeLists,
       EndSweepLists, AllocateFirstLists, ForceSweepLists
    DEF ListNext
  <1> QED
    BY <1>1, <1>2

UntilCut == ~cut => ListInv

LEMMA ListInvariance == ListSpec => []UntilCut
  <1>1. UntilCut /\ [ListNext]_heapListVars => UntilCut'
    BY CutStays, ListStep DEF UntilCut
  <1> QED
    BY <1>1, ListInitInv, PTL DEF ListSpec, UntilCut

(* Whatever the programs do and wherever sweeps stand, the objects that a  *)
(* module has allocated and not freed are those on its list, and the list  *)
(* ends: sweep unlinks what it frees and nothing else (value.c, sweep), as *)
(* long as every freed node kept its next until sweep had read it.         *)
THEOREM ListHoldsWhatIsAllocated == ListSpec => []ListHoldsTheObjects
  <1>1. UntilCut => ListHoldsTheObjects
    BY NodesAreChain
    DEF UntilCut, ListInv, Lists, ProperList, ListHoldsTheObjects, ListIsWhole
  <1> QED
    BY <1>1, ListInvariance, PTL
-----------------------------------------------------------------------------
(* The state that GarbageCollector is in, as in HeapList!Abstract.         *)
LeftObjects == [m \in Modules |-> LeftTo(m)]

LeftCount ==
  [m \in Modules |-> IF Sweeping(m) THEN Cardinality(LeftTo(m)) ELSE numObjects[m]]

LeftLimit ==
  [m \in Modules |-> IF Sweeping(m) THEN LimitFor(Cardinality(LeftTo(m))) ELSE maxObjects[m]]

LeftPoints == [o \in Objects |-> IF o \in DoomedByAll THEN {} ELSE points[o]]

LeftMutable == mutable \ DoomedByAll

LeftMarks == marked \ UNION {Ahead(m) : m \in Modules}

LeftPhase == [m \in Modules |-> IF Sweeping(m) THEN "allocate" ELSE phase[m]]

leftVars == <<LeftObjects, LeftCount, LeftLimit, LeftPoints, LeftMutable, LeftMarks, LeftPhase>>

Left == INSTANCE GarbageCollector_proofs WITH
  objects <- LeftObjects, numObjects <- LeftCount, maxObjects <- LeftLimit, points <- LeftPoints,
  mutable <- LeftMutable, marked <- LeftMarks, phase <- LeftPhase

(* The count includes the freed node that is still on the list.            *)
ListCounts ==
  \A m \in Modules :
    numObjects[m] = Cardinality(objects[m]) + (IF gone[m] = NULL THEN 0 ELSE 1)

(* Where a sweep under way goes on.                                        *)
Rest(m) == IF gone[m] = NULL THEN Link(m) ELSE next[gone[m]]

(* What is ahead of a sweep are objects of its own module.                 *)
AheadIsOwn ==
  \A m \in Modules :
    /\ Ahead(m) \subseteq objects[m] /\ objects[m] \subseteq Objects
    /\ ~Sweeping(m) => Ahead(m) = {}
    /\ Sweeping(m) => Rest(m) \in Value /\ Ahead(m) = Chain(next, Rest(m))
    /\ \A k \in Modules : k # m => objects[m] \cap objects[k] = {}

LEMMA AheadFacts == ListInv => AheadIsOwn
  <1> SUFFICES ASSUME ListInv, NEW m \in Modules
               PROVE  /\ Ahead(m) \subseteq objects[m] /\ objects[m] \subseteq Objects
                      /\ ~Sweeping(m) => Ahead(m) = {}
                      /\ Sweeping(m) => Rest(m) \in Value /\ Ahead(m) = Chain(next, Rest(m))
                      /\ \A k \in Modules : k # m => objects[m] \cap objects[k] = {}
    BY DEF AheadIsOwn
  <1>1. /\ next \in [Objects -> Value] /\ first[m] \in Value /\ ProperList(next, first[m])
        /\ objects[m] = Chain(next, first[m]) \ {gone[m]}
        /\ \A k \in Modules : k # m => objects[m] \cap objects[k] = {}
    BY DEF ListInv, ListTypes, Lists
  <1>2. /\ ~Sweeping(m) => Ahead(m) = {}
        /\ Sweeping(m) => Ahead(m) = Chain(next, Rest(m))
    BY NodesAreChain DEF Ahead, Rest
  <1>3. NULL \notin Chain(next, first[m]) /\ Chain(next, first[m]) \subseteq Objects
    BY <1>1, CollectorAssumption, ChainClosed
  <1>4. CASE Sweeping(m) /\ gone[m] = NULL
    <2>1. Rest(m) = Link(m) /\ Link(m) \in Value
      BY <1>4, SweepStands DEF Rest
    <2>2. CASE Link(m) = NULL
      BY <2>1, <2>2, <1>1, <1>2, <1>3, <1>4, ChainOfNull
    <2>3. CASE Link(m) # NULL
      <3>1. Link(m) \in Chain(next, first[m])
        BY <2>3, <1>4, SweepStands
      <3>2. Chain(next, Link(m)) \subseteq Chain(next, first[m])
        BY <3>1, <1>1, ChainWithin
      <3> QED
        BY <3>2, <2>1, <1>1, <1>2, <1>3, <1>4
    <2> QED
      BY <2>2, <2>3
  <1>5. CASE Sweeping(m) /\ gone[m] # NULL
    <2>1. gone[m] = Link(m)
      BY <1>5 DEF ListInv, Lists
    <2>2. gone[m] \in Chain(next, first[m]) /\ Rest(m) = next[gone[m]] /\ Rest(m) \in Value
      BY <2>1, <1>1, <1>5, SweepStands DEF Rest
    <2>3. Chain(next, next[gone[m]]) \subseteq Chain(next, first[m])
      BY <2>2, <1>1, ChainWithin
    <2>4. gone[m] \notin Chain(next, next[gone[m]])
      BY <2>2, <1>1 DEF ProperList
    <2> QED
      BY <2>2, <2>3, <2>4, <1>1, <1>2, <1>3, <1>5
  <1> QED
    BY <1>1, <1>2, <1>3, <1>4, <1>5

LEMMA AheadFactsAfter == ListInv' => AheadIsOwn'
  BY AheadFacts, PTL

(* A sweep that stays where it is, on links that stay as they are, has the *)
(* same nodes ahead.                                                       *)
LEMMA AheadFrame ==
  ASSUME ListInv, ListInv', NEW k \in Modules, Sweeping(k)' <=> Sweeping(k),
         Sweeping(k) => Rest(k)' = Rest(k),
         Sweeping(k) => \A n \in Chain(next, Rest(k)) : next'[n] = next[n]
  PROVE  Ahead(k)' = Ahead(k)
  <1>1. next \in [Objects -> Value] /\ next' \in [Objects -> Value]
    BY DEF ListInv, ListTypes
  <1>2. /\ ~Sweeping(k) => Ahead(k) = {}
        /\ Sweeping(k) => Rest(k) \in Value /\ Ahead(k) = Chain(next, Rest(k))
    BY AheadFacts DEF AheadIsOwn
  <1>3. /\ ~Sweeping(k)' => Ahead(k)' = {}
        /\ Sweeping(k)' => Ahead(k)' = Chain(next', Rest(k)')
    BY AheadFactsAfter DEF AheadIsOwn
  <1>4. CASE Sweeping(k)
    BY <1>1, <1>2, <1>3, <1>4, ChainFrame
  <1>5. CASE ~Sweeping(k)
    BY <1>2, <1>3, <1>5
  <1> QED
    BY <1>4, <1>5

(* What sweep will free and what it will leave.                            *)
LeftIsSwept ==
  /\ \A o : o \in DoomedByAll <=> \E m \in Modules : o \in Ahead(m) /\ o \notin marked
  /\ \A o : o \in LeftMarks <=> o \in marked /\ \A m \in Modules : o \notin Ahead(m)
  /\ \A m \in Modules :
       /\ LeftObjects[m] = objects[m] \ (Ahead(m) \ marked)
       /\ LeftObjects[m] = objects[m] \ DoomedByAll
       /\ ~Sweeping(m) => /\ LeftObjects[m] = objects[m]
                          /\ LeftCount[m] = numObjects[m]
                          /\ LeftLimit[m] = maxObjects[m]
                          /\ LeftPhase[m] = phase[m]
                          /\ objects[m] \cap DoomedByAll = {}
                          /\ LeftMarks \cap objects[m] = marked \cap objects[m]
       /\ Sweeping(m) => /\ LeftCount[m] = Cardinality(LeftObjects[m])
                         /\ LeftLimit[m] = LimitFor(Cardinality(LeftObjects[m]))
                         /\ LeftPhase[m] = "allocate"
  /\ DoomedByAll \subseteq Objects
  /\ \A o \in Objects : LeftPoints[o] = IF o \in DoomedByAll THEN {} ELSE points[o]

LEMMA LeftFacts == ListInv => LeftIsSwept
  <1> SUFFICES ASSUME ListInv PROVE LeftIsSwept
    OBVIOUS
  <1> USE AheadFacts
  <1>1. \A o : o \in DoomedByAll <=> \E m \in Modules : o \in Ahead(m) /\ o \notin marked
    BY DEF DoomedByAll, Doomed
  <1>2. \A m \in Modules : LeftObjects[m] = objects[m] \ (Ahead(m) \ marked)
    BY DEF LeftObjects, LeftTo, Doomed
  <1>3. \A m \in Modules : /\ ~Sweeping(m) => /\ LeftCount[m] = numObjects[m]
                                              /\ LeftLimit[m] = maxObjects[m]
                                              /\ LeftPhase[m] = phase[m]
                           /\ Sweeping(m) => /\ LeftCount[m] = Cardinality(LeftObjects[m])
                                             /\ LeftLimit[m] = LimitFor(Cardinality(LeftObjects[m]))
                                             /\ LeftPhase[m] = "allocate"
    BY DEF LeftObjects, LeftCount, LeftLimit, LeftPhase
  <1>4. \A m \in Modules : objects[m] \cap DoomedByAll = Ahead(m) \ marked
    BY <1>1 DEF AheadIsOwn
  <1>5. \A o : o \in LeftMarks <=> o \in marked /\ \A m \in Modules : o \notin Ahead(m)
    BY DEF LeftMarks
  <1>6. \A m \in Modules : ~Sweeping(m) => LeftMarks \cap objects[m] = marked \cap objects[m]
    BY <1>5 DEF AheadIsOwn
  <1>7. DoomedByAll \subseteq Objects
    BY <1>1 DEF AheadIsOwn
  <1>8. \A m \in Modules : ~Sweeping(m) => Ahead(m) = {}
    BY DEF AheadIsOwn
  <1>9. \A o \in Objects : LeftPoints[o] = IF o \in DoomedByAll THEN {} ELSE points[o]
    BY DEF LeftPoints
  <1>10. \A m \in Modules : LeftObjects[m] = objects[m] \ DoomedByAll
    BY <1>2, <1>4
  <1>11. \A m \in Modules : ~Sweeping(m) => /\ objects[m] \cap DoomedByAll = {}
                                            /\ LeftObjects[m] = objects[m]
    BY <1>2, <1>4, <1>8
  <1> QED
    BY <1>1, <1>2, <1>3, <1>5, <1>6, <1>7, <1>9, <1>10, <1>11 DEF LeftIsSwept

LEMMA LeftFactsAfter == ListInv' => LeftIsSwept'
  BY LeftFacts, PTL

(* Where nothing changes on the list of k, nothing changes ahead of it.    *)
LEMMA AheadElsewhere ==
  ASSUME ListInv, ListInv', NEW k \in Modules,
         object'[k] = object[k], gone'[k] = gone[k],
         Sweeping(k) => /\ first'[k] = first[k]
                        /\ \A n \in Chain(next, first[k]) : next'[n] = next[n]
  PROVE  Ahead(k)' = Ahead(k) /\ (Sweeping(k)' <=> Sweeping(k))
  <1>1. Sweeping(k)' <=> Sweeping(k)
    BY DEF Sweeping
  <1>2. ASSUME Sweeping(k)
        PROVE  /\ Rest(k)' = Rest(k)
               /\ \A n \in Chain(next, Rest(k)) : next'[n] = next[n]
    <2>1. /\ object[k] # FIRST => object[k] \in Chain(next, first[k])
          /\ Link(k) # NULL => Link(k) \in Chain(next, first[k])
      BY <1>2, SweepStands
    <2>2. Link(k)' = Link(k)
      BY <2>1, <1>2 DEF Link
    <2>3. gone[k] # NULL => gone[k] = Link(k)
      BY DEF ListInv, Lists
    <2>4. Rest(k)' = Rest(k)
      BY <2>1, <2>2, <2>3, <1>2 DEF Rest
    <2>5. Chain(next, Rest(k)) \subseteq Chain(next, first[k])
      BY <1>2, AheadFacts DEF AheadIsOwn, ListInv, Lists
    <2> QED
      BY <2>4, <2>5, <1>2
  <1> QED
    BY <1>1, <1>2, AheadFrame

LEMMA ProgramAhead ==
  ASSUME ListInv, ListInv', NEW m \in Modules, Program(m)
  PROVE  \A k \in Modules : Ahead(k)' = Ahead(k) /\ (Sweeping(k)' <=> Sweeping(k))
  <1>1. UNCHANGED <<first, next, object, gone>>
    BY DEF Program, listVars
  <1> QED
    BY <1>1, AheadElsewhere

(* Between the steps of a sweep the list is what the module has allocated. *)
LEMMA NoneGone ==
  ASSUME ListInv, NEW m \in Modules, gone[m] = NULL
  PROVE  Nodes(first[m]) = objects[m]
  <1>1. first[m] \in Value /\ next \in [Objects -> Value]
    BY DEF ListInv, ListTypes
  <1>2. NULL \notin Chain(next, first[m])
    BY <1>1, CollectorAssumption, ChainClosed
  <1> QED
    BY <1>2, NodesAreChain DEF ListInv, Lists

LEMMA BeginSweepAhead ==
  ASSUME ListInv, ListInv', NEW m \in Modules, BeginSweep(m)
  PROVE  /\ Ahead(m) = {} /\ Ahead(m)' = objects[m]
         /\ ~Sweeping(m) /\ Sweeping(m)'
         /\ \A k \in Modules : k # m => Ahead(k)' = Ahead(k) /\ (Sweeping(k)' <=> Sweeping(k))
  <1>1. /\ ~Sweeping(m) /\ gone[m] = NULL /\ phase[m] = "sweep"
        /\ object' = [object EXCEPT ![m] = FIRST]
        /\ UNCHANGED <<first, next, gone>>
    BY DEF BeginSweep, ListInv, Lists
  <1>2. /\ object'[m] = FIRST
        /\ \A k \in Modules : k # m => object'[k] = object[k]
    BY <1>1 DEF ListInv, ListTypes
  <1>3. Sweeping(m)' /\ Rest(m)' = first[m]
    BY <1>1, <1>2, ListAssumption DEF Sweeping, Rest, Link, Value
  <1>4. Ahead(m)' = Chain(next, first[m])
    BY <1>1, <1>3, AheadFactsAfter DEF AheadIsOwn
  <1>5. objects[m] = Chain(next, first[m])
    BY <1>1, NoneGone, NodesAreChain
  <1>6. Ahead(m) = {}
    BY <1>1, AheadFacts DEF AheadIsOwn
  <1> QED
    BY <1>1, <1>2, <1>3, <1>4, <1>5, <1>6, AheadElsewhere

(* A node that sweep comes to is the first one ahead of it.                *)
LEMMA NodeAhead ==
  ASSUME ListInv, NEW m \in Modules, AtNode(m)
  PROVE  /\ Sweeping(m) /\ gone[m] = NULL /\ Link(m) # NULL
         /\ Link(m) \in Ahead(m) /\ Link(m) \in Objects /\ Link(m) \in objects[m]
         /\ next[Link(m)] \in Value
         /\ Chain(next, next[Link(m)]) = Ahead(m) \ {Link(m)}
  <1>1. Sweeping(m) /\ gone[m] = NULL /\ Link(m) # NULL
    BY DEF AtNode
  <1>2. /\ Link(m) \in Chain(next, first[m]) /\ Link(m) \in Objects
        /\ next \in [Objects -> Value] /\ ProperList(next, first[m])
    BY <1>1, SweepStands DEF ListInv, ListTypes, Lists
  <1>3. Ahead(m) = Chain(next, Link(m)) /\ Ahead(m) \subseteq objects[m]
    BY <1>1, AheadFacts DEF AheadIsOwn, Rest
  <1>4. Chain(next, Link(m)) = {Link(m)} \cup Chain(next, next[Link(m)])
    BY <1>2, ChainStep
  <1>5. Link(m) \notin Chain(next, next[Link(m)])
    BY <1>2 DEF ProperList
  <1> QED
    BY <1>1, <1>2, <1>3, <1>4, <1>5

LEMMA FreeNodeAhead ==
  ASSUME ListInv, ListInv', ~cut', NEW m \in Modules, FreeNode(m)
  PROVE  /\ Ahead(m)' = Ahead(m) \ {Link(m)}
         /\ Sweeping(m) /\ Sweeping(m)'
         /\ \A k \in Modules : k # m => Ahead(k)' = Ahead(k) /\ (Sweeping(k)' <=> Sweeping(k))
  <1>1. /\ AtNode(m)
        /\ gone' = [gone EXCEPT ![m] = Link(m)]
        /\ UNCHANGED <<first, next, object>>
    BY DEF FreeNode
  <1>2. /\ gone'[m] = Link(m)
        /\ \A k \in Modules : k # m => gone'[k] = gone[k]
    BY <1>1 DEF ListInv, ListTypes
  <1>3. Sweeping(m)' /\ Rest(m)' = next[Link(m)]
    BY <1>1, <1>2, NodeAhead DEF Sweeping, Rest
  <1>4. Ahead(m)' = Chain(next, next[Link(m)])
    BY <1>1, <1>3, AheadFactsAfter DEF AheadIsOwn
  <1> QED
    BY <1>1, <1>2, <1>3, <1>4, NodeAhead, AheadElsewhere

LEMMA PassNodeAhead ==
  ASSUME ListInv, ListInv', NEW m \in Modules, PassNode(m)
  PROVE  /\ Ahead(m)' = Ahead(m) \ {Link(m)}
         /\ Sweeping(m) /\ Sweeping(m)'
         /\ \A k \in Modules : k # m => Ahead(k)' = Ahead(k) /\ (Sweeping(k)' <=> Sweeping(k))
  <1>1. /\ AtNode(m)
        /\ object' = [object EXCEPT ![m] = Link(m)]
        /\ UNCHANGED <<first, next, gone>>
    BY DEF PassNode
  <1>2. /\ object'[m] = Link(m)
        /\ \A k \in Modules : k # m => object'[k] = object[k]
    BY <1>1 DEF ListInv, ListTypes
  <1>3. Link(m) # FIRST /\ Link(m) # NULL /\ gone[m] = NULL
    BY <1>1, NodeAhead, ListAssumption DEF Value
  <1>4. Sweeping(m)' /\ Rest(m)' = next[Link(m)]
    BY <1>1, <1>2, <1>3 DEF Sweeping, Rest, Link
  <1>5. Ahead(m)' = Chain(next, next[Link(m)])
    BY <1>1, <1>4, AheadFactsAfter DEF AheadIsOwn
  <1> QED
    BY <1>1, <1>2, <1>4, <1>5, NodeAhead, AheadElsewhere

LEMMA EndSweepAhead ==
  ASSUME ListInv, ListInv', NEW m \in Modules, EndSweep(m)
  PROVE  /\ Ahead(m) = {} /\ Ahead(m)' = {}
         /\ Sweeping(m) /\ ~Sweeping(m)'
         /\ \A k \in Modules : k # m => Ahead(k)' = Ahead(k) /\ (Sweeping(k)' <=> Sweeping(k))
  <1>1. /\ Sweeping(m) /\ gone[m] = NULL /\ Link(m) = NULL
        /\ object' = [object EXCEPT ![m] = NULL]
        /\ UNCHANGED <<first, next, gone>>
    BY DEF EndSweep
  <1>2. /\ object'[m] = NULL
        /\ \A k \in Modules : k # m => object'[k] = object[k]
    BY <1>1 DEF ListInv, ListTypes
  <1>3. Ahead(m) = {}
    <2>1. Ahead(m) = Chain(next, NULL) /\ next \in [Objects -> Value]
      BY <1>1, AheadFacts DEF AheadIsOwn, Rest, ListInv, ListTypes
    <2> QED
      BY <2>1, ChainOfNull
  <1>4. ~Sweeping(m)' /\ Ahead(m)' = {}
    BY <1>2, AheadFactsAfter DEF AheadIsOwn, Sweeping
  <1> QED
    BY <1>1, <1>2, <1>3, <1>4, AheadElsewhere

LEMMA UnlinkAhead ==
  ASSUME ListInv, ListInv', NEW m \in Modules, Unlink(m)
  PROVE  /\ Sweeping(m)
         /\ \A k \in Modules : Ahead(k)' = Ahead(k) /\ (Sweeping(k)' <=> Sweeping(k))
  <1>1. /\ Sweeping(m) /\ gone[m] # NULL
        /\ Link(m)' = next[gone[m]]
        /\ Chain(next', next[gone[m]]) = Chain(next, next[gone[m]])
        /\ \A k \in Modules : k # m => /\ first'[k] = first[k]
                                       /\ \A n \in Chain(next, first[k]) : next'[n] = next[n]
        /\ object' = object
        /\ gone' = [gone EXCEPT ![m] = NULL]
    BY UnlinkFacts
  <1>2. /\ gone'[m] = NULL
        /\ \A k \in Modules : k # m => gone'[k] = gone[k]
    BY <1>1 DEF ListInv, ListTypes
  <1>3. Sweeping(m)' /\ Rest(m)' = next[gone[m]] /\ Rest(m) = next[gone[m]]
    BY <1>1, <1>2 DEF Sweeping, Rest
  <1>4. /\ Ahead(m)' = Chain(next', next[gone[m]])
        /\ Ahead(m) = Chain(next, next[gone[m]])
    BY <1>1, <1>3, AheadFacts, AheadFactsAfter DEF AheadIsOwn
  <1> QED
    BY <1>1, <1>2, <1>3, <1>4, AheadElsewhere

LEMMA AllocateAhead ==
  ASSUME ListInv, ListInv', ~cut', NEW m \in Modules, NEW o \in Objects, AllocateFirst(m, o)
  PROVE  /\ ~Sweeping(m)
         /\ \A k \in Modules : Ahead(k)' = Ahead(k) /\ (Sweeping(k)' <=> Sweeping(k))
  <1>1. /\ phase[m] = "allocate" /\ o \notin Live
        /\ \A k \in Modules : gone[k] # o
        /\ next' = [next EXCEPT ![o] = first[m]]
        /\ first' = [first EXCEPT ![m] = o]
        /\ UNCHANGED <<object, gone>>
    BY DEF AllocateFirst, Allocate
  <1>2. ~Sweeping(m)
    BY <1>1 DEF ListInv, Lists
  <1>3. ASSUME NEW k \in Modules, k # m
        PROVE  first'[k] = first[k] /\ \A n \in Chain(next, first[k]) : next'[n] = next[n]
    <2>1. first[k] \in Value /\ first'[k] = first[k] /\ next \in [Objects -> Value]
      BY <1>1, <1>3 DEF ListInv, ListTypes
    <2>2. o \notin Chain(next, first[k])
      BY <1>1 DEF ListInv, Lists, Live
    <2> QED
      BY <2>1, <2>2, <1>1, ChainClosed
  <1> QED
    BY <1>1, <1>2, <1>3, AheadElsewhere

LEMMA ForceSweepAhead ==
  ASSUME ListInv, ListInv', NEW m \in Modules, ForceSweepList(m)
  PROVE  /\ ~Sweeping(m)
         /\ \A k \in Modules : Ahead(k)' = Ahead(k) /\ (Sweeping(k)' <=> Sweeping(k))
  <1>1. /\ phase[m] = "run"
        /\ first' = [first EXCEPT ![m] = NULL]
        /\ UNCHANGED <<next, object, gone>>
    BY DEF ForceSweepList
  <1>2. ~Sweeping(m)
    BY <1>1 DEF ListInv, Lists
  <1>3. \A k \in Modules : k # m => first'[k] = first[k]
    BY <1>1 DEF ListInv, ListTypes
  <1> QED
    BY <1>1, <1>2, <1>3, AheadElsewhere

-----------------------------------------------------------------------------
(* The count keeps up with the list.                                       *)
LEMMA ListCountsStep ==
  ASSUME ListInv, ListInv', ~cut', ListCounts, [ListNext]_heapListVars
  PROVE  ListCounts'
  <1>1. \A k \in Modules : /\ IsFiniteSet(objects[k]) /\ objects[k] \subseteq Objects
                           /\ Cardinality(objects[k]) \in Nat
    <2> SUFFICES ASSUME NEW k \in Modules
                 PROVE  /\ IsFiniteSet(objects[k]) /\ objects[k] \subseteq Objects
                        /\ Cardinality(objects[k]) \in Nat
      OBVIOUS
    <2>1. objects[k] \subseteq Objects /\ IsFiniteSet(Objects)
      BY CollectorAssumption DEF ListInv, TypeOK
    <2>2. IsFiniteSet(objects[k])
      BY <2>1, FS_Subset
    <2> QED
      BY <2>1, <2>2, FS_CardinalityType
  <1>2. /\ objects \in [Modules -> SUBSET Objects] /\ numObjects \in [Modules -> Int]
        /\ gone \in [Modules -> Value]
    BY DEF ListInv, TypeOK, ListTypes
  <1>3. ASSUME UNCHANGED <<objects, numObjects, gone>>
        PROVE  ListCounts'
    BY <1>3 DEF ListCounts
  <1>4. CASE UNCHANGED heapListVars
    BY <1>3, <1>4 DEF heapListVars, vars, listVars
  <1>5. ASSUME NEW m \in Modules, Program(m) PROVE ListCounts'
    <2>1. UNCHANGED heapVars /\ UNCHANGED listVars
      BY <1>5, ProgramFacts DEF ListInv
    <2> QED
      BY <2>1, <1>3 DEF heapVars, listVars
  <1>6. ASSUME NEW m \in Modules, BeginSweep(m) PROVE ListCounts'
    BY <1>3, <1>6 DEF BeginSweep, vars
  <1>7. ASSUME NEW m \in Modules, FreeNode(m) PROVE ListCounts'
    <2>1. /\ gone[m] = NULL /\ Link(m) # NULL /\ Link(m) \in objects[m]
          /\ objects' = [k \in Modules |-> objects[k] \ {Link(m)}]
          /\ gone' = [gone EXCEPT ![m] = Link(m)]
          /\ numObjects' = numObjects
      BY <1>7, NodeAhead DEF FreeNode
    <2>2. /\ gone'[m] # NULL /\ objects'[m] = objects[m] \ {Link(m)}
          /\ \A k \in Modules : k # m => gone'[k] = gone[k] /\ objects'[k] = objects[k]
      BY <2>1, <1>2, AheadFacts DEF AheadIsOwn
    <2>3. Cardinality(objects'[m]) = Cardinality(objects[m]) - 1
      BY <2>1, <2>2, <1>1, FS_RemoveElement
    <2>4. \A k \in Modules : numObjects'[k] = numObjects[k]
      BY <2>1
    <2>5. numObjects'[m] = Cardinality(objects'[m]) + 1
      BY <2>1, <2>3, <2>4, <1>1 DEF ListCounts
    <2> QED
      BY <2>2, <2>4, <2>5 DEF ListCounts
  <1>8. ASSUME NEW m \in Modules, Unlink(m) PROVE ListCounts'
    <2>1. /\ gone[m] # NULL /\ objects' = objects
          /\ gone' = [gone EXCEPT ![m] = NULL]
          /\ numObjects' = [numObjects EXCEPT ![m] = @ - 1]
      BY <1>8, UnlinkFacts
    <2> QED
      BY <2>1, <1>1, <1>2 DEF ListCounts
  <1>9. ASSUME NEW m \in Modules, PassNode(m) PROVE ListCounts'
    BY <1>3, <1>9 DEF PassNode, heapVars
  <1>10. ASSUME NEW m \in Modules, EndSweep(m) PROVE ListCounts'
    BY <1>3, <1>10 DEF EndSweep
  <1>11. ASSUME NEW m \in Modules, NEW o \in Objects, AllocateFirst(m, o) PROVE ListCounts'
    <2>1. /\ o \notin objects[m]
          /\ objects' = [objects EXCEPT ![m] = @ \cup {o}]
          /\ numObjects' = [numObjects EXCEPT ![m] = @ + 1]
          /\ gone' = gone
      BY <1>11 DEF AllocateFirst, Allocate, Live
    <2>2. Cardinality(objects[m] \cup {o}) = Cardinality(objects[m]) + 1
      BY <2>1, <1>1, FS_AddElement
    <2> QED
      BY <2>1, <2>2, <1>1, <1>2 DEF ListCounts
  <1>12. ASSUME NEW m \in Modules, ForceSweepList(m) PROVE ListCounts'
    <2>1. /\ phase[m] = "run"
          /\ objects' = [k \in Modules |-> objects[k] \ Nodes(first[m])]
          /\ numObjects' = [numObjects EXCEPT ![m] = 0]
          /\ gone' = gone
      BY <1>12 DEF ForceSweepList
    <2>2. gone[m] = NULL
      BY <2>1 DEF ListInv, Lists
    <2>3. Nodes(first[m]) = objects[m]
      BY <2>2, NoneGone
    <2>4. objects'[m] = {} /\ \A k \in Modules : k # m => objects'[k] = objects[k]
      BY <2>1, <2>3, AheadFacts DEF AheadIsOwn
    <2>5. Cardinality({}) = 0
      BY FS_EmptySet
    <2>6. numObjects'[m] = 0 /\ \A k \in Modules : k # m => numObjects'[k] = numObjects[k]
      BY <2>1, <1>2
    <2>7. gone'[m] = NULL /\ \A k \in Modules : gone'[k] = gone[k]
      BY <2>1, <2>2
    <2> QED
      BY <2>4, <2>5, <2>6, <2>7 DEF ListCounts
  <1> QED
    BY <1>4, <1>5, <1>6, <1>7, <1>8, <1>9, <1>10, <1>11, <1>12 DEF ListNext

-----------------------------------------------------------------------------
(* What is left is given by what is left at every module and object.       *)
LeftByPoints ==
  /\ LeftObjects = [m \in Modules |-> LeftObjects[m]]
  /\ LeftCount = [m \in Modules |-> LeftCount[m]]
  /\ LeftLimit = [m \in Modules |-> LeftLimit[m]]
  /\ LeftPhase = [m \in Modules |-> LeftPhase[m]]
  /\ LeftPoints = [o \in Objects |-> LeftPoints[o]]

LEMMA LeftFunctions == LeftByPoints
  BY DEF LeftByPoints, LeftObjects, LeftCount, LeftLimit, LeftPhase, LeftPoints

LEMMA LeftFunctionsAfter == LeftByPoints'
  BY LeftFunctions, PTL

(* Where sweep leaves the same objects to every module, and to those that  *)
(* do not sweep the same counts and phases, it leaves the same.            *)
LEMMA SameLeft ==
  ASSUME ListInv, ListInv',
         \A k \in Modules : Sweeping(k)' <=> Sweeping(k),
         \A k \in Modules : LeftObjects'[k] = LeftObjects[k],
         \A k \in Modules : ~Sweeping(k) => /\ numObjects'[k] = numObjects[k]
                                            /\ maxObjects'[k] = maxObjects[k]
                                            /\ phase'[k] = phase[k]
  PROVE  /\ LeftObjects' = LeftObjects
         /\ LeftCount' = LeftCount
         /\ LeftLimit' = LeftLimit
         /\ LeftPhase' = LeftPhase
  <1>1. \A k \in Modules : /\ LeftCount'[k] = LeftCount[k]
                           /\ LeftLimit'[k] = LeftLimit[k]
                           /\ LeftPhase'[k] = LeftPhase[k]
    BY LeftFacts, LeftFactsAfter DEF LeftIsSwept
  <1> QED
    BY <1>1, LeftFunctions, LeftFunctionsAfter DEF LeftByPoints

LEMMA FreeNodeLeft ==
  ASSUME ListInv, ListInv', ~cut', NEW m \in Modules, FreeNode(m)
  PROVE  UNCHANGED leftVars /\ UNCHANGED <<stack, sp, operands, making, inFlight, exposed>>
  <1> DEFINE o == Link(m)
  <1>1. /\ AtNode(m) /\ o \notin marked
        /\ objects' = [k \in Modules |-> objects[k] \ {o}]
        /\ Freed({o})
        /\ UNCHANGED <<stackVars, numObjects, maxObjects, marked, phase, operands, making, inFlight,
                       exposed>>
    BY DEF FreeNode
  <1>2. /\ Ahead(m)' = Ahead(m) \ {o}
        /\ \A k \in Modules : k # m => Ahead(k)' = Ahead(k)
        /\ \A k \in Modules : Sweeping(k)' <=> Sweeping(k)
    BY FreeNodeAhead
  <1>3. /\ o \in Ahead(m) /\ o \in Objects
        /\ \A k \in Modules : k # m => o \notin Ahead(k) /\ o \notin objects[k]
    BY <1>1, NodeAhead, AheadFacts DEF AheadIsOwn
  <1> HIDE DEF o
  <1>4. \A p : p \in DoomedByAll' <=> p \in DoomedByAll /\ p # o
    BY <1>1, <1>2, <1>3, LeftFacts, LeftFactsAfter DEF LeftIsSwept
  <1>5. o \in DoomedByAll
    BY <1>1, <1>3, LeftFacts DEF LeftIsSwept
  <1>6. LeftMarks' = LeftMarks
    <2>1. \A p : p \in LeftMarks' <=> p \in LeftMarks
      BY <1>1, <1>2, <1>3, LeftFacts, LeftFactsAfter DEF LeftIsSwept
    <2> QED
      BY <2>1 DEF LeftMarks
  <1>7. \A k \in Modules : LeftObjects'[k] = LeftObjects[k]
    <2>1. \A k \in Modules : /\ LeftObjects[k] = objects[k] \ DoomedByAll
                             /\ LeftObjects'[k] = objects'[k] \ DoomedByAll'
                             /\ objects'[k] = objects[k] \ {o}
      BY <1>1, LeftFacts, LeftFactsAfter DEF LeftIsSwept
    <2>2. \A k \in Modules : \A p : p \in LeftObjects'[k] <=> p \in LeftObjects[k]
      BY <2>1, <1>4, <1>5
    <2> QED
      BY <2>1, <2>2
  <1>8. LeftPoints' = LeftPoints /\ LeftMutable' = LeftMutable
    <2>1. \A p \in Objects : LeftPoints'[p] = LeftPoints[p]
      BY <1>1, <1>4, <1>5, LeftFacts, LeftFactsAfter DEF LeftIsSwept, Freed
    <2>2. LeftMutable' = LeftMutable
      BY <1>1, <1>4, <1>5 DEF LeftMutable, Freed
    <2> QED
      BY <2>1, <2>2, LeftFunctions, LeftFunctionsAfter DEF LeftByPoints
  <1>9. /\ LeftObjects' = LeftObjects /\ LeftCount' = LeftCount
        /\ LeftLimit' = LeftLimit /\ LeftPhase' = LeftPhase
    BY <1>1, <1>2, <1>7, SameLeft
  <1> QED
    BY <1>1, <1>6, <1>8, <1>9 DEF leftVars, stackVars

LEMMA PassNodeLeft ==
  ASSUME ListInv, ListInv', NEW m \in Modules, PassNode(m)
  PROVE  UNCHANGED leftVars /\ UNCHANGED <<stack, sp, operands, making, inFlight, exposed>>
  <1> DEFINE o == Link(m)
  <1>1. /\ AtNode(m) /\ o \in marked
        /\ marked' = marked \ {o}
        /\ UNCHANGED <<stackVars, heapVars, points, mutable, phase, operands, making, inFlight,
                       exposed>>
    BY DEF PassNode, Cleared
  <1>2. /\ Ahead(m)' = Ahead(m) \ {o}
        /\ \A k \in Modules : k # m => Ahead(k)' = Ahead(k)
        /\ \A k \in Modules : Sweeping(k)' <=> Sweeping(k)
    BY PassNodeAhead
  <1>3. /\ o \in Ahead(m) /\ o \in Objects
        /\ \A k \in Modules : k # m => o \notin Ahead(k)
    BY <1>1, NodeAhead, AheadFacts DEF AheadIsOwn
  <1> HIDE DEF o
  <1>4. \A p : p \in DoomedByAll' <=> p \in DoomedByAll
    BY <1>1, <1>2, <1>3, LeftFacts, LeftFactsAfter DEF LeftIsSwept
  <1>5. LeftMarks' = LeftMarks
    <2>1. \A p : p \in LeftMarks' <=> p \in LeftMarks
      BY <1>1, <1>2, <1>3, LeftFacts, LeftFactsAfter DEF LeftIsSwept
    <2> QED
      BY <2>1 DEF LeftMarks
  <1>6. \A k \in Modules : LeftObjects'[k] = LeftObjects[k]
    <2>1. DoomedByAll' = DoomedByAll /\ objects' = objects
      BY <1>1, <1>4 DEF DoomedByAll, heapVars
    <2>2. \A k \in Modules : /\ LeftObjects[k] = objects[k] \ DoomedByAll
                             /\ LeftObjects'[k] = objects'[k] \ DoomedByAll'
      BY LeftFacts, LeftFactsAfter DEF LeftIsSwept
    <2> QED
      BY <2>1, <2>2
  <1>7. LeftPoints' = LeftPoints /\ LeftMutable' = LeftMutable
    <2>1. \A p \in Objects : LeftPoints'[p] = LeftPoints[p]
      BY <1>1, <1>4, LeftFacts, LeftFactsAfter DEF LeftIsSwept
    <2>2. LeftMutable' = LeftMutable
      BY <1>1, <1>4 DEF LeftMutable
    <2> QED
      BY <2>1, <2>2, LeftFunctions, LeftFunctionsAfter DEF LeftByPoints
  <1>8. /\ LeftObjects' = LeftObjects /\ LeftCount' = LeftCount
        /\ LeftLimit' = LeftLimit /\ LeftPhase' = LeftPhase
    BY <1>1, <1>2, <1>6, SameLeft DEF heapVars
  <1> QED
    BY <1>1, <1>5, <1>7, <1>8 DEF leftVars, stackVars

LEMMA UnlinkLeft ==
  ASSUME ListInv, ListInv', NEW m \in Modules, Unlink(m)
  PROVE  UNCHANGED leftVars /\ UNCHANGED <<stack, sp, operands, making, inFlight, exposed>>
  <1>1. /\ Sweeping(m)
        /\ numObjects' = [numObjects EXCEPT ![m] = @ - 1]
        /\ UNCHANGED <<stackVars, objects, maxObjects, points, mutable, marked, phase, operands,
                       making, inFlight, exposed>>
    BY UnlinkFacts
  <1>2. \A k \in Modules : Ahead(k)' = Ahead(k) /\ (Sweeping(k)' <=> Sweeping(k))
    BY UnlinkAhead
  <1>3. \A p : (p \in DoomedByAll' <=> p \in DoomedByAll) /\ (p \in LeftMarks' <=> p \in LeftMarks)
    BY <1>1, <1>2, LeftFacts, LeftFactsAfter DEF LeftIsSwept
  <1>4. LeftMarks' = LeftMarks
    BY <1>3 DEF LeftMarks
  <1>5. \A k \in Modules : LeftObjects'[k] = LeftObjects[k]
    <2>1. DoomedByAll' = DoomedByAll /\ objects' = objects
      BY <1>1, <1>3 DEF DoomedByAll
    <2>2. \A k \in Modules : /\ LeftObjects[k] = objects[k] \ DoomedByAll
                             /\ LeftObjects'[k] = objects'[k] \ DoomedByAll'
      BY LeftFacts, LeftFactsAfter DEF LeftIsSwept
    <2> QED
      BY <2>1, <2>2
  <1>6. LeftPoints' = LeftPoints /\ LeftMutable' = LeftMutable
    <2>1. \A p \in Objects : LeftPoints'[p] = LeftPoints[p]
      BY <1>1, <1>3, LeftFacts, LeftFactsAfter DEF LeftIsSwept
    <2>2. LeftMutable' = LeftMutable
      BY <1>1, <1>3 DEF LeftMutable
    <2> QED
      BY <2>1, <2>2, LeftFunctions, LeftFunctionsAfter DEF LeftByPoints
  <1>7. /\ LeftObjects' = LeftObjects /\ LeftCount' = LeftCount
        /\ LeftLimit' = LeftLimit /\ LeftPhase' = LeftPhase
    <2>1. \A k \in Modules : ~Sweeping(k) => numObjects'[k] = numObjects[k]
      BY <1>1 DEF ListInv, TypeOK
    <2> QED
      BY <2>1, <1>1, <1>2, <1>5, SameLeft
  <1> QED
    BY <1>1, <1>4, <1>6, <1>7 DEF leftVars, stackVars

(* When sweep is at the end, it has freed what it would free.              *)
LEMMA EndSweepLeft ==
  ASSUME ListInv, ListInv', ListCounts, NEW m \in Modules, EndSweep(m)
  PROVE  UNCHANGED leftVars /\ UNCHANGED <<stack, sp, operands, making, inFlight, exposed>>
  <1>1. /\ gone[m] = NULL
        /\ maxObjects' = [maxObjects EXCEPT ![m] = LimitFor(numObjects[m])]
        /\ phase' = [phase EXCEPT ![m] = "allocate"]
        /\ UNCHANGED <<stackVars, objects, numObjects, points, mutable, marked, operands, making,
                       inFlight, exposed>>
    BY DEF EndSweep
  <1>2. /\ Sweeping(m) /\ ~Sweeping(m)'
        /\ Ahead(m) = {}
        /\ \A k \in Modules : Ahead(k)' = Ahead(k)
        /\ \A k \in Modules : k # m => (Sweeping(k)' <=> Sweeping(k))
    BY EndSweepAhead
  <1>3. \A p : (p \in DoomedByAll' <=> p \in DoomedByAll) /\ (p \in LeftMarks' <=> p \in LeftMarks)
    BY <1>1, <1>2, LeftFacts, LeftFactsAfter DEF LeftIsSwept
  <1>4. LeftMarks' = LeftMarks
    BY <1>3 DEF LeftMarks
  <1>5. \A k \in Modules : LeftObjects'[k] = LeftObjects[k]
    <2>1. DoomedByAll' = DoomedByAll /\ objects' = objects
      BY <1>1, <1>3 DEF DoomedByAll
    <2>2. \A k \in Modules : /\ LeftObjects[k] = objects[k] \ DoomedByAll
                             /\ LeftObjects'[k] = objects'[k] \ DoomedByAll'
      BY LeftFacts, LeftFactsAfter DEF LeftIsSwept
    <2> QED
      BY <2>1, <2>2
  <1>6. LeftPoints' = LeftPoints /\ LeftMutable' = LeftMutable
    <2>1. \A p \in Objects : LeftPoints'[p] = LeftPoints[p]
      BY <1>1, <1>3, LeftFacts, LeftFactsAfter DEF LeftIsSwept
    <2>2. LeftMutable' = LeftMutable
      BY <1>1, <1>3 DEF LeftMutable
    <2> QED
      BY <2>1, <2>2, LeftFunctions, LeftFunctionsAfter DEF LeftByPoints
  <1>7. /\ maxObjects'[m] = LimitFor(numObjects[m]) /\ phase'[m] = "allocate"
        /\ \A k \in Modules : k # m => maxObjects'[k] = maxObjects[k] /\ phase'[k] = phase[k]
    BY <1>1 DEF ListInv, TypeOK
  <1>8. LeftObjects[m] = objects[m] /\ numObjects[m] = Cardinality(LeftObjects[m])
    <2>1. LeftObjects[m] = objects[m]
      <3>1. LeftObjects[m] = objects[m] \ (Ahead(m) \ marked)
        BY LeftFacts DEF LeftIsSwept
      <3> QED
        BY <3>1, <1>2
    <2>2. numObjects[m] = Cardinality(objects[m]) + 0
      BY <1>1 DEF ListCounts
    <2>3. numObjects[m] \in Int
      BY DEF ListInv, TypeOK
    <2>4. Cardinality(objects[m]) \in Nat
      BY CollectorAssumption, FS_Subset, FS_CardinalityType DEF ListInv, TypeOK
    <2> QED
      BY <2>1, <2>2, <2>3, <2>4
  <1>9. \A k \in Modules : /\ LeftCount'[k] = LeftCount[k]
                           /\ LeftLimit'[k] = LeftLimit[k]
                           /\ LeftPhase'[k] = LeftPhase[k]
    <2>1. LeftCount'[m] = LeftCount[m] /\ LeftLimit'[m] = LeftLimit[m] /\ LeftPhase'[m] = LeftPhase[m]
      BY <1>1, <1>2, <1>7, <1>8, LeftFacts, LeftFactsAfter DEF LeftIsSwept
    <2>2. \A k \in Modules : k # m => /\ LeftCount'[k] = LeftCount[k]
                                      /\ LeftLimit'[k] = LeftLimit[k]
                                      /\ LeftPhase'[k] = LeftPhase[k]
      BY <1>1, <1>2, <1>5, <1>7, LeftFacts, LeftFactsAfter DEF LeftIsSwept
    <2> QED
      BY <2>1, <2>2
  <1>10. /\ LeftObjects' = LeftObjects /\ LeftCount' = LeftCount
         /\ LeftLimit' = LeftLimit /\ LeftPhase' = LeftPhase
    BY <1>5, <1>9, LeftFunctions, LeftFunctionsAfter DEF LeftByPoints
  <1> QED
    BY <1>1, <1>4, <1>6, <1>10 DEF leftVars, stackVars

-----------------------------------------------------------------------------
(* Left and this module have the Cardinality of FiniteSets.                *)
LEMMA LeftCardinality == \A S : Left!Cardinality(S) = Cardinality(S)
  BY DEF Left!Cardinality, Cardinality

(* The sweep of one step takes place when the walk begins.                 *)
LEMMA BeginSweepLeft ==
  ASSUME ListInv, ListInv', ListCounts, NEW m \in Modules, BeginSweep(m)
  PROVE  Left!Sweep(m)
  <1> DEFINE lost == objects[m] \ marked
  <1>1. phase[m] = "sweep" /\ UNCHANGED vars
    BY DEF BeginSweep
  <1>2. /\ Ahead(m) = {} /\ Ahead(m)' = objects[m]
        /\ ~Sweeping(m) /\ Sweeping(m)'
        /\ \A k \in Modules : k # m => Ahead(k)' = Ahead(k) /\ (Sweeping(k)' <=> Sweeping(k))
    BY BeginSweepAhead
  <1>3. /\ LeftObjects[m] = objects[m] /\ LeftCount[m] = numObjects[m] /\ LeftPhase[m] = "sweep"
        /\ objects[m] \cap DoomedByAll = {}
        /\ LeftMarks \cap objects[m] = marked \cap objects[m]
    BY <1>1, <1>2, LeftFacts DEF LeftIsSwept
  <1>4. LeftObjects[m] \cap LeftMarks = objects[m] \cap marked /\ LeftObjects[m] \ LeftMarks = lost
    BY <1>3
  <1>5. UNCHANGED <<objects, marked>> /\ \A k \in Modules : k # m => objects[k] \cap lost = {}
    BY <1>1, AheadFacts DEF vars, AheadIsOwn
  <1>6. DoomedByAll' = DoomedByAll \cup lost
    <2>1. \A p : p \in DoomedByAll' <=> p \in DoomedByAll \/ p \in lost
      BY <1>2, <1>5, LeftFacts, LeftFactsAfter DEF LeftIsSwept
    <2> QED
      BY <2>1 DEF DoomedByAll
  <1>7. LeftMarks' = LeftMarks \ objects[m]
    <2>1. \A p : p \in LeftMarks' <=> p \in LeftMarks /\ p \notin objects[m]
      BY <1>2, <1>5, LeftFacts, LeftFactsAfter DEF LeftIsSwept
    <2> QED
      BY <2>1 DEF LeftMarks
  <1>8. /\ LeftObjects'[m] = LeftObjects[m] \cap LeftMarks
        /\ \A k \in Modules : k # m => LeftObjects'[k] = LeftObjects[k]
    <2>1. \A k \in Modules : /\ LeftObjects[k] = objects[k] \ DoomedByAll
                             /\ LeftObjects'[k] = objects[k] \ (DoomedByAll \cup lost)
      BY <1>5, <1>6, LeftFacts, LeftFactsAfter DEF LeftIsSwept
    <2>2. LeftObjects'[m] = objects[m] \cap marked
      BY <2>1, <1>3
    <2>3. \A k \in Modules : k # m => LeftObjects'[k] = LeftObjects[k]
      BY <2>1, <1>5
    <2> QED
      BY <2>2, <2>3, <1>4
  <1>9. /\ LeftCount'[m] = LeftCount[m] - Cardinality(lost)
        /\ \A k \in Modules : k # m => LeftCount'[k] = LeftCount[k]
    <2>1. IsFiniteSet(objects[m])
      BY CollectorAssumption, FS_Subset DEF ListInv, TypeOK
    <2>2. /\ Cardinality(objects[m] \ marked) = Cardinality(objects[m]) - Cardinality(objects[m] \cap marked)
          /\ Cardinality(objects[m]) \in Nat
          /\ Cardinality(objects[m] \cap marked) \in Nat
      BY <2>1, FS_Difference, FS_Intersection, FS_CardinalityType
    <2>3. numObjects[m] = Cardinality(objects[m])
      <3>1. gone[m] = NULL
        BY <1>2 DEF ListInv, Lists
      <3>2. numObjects[m] = Cardinality(objects[m]) + 0
        BY <3>1 DEF ListCounts
      <3> QED
        BY <3>2, <2>2
    <2>4. LeftCount'[m] = Cardinality(objects[m] \cap marked)
      <3>1. LeftCount'[m] = Cardinality(LeftObjects'[m])
        BY <1>2, LeftFactsAfter DEF LeftIsSwept
      <3>2. LeftObjects'[m] = objects[m] \cap marked
        BY <1>4, <1>8
      <3> QED
        BY <3>1, <3>2
    <2>5. UNCHANGED numObjects
      BY <1>1 DEF vars
    <2>6. \A k \in Modules : k # m => LeftCount'[k] = LeftCount[k]
      BY <2>5, <1>2, <1>8, LeftFacts, LeftFactsAfter DEF LeftIsSwept
    <2> QED
      BY <2>2, <2>3, <2>4, <2>6, <1>3
  <1>10. /\ LeftLimit'[m] = LimitFor(LeftCount'[m]) /\ LeftPhase'[m] = "allocate"
         /\ \A k \in Modules : k # m => LeftLimit'[k] = LeftLimit[k] /\ LeftPhase'[k] = LeftPhase[k]
    <2>1. UNCHANGED <<maxObjects, phase>>
      BY <1>1 DEF vars
    <2> QED
      BY <2>1, <1>2, <1>8, LeftFacts, LeftFactsAfter DEF LeftIsSwept
  <1>11. /\ LeftPoints' = [o \in Objects |-> IF o \in lost THEN {} ELSE LeftPoints[o]]
         /\ LeftMutable' = LeftMutable \ lost
    <2>1. UNCHANGED <<points, mutable>>
      BY <1>1 DEF vars
    <2>2. \A o \in Objects : LeftPoints'[o] = IF o \in lost THEN {} ELSE LeftPoints[o]
      BY <2>1, <1>6, LeftFacts, LeftFactsAfter DEF LeftIsSwept
    <2>3. LeftMutable' = LeftMutable \ lost
      BY <2>1, <1>6 DEF LeftMutable
    <2> QED
      BY <2>2, <2>3, LeftFunctionsAfter DEF LeftByPoints
  <1> HIDE DEF lost
  <1>12. /\ LeftObjects' = [LeftObjects EXCEPT ![m] = LeftObjects[m] \cap LeftMarks]
         /\ LeftCount' = [LeftCount EXCEPT ![m] = @ - Cardinality(lost)]
         /\ LeftLimit' = [LeftLimit EXCEPT ![m] = LimitFor(LeftCount'[m])]
         /\ LeftPhase' = [LeftPhase EXCEPT ![m] = "allocate"]
    BY <1>8, <1>9, <1>10, LeftFunctions, LeftFunctionsAfter DEF LeftByPoints
  <1>13. UNCHANGED <<stackVars, operands, making, inFlight, exposed>>
    BY <1>1 DEF vars, stackVars
  <1>14. Left!Freed(LeftObjects[m] \ LeftMarks)
    BY <1>4, <1>11 DEF Left!Freed
  <1>15. /\ LeftCount' = [LeftCount EXCEPT ![m] = @ - Cardinality(LeftObjects[m] \ LeftMarks)]
         /\ LeftMarks' = LeftMarks \ Left!Unmarked(m)
         /\ LeftLimit' = [LeftLimit EXCEPT ![m] = Left!LimitFor(LeftCount'[m])]
    BY <1>3, <1>4, <1>7, <1>12 DEF Left!Unmarked, Left!LimitFor, LimitFor
  <1> QED
    BY <1>3, <1>12, <1>13, <1>14, <1>15, LeftCardinality DEF Left!Sweep, Left!stackVars, stackVars

(* Away from the sweeps under way the heap is what GarbageCollector says.  *)
LEMMA LeftOfOne ==
  ASSUME ListInv, NEW m \in Modules, ~Sweeping(m)
  PROVE  /\ LeftObjects[m] = objects[m] /\ LeftCount[m] = numObjects[m]
         /\ LeftLimit[m] = maxObjects[m] /\ LeftPhase[m] = phase[m]
         /\ \A o \in objects[m] : /\ o \notin DoomedByAll /\ LeftPoints[o] = points[o]
                                  /\ o \in mutable => o \in LeftMutable
         /\ LeftMarks \cap objects[m] = marked \cap objects[m]
  <1>1. /\ LeftObjects[m] = objects[m] /\ LeftCount[m] = numObjects[m]
        /\ LeftLimit[m] = maxObjects[m] /\ LeftPhase[m] = phase[m]
        /\ LeftMarks \cap objects[m] = marked \cap objects[m]
        /\ objects[m] \cap DoomedByAll = {}
    BY LeftFacts DEF LeftIsSwept
  <1>2. objects[m] \subseteq Objects
    BY DEF ListInv, TypeOK
  <1>3. ASSUME NEW o \in objects[m]
        PROVE  /\ o \notin DoomedByAll /\ LeftPoints[o] = points[o]
               /\ o \in mutable => o \in LeftMutable
    BY <1>1, <1>2, LeftFacts DEF LeftIsSwept, LeftMutable
  <1> QED
    BY <1>1, <1>3

(* What the slots of a module hold is among its own objects.               *)
LEMMA SlotsOfOne ==
  ASSUME ListInv, Left!IInv, NEW m \in Modules, ~Sweeping(m), phase[m] # "over"
  PROVE  /\ Pointers(m, Slots) \subseteq objects[m]
         /\ \A o \in objects[m] : points[o] \subseteq objects[m]
  <1>1. LeftPhase[m] = phase[m] /\ LeftObjects[m] = objects[m]
    BY LeftOfOne
  <1>2. /\ Left!Pointers(m, Left!Slots) \subseteq LeftObjects[m]
        /\ \A o \in LeftObjects[m] : LeftPoints[o] \subseteq LeftObjects[m]
    BY <1>1 DEF Left!IInv, Left!OwnHeap
  <1>3. Left!Pointers(m, Left!Slots) = Pointers(m, Slots)
    BY DEF Left!Pointers, Pointers, Left!Slots, Slots
  <1> QED
    BY <1>1, <1>2, <1>3, LeftOfOne

(* What the program does, but for marking, leaves the collector alone. It  *)
(* takes the module a, its own or one that it starts, to another phase.    *)
LEMMA ProgramLeft ==
  ASSUME ListInv, ListInv', NEW m \in Modules, Program(m), marked' = marked,
         NEW a \in Modules, phase[a] # "sweep", \A k \in Modules : k # a => phase'[k] = phase[k]
  PROVE  /\ ~Sweeping(a)
         /\ LeftObjects' = LeftObjects /\ LeftCount' = LeftCount /\ LeftLimit' = LeftLimit
         /\ LeftMarks' = LeftMarks /\ DoomedByAll' = DoomedByAll
         /\ LeftPhase' = [LeftPhase EXCEPT ![a] = phase'[a]]
         /\ phase' = phase => LeftPhase' = LeftPhase
         /\ points' = points => LeftPoints' = LeftPoints
         /\ mutable' = mutable => LeftMutable' = LeftMutable
  <1>1. /\ UNCHANGED <<objects, numObjects, maxObjects>>
        /\ ~Sweeping(a)
    BY ProgramFacts DEF heapVars, ListInv, Lists
  <1>2. \A k \in Modules : Ahead(k)' = Ahead(k) /\ (Sweeping(k)' <=> Sweeping(k))
    BY ProgramAhead
  <1>3. \A o : (o \in DoomedByAll' <=> o \in DoomedByAll) /\ (o \in LeftMarks' <=> o \in LeftMarks)
    BY <1>2, LeftFacts, LeftFactsAfter DEF LeftIsSwept
  <1>4. DoomedByAll' = DoomedByAll /\ LeftMarks' = LeftMarks
    BY <1>3 DEF DoomedByAll, LeftMarks
  <1>5. \A k \in Modules : LeftObjects'[k] = LeftObjects[k]
    <2>1. \A k \in Modules : /\ LeftObjects[k] = objects[k] \ DoomedByAll
                             /\ LeftObjects'[k] = objects'[k] \ DoomedByAll'
      BY LeftFacts, LeftFactsAfter DEF LeftIsSwept
    <2> QED
      BY <2>1, <1>1, <1>4
  <1>6. \A k \in Modules : /\ LeftCount'[k] = LeftCount[k]
                           /\ LeftLimit'[k] = LeftLimit[k]
                           /\ LeftPhase'[k] = IF k = a THEN phase'[a] ELSE LeftPhase[k]
    BY <1>1, <1>2, <1>5, LeftFacts, LeftFactsAfter DEF LeftIsSwept
  <1>7. /\ LeftObjects' = LeftObjects /\ LeftCount' = LeftCount /\ LeftLimit' = LeftLimit
        /\ LeftPhase' = [LeftPhase EXCEPT ![a] = phase'[a]]
    BY <1>5, <1>6, LeftFunctions, LeftFunctionsAfter DEF LeftByPoints
  <1>8. phase' = phase => LeftPhase' = LeftPhase
    BY <1>1, <1>2 DEF LeftPhase
  <1>9. /\ points' = points => LeftPoints' = LeftPoints
        /\ mutable' = mutable => LeftMutable' = LeftMutable
    BY <1>4 DEF LeftPoints, LeftMutable
  <1> QED
    BY <1>1, <1>4, <1>7, <1>8, <1>9

(* Nothing of the collector changes but, in an Update, what an object      *)
(* points to.                                                              *)
LEMMA ProgramLeavesAlone ==
  ASSUME ListInv, ListInv', NEW m \in Modules, Program(m), marked' = marked,
         phase[m] = "run", phase' = phase, mutable' = mutable
  PROVE  /\ ~Sweeping(m) /\ DoomedByAll' = DoomedByAll
         /\ UNCHANGED <<LeftObjects, LeftCount, LeftLimit, LeftMarks, LeftPhase, LeftMutable>>
         /\ points' = points => LeftPoints' = LeftPoints
  BY ProgramLeft

LEMMA LoadLeft ==
  ASSUME ListInv, ListInv', Left!IInv, NEW m \in Modules, NEW v \in Value,
         Load(m, v), UNCHANGED listVars
  PROVE  Left!Load(m, v)
  <1> USE DEF Left!Pointers, Pointers, Left!InUse, InUse, Left!Slots, Slots
  <1>1. /\ phase[m] = "run" /\ Pushed(m, v)
        /\ v = NULL \/ v \in Pointers(m, InUse(m)) \/ \E o \in Pointers(m, InUse(m)) : v \in points[o]
        /\ UNCHANGED <<heapVars, points, mutable, marked, phase, operands, making, inFlight>>
    BY DEF Load
  <1>2. Program(m)
    BY DEF Program
  <1>3. /\ ~Sweeping(m)
        /\ UNCHANGED <<LeftObjects, LeftCount, LeftLimit, LeftMarks, LeftPhase, LeftPoints, LeftMutable>>
    BY <1>1, <1>2, ProgramLeavesAlone
  <1>4. LeftPhase[m] = "run"
    BY <1>1, <1>3, LeftOfOne
  <1>5. \A o \in Pointers(m, InUse(m)) : LeftPoints[o] = points[o]
    <2>1. Pointers(m, InUse(m)) \subseteq objects[m]
      BY <1>1, <1>3, SlotsOfOne
    <2> QED
      BY <2>1, <1>3, LeftOfOne
  <1>6. Left!Pointers(m, Left!InUse(m)) = Pointers(m, InUse(m))
    OBVIOUS
  <1>7. Left!Pushed(m, v)
    BY <1>1 DEF Left!Pushed, Pushed, Left!Written, Written
  <1>8. \/ v = NULL
        \/ v \in Left!Pointers(m, Left!InUse(m))
        \/ \E o \in Left!Pointers(m, Left!InUse(m)) : v \in LeftPoints[o]
    BY <1>1, <1>5, <1>6
  <1> QED
    BY <1>1, <1>3, <1>4, <1>7, <1>8 DEF Left!Load, Left!heapVars

LEMMA PopLeft ==
  ASSUME ListInv, ListInv', NEW m \in Modules, Pop(m), UNCHANGED listVars
  PROVE  Left!Pop(m)
  <1>1. /\ phase[m] = "run" /\ NotEmpty(m)
        /\ sp' = [sp EXCEPT ![m] = @ - 1]
        /\ UNCHANGED <<stack, heapVars, points, mutable, marked, phase, operands, making, inFlight,
                       exposed>>
    BY DEF Pop
  <1>2. Program(m)
    BY DEF Program
  <1>3. /\ ~Sweeping(m)
        /\ UNCHANGED <<LeftObjects, LeftCount, LeftLimit, LeftMarks, LeftPhase, LeftPoints, LeftMutable>>
    BY <1>1, <1>2, ProgramLeavesAlone
  <1>4. LeftPhase[m] = "run"
    BY <1>1, <1>3, LeftOfOne
  <1> QED
    BY <1>1, <1>3, <1>4 DEF Left!Pop, Left!NotEmpty, NotEmpty, Left!heapVars

LEMMA UpdateLeft ==
  ASSUME ListInv, ListInv', Left!IInv, NEW m \in Modules, NEW o \in Objects, NEW v \in Value,
         Update(m, o, v), UNCHANGED listVars
  PROVE  Left!Update(m, o, v)
  <1>1. /\ phase[m] = "run" /\ sp[m] - 2 >= Globals
        /\ o = stack[m][sp[m] - 1]
        /\ v = stack[m][sp[m] - 2]
        /\ o \in mutable
        /\ points' = [points EXCEPT ![o] = {v} \ {NULL}]
        /\ sp' = [sp EXCEPT ![m] = @ - 2]
        /\ UNCHANGED <<stack, heapVars, mutable, marked, phase, operands, making, inFlight, exposed>>
    BY DEF Update
  <1>2. Program(m)
    BY DEF Program
  <1>3. /\ ~Sweeping(m) /\ DoomedByAll' = DoomedByAll
        /\ UNCHANGED <<LeftObjects, LeftCount, LeftLimit, LeftMarks, LeftPhase, LeftMutable>>
    BY <1>1, <1>2, ProgramLeavesAlone
  <1>4. LeftPhase[m] = "run"
    BY <1>1, <1>3, LeftOfOne
  <1>5. o \in objects[m]
    <2>1. sp[m] - 1 \in Slots
      BY <1>1, CollectorAssumption DEF ListInv, TypeOK, Slots
    <2>2. o \in Pointers(m, Slots)
      BY <2>1, <1>1, CollectorAssumption DEF Pointers
    <2> QED
      BY <2>2, <1>1, <1>3, SlotsOfOne
  <1>6. o \in LeftMutable /\ o \notin DoomedByAll
    BY <1>1, <1>3, <1>5, LeftOfOne
  <1>7. LeftPoints' = [LeftPoints EXCEPT ![o] = {v} \ {NULL}]
    <2>1. \A p \in Objects : points'[p] = IF p = o THEN {v} \ {NULL} ELSE points[p]
      BY <1>1 DEF ListInv, TypeOK
    <2>2. \A p \in Objects : LeftPoints'[p] = IF p = o THEN {v} \ {NULL} ELSE LeftPoints[p]
      <3>1. \A p \in Objects : /\ LeftPoints[p] = IF p \in DoomedByAll THEN {} ELSE points[p]
                               /\ LeftPoints'[p] = IF p \in DoomedByAll THEN {} ELSE points'[p]
        BY <1>3, LeftFacts, LeftFactsAfter DEF LeftIsSwept
      <3> QED
        BY <3>1, <2>1, <1>6
    <2> QED
      BY <2>2, LeftFunctions, LeftFunctionsAfter DEF LeftByPoints
  <1> QED
    BY <1>1, <1>3, <1>4, <1>6, <1>7 DEF Left!Update, Left!heapVars

LEMMA MakeLeft ==
  ASSUME ListInv, ListInv', NEW m \in Modules, NEW n \in 0 .. MaxOperands,
         NEW type \in {"list", "mutable"}, Make(m, n, type), UNCHANGED listVars
  PROVE  Left!Make(m, n, type)
  <1>1. /\ phase[m] = "run" /\ n <= sp[m] - Globals /\ (type = "mutable" => n = 1)
        /\ operands' = [operands EXCEPT ![m] = Pointers(m, {i \in Slots : sp[m] - n <= i /\ i < sp[m]})]
        /\ making' = [making EXCEPT ![m] = type]
        /\ sp' = [sp EXCEPT ![m] = @ - n]
        /\ phase' = [phase EXCEPT ![m] = IF ListFull(m) THEN "mark" ELSE "allocate"]
        /\ UNCHANGED <<stack, heapVars, points, mutable, marked, inFlight, exposed>>
    BY DEF Make
  <1>2. Program(m)
    BY DEF Program
  <1>3. /\ ~Sweeping(m)
        /\ LeftPhase' = [LeftPhase EXCEPT ![m] = phase'[m]]
        /\ UNCHANGED <<LeftObjects, LeftCount, LeftLimit, LeftMarks, LeftPoints, LeftMutable>>
    <2>1. \A k \in Modules : k # m => phase'[k] = phase[k]
      BY <1>1 DEF ListInv, TypeOK
    <2>2. phase[m] # "sweep"
      BY <1>1
    <2> QED
      BY <1>1, <1>2, <2>1, <2>2, ProgramLeft
  <1>4. LeftPhase[m] = "run" /\ (Left!ListFull(m) <=> ListFull(m))
    BY <1>1, <1>3, LeftOfOne DEF Left!ListFull, ListFull
  <1>5. phase'[m] = IF ListFull(m) THEN "mark" ELSE "allocate"
    BY <1>1 DEF ListInv, TypeOK
  <1>6. operands' = [operands EXCEPT ![m] =
          Left!Pointers(m, {i \in Left!Slots : sp[m] - n <= i /\ i < sp[m]})]
    BY <1>1 DEF Left!Pointers, Pointers, Left!Slots, Slots
  <1>7. LeftPhase' = [LeftPhase EXCEPT ![m] = IF Left!ListFull(m) THEN "mark" ELSE "allocate"]
    BY <1>3, <1>4, <1>5
  <1> QED
    BY <1>1, <1>3, <1>4, <1>6, <1>7 DEF Left!Make, Left!heapVars

(* The new module's phase is seen as it is, and so is that of its spawner, *)
(* for all that matters here.                                              *)
LEMMA StartLeft ==
  ASSUME ListInv, ListInv', NEW m \in Modules, NEW a \in Modules, Start(a, m), UNCHANGED listVars
  PROVE  Left!Start(a, m)
  <1>1. /\ phase[a] = "unborn" /\ phase[m] # "unborn"
        /\ sp' = [sp EXCEPT ![a] = Globals]
        /\ phase' = [phase EXCEPT ![a] = "run"]
        /\ UNCHANGED <<heapVars, points, mutable, marked, operands, making, inFlight>>
    BY DEF Start
  <1>2. PICK values \in [Slots -> Fresh] :
          LET copied == [i \in Slots |-> IF i < Globals /\ phase[m] # "over" THEN stack[m][i]
                                                                            ELSE values[i]]
          IN  /\ stack' = [stack EXCEPT ![a] = copied]
              /\ exposed' = (exposed \/ HoldsPointer(copied))
    BY DEF Start
  <1>3. Program(m)
    BY DEF Program
  <1>4. /\ ~Sweeping(a)
        /\ LeftPhase' = [LeftPhase EXCEPT ![a] = phase'[a]]
        /\ UNCHANGED <<LeftObjects, LeftCount, LeftLimit, LeftMarks, LeftPoints, LeftMutable>>
    <2>1. \A k \in Modules : k # a => phase'[k] = phase[k]
      BY <1>1 DEF ListInv, TypeOK
    <2>2. phase[a] # "sweep"
      BY <1>1
    <2> QED
      BY <1>1, <1>3, <2>1, <2>2, ProgramLeft
  <1>5. LeftPhase' = [LeftPhase EXCEPT ![a] = "run"] /\ LeftPhase[a] = "unborn"
    <2>1. phase'[a] = "run"
      BY <1>1 DEF ListInv, TypeOK
    <2> QED
      BY <2>1, <1>1, <1>4, LeftOfOne
  <1>6. LeftPhase[m] # "unborn" /\ (LeftPhase[m] # "over" <=> phase[m] # "over")
    BY <1>1 DEF LeftPhase, ListInv, Lists
  <1> DEFINE copied == [i \in Slots |-> IF i < Globals /\ phase[m] # "over" THEN stack[m][i]
                                                                           ELSE values[i]]
             there == [i \in Left!Slots |-> IF i < Globals /\ LeftPhase[m] # "over"
                                            THEN stack[m][i] ELSE values[i]]
  <1>7. there = copied /\ Left!Slots = Slots
    BY <1>6 DEF Left!Slots, Slots
  <1>8. /\ stack' = [stack EXCEPT ![a] = copied]
        /\ exposed' = (exposed \/ HoldsPointer(copied))
    BY <1>2
  <1>9. Left!HoldsPointer(copied) <=> HoldsPointer(copied)
    BY DEF Left!HoldsPointer, HoldsPointer, Left!Slots, Slots
  <1> HIDE DEF copied
  <1>10. /\ stack' = [stack EXCEPT ![a] = there]
         /\ exposed' = (exposed \/ Left!HoldsPointer(there))
    BY <1>7, <1>8, <1>9
  <1> QED
    BY <1>1, <1>4, <1>5, <1>6, <1>7, <1>10 DEF Left!Start, Left!heapVars

LEMMA StoreLeft ==
  ASSUME ListInv, ListInv', NEW m \in Modules, NEW i \in Slots, Store(m, i), UNCHANGED listVars
  PROVE  Left!Store(m, i)
  <1>1. /\ phase[m] = "run" /\ NotEmpty(m) /\ i < sp[m] - 1
        /\ stack' = [stack EXCEPT ![m][i] = stack[m][sp[m] - 1]]
        /\ sp' = [sp EXCEPT ![m] = @ - 1]
        /\ Written(i, stack[m][sp[m] - 1])
        /\ UNCHANGED <<heapVars, points, mutable, marked, phase, operands, making, inFlight>>
    BY DEF Store
  <1>2. Program(m)
    BY DEF Program
  <1>3. /\ ~Sweeping(m)
        /\ UNCHANGED <<LeftObjects, LeftCount, LeftLimit, LeftMarks, LeftPhase, LeftPoints, LeftMutable>>
    BY <1>1, <1>2, ProgramLeavesAlone
  <1>4. LeftPhase[m] = "run"
    BY <1>1, <1>3, LeftOfOne
  <1> QED
    BY <1>1, <1>3, <1>4
    DEF Left!Store, Left!NotEmpty, NotEmpty, Left!Written, Written, Left!heapVars

LEMMA SendLeft ==
  ASSUME ListInv, ListInv', NEW m \in Modules, NEW g \in Modules \ {m}, Send(m, g), UNCHANGED listVars
  PROVE  Left!Send(m, g)
  <1>1. /\ Cardinality(inFlight) < MaxInFlight
        /\ phase[m] = "run" /\ NotEmpty(m)
        /\ inFlight' = inFlight \cup {<<g, stack[m][sp[m] - 1]>>}
        /\ exposed' = (exposed \/ stack[m][sp[m] - 1] # NULL)
        /\ sp' = [sp EXCEPT ![m] = @ - 1]
        /\ UNCHANGED <<stack, heapVars, points, mutable, marked, phase, operands, making>>
    BY DEF Send
  <1>2. Program(m)
    BY DEF Program
  <1>3. /\ ~Sweeping(m)
        /\ UNCHANGED <<LeftObjects, LeftCount, LeftLimit, LeftMarks, LeftPhase, LeftPoints, LeftMutable>>
    BY <1>1, <1>2, ProgramLeavesAlone
  <1>4. LeftPhase[m] = "run"
    BY <1>1, <1>3, LeftOfOne
  <1> QED
    BY <1>1, <1>3, <1>4, LeftCardinality
    DEF Left!Send, Left!NotEmpty, NotEmpty, Left!heapVars

LEMMA ReceiveLeft ==
  ASSUME ListInv, ListInv', NEW m \in Modules, NEW v \in Value, Receive(m, v), UNCHANGED listVars
  PROVE  Left!Receive(m, v)
  <1>1. /\ phase[m] = "run" /\ <<m, v>> \in inFlight
        /\ inFlight' = inFlight \ {<<m, v>>}
        /\ Pushed(m, v)
        /\ UNCHANGED <<heapVars, points, mutable, marked, phase, operands, making>>
    BY DEF Receive
  <1>2. Program(m)
    BY DEF Program
  <1>3. /\ ~Sweeping(m)
        /\ UNCHANGED <<LeftObjects, LeftCount, LeftLimit, LeftMarks, LeftPhase, LeftPoints, LeftMutable>>
    BY <1>1, <1>2, ProgramLeavesAlone
  <1>4. LeftPhase[m] = "run"
    BY <1>1, <1>3, LeftOfOne
  <1>5. Left!Pushed(m, v)
    BY <1>1 DEF Left!Pushed, Pushed, Left!Written, Written
  <1> QED
    BY <1>1, <1>3, <1>4, <1>5 DEF Left!Receive, Left!heapVars

(* mark_all looks at its own module's objects: what sweeps elsewhere have  *)
(* still to unmark does not change what it reaches.                        *)
LEMMA MarkAllLeft ==
  ASSUME ListInv, ListInv', Left!IInv, NEW m \in Modules, MarkAll(m), UNCHANGED listVars
  PROVE  Left!MarkAll(m)
  <1> DEFINE roots == Pointers(m, ScannedSlots(m))
             M == MarkedFrom(roots)
             L == Left!MarkedFrom(roots)
  <1>1. /\ phase[m] = "mark"
        /\ marked' = marked \cup M
        /\ phase' = [phase EXCEPT ![m] = "sweep"]
        /\ UNCHANGED <<stackVars, heapVars, points, mutable, operands, making, inFlight, exposed>>
    BY DEF MarkAll
  <1>2. ~Sweeping(m) /\ Program(m)
    BY <1>1 DEF Program, ListInv, Lists
  <1>3. /\ LeftPhase[m] = "mark" /\ LeftObjects[m] = objects[m] /\ objects[m] \subseteq Objects
        /\ \A o \in objects[m] : LeftPoints[o] = points[o] /\ points[o] \subseteq objects[m]
        /\ LeftMarks \cap objects[m] = marked \cap objects[m]
        /\ Pointers(m, Slots) \subseteq objects[m]
    BY <1>1, <1>2, LeftOfOne, SlotsOfOne DEF ListInv, TypeOK
  <1>4. marked \cap objects[m] = {} /\ LeftMarks \cap objects[m] = {}
    BY <1>3 DEF Left!IInv, Left!Marks
  <1>5. roots \subseteq objects[m]
    BY <1>3, SlotsWithin DEF ScannedSlots, roots
  <1> HIDE DEF roots, M, L
  <1>6. /\ M \subseteq Objects \ marked
        /\ roots \cap (Objects \ marked) \subseteq M
        /\ \A o \in M : points[o] \cap (Objects \ marked) \subseteq M
        /\ \A S \in SUBSET (Objects \ marked) :
             /\ roots \cap (Objects \ marked) \subseteq S
             /\ \A o \in S : points[o] \cap (Objects \ marked) \subseteq S
             => M \subseteq S
    BY MarkedFromFacts DEF M
  <1>7. /\ L \subseteq Objects \ LeftMarks
        /\ roots \cap (Objects \ LeftMarks) \subseteq L
        /\ \A o \in L : LeftPoints[o] \cap (Objects \ LeftMarks) \subseteq L
        /\ \A S \in SUBSET (Objects \ LeftMarks) :
             /\ roots \cap (Objects \ LeftMarks) \subseteq S
             /\ \A o \in S : LeftPoints[o] \cap (Objects \ LeftMarks) \subseteq S
             => L \subseteq S
    BY SMTT(30) DEF L, Left!MarkedFrom, Left!Children
  <1>8. M \subseteq objects[m]
    BY <1>3, <1>4, <1>5, <1>6
  <1>9. L \subseteq objects[m]
    BY <1>3, <1>4, <1>5, <1>7
  <1>10. M \subseteq L
    <2>1. L \in SUBSET (Objects \ marked) /\ roots \cap (Objects \ marked) \subseteq L
      BY <1>3, <1>4, <1>5, <1>7, <1>9
    <2>2. \A o \in L : points[o] \cap (Objects \ marked) \subseteq L
      BY <1>3, <1>4, <1>7, <1>9
    <2> QED
      BY <2>1, <2>2, <1>6
  <1>11. L \subseteq M
    <2>1. M \in SUBSET (Objects \ LeftMarks) /\ roots \cap (Objects \ LeftMarks) \subseteq M
      BY <1>3, <1>4, <1>5, <1>6, <1>8
    <2>2. \A o \in M : LeftPoints[o] \cap (Objects \ LeftMarks) \subseteq M
      BY <1>3, <1>4, <1>6, <1>8
    <2> QED
      BY <2>1, <2>2, <1>7
  <1>12. M = L
    BY <1>10, <1>11
  <1>13. /\ UNCHANGED <<objects, numObjects, maxObjects>>
         /\ \A k \in Modules : Ahead(k)' = Ahead(k) /\ (Sweeping(k)' <=> Sweeping(k))
    BY <1>1, <1>2, ProgramAhead DEF heapVars
  <1>14. \A k \in Modules : M \cap Ahead(k) = {}
    BY <1>2, <1>8, AheadFacts DEF AheadIsOwn
  <1>15. DoomedByAll' = DoomedByAll
    <2>1. \A o : o \in DoomedByAll' <=> o \in DoomedByAll
      BY <1>1, <1>13, <1>14, LeftFacts, LeftFactsAfter DEF LeftIsSwept
    <2> QED
      BY <2>1 DEF DoomedByAll
  <1>16. LeftMarks' = LeftMarks \cup M
    <2>1. \A o : o \in LeftMarks' <=> o \in LeftMarks \/ o \in M
      BY <1>1, <1>13, <1>14, LeftFacts, LeftFactsAfter DEF LeftIsSwept
    <2> QED
      BY <2>1 DEF LeftMarks
  <1>17. \A k \in Modules : LeftObjects'[k] = LeftObjects[k]
    <2>1. \A k \in Modules : /\ LeftObjects[k] = objects[k] \ DoomedByAll
                             /\ LeftObjects'[k] = objects'[k] \ DoomedByAll'
      BY LeftFacts, LeftFactsAfter DEF LeftIsSwept
    <2> QED
      BY <2>1, <1>13, <1>15
  <1>18. \A k \in Modules : /\ LeftCount'[k] = LeftCount[k]
                            /\ LeftLimit'[k] = LeftLimit[k]
                            /\ LeftPhase'[k] = IF k = m THEN "sweep" ELSE LeftPhase[k]
    <2>1. \A k \in Modules : phase'[k] = IF k = m THEN "sweep" ELSE phase[k]
      BY <1>1 DEF ListInv, TypeOK
    <2> QED
      BY <2>1, <1>2, <1>13, <1>17, LeftFacts, LeftFactsAfter DEF LeftIsSwept
  <1>19. /\ LeftObjects' = LeftObjects /\ LeftCount' = LeftCount /\ LeftLimit' = LeftLimit
         /\ LeftPhase' = [LeftPhase EXCEPT ![m] = "sweep"]
    BY <1>17, <1>18, LeftFunctions, LeftFunctionsAfter DEF LeftByPoints
  <1>20. LeftPoints' = LeftPoints /\ LeftMutable' = LeftMutable
    BY <1>1, <1>15 DEF LeftPoints, LeftMutable
  <1>21. roots = Left!Pointers(m, Left!ScannedSlots(m))
    BY DEF roots, Left!Pointers, Pointers, Left!ScannedSlots, ScannedSlots, Left!Slots, Slots
  <1>22. LeftMarks' = LeftMarks \cup Left!MarkedFrom(Left!Pointers(m, Left!ScannedSlots(m)))
    BY <1>12, <1>16, <1>21 DEF L
  <1> QED
    BY <1>1, <1>3, <1>19, <1>20, <1>22 DEF Left!MarkAll, Left!heapVars, Left!stackVars, stackVars

(* malloc takes memory that no list holds, nor any sweep.                  *)
LEMMA AllocateLeft ==
  ASSUME ListInv, ListInv', ~cut', NEW m \in Modules, NEW o \in Objects, AllocateFirst(m, o)
  PROVE  Left!Allocate(m, o)
  <1>1. /\ phase[m] = "allocate" /\ o \notin Live
        /\ objects' = [objects EXCEPT ![m] = @ \cup {o}]
        /\ numObjects' = [numObjects EXCEPT ![m] = @ + 1]
        /\ points' = [points EXCEPT ![o] = operands[m]]
        /\ mutable' = IF making[m] = "mutable" THEN mutable \cup {o} ELSE mutable \ {o}
        /\ marked' = marked \ {o}
        /\ operands' = [operands EXCEPT ![m] = {}]
        /\ phase' = [phase EXCEPT ![m] = "run"]
        /\ Pushed(m, o)
        /\ making' = [making EXCEPT ![m] = "list"]
        /\ UNCHANGED <<maxObjects, inFlight>>
    BY DEF AllocateFirst, Allocate
  <1>2. /\ ~Sweeping(m)
        /\ \A k \in Modules : Ahead(k)' = Ahead(k) /\ (Sweeping(k)' <=> Sweeping(k))
    BY AllocateAhead
  <1>3. \A k \in Modules : o \notin objects[k] /\ o \notin Ahead(k)
    BY <1>1, AheadFacts DEF Live, AheadIsOwn
  <1>4. DoomedByAll' = DoomedByAll /\ o \notin DoomedByAll
    <2>1. \A p : p \in DoomedByAll' <=> p \in DoomedByAll
      BY <1>1, <1>2, <1>3, LeftFacts, LeftFactsAfter DEF LeftIsSwept
    <2>2. o \notin DoomedByAll
      BY <1>3, LeftFacts DEF LeftIsSwept
    <2> QED
      BY <2>1, <2>2 DEF DoomedByAll
  <1>5. LeftMarks' = LeftMarks \ {o}
    <2>1. \A p : p \in LeftMarks' <=> p \in LeftMarks /\ p # o
      BY <1>1, <1>2, LeftFacts, LeftFactsAfter DEF LeftIsSwept
    <2> QED
      BY <2>1 DEF LeftMarks
  <1>6. /\ \A k \in Modules : objects'[k] = IF k = m THEN objects[m] \cup {o} ELSE objects[k]
        /\ \A k \in Modules : numObjects'[k] = IF k = m THEN numObjects[m] + 1 ELSE numObjects[k]
        /\ \A k \in Modules : phase'[k] = IF k = m THEN "run" ELSE phase[k]
        /\ \A p \in Objects : points'[p] = IF p = o THEN operands[m] ELSE points[p]
    BY <1>1 DEF ListInv, TypeOK
  <1>7. \A k \in Modules : LeftObjects'[k] = IF k = m THEN LeftObjects[m] \cup {o} ELSE LeftObjects[k]
    <2>1. \A k \in Modules : /\ LeftObjects[k] = objects[k] \ DoomedByAll
                             /\ LeftObjects'[k] = objects'[k] \ DoomedByAll
      BY <1>4, LeftFacts, LeftFactsAfter DEF LeftIsSwept
    <2>2. LeftObjects'[m] = LeftObjects[m] \cup {o}
      BY <2>1, <1>4, <1>6
    <2>3. \A k \in Modules : k # m => LeftObjects'[k] = LeftObjects[k]
      BY <2>1, <1>6, ZenonT(30)
    <2> QED
      BY <2>2, <2>3
  <1>8. \A k \in Modules : /\ LeftCount'[k] = IF k = m THEN LeftCount[m] + 1 ELSE LeftCount[k]
                           /\ LeftLimit'[k] = LeftLimit[k]
                           /\ LeftPhase'[k] = IF k = m THEN "run" ELSE LeftPhase[k]
    <2>1. /\ LeftCount'[m] = LeftCount[m] + 1 /\ LeftLimit'[m] = LeftLimit[m]
          /\ LeftPhase'[m] = "run"
      BY <1>1, <1>2, <1>6, LeftFacts, LeftFactsAfter DEF LeftIsSwept
    <2>2. \A k \in Modules : k # m => /\ LeftCount'[k] = LeftCount[k]
                                      /\ LeftLimit'[k] = LeftLimit[k]
                                      /\ LeftPhase'[k] = LeftPhase[k]
      BY <1>1, <1>2, <1>6, <1>7, LeftFacts, LeftFactsAfter DEF LeftIsSwept
    <2> QED
      BY <2>1, <2>2
  <1>9. \A p \in Objects : LeftPoints'[p] = IF p = o THEN operands[m] ELSE LeftPoints[p]
    <2>1. \A p \in Objects : /\ LeftPoints[p] = IF p \in DoomedByAll THEN {} ELSE points[p]
                             /\ LeftPoints'[p] = IF p \in DoomedByAll THEN {} ELSE points'[p]
      BY <1>4, LeftFacts, LeftFactsAfter DEF LeftIsSwept
    <2> QED
      BY <2>1, <1>4, <1>6
  <1>10. LeftMutable' = IF making[m] = "mutable" THEN LeftMutable \cup {o} ELSE LeftMutable \ {o}
    BY <1>1, <1>4 DEF LeftMutable
  <1>11. /\ LeftObjects' = [LeftObjects EXCEPT ![m] = @ \cup {o}]
         /\ LeftCount' = [LeftCount EXCEPT ![m] = @ + 1]
         /\ LeftLimit' = LeftLimit
         /\ LeftPhase' = [LeftPhase EXCEPT ![m] = "run"]
         /\ LeftPoints' = [LeftPoints EXCEPT ![o] = operands[m]]
    BY <1>7, <1>8, <1>9, LeftFunctions, LeftFunctionsAfter DEF LeftByPoints
  <1>12. LeftPhase[m] = "allocate" /\ o \notin Left!Live
    <2>1. \A k \in Modules : LeftObjects[k] = objects[k] \ DoomedByAll
      BY LeftFacts DEF LeftIsSwept
    <2>2. o \notin Left!Live
      BY <2>1, <1>3 DEF Left!Live
    <2> QED
      BY <2>2, <1>1, <1>2, LeftOfOne
  <1>13. Left!Pushed(m, o)
    BY <1>1 DEF Left!Pushed, Pushed, Left!Written, Written
  <1> QED
    BY <1>1, <1>5, <1>10, <1>11, <1>12, <1>13 DEF Left!Allocate

LEMMA ForceSweepLeft ==
  ASSUME ListInv, ListInv', NEW m \in Modules, ForceSweepList(m)
  PROVE  Left!ForceSweep(m)
  <1>1. /\ phase[m] = "run"
        /\ objects' = [k \in Modules |-> objects[k] \ Nodes(first[m])]
        /\ Freed(Nodes(first[m]))
        /\ numObjects' = [numObjects EXCEPT ![m] = 0]
        /\ phase' = [phase EXCEPT ![m] = "over"]
        /\ sp' = [sp EXCEPT ![m] = 0]
        /\ UNCHANGED <<stack, maxObjects, marked, operands, making, inFlight, exposed>>
    BY DEF ForceSweepList
  <1>2. gone[m] = NULL
    BY <1>1 DEF ListInv, Lists
  <1>3. Nodes(first[m]) = objects[m]
    BY <1>2, NoneGone
  <1>4. /\ ~Sweeping(m)
        /\ \A k \in Modules : Ahead(k)' = Ahead(k) /\ (Sweeping(k)' <=> Sweeping(k))
    BY ForceSweepAhead
  <1>5. /\ objects'[m] = {}
        /\ \A k \in Modules : k # m => objects'[k] = objects[k]
        /\ \A p \in Objects : points'[p] = IF p \in objects[m] THEN {} ELSE points[p]
        /\ mutable' = mutable \ objects[m]
    BY <1>1, <1>3, AheadFacts DEF AheadIsOwn, Freed
  <1>6. /\ \A k \in Modules : numObjects'[k] = IF k = m THEN 0 ELSE numObjects[k]
        /\ \A k \in Modules : phase'[k] = IF k = m THEN "over" ELSE phase[k]
    BY <1>1 DEF ListInv, TypeOK
  <1>7. DoomedByAll' = DoomedByAll /\ LeftMarks' = LeftMarks
    <2>1. \A p : (p \in DoomedByAll' <=> p \in DoomedByAll) /\ (p \in LeftMarks' <=> p \in LeftMarks)
      BY <1>1, <1>4, LeftFacts, LeftFactsAfter DEF LeftIsSwept
    <2> QED
      BY <2>1 DEF DoomedByAll, LeftMarks
  <1>8. \A k \in Modules : LeftObjects'[k] = IF k = m THEN {} ELSE LeftObjects[k]
    <2>1. \A k \in Modules : /\ LeftObjects[k] = objects[k] \ DoomedByAll
                             /\ LeftObjects'[k] = objects'[k] \ DoomedByAll
      BY <1>7, LeftFacts, LeftFactsAfter DEF LeftIsSwept
    <2>2. LeftObjects'[m] = {}
      BY <2>1, <1>5
    <2> QED
      BY <2>1, <2>2, <1>5
  <1>9. \A k \in Modules : /\ LeftCount'[k] = IF k = m THEN 0 ELSE LeftCount[k]
                           /\ LeftLimit'[k] = LeftLimit[k]
                           /\ LeftPhase'[k] = IF k = m THEN "over" ELSE LeftPhase[k]
    <2>1. LeftCount'[m] = 0 /\ LeftLimit'[m] = LeftLimit[m] /\ LeftPhase'[m] = "over"
      BY <1>1, <1>4, <1>6, LeftFacts, LeftFactsAfter DEF LeftIsSwept
    <2>2. \A k \in Modules : k # m => /\ LeftCount'[k] = LeftCount[k]
                                      /\ LeftLimit'[k] = LeftLimit[k]
                                      /\ LeftPhase'[k] = LeftPhase[k]
      BY <1>1, <1>4, <1>6, <1>8, LeftFacts, LeftFactsAfter DEF LeftIsSwept
    <2> QED
      BY <2>1, <2>2
  <1>10. \A p \in Objects : LeftPoints'[p] = IF p \in objects[m] THEN {} ELSE LeftPoints[p]
    <2>1. \A p \in Objects : /\ LeftPoints[p] = IF p \in DoomedByAll THEN {} ELSE points[p]
                             /\ LeftPoints'[p] = IF p \in DoomedByAll THEN {} ELSE points'[p]
      BY <1>7, LeftFacts, LeftFactsAfter DEF LeftIsSwept
    <2> QED
      BY <2>1, <1>5
  <1>11. LeftMutable' = LeftMutable \ objects[m]
    BY <1>5, <1>7 DEF LeftMutable
  <1>12. /\ LeftObjects' = [LeftObjects EXCEPT ![m] = {}]
         /\ LeftCount' = [LeftCount EXCEPT ![m] = 0]
         /\ LeftLimit' = LeftLimit
         /\ LeftPhase' = [LeftPhase EXCEPT ![m] = "over"]
         /\ LeftPoints' = [o \in Objects |-> IF o \in objects[m] THEN {} ELSE LeftPoints[o]]
    BY <1>8, <1>9, <1>10, LeftFunctions, LeftFunctionsAfter DEF LeftByPoints
  <1>13. LeftPhase[m] = "run" /\ LeftObjects[m] = objects[m]
    BY <1>1, <1>4, LeftOfOne
  <1>14. Left!Freed(LeftObjects[m])
    BY <1>11, <1>12, <1>13 DEF Left!Freed
  <1> QED
    BY <1>1, <1>7, <1>12, <1>13, <1>14 DEF Left!ForceSweep

-----------------------------------------------------------------------------
(* The assumptions about the constants hold of Left as well.               *)
LEMMA LeftAssumption == Left!CollectorAssumption
  <1>1. \A S : Left!IsFiniteSet(S) <=> IsFiniteSet(S)
    BY DEF Left!IsFiniteSet, IsFiniteSet
  <1> QED
    BY <1>1, CollectorAssumption DEF Left!CollectorAssumption, Left!Value, Value

LEMMA InitLeft == ListInit => Left!Init
  <1> SUFFICES ASSUME ListInit PROVE Left!Init
    OBVIOUS
  <1> PICK main \in Modules, values \in [Slots -> Fresh] :
        /\ stack = [m \in Modules |-> IF m = main THEN values ELSE [i \in Slots |-> NULL]]
        /\ sp = [m \in Modules |-> IF m = main THEN Globals ELSE 0]
        /\ phase = [m \in Modules |-> IF m = main THEN "run" ELSE "unborn"]
        /\ exposed = HoldsPointer(values)
    BY DEF ListInit, Init
  <1>1. /\ ListInv /\ \A m \in Modules : ~Sweeping(m)
        /\ objects = [m \in Modules |-> {}] /\ numObjects = [m \in Modules |-> 0]
        /\ maxObjects = [m \in Modules |-> INIT_OBJECTS] /\ points = [o \in Objects |-> {}]
        /\ mutable = {} /\ marked = {} /\ inFlight = {}
        /\ operands = [m \in Modules |-> {}] /\ making = [m \in Modules |-> "list"]
    BY ListInitInv DEF ListInit, Init, Sweeping
  <1>2. \A o : o \notin DoomedByAll
    BY <1>1, AheadFacts, LeftFacts DEF LeftIsSwept, AheadIsOwn
  <1>3. \A m \in Modules : /\ LeftObjects[m] = {} /\ LeftCount[m] = 0
                           /\ LeftLimit[m] = INIT_OBJECTS
    BY <1>1, LeftFacts DEF LeftIsSwept
  <1>4. \A o \in Objects : LeftPoints[o] = {}
    BY <1>1, <1>2, LeftFacts DEF LeftIsSwept
  <1>5. LeftMutable = {} /\ LeftMarks = {} /\ LeftPhase = phase
    BY <1>1 DEF LeftMutable, LeftMarks, LeftPhase
  <1>6. /\ LeftObjects = [m \in Modules |-> {}]
        /\ LeftCount = [m \in Modules |-> 0]
        /\ LeftLimit = [m \in Modules |-> INIT_OBJECTS]
        /\ LeftPoints = [o \in Objects |-> {}]
    BY <1>3, <1>4, LeftFunctions DEF LeftByPoints
  <1>7. values \in [Left!Slots -> Fresh] /\ Left!HoldsPointer(values) = HoldsPointer(values)
    BY DEF Left!HoldsPointer, HoldsPointer, Left!Slots, Slots
  <1>8. Left!Slots = Slots
    BY DEF Left!Slots, Slots
  <1> QED
    BY <1>1, <1>5, <1>6, <1>7, <1>8 DEF Left!Init

(* Every step of the list is a step of the collector, or none.             *)
LEMMA StepLeft ==
  ASSUME ListInv, ListCounts, Left!IInv, ListInv', ~cut', [ListNext]_heapListVars
  PROVE  [Left!Next]_(Left!vars)
  <1>1. ListInv /\ ListCounts /\ Left!IInv
    OBVIOUS
  <1>2. ASSUME UNCHANGED leftVars, UNCHANGED <<stack, sp, operands, making, inFlight, exposed>>
        PROVE  UNCHANGED Left!vars
    BY <1>2 DEF leftVars, Left!vars
  <1>3. CASE UNCHANGED heapListVars
    <2>1. UNCHANGED vars /\ UNCHANGED listVars
      BY <1>3 DEF heapListVars
    <2>2. UNCHANGED leftVars
      BY <2>1 DEF vars, listVars, leftVars, LeftObjects, LeftCount, LeftLimit, LeftPoints, LeftMutable,
                  LeftMarks, LeftPhase, LeftTo, Doomed, DoomedByAll, Ahead, Sweeping, Nodes, Link
    <2> QED
      BY <2>1, <2>2, <1>2 DEF vars
  <1>4. ASSUME NEW m \in Modules, Program(m) PROVE Left!Next
    <2>1. UNCHANGED listVars
      BY <1>4 DEF Program
    <2>2. ASSUME NEW v \in Value, Load(m, v) PROVE Left!Next
      BY <2>1, <2>2, <1>1, LoadLeft DEF Left!Next, Left!Value, Value
    <2>3. CASE Pop(m)
      BY <2>1, <2>3, <1>1, PopLeft DEF Left!Next
    <2>4. ASSUME NEW o \in Objects, NEW v \in Value, Update(m, o, v) PROVE Left!Next
      BY <2>1, <2>4, <1>1, UpdateLeft DEF Left!Next, Left!Value, Value
    <2>5. ASSUME NEW n \in 0 .. MaxOperands, NEW type \in {"list", "mutable"}, Make(m, n, type)
          PROVE  Left!Next
      BY <2>1, <2>5, <1>1, MakeLeft DEF Left!Next
    <2>9. ASSUME NEW i \in Slots, Store(m, i) PROVE Left!Next
      <3>1. Left!Store(m, i) /\ i \in Left!Slots
        BY <2>1, <2>9, <1>1, StoreLeft DEF Left!Slots, Slots
      <3> QED
        BY <3>1 DEF Left!Next
    <2>10. ASSUME NEW a \in Modules, Start(a, m) PROVE Left!Next
      BY <2>1, <2>10, <1>1, StartLeft DEF Left!Next
    <2>6. CASE MarkAll(m)
      BY <2>1, <2>6, <1>1, MarkAllLeft DEF Left!Next
    <2>7. ASSUME NEW g \in Modules \ {m}, Send(m, g) PROVE Left!Next
      BY <2>1, <2>7, <1>1, SendLeft DEF Left!Next
    <2>8. ASSUME NEW v \in Value, Receive(m, v) PROVE Left!Next
      BY <2>1, <2>8, <1>1, ReceiveLeft DEF Left!Next, Left!Value, Value
    <2> QED
      BY <2>2, <2>3, <2>4, <2>5, <2>6, <2>7, <2>8, <2>9, <2>10, <1>4 DEF Program
  <1>5. ASSUME NEW m \in Modules, BeginSweep(m) PROVE Left!Next
    BY <1>1, <1>5, BeginSweepLeft DEF Left!Next
  <1>6. ASSUME NEW m \in Modules, FreeNode(m) PROVE UNCHANGED Left!vars
    BY <1>1, <1>2, <1>6, FreeNodeLeft
  <1>7. ASSUME NEW m \in Modules, Unlink(m) PROVE UNCHANGED Left!vars
    BY <1>1, <1>2, <1>7, UnlinkLeft
  <1>8. ASSUME NEW m \in Modules, PassNode(m) PROVE UNCHANGED Left!vars
    BY <1>1, <1>2, <1>8, PassNodeLeft
  <1>9. ASSUME NEW m \in Modules, EndSweep(m) PROVE UNCHANGED Left!vars
    BY <1>1, <1>2, <1>9, EndSweepLeft
  <1>10. ASSUME NEW m \in Modules, NEW o \in Objects, AllocateFirst(m, o) PROVE Left!Next
    BY <1>1, <1>10, AllocateLeft DEF Left!Next
  <1>11. ASSUME NEW m \in Modules, ForceSweepList(m) PROVE Left!Next
    BY <1>1, <1>11, ForceSweepLeft DEF Left!Next
  <1> QED
    BY <1>3, <1>4, <1>5, <1>6, <1>7, <1>8, <1>9, <1>10, <1>11 DEF ListNext

(* What is exposed stays so.                                               *)
LEMMA ListExposedStays == ASSUME [ListNext]_heapListVars, exposed PROVE exposed'
  <1>1. ASSUME NEW m \in Modules, Program(m) PROVE exposed'
    BY <1>1, ExposedStays DEF Program, Next
  <1>2. ASSUME NEW m \in Modules, NEW o \in Objects, AllocateFirst(m, o) PROVE exposed'
    BY <1>2, ExposedStays DEF AllocateFirst, Next
  <1>3. CASE UNCHANGED exposed
    BY <1>3
  <1> QED
    BY <1>1, <1>2, <1>3
    DEF ListNext, BeginSweep, FreeNode, Unlink, PassNode, EndSweep, ForceSweepList, heapListVars, vars

UntilDisturbed ==
  /\ ~cut => ListInv /\ ListCounts
  /\ ~cut /\ ~exposed => Left!IInv

LEMMA HStep ==
  ASSUME UntilDisturbed, [ListNext]_heapListVars
  PROVE  UntilDisturbed'
  <1>1. ASSUME ~cut' PROVE ListInv /\ ListCounts /\ ListInv' /\ ListCounts'
    <2>1. ListInv /\ ListCounts
      BY <1>1, CutStays DEF UntilDisturbed
    <2>2. ListInv'
      BY <1>1, <2>1, ListStep
    <2> QED
      BY <1>1, <2>1, <2>2, ListCountsStep
  <1>2. ASSUME ~cut', ~exposed' PROVE Left!IInv'
    <2>1. Left!IInv
      BY <1>2, CutStays, ListExposedStays DEF UntilDisturbed
    <2>2. [Left!Next]_(Left!vars)
      BY <1>1, <1>2, <2>1, StepLeft
    <2> QED
      BY <1>2, <2>1, <2>2, LeftAssumption, Left!IInvStep
  <1> QED
    BY <1>1, <1>2 DEF UntilDisturbed

LEMMA HInvariance == ListSpec => []UntilDisturbed
  <1>1. ListInit => UntilDisturbed
    <2> SUFFICES ASSUME ListInit PROVE UntilDisturbed
      OBVIOUS
    <2>1. ListInv /\ Left!Init /\ Init /\ \A m \in Modules : gone[m] = NULL
      BY ListInitInv, InitLeft DEF ListInit
    <2>2. ~exposed => Left!IInv
      BY <2>1, LeftAssumption, Left!InitIInv DEF Left!UntilExposed
    <2>3. ListCounts
      BY <2>1, FS_EmptySet DEF ListCounts, Init
    <2> QED
      BY <2>1, <2>2, <2>3 DEF UntilDisturbed
  <1>2. UntilDisturbed /\ [ListNext]_heapListVars => UntilDisturbed'
    BY HStep
  <1> QED
    BY <1>1, <1>2, PTL DEF ListSpec

-----------------------------------------------------------------------------
(* HeapList!Abstract is Left: the same module with the same state.         *)
LEMMA AbstractIsLeft ==
  /\ Left!Init <=> Abstract!Init
  /\ [Left!Next]_(Left!vars) <=> [Abstract!Next]_(Abstract!vars)
  <1> USE DEF LeftObjects, LeftCount, LeftLimit, LeftPoints, LeftMutable, LeftMarks, LeftPhase,
              Left!Slots, Abstract!Slots, Left!Value, Abstract!Value,
              Left!heapVars, Abstract!heapVars, Left!stackVars, Abstract!stackVars,
              Left!Pointers, Abstract!Pointers, Left!InUse, Abstract!InUse,
              Left!Pushed, Abstract!Pushed, Left!Written, Abstract!Written,
              Left!HoldsPointer, Abstract!HoldsPointer, Left!NotEmpty, Abstract!NotEmpty,
              Left!Freed, Abstract!Freed
  <1>1. Left!Init <=> Abstract!Init
    BY DEF Left!Init, Abstract!Init
  <1>2. Left!vars = Abstract!vars /\ Left!vars' = Abstract!vars'
    BY DEF Left!vars, Abstract!vars
  <1>3. \A S : Left!Cardinality(S) = Abstract!Cardinality(S)
    BY DEF Left!Cardinality, Abstract!Cardinality
  <1>4. ASSUME NEW m \in Modules, NEW v \in Value
        PROVE  Left!Load(m, v) <=> Abstract!Load(m, v)
    BY DEF Left!Load, Abstract!Load
  <1>5. ASSUME NEW m \in Modules
        PROVE  Left!Pop(m) <=> Abstract!Pop(m)
    BY DEF Left!Pop, Abstract!Pop
  <1>6. ASSUME NEW m \in Modules, NEW o \in Objects, NEW v \in Value
        PROVE  Left!Update(m, o, v) <=> Abstract!Update(m, o, v)
    BY DEF Left!Update, Abstract!Update
  <1>7. ASSUME NEW m \in Modules, NEW n \in 0 .. MaxOperands, NEW type \in {"list", "mutable"}
        PROVE  Left!Make(m, n, type) <=> Abstract!Make(m, n, type)
    BY DEF Left!Make, Abstract!Make, Left!ListFull, Abstract!ListFull
  <1>8. ASSUME NEW m \in Modules
        PROVE  Left!MarkAll(m) <=> Abstract!MarkAll(m)
    BY DEF Left!MarkAll, Abstract!MarkAll, Left!MarkedFrom, Abstract!MarkedFrom,
           Left!Children, Abstract!Children, Left!ScannedSlots, Abstract!ScannedSlots
  <1>9. ASSUME NEW m \in Modules
        PROVE  Left!Sweep(m) <=> Abstract!Sweep(m)
    BY <1>3 DEF Left!Sweep, Abstract!Sweep, Left!LimitFor, Abstract!LimitFor,
                Left!Unmarked, Abstract!Unmarked
  <1>10. ASSUME NEW m \in Modules, NEW o \in Objects
         PROVE  Left!Allocate(m, o) <=> Abstract!Allocate(m, o)
    BY DEF Left!Allocate, Abstract!Allocate, Left!Live, Abstract!Live
  <1>11. ASSUME NEW m \in Modules
         PROVE  Left!ForceSweep(m) <=> Abstract!ForceSweep(m)
    BY DEF Left!ForceSweep, Abstract!ForceSweep
  <1>12. ASSUME NEW m \in Modules, NEW g \in Modules \ {m}
         PROVE  Left!Send(m, g) <=> Abstract!Send(m, g)
    BY <1>3 DEF Left!Send, Abstract!Send
  <1>13. ASSUME NEW m \in Modules, NEW v \in Value
         PROVE  Left!Receive(m, v) <=> Abstract!Receive(m, v)
    BY DEF Left!Receive, Abstract!Receive
  <1>15. ASSUME NEW m \in Modules, NEW i \in Slots
         PROVE  Left!Store(m, i) <=> Abstract!Store(m, i)
    BY DEF Left!Store, Abstract!Store
  <1>16. ASSUME NEW m \in Modules, NEW a \in Modules
         PROVE  Left!Start(a, m) <=> Abstract!Start(a, m)
    BY DEF Left!Start, Abstract!Start
  <1>14. Left!Next <=> Abstract!Next
    BY <1>15, <1>16, <1>4, <1>5, <1>6, <1>7, <1>8, <1>9, <1>10, <1>11, <1>12, <1>13
    DEF Left!Next, Abstract!Next, Value, Slots
  <1> QED
    BY <1>1, <1>2, <1>14

(* A walk along the list that frees node by node, beside the other         *)
(* modules' steps, does what one step that frees all of them would do      *)
(* (value.c, sweep), until a pointer has come to where its owner does not  *)
(* look or a freed node has lost its next.                                 *)
THEOREM ListImplementsCollector == ListSpec => ImplementsCollector
  <1>1. ListInit => Abstract!Init
    BY InitLeft, AbstractIsLeft
  <1>2. UntilDisturbed /\ UntilDisturbed' /\ [ListNext]_heapListVars
          => [exposed \/ cut' \/ Abstract!Next]_(Abstract!vars)
    BY CutStays, StepLeft, AbstractIsLeft DEF UntilDisturbed
  <1> QED
    BY <1>1, <1>2, HInvariance, PTL DEF ListSpec, ImplementsCollector

-----------------------------------------------------------------------------
(* What a program reaches its module still has, and no sweep will free it. *)
LEMMA ReachesWhatIsLeft ==
  ASSUME ListInv, Left!IInv, NEW m \in Modules
  PROVE  Reaches(m) \subseteq LeftObjects[m] /\ LeftObjects[m] \subseteq objects[m]
  <1>1. ListInv /\ Left!TypeOK /\ Left!OwnHeap
    BY DEF Left!IInv
  <1>2. LeftObjects[m] \subseteq objects[m] /\ objects[m] \subseteq Objects
    BY <1>1, LeftFacts DEF LeftIsSwept, ListInv, TypeOK
  <1>3. \A p \in LeftObjects[m] : points[p] \subseteq LeftObjects[m]
    <2>1. \A p \in LeftObjects[m] : p \in Objects /\ p \notin DoomedByAll
      BY <1>1, <1>2, LeftFacts DEF LeftIsSwept
    <2>2. \A p \in LeftObjects[m] : LeftPoints[p] = points[p]
      BY <1>1, <2>1, LeftFacts DEF LeftIsSwept
    <2> QED
      BY <1>1, <2>2 DEF Left!OwnHeap
  <1>4. Roots(m) \subseteq LeftObjects[m]
    <2>1. /\ LeftPhase[m] # "over" => Pointers(m, Slots) \subseteq LeftObjects[m]
          /\ operands[m] \subseteq Pointers(m, Slots)
          /\ LeftPhase[m] = "over" => sp[m] = 0 /\ operands[m] = {}
      BY <1>1 DEF Left!OwnHeap, Left!Pointers, Pointers, Left!Slots, Slots
    <2>2. Pointers(m, InUse(m)) \subseteq Pointers(m, Slots)
      BY SlotsWithin DEF InUse
    <2>3. sp[m] = 0 => Pointers(m, InUse(m)) = {}
      BY CollectorAssumption DEF InUse, Slots, Pointers
    <2> QED
      BY <2>1, <2>2, <2>3 DEF Roots
  <1>5. PICK S \in SUBSET Objects : S = LeftObjects[m]
    BY <1>2
  <1>6. Reaches(m) \subseteq S
    BY <1>3, <1>4, <1>5 DEF Reaches
  <1> QED
    BY <1>2, <1>5, <1>6

(* Nothing that a slot in use, a live object or a pending allocation       *)
(* refers to has been freed, in the middle of a sweep of the linked list   *)
(* either (value.c, sweep and force_sweep), as long as freed nodes kept    *)
(* their next and every pointer is where its owner looks.                  *)
THEOREM ListHasNoDanglingPointer == ListSpec => [](~cut => NoDanglingPointer)
  <1>1. UntilDisturbed => (~cut => NoDanglingPointer)
    BY ReachesWhatIsLeft DEF UntilDisturbed, NoDanglingPointer, Live
  <1> QED
    BY <1>1, HInvariance, PTL

(* A node that sweep takes out of the list is one that the program of its  *)
(* module no longer reaches, at that very step (value.c, sweep), as long   *)
(* as freed nodes kept their next and every pointer is where its owner     *)
(* looks: it is what SweepFreesOnlyUnreached says, until then.             *)
THEOREM ListSweepIsSound ==
  ListSpec => [][~cut' => \A m \in Modules : ~exposed /\ phase[m] = "sweep" =>
                            Reaches(m) \cap (objects[m] \ objects'[m]) = {}]_vars
  <1> DEFINE Sound == ~cut' => \A m \in Modules : ~exposed /\ phase[m] = "sweep" =>
                                 Reaches(m) \cap (objects[m] \ objects'[m]) = {}
  <1>1. UntilDisturbed /\ [ListNext]_heapListVars => [Sound]_vars
    <2> SUFFICES ASSUME ListInv, Left!IInv, ListNext, NEW m \in Modules, phase[m] = "sweep"
                 PROVE  Reaches(m) \cap (objects[m] \ objects'[m]) = {}
      BY CutStays DEF heapListVars, UntilDisturbed
    <2>1. ListInv /\ Reaches(m) \subseteq LeftObjects[m] /\ objects \in [Modules -> SUBSET Objects]
      BY ReachesWhatIsLeft DEF ListInv, TypeOK
    <2>2. LeftObjects[m] \subseteq objects[m] /\ LeftObjects[m] \cap DoomedByAll = {}
      BY <2>1, LeftFacts DEF LeftIsSwept
    <2>3. ASSUME NEW k \in Modules, FreeNode(k)
          PROVE  LeftObjects[m] \subseteq objects'[m]
      <3>1. Link(k) \in Ahead(k) /\ Link(k) \notin marked /\ objects'[m] = objects[m] \ {Link(k)}
        BY <2>1, <2>3, NodeAhead DEF FreeNode
      <3>2. Link(k) \in DoomedByAll
        BY <2>1, <3>1, LeftFacts DEF LeftIsSwept
      <3> QED
        BY <2>2, <3>1, <3>2
    <2>4. ASSUME NEW k \in Modules, ForceSweepList(k)
          PROVE  objects'[m] = objects[m]
      <3>1. /\ phase[k] = "run" /\ k # m
            /\ objects'[m] = objects[m] \ Nodes(first[k])
        BY <2>4 DEF ForceSweepList
      <3>2. gone[k] = NULL
        BY <2>1, <3>1 DEF ListInv, Lists
      <3>3. Nodes(first[k]) = objects[k]
        BY <2>1, <3>2, NoneGone
      <3> QED
        BY <2>1, <3>1, <3>3, AheadFacts DEF AheadIsOwn
    <2>5. ASSUME NEW k \in Modules, NEW o \in Objects, AllocateFirst(k, o)
          PROVE  objects[m] \subseteq objects'[m]
      BY <2>1, <2>5 DEF AllocateFirst, Allocate
    <2>6. ASSUME NEW k \in Modules, Program(k) PROVE objects' = objects
      BY <2>1, <2>6, ProgramFacts DEF ListInv, heapVars
    <2>7. LeftObjects[m] \subseteq objects'[m]
      BY <2>2, <2>3, <2>4, <2>5, <2>6
      DEF ListNext, BeginSweep, Unlink, PassNode, EndSweep, vars, heapVars
    <2> QED
      BY <2>1, <2>7
  <1> QED
    BY <1>1, HInvariance, PTL DEF ListSpec

(* A mark belongs to a sweep that has still to clear it: none is left over *)
(* when the walk is at its end (value.c, sweep and mark_value), as long as *)
(* freed nodes kept their next and every pointer is where its owner looks. *)
THEOREM ListLeavesNoMark == ListSpec => [](~cut => NoMarkLeftOver)
  <1>1. UntilDisturbed => (~cut => NoMarkLeftOver)
    <2> SUFFICES ASSUME ListInv, Left!IInv, NEW o \in marked
                 PROVE  \E m \in Modules : phase[m] = "sweep"
      BY DEF UntilDisturbed, NoMarkLeftOver
    <2>1. ListInv /\ Left!Marks
      BY DEF Left!IInv
    <2>2. CASE \E m \in Modules : o \in Ahead(m)
      <3>1. PICK m \in Modules : o \in Ahead(m)
        BY <2>2
      <3>2. Sweeping(m)
        BY <2>1, <3>1, AheadFacts DEF AheadIsOwn
      <3> QED
        BY <2>1, <3>2 DEF ListInv, Lists
    <2>3. CASE \A m \in Modules : o \notin Ahead(m)
      <3>1. o \in LeftMarks
        BY <2>1, <2>3, LeftFacts DEF LeftIsSwept
      <3>2. PICK m \in Modules : o \in LeftObjects[m]
        BY <2>1, <3>1 DEF Left!Marks, Left!Live
      <3>3. LeftPhase[m] = "sweep"
        BY <2>1, <3>1, <3>2 DEF Left!Marks
      <3> QED
        BY <2>1, <3>3, LeftFacts DEF LeftIsSwept
    <2> QED
      BY <2>2, <2>3
  <1> QED
    BY <1>1, HInvariance, PTL

-----------------------------------------------------------------------------
(* The count stays in its limit from one allocation to the next.           *)
Limits ==
  \A m \in Modules :
    /\ numObjects[m] <= maxObjects[m]
    /\ phase[m] = "allocate" => numObjects[m] < maxObjects[m]

LEMMA LimitsStep ==
  ASSUME ListInv, ListInv', ListCounts, ~cut', Limits, [ListNext]_heapListVars
  PROVE  Limits'
  <1>1. /\ numObjects \in [Modules -> Int] /\ maxObjects \in [Modules -> Nat]
    BY DEF ListInv, TypeOK
  <1>2. ASSUME UNCHANGED <<numObjects, maxObjects, phase>> PROVE Limits'
    BY <1>2 DEF Limits
  <1>3. CASE UNCHANGED heapListVars
    BY <1>2, <1>3 DEF heapListVars, vars
  <1>4. ASSUME NEW m \in Modules, Program(m) PROVE Limits'
    <2>1. UNCHANGED <<numObjects, maxObjects>>
      BY <1>4, ProgramFacts DEF ListInv, heapVars
    <2>2. ASSUME NEW k \in Modules, phase'[k] = "allocate", phase[k] # "allocate"
          PROVE  numObjects[k] # maxObjects[k]
      <3>1. CASE phase' = phase
        BY <3>1, <2>2
      <3>2. ASSUME NEW n \in 0 .. MaxOperands, NEW type \in {"list", "mutable"}, Make(m, n, type)
            PROVE  numObjects[k] # maxObjects[k]
        <4>1. phase'[k] = IF k = m THEN (IF ListFull(m) THEN "mark" ELSE "allocate") ELSE phase[k]
          BY <3>2 DEF Make, ListInv, TypeOK
        <4> QED
          BY <4>1, <2>2 DEF ListFull
      <3>3. ASSUME MarkAll(m) PROVE FALSE
        <4>1. phase' = [phase EXCEPT ![m] = "sweep"]
          BY <3>3 DEF MarkAll
        <4> QED
          BY <4>1, <2>2 DEF ListInv, TypeOK
      <3>4. ASSUME NEW a \in Modules, Start(a, m) PROVE FALSE
        <4>1. phase' = [phase EXCEPT ![a] = "run"]
          BY <3>4 DEF Start
        <4> QED
          BY <4>1, <2>2 DEF ListInv, TypeOK
      <3> QED
        BY <3>1, <3>2, <3>3, <3>4, <1>4 DEF Program, Load, Pop, Store, Update, Send, Receive
    <2>3. \A k \in Modules : numObjects[k] \in Int /\ maxObjects[k] \in Int
      BY <1>1
    <2> QED
      BY <2>1, <2>2, <2>3 DEF Limits
  <1>5. ASSUME NEW m \in Modules, BeginSweep(m) PROVE Limits'
    BY <1>2, <1>5 DEF BeginSweep, vars
  <1>6. ASSUME NEW m \in Modules, FreeNode(m) PROVE Limits'
    BY <1>2, <1>6 DEF FreeNode
  <1>7. ASSUME NEW m \in Modules, Unlink(m) PROVE Limits'
    <2>1. /\ numObjects' = [numObjects EXCEPT ![m] = @ - 1]
          /\ UNCHANGED <<maxObjects, phase>>
      BY <1>7, UnlinkFacts
    <2>2. \A k \in Modules : numObjects'[k] \in Int /\ numObjects'[k] <= numObjects[k]
      BY <2>1, <1>1
    <2>3. \A k \in Modules : numObjects[k] \in Int /\ maxObjects[k] \in Int
      BY <1>1
    <2> QED
      BY <2>1, <2>2, <2>3 DEF Limits
  <1>8. ASSUME NEW m \in Modules, PassNode(m) PROVE Limits'
    BY <1>2, <1>8 DEF PassNode, heapVars
  <1>9. ASSUME NEW m \in Modules, EndSweep(m) PROVE Limits'
    <2>1. /\ gone[m] = NULL
          /\ numObjects' = numObjects
          /\ maxObjects' = [maxObjects EXCEPT ![m] = LimitFor(numObjects[m])]
          /\ phase' = [phase EXCEPT ![m] = "allocate"]
      BY <1>9 DEF EndSweep
    <2>2. numObjects[m] \in Nat
      <3>1. Cardinality(objects[m]) \in Nat
        BY CollectorAssumption, FS_Subset, FS_CardinalityType DEF ListInv, TypeOK
      <3>2. numObjects[m] = Cardinality(objects[m]) + 0
        BY <2>1 DEF ListCounts
      <3> QED
        BY <3>1, <3>2
    <2>3. numObjects[m] < LimitFor(numObjects[m]) /\ LimitFor(numObjects[m]) \in Nat
      BY <2>2, LimitIsAbove, LimitIsNat
    <2>4. /\ maxObjects'[m] = LimitFor(numObjects[m])
          /\ \A k \in Modules : k # m => maxObjects'[k] = maxObjects[k] /\ phase'[k] = phase[k]
      BY <2>1, <1>1 DEF ListInv, TypeOK
    <2> QED
      BY <2>1, <2>2, <2>3, <2>4 DEF Limits
  <1>10. ASSUME NEW m \in Modules, NEW o \in Objects, AllocateFirst(m, o) PROVE Limits'
    <2>1. /\ phase[m] = "allocate"
          /\ numObjects' = [numObjects EXCEPT ![m] = @ + 1] /\ maxObjects' = maxObjects
          /\ phase' = [phase EXCEPT ![m] = "run"]
      BY <1>10 DEF AllocateFirst, Allocate
    <2>2. /\ numObjects'[m] = numObjects[m] + 1 /\ phase'[m] = "run"
          /\ \A k \in Modules : k # m => numObjects'[k] = numObjects[k] /\ phase'[k] = phase[k]
      BY <2>1, <1>1 DEF ListInv, TypeOK
    <2>3. numObjects[m] < maxObjects[m] /\ numObjects[m] \in Int /\ maxObjects[m] \in Int
      BY <2>1, <1>1 DEF Limits
    <2> QED
      BY <2>1, <2>2, <2>3 DEF Limits
  <1>11. ASSUME NEW m \in Modules, ForceSweepList(m) PROVE Limits'
    <2>1. /\ numObjects'[m] = 0 /\ phase'[m] = "over" /\ maxObjects' = maxObjects
          /\ \A k \in Modules : k # m => numObjects'[k] = numObjects[k] /\ phase'[k] = phase[k]
      BY <1>11, <1>1 DEF ForceSweepList, ListInv, TypeOK
    <2>2. 0 <= maxObjects[m]
      BY <1>1
    <2> QED
      BY <2>1, <2>2 DEF Limits
  <1> QED
    BY <1>3, <1>4, <1>5, <1>6, <1>7, <1>8, <1>9, <1>10, <1>11 DEF ListNext

UntilMiscounted == ~cut => Limits

(* The count is that of the list outside a sweep, and never above the      *)
(* limit that allocate compares it with (value.c, sweep, gc and allocate), *)
(* whatever pointers the modules share, as long as every freed node kept   *)
(* its next until sweep had read it.                                       *)
THEOREM ListCountStaysBelowLimit == ListSpec => []ListCountBelowLimit
  <1>1. ListInit => UntilMiscounted
    BY CollectorAssumption DEF ListInit, Init, UntilMiscounted, Limits
  <1>2. UntilDisturbed /\ UntilDisturbed' /\ UntilMiscounted /\ [ListNext]_heapListVars
          => UntilMiscounted'
    BY CutStays, LimitsStep DEF UntilDisturbed, UntilMiscounted
  <1>3. UntilDisturbed /\ UntilMiscounted => ListCountBelowLimit
    <2> SUFFICES ASSUME ListInv, ListCounts, Limits, NEW m \in Modules
                 PROVE  /\ phase[m] # "sweep" => numObjects[m] = Cardinality(objects[m])
                        /\ numObjects[m] <= maxObjects[m]
                        /\ phase[m] = "allocate" => numObjects[m] < maxObjects[m]
      BY DEF UntilDisturbed, UntilMiscounted, ListCountBelowLimit, CountBelowLimit
    <2>1. phase[m] # "sweep" => gone[m] = NULL
      BY DEF ListInv, Lists
    <2>2. gone[m] = NULL => numObjects[m] = Cardinality(objects[m]) + 0
      BY DEF ListCounts
    <2>3. Cardinality(objects[m]) \in Nat
      BY CollectorAssumption, FS_Subset, FS_CardinalityType DEF ListInv, TypeOK
    <2> QED
      BY <2>1, <2>2, <2>3 DEF Limits
  <1> QED
    BY <1>1, <1>2, <1>3, HInvariance, PTL DEF ListSpec
=============================================================================
