------------------------ MODULE ModuleResolution_proofs ------------------------
(***************************************************************************)
(* What importStack is for: the files whose resolution is under way are    *)
(* found on it, though a file that is required again leaves its path       *)
(* there and the end of a resolution drops whatever is on top.  So no path *)
(* is parsed twice.                                                        *)
(***************************************************************************)
EXTENDS ModuleResolution, SequenceTheorems, WellFoundedInduction, TLAPS

(* The file f is on the stack s, and still will be when k resolutions have *)
(* come to their ends.                                                     *)
OnStack(s, f, k) == \E p \in (k + 1) .. Len(s) : s[p] = f

(* The files of the calls are on importStack until these end, and a module *)
(* has the name of its file.                                               *)
FilesOnStack ==
  \A i \in 1 .. Len(calls) :
    /\ OnStack(importStack, calls[i].file, Len(calls) - i)
    /\ calls[i].name = calls[i].file

(* initialPath, now and when a call will have ended, is on importStack.    *)
PathsOnStack ==
  /\ Running => initialPath = Dot \/ OnStack(importStack, initialPath, 0)
  /\ \A i \in 1 .. Len(calls) :
       \/ calls[i].initialPath = Dot
       \/ OnStack(importStack, calls[i].initialPath, Len(calls) - i + 1)

(* What was parsed is being resolved or is resolved, and nothing else is.  *)
ParsedIsResolved ==
  /\ \A i \in 1 .. Len(parsed) :
       \/ parsed[i] \in DOMAIN resolved
       \/ \E j \in 1 .. Len(calls) : calls[j].file = parsed[i]
  /\ DOMAIN resolved \subseteq DOMAIN content
  /\ Running /\ calls = << >> => parsed = << >>

(* A call that waits for another one stands at a require, and that one     *)
(* brings its directory back.                                              *)
CallsWait ==
  \A i \in 1 .. Len(calls) - 1 :
    /\ calls[i].at <= Len(content[calls[i].file])
    /\ ~calls[i].again => calls[i + 1].currentDirectory = calls[i].file.dir

(* A variable is defined among the first n items of s.                     *)
Defines(s, n, v) == \E j \in 1 .. n : s[j].kind = "statement" /\ v \in s[j].defines

(* Each of the first n items of s uses what it or an earlier one defines,  *)
(* or what the statements t define.                                        *)
UsesDefined(s, n, t) ==
  \A k \in 1 .. n :
    s[k].kind = "statement" =>
      \A v \in s[k].uses : Defines(s, k, v) \/ Defines(t, Len(t), v)

(* A variable that a statement uses is defined by it or by an earlier one. *)
WellDefined(s) ==
  \A k \in 1 .. Len(s) :
    s[k].kind = "statement" => \A v \in s[k].uses : Defines(s, k, v)

(* What a call waits for is a require.                                     *)
AtRequires ==
  \A i \in 1 .. Len(calls) - 1 : content[calls[i].file][calls[i].at].kind = "require"

(* What the call c can see and has seen, in its text and in the statements *)
(* appended so far, is defined.                                            *)
Seen(c, text, appended) ==
  /\ \A v \in c.imported : Defines(appended, Len(appended), v)
  /\ \A v \in c.variables : Defines(text, c.at - 1, v)
  /\ UsesDefined(text, c.at - 1, appended)

SeenIsDefined ==
  /\ \A name \in DOMAIN resolved : \A v \in resolved[name] : Defines(result, Len(result), v)
  /\ \A i \in 1 .. Len(calls) : Seen(calls[i], content[calls[i].file], result)

Definitions == AtRequires /\ SeenIsDefined /\ DefinedBeforeUse

IInv ==
  /\ ParsedOnce
  /\ FilesOnStack
  /\ PathsOnStack
  /\ ParsedIsResolved
  /\ CallsWait
  /\ OwnDirectory
-----------------------------------------------------------------------------
(* What importStack holds after the beginning and the end of a resolution. *)
LEMMA StackPush ==
  ASSUME NEW s \in Seq(Files), NEW g \in Files
  PROVE  /\ Cons(g, s) \in Seq(Files)
         /\ OnStack(Cons(g, s), g, 0)
         /\ \A f, k : k \in Nat /\ OnStack(s, f, k) => /\ OnStack(Cons(g, s), f, k)
                                                       /\ OnStack(Cons(g, s), f, k + 1)
  <1>1. Cons(g, s) = <<g>> \o s
    BY DEF Cons
  <1>2. /\ Cons(g, s) \in Seq(Files)
        /\ Len(Cons(g, s)) = Len(s) + 1
        /\ Cons(g, s)[1] = g
        /\ \A p \in 1 .. Len(s) : Cons(g, s)[p + 1] = s[p]
    BY <1>1
  <1>3. Len(s) \in Nat
    OBVIOUS
  <1>4. OnStack(Cons(g, s), g, 0)
    BY <1>2, <1>3 DEF OnStack
  <1>5. ASSUME NEW f, NEW k \in Nat, OnStack(s, f, k)
        PROVE  OnStack(Cons(g, s), f, k) /\ OnStack(Cons(g, s), f, k + 1)
    <2>1. PICK p \in (k + 1) .. Len(s) : s[p] = f
      BY <1>5 DEF OnStack
    <2>2. /\ p + 1 \in (k + 1) .. Len(Cons(g, s))
          /\ p + 1 \in ((k + 1) + 1) .. Len(Cons(g, s))
          /\ Cons(g, s)[p + 1] = f
      BY <2>1, <1>2, <1>3
    <2> QED
      BY <2>2 DEF OnStack
  <1> QED
    BY <1>2, <1>4, <1>5

LEMMA StackDrop ==
  ASSUME NEW s \in Seq(Files)
  PROVE  LET t == SubSeq(s, 2, Len(s))
         IN  /\ t \in Seq(Files)
             /\ \A f, k : k \in Nat /\ OnStack(s, f, k + 1) => OnStack(t, f, k)
  <1> DEFINE t == SubSeq(s, 2, Len(s))
  <1>1. PICK n \in Nat : n = Len(s)
    OBVIOUS
  <1>2. t \in Seq(Files)
    <2>1. \A p \in 2 .. n : s[p] \in Files
      BY <1>1
    <2> QED
      BY <2>1, <1>1, SubSeqProperties
  <1>3. ASSUME NEW f, NEW k \in Nat, OnStack(s, f, k + 1)
        PROVE  OnStack(t, f, k)
    <2>1. PICK p \in (k + 2) .. n : s[p] = f
      BY <1>1, <1>3 DEF OnStack
    <2>2. Len(t) = n - 1 /\ t[p - 1] = s[p] /\ p - 1 \in (k + 1) .. (n - 1)
      BY <2>1, <1>1, SubSeqProperties
    <2> QED
      BY <2>1, <2>2 DEF OnStack
  <1> QED
    BY <1>2, <1>3

(* The calls after the innermost one has gone on.                          *)
GoneOn(new, cs, v, again) ==
  /\ new \in Seq(Resolutions)
  /\ Len(new) = Len(cs)
  /\ \A i \in 1 .. Len(cs) :
       /\ new[i].file = cs[i].file
       /\ new[i].name = cs[i].name
       /\ new[i].variables = cs[i].variables
       /\ new[i].imported \subseteq cs[i].imported \cup v
       /\ new[i].initialPath = cs[i].initialPath
       /\ new[i].currentDirectory = cs[i].currentDirectory
       /\ new[i].at = IF i = Len(cs) THEN cs[i].at + 1 ELSE cs[i].at
       /\ new[i].again = FALSE => cs[i].again = FALSE /\ (i = Len(cs) => again = FALSE)
       /\ i # Len(cs) => new[i] = cs[i]

LEMMA GoOnFacts ==
  ASSUME NEW cs \in Seq(Resolutions), NEW v \in SUBSET Variables, NEW again \in BOOLEAN
  PROVE  GoneOn(GoOn(cs, v, again), cs, v, again)
  <1> DEFINE new == GoOn(cs, v, again)
             n   == Len(cs)
  <1>1. n \in Nat /\ \A i \in 1 .. n : cs[i] \in Resolutions
    OBVIOUS
  <1>2. CASE cs = << >>
    BY <1>2 DEF GoOn, GoneOn
  <1>3. CASE cs # << >>
    <2>1. n \in 1 .. n
      BY <1>1, <1>3, EmptySeq
    <2> DEFINE last == [cs[n] EXCEPT !.at = @ + 1, !.imported = @ \cup v, !.again = @ \/ again]
    <2>2. cs[n] \in Resolutions
      BY <1>1, <2>1
    <2>3. /\ last \in Resolutions
          /\ last.file = cs[n].file /\ last.name = cs[n].name
          /\ last.variables = cs[n].variables /\ last.imported = cs[n].imported \cup v
          /\ last.initialPath = cs[n].initialPath
          /\ last.currentDirectory = cs[n].currentDirectory
          /\ last.at = cs[n].at + 1 /\ last.again = (cs[n].again \/ again)
      <3>1. (cs[n].again \/ again) \in BOOLEAN
        OBVIOUS
      <3>2. PICK b \in BOOLEAN : b = (cs[n].again \/ again)
        BY <3>1
      <3>3. last = [cs[n] EXCEPT !.at = @ + 1, !.imported = @ \cup v, !.again = b]
        BY <3>2
      <3> HIDE DEF last
      <3>4. /\ last \in Resolutions
            /\ last.file = cs[n].file /\ last.name = cs[n].name
            /\ last.variables = cs[n].variables /\ last.imported = cs[n].imported \cup v
            /\ last.initialPath = cs[n].initialPath
            /\ last.currentDirectory = cs[n].currentDirectory
            /\ last.at = cs[n].at + 1 /\ last.again = b
        <4>1. /\ cs[n].at + 1 \in Nat \ {0}
              /\ cs[n].imported \cup v \in SUBSET Variables
          BY <2>2 DEF Resolutions
        <4>2. PICK a, m : a = cs[n].at + 1 /\ m = cs[n].imported \cup v
          OBVIOUS
        <4>3. last = [cs[n] EXCEPT !.at = a, !.imported = m, !.again = b]
          BY <3>3, <4>2
        <4>4. a \in Nat \ {0} /\ m \in SUBSET Variables
          BY <4>1, <4>2
        <4>5. last \in Resolutions
          BY <4>3, <4>4, <2>2 DEF Resolutions
        <4>6. /\ last.file = cs[n].file /\ last.name = cs[n].name
              /\ last.variables = cs[n].variables /\ last.imported = m
              /\ last.initialPath = cs[n].initialPath
              /\ last.currentDirectory = cs[n].currentDirectory
              /\ last.at = a /\ last.again = b
          BY <4>3, <2>2 DEF Resolutions
        <4> QED
          BY <4>2, <4>5, <4>6
      <3> QED
        BY <3>2, <3>4
    <2>4. new = [cs EXCEPT ![n] = last]
      BY <1>3 DEF GoOn
    <2> HIDE DEF last, new
    <2>5. /\ new \in Seq(Resolutions) /\ Len(new) = n
          /\ \A i \in 1 .. n : new[i] = IF i = n THEN last ELSE cs[i]
      BY <2>1, <2>3, <2>4
    <2>6. cs[n].again \in BOOLEAN
      BY <2>2 DEF Resolutions
    <2> QED
      BY <2>3, <2>5, <2>6 DEF new, GoneOn
  <1> QED
    BY <1>2, <1>3
-----------------------------------------------------------------------------
(* Induction over natural numbers, for a set instead of an operator.       *)
LEMMA Least ==
  ASSUME NEW T \in SUBSET Nat, T # {}
  PROVE  \E n \in T : \A m \in T : n <= m
  <1>1. IsWellFoundedOn(OpToRel(<, Nat), Nat)
    BY NatLessThanWellFounded
  <1>2. PICK n \in T : \A m \in T : ~ (<<m, n>> \in OpToRel(<, Nat))
    BY <1>1, WFMin
  <1>3. \A m \in T : m < n => <<m, n>> \in OpToRel(<, Nat)
    BY DEF OpToRel
  <1>4. \A m \in T : ~ (m < n)
    BY <1>2, <1>3, Zenon
  <1> QED
    BY <1>4

LEMMA SetInduction ==
  ASSUME NEW T \in SUBSET Nat, 0 \in T, \A n \in T : n + 1 \in T
  PROVE  T = Nat
  <1> SUFFICES ASSUME Nat \ T # {} PROVE FALSE
    OBVIOUS
  <1>1. PICK n \in Nat \ T : \A m \in Nat \ T : n <= m
    <2>1. Nat \ T \in SUBSET Nat
      OBVIOUS
    <2> QED
      BY <2>1, Least
  <1>2. n - 1 \in Nat /\ n - 1 \notin Nat \ T
    BY <1>1
  <1> QED
    BY <1>1, <1>2

(* Nubs is what its recursion says: there is such a function.              *)
LEMMA NubsDefined ==
  ASSUME NEW S, NEW s \in Seq(S)
  PROVE  /\ Nubs(s)[0] = << >>
         /\ \A n \in 0 .. Len(s) - 1 :
              Nubs(s)[n + 1] = IF Contains(Nubs(s)[n], s[n + 1]) THEN Nubs(s)[n]
                               ELSE Append(Nubs(s)[n], s[n + 1])
  <1> DEFINE Next1(t, i) == IF Contains(t, s[i]) THEN t ELSE Append(t, s[i])
             IsNub(f, n) == f = [i \in 0 .. n |-> IF i = 0 THEN << >> ELSE Next1(f[i - 1], i)]
             T == {n \in Nat : \E f : IsNub(f, n)}
  <1>1. 0 \in T
    <2>1. IsNub([i \in 0 .. 0 |-> << >>], 0)
      OBVIOUS
    <2> QED
      BY <2>1
  <1>2. ASSUME NEW n \in T
        PROVE  n + 1 \in T
    <2>1. PICK f : IsNub(f, n)
      OBVIOUS
    <2>2. n \in Nat
      OBVIOUS
    <2> DEFINE g == [i \in 0 .. n + 1 |-> IF i = n + 1 THEN Next1(f[n], n + 1) ELSE f[i]]
    <2> HIDE DEF Next1
    <2>3. \A i \in 0 .. n : f[i] = IF i = 0 THEN << >> ELSE Next1(f[i - 1], i)
      BY <2>1
    <2>4. \A i \in 0 .. n + 1 : g[i] = IF i = 0 THEN << >> ELSE Next1(g[i - 1], i)
      <3> SUFFICES ASSUME NEW i \in 0 .. n + 1
                   PROVE  g[i] = IF i = 0 THEN << >> ELSE Next1(g[i - 1], i)
        OBVIOUS
      <3>1. CASE i = n + 1
        BY <3>1, <2>2
      <3>2. CASE i # n + 1
        <4>1. i \in 0 .. n /\ g[i] = f[i]
          BY <3>2, <2>2
        <4>2. i # 0 => i - 1 \in 0 .. n + 1 /\ i - 1 # n + 1
          BY <4>1, <2>2
        <4> QED
          BY <4>1, <4>2, <2>3
      <3> QED
        BY <3>1, <3>2
    <2>5. IsNub(g, n + 1)
      BY <2>4
    <2> HIDE DEF IsNub, g
    <2> QED
      BY <2>2, <2>5
  <1>3. T = Nat
    <2>1. T \in SUBSET Nat
      OBVIOUS
    <2> HIDE DEF T
    <2> QED
      BY <1>1, <1>2, <2>1, SetInduction
  <1>4. Len(s) \in T
    BY <1>3
  <1>5. PICK f : IsNub(f, Len(s))
    BY <1>4
  <1>6. IsNub(Nubs(s), Len(s))
    BY <1>5 DEF Nubs
  <1>7. PICK g : g = Nubs(s)
    OBVIOUS
  <1>8. \A i \in 0 .. Len(s) : g[i] = IF i = 0 THEN << >> ELSE Next1(g[i - 1], i)
    BY <1>6, <1>7
  <1> HIDE DEF Next1
  <1>9. \A n \in 0 .. Len(s) - 1 : g[n + 1] = Next1(g[n], n + 1)
    <2> SUFFICES ASSUME NEW n \in 0 .. Len(s) - 1
                 PROVE  g[n + 1] = Next1(g[n], n + 1)
      OBVIOUS
    <2>1. n + 1 \in 0 .. Len(s) /\ n + 1 # 0 /\ (n + 1) - 1 = n
      OBVIOUS
    <2> QED
      BY <2>1, <1>8
  <1>10. g[0] = << >>
    BY <1>8
  <1> QED
    BY <1>7, <1>9, <1>10 DEF Next1

(* What nub keeps: every element, behind all that stood before its first   *)
(* occurrence.                                                             *)
LEMMA NubFacts ==
  ASSUME NEW S, NEW s \in Seq(S)
  PROVE  /\ Nub(s) \in Seq(S)
         /\ \A k \in 1 .. Len(s) : \E i \in 1 .. Len(Nub(s)) : Nub(s)[i] = s[k]
         /\ \A i \in 1 .. Len(Nub(s)) : \E k \in 1 .. Len(s) :
              /\ Nub(s)[i] = s[k]
              /\ \A j \in 1 .. k - 1 : \E h \in 1 .. i : Nub(s)[h] = s[j]
  <1> DEFINE Kept(t, n) ==
               /\ t \in Seq(S)
               /\ \A k \in 1 .. n : \E i \in 1 .. Len(t) : t[i] = s[k]
               /\ \A i \in 1 .. Len(t) : \E k \in 1 .. n :
                    /\ t[i] = s[k]
                    /\ \A j \in 1 .. k - 1 : \E h \in 1 .. i : t[h] = s[j]
             T == {n \in Nat : n <= Len(s) => Kept(Nubs(s)[n], n)}
  <1>1. 0 \in T
    <2>1. Nubs(s)[0] = << >>
      BY NubsDefined
    <2>2. Kept(<< >>, 0)
      BY EmptySeq
    <2>3. Kept(Nubs(s)[0], 0)
      BY <2>1, <2>2
    <2> HIDE DEF Kept
    <2> QED
      BY <2>3
  <1>2. ASSUME NEW n \in T, n + 1 <= Len(s)
        PROVE  Kept(Nubs(s)[n + 1], n + 1)
    <2>1. n \in Nat /\ Len(s) \in Nat /\ n \in 0 .. Len(s) /\ n + 1 \in 1 .. Len(s)
      BY <1>2
    <2>2. PICK t : t = Nubs(s)[n]
      OBVIOUS
    <2>3. Kept(t, n)
      BY <2>1, <2>2
    <2>4. Nubs(s)[n + 1] = IF Contains(t, s[n + 1]) THEN t ELSE Append(t, s[n + 1])
      <3>1. n \in 0 .. Len(s) - 1
        BY <2>1
      <3> QED
        BY <3>1, <2>2, NubsDefined
    <2>5. s[n + 1] \in S
      BY <2>1
    <2>6. CASE Contains(t, s[n + 1])
      <3>1. PICK i \in 1 .. Len(t) : t[i] = s[n + 1]
        BY <2>6 DEF Contains
      <3>2. \A k \in 1 .. n + 1 : k \in 1 .. n \/ k = n + 1
        BY <2>1
      <3>3. 1 .. n \subseteq 1 .. n + 1
        BY <2>1
      <3>4. Kept(t, n + 1)
        BY <2>3, <3>1, <3>2, <3>3
      <3> QED
        BY <2>4, <2>6, <3>4
    <2>7. CASE ~Contains(t, s[n + 1])
      <3> DEFINE u == Append(t, s[n + 1])
                 m == Len(t)
      <3>1. /\ u \in Seq(S) /\ Len(u) = m + 1 /\ m \in Nat
            /\ \A i \in 1 .. m : u[i] = t[i]
            /\ u[m + 1] = s[n + 1]
        <4>1. t \in Seq(S)
          BY <2>3
        <4> QED
          BY <4>1, <2>5
      <3> HIDE DEF u
      <3>2. \A k \in 1 .. n + 1 : \E i \in 1 .. m + 1 : u[i] = s[k]
        <4> SUFFICES ASSUME NEW k \in 1 .. n + 1
                     PROVE  \E i \in 1 .. m + 1 : u[i] = s[k]
          OBVIOUS
        <4>1. CASE k = n + 1
          <5>1. m + 1 \in 1 .. m + 1
            BY <3>1
          <5> QED
            BY <4>1, <5>1, <3>1
        <4>2. CASE k # n + 1
          <5>1. k \in 1 .. n
            BY <4>2, <2>1
          <5>2. PICK i \in 1 .. m : t[i] = s[k]
            BY <5>1, <2>3
          <5>3. i \in 1 .. m + 1
            BY <3>1
          <5> QED
            BY <5>2, <5>3, <3>1
        <4> QED
          BY <4>1, <4>2
      <3>3. ASSUME NEW i \in 1 .. m + 1
            PROVE  \E k \in 1 .. n + 1 : /\ u[i] = s[k]
                                         /\ \A j \in 1 .. k - 1 : \E h \in 1 .. i : u[h] = s[j]
        <4>1. CASE i = m + 1
          <5>1. n + 1 \in 1 .. n + 1 /\ (n + 1) - 1 = n
            BY <2>1
          <5>2. \A j \in 1 .. n : \E h \in 1 .. m : t[h] = s[j]
            BY <2>3
          <5>3. \A h \in 1 .. m : h \in 1 .. i
            BY <4>1, <3>1
          <5>4. \A j \in 1 .. (n + 1) - 1 : \E h \in 1 .. i : u[h] = s[j]
            BY <5>1, <5>2, <5>3, <3>1
          <5> QED
            BY <4>1, <5>1, <5>4, <3>1
        <4>2. CASE i # m + 1
          <5>1. i \in 1 .. m
            BY <4>2, <3>1
          <5>2. PICK k \in 1 .. n : /\ t[i] = s[k]
                                    /\ \A j \in 1 .. k - 1 : \E h \in 1 .. i : t[h] = s[j]
            BY <5>1, <2>3
          <5>3. \A h \in 1 .. i : h \in 1 .. m
            BY <5>1, <3>1
          <5>4. k \in 1 .. n + 1
            BY <2>1
          <5> QED
            BY <5>1, <5>2, <5>3, <5>4, <3>1
        <4> QED
          BY <4>1, <4>2
      <3>4. Kept(u, n + 1)
        BY <3>1, <3>2, <3>3
      <3>5. Nubs(s)[n + 1] = u
        BY <2>4, <2>7 DEF u
      <3> QED
        BY <3>4, <3>5
    <2> QED
      BY <2>6, <2>7
  <1>3. T = Nat
    <2>1. T \in SUBSET Nat
      OBVIOUS
    <2>2. ASSUME NEW n \in T
          PROVE  n + 1 \in T
      <3>1. n + 1 \in Nat
        OBVIOUS
      <3> HIDE DEF Kept
      <3>2. n + 1 <= Len(s) => Kept(Nubs(s)[n + 1], n + 1)
        BY <1>2
      <3> QED
        BY <3>1, <3>2
    <2> HIDE DEF T
    <2> QED
      BY <1>1, <2>1, <2>2, SetInduction
  <1>4. Len(s) \in Nat
    OBVIOUS
  <1>5. Kept(Nub(s), Len(s))
    <2>1. Len(s) \in T
      BY <1>3, <1>4
    <2> HIDE DEF Kept
    <2> QED
      BY <2>1, <1>4 DEF Nub
  <1> QED
    BY <1>5
-----------------------------------------------------------------------------
(* Definitions in sequences of items: they are not lost when more items    *)
(* are taken in, when two texts are put together, and in nub.              *)
LEMMA DefinedLater ==
  ASSUME NEW s, NEW n \in Nat, NEW m \in Nat, m <= n, NEW v, Defines(s, m, v)
  PROVE  Defines(s, n, v)
  <1>1. 1 .. m \subseteq 1 .. n
    OBVIOUS
  <1> QED
    BY <1>1 DEF Defines

LEMMA PutTogether ==
  ASSUME NEW s \in Seq(Items), NEW t \in Seq(Items)
  PROVE  /\ \A v : Defines(s, Len(s), v) => Defines(s \o t, Len(s \o t), v)
         /\ \A v : Defines(t, Len(t), v) => Defines(s \o t, Len(s \o t), v)
         /\ WellDefined(s) /\ UsesDefined(t, Len(t), s) => WellDefined(s \o t)
  <1> DEFINE u == s \o t
             a == Len(s)
             b == Len(t)
  <1>1. /\ a \in Nat /\ b \in Nat /\ Len(u) = a + b
        /\ \A i \in 1 .. a : u[i] = s[i] /\ i \in 1 .. a + b
        /\ \A i \in 1 .. b : u[a + i] = t[i] /\ a + i \in 1 .. a + b
    OBVIOUS
  <1>2. \A i \in 1 .. a + b : i \in 1 .. a \/ (i - a \in 1 .. b /\ a + (i - a) = i)
    BY <1>1
  <1> HIDE DEF u, a, b
  <1>3. \A v, k : k \in 1 .. a /\ Defines(s, k, v) => Defines(u, k, v)
    <2> SUFFICES ASSUME NEW v, NEW k \in 1 .. a, Defines(s, k, v)
                 PROVE  Defines(u, k, v)
      OBVIOUS
    <2>1. PICK j \in 1 .. k : s[j].kind = "statement" /\ v \in s[j].defines
      BY DEF Defines
    <2>2. j \in 1 .. a
      BY <1>1
    <2> QED
      BY <2>1, <2>2, <1>1 DEF Defines
  <1>4. \A v, k : k \in 1 .. b /\ Defines(t, k, v) => Defines(u, a + k, v)
    <2> SUFFICES ASSUME NEW v, NEW k \in 1 .. b, Defines(t, k, v)
                 PROVE  Defines(u, a + k, v)
      OBVIOUS
    <2>1. PICK j \in 1 .. k : t[j].kind = "statement" /\ v \in t[j].defines
      BY DEF Defines
    <2>2. j \in 1 .. b /\ a + j \in 1 .. a + k
      BY <1>1
    <2> QED
      BY <2>1, <2>2, <1>1 DEF Defines
  <1>5. ASSUME NEW v, Defines(s, a, v)
        PROVE  \A n \in a .. a + b : Defines(u, n, v)
    <2> SUFFICES ASSUME NEW n \in a .. a + b PROVE Defines(u, n, v)
      OBVIOUS
    <2>1. a \in 1 .. a
      BY <1>1, <1>5 DEF Defines
    <2>2. Defines(u, a, v)
      BY <2>1, <1>3, <1>5
    <2>3. n \in Nat /\ a <= n
      BY <1>1
    <2> QED
      BY <2>2, <2>3, <1>1, DefinedLater
  <1>6. ASSUME NEW v, Defines(t, b, v)
        PROVE  Defines(u, a + b, v)
    <2>1. b \in 1 .. b
      BY <1>1, <1>6 DEF Defines
    <2> QED
      BY <2>1, <1>4, <1>6
  <1>7. ASSUME WellDefined(s), UsesDefined(t, b, s)
        PROVE  WellDefined(u)
    <2> SUFFICES ASSUME NEW k \in 1 .. a + b, u[k].kind = "statement", NEW v \in u[k].uses
                 PROVE  Defines(u, k, v)
      BY <1>1 DEF WellDefined
    <2>1. CASE k \in 1 .. a
      <3>1. Defines(s, k, v)
        BY <2>1, <1>1, <1>7 DEF WellDefined, a
      <3> QED
        BY <2>1, <3>1, <1>3
    <2>2. CASE k \notin 1 .. a
      <3>1. PICK i \in 1 .. b : a + i = k
        BY <2>2, <1>2
      <3>2. u[k] = t[i]
        BY <3>1, <1>1
      <3>3. Defines(t, i, v) \/ Defines(s, a, v)
        BY <3>2, <1>7 DEF UsesDefined, a
      <3>4. k \in a .. a + b
        BY <3>1, <1>1
      <3> QED
        BY <3>1, <3>3, <3>4, <1>4, <1>5
    <2> QED
      BY <2>1, <2>2
  <1>8. a + b \in a .. a + b
    BY <1>1
  <1> QED
    BY <1>1, <1>5, <1>6, <1>7, <1>8 DEF u, a, b

LEMMA NubKeepsDefinitions ==
  ASSUME NEW s \in Seq(Items)
  PROVE  /\ \A v : Defines(s, Len(s), v) => Defines(Nub(s), Len(Nub(s)), v)
         /\ WellDefined(s) => WellDefined(Nub(s))
  <1>1. PICK t : t = Nub(s)
    OBVIOUS
  <1>2. /\ \A k \in 1 .. Len(s) : \E i \in 1 .. Len(t) : t[i] = s[k]
        /\ \A i \in 1 .. Len(t) : \E k \in 1 .. Len(s) :
             /\ t[i] = s[k]
             /\ \A j \in 1 .. k - 1 : \E h \in 1 .. i : t[h] = s[j]
    BY <1>1, NubFacts
  <1>3. \A v : Defines(s, Len(s), v) => Defines(t, Len(t), v)
    BY <1>2 DEF Defines
  <1>4. ASSUME WellDefined(s), NEW i \in 1 .. Len(t), t[i].kind = "statement", NEW v \in t[i].uses
        PROVE  Defines(t, i, v)
    <2>1. PICK k \in 1 .. Len(s) : /\ t[i] = s[k]
                                   /\ \A j \in 1 .. k - 1 : \E h \in 1 .. i : t[h] = s[j]
      BY <1>2
    <2>2. Defines(s, k, v)
      BY <2>1, <1>4 DEF WellDefined
    <2>3. PICK j \in 1 .. k : s[j].kind = "statement" /\ v \in s[j].defines
      BY <2>2 DEF Defines
    <2>4. \E h \in 1 .. i : t[h] = s[j]
      <3>1. CASE j = k
        <4>1. i \in 1 .. i
          OBVIOUS
        <4> QED
          BY <4>1, <3>1, <2>1
      <3>2. CASE j # k
        <4>1. j \in 1 .. k - 1
          BY <3>2
        <4> QED
          BY <4>1, <2>1
      <3> QED
        BY <3>1, <3>2
    <2> QED
      BY <2>3, <2>4 DEF Defines
  <1>5. WellDefined(s) => WellDefined(t)
    BY <1>4 DEF WellDefined
  <1> QED
    BY <1>1, <1>3, <1>5

LEMMA MoreDefinitions ==
  ASSUME NEW s \in Seq(Items), NEW n \in Nat, NEW t, NEW u,
         \A v : Defines(t, Len(t), v) => Defines(u, Len(u), v), UsesDefined(s, n, t)
  PROVE  UsesDefined(s, n, u)
  BY DEF UsesDefined
-----------------------------------------------------------------------------
LEMMA InitIInv == Init => IInv
  <1> SUFFICES ASSUME Init PROVE IInv
    OBVIOUS
  <1> USE ResolutionAssumption DEF Init
  <1>1. Len(calls) = 0 /\ Len(parsed) = 0 /\ DOMAIN content = {} /\ DOMAIN resolved = {}
    OBVIOUS
  <1>2. Root \in Paths /\ Root.dir \in Directories
    BY DEF Paths
  <1>3. ToSet(parsed) = {}
    BY DEF ToSet
  <1>4. TypeOK
    BY <1>1, <1>2, <1>3, EmptySeq DEF TypeOK
  <1> QED
    BY <1>1, <1>4 DEF IInv, ParsedOnce, FilesOnStack, PathsOnStack, ParsedIsResolved, CallsWait,
                      OwnDirectory

(* The calls that have not returned, and the innermost one.                *)
LEMMA CallFacts ==
  ASSUME IInv
  PROVE  /\ TypeOK
         /\ calls \in Seq(Resolutions) /\ importStack \in Seq(Files)
         /\ Len(calls) \in Nat
         /\ calls # << >> <=> Len(calls) > 0
         /\ \A i \in 1 .. Len(calls) :
              /\ calls[i] \in Resolutions
              /\ calls[i].file \in Files
              /\ calls[i].file \in DOMAIN content
              /\ calls[i].at <= Len(content[calls[i].file]) + 1
              /\ Len(calls) - i \in Nat
         /\ calls # << >> => /\ Top \in Resolutions
                             /\ Top.file \in DOMAIN content
                             /\ Text \in Seq(Items)
                             /\ Top.name = Top.file
  <1>1. TypeOK
    BY DEF IInv, ParsedOnce
  <1>2. calls \in Seq(Resolutions) /\ importStack \in Seq(Files)
    BY <1>1 DEF TypeOK
  <1>3. Len(calls) \in Nat /\ (calls # << >> <=> Len(calls) > 0)
    BY <1>2, EmptySeq
  <1>4. \A i \in 1 .. Len(calls) :
          /\ calls[i] \in Resolutions
          /\ calls[i].file \in Files
          /\ calls[i].file \in DOMAIN content
          /\ calls[i].at <= Len(content[calls[i].file]) + 1
          /\ Len(calls) - i \in Nat
    <2>1. \A i \in 1 .. Len(calls) : calls[i] \in Resolutions /\ Len(calls) - i \in Nat
      BY <1>2, <1>3
    <2> QED
      BY <2>1, <1>1 DEF TypeOK, Resolutions
  <1>5. ASSUME calls # << >>
        PROVE  /\ Top \in Resolutions
               /\ Top.file \in DOMAIN content
               /\ Text \in Seq(Items)
               /\ Top.name = Top.file
    <2>1. Len(calls) \in 1 .. Len(calls)
      BY <1>3, <1>5
    <2> QED
      BY <2>1, <1>1, <1>4 DEF Top, Text, TypeOK, IInv, FilesOnStack
  <1> QED
    BY <1>1, <1>2, <1>3, <1>4, <1>5

AnyPath == [dir : Ways, name : Names]

LEMMA CorrectPathType ==
  ASSUME TypeOK, NEW path \in AnyPath
  PROVE  CorrectPath(path) \in Paths
  <1>1. CorrectPath(path) = [dir |-> Under[currentDirectory][path.dir], name |-> path.name]
    BY DEF CorrectPath, AnyPath
  <1>2. Under[currentDirectory][path.dir] \in Directories
    BY ResolutionAssumption DEF TypeOK, AnyPath
  <1> QED
    BY <1>1, <1>2 DEF AnyPath, Paths

(* The file of initialPath is on importStack, so that makeRelative gives   *)
(* the name of another file only.                                          *)
LEMMA Accepted ==
  ASSUME IInv, NEW path, NEW newPath, Accept(path, newPath)
  PROVE  /\ Running
         /\ newPath \in Files /\ newPath \in Paths /\ newPath.dir \in Directories
         /\ importStack' = Cons(newPath, importStack)
         /\ initialPath' = newPath
         /\ currentDirectory' = newPath.dir
         /\ ModuleName(newPath) = newPath
         /\ ~OnStack(importStack, newPath, 0)
         /\ \A i \in 1 .. Len(calls) : calls[i].file # newPath
         /\ calls = << >> => parsed = << >>
         /\ calls # << >> => Top.at <= Len(Text) /\ Top.at \in Nat \ {0}
  <1>1. /\ newPath \in Files /\ ~Contains(importStack, newPath)
        /\ importStack' = Cons(newPath, importStack)
        /\ initialPath' = newPath /\ currentDirectory' = newPath.dir
        /\ Calls(path)
    BY DEF Accept, StackWith, Enter
  <1>2. Running /\ (parsed # << >> => InFile)
    BY <1>1 DEF Calls, InFile
  <1>3. newPath \in Paths /\ newPath.dir \in Directories /\ newPath # Dot
    BY <1>1, ResolutionAssumption DEF Paths
  <1>4. ~OnStack(importStack, newPath, 0)
    BY <1>1, CallFacts DEF OnStack, Contains
  <1>5. ModuleName(newPath) = newPath
    BY <1>2, <1>3, <1>4 DEF ModuleName, IInv, PathsOnStack
  <1>6. \A i \in 1 .. Len(calls) : calls[i].file # newPath
    <2> SUFFICES ASSUME NEW i \in 1 .. Len(calls), calls[i].file = newPath
                 PROVE  FALSE
      OBVIOUS
    <2>1. OnStack(importStack, newPath, Len(calls) - i) /\ Len(calls) - i \in Nat
      BY CallFacts DEF IInv, FilesOnStack
    <2>2. OnStack(importStack, newPath, 0)
      BY <2>1, CallFacts DEF OnStack
    <2> QED
      BY <2>2, <1>4
  <1>7. calls = << >> => parsed = << >>
    BY <1>2 DEF IInv, ParsedIsResolved
  <1>8. calls # << >> => Top.at <= Len(Text) /\ Top.at \in Nat \ {0}
    <2> SUFFICES ASSUME calls # << >> PROVE Top.at <= Len(Text) /\ Top.at \in Nat \ {0}
      OBVIOUS
    <2>1. Len(calls) \in 1 .. Len(calls)
      BY CallFacts
    <2>2. Top.file \in ToSet(parsed)
      BY CallFacts DEF TypeOK
    <2>3. parsed # << >>
      BY <2>2 DEF ToSet
    <2> QED
      BY <2>3, <1>2, CallFacts DEF InFile, Resolutions
  <1> QED
    BY <1>1, <1>2, <1>3, <1>4, <1>5, <1>6, <1>7, <1>8

(* What an error leaves as it is.                                          *)
LEMMA ThrowKeepsIInv ==
  ASSUME IInv, NEW error, NEW path, Throw(error, path), path \in Paths,
         error \in {"noStandard", "notFound", "cyclic", "noParse", "undefined"},
         importStack' \in Seq(Files), initialPath' \in Paths \cup {Dot},
         currentDirectory' \in Directories,
         \A f, k : k \in Nat /\ OnStack(importStack, f, k) => OnStack(importStack', f, k)
  PROVE  IInv'
  <1>1. /\ UNCHANGED <<content, bonzaiPath, calls, resolved, result, parsed>>
        /\ outcome' = error /\ culprit' = path /\ ~Running'
    BY DEF Throw, Running
  <1>2. TypeOK'
    BY <1>1, CallFacts DEF TypeOK
  <1>3. ParsedOnce'
    BY <1>1, <1>2 DEF IInv, ParsedOnce
  <1>4. FilesOnStack'
    BY <1>1, CallFacts DEF IInv, FilesOnStack
  <1>5. PathsOnStack'
    <2>1. \A i \in 1 .. Len(calls) : Len(calls) - i + 1 \in Nat
      BY CallFacts
    <2> QED
      BY <1>1, <2>1 DEF IInv, PathsOnStack
  <1>6. ParsedIsResolved' /\ CallsWait' /\ OwnDirectory'
    BY <1>1 DEF IInv, ParsedIsResolved, CallsWait, OwnDirectory
  <1> QED
    BY <1>3, <1>4, <1>5, <1>6 DEF IInv

LEMMA RequireAgainStep ==
  ASSUME IInv, NEW path, RequireAgain(path)
  PROVE  IInv'
  <1> DEFINE newPath == CorrectPath(path)
             n       == Len(calls)
  <1>1. /\ Accept(path, newPath)
        /\ ModuleName(newPath) \in DOMAIN resolved
        /\ calls' = GoOn(calls, resolved[ModuleName(newPath)], TRUE)
        /\ UNCHANGED <<content, bonzaiPath, resolved, result, outcome, culprit, parsed>>
    BY DEF RequireAgain
  <1>2. /\ Running /\ Running'
        /\ newPath \in Files /\ newPath \in Paths /\ newPath.dir \in Directories
        /\ importStack' = Cons(newPath, importStack)
        /\ initialPath' = newPath
        /\ currentDirectory' = newPath.dir
    BY <1>1, Accepted DEF Running
  <1>3. calls # << >>
    <2>1. ModuleName(newPath) \in ToSet(parsed)
      BY <1>1, CallFacts DEF TypeOK, IInv, ParsedIsResolved
    <2>2. parsed # << >>
      BY <2>1 DEF ToSet
    <2> QED
      BY <2>2, <1>2 DEF IInv, ParsedIsResolved
  <1>4. resolved[ModuleName(newPath)] \in SUBSET Variables
    BY <1>1, CallFacts DEF TypeOK
  <1>5. /\ calls' \in Seq(Resolutions)
        /\ Len(calls') = n
        /\ \A i \in 1 .. n :
             /\ calls'[i].file = calls[i].file
             /\ calls'[i].name = calls[i].name
             /\ calls'[i].initialPath = calls[i].initialPath
             /\ calls'[i].currentDirectory = calls[i].currentDirectory
             /\ calls'[i].at = IF i = n THEN calls[i].at + 1 ELSE calls[i].at
             /\ i # n => calls'[i] = calls[i]
             /\ calls'[i].again = FALSE => i # n
    <2>1. GoneOn(calls', calls, resolved[ModuleName(newPath)], TRUE)
      BY <1>1, <1>4, GoOnFacts, CallFacts
    <2> QED
      BY <2>1 DEF GoneOn
  <1>6. n \in 1 .. n /\ n \in Nat
    BY <1>3, CallFacts
  <1>7. \A f, k : k \in Nat /\ OnStack(importStack, f, k) => OnStack(importStack', f, k)
    BY <1>2, StackPush, CallFacts
  <1> HIDE DEF newPath
  <1>8. TypeOK'
    <2>1. importStack' \in Seq(Files)
      BY <1>2, StackPush, CallFacts
    <2>2. \A i \in 1 .. n : calls'[i].at <= Len(content[calls[i].file]) + 1
      <3>1. Top.at <= Len(Text) /\ Top.at \in Nat \ {0} /\ Len(Text) \in Nat
        BY <1>1, <1>3, Accepted, CallFacts
      <3>2. calls'[n].at <= Len(content[calls[n].file]) + 1
        BY <3>1, <1>5, <1>6 DEF Top, Text
      <3> QED
        BY <3>2, <1>5, CallFacts
    <2> QED
      BY <1>1, <1>2, <1>5, <2>1, <2>2, CallFacts, ZenonT(30) DEF TypeOK
  <1>9. FilesOnStack' /\ PathsOnStack'
    <2>1. OnStack(importStack', newPath, 0)
      BY <1>2, StackPush, CallFacts
    <2>2. \A i \in 1 .. n : n - i \in Nat /\ n - i + 1 \in Nat
      BY <1>6
    <2> QED
      BY <1>2, <1>5, <1>7, <2>1, <2>2 DEF IInv, FilesOnStack, PathsOnStack
  <1>10. ParsedIsResolved'
    <2>1. calls' # << >>
      BY <1>5, <1>6, EmptySeq
    <2>2. \A i \in 1 .. Len(parsed) :
            parsed[i] \in DOMAIN resolved \/ \E j \in 1 .. n : calls'[j].file = parsed[i]
      BY <1>5 DEF IInv, ParsedIsResolved
    <2>3. DOMAIN resolved \subseteq DOMAIN content
      BY DEF IInv, ParsedIsResolved
    <2> QED
      BY <1>1, <1>5, <2>1, <2>2, <2>3 DEF ParsedIsResolved
  <1>11. CallsWait'
    <2>1. \A i \in 1 .. n - 1 : i \in 1 .. n /\ i + 1 \in 1 .. n /\ i # n
      BY <1>6
    <2>2. \A i \in 1 .. n - 1 :
            /\ calls[i].at <= Len(content[calls[i].file])
            /\ ~calls[i].again => calls[i + 1].currentDirectory = calls[i].file.dir
      BY DEF IInv, CallsWait
    <2> QED
      BY <1>1, <1>5, <2>1, <2>2 DEF CallsWait
  <1>12. OwnDirectory'
    <2>1. calls'[n].again # FALSE
      BY <1>5, <1>6
    <2>2. calls'[n] \in Resolutions
      BY <1>5, <1>6
    <2>3. calls'[n].again \in BOOLEAN
      BY <2>2 DEF Resolutions
    <2>4. calls'[n].again
      BY <2>1, <2>3
    <2> QED
      BY <1>5, <2>4 DEF OwnDirectory, Top
  <1> QED
    BY <1>1, <1>8, <1>9, <1>10, <1>11, <1>12 DEF IInv, ParsedOnce

LEMMA NotRead ==
  ASSUME IInv, NEW path, Parse(path)
  PROVE  CorrectPath(path) \notin DOMAIN content
  <1> DEFINE newPath == CorrectPath(path)
  <1>1. Accept(path, newPath) /\ ModuleName(newPath) \notin DOMAIN resolved
    BY DEF Parse
  <1>2. ModuleName(newPath) = newPath /\ \A i \in 1 .. Len(calls) : calls[i].file # newPath
    BY <1>1, Accepted
  <1> HIDE DEF newPath
  <1> SUFFICES ASSUME newPath \in DOMAIN content PROVE FALSE
    BY DEF newPath
  <1>3. newPath \in ToSet(parsed)
    BY CallFacts DEF TypeOK
  <1>4. PICK i \in 1 .. Len(parsed) : parsed[i] = newPath
    BY <1>3, CallFacts DEF ToSet, TypeOK
  <1> QED
    BY <1>1, <1>2, <1>4 DEF IInv, ParsedIsResolved

LEMMA ParseStep ==
  ASSUME IInv, NEW path, Parse(path)
  PROVE  IInv'
  <1> DEFINE newPath == CorrectPath(path)
             n       == Len(calls)
             new     == [file |-> newPath, name |-> ModuleName(newPath), at |-> 1, variables |-> {},
                         imported |-> {}, initialPath |-> initialPath,
                         currentDirectory |-> currentDirectory, again |-> FALSE]
  <1>1. /\ Accept(path, newPath)
        /\ ModuleName(newPath) \notin DOMAIN resolved
        /\ \E text \in Readable(newPath) :
             content' = [f \in DOMAIN content \cup {newPath} |->
                           IF f = newPath THEN text ELSE content[f]]
        /\ calls' = Append(calls, new)
        /\ parsed' = Append(parsed, newPath)
        /\ UNCHANGED <<bonzaiPath, resolved, result, outcome, culprit>>
    BY DEF Parse
  <1>2. /\ Running /\ Running'
        /\ newPath \in Files /\ newPath \in Paths /\ newPath.dir \in Directories
        /\ importStack' = Cons(newPath, importStack)
        /\ initialPath' = newPath
        /\ currentDirectory' = newPath.dir
        /\ ModuleName(newPath) = newPath
        /\ \A i \in 1 .. Len(calls) : calls[i].file # newPath
        /\ calls = << >> => parsed = << >>
        /\ calls # << >> => Top.at <= Len(Text) /\ Top.at \in Nat \ {0}
    BY <1>1, Accepted DEF Running
  <1> HIDE DEF newPath
  <1>3. initialPath \in Files \cup {Dot}
    <2>1. \A f : OnStack(importStack, f, 0) => f \in Files
      BY CallFacts DEF OnStack
    <2> QED
      BY <2>1, <1>2 DEF IInv, PathsOnStack
  <1>4. new \in Resolutions
    BY <1>2, <1>3, CallFacts DEF Resolutions, TypeOK
  <1> HIDE DEF new
  <1>5. /\ new.file = newPath /\ new.name = newPath /\ new.at = 1
        /\ new.initialPath = initialPath /\ new.currentDirectory = currentDirectory
    BY <1>2 DEF new
  <1>6. n \in Nat
    BY CallFacts
  <1>7. /\ calls' \in Seq(Resolutions) /\ Len(calls') = n + 1
        /\ \A i \in 1 .. n : calls'[i] = calls[i]
        /\ calls'[n + 1] = new
    BY <1>1, <1>4, CallFacts
  <1>8. \A i \in 1 .. n + 1 : i \in 1 .. n \/ i = n + 1
    BY <1>6
  <1>9. newPath \notin DOMAIN content
    BY NotRead DEF newPath
  <1>10. PICK text \in Seq(Items) :
           /\ DOMAIN content' = DOMAIN content \cup {newPath}
           /\ content'[newPath] = text
           /\ \A f \in DOMAIN content : content'[f] = content[f]
    <2>1. PICK text \in Readable(newPath) :
            content' = [f \in DOMAIN content \cup {newPath} |->
                          IF f = newPath THEN text ELSE content[f]]
      BY <1>1
    <2>2. text \in Seq(Items)
      <3>1. Texts[newPath] \subseteq Seq(Items)
        BY <1>2, ResolutionAssumption
      <3>2. \A f \in DOMAIN content : content[f] \in Seq(Items)
        BY CallFacts DEF TypeOK
      <3> QED
        BY <2>1, <3>1, <3>2 DEF Readable
    <2> QED
      BY <2>1, <2>2, <1>9
  <1>11. /\ parsed \in Seq(Files) /\ parsed' \in Seq(Files)
         /\ ToSet(parsed') = ToSet(parsed) \cup {newPath}
         /\ Len(parsed') = Len(parsed) + 1 /\ Len(parsed) \in Nat
         /\ \A i \in 1 .. Len(parsed) : parsed'[i] = parsed[i] /\ parsed[i] \in ToSet(parsed)
         /\ parsed'[Len(parsed) + 1] = newPath
    <2>1. parsed \in Seq(Files)
      BY CallFacts DEF TypeOK
    <2>2. /\ parsed' \in Seq(Files) /\ Len(parsed') = Len(parsed) + 1 /\ Len(parsed) \in Nat
          /\ \A i \in 1 .. Len(parsed) : parsed'[i] = parsed[i]
          /\ parsed'[Len(parsed) + 1] = newPath
      BY <2>1, <1>1, <1>2
    <2> QED
      BY <2>1, <2>2 DEF ToSet
  <1>12. TypeOK'
    <2>1. importStack' \in Seq(Files)
      BY <1>2, StackPush, CallFacts
    <2>2. \A i \in 1 .. n + 1 : /\ calls'[i].file \in DOMAIN content'
                                /\ calls'[i].at <= Len(content'[calls'[i].file]) + 1
      <3>1. Len(text) \in Nat
        OBVIOUS
      <3>2. \A i \in 1 .. n : /\ calls'[i].file \in DOMAIN content'
                              /\ calls'[i].at <= Len(content'[calls'[i].file]) + 1
        BY <1>7, <1>10, CallFacts
      <3>3. /\ calls'[n + 1].file \in DOMAIN content'
            /\ calls'[n + 1].at <= Len(content'[calls'[n + 1].file]) + 1
        BY <3>1, <1>5, <1>7, <1>10
      <3> QED
        BY <3>2, <3>3, <1>8
    <2>3. \A f \in DOMAIN content' : content'[f] \in Seq(Items)
      BY <1>10, CallFacts DEF TypeOK
    <2>4. DOMAIN content' = ToSet(parsed')
      BY <1>10, <1>11, CallFacts DEF TypeOK
    <2> QED
      BY <1>1, <1>2, <1>7, <1>11, <2>1, <2>2, <2>3, <2>4, CallFacts DEF TypeOK
  <1>13. ParsedOnce'
    <2>1. \A i \in 1 .. Len(parsed) : parsed[i] # newPath
      BY <1>9, <1>11, CallFacts DEF TypeOK
    <2> QED
      BY <2>1, <1>11, <1>12 DEF IInv, ParsedOnce
  <1>14. FilesOnStack' /\ PathsOnStack'
    <2>1. /\ OnStack(importStack', newPath, 0)
          /\ \A f, k : k \in Nat /\ OnStack(importStack, f, k) => OnStack(importStack', f, k + 1)
      BY <1>2, StackPush, CallFacts
    <2>2. FilesOnStack'
      <3> SUFFICES ASSUME NEW i \in 1 .. n + 1
                   PROVE  /\ OnStack(importStack', calls'[i].file, (n + 1) - i)
                          /\ calls'[i].name = calls'[i].file
        BY <1>7 DEF FilesOnStack
      <3>1. CASE i \in 1 .. n
        <4>1. n - i \in Nat /\ (n - i) + 1 = (n + 1) - i
          BY <3>1, <1>6
        <4>2. OnStack(importStack, calls[i].file, n - i) /\ calls[i].name = calls[i].file
          BY <3>1 DEF IInv, FilesOnStack
        <4> QED
          BY <3>1, <4>1, <4>2, <2>1, <1>7
      <3>2. CASE i = n + 1
        BY <3>2, <2>1, <1>5, <1>6, <1>7
      <3> QED
        BY <3>1, <3>2, <1>8
    <2>3. PathsOnStack'
      <3> SUFFICES ASSUME NEW i \in 1 .. n + 1
                   PROVE  \/ calls'[i].initialPath = Dot
                          \/ OnStack(importStack', calls'[i].initialPath, (n + 1) - i + 1)
        BY <1>2, <1>7, <2>1 DEF PathsOnStack
      <3>1. CASE i \in 1 .. n
        <4>1. n - i + 1 \in Nat /\ (n - i + 1) + 1 = (n + 1) - i + 1
          BY <3>1, <1>6
        <4>2. calls[i].initialPath = Dot \/ OnStack(importStack, calls[i].initialPath, n - i + 1)
          BY <3>1 DEF IInv, PathsOnStack
        <4> QED
          BY <3>1, <4>1, <4>2, <2>1, <1>7
      <3>2. CASE i = n + 1
        <4>1. initialPath = Dot \/ OnStack(importStack, initialPath, 0)
          BY <1>2 DEF IInv, PathsOnStack
        <4>2. (n + 1) - i + 1 = 0 + 1
          BY <3>2, <1>6
        <4> QED
          BY <3>2, <4>1, <4>2, <2>1, <1>5, <1>7
      <3> QED
        BY <3>1, <3>2, <1>8
    <2> QED
      BY <2>2, <2>3
  <1>15. ParsedIsResolved'
    <2>1. calls' # << >>
      BY <1>6, <1>7, EmptySeq
    <2>2. \A i \in 1 .. Len(parsed) + 1 : i \in 1 .. Len(parsed) \/ i = Len(parsed) + 1
      BY <1>11
    <2>3. \A j \in 1 .. n : j \in 1 .. n + 1
      BY <1>6
    <2>4. n + 1 \in 1 .. n + 1
      BY <1>6
    <2>5. \A i \in 1 .. Len(parsed') :
            parsed'[i] \in DOMAIN resolved' \/ \E j \in 1 .. n + 1 : calls'[j].file = parsed'[i]
      BY <1>1, <1>5, <1>7, <1>11, <2>2, <2>3, <2>4, SMTT(30) DEF IInv, ParsedIsResolved
    <2>6. DOMAIN resolved' \subseteq DOMAIN content'
      BY <1>1, <1>10 DEF IInv, ParsedIsResolved
    <2> QED
      BY <2>1, <2>5, <2>6, <1>7 DEF ParsedIsResolved
  <1>16. CallsWait'
    <2> SUFFICES ASSUME NEW i \in 1 .. n
                 PROVE  /\ calls'[i].at <= Len(content'[calls'[i].file])
                        /\ ~calls'[i].again => calls'[i + 1].currentDirectory = calls'[i].file.dir
      BY <1>6, <1>7 DEF CallsWait
    <2>1. calls'[i] = calls[i] /\ content'[calls[i].file] = content[calls[i].file]
      BY <1>7, <1>10, CallFacts
    <2>2. CASE i = n
      <3>1. calls # << >> /\ Top = calls[n]
        BY <2>2, CallFacts DEF Top
      <3>2. Top.at <= Len(Text) /\ (~Top.again => currentDirectory = Top.file.dir)
        BY <3>1, <1>2 DEF IInv, OwnDirectory
      <3> QED
        BY <2>1, <2>2, <3>1, <3>2, <1>5, <1>7 DEF Text
    <2>3. CASE i # n
      <3>1. i \in 1 .. n - 1 /\ i + 1 \in 1 .. n
        BY <2>3, <1>6
      <3> QED
        BY <2>1, <3>1, <1>7 DEF IInv, CallsWait
    <2> QED
      BY <2>2, <2>3
  <1>17. OwnDirectory'
    BY <1>2, <1>5, <1>7 DEF OwnDirectory, Top
  <1> QED
    BY <1>13, <1>14, <1>15, <1>16, <1>17 DEF IInv

LEMMA StatementStep ==
  ASSUME IInv, Statement
  PROVE  IInv'
  <1> DEFINE n    == Len(calls)
             next == [calls[n] EXCEPT !.at = @ + 1, !.variables = @ \cup Item.defines]
  <1>1. /\ InFile /\ Item.kind = "statement"
        /\ calls' = [calls EXCEPT ![n].at = @ + 1, ![n].variables = @ \cup Item.defines]
        /\ UNCHANGED <<content, bonzaiPath, importStack, initialPath, currentDirectory, resolved,
                       result, outcome, culprit, parsed>>
    BY DEF Statement, moduleState
  <1>2. Running /\ calls # << >> /\ Top.at <= Len(Text)
    BY <1>1 DEF InFile
  <1>3. /\ n \in 1 .. n /\ n \in Nat /\ calls[n] \in Resolutions /\ calls[n] = Top
        /\ calls \in Seq(Resolutions)
    BY <1>2, CallFacts DEF Top
  <1>4. Item \in Items /\ Item.defines \in SUBSET Variables
    <2>1. Top.at \in 1 .. Len(Text)
      BY <1>2, <1>3 DEF Resolutions
    <2>2. Item \in Items
      BY <2>1, <1>2, CallFacts DEF Item
    <2> QED
      BY <2>2, <1>1 DEF Items
  <1>5. /\ next \in Resolutions
        /\ next.file = Top.file /\ next.name = Top.name /\ next.initialPath = Top.initialPath
        /\ next.currentDirectory = Top.currentDirectory /\ next.again = Top.again
        /\ next.at = Top.at + 1
    <2>1. PICK a \in Nat \ {0}, vs \in SUBSET Variables :
            a = calls[n].at + 1 /\ vs = calls[n].variables \cup Item.defines
      <3>1. calls[n].at + 1 \in Nat \ {0}
        BY <1>3 DEF Resolutions
      <3>2. calls[n].variables \cup Item.defines \in SUBSET Variables
        BY <1>3, <1>4 DEF Resolutions
      <3> QED
        BY <3>1, <3>2
    <2>2. next = [calls[n] EXCEPT !.at = a, !.variables = vs]
      BY <2>1
    <2> HIDE DEF next
    <2> QED
      BY <1>3, <2>1, <2>2 DEF Resolutions
  <1>6. calls' = [calls EXCEPT ![n] = next]
    BY <1>1
  <1> HIDE DEF next
  <1>7. /\ calls' \in Seq(Resolutions) /\ Len(calls') = n
        /\ \A i \in 1 .. n : calls'[i] = IF i = n THEN next ELSE calls[i]
    BY <1>3, <1>5, <1>6
  <1>8. \A i \in 1 .. n : /\ calls'[i].file = calls[i].file
                          /\ calls'[i].name = calls[i].name
                          /\ calls'[i].initialPath = calls[i].initialPath
                          /\ calls'[i].currentDirectory = calls[i].currentDirectory
                          /\ i # n => calls'[i] = calls[i]
    BY <1>3, <1>5, <1>7
  <1>9. TypeOK'
    <2>1. Top.at + 1 <= Len(content[Top.file]) + 1
      BY <1>2, <1>3, CallFacts DEF Text, Resolutions
    <2>2. \A i \in 1 .. n : /\ calls'[i].file \in DOMAIN content
                            /\ calls'[i].at <= Len(content[calls'[i].file]) + 1
      <3> SUFFICES ASSUME NEW i \in 1 .. n
                   PROVE  /\ calls'[i].file \in DOMAIN content
                          /\ calls'[i].at <= Len(content[calls'[i].file]) + 1
        OBVIOUS
      <3>1. CASE i = n
        BY <3>1, <2>1, <1>2, <1>5, <1>7, CallFacts
      <3>2. CASE i # n
        BY <3>2, <1>7, CallFacts
      <3> QED
        BY <3>1, <3>2
    <2> QED
      BY <1>1, <1>7, <2>2, CallFacts DEF TypeOK
  <1>10. FilesOnStack' /\ PathsOnStack'
    BY <1>1, <1>7, <1>8 DEF IInv, FilesOnStack, PathsOnStack, Running
  <1>11. ParsedIsResolved'
    <2>1. calls' # << >>
      BY <1>3, <1>7, EmptySeq
    <2>2. \A i \in 1 .. Len(parsed) :
            parsed[i] \in DOMAIN resolved \/ \E j \in 1 .. n : calls'[j].file = parsed[i]
      BY <1>8 DEF IInv, ParsedIsResolved
    <2>3. DOMAIN resolved \subseteq DOMAIN content
      BY DEF IInv, ParsedIsResolved
    <2> QED
      BY <1>1, <1>7, <2>1, <2>2, <2>3 DEF ParsedIsResolved
  <1>12. CallsWait'
    <2>1. \A i \in 1 .. n - 1 : i \in 1 .. n /\ i + 1 \in 1 .. n /\ i # n
      BY <1>3
    <2>2. \A i \in 1 .. n - 1 :
            /\ calls[i].at <= Len(content[calls[i].file])
            /\ ~calls[i].again => calls[i + 1].currentDirectory = calls[i].file.dir
      BY DEF IInv, CallsWait
    <2> QED
      BY <1>1, <1>7, <1>8, <2>1, <2>2 DEF CallsWait
  <1>13. OwnDirectory'
    <2>1. ~Top.again => currentDirectory = Top.file.dir
      BY <1>2 DEF IInv, OwnDirectory
    <2>2. calls'[n] = next
      BY <1>3, <1>7
    <2> QED
      BY <1>1, <1>5, <1>7, <2>1, <2>2 DEF OwnDirectory, Top
  <1> QED
    BY <1>1, <1>9, <1>10, <1>11, <1>12, <1>13 DEF IInv, ParsedOnce

LEMMA ReturnStep ==
  ASSUME IInv, Return
  PROVE  IInv'
  <1> DEFINE front == Front(calls)
  <1>1. /\ Running /\ calls # << >>
        /\ resolved' = Inserted(Top.name, Top.variables)
        /\ initialPath' = Top.initialPath
        /\ currentDirectory' = Top.currentDirectory
        /\ importStack' = SubSeq(importStack, 2, Len(importStack))
        /\ calls' = GoOn(front, Top.variables, FALSE)
        /\ outcome' = IF Len(calls) = 1 THEN "resolved" ELSE "running"
        /\ UNCHANGED <<content, bonzaiPath, culprit, parsed>>
    BY DEF Return, DirectoryAfter, StackDropped
  <1>2. PICK n \in Nat \ {0} : n = Len(calls)
    BY <1>1, CallFacts
  <1>3. /\ Top = calls[n] /\ Top \in Resolutions /\ Top.name = Top.file
        /\ Top.file \in DOMAIN content /\ Top.file \in Files /\ Top.variables \in SUBSET Variables
        /\ Top.initialPath \in Files \cup {Dot} /\ Top.currentDirectory \in Directories
    <2>1. Top = calls[n] /\ Top \in Resolutions /\ Top.name = Top.file /\ Top.file \in DOMAIN content
      BY <1>1, <1>2, CallFacts DEF Top
    <2> QED
      BY <2>1 DEF Resolutions
  <1>4. front \in Seq(Resolutions) /\ Len(front) = n - 1 /\ \A i \in 1 .. n - 1 : front[i] = calls[i]
    <2>1. calls \in Seq(Resolutions)
      BY CallFacts
    <2> QED
      BY <2>1, <1>2 DEF Front
  <1> HIDE DEF front
  <1>5. /\ calls' \in Seq(Resolutions)
        /\ Len(calls') = n - 1
        /\ \A i \in 1 .. n - 1 :
             /\ calls'[i].file = calls[i].file
             /\ calls'[i].name = calls[i].name
             /\ calls'[i].initialPath = calls[i].initialPath
             /\ calls'[i].currentDirectory = calls[i].currentDirectory
             /\ calls'[i].at = IF i = n - 1 THEN calls[i].at + 1 ELSE calls[i].at
             /\ calls'[i].again = FALSE => calls[i].again = FALSE
             /\ i # n - 1 => calls'[i] = calls[i]
    <2>1. GoneOn(calls', front, Top.variables, FALSE)
      BY <1>1, <1>3, <1>4, GoOnFacts
    <2> QED
      BY <2>1, <1>4 DEF GoneOn
  <1>6. \A i \in 1 .. n - 1 : i \in 1 .. n /\ ~(i = n) /\ i + 1 \in 1 .. n
    BY <1>2
  <1>7. /\ importStack' \in Seq(Files)
        /\ \A f, k : k \in Nat /\ OnStack(importStack, f, k + 1) => OnStack(importStack', f, k)
    BY <1>1, StackDrop, CallFacts
  <1>8. \A i \in 1 .. n - 1 : ~calls'[i].again => ~calls[i].again
    <2> SUFFICES ASSUME NEW i \in 1 .. n - 1, ~calls'[i].again
                 PROVE  ~calls[i].again
      OBVIOUS
    <2>1. calls'[i] \in Resolutions /\ calls[i] \in Resolutions
      <3>1. calls'[i] \in Resolutions
        BY <1>5
      <3>2. i \in 1 .. n
        BY <1>6
      <3> QED
        BY <3>1, <3>2, <1>2, CallFacts
    <2>2. calls'[i].again \in BOOLEAN /\ calls[i].again \in BOOLEAN
      BY <2>1 DEF Resolutions
    <2>3. calls'[i].again = FALSE
      BY <2>2
    <2>4. calls[i].again = FALSE
      BY <2>3, <1>5
    <2> QED
      BY <2>4
  <1>9. /\ DOMAIN resolved' = DOMAIN resolved \cup {Top.file}
        /\ \A name \in DOMAIN resolved' : resolved'[name] \subseteq Variables
    BY <1>1, <1>3, CallFacts DEF Inserted, TypeOK
  <1>10. TypeOK'
    <2>1. \A i \in 1 .. n - 1 : /\ calls'[i].file \in DOMAIN content
                                /\ calls'[i].at <= Len(content[calls'[i].file]) + 1
      <3> SUFFICES ASSUME NEW i \in 1 .. n - 1
                   PROVE  /\ calls'[i].file \in DOMAIN content
                          /\ calls'[i].at <= Len(content[calls'[i].file]) + 1
        OBVIOUS
      <3>1. calls[i].at <= Len(content[calls[i].file]) /\ calls[i].file \in DOMAIN content
        BY <1>2, <1>6, CallFacts DEF IInv, CallsWait
      <3>2. calls[i].at \in Nat /\ Len(content[calls[i].file]) \in Nat
        <4>1. content[calls[i].file] \in Seq(Items)
          BY <3>1, CallFacts DEF TypeOK
        <4>2. calls[i] \in Resolutions
          BY <1>2, <1>6, CallFacts
        <4> QED
          BY <4>1, <4>2 DEF Resolutions
      <3>3. calls'[i].at = calls[i].at + 1 \/ calls'[i].at = calls[i].at
        BY <1>5
      <3> QED
        BY <3>1, <3>2, <3>3, <1>5
    <2>2. initialPath' \in Paths \cup {Dot} /\ currentDirectory' \in Directories
      BY <1>1, <1>3, ResolutionAssumption
    <2>3. DOMAIN resolved' \subseteq Files
      BY <1>3, <1>9, CallFacts DEF TypeOK
    <2>4. result' \in Seq(Items)
      <3>1. result \o Text \in Seq(Items)
        <4>1. result \in Seq(Items) /\ Text \in Seq(Items)
          BY <1>1, CallFacts DEF TypeOK
        <4> QED
          BY <4>1
      <3> QED
        BY <3>1, NubFacts DEF Return
    <2> QED
      BY <1>1, <1>5, <1>7, <1>9, <2>1, <2>2, <2>3, <2>4, CallFacts DEF TypeOK
  <1>11. FilesOnStack'
    <2> SUFFICES ASSUME NEW i \in 1 .. n - 1
                 PROVE  /\ OnStack(importStack', calls'[i].file, (n - 1) - i)
                        /\ calls'[i].name = calls'[i].file
      BY <1>5 DEF FilesOnStack
    <2>1. OnStack(importStack, calls[i].file, n - i) /\ calls[i].name = calls[i].file
      BY <1>2, <1>6 DEF IInv, FilesOnStack
    <2>2. (n - 1) - i \in Nat /\ n - i = ((n - 1) - i) + 1
      BY <1>2
    <2> QED
      BY <2>1, <2>2, <1>5, <1>7
  <1>12. PathsOnStack'
    <2>1. initialPath' = Dot \/ OnStack(importStack', initialPath', 0)
      <3>1. Top.initialPath = Dot \/ OnStack(importStack, Top.initialPath, n - n + 1)
        BY <1>2, <1>3 DEF IInv, PathsOnStack
      <3>2. n - n + 1 = 0 + 1
        BY <1>2
      <3> QED
        BY <3>1, <3>2, <1>1, <1>7
    <2>2. ASSUME NEW i \in 1 .. n - 1
          PROVE  \/ calls'[i].initialPath = Dot
                 \/ OnStack(importStack', calls'[i].initialPath, (n - 1) - i + 1)
      <3>1. calls[i].initialPath = Dot \/ OnStack(importStack, calls[i].initialPath, n - i + 1)
        BY <1>2, <1>6 DEF IInv, PathsOnStack
      <3>2. (n - 1) - i + 1 \in Nat /\ n - i + 1 = ((n - 1) - i + 1) + 1
        BY <1>2
      <3> QED
        BY <3>1, <3>2, <1>5, <1>7
    <2> QED
      BY <2>1, <2>2, <1>5 DEF PathsOnStack
  <1>13. ParsedIsResolved'
    <2>1. \A i \in 1 .. Len(parsed) :
            parsed[i] \in DOMAIN resolved' \/ \E j \in 1 .. n - 1 : calls'[j].file = parsed[i]
      <3> SUFFICES ASSUME NEW i \in 1 .. Len(parsed), NEW j \in 1 .. n, calls[j].file = parsed[i]
                   PROVE  \/ parsed[i] \in DOMAIN resolved'
                          \/ \E k \in 1 .. n - 1 : calls'[k].file = parsed[i]
        BY <1>2, <1>9 DEF IInv, ParsedIsResolved
      <3>1. j = n \/ j \in 1 .. n - 1
        BY <1>2
      <3> QED
        BY <3>1, <1>3, <1>5, <1>9
    <2>2. DOMAIN resolved' \subseteq DOMAIN content
      BY <1>3, <1>9 DEF IInv, ParsedIsResolved
    <2>3. Running' => calls' # << >>
      <3>1. Running' => n # 1
        BY <1>1, <1>2 DEF Running
      <3> QED
        BY <3>1, <1>2, <1>5, EmptySeq
    <2> QED
      BY <1>1, <1>5, <2>1, <2>2, <2>3 DEF ParsedIsResolved
  <1>14. CallsWait'
    <2> SUFFICES ASSUME NEW i \in 1 .. n - 2
                 PROVE  /\ calls'[i].at <= Len(content[calls'[i].file])
                        /\ ~calls'[i].again => calls'[i + 1].currentDirectory = calls'[i].file.dir
      <3>1. Len(calls') - 1 = n - 2
        BY <1>2, <1>5
      <3> QED
        BY <3>1, <1>1 DEF CallsWait
    <2>1. i \in 1 .. n - 1 /\ i + 1 \in 1 .. n - 1 /\ i # n - 1
      BY <1>2
    <2>2. /\ calls[i].at <= Len(content[calls[i].file])
          /\ ~calls[i].again => calls[i + 1].currentDirectory = calls[i].file.dir
      BY <1>2, <2>1 DEF IInv, CallsWait
    <2> QED
      BY <2>1, <2>2, <1>5
  <1>15. OwnDirectory'
    <2> SUFFICES ASSUME Running', calls' # << >>, ~Top'.again
                 PROVE  currentDirectory' = Top'.file.dir
      BY DEF OwnDirectory
    <2>1. n - 1 \in 1 .. n - 1 /\ Top' = calls'[n - 1]
      BY <1>2, <1>5, EmptySeq DEF Top
    <2>2. ~calls[n - 1].again
      BY <2>1, <1>8
    <2>3. calls[(n - 1) + 1].currentDirectory = calls[n - 1].file.dir
      BY <1>2, <2>1, <2>2 DEF IInv, CallsWait
    <2>4. (n - 1) + 1 = n
      BY <1>2
    <2> QED
      BY <2>1, <2>3, <2>4, <1>1, <1>3, <1>5
  <1> QED
    BY <1>1, <1>10, <1>11, <1>12, <1>13, <1>14, <1>15 DEF IInv, ParsedOnce

LEMMA ErrorStep ==
  ASSUME IInv, NEW path \in AnyPath,
         \/ EnvironmentVariableNotFound(path)
         \/ ModuleNotFound(path)
         \/ CyclicModuleDependency(path)
         \/ ParseError(path)
  PROVE  IInv'
  <1>1. CorrectPath(path) \in Paths /\ CorrectPath(path).dir \in Directories
    BY CorrectPathType, CallFacts DEF Paths
  <1>2. initialPath \in Paths \cup {Dot} /\ currentDirectory \in Directories /\ importStack \in Seq(Files)
    BY CallFacts DEF TypeOK
  <1>3. CASE EnvironmentVariableNotFound(path)
    BY <1>1, <1>2, <1>3, ThrowKeepsIInv DEF EnvironmentVariableNotFound
  <1>4. CASE ModuleNotFound(path)
    BY <1>1, <1>2, <1>4, ThrowKeepsIInv DEF ModuleNotFound, Enter
  <1>5. CASE CyclicModuleDependency(path)
    BY <1>1, <1>2, <1>5, ThrowKeepsIInv DEF CyclicModuleDependency, Enter
  <1>6. CASE ParseError(path)
    <2>1. Accept(path, CorrectPath(path)) /\ Throw("noParse", CorrectPath(path))
      BY <1>6 DEF ParseError
    <2>2. /\ CorrectPath(path) \in Files
          /\ importStack' = Cons(CorrectPath(path), importStack)
          /\ initialPath' = CorrectPath(path)
          /\ currentDirectory' = CorrectPath(path).dir
      BY <2>1, Accepted
    <2>3. /\ importStack' \in Seq(Files)
          /\ \A f, k : k \in Nat /\ OnStack(importStack, f, k) => OnStack(importStack', f, k)
      BY <2>2, <1>2, StackPush
    <2> QED
      BY <1>1, <2>1, <2>2, <2>3, ThrowKeepsIInv
  <1> QED
    BY <1>3, <1>4, <1>5, <1>6

LEMMA VariableNotFoundStep ==
  ASSUME IInv, VariableNotFound
  PROVE  IInv'
  <1>1. /\ Throw("undefined", Top.file) /\ UNCHANGED <<importStack, initialPath, currentDirectory>>
        /\ calls # << >>
    BY DEF VariableNotFound, InFile
  <1>2. initialPath \in Paths \cup {Dot} /\ currentDirectory \in Directories /\ importStack \in Seq(Files)
    BY CallFacts DEF TypeOK
  <1>3. Top.file \in Paths
    <2>1. Top.file \in Files
      BY <1>1, CallFacts DEF Resolutions
    <2> QED
      BY <2>1, ResolutionAssumption
  <1> QED
    BY <1>1, <1>2, <1>3, ThrowKeepsIInv
-----------------------------------------------------------------------------
LEMMA Invariance == Spec => []IInv
  <1>1. ASSUME IInv, [Next]_vars
        PROVE  IInv'
    <2>1. CASE UNCHANGED vars
      <3> USE <2>1 DEF vars
      <3>1. TypeOK'
        BY <1>1, CallFacts DEF TypeOK
      <3>2. ParsedOnce'
        BY <1>1, <3>1 DEF IInv, ParsedOnce
      <3>3. FilesOnStack' /\ PathsOnStack'
        BY <1>1 DEF IInv, FilesOnStack, PathsOnStack, Running
      <3>4. ParsedIsResolved' /\ CallsWait'
        BY <1>1 DEF IInv, ParsedIsResolved, CallsWait, Running
      <3>5. OwnDirectory'
        BY <1>1 DEF IInv, OwnDirectory, Running, Top
      <3> QED
        BY <3>2, <3>3, <3>4, <3>5 DEF IInv
    <2>2. ASSUME NEW path \in AnyPath, Resolve(path)
          PROVE  IInv'
      BY <1>1, <2>2, ErrorStep, RequireAgainStep, ParseStep DEF Resolve
    <2> QED
      BY <1>1, <2>1, <2>2, StatementStep, VariableNotFoundStep, ReturnStep DEF Next, AnyPath
  <1> QED
    BY <1>1, InitIInv, PTL DEF Spec

-----------------------------------------------------------------------------
LEMMA SeenLater ==
  ASSUME NEW c \in Resolutions, NEW d \in Resolutions, NEW text \in Seq(Items), NEW t, NEW u,
         \A v : Defines(t, Len(t), v) => Defines(u, Len(u), v),
         d.variables = c.variables,
         \A v \in d.imported : v \in c.imported \/ Defines(u, Len(u), v),
         d.at = c.at \/ (d.at = c.at + 1 /\ text[c.at].kind = "require"),
         Seen(c, text, t)
  PROVE  Seen(d, text, u)
  <1>1. c.at \in Nat \ {0} /\ d.at \in Nat \ {0}
    BY DEF Resolutions
  <1>2. PICK n \in Nat : n = c.at - 1
    BY <1>1
  <1>3. d.at - 1 \in Nat /\ n <= d.at - 1
    BY <1>1, <1>2
  <1>4. \A v \in d.variables : Defines(text, d.at - 1, v)
    BY <1>2, <1>3, DefinedLater DEF Seen
  <1>5. UsesDefined(text, n, u)
    BY <1>2, MoreDefinitions DEF Seen
  <1>6. \A k \in 1 .. d.at - 1 : k \in 1 .. n \/ text[k].kind = "require"
    BY <1>1, <1>2
  <1>7. UsesDefined(text, d.at - 1, u)
    BY <1>5, <1>6 DEF UsesDefined
  <1> QED
    BY <1>4, <1>7 DEF Seen

(* Where the walk over the innermost file stands when resolve is called.   *)
LEMMA CalledAtRequire ==
  ASSUME IInv, NEW path, Calls(path), calls # << >>
  PROVE  content[Top.file][Top.at].kind = "require"
  <1>1. Top.file \in ToSet(parsed)
    BY CallFacts DEF TypeOK
  <1>2. parsed # << >>
    BY <1>1 DEF ToSet
  <1> QED
    BY <1>2 DEF Calls, Item, Text

LEMMA InitDefinitions == Init => Definitions
  <1>1. ASSUME Init
        PROVE  Len(calls) = 0 /\ Len(result) = 0 /\ DOMAIN resolved = {}
    BY <1>1 DEF Init
  <1> QED
    BY <1>1 DEF Definitions, AtRequires, SeenIsDefined, DefinedBeforeUse

LEMMA RequireAgainDefinitions ==
  ASSUME IInv, IInv', Definitions, NEW path, RequireAgain(path)
  PROVE  Definitions'
  <1> DEFINE name == ModuleName(CorrectPath(path))
             n    == Len(calls)
  <1>1. /\ Calls(path) /\ name \in DOMAIN resolved
        /\ calls' = GoOn(calls, resolved[name], TRUE)
        /\ UNCHANGED <<content, resolved, result>>
    BY DEF RequireAgain, Accept
  <1> HIDE DEF name
  <1>2. resolved[name] \in SUBSET Variables
    BY <1>1, CallFacts DEF TypeOK
  <1>3. /\ Len(calls') = n /\ n \in Nat
        /\ \A i \in 1 .. n :
             /\ calls'[i] \in Resolutions
             /\ calls'[i].file = calls[i].file
             /\ calls'[i].variables = calls[i].variables
             /\ calls'[i].imported \subseteq calls[i].imported \cup resolved[name]
             /\ calls'[i].at = IF i = n THEN calls[i].at + 1 ELSE calls[i].at
             /\ i # n => calls'[i] = calls[i]
    <2>1. GoneOn(calls', calls, resolved[name], TRUE)
      BY <1>1, <1>2, GoOnFacts, CallFacts
    <2> QED
      BY <2>1, CallFacts DEF GoneOn
  <1>4. AtRequires'
    <2>1. \A i \in 1 .. n - 1 : i \in 1 .. n /\ i # n
      BY <1>3
    <2> QED
      BY <1>1, <1>3, <2>1, ZenonT(30) DEF Definitions, AtRequires
  <1>5. \A v \in resolved[name] : Defines(result, Len(result), v)
    BY <1>1 DEF Definitions, SeenIsDefined
  <1>6. ASSUME NEW i \in 1 .. n
        PROVE  Seen(calls'[i], content[calls'[i].file], result)
    <2>1. /\ calls[i] \in Resolutions /\ calls'[i] \in Resolutions
          /\ content[calls[i].file] \in Seq(Items)
      BY <1>3, CallFacts DEF TypeOK
    <2>2. Seen(calls[i], content[calls[i].file], result)
      BY DEF Definitions, SeenIsDefined
    <2>3. i = n => content[calls[i].file][calls[i].at].kind = "require"
      BY <1>1, CalledAtRequire, CallFacts DEF Top
    <2>4. \A v \in calls'[i].imported : v \in calls[i].imported \/ Defines(result, Len(result), v)
      BY <1>3, <1>5
    <2>5. calls'[i].at = calls[i].at \/ (calls'[i].at = calls[i].at + 1 /\ i = n)
      BY <1>3
    <2>6. calls'[i].variables = calls[i].variables /\ calls'[i].file = calls[i].file
      BY <1>3
    <2> QED
      BY <2>1, <2>2, <2>3, <2>4, <2>5, <2>6, SeenLater
  <1> QED
    BY <1>1, <1>3, <1>4, <1>6 DEF Definitions, SeenIsDefined, DefinedBeforeUse

LEMMA ParseDefinitions ==
  ASSUME IInv, IInv', Definitions, NEW path, Parse(path)
  PROVE  Definitions'
  <1> DEFINE newPath == CorrectPath(path)
             n       == Len(calls)
             new     == [file |-> newPath, name |-> ModuleName(newPath), at |-> 1, variables |-> {},
                         imported |-> {}, initialPath |-> initialPath,
                         currentDirectory |-> currentDirectory, again |-> FALSE]
  <1>1. /\ Calls(path)
        /\ \E text \in Readable(newPath) :
             content' = [f \in DOMAIN content \cup {newPath} |->
                           IF f = newPath THEN text ELSE content[f]]
        /\ calls' = Append(calls, new)
        /\ UNCHANGED <<resolved, result>>
    BY DEF Parse, Accept
  <1>2. \A f \in DOMAIN content : content'[f] = content[f]
    BY <1>1, NotRead
  <1>3. new.at - 1 = 0 /\ new.variables = {} /\ new.imported = {}
    OBVIOUS
  <1> HIDE DEF newPath, new
  <1>4. /\ n \in Nat /\ Len(calls') = n + 1
        /\ \A i \in 1 .. n : /\ calls'[i] = calls[i] /\ calls[i].file \in DOMAIN content
                             /\ content'[calls[i].file] = content[calls[i].file]
        /\ calls'[n + 1] = new
    BY <1>1, <1>2, CallFacts
  <1>5. AtRequires'
    <2> SUFFICES ASSUME NEW i \in 1 .. n
                 PROVE  content'[calls'[i].file][calls'[i].at].kind = "require"
      BY <1>4 DEF AtRequires
    <2>1. CASE i = n
      <3>1. calls # << >> /\ Top = calls[n]
        BY <2>1, CallFacts DEF Top
      <3> QED
        BY <2>1, <3>1, <1>1, <1>4, CalledAtRequire
    <2>2. CASE i # n
      <3>1. i \in 1 .. n - 1
        BY <2>2, <1>4
      <3> QED
        BY <3>1, <1>4 DEF Definitions, AtRequires
    <2> QED
      BY <2>1, <2>2
  <1>6. Seen(new, content'[new.file], result)
    BY <1>3 DEF Seen, UsesDefined
  <1>7. \A i \in 1 .. n + 1 : i \in 1 .. n \/ i = n + 1
    BY <1>4
  <1>8. \A i \in 1 .. n + 1 : Seen(calls'[i], content'[calls'[i].file], result)
    BY <1>4, <1>6, <1>7 DEF Definitions, SeenIsDefined
  <1> QED
    BY <1>1, <1>4, <1>5, <1>8 DEF Definitions, SeenIsDefined, DefinedBeforeUse

LEMMA StatementDefinitions ==
  ASSUME IInv, IInv', Definitions, Statement
  PROVE  Definitions'
  <1> DEFINE n    == Len(calls)
             next == [calls[n] EXCEPT !.at = @ + 1, !.variables = @ \cup Item.defines]
  <1>1. /\ InFile /\ Item.kind = "statement" /\ Item.uses \subseteq Visible
        /\ calls' = [calls EXCEPT ![n] = next]
        /\ UNCHANGED <<content, resolved, result>>
    BY DEF Statement, moduleState
  <1>2. /\ n \in 1 .. n /\ n \in Nat /\ calls[n] \in Resolutions /\ calls[n] = Top
        /\ Text \in Seq(Items) /\ Top.at <= Len(Text) /\ Text = content[Top.file]
    BY <1>1, CallFacts DEF Top, InFile, Text
  <1>3. /\ next.at = Top.at + 1 /\ next.variables = Top.variables \cup Item.defines
        /\ next.imported = Top.imported /\ next.file = Top.file
    BY <1>2 DEF Resolutions
  <1> HIDE DEF next
  <1>4. /\ Len(calls') = n
        /\ \A i \in 1 .. n : calls'[i] = IF i = n THEN next ELSE calls[i]
    BY <1>1, <1>2, CallFacts
  <1>5. Seen(Top, Text, result)
    BY <1>2 DEF Definitions, SeenIsDefined
  <1>6. PICK a \in Nat \ {0} : a = Top.at
    BY <1>2 DEF Resolutions
  <1>7. next.at - 1 = a /\ a - 1 \in Nat /\ a - 1 <= a /\ Item = Text[a] /\ a \in 1 .. a
    BY <1>3, <1>6 DEF Item
  <1>8. \A v \in Top.variables : Defines(Text, a, v)
    <2>1. \A v \in Top.variables : Defines(Text, a - 1, v)
      BY <1>5, <1>6 DEF Seen
    <2> QED
      BY <2>1, <1>7, DefinedLater
  <1>9. \A v \in Item.defines : Defines(Text, a, v)
    BY <1>1, <1>7 DEF Defines
  <1>10. UsesDefined(Text, a, result)
    <2> SUFFICES ASSUME NEW k \in 1 .. a, Text[k].kind = "statement", NEW v \in Text[k].uses
                 PROVE  Defines(Text, k, v) \/ Defines(result, Len(result), v)
      BY DEF UsesDefined
    <2>1. CASE k = a
      BY <2>1, <1>1, <1>5, <1>7, <1>8, <1>9 DEF Visible, Seen
    <2>2. CASE k # a
      <3>1. k \in 1 .. a - 1
        BY <2>2
      <3>2. UsesDefined(Text, a - 1, result)
        BY <1>5, <1>6 DEF Seen
      <3> QED
        BY <3>1, <3>2 DEF UsesDefined
    <2> QED
      BY <2>1, <2>2
  <1>11. Seen(next, Text, result)
    BY <1>3, <1>5, <1>7, <1>8, <1>9, <1>10 DEF Seen
  <1>12. AtRequires'
    <2>1. \A i \in 1 .. n - 1 : i \in 1 .. n /\ i # n
      BY <1>2
    <2> QED
      BY <1>1, <1>4, <2>1 DEF Definitions, AtRequires
  <1>13. \A i \in 1 .. n : Seen(calls'[i], content[calls'[i].file], result)
    BY <1>2, <1>3, <1>4, <1>11 DEF Definitions, SeenIsDefined
  <1> QED
    BY <1>1, <1>4, <1>12, <1>13 DEF Definitions, SeenIsDefined, DefinedBeforeUse

(* The statements of the file are behind those of the files it requires,   *)
(* and what a require of the file made visible is among them.              *)
LEMMA ReturnDefinitions ==
  ASSUME IInv, IInv', Definitions, Return
  PROVE  Definitions'
  <1> DEFINE n     == Len(calls)
             front == Front(calls)
  <1>1. /\ calls # << >> /\ Top.at > Len(Text)
        /\ resolved' = Inserted(Top.name, Top.variables)
        /\ calls' = GoOn(front, Top.variables, FALSE)
        /\ result' = Nub(result \o Text)
        /\ UNCHANGED content
    BY DEF Return
  <1>2. /\ n \in Nat \ {0} /\ Top = calls[n] /\ Top \in Resolutions /\ n \in 1 .. n
        /\ Top.variables \in SUBSET Variables
        /\ Text \in Seq(Items) /\ result \in Seq(Items) /\ Text = content[Top.file]
        /\ Top.at <= Len(Text) + 1
    <2>1. n \in Nat \ {0} /\ Top = calls[n] /\ n \in 1 .. n
      BY <1>1, CallFacts DEF Top
    <2> QED
      BY <2>1, <1>1, CallFacts DEF Resolutions, TypeOK, Text
  <1>3. front \in Seq(Resolutions) /\ Len(front) = n - 1 /\ \A i \in 1 .. n - 1 : front[i] = calls[i]
    <2>1. calls \in Seq(Resolutions)
      BY CallFacts
    <2>2. PICK m \in Nat \ {0} : m = Len(calls)
      BY <1>2
    <2> QED
      BY <2>1, <2>2 DEF Front
  <1> HIDE DEF front
  <1>4. /\ Len(calls') = n - 1
        /\ \A i \in 1 .. n - 1 :
             /\ calls'[i] \in Resolutions
             /\ calls'[i].file = calls[i].file
             /\ calls'[i].variables = calls[i].variables
             /\ calls'[i].imported \subseteq calls[i].imported \cup Top.variables
             /\ calls'[i].at = IF i = n - 1 THEN calls[i].at + 1 ELSE calls[i].at
             /\ i # n - 1 => calls'[i] = calls[i]
    <2>1. GoneOn(calls', front, Top.variables, FALSE)
      BY <1>1, <1>2, <1>3, GoOnFacts
    <2> QED
      BY <2>1, <1>3, SMTT(30) DEF GoneOn
  <1>5. Seen(Top, Text, result)
    BY <1>2 DEF Definitions, SeenIsDefined
  <1>6. Top.at - 1 = Len(Text)
    <2>1. Top.at \in Nat
      BY <1>2 DEF Resolutions
    <2>2. Len(Text) \in Nat
      BY <1>2
    <2> QED
      BY <2>1, <2>2, <1>1, <1>2
  <1>7. PICK s \in Seq(Items) : s = result \o Text
    <2>1. result \in Seq(Items) /\ Text \in Seq(Items)
      BY <1>2
    <2>2. result \o Text \in Seq(Items)
      BY <2>1
    <2> QED
      BY <2>2
  <1>8. \A v : Defines(result, Len(result), v) => Defines(result', Len(result'), v)
    BY <1>1, <1>2, <1>7, PutTogether, NubKeepsDefinitions
  <1>9. \A v \in Top.variables : Defines(result', Len(result'), v)
    <2>1. \A v \in Top.variables : Defines(Text, Len(Text), v)
      BY <1>5, <1>6 DEF Seen
    <2> QED
      BY <2>1, <1>1, <1>2, <1>7, PutTogether, NubKeepsDefinitions
  <1>10. DefinedBeforeUse'
    <2>1. WellDefined(result) /\ UsesDefined(Text, Len(Text), result)
      BY <1>5, <1>6 DEF Seen, Definitions, DefinedBeforeUse, WellDefined, Defines
    <2>2. WellDefined(result')
      BY <2>1, <1>1, <1>2, <1>7, PutTogether, NubKeepsDefinitions
    <2> QED
      BY <2>2 DEF DefinedBeforeUse, WellDefined, Defines
  <1>11. ASSUME NEW name \in DOMAIN resolved', NEW v \in resolved'[name]
         PROVE  Defines(result', Len(result'), v)
    <2>1. v \in Top.variables \/ (name \in DOMAIN resolved /\ v \in resolved[name])
      BY <1>1, <1>11 DEF Inserted
    <2> QED
      BY <2>1, <1>8, <1>9 DEF Definitions, SeenIsDefined
  <1>12. AtRequires'
    <2> SUFFICES ASSUME NEW i \in 1 .. (n - 1) - 1
                 PROVE  content[calls'[i].file][calls'[i].at].kind = "require"
      BY <1>1, <1>4 DEF AtRequires
    <2>1. i \in 1 .. n - 1 /\ i # n - 1
      BY <1>2
    <2> QED
      BY <2>1, <1>4 DEF Definitions, AtRequires
  <1>13. ASSUME NEW i \in 1 .. n - 1
         PROVE  Seen(calls'[i], content[calls'[i].file], result')
    <2>1. i \in 1 .. n
      BY <1>2
    <2>2. /\ calls[i] \in Resolutions /\ calls'[i] \in Resolutions
          /\ content[calls[i].file] \in Seq(Items)
      BY <2>1, <1>4, CallFacts DEF TypeOK
    <2>3. Seen(calls[i], content[calls[i].file], result)
      BY <2>1 DEF Definitions, SeenIsDefined
    <2>4. content[calls[i].file][calls[i].at].kind = "require"
      BY DEF Definitions, AtRequires
    <2>5. \A v \in calls'[i].imported : v \in calls[i].imported \/ Defines(result', Len(result'), v)
      BY <1>4, <1>9
    <2>6. calls'[i].at = calls[i].at \/ calls'[i].at = calls[i].at + 1
      BY <1>4
    <2>7. calls'[i].variables = calls[i].variables /\ calls'[i].file = calls[i].file
      BY <1>4
    <2> QED
      BY <2>2, <2>3, <2>4, <2>5, <2>6, <2>7, <1>8, SeenLater
  <1> QED
    BY <1>1, <1>4, <1>10, <1>11, <1>12, <1>13 DEF Definitions, SeenIsDefined

LEMMA DefinitionsInvariance == Spec => []Definitions
  <1>1. ASSUME IInv, IInv', Definitions, [Next]_vars
        PROVE  Definitions'
    <2>1. ASSUME UNCHANGED <<content, calls, resolved, result>>
          PROVE  Definitions'
      BY <1>1, <2>1 DEF Definitions, AtRequires, SeenIsDefined, DefinedBeforeUse
    <2>2. ASSUME NEW path \in AnyPath, Resolve(path)
          PROVE  Definitions'
      <3>1. CASE RequireAgain(path)
        BY <1>1, <3>1, RequireAgainDefinitions
      <3>2. CASE Parse(path)
        BY <1>1, <3>2, ParseDefinitions
      <3> QED
        BY <2>1, <2>2, <3>1, <3>2
        DEF Resolve, EnvironmentVariableNotFound, ModuleNotFound, CyclicModuleDependency,
            ParseError, Throw
    <2>3. CASE Statement
      BY <1>1, <2>3, StatementDefinitions
    <2>4. CASE VariableNotFound
      BY <2>1, <2>4 DEF VariableNotFound, Throw
    <2>5. CASE Return
      BY <1>1, <2>5, ReturnDefinitions
    <2>6. CASE UNCHANGED vars
      BY <2>1, <2>6 DEF vars
    <2> QED
      BY <1>1, <2>2, <2>3, <2>4, <2>5, <2>6 DEF Next, AnyPath
  <1> QED
    BY <1>1, InitDefinitions, Invariance, PTL DEF Spec
-----------------------------------------------------------------------------
(* resolve (Module/Conversion.hs) parses no path twice, however many files *)
(* require it, from whatever directories and with whatever cycles: what    *)
(* importStack refuses, and what moduleState has, covers all that was      *)
(* parsed.                                                                 *)
THEOREM EveryPathParsedOnce == Spec => []ParsedOnce
  <1>1. IInv => ParsedOnce
    BY DEF IInv
  <1> QED
    BY <1>1, Invariance, PTL

(* When resolve returns, the directory it brings back is that of the file  *)
(* which required the module, unless that file has required a module that  *)
(* was resolved before: the branch that returns early leaves moduleState   *)
(* as it is.                                                               *)
THEOREM PathsOfAFileAreItsOwn == Spec => []OwnDirectory
  <1>1. IInv => OwnDirectory
    BY DEF IInv
  <1> QED
    BY <1>1, Invariance, PTL

(* The texts of all files, put together when each file is done and without *)
(* equal statements, make a program in which every variable is defined     *)
(* before it is used: what a module imports was appended before it, and    *)
(* nub drops a statement only behind an equal one.                         *)
THEOREM VariablesAreDefinedBeforeUse == Spec => []DefinedBeforeUse
  <1>1. Definitions => DefinedBeforeUse
    BY DEF Definitions
  <1> QED
    BY <1>1, DefinitionsInvariance, PTL
=============================================================================
