---------------------------- MODULE Machine_proofs ----------------------------
(***************************************************************************)
(* The file that main reads back is the one that the compiler wrote, its   *)
(* natives come from the libraries that were asked for, and whatever the   *)
(* program over it does, every object keeps memory of its own, which is    *)
(* freed once.  Values keep their types until a program does one of the    *)
(* three things that leave them (strayed).                                 *)
(***************************************************************************)
EXTENDS Machine, SequenceTheorems, WellFoundedInduction, TLAPS

(* Quotients and remainders.                                               *)
LEMMA DivMod ==
  ASSUME NEW n \in Int, NEW d \in Int, d > 0
  PROVE  /\ n = d * (n \div d) + (n % d)
         /\ n \div d \in Int
         /\ n % d \in 0 .. d - 1
  OBVIOUS

LEMMA DivModUnique ==
  ASSUME NEW d \in Int, d > 0, NEW q \in Int, NEW r \in 0 .. d - 1
  PROVE  (d * q + r) \div d = q /\ (d * q + r) % d = r
  <1> DEFINE n == d * q + r
             a == n \div d
             b == n % d
  <1>1. n \in Int
    OBVIOUS
  <1>2. a \in Int /\ b \in 0 .. d - 1 /\ d * q + r = d * a + b
    BY <1>1, DivMod
  <1> HIDE DEF a, b
  <1>3. d * (q - a) = b - r
    BY <1>2
  <1>4. q = a
    <2>1. CASE q - a >= 1
      <3>1. d * (q - a) >= d
        BY <2>1, <1>2
      <3> QED
        BY <3>1, <1>3, <1>2
    <2>2. CASE q - a <= -1
      <3>1. d * (q - a) <= -d
        BY <2>2, <1>2
      <3> QED
        BY <3>1, <1>3, <1>2
    <2> QED
      BY <2>1, <2>2, <1>2
  <1>5. b = r
    <2>1. d * q + r = d * q + b
      BY <1>2, <1>4
    <2> QED
      BY <2>1, <1>2
  <1> QED
    BY <1>4, <1>5 DEF a, b

(* n and m leave the same remainder when they differ by a multiple of d.   *)
LEMMA SameRemainder ==
  ASSUME NEW d \in Int, d > 0, NEW n \in Int, NEW k \in Int
  PROVE  (n + d * k) % d = n % d
  <1> DEFINE q == n \div d
             r == n % d
  <1>1. q \in Int /\ r \in 0 .. d - 1 /\ n = d * q + r
    BY DivMod
  <1> HIDE DEF q, r
  <1>2. n + d * k = d * (q + k) + r
    BY <1>1
  <1>3. (d * (q + k) + r) % d = r
    BY <1>1, DivModUnique
  <1> QED
    BY <1>2, <1>3 DEF r

(* The widths of value.h.                                                  *)
LEMMA Widths ==
  /\ HALF \in Int /\ HIGH \in Int /\ INT \in Int
  /\ HIGH > 0 /\ HALF = 2 * HIGH
  /\ HIGH * HALF \in Int /\ HIGH * HALF > 0 /\ INT = 2 * (HIGH * HALF)
  /\ INT >= HALF
  <1>1. HALF \in Int /\ HALF > 0 /\ HIGH \in Int /\ HALF = 2 * HIGH
    BY WidthAssumption DEF HIGH
  <1>2. HIGH > 0
    BY <1>1
  <1>3. HIGH * HALF \in Int /\ HIGH * HALF > 0
    BY <1>1, <1>2
  <1>4. INT = 2 * (HIGH * HALF)
    <2>1. HALF * HALF = (2 * HIGH) * HALF
      BY <1>1
    <2>2. (2 * HIGH) * HALF = 2 * (HIGH * HALF)
      BY <1>1
    <2> QED
      BY <2>1, <2>2 DEF INT
  <1>5. HALF * HALF >= HALF
    BY <1>1
  <1> QED
    BY <1>1, <1>2, <1>3, <1>4, <1>5 DEF INT

(* 32 bits of a number are the number, if it has no more.                  *)
LEMMA UnsignedFacts ==
  ASSUME NEW n \in Int
  PROVE  /\ Unsigned(n) \in 0 .. INT - 1
         /\ n \in 0 .. INT - 1 => Unsigned(n) = n
         /\ (Unsigned(n) - n) % INT = 0
  <1>1. Unsigned(n) \in 0 .. INT - 1
    BY Widths, DivMod DEF Unsigned
  <1>2. ASSUME n \in 0 .. INT - 1 PROVE Unsigned(n) = n
    BY <1>2, Widths, DivModUnique DEF Unsigned
  <1>3. (Unsigned(n) - n) % INT = 0
    <2> DEFINE q == n \div INT
    <2>1. q \in Int /\ n = INT * q + Unsigned(n)
      BY Widths, DivMod DEF Unsigned
    <2> HIDE DEF q
    <2>2. Unsigned(n) - n = INT * (-q) + 0
      BY <2>1, <1>1, Widths
    <2> QED
      BY <2>1, <2>2, Widths, DivModUnique
  <1> QED
    BY <1>1, <1>2, <1>3

(* A number of 32 bits survives encodeInteger and fread.                   *)
LEMMA SignedFacts ==
  ASSUME NEW n \in -(HIGH * HALF) .. HIGH * HALF - 1
  PROVE  Signed(Unsigned(n)) = n
  <1>1. CASE n >= 0
    <2>1. Unsigned(n) = n
      BY <1>1, Widths, UnsignedFacts
    <2> QED
      BY <1>1, <2>1, Widths DEF Signed
  <1>2. CASE n < 0
    <2>1. n + INT \in 0 .. INT - 1 /\ n + INT >= HIGH * HALF
      BY <1>2, Widths
    <2>2. Unsigned(n) = Unsigned(n + INT)
      <3>1. (n + INT * 1) % INT = n % INT
        BY Widths, SameRemainder
      <3>2. INT * 1 = INT
        BY Widths
      <3> QED
        BY <3>1, <3>2 DEF Unsigned
    <2>3. Unsigned(n + INT) = n + INT
      BY <2>1, Widths, UnsignedFacts
    <2> QED
      BY <2>1, <2>2, <2>3, Widths DEF Signed
  <1> QED
    BY <1>1, <1>2, Widths
-----------------------------------------------------------------------------
(* Induction over natural numbers, for a set instead of an operator.       *)
LEMMA Least ==
  ASSUME NEW T \in SUBSET Nat, T # {}
  PROVE  \E n \in T : \A m \in T : n <= m
  <1>1. IsWellFoundedOn(OpToRel(<, Nat), Nat)
    BY NatLessThanWellFounded
  <1>2. PICK n \in T : \A m \in T : ~ (<<m, n>> \in OpToRel(<, Nat))
    BY <1>1, WFMin
  <1>3. \A m \in T : m < n => <<m, n>> \in OpToRel(<, Nat)
    BY DEF OpToRel
  <1>4. \A m \in T : ~ (m < n)
    BY <1>2, <1>3, Zenon
  <1> QED
    BY <1>4

LEMMA SetInduction ==
  ASSUME NEW T \in SUBSET Nat, 0 \in T, \A n \in T : n + 1 \in T
  PROVE  T = Nat
  <1> SUFFICES ASSUME Nat \ T # {} PROVE FALSE
    OBVIOUS
  <1>1. PICK n \in Nat \ T : \A m \in Nat \ T : n <= m
    <2>1. Nat \ T \in SUBSET Nat
      OBVIOUS
    <2> QED
      BY <2>1, Least
  <1>2. n - 1 \in Nat /\ n - 1 \notin Nat \ T
    BY <1>1
  <1> QED
    BY <1>1, <1>2

(* A function on 1 .. n is a sequence of length n.                         *)
LEMMA FunctionIsSeq ==
  ASSUME NEW S, NEW n \in Nat, NEW f \in [1 .. n -> S]
  PROVE  f \in Seq(S) /\ Len(f) = n
  OBVIOUS

(* FlattenSeq adds one sequence after the other.                           *)
Flattens(s, F) ==
  /\ F[0] = <<>>
  /\ \A n \in 0 .. Len(s) - 1 : F[n + 1] = F[n] \o s[n + 1]
  /\ FlattenSeq(s) = F[Len(s)]

LEMMA FlattenDefined ==
  ASSUME NEW S, NEW s \in Seq(Seq(S))
  PROVE  \E F \in [0 .. Len(s) -> Seq(S)] : Flattens(s, F)
  <1>1. CASE Len(s) = 0
    <2>1. FlattenSeq(s) = <<>>
      BY <1>1 DEF FlattenSeq
    <2>2. [n \in 0 .. Len(s) |-> <<>>] \in [0 .. Len(s) -> Seq(S)]
      BY EmptySeq
    <2>3. Flattens(s, [n \in 0 .. Len(s) |-> <<>>])
      BY <1>1, <2>1 DEF Flattens
    <2> QED
      BY <2>2, <2>3
  <1>2. CASE Len(s) # 0
    <2> DEFINE IsFlat(f, n) == f = [i \in 1 .. n |-> IF i = 1 THEN s[i] ELSE f[i - 1] \o s[i]]
               T == {n \in Nat : \E f : IsFlat(f, n)}
    <2>1. 0 \in T
      <3>1. IsFlat([i \in 1 .. 0 |-> i], 0)
        OBVIOUS
      <3> QED
        BY <3>1
    <2>2. ASSUME NEW n \in T PROVE n + 1 \in T
      <3>1. n \in Nat
        OBVIOUS
      <3>2. PICK f : IsFlat(f, n)
        BY <2>2
      <3> DEFINE g == [i \in 1 .. n + 1 |-> IF i = n + 1 THEN IF i = 1 THEN s[i] ELSE f[i - 1] \o s[i]
                                            ELSE f[i]]
      <3>3. \A i \in 1 .. n : f[i] = IF i = 1 THEN s[i] ELSE f[i - 1] \o s[i]
        BY <3>2
      <3>4. \A i \in 1 .. n + 1 : g[i] = IF i = 1 THEN s[i] ELSE g[i - 1] \o s[i]
        <4> SUFFICES ASSUME NEW i \in 1 .. n + 1
                     PROVE  g[i] = IF i = 1 THEN s[i] ELSE g[i - 1] \o s[i]
          OBVIOUS
        <4>1. i # 1 => i - 1 \in 1 .. n + 1 /\ i - 1 # n + 1 /\ g[i - 1] = f[i - 1]
          BY <3>1
        <4>2. CASE i = n + 1
          BY <4>1, <4>2
        <4>3. CASE i # n + 1
          <5>1. i \in 1 .. n /\ g[i] = f[i]
            BY <3>1, <4>3
          <5> QED
            BY <3>3, <4>1, <5>1
        <4> QED
          BY <4>2, <4>3
      <3>5. IsFlat(g, n + 1)
        <4> HIDE DEF g
        <4>1. g = [i \in 1 .. n + 1 |-> g[i]]
          BY DEF g
        <4>2. [i \in 1 .. n + 1 |-> g[i]]
              = [i \in 1 .. n + 1 |-> IF i = 1 THEN s[i] ELSE g[i - 1] \o s[i]]
          BY <3>4
        <4> QED
          BY <4>1, <4>2
      <3> HIDE DEF g, IsFlat
      <3> QED
        BY <3>1, <3>5
    <2>3. Nat = T
      <3>1. T \in SUBSET Nat
        OBVIOUS
      <3> HIDE DEF T
      <3> QED
        BY <2>1, <2>2, <3>1, SetInduction
    <2> DEFINE flat == CHOOSE f : IsFlat(f, Len(s))
    <2>4. Len(s) \in T
      BY <2>3, LenProperties
    <2>5. IsFlat(flat, Len(s))
      <3>1. \E f : IsFlat(f, Len(s))
        BY <2>4
      <3> HIDE DEF IsFlat
      <3> QED
        BY <3>1
    <2>6. FlattenSeq(s) = flat[Len(s)]
      BY <1>2 DEF FlattenSeq
    <2> HIDE DEF flat
    <2> DEFINE F == [n \in 0 .. Len(s) |-> IF n = 0 THEN <<>> ELSE flat[n]]
    <2>7. Len(s) \in Nat
      BY LenProperties
    <2>8. \A i \in 1 .. Len(s) : flat[i] = IF i = 1 THEN s[i] ELSE flat[i - 1] \o s[i]
      BY <2>5
    <2>9. \A i \in 1 .. Len(s) : s[i] \in Seq(S)
      BY ElementOfSeq
    <2>10. \A n \in 0 .. Len(s) - 1 : F[n + 1] = F[n] \o s[n + 1]
      <3> SUFFICES ASSUME NEW n \in 0 .. Len(s) - 1 PROVE F[n + 1] = F[n] \o s[n + 1]
        OBVIOUS
      <3>1. n + 1 \in 1 .. Len(s) /\ n \in 0 .. Len(s) /\ F[n + 1] = flat[n + 1]
        BY <2>7
      <3>2. CASE n = 0
        <4>1. F[n] = <<>> /\ flat[n + 1] = s[n + 1]
          BY <3>1, <3>2, <2>8
        <4>2. s[n + 1] \in Seq(S)
          BY <3>1, <2>9
        <4>3. <<>> \o s[n + 1] = s[n + 1]
          BY <4>2, ConcatEmptySeq
        <4> HIDE DEF F
        <4> QED
          BY <3>1, <4>1, <4>3
      <3>3. CASE n # 0
        <4>1. F[n] = flat[n]
          BY <3>1, <3>3
        <4>2. n + 1 # 1 /\ (n + 1) - 1 = n
          BY <3>1, <3>3, <2>7
        <4> HIDE DEF F
        <4>3. flat[n + 1] = flat[(n + 1) - 1] \o s[n + 1]
          BY <3>1, <2>8, <4>2
        <4> QED
          BY <3>1, <4>1, <4>2, <4>3
      <3> QED
        BY <3>2, <3>3
    <2>11. \A n \in 0 .. Len(s) : F[n] \in Seq(S)
      <3> DEFINE U == {n \in Nat : n <= Len(s) => F[n] \in Seq(S)}
      <3>1. 0 \in U
        BY <2>7
      <3>2. ASSUME NEW n \in U PROVE n + 1 \in U
        <4>1. ASSUME n + 1 <= Len(s) PROVE F[n + 1] \in Seq(S)
          <5>1. n \in 0 .. Len(s) - 1 /\ F[n] \in Seq(S) /\ n + 1 \in 1 .. Len(s)
            BY <3>2, <4>1, <2>7
          <5> HIDE DEF F
          <5>2. PICK x, y : x = F[n] /\ y = s[n + 1]
            OBVIOUS
          <5>3. x \in Seq(S) /\ y \in Seq(S) /\ F[n + 1] = x \o y
            BY <5>1, <5>2, <2>9, <2>10
          <5>4. x \o y \in Seq(S)
            BY <5>3, ConcatProperties
          <5> QED
            BY <5>3, <5>4
        <4> QED
          BY <3>2, <4>1
      <3>3. U = Nat
        <4>1. U \in SUBSET Nat
          OBVIOUS
        <4> HIDE DEF U
        <4> QED
          BY <3>1, <3>2, <4>1, SetInduction
      <3> HIDE DEF F
      <3> QED
        BY <3>3, <2>7
    <2>12. F \in [0 .. Len(s) -> Seq(S)]
      BY <2>11
    <2>13. F[0] = <<>> /\ F[Len(s)] = flat[Len(s)]
      BY <2>7, <1>2
    <2> HIDE DEF F
    <2> QED
      BY <2>6, <2>10, <2>12, <2>13 DEF Flattens
  <1> QED
    BY <1>1, <1>2

(* What FlattenSeq gives begins with the first sequence.                   *)
LEMMA FlattenFirst ==
  ASSUME NEW S, NEW s \in Seq(Seq(S)), Len(s) > 0
  PROVE  /\ FlattenSeq(s) \in Seq(S)
         /\ FlattenSeq(Tail(s)) \in Seq(S)
         /\ FlattenSeq(s) = s[1] \o FlattenSeq(Tail(s))
  <1> DEFINE t == Tail(s)
  <1>1. Len(s) \in Nat /\ t \in Seq(Seq(S)) /\ Len(t) = Len(s) - 1
        /\ \A i \in 1 .. Len(t) : t[i] = s[i + 1]
    BY HeadTailProperties, LenProperties
  <1>2. s[1] \in Seq(S) /\ \A i \in 1 .. Len(t) : t[i] \in Seq(S)
    BY <1>1, ElementOfSeq
  <1> HIDE DEF t
  <1>3. PICK F \in [0 .. Len(s) -> Seq(S)] : Flattens(s, F)
    BY FlattenDefined
  <1>4. PICK G \in [0 .. Len(t) -> Seq(S)] : Flattens(t, G)
    BY <1>1, FlattenDefined
  <1> DEFINE Behind(n) == F[n + 1] = s[1] \o G[n]
  <1>5. Behind(0)
    <2>1. F[0] = <<>> /\ G[0] = <<>> /\ F[1] = F[0] \o s[1]
      <3>1. 0 \in 0 .. Len(s) - 1 /\ 0 + 1 = 1
        BY <1>1
      <3> QED
        BY <1>3, <1>4, <3>1 DEF Flattens
    <2>2. <<>> \o s[1] = s[1] /\ s[1] \o <<>> = s[1]
      BY <1>2, ConcatEmptySeq
    <2>3. F[1] = s[1]
      BY <2>1, <2>2
    <2>4. s[1] \o G[0] = s[1]
      BY <2>1, <2>2
    <2> QED
      BY <2>3, <2>4
  <1>6. ASSUME NEW n \in Nat, n < Len(t), Behind(n) PROVE Behind(n + 1)
    <2>1. n \in 0 .. Len(t) - 1 /\ n \in 0 .. Len(t) /\ n + 1 \in 0 .. Len(s) - 1 /\ n + 1 \in 1 .. Len(t)
      BY <1>1, <1>6
    <2>2. F[n + 1] = s[1] \o G[n]
      BY <1>6
    <2>3. F[(n + 1) + 1] = F[n + 1] \o s[(n + 1) + 1] /\ G[n + 1] = G[n] \o t[n + 1]
      BY <1>3, <1>4, <2>1 DEF Flattens
    <2>4. s[(n + 1) + 1] = t[n + 1] /\ t[n + 1] \in Seq(S) /\ G[n] \in Seq(S)
      BY <1>1, <1>2, <2>1
    <2>5. (s[1] \o G[n]) \o t[n + 1] = s[1] \o (G[n] \o t[n + 1])
      <3>1. s[1] \in Seq(S)
        BY <1>2
      <3>2. G[n] \in Seq(S) /\ t[n + 1] \in Seq(S)
        BY <2>4
      <3>3. \A x, y, z \in Seq(S) : (x \o y) \o z = x \o (y \o z)
        BY ConcatAssociative, SMTT(120)
      <3> QED
        BY <3>1, <3>2, <3>3, Zenon
    <2> QED
      BY <2>2, <2>3, <2>4, <2>5
  <1> HIDE DEF Behind
  <1>7. \A n \in Nat : n <= Len(t) => Behind(n)
    <2> DEFINE T == {n \in Nat : n <= Len(t) => Behind(n)}
    <2>1. T \in SUBSET Nat /\ 0 \in T /\ \A n \in T : n + 1 \in T
      <3>1. 0 \in T
        BY <1>5
      <3>2. ASSUME NEW n \in T PROVE n + 1 \in T
        <4>1. n \in Nat /\ n + 1 \in Nat /\ (n <= Len(t) => Behind(n))
          <5>1. n \in Nat /\ (n <= Len(t) => Behind(n))
            BY Zenon
          <5> QED
            BY <5>1
        <4>2. n + 1 <= Len(t) => n < Len(t) /\ n <= Len(t)
          BY <1>1, <4>1, SMTT(30)
        <4>3. n + 1 <= Len(t) => Behind(n + 1)
          BY <1>6, <4>1, <4>2, Zenon
        <4> QED
          BY <4>1, <4>3
      <3> QED
        BY <3>1, <3>2
    <2>2. T = Nat
      <3> HIDE DEF T
      <3> QED
        BY <2>1, SetInduction
    <2> QED
      BY <2>2
  <1>8. F[Len(t) + 1] = s[1] \o G[Len(t)]
    <2>1. Behind(Len(t))
      BY <1>1, <1>7
    <2> QED
      BY <2>1 DEF Behind
  <1>9. Len(t) + 1 = Len(s) /\ Len(s) \in 0 .. Len(s) /\ Len(t) \in 0 .. Len(t)
    BY <1>1
  <1>10. FlattenSeq(s) = F[Len(s)] /\ FlattenSeq(t) = G[Len(t)]
    BY <1>3, <1>4 DEF Flattens
  <1>11. F[Len(s)] \in Seq(S) /\ G[Len(t)] \in Seq(S)
    BY <1>9
  <1> QED
    BY <1>8, <1>9, <1>10, <1>11 DEF t

(* Rows of the same width lie one after the other.                         *)
LEMMA FlattenRows ==
  ASSUME NEW S, NEW w \in Nat, NEW s \in Seq(Seq(S)), \A k \in 1 .. Len(s) : Len(s[k]) = w
  PROVE  /\ FlattenSeq(s) \in Seq(S)
         /\ Len(FlattenSeq(s)) = w * Len(s)
         /\ \A k \in 1 .. Len(s), i \in 1 .. w : FlattenSeq(s)[w * (k - 1) + i] = s[k][i]
  <1>1. Len(s) \in Nat /\ \A k \in 1 .. Len(s) : s[k] \in Seq(S)
    BY LenProperties, ElementOfSeq
  <1>2. PICK F \in [0 .. Len(s) -> Seq(S)] : Flattens(s, F)
    BY FlattenDefined
  <1> DEFINE Rows(n) == /\ Len(F[n]) = w * n
                        /\ \A k \in 1 .. n, i \in 1 .. w : F[n][w * (k - 1) + i] = s[k][i]
  <1>3. Rows(0)
    <2>1. F[0] = <<>>
      BY <1>2 DEF Flattens
    <2> QED
      BY <2>1
  <1>4. ASSUME NEW n \in Nat, n < Len(s), Rows(n) PROVE Rows(n + 1)
    <2>1. n \in 0 .. Len(s) - 1 /\ n \in 0 .. Len(s) /\ n + 1 \in 1 .. Len(s)
      BY <1>1, <1>4
    <2>2. Rows(n)
      BY <1>4
    <2>3. F[n] \in Seq(S) /\ s[n + 1] \in Seq(S) /\ Len(s[n + 1]) = w
      BY <1>1, <2>1
    <2>4. F[n + 1] = F[n] \o s[n + 1]
      BY <1>2, <2>1 DEF Flattens
    <2>5. Len(F[n + 1]) = w * n + w /\ Len(F[n]) = w * n
      <3>1. Len(F[n] \o s[n + 1]) = Len(F[n]) + Len(s[n + 1])
        BY <2>3, ConcatProperties
      <3>2. Len(F[n]) = w * n
        BY <2>2
      <3> HIDE DEF Rows
      <3> QED
        BY <2>3, <2>4, <3>1, <3>2
    <2>6. w * (n + 1) = w * n + w
      BY <2>1
    <2>7. ASSUME NEW k \in 1 .. n + 1, NEW i \in 1 .. w PROVE F[n + 1][w * (k - 1) + i] = s[k][i]
      <3>1. w * (k - 1) \in Nat
        BY <2>1
      <3>2. CASE k = n + 1
        <4>1. w * (k - 1) = w * n
          BY <2>1, <3>2
        <4>2. F[n + 1][w * n + i] = s[n + 1][i]
          BY <2>2, <2>3, <2>4, <2>1, ConcatProperties, SMTT(30)
        <4> QED
          BY <3>2, <4>1, <4>2
      <3>3. CASE k \in 1 .. n
        <4>1. w * k <= w * n /\ w * k = w * (k - 1) + w
          BY <2>1, <3>3
        <4>2. w * (k - 1) + i \in 1 .. Len(F[n])
          <5> HIDE DEF Rows
          <5> DEFINE x == w * (k - 1)
                     y == w * k
                     z == w * n
          <5>1. x \in Nat /\ y \in Int /\ z \in Int /\ y <= z /\ y = x + w /\ Len(F[n]) = z
            BY <2>1, <2>5, <3>1, <3>3, <4>1
          <5> HIDE DEF x, y, z
          <5>2. x + i \in 1 .. Len(F[n])
            BY <5>1
          <5> QED
            BY <5>2 DEF x
        <4>3. F[n + 1][w * (k - 1) + i] = F[n][w * (k - 1) + i]
          BY <2>3, <2>4, <4>2, ConcatProperties
        <4> QED
          BY <2>2, <3>3, <4>3
      <3> QED
        BY <2>1, <3>2, <3>3
    <2> QED
      BY <2>5, <2>6, <2>7
  <1> HIDE DEF Rows
  <1>5. \A n \in Nat : n <= Len(s) => Rows(n)
    <2> DEFINE T == {n \in Nat : n <= Len(s) => Rows(n)}
    <2>1. T \in SUBSET Nat /\ 0 \in T /\ \A n \in T : n + 1 \in T
      BY <1>1, <1>3, <1>4
    <2>2. T = Nat
      <3> HIDE DEF T
      <3> QED
        BY <2>1, SetInduction
    <2> QED
      BY <2>2
  <1>6. Rows(Len(s)) /\ F[Len(s)] \in Seq(S)
    BY <1>1, <1>5
  <1>7. FlattenSeq(s) = F[Len(s)]
    BY <1>2 DEF Flattens
  <1> QED
    BY <1>6, <1>7 DEF Rows

(* A flattened sequence has no element twice if the parts have not.        *)
LEMMA FlattenInjective ==
  ASSUME NEW S, NEW s \in Seq(Seq(S)),
         \A k \in 1 .. Len(s) : IsInjective(s[k]),
         \A k, l \in 1 .. Len(s) : \A i \in 1 .. Len(s[k]), j \in 1 .. Len(s[l]) :
           s[k][i] = s[l][j] => k = l
  PROVE  /\ FlattenSeq(s) \in Seq(S)
         /\ IsInjective(FlattenSeq(s))
         /\ \A i \in 1 .. Len(FlattenSeq(s)) : \E k \in 1 .. Len(s) : \E j \in 1 .. Len(s[k]) :
              FlattenSeq(s)[i] = s[k][j]
  <1>1. Len(s) \in Nat /\ \A k \in 1 .. Len(s) : s[k] \in Seq(S)
    BY LenProperties, ElementOfSeq
  <1>2. PICK F \in [0 .. Len(s) -> Seq(S)] : Flattens(s, F)
    BY FlattenDefined
  <1> DEFINE From(n) == \A i \in 1 .. Len(F[n]) : \E k \in 1 .. n : \E j \in 1 .. Len(s[k]) :
                          F[n][i] = s[k][j]
             Good(n) == From(n) /\ IsInjective(F[n])
  <1>3. Good(0)
    <2>1. F[0] = <<>>
      BY <1>2 DEF Flattens
    <2> QED
      BY <2>1 DEF IsInjective
  <1>4. ASSUME NEW n \in Nat, n < Len(s), Good(n) PROVE Good(n + 1)
    <2>1. n \in 0 .. Len(s) - 1 /\ n \in 0 .. Len(s) /\ n + 1 \in 1 .. Len(s)
      BY <1>1, <1>4
    <2>2. From(n) /\ IsInjective(F[n])
      BY <1>4
    <2> DEFINE a == F[n]
               b == s[n + 1]
    <2>3. a \in Seq(S) /\ b \in Seq(S) /\ IsInjective(b)
      BY <1>1, <2>1
    <2>4. F[n + 1] = a \o b
      BY <1>2, <2>1 DEF Flattens
    <2>5. From(n)
      BY <2>2
    <2>6. ASSUME NEW i \in 1 .. Len(a), NEW j \in 1 .. Len(b) PROVE a[i] # b[j]
      <3>1. PICK k \in 1 .. n : \E l \in 1 .. Len(s[k]) : a[i] = s[k][l]
        BY <2>5
      <3>2. k \in 1 .. Len(s) /\ k # n + 1
        BY <2>1
      <3> QED
        BY <3>1, <3>2, <2>1
    <2>7. IsInjective(a)
      BY <2>2
    <2>8. Len(a) \in Nat /\ Len(b) \in Nat /\ DOMAIN a = 1 .. Len(a) /\ DOMAIN b = 1 .. Len(b)
      BY <2>3, LenProperties
    <2> HIDE DEF a, b
    <2> DEFINE c == a \o b
    <2>9. /\ c \in Seq(S) /\ Len(c) = Len(a) + Len(b) /\ DOMAIN c = 1 .. Len(a) + Len(b)
          /\ \A i \in 1 .. Len(a) + Len(b) : c[i] = IF i <= Len(a) THEN a[i] ELSE b[i - Len(a)]
      BY <2>3, <2>8, ConcatProperties, LenProperties
    <2> HIDE DEF c
    <2>10. IsInjective(c)
      <3> SUFFICES ASSUME NEW i \in DOMAIN c, NEW j \in DOMAIN c, c[i] = c[j] PROVE i = j
        BY DEF IsInjective
      <3>1. CASE i <= Len(a) /\ j <= Len(a)
        BY <2>7, <2>8, <2>9, <3>1 DEF IsInjective
      <3>2. CASE i <= Len(a) /\ j > Len(a)
        <4>1. i \in 1 .. Len(a) /\ j - Len(a) \in 1 .. Len(b) /\ a[i] = b[j - Len(a)]
          BY <2>8, <2>9, <3>2
        <4> QED
          BY <2>6, <4>1
      <3>3. CASE i > Len(a) /\ j <= Len(a)
        <4>1. j \in 1 .. Len(a) /\ i - Len(a) \in 1 .. Len(b) /\ a[j] = b[i - Len(a)]
          BY <2>8, <2>9, <3>3
        <4> QED
          BY <2>6, <4>1
      <3>4. CASE i > Len(a) /\ j > Len(a)
        <4>1. i - Len(a) \in DOMAIN b /\ j - Len(a) \in DOMAIN b
          BY <2>8, <2>9, <3>4
        <4>2. c[i] = b[i - Len(a)] /\ c[j] = b[j - Len(a)]
          BY <2>8, <2>9, <3>4
        <4>3. i - Len(a) = j - Len(a)
          BY <2>3, <4>1, <4>2 DEF IsInjective
        <4> QED
          BY <2>8, <2>9, <4>3
      <3> QED
        BY <2>8, <2>9, <3>1, <3>2, <3>3, <3>4
    <2>11. From(n + 1)
      <3>0. F[n + 1] = c
        BY <2>4 DEF c
      <3> SUFFICES ASSUME NEW i \in 1 .. Len(c)
                   PROVE  \E k \in 1 .. n + 1 : \E j \in 1 .. Len(s[k]) : c[i] = s[k][j]
        BY <3>0
      <3>1. CASE i <= Len(a)
        <4>1. i \in 1 .. Len(a) /\ c[i] = a[i]
          BY <2>8, <2>9, <3>1
        <4>2. PICK k \in 1 .. n : \E j \in 1 .. Len(s[k]) : a[i] = s[k][j]
          BY <2>5, <4>1 DEF a
        <4> QED
          BY <2>1, <4>1, <4>2
      <3>2. CASE i > Len(a)
        <4>1. i - Len(a) \in 1 .. Len(b) /\ c[i] = b[i - Len(a)]
          BY <2>8, <2>9, <3>2
        <4> QED
          BY <2>1, <4>1 DEF b
      <3> QED
        BY <2>8, <2>9, <3>1, <3>2
    <2> QED
      BY <2>4, <2>10, <2>11 DEF c
  <1> HIDE DEF Good
  <1>5. \A n \in Nat : n <= Len(s) => Good(n)
    <2> DEFINE T == {n \in Nat : n <= Len(s) => Good(n)}
    <2>1. T \in SUBSET Nat /\ 0 \in T /\ \A n \in T : n + 1 \in T
      BY <1>1, <1>3, <1>4
    <2>2. T = Nat
      <3> HIDE DEF T
      <3> QED
        BY <2>1, SetInduction
    <2> QED
      BY <2>2
  <1>6. Good(Len(s)) /\ F[Len(s)] \in Seq(S)
    BY <1>1, <1>5
  <1>7. FlattenSeq(s) = F[Len(s)]
    BY <1>2 DEF Flattens
  <1> QED
    BY <1>6, <1>7 DEF Good
-----------------------------------------------------------------------------
(* What is in memory.  A word w that points to an object of a type:        *)
Points(w, type) ==
  /\ IS_PTR(w)
  /\ GET_PTR(w) \in 1 .. Len(heap)
  /\ heap[GET_PTR(w)].type = type

ObjectTypes == {"TYPE_STRING", "TYPE_LIST", "TYPE_MUTABLE"}

(* Every object has a block of its own, and so has module.argv.            *)
Blocks ==
  /\ heap \in Seq([type : ObjectTypes, length : Int, block : Nat])
  /\ memory \in Seq(Seq(Words \cup STRING))
  /\ args \in 0 .. Len(memory)
  /\ \A a \in 1 .. Len(heap) : heap[a].block \in 1 .. Len(memory) /\ heap[a].block # args
  /\ \A a, b \in 1 .. Len(heap) : heap[a].block = heap[b].block => a = b

(* The program in the file, and the fields it is written in.               *)
Program == Files[argv[2]]

FieldSet == [width : {"u8", "i32", "f64", "text"}, value : Int \cup Texts]

Parts == [i \in 1 .. Len(Program.constants) |-> Encoded(Program.constants[i])]

Rows == [k \in 1 .. Len(Program.code) |->
           [i \in 1 .. Len(Padded(Program.code[k])) |-> Int32(Padded(Program.code[k])[i])]]

CodeFields == <<Int32(Len(Program.code))>> \o FlattenSeq(Rows)

PartsFrom(j) == FlattenSeq(SubSeq(Parts, j, Len(Parts)))

(* A word that stands for a literal.                                       *)
Loaded(w, literal) ==
  /\ literal.kind = "int"   => w = MAKE_INTEGER(literal.value)
  /\ literal.kind = "float" => w = Word("FLOAT", literal.value)
  /\ literal.kind \in {"string", "native"} =>
       /\ Points(w, "TYPE_STRING")
       /\ Cells(w) = literal.value
       /\ Length(w) = Len(literal.value)

BeforeConstants == stage \in {"start", "count"}
HasRun == stage \in {"arguments", "running", "over"}

(* How far the file is read.                                               *)
FileRead ==
  /\ argv \in CommandLines
  /\ stage \in {"start", "count", "constants", "arguments", "running", "thrown", "over"}
  /\ stage \notin {"start", "thrown"} => Readable
  /\ stage = "count" => file = Serialized(Program)
  /\ stage = "constants" =>
       /\ expected = Len(Program.constants) - Len(constants)
       /\ expected \in Nat
       /\ file = PartsFrom(Len(constants) + 1) \o CodeFields

(* The constants so far, each with an object of its own if it has one.     *)
ConstantsRead ==
  /\ constants \in Seq(Words)
  /\ BeforeConstants => constants = <<>> /\ heap = <<>> /\ memory = <<>> /\ args = 0
  /\ stage \in {"constants", "arguments"} => args = 0
  /\ HasRun => Len(constants) = Len(Program.constants)
  /\ \A i \in 1 .. Len(constants) : Loaded(constants[i], Program.constants[i])
  /\ \A i, j \in 1 .. Len(constants) : IS_PTR(constants[i]) /\ constants[i] = constants[j] => i = j

CodeRead ==
  HasRun =>
    /\ Len(instrs) = 5 * Len(Program.code)
    /\ \A k \in 1 .. Len(Program.code) : \A i \in 1 .. Len(Program.code[k]) :
         instrs[5 * (k - 1) + i] = Program.code[k][i]

(* A word that points to an object, if it is a pointer at all; 0 is a NaN. *)
Valid(w) == w \in Words /\ (IS_PTR(w) => GET_PTR(w) \in 0 .. Len(heap))

HoldsValid(cells) == \A i \in 1 .. Len(cells) : Valid(cells[i])

CellsValid ==
  /\ \A a \in 1 .. Len(heap) : heap[a].type # "TYPE_STRING" => HoldsValid(memory[heap[a].block])
  /\ \A a \in 1 .. Len(heap) : heap[a].type = "TYPE_MUTABLE" => Len(memory[heap[a].block]) = 1
  /\ args # 0 => HoldsValid(memory[args])
  /\ ~strayed => \A a \in 1 .. Len(heap) : heap[a].length = Len(memory[heap[a].block])

StackValid ==
  /\ stack \in Seq(Words) /\ HoldsValid(stack)
  /\ Len(types) = Len(stack) /\ Len(stack) <= Depth
  /\ \E S : types \in Seq(S)

(* module.argv has the strings of the command line.                        *)
ArgumentsPassed ==
  stage \in {"running", "over"} =>
    /\ args # 0
    /\ Len(memory[args]) = Len(argv)
    /\ \A i \in 1 .. Len(argv) : Points(memory[args][i], "TYPE_STRING")

(* What is in memory stays there, but for what is in mutables.             *)
Stays ==
  /\ Len(heap) <= Len(heap')
  /\ \A a \in 1 .. Len(heap) :
       /\ heap'[a] = heap[a]
       /\ heap[a].type # "TYPE_MUTABLE" => memory'[heap[a].block] = memory[heap[a].block]
  /\ args # 0 => args' = args /\ memory'[args] = memory[args]
-----------------------------------------------------------------------------
(* What is left of a \o b behind a, and what is at its beginning.          *)
LEMMA BehindFirst ==
  ASSUME NEW S, NEW a \in Seq(S), NEW b \in Seq(S)
  PROVE  /\ SubSeq(a \o b, Len(a) + 1, Len(a \o b)) = b
         /\ \A i \in 1 .. Len(a) : (a \o b)[i] = a[i]
         /\ Len(a \o b) = Len(a) + Len(b)
  <1> DEFINE c == a \o b
             d == SubSeq(c, Len(a) + 1, Len(c))
  <1>1. /\ c \in Seq(S) /\ Len(c) = Len(a) + Len(b) /\ Len(a) \in Nat /\ Len(b) \in Nat
        /\ \A i \in 1 .. Len(a) + Len(b) : c[i] = IF i <= Len(a) THEN a[i] ELSE b[i - Len(a)]
    BY ConcatProperties, LenProperties
  <1> HIDE DEF c
  <1>2. /\ d \in Seq(S) /\ Len(d) = Len(b)
        /\ \A i \in 1 .. Len(b) : d[i] = c[Len(a) + i]
    BY <1>1, SubSeqProperties
  <1> HIDE DEF d
  <1>3. \A i \in 1 .. Len(b) : d[i] = b[i]
    <2> TAKE i \in 1 .. Len(b)
    <2>1. Len(a) + i \in 1 .. Len(a) + Len(b) /\ ~(Len(a) + i <= Len(a)) /\ (Len(a) + i) - Len(a) = i
      BY <1>1
    <2> QED
      BY <1>1, <1>2, <2>1
  <1>4. d = b
    BY <1>2, <1>3, SeqEqual
  <1> QED
    BY <1>1, <1>4 DEF c, d

(* An int32 is a field.                                                    *)
LEMMA Int32Facts ==
  ASSUME NEW n \in Int
  PROVE  /\ Int32(n) \in FieldSet
         /\ Int32(n).width = "i32" /\ Int32(n).value = Signed(Unsigned(n))
         /\ Signed(Unsigned(n)) \in Int
  <1>1. Signed(Unsigned(n)) \in Int
    <2>1. Unsigned(n) \in Int /\ HIGH * HALF \in Int /\ INT \in Int
      BY Widths, UnsignedFacts
    <2> QED
      BY <2>1 DEF Signed
  <1> QED
    BY <1>1 DEF Int32, Field, FieldSet

(* The literals and the fields they are written in.                        *)
LEMMA LiteralFacts ==
  ASSUME NEW literal \in Literals
  PROVE  /\ Encoded(literal) \in Seq(FieldSet)
         /\ literal.kind = "int" => /\ literal.value \in Int
                                    /\ Encoded(literal) = <<Field("u8", 0), Int32(literal.value)>>
         /\ literal.kind = "float" => /\ literal.value \in -MaxFloat .. MaxFloat
                                      /\ Encoded(literal) = <<Field("u8", 1), Field("f64", literal.value)>>
         /\ literal.kind \in {"string", "native"} =>
              /\ literal.value \in Texts
              /\ Encoded(literal) = <<Field("u8", 2), Int32(Len(literal.value)), Field("text", literal.value)>>
         /\ literal.kind \in {"int", "float", "string", "native"}
  <1>1. \A n \in Int : Int32(n) \in FieldSet
    BY Int32Facts
  <1>2. Field("u8", 0) \in FieldSet /\ Field("u8", 1) \in FieldSet /\ Field("u8", 2) \in FieldSet
    BY DEF Field, FieldSet
  <1>3. CASE literal \in [kind : {"int"}, value : Int]
    BY <1>1, <1>2, <1>3 DEF Encoded
  <1>4. CASE literal \in [kind : {"float"}, value : -MaxFloat .. MaxFloat]
    <2>1. literal.kind = "float" /\ literal.value \in -MaxFloat .. MaxFloat /\ literal.value \in Int
      BY <1>4, WidthAssumption
    <2>2. Field("f64", literal.value) \in FieldSet
      BY <2>1 DEF Field, FieldSet
    <2> QED
      BY <1>2, <2>1, <2>2 DEF Encoded
  <1>5. CASE literal \in [kind : {"string", "native"}, value : Texts]
    <2>1. literal.kind \in {"string", "native"} /\ literal.value \in Texts /\ Len(literal.value) \in Int
      BY <1>5 DEF Texts
    <2>2. Field("text", literal.value) \in FieldSet /\ Int32(Len(literal.value)) \in FieldSet
      BY <1>1, <2>1 DEF Field, FieldSet
    <2> QED
      BY <1>2, <2>1, <2>2 DEF Encoded
  <1> QED
    BY <1>3, <1>4, <1>5 DEF Literals

LEMMA RoundTrip ==
  ASSUME NEW n \in Int
  PROVE  Unsigned(Signed(Unsigned(n))) = Unsigned(n)
  <1> DEFINE u == Unsigned(n)
  <1>1. u \in 0 .. INT - 1
    BY UnsignedFacts
  <1> HIDE DEF u
  <1>2. CASE u < HIGH * HALF
    BY <1>1, <1>2, Widths, UnsignedFacts DEF Signed, u
  <1>3. CASE ~(u < HIGH * HALF)
    <2>1. Signed(u) = u - INT /\ u - INT \in Int
      BY <1>1, <1>3, Widths DEF Signed
    <2>2. ((u - INT) + INT * 1) % INT = (u - INT) % INT
      <3>1. INT \in Int /\ INT > 0 /\ 1 \in Int
        BY Widths
      <3> QED
        BY <2>1, <3>1, SameRemainder
    <2>3. (u - INT) + INT * 1 = u
      BY <1>1, Widths
    <2>4. Unsigned(u) = u
      BY <1>1, UnsignedFacts
    <2> QED
      BY <2>1, <2>2, <2>3, <2>4 DEF Unsigned, u
  <1> QED
    BY <1>2, <1>3

(* An instruction takes five words, its operands first.                    *)
LEMMA PaddedWith ==
  ASSUME NEW S, NEW n \in Nat, n <= 5, NEW s \in [1 .. n -> S], NEW z \in S
  PROVE  LET c == s \o [i \in 1 .. 5 - n |-> z]
         IN  /\ Len(c) = 5
             /\ \A i \in 1 .. 5 : c[i] \in S
             /\ \A i \in 1 .. n : c[i] = s[i]
  <1>1. s \in Seq(S) /\ Len(s) = n
    BY FunctionIsSeq
  <1>2. PICK m \in Nat : m = 5 - n
    OBVIOUS
  <1>3. PICK t \in [1 .. m -> S] : t = [i \in 1 .. m |-> z]
    OBVIOUS
  <1>4. t \in Seq(S) /\ Len(t) = m
    BY FunctionIsSeq
  <1>5. /\ s \o t \in Seq(S) /\ Len(s \o t) = n + m
        /\ \A i \in 1 .. n + m : (s \o t)[i] = IF i <= n THEN s[i] ELSE t[i - n]
    BY <1>1, <1>4, ConcatProperties
  <1>6. n + m = 5
    BY <1>2
  <1>7. \A i \in 1 .. 5 : (s \o t)[i] \in S
    BY <1>5, <1>6, ElementOfSeq
  <1>8. \A i \in 1 .. n : (s \o t)[i] = s[i]
    BY <1>2, <1>5
  <1> QED
    BY <1>2, <1>3, <1>5, <1>6, <1>7, <1>8

LEMMA PaddedFacts ==
  ASSUME NEW instr \in Instructions
  PROVE  /\ Len(Padded(instr)) = 5
         /\ \A i \in 1 .. 5 : Padded(instr)[i] \in -(HIGH * HALF) .. HIGH * HALF - 1
         /\ \A i \in 1 .. Len(instr) : Padded(instr)[i] = instr[i]
         /\ Len(instr) \in 0 .. 5
  <1> DEFINE W == -(HIGH * HALF) .. HIGH * HALF - 1
  <1>1. instr \in Seq(W) /\ Len(instr) <= 5
    BY DEF Instructions
  <1>2. 0 \in W
    BY Widths
  <1> HIDE DEF W
  <1>3. Len(instr) \in Nat /\ instr \in [1 .. Len(instr) -> W]
    BY <1>1, LenProperties
  <1>4. PICK n : n = Len(instr)
    OBVIOUS
  <1>5. n \in Nat /\ n <= 5 /\ instr \in [1 .. n -> W]
    BY <1>1, <1>3, <1>4
  <1>6. n \in 0 .. 5
    BY <1>5
  <1>7. Padded(instr) = instr \o [i \in 1 .. 5 - n |-> 0]
    BY <1>4 DEF Padded
  <1>8. /\ Len(instr \o [i \in 1 .. 5 - n |-> 0]) = 5
        /\ \A i \in 1 .. 5 : (instr \o [j \in 1 .. 5 - n |-> 0])[i] \in W
        /\ \A i \in 1 .. n : (instr \o [j \in 1 .. 5 - n |-> 0])[i] = instr[i]
    BY <1>2, <1>5, PaddedWith
  <1> QED
    BY <1>4, <1>6, <1>7, <1>8 DEF W

(* The file that main has opened is the program that runSerializer wrote.  *)
LEMMA ProgramFacts ==
  ASSUME Readable
  PROVE  /\ Program.constants \in Seq(Literals) /\ Fits(Len(Program.constants))
         /\ Program.code \in Seq(Instructions) /\ Fits(Len(Program.code))
         /\ Program.functions \subseteq Int \X Int
         /\ Parts \in Seq(Seq(FieldSet)) /\ Len(Parts) = Len(Program.constants)
         /\ Rows \in Seq(Seq(FieldSet)) /\ Len(Rows) = Len(Program.code)
         /\ \A k \in 1 .. Len(Rows) : Len(Rows[k]) = 5
         /\ CodeFields \in Seq(FieldSet)
  <1>1. argv[2] \in DOMAIN Files
    BY DEF Readable
  <1>2. /\ Program.constants \in Seq(Literals) /\ Fits(Len(Program.constants))
        /\ Program.code \in Seq(Instructions) /\ Fits(Len(Program.code))
        /\ Program.functions \subseteq Int \X Int
    BY <1>1, LoaderAssumption DEF Program
  <1>3. Parts \in Seq(Seq(FieldSet)) /\ Len(Parts) = Len(Program.constants)
    <2>1. \A i \in 1 .. Len(Program.constants) : Encoded(Program.constants[i]) \in Seq(FieldSet)
      BY <1>2, ElementOfSeq, LiteralFacts
    <2>2. Len(Program.constants) \in Nat
      BY <1>2, LenProperties
    <2>3. Parts \in [1 .. Len(Program.constants) -> Seq(FieldSet)]
      BY <2>1 DEF Parts
    <2> QED
      BY <2>2, <2>3, FunctionIsSeq
  <1>4. /\ Rows \in Seq(Seq(FieldSet)) /\ Len(Rows) = Len(Program.code)
        /\ \A k \in 1 .. Len(Rows) : Len(Rows[k]) = 5
    <2>1. Len(Program.code) \in Nat
      BY <1>2, LenProperties
    <2>2. \A k \in 1 .. Len(Program.code) : Program.code[k] \in Instructions
      BY <1>2, ElementOfSeq
    <2>3. \A n \in -(HIGH * HALF) .. HIGH * HALF - 1 : Int32(n) \in FieldSet
      BY Int32Facts, Widths
    <2>4. ASSUME NEW k \in 1 .. Len(Program.code)
          PROVE  /\ Rows[k] = [i \in 1 .. 5 |-> Int32(Padded(Program.code[k])[i])]
                 /\ Rows[k] \in Seq(FieldSet) /\ Len(Rows[k]) = 5
      <3>1. Rows[k] = [i \in 1 .. 5 |-> Int32(Padded(Program.code[k])[i])]
        BY <2>2, PaddedFacts DEF Rows
      <3>2. \A i \in 1 .. 5 : Int32(Padded(Program.code[k])[i]) \in FieldSet
        BY <2>2, <2>3, PaddedFacts
      <3>3. Rows[k] \in [1 .. 5 -> FieldSet]
        BY <3>1, <3>2
      <3> QED
        BY <3>1, <3>3, FunctionIsSeq
    <2>5. Rows = [k \in 1 .. Len(Program.code) |-> Rows[k]]
      BY DEF Rows
    <2>6. Rows \in [1 .. Len(Program.code) -> Seq(FieldSet)]
      <3> DEFINE R(k) == Rows[k]
      <3>1. \A k \in 1 .. Len(Program.code) : R(k) \in Seq(FieldSet)
        BY <2>4
      <3>2. Rows = [k \in 1 .. Len(Program.code) |-> R(k)]
        BY <2>5
      <3> HIDE DEF R
      <3> QED
        BY <3>1, <3>2
    <2>7. Rows \in Seq(Seq(FieldSet)) /\ Len(Rows) = Len(Program.code)
      BY <2>1, <2>6, FunctionIsSeq
    <2> QED
      BY <2>4, <2>7
  <1>5. CodeFields \in Seq(FieldSet)
    <2>1. FlattenSeq(Rows) \in Seq(FieldSet)
      BY <1>4, FlattenRows
    <2>2. Len(Program.code) \in Int
      BY <1>2, LenProperties
    <2>3. Int32(Len(Program.code)) \in FieldSet
      BY <2>2, Int32Facts
    <2>4. <<Int32(Len(Program.code))>> \in Seq(FieldSet)
      BY <2>3
    <2> QED
      BY <2>1, <2>4, ConcatProperties DEF CodeFields
  <1> QED
    BY <1>2, <1>3, <1>4, <1>5

(* The constants are written one after the other.                          *)
LEMMA PartsFacts ==
  ASSUME Readable
  PROVE  /\ PartsFrom(1) = FlattenSeq(Parts)
         /\ PartsFrom(Len(Parts) + 1) = <<>>
         /\ \A j \in 1 .. Len(Parts) + 1 : PartsFrom(j) \in Seq(FieldSet)
         /\ \A j \in 1 .. Len(Parts) :
              /\ Encoded(Program.constants[j]) \in Seq(FieldSet)
              /\ PartsFrom(j) = Encoded(Program.constants[j]) \o PartsFrom(j + 1)
  <1> DEFINE n == Len(Parts)
             s(j) == SubSeq(Parts, j, n)
  <1>1. Parts \in Seq(Seq(FieldSet)) /\ n \in Nat /\ n = Len(Program.constants)
    BY ProgramFacts, LenProperties
  <1>2. \A j \in 1 .. n + 1 : s(j) \in Seq(Seq(FieldSet)) /\ Len(s(j)) = n - j + 1
    BY <1>1, SubSeqProperties
  <1>3. s(1) = Parts
    BY <1>1, SubSeqFull
  <1>4. s(n + 1) = <<>>
    BY <1>1, SubSeqEmpty
  <1>5. FlattenSeq(<<>>) = <<>>
    BY DEF FlattenSeq
  <1>6. ASSUME NEW j \in 1 .. n
        PROVE  s(j)[1] = Encoded(Program.constants[j]) /\ Tail(s(j)) = s(j + 1)
    <2>1. s(j)[1] = Parts[j] /\ Parts[j] = Encoded(Program.constants[j])
      BY <1>1 DEF Parts
    <2>2. Tail(s(j)) = s(j + 1)
      <3>0. s(j) \in Seq(Seq(FieldSet)) /\ Len(s(j)) = n - j + 1 /\ n - j + 1 > 0
        BY <1>1, <1>2
      <3>1. Tail(s(j)) \in Seq(Seq(FieldSet)) /\ Len(Tail(s(j))) = n - j
            /\ \A i \in 1 .. n - j : Tail(s(j))[i] = s(j)[i + 1]
        <4> HIDE DEF s
        <4>1. s(j) # <<>>
          BY <3>0, EmptySeq
        <4>2. Len(s(j)) - 1 = n - j
          BY <1>1, <3>0
        <4> QED
          BY <3>0, <4>1, <4>2, HeadTailProperties
      <3>2. \A i \in 1 .. n - j : s(j)[i + 1] = Parts[j + i] /\ s(j + 1)[i] = Parts[j + i]
        BY <1>1, <1>2, SubSeqProperties
      <3>3. s(j + 1) \in Seq(Seq(FieldSet)) /\ Len(s(j + 1)) = n - j
        BY <1>1, <1>2
      <3> HIDE DEF s
      <3> QED
        BY <3>1, <3>2, <3>3, SeqEqual
    <2> QED
      BY <2>1, <2>2
  <1>7. \A j \in 1 .. n : /\ FlattenSeq(s(j)) = Encoded(Program.constants[j]) \o FlattenSeq(s(j + 1))
                          /\ FlattenSeq(s(j)) \in Seq(FieldSet)
    <2> TAKE j \in 1 .. n
    <2>1. s(j) \in Seq(Seq(FieldSet)) /\ Len(s(j)) > 0
      BY <1>1, <1>2
    <2> HIDE DEF s
    <2> QED
      BY <1>6, <2>1, FlattenFirst
  <1>8. FlattenSeq(s(n + 1)) \in Seq(FieldSet)
    BY <1>4, <1>5, EmptySeq
  <1>9. \A j \in 1 .. n : Encoded(Program.constants[j]) \in Seq(FieldSet)
    BY <1>1, ProgramFacts, ElementOfSeq, LiteralFacts
  <1> HIDE DEF n
  <1>10. \A j \in 1 .. n + 1 : j = n + 1 \/ j \in 1 .. n
    BY <1>1 DEF n
  <1> QED
    BY <1>3, <1>4, <1>5, <1>7, <1>8, <1>9, <1>10 DEF PartsFrom, n
-----------------------------------------------------------------------------
(* A word stays valid, and a literal stays loaded.                         *)
LEMMA ValidStays ==
  ASSUME heap \in Seq([type : ObjectTypes, length : Int, block : Nat]),
         heap' \in Seq([type : ObjectTypes, length : Int, block : Nat]),
         Len(heap) <= Len(heap')
  PROVE  \A w : Valid(w) => Valid(w)'
  <1>1. Len(heap) \in Nat /\ Len(heap') \in Nat
    BY LenProperties
  <1> QED
    BY <1>1 DEF Valid

LEMMA LoadedStays ==
  ASSUME NEW w, NEW literal, Loaded(w, literal), Len(heap) \in Nat, Len(heap') \in Nat, Stays
  PROVE  Loaded(w, literal)'
  BY DEF Loaded, Points, Cells, Length, Stays

(* A new object in memory of its own.                                      *)
LEMMA NewObject ==
  ASSUME Blocks, CellsValid,
         NEW type \in ObjectTypes, NEW size \in Int, NEW cells \in Seq(Words \cup STRING),
         type # "TYPE_STRING" => HoldsValid(cells),
         type = "TYPE_MUTABLE" => Len(cells) = 1,
         strayed => strayed',
         ~strayed' => size = Len(cells),
         memory' = Append(memory, cells),
         heap' = Append(heap, Object(type, size, Len(memory'))),
         args' = args
  PROVE  /\ Blocks' /\ CellsValid' /\ Stays
         /\ Len(heap') = Len(heap) + 1 /\ Len(heap) \in Nat
         /\ heap'[Len(heap) + 1].type = type
         /\ heap'[Len(heap) + 1].length = size
         /\ memory'[heap'[Len(heap) + 1].block] = cells
  <1> DEFINE H == [type : ObjectTypes, length : Int, block : Nat]
             C == Seq(Words \cup STRING)
             n == Len(heap)
             m == Len(memory)
             o == Object(type, size, m + 1)
  <1>1. heap \in Seq(H) /\ memory \in Seq(C) /\ n \in Nat /\ m \in Nat
    BY LenProperties DEF Blocks
  <1>2. /\ memory' \in Seq(C) /\ Len(memory') = m + 1 /\ memory'[m + 1] = cells
        /\ \A b \in 1 .. m : memory'[b] = memory[b]
    <2> HIDE DEF C
    <2> QED
      BY <1>1, AppendProperties DEF C
  <1>3. o \in H /\ o.type = type /\ o.length = size /\ o.block = m + 1
    BY <1>1 DEF Object
  <1>4. heap' = Append(heap, o)
    BY <1>2
  <1> HIDE DEF o, H, C
  <1>5. /\ heap' \in Seq(H) /\ Len(heap') = n + 1 /\ heap'[n + 1] = o
        /\ \A a \in 1 .. n : heap'[a] = heap[a]
    BY <1>1, <1>3, <1>4, AppendProperties
  <1>6. /\ \A a \in 1 .. n : heap[a].block \in 1 .. m /\ heap[a].block # args
        /\ \A a, b \in 1 .. n : heap[a].block = heap[b].block => a = b
        /\ args \in 0 .. m
    BY DEF Blocks
  <1> HIDE DEF n, m
  <1>7. \A a \in 1 .. n + 1 : a \in 1 .. n \/ a = n + 1
    BY <1>1
  <1>8. Blocks'
    <2>1. args' \in 0 .. Len(memory')
      BY <1>1, <1>2, <1>6
    <2>2. \A a \in 1 .. n + 1 : heap'[a].block \in 1 .. m + 1 /\ heap'[a].block # args
      BY <1>1, <1>3, <1>5, <1>6, <1>7
    <2>3. \A a, b \in 1 .. n + 1 : heap'[a].block = heap'[b].block => a = b
      BY <1>1, <1>3, <1>5, <1>6, <1>7
    <2> QED
      BY <1>2, <1>5, <2>1, <2>2, <2>3 DEF Blocks, H, C
  <1>9. \A s : HoldsValid(s) => HoldsValid(s)'
    <2>1. \A w : Valid(w) => Valid(w)'
      BY <1>1, <1>5, ValidStays DEF H, n
    <2> QED
      BY <2>1 DEF HoldsValid
  <1>10. \A a \in 1 .. n : memory'[heap[a].block] = memory[heap[a].block]
    BY <1>2, <1>6
  <1>11. CellsValid'
    <2>1. ASSUME NEW a \in 1 .. n + 1
          PROVE  /\ heap'[a].type # "TYPE_STRING" => HoldsValid(memory[heap[a].block])'
                 /\ heap'[a].type = "TYPE_MUTABLE" => Len(memory'[heap'[a].block]) = 1
                 /\ ~strayed' => heap'[a].length = Len(memory'[heap'[a].block])
      <3>1. CASE a \in 1 .. n
        <4>1. heap'[a] = heap[a] /\ memory'[heap[a].block] = memory[heap[a].block]
          BY <3>1, <1>5, <1>10
        <4>2. /\ heap[a].type # "TYPE_STRING" => HoldsValid(memory[heap[a].block])
              /\ heap[a].type = "TYPE_MUTABLE" => Len(memory[heap[a].block]) = 1
              /\ ~strayed => heap[a].length = Len(memory[heap[a].block])
          BY <3>1 DEF CellsValid, n
        <4> QED
          BY <4>1, <4>2, <1>9
      <3>2. CASE a = n + 1
        <4>1. heap'[a].type = type /\ heap'[a].length = size /\ memory'[heap'[a].block] = cells
          BY <3>2, <1>2, <1>3, <1>5
        <4> QED
          BY <4>1, <1>9
      <3> QED
        BY <3>1, <3>2, <1>7
    <2>2. args' # 0 => HoldsValid(memory[args])'
      <3>1. args # 0 => memory'[args] = memory[args] /\ HoldsValid(memory[args])
        BY <1>1, <1>2, <1>6 DEF CellsValid
      <3> QED
        BY <3>1, <1>9
    <2> QED
      BY <1>5, <2>1, <2>2 DEF CellsValid
  <1>12. Stays
    <2>1. n <= Len(heap')
      BY <1>1, <1>5
    <2>2. \A a \in 1 .. n : heap'[a] = heap[a] /\ memory'[heap[a].block] = memory[heap[a].block]
      BY <1>5, <1>10
    <2>3. args # 0 => memory'[args] = memory[args]
      BY <1>1, <1>2, <1>6
    <2> QED
      BY <2>1, <2>2, <2>3 DEF Stays, n
  <1> QED
    BY <1>1, <1>2, <1>3, <1>5, <1>8, <1>11, <1>12 DEF n
-----------------------------------------------------------------------------
(* What main reads at the beginning of the file, and what comes behind.    *)
LEMMA FileAsWritten ==
  ASSUME Readable
  PROVE  /\ Serialized(Program) = <<Int32(Len(Program.constants))>> \o (PartsFrom(1) \o CodeFields)
         /\ PartsFrom(1) \o CodeFields \in Seq(FieldSet)
         /\ Int32(Len(Program.constants)) \in FieldSet
         /\ Int32(Len(Program.constants)).width = "i32"
         /\ Int32(Len(Program.constants)).value = Len(Program.constants)
  <1> DEFINE a == <<Int32(Len(Program.constants))>>
             b == FlattenSeq(Parts)
             c == <<Int32(Len(Program.code))>>
             d == FlattenSeq(Rows)
  <1>1. Serialized(Program) = ((a \o b) \o c) \o d
    BY DEF Serialized, Parts, Rows
  <1>2. Len(Program.constants) \in Nat /\ Len(Program.code) \in Nat
    BY ProgramFacts, LenProperties
  <1>3. Int32(Len(Program.constants)) \in FieldSet /\ Int32(Len(Program.code)) \in FieldSet
    BY <1>2, Int32Facts, SMTT(30)
  <1>4. a \in Seq(FieldSet) /\ c \in Seq(FieldSet)
    BY <1>3
  <1>5. b \in Seq(FieldSet) /\ d \in Seq(FieldSet)
    <2>1. d \in Seq(FieldSet)
      <3>1. Rows \in Seq(Seq(FieldSet)) /\ \A k \in 1 .. Len(Rows) : Len(Rows[k]) = 5
        BY ProgramFacts
      <3> QED
        BY <3>1, FlattenRows
    <2>2. Len(Parts) \in Nat
      BY ProgramFacts, LenProperties
    <2>3. 1 \in 1 .. Len(Parts) + 1
      BY <2>2
    <2>4. b \in Seq(FieldSet)
      BY <2>3, PartsFacts
    <2> QED
      BY <2>1, <2>4
  <1>6. CodeFields = c \o d /\ PartsFrom(1) = b
    BY PartsFacts DEF CodeFields
  <1> HIDE DEF a, b, c, d
  <1>7. ((a \o b) \o c) \o d = a \o (b \o (c \o d)) /\ b \o (c \o d) \in Seq(FieldSet)
    <2>1. c \o d \in Seq(FieldSet) /\ a \o b \in Seq(FieldSet) /\ b \o (c \o d) \in Seq(FieldSet)
      BY <1>4, <1>5, ConcatProperties
    <2>2. ((a \o b) \o c) \o d = (a \o b) \o (c \o d)
      BY <1>4, <1>5, <2>1, ConcatAssociative, SMTT(30)
    <2>3. (a \o b) \o (c \o d) = a \o (b \o (c \o d))
      BY <1>4, <1>5, <2>1, ConcatAssociative, SMTT(120)
    <2> QED
      BY <2>1, <2>2, <2>3
  <1>8. /\ Int32(Len(Program.constants)).width = "i32"
        /\ Int32(Len(Program.constants)).value = Len(Program.constants)
    <2>1. Len(Program.constants) < HIGH * HALF
      BY ProgramFacts DEF Fits
    <2>2. Len(Program.constants) \in -(HIGH * HALF) .. HIGH * HALF - 1
      BY <1>2, <2>1, Widths
    <2>3. PICK n \in Int : n = Len(Program.constants)
      BY <1>2
    <2> QED
      BY <2>2, <2>3, Int32Facts, SignedFacts
  <1> QED
    BY <1>1, <1>3, <1>6, <1>7, <1>8 DEF a

LEMMA CountStep ==
  ASSUME FileRead, ConstantsRead, ReadCount
  PROVE  FileRead'
  <1> DEFINE n == Len(Program.constants)
             rest == PartsFrom(1) \o CodeFields
  <1>1. /\ stage = "count" /\ Readable /\ argv \in CommandLines /\ constants = <<>>
        /\ file = Serialized(Program)
    BY DEF FileRead, ConstantsRead, ReadCount, BeforeConstants
  <1>2. /\ file = <<Int32(n)>> \o rest /\ rest \in Seq(FieldSet)
        /\ Int32(n) \in FieldSet /\ Int32(n).width = "i32" /\ Int32(n).value = n
    BY <1>1, FileAsWritten
  <1>3. n \in Nat
    BY <1>1, ProgramFacts, LenProperties
  <1> HIDE DEF n, rest
  <1>4. /\ file[1] = Int32(n) /\ SubSeq(file, 2, Len(file)) = rest /\ 1 <= Len(file)
    <2> DEFINE a == <<Int32(n)>>
    <2>1. a \in Seq(FieldSet) /\ Len(a) = 1 /\ a[1] = Int32(n)
      BY <1>2
    <2>2. file = a \o rest
      BY <1>2
    <2> HIDE DEF a
    <2>3. /\ SubSeq(file, Len(a) + 1, Len(file)) = rest
          /\ \A i \in 1 .. Len(a) : file[i] = a[i]
          /\ Len(file) = Len(a) + Len(rest) /\ Len(rest) \in Nat
      BY <1>2, <2>1, <2>2, BehindFirst, LenProperties
    <2> QED
      BY <2>1, <2>3
  <1>5. Read(1, "i32") = n
    BY <1>2, <1>4 DEF Read
  <1>6. expected' = n /\ file' = rest /\ stage' = "constants"
    BY <1>4, <1>5 DEF ReadCount, Skip
  <1>7. argv' = argv /\ constants' = <<>> /\ UNCHANGED <<heap, memory>>
    BY <1>1 DEF ReadCount
  <1>8. Program' = Program /\ Readable' /\ CodeFields' = CodeFields /\ Parts' = Parts
    BY <1>1, <1>7 DEF Program, Readable, CodeFields, Parts, Rows
  <1>9. (PartsFrom(Len(constants) + 1))' = PartsFrom(1)
    BY <1>7, <1>8 DEF PartsFrom
  <1> QED
    BY <1>1, <1>3, <1>6, <1>7, <1>8, <1>9 DEF FileRead, n, rest

(* The literal that is read next, and what is behind it.                   *)
NextLiteral == Program.constants[Len(constants) + 1]
BehindIt    == PartsFrom(Len(constants) + 2) \o CodeFields

LEMMA LiteralIsNext ==
  ASSUME FileRead, ConstantsRead, stage = "constants", expected > 0
  PROVE  /\ Readable
         /\ Len(constants) \in Nat
         /\ Len(constants) + 1 \in 1 .. Len(Program.constants)
         /\ NextLiteral \in Literals
         /\ Encoded(NextLiteral) \in Seq(FieldSet)
         /\ BehindIt \in Seq(FieldSet)
         /\ file = Encoded(NextLiteral) \o BehindIt
  <1> DEFINE j == Len(constants) + 1
             n == Len(Parts)
  <1>1. /\ Readable /\ expected = Len(Program.constants) - Len(constants)
        /\ file = PartsFrom(j) \o CodeFields
    BY DEF FileRead
  <1>2. Len(constants) \in Nat
    BY LenProperties DEF ConstantsRead
  <1>3. n \in Nat /\ n = Len(Program.constants) /\ CodeFields \in Seq(FieldSet)
    BY <1>1, ProgramFacts, LenProperties
  <1> HIDE DEF n
  <1>4. j \in 1 .. n /\ j + 1 \in 1 .. n + 1 /\ j + 1 = Len(constants) + 2
    BY <1>1, <1>2, <1>3
  <1>5. /\ Encoded(Program.constants[j]) \in Seq(FieldSet) /\ PartsFrom(j + 1) \in Seq(FieldSet)
        /\ PartsFrom(j) = Encoded(Program.constants[j]) \o PartsFrom(j + 1)
    <2> HIDE DEF j
    <2> QED
      BY <1>1, <1>4, PartsFacts DEF n
  <1>6. Program.constants[j] \in Literals
    BY <1>1, <1>3, <1>4, ProgramFacts, ElementOfSeq
  <1>7. file = Encoded(Program.constants[j]) \o (PartsFrom(j + 1) \o CodeFields)
    <2> HIDE DEF j
    <2> QED
      BY <1>1, <1>3, <1>5, ConcatAssociative, SMTT(120)
  <1>8. PartsFrom(j + 1) \o CodeFields \in Seq(FieldSet)
    <2> HIDE DEF j
    <2> QED
      BY <1>3, <1>5, ConcatProperties
  <1>9. BehindIt = PartsFrom(j + 1) \o CodeFields
    BY <1>4 DEF BehindIt
  <1> QED
    BY <1>1, <1>2, <1>3, <1>4, <1>5, <1>6, <1>7, <1>8, <1>9 DEF NextLiteral

LEMMA BeginsWith ==
  ASSUME NEW a \in Seq(FieldSet), NEW rest \in Seq(FieldSet), file = a \o rest
  PROVE  /\ SubSeq(file, Len(a) + 1, Len(file)) = rest
         /\ \A i \in 1 .. Len(a) : \A width :
              Read(i, width) = IF a[i].width = width THEN a[i].value ELSE 0
  <1>1. /\ SubSeq(file, Len(a) + 1, Len(file)) = rest
        /\ \A i \in 1 .. Len(a) : file[i] = a[i]
        /\ Len(file) = Len(a) + Len(rest)
    BY BehindFirst
  <1>2. Len(a) \in Nat /\ Len(rest) \in Nat
    BY LenProperties
  <1>3. \A i \in 1 .. Len(a) : i <= Len(file)
    BY <1>1, <1>2
  <1> QED
    BY <1>1, <1>3 DEF Read

(* The three branches of deserialize_value.                                *)
LEMMA LiteralRead ==
  ASSUME FileRead, ConstantsRead, stage = "constants", expected > 0
  PROVE  /\ Read(1, "u8") = 0 => /\ NextLiteral.kind = "int" /\ NextLiteral.value \in Int
                                 /\ Read(2, "i32") = Signed(Unsigned(NextLiteral.value))
                                 /\ SubSeq(file, 3, Len(file)) = BehindIt
         /\ Read(1, "u8") = 1 => /\ NextLiteral.kind = "float"
                                 /\ NextLiteral.value \in -MaxFloat .. MaxFloat
                                 /\ Read(2, "f64") = NextLiteral.value
                                 /\ SubSeq(file, 3, Len(file)) = BehindIt
         /\ Read(1, "u8") = 2 => /\ NextLiteral.kind \in {"string", "native"}
                                 /\ NextLiteral.value \in Texts
                                 /\ Read(2, "i32") = Len(NextLiteral.value)
                                 /\ Read(3, "text") = NextLiteral.value
                                 /\ SubSeq(file, 4, Len(file)) = BehindIt
  <1> DEFINE lit  == NextLiteral
             rest == BehindIt
             a    == Encoded(lit)
  <1>1. lit \in Literals /\ a \in Seq(FieldSet) /\ rest \in Seq(FieldSet) /\ file = a \o rest
    BY LiteralIsNext
  <1> HIDE DEF lit, rest
  <1>2. /\ SubSeq(file, Len(a) + 1, Len(file)) = rest
        /\ \A i \in 1 .. Len(a) : \A width : Read(i, width) = IF a[i].width = width THEN a[i].value ELSE 0
    <2> HIDE DEF a
    <2> QED
      BY <1>1, BeginsWith
  <1> HIDE DEF a
  <1>3. CASE lit.kind = "int"
    <2>1. a = <<Field("u8", 0), Int32(lit.value)>> /\ lit.value \in Int
      BY <1>1, <1>3, LiteralFacts DEF a
    <2>2. Len(a) = 2 /\ a[1] = Field("u8", 0) /\ a[2] = Int32(lit.value)
      BY <2>1
    <2>3. Read(1, "u8") = 0 /\ Read(2, "i32") = Signed(Unsigned(lit.value))
      BY <1>2, <2>2 DEF Field, Int32
    <2> QED
      BY <1>2, <1>3, <2>1, <2>2, <2>3 DEF lit, rest
  <1>4. CASE lit.kind = "float"
    <2>1. /\ a = <<Field("u8", 1), Field("f64", lit.value)>>
          /\ lit.value \in -MaxFloat .. MaxFloat
      BY <1>1, <1>4, LiteralFacts DEF a
    <2>2. Len(a) = 2 /\ a[1] = Field("u8", 1) /\ a[2] = Field("f64", lit.value)
      BY <2>1
    <2>3. Read(1, "u8") = 1 /\ Read(2, "f64") = lit.value
      BY <1>2, <2>2 DEF Field
    <2> QED
      BY <1>2, <1>4, <2>1, <2>2, <2>3 DEF lit, rest
  <1>5. CASE lit.kind \in {"string", "native"}
    <2>1. /\ a = <<Field("u8", 2), Int32(Len(lit.value)), Field("text", lit.value)>>
          /\ lit.value \in Texts
      BY <1>1, <1>5, LiteralFacts DEF a
    <2>2. /\ Len(a) = 3 /\ a[1] = Field("u8", 2) /\ a[2] = Int32(Len(lit.value))
          /\ a[3] = Field("text", lit.value)
      BY <2>1
    <2>3. /\ Read(1, "u8") = 2 /\ Read(2, "i32") = Signed(Unsigned(Len(lit.value)))
          /\ Read(3, "text") = lit.value
      BY <1>2, <2>2 DEF Field, Int32
    <2>4. Signed(Unsigned(Len(lit.value))) = Len(lit.value)
      <3>1. Len(lit.value) \in Nat /\ Len(lit.value) < HIGH * HALF
        BY <2>1, LenProperties DEF Texts, Fits
      <3>2. Len(lit.value) \in -(HIGH * HALF) .. HIGH * HALF - 1
        BY <3>1, Widths
      <3> QED
        BY <3>2, SignedFacts
    <2> QED
      BY <1>2, <1>5, <2>1, <2>2, <2>3, <2>4 DEF lit, rest
  <1> QED
    BY <1>1, <1>3, <1>4, <1>5, LiteralFacts

(* One more constant.                                                      *)
LEMMA ConstantAdded ==
  ASSUME FileRead, ConstantsRead, Blocks, stage = "constants", expected > 0, Stays,
         UNCHANGED <<stage, argv, args>>, expected' = expected - 1, file' = BehindIt,
         NEW w \in Words, constants' = Append(constants, w),
         NEW literal, literal = NextLiteral, Loaded(w, literal)',
         Len(heap) \in Nat, Len(heap') \in Nat,
         \A i \in 1 .. Len(constants) : IS_PTR(w) => constants[i] # w
  PROVE  FileRead' /\ ConstantsRead'
  <1> DEFINE n == Len(constants)
  <1>1. /\ n \in Nat /\ n + 1 \in 1 .. Len(Program.constants) /\ Readable
        /\ constants \in Seq(Words)
    BY LiteralIsNext DEF ConstantsRead
  <1>2. /\ constants' \in Seq(Words) /\ Len(constants') = n + 1
        /\ constants'[n + 1] = w /\ \A i \in 1 .. n : constants'[i] = constants[i]
    BY <1>1, AppendProperties
  <1> HIDE DEF n
  <1>3. Program' = Program /\ Readable' /\ CodeFields' = CodeFields /\ Parts' = Parts
    BY <1>1 DEF Program, Readable, CodeFields, Parts, Rows
  <1>4. FileRead'
    <2>1. expected = Len(Program.constants) - n /\ argv \in CommandLines
      BY DEF FileRead, n
    <2>2. Len(Program.constants) \in Nat
      BY <1>1, ProgramFacts, LenProperties
    <2>3. expected' = Len(Program'.constants) - Len(constants') /\ expected' \in Nat
      BY <1>1, <1>2, <1>3, <2>1, <2>2
    <2>4. Len(constants') + 1 = n + 2
      BY <1>1, <1>2
    <2>5. file' = (PartsFrom(Len(constants) + 1) \o CodeFields)'
      BY <1>3, <2>4 DEF BehindIt, PartsFrom, n
    <2> QED
      BY <1>3, <2>1, <2>3, <2>5 DEF FileRead
  <1>5. \A i \in 1 .. n + 1 : i \in 1 .. n \/ i = n + 1
    BY <1>1
  <1>6. \A i \in 1 .. n + 1 : Loaded(constants[i], Program.constants[i])'
    <2> TAKE i \in 1 .. n + 1
    <2>1. PICK v, lit : v = constants'[i] /\ lit = Program.constants[i]
      OBVIOUS
    <2>2. CASE i \in 1 .. n
      <3>1. v = constants[i]
        BY <2>1, <2>2, <1>2
      <3>2. Loaded(v, lit)
        BY <2>1, <2>2, <3>1 DEF ConstantsRead, n
      <3>3. Loaded(v, lit)'
        BY <3>2, LoadedStays
      <3> QED
        BY <2>1, <3>3, <1>3
    <2>3. CASE i = n + 1
      <3>1. v = w /\ lit = literal
        BY <2>1, <2>3, <1>2 DEF NextLiteral, n
      <3> QED
        BY <2>1, <3>1, <1>3
    <2> QED
      BY <1>5, <2>2, <2>3
  <1>7. \A i, j \in 1 .. n + 1 : IS_PTR(constants'[i]) /\ constants'[i] = constants'[j] => i = j
    <2>1. \A i, j \in 1 .. n : IS_PTR(constants[i]) /\ constants[i] = constants[j] => i = j
      BY DEF ConstantsRead, n
    <2>2. \A i \in 1 .. n : IS_PTR(w) => constants[i] # w
      BY DEF n
    <2> QED
      BY <1>2, <1>5, <2>1, <2>2
  <1>8. ConstantsRead'
    BY <1>2, <1>6, <1>7 DEF ConstantsRead, BeforeConstants, HasRun
  <1> QED
    BY <1>4, <1>8

(* Only the strings among the constants are pointers.                      *)
LEMMA PointerConstants ==
  ASSUME FileRead, ConstantsRead, stage # "start", stage # "thrown",
         NEW i \in 1 .. Len(constants), IS_PTR(constants[i])
  PROVE  /\ Program.constants[i].kind \in {"string", "native"}
         /\ Points(constants[i], "TYPE_STRING")
  <1>1. Readable
    BY DEF FileRead
  <1>2. Len(constants) \in Nat /\ Len(Program.constants) \in Nat
    BY <1>1, ProgramFacts, LenProperties DEF ConstantsRead
  <1>3. Len(constants) <= Len(Program.constants)
    <2>1. CASE BeforeConstants
      BY <2>1, <1>2, EmptySeq DEF ConstantsRead
    <2>2. CASE stage = "constants"
      BY <2>2, <1>2 DEF FileRead
    <2>3. CASE HasRun
      BY <2>3, <1>2 DEF ConstantsRead
    <2> QED
      BY <2>1, <2>2, <2>3 DEF FileRead, BeforeConstants, HasRun
  <1>4. Program.constants[i] \in Literals
    <2>1. i \in 1 .. Len(Program.constants)
      BY <1>2, <1>3
    <2> QED
      BY <1>1, <2>1, ProgramFacts, ElementOfSeq
  <1>5. Loaded(constants[i], Program.constants[i])
    BY DEF ConstantsRead
  <1> QED
    BY <1>4, <1>5, LiteralFacts DEF Loaded, IS_PTR, MAKE_INTEGER, Word

LEMMA ConstantStep ==
  ASSUME FileRead, ConstantsRead, CodeRead, Blocks, CellsValid, ReadConstant, UNCHANGED strayed
  PROVE  FileRead' /\ ConstantsRead' /\ CodeRead' /\ Blocks' /\ CellsValid' /\ Stays
  <1>1. /\ stage = "constants" /\ expected > 0 /\ expected' = expected - 1
        /\ UNCHANGED <<stage, argv, args>>
    BY DEF ReadConstant
  <1>2. CodeRead'
    BY <1>1 DEF CodeRead, HasRun
  <1>3. Len(heap) \in Nat
    BY LenProperties DEF Blocks
  <1>4. PICK literal : literal = NextLiteral
    OBVIOUS
  <1>5. ASSUME UNCHANGED <<heap, memory>>, NEW w \in Words, ~IS_PTR(w), Loaded(w, literal),
               constants' = Append(constants, w), file' = BehindIt
        PROVE  FileRead' /\ ConstantsRead' /\ Blocks' /\ CellsValid' /\ Stays
    <2>1. Stays
      BY <1>1, <1>3, <1>5 DEF Stays
    <2>2. Blocks' /\ CellsValid'
      BY <1>1, <1>5 DEF Blocks, CellsValid, HoldsValid, Valid
    <2>3. Loaded(w, literal)'
      BY <1>3, <1>5, <2>1, LoadedStays
    <2> QED
      BY <1>1, <1>3, <1>4, <1>5, <2>1, <2>2, <2>3, ConstantAdded
  <1>6. CASE Read(1, "u8") = 0
    <2> DEFINE w == MAKE_INTEGER(literal.value)
    <2>1. /\ literal.kind = "int" /\ literal.value \in Int
          /\ Read(2, "i32") = Signed(Unsigned(literal.value))
          /\ SubSeq(file, 3, Len(file)) = BehindIt
      BY <1>1, <1>4, <1>6, LiteralRead
    <2>2. /\ constants' = Append(constants, MAKE_INTEGER(Read(2, "i32"))) /\ Skip(2)
          /\ UNCHANGED <<heap, memory>>
      BY <1>6 DEF ReadConstant
    <2>3. MAKE_INTEGER(Read(2, "i32")) = w
      BY <2>1, RoundTrip DEF MAKE_INTEGER
    <2>4. w \in Words /\ ~IS_PTR(w) /\ Loaded(w, literal)
      <3>1. PICK n \in Int : n = literal.value
        BY <2>1
      <3>2. Unsigned(n) \in Int
        BY Widths, UnsignedFacts
      <3> QED
        BY <2>1, <3>1, <3>2 DEF MAKE_INTEGER, Word, Words, Signatures, IS_PTR, Loaded
    <2>5. file' = BehindIt
      BY <2>1, <2>2 DEF Skip
    <2> HIDE DEF w
    <2> QED
      BY <1>2, <1>5, <2>2, <2>3, <2>4, <2>5
  <1>7. CASE Read(1, "u8") = 1
    <2> DEFINE w == Word("FLOAT", literal.value)
    <2>1. /\ literal.kind = "float" /\ literal.value \in -MaxFloat .. MaxFloat
          /\ Read(2, "f64") = literal.value
          /\ SubSeq(file, 3, Len(file)) = BehindIt
      BY <1>1, <1>4, <1>7, LiteralRead
    <2>2. /\ constants' = Append(constants, MAKE_FLOAT(Read(2, "f64"))) /\ Skip(2)
          /\ UNCHANGED <<heap, memory>>
      BY <1>7 DEF ReadConstant
    <2>3. MAKE_FLOAT(Read(2, "f64")) = w
      BY <2>1, WidthAssumption DEF MAKE_FLOAT
    <2>4. w \in Words /\ ~IS_PTR(w) /\ Loaded(w, literal)
      <3>1. literal.value \in Int
        BY <2>1, WidthAssumption
      <3> QED
        BY <2>1, <3>1 DEF Word, Words, Signatures, IS_PTR, Loaded
    <2>5. file' = BehindIt
      BY <2>1, <2>2 DEF Skip
    <2> HIDE DEF w
    <2> QED
      BY <1>2, <1>5, <2>2, <2>3, <2>4, <2>5
  <1>8. CASE Read(1, "u8") = 2
    <2>0. PICK w : w = MAKE_PTR(Len(heap) + 1)
      OBVIOUS
    <2>1. PICK text : text = literal.value
      OBVIOUS
    <2>2. /\ literal.kind \in {"string", "native"} /\ text \in Texts
          /\ Read(2, "i32") = Len(text) /\ Read(3, "text") = text
          /\ SubSeq(file, 4, Len(file)) = BehindIt
      BY <1>1, <1>4, <1>8, <2>1, LiteralRead
    <2>3. /\ memory' = Append(memory, text)
          /\ heap' = Append(heap, Object("TYPE_STRING", Len(text), Len(memory')))
          /\ constants' = Append(constants, MAKE_PTR(Len(heap')))
          /\ Skip(3)
      BY <1>8, <2>2 DEF ReadConstant
    <2>4. text \in Seq(Words \cup STRING) /\ Len(text) \in Int
      BY <2>2, SeqMonotonic, LenProperties DEF Texts
    <2>5. /\ Blocks' /\ CellsValid' /\ Stays
          /\ Len(heap') = Len(heap) + 1
          /\ heap'[Len(heap) + 1].type = "TYPE_STRING"
          /\ heap'[Len(heap) + 1].length = Len(text)
          /\ memory'[heap'[Len(heap) + 1].block] = text
      BY <1>1, <2>3, <2>4, NewObject DEF ObjectTypes
    <2>6. w \in Words /\ constants' = Append(constants, w) /\ file' = BehindIt
      BY <1>3, <2>0, <2>2, <2>3, <2>5 DEF MAKE_PTR, Word, Words, Signatures, Skip
    <2>7. Loaded(w, literal)'
      <3>1. Len(heap') \in Nat /\ Len(heap) + 1 \in 1 .. Len(heap')
        BY <1>3, <2>5
      <3> QED
        BY <2>0, <2>1, <2>2, <2>5, <3>1 DEF Loaded, Points, Cells, Length, IS_PTR, GET_PTR, MAKE_PTR, Word
    <2>8. \A i \in 1 .. Len(constants) : constants[i] # w
      <3> SUFFICES ASSUME NEW i \in 1 .. Len(constants), constants[i] = w PROVE FALSE
        OBVIOUS
      <3>1. Points(w, "TYPE_STRING")
        BY <1>1, <2>0, PointerConstants DEF IS_PTR, MAKE_PTR, Word
      <3> QED
        BY <1>3, <2>0, <3>1 DEF Points, GET_PTR, MAKE_PTR, Word
    <2>9. FileRead' /\ ConstantsRead'
      <3>1. Len(heap') \in Nat
        BY <1>3, <2>5
      <3> QED
        BY <1>1, <1>3, <1>4, <2>5, <2>6, <2>7, <2>8, <3>1, ConstantAdded
    <2> QED
      BY <1>2, <2>5, <2>9
  <1> QED
    BY <1>6, <1>7, <1>8 DEF ReadConstant

LEMMA CodeStep ==
  ASSUME FileRead, ConstantsRead, Blocks, CellsValid, ReadCode, UNCHANGED strayed
  PROVE  FileRead' /\ ConstantsRead' /\ CodeRead' /\ Blocks' /\ CellsValid'
  <1>1. /\ stage = "constants" /\ expected = 0 /\ stage' = "arguments" /\ Readable
        /\ UNCHANGED <<argv, heap, memory, constants, args>>
        /\ Len(constants) = Len(Program.constants)
    <2>1. stage = "constants" /\ expected = Len(Program.constants) - Len(constants) /\ Readable /\ expected = 0
      BY DEF ReadCode, FileRead
    <2>2. Len(constants) \in Nat /\ Len(Program.constants) \in Nat
      BY <2>1, ProgramFacts, LenProperties DEF ConstantsRead
    <2>3. Len(constants) = Len(Program.constants)
      <3>1. \A a, b \in Nat : 0 = a - b => b = a
        OBVIOUS
      <3>2. 0 = Len(Program.constants) - Len(constants)
        BY <2>1
      <3> QED
        BY <2>2, <3>1, <3>2
    <2> QED
      BY <2>1, <2>3 DEF ReadCode
  <1>2. Program' = Program /\ Readable'
    BY <1>1 DEF Program, Readable
  <1>3. FileRead'
    BY <1>1, <1>2 DEF FileRead
  <1>4. ConstantsRead'
    BY <1>1, <1>2 DEF ConstantsRead, BeforeConstants, HasRun, Loaded, Points, Cells, Length
  <1>5. Blocks' /\ CellsValid'
    BY <1>1 DEF Blocks, CellsValid, HoldsValid, Valid
  <1> DEFINE code  == Program.code
             words == FlattenSeq(Rows)
             n     == Len(code)
             first == <<Int32(n)>>
  <1>6. /\ code \in Seq(Instructions) /\ n \in Nat /\ n < HIGH * HALF
        /\ Rows \in Seq(Seq(FieldSet)) /\ Len(Rows) = n /\ \A k \in 1 .. n : Len(Rows[k]) = 5
        /\ CodeFields \in Seq(FieldSet)
    BY <1>1, ProgramFacts, LenProperties DEF Fits
  <1>7. /\ words \in Seq(FieldSet) /\ Len(words) = 5 * n
        /\ \A k \in 1 .. n, i \in 1 .. 5 : words[5 * (k - 1) + i] = Rows[k][i]
    <2> HIDE DEF n, words, first, code
    <2>1. \A k \in 1 .. Len(Rows) : Len(Rows[k]) = 5
      BY <1>6
    <2>2. /\ FlattenSeq(Rows) \in Seq(FieldSet) /\ Len(FlattenSeq(Rows)) = 5 * Len(Rows)
          /\ \A k \in 1 .. Len(Rows), i \in 1 .. 5 : FlattenSeq(Rows)[5 * (k - 1) + i] = Rows[k][i]
      <3>1. PICK w \in Nat : w = 5
        OBVIOUS
      <3>2. Rows \in Seq(Seq(FieldSet)) /\ \A k \in 1 .. Len(Rows) : Len(Rows[k]) = w
        BY <1>6, <2>1, <3>1
      <3>3. /\ FlattenSeq(Rows) \in Seq(FieldSet) /\ Len(FlattenSeq(Rows)) = w * Len(Rows)
            /\ \A k \in 1 .. Len(Rows), i \in 1 .. w : FlattenSeq(Rows)[w * (k - 1) + i] = Rows[k][i]
        <4>1. PICK rows \in Seq(Seq(FieldSet)) : rows = Rows
          BY <3>2
        <4>2. rows \in Seq(Seq(FieldSet)) /\ w \in Nat
          BY <3>1, <4>1
        <4>3. \A k \in 1 .. Len(rows) : Len(rows[k]) = w
          BY <3>2, <4>1
        <4>4. /\ FlattenSeq(rows) \in Seq(FieldSet) /\ Len(FlattenSeq(rows)) = w * Len(rows)
              /\ \A k \in 1 .. Len(rows), i \in 1 .. w : FlattenSeq(rows)[w * (k - 1) + i] = rows[k][i]
          <5>1. FlattenSeq(rows) \in Seq(FieldSet)
            BY <4>2, <4>3, FlattenRows
          <5>2. Len(FlattenSeq(rows)) = w * Len(rows)
            BY <4>2, <4>3, FlattenRows
          <5>3. ASSUME NEW k \in 1 .. Len(rows), NEW i \in 1 .. w PROVE FlattenSeq(rows)[w * (k - 1) + i] = rows[k][i]
            BY <4>2, <4>3, FlattenRows, ZenonT(40)
          <5> QED
            BY <5>1, <5>2, <5>3
        <4> QED
          BY <4>1, <4>4, Zenon
      <3> QED
        BY <3>1, <3>3
    <2> QED
      BY <1>6, <2>2 DEF words
  <1>8. file = CodeFields /\ CodeFields = first \o words
    <2>1. Len(constants) + 1 = Len(Parts) + 1
      BY <1>1, ProgramFacts
    <2>2. PartsFrom(Len(constants) + 1) = <<>>
      BY <1>1, <2>1, PartsFacts
    <2>3. file = <<>> \o CodeFields
      BY <1>1, <2>2 DEF FileRead
    <2>4. <<>> \o CodeFields = CodeFields
      BY <1>6, ConcatEmptySeq
    <2> QED
      BY <2>3, <2>4 DEF CodeFields
  <1>9. first \in Seq(FieldSet) /\ Len(first) = 1 /\ first[1] = Int32(n)
    <2>1. Int32(n) \in FieldSet
      BY <1>6, Int32Facts
    <2> QED
      BY <2>1
  <1>10. n \in -(HIGH * HALF) .. HIGH * HALF - 1
    BY <1>6, Widths
  <1>11. Int32(n).width = "i32" /\ Int32(n).value = n
    BY <1>6, <1>10, Int32Facts, SignedFacts
  <1> HIDE DEF words, first
  <1>12. /\ Len(file) = 1 + 5 * n /\ file[1] = Int32(n)
         /\ \A i \in 1 .. 5 * n : file[i + 1] = words[i]
    <2>1. /\ Len(first \o words) = Len(first) + Len(words)
          /\ \A i \in 1 .. Len(first) + Len(words) :
               (first \o words)[i] = IF i <= Len(first) THEN first[i] ELSE words[i - Len(first)]
      BY <1>7, <1>9, ConcatProperties
    <2> HIDE DEF n
    <2>2. Len(file) = 1 + 5 * n
      BY <1>7, <1>8, <1>9, <2>1
    <2>3. file[1] = Int32(n)
      BY <1>6, <1>7, <1>8, <1>9, <2>1
    <2>4. ASSUME NEW i \in 1 .. 5 * n PROVE file[i + 1] = words[i]
      <3>1. i + 1 \in 1 .. 1 + 5 * n /\ ~(i + 1 <= 1) /\ (i + 1) - 1 = i
        BY <1>6
      <3> QED
        BY <1>7, <1>8, <1>9, <2>1, <3>1
    <2> QED
      BY <2>2, <2>3, <2>4
  <1>13. Read(1, "i32") = n
    <2> HIDE DEF n
    <2> QED
      BY <1>6, <1>11, <1>12 DEF Read
  <1>14. instrs' = [i \in 1 .. n * 5 |-> Read(i + 1, "i32")]
    BY <1>13 DEF ReadCode
  <1>15. n * 5 \in Nat /\ n * 5 = 5 * n
    <2> HIDE DEF n
    <2> QED
      BY <1>6
  <1>16. Len(instrs') = 5 * n
    <2> HIDE DEF n
    <2> QED
      BY <1>14, <1>15
  <1>17. ASSUME NEW k \in 1 .. n, NEW i \in 1 .. Len(code[k])
         PROVE  instrs'[5 * (k - 1) + i] = code[k][i]
    <2>1. code[k] \in Instructions
      BY <1>6, ElementOfSeq
    <2>2. i \in 1 .. 5 /\ Padded(code[k])[i] = code[k][i]
      <3>1. Len(code[k]) \in 0 .. 5 /\ Padded(code[k])[i] = code[k][i]
        BY <2>1, PaddedFacts
      <3>2. PICK m \in 0 .. 5 : m = Len(code[k])
        BY <3>1
      <3>3. i \in 1 .. m
        BY <3>2
      <3>4. i \in 1 .. 5
        BY <3>3
      <3> QED
        BY <3>1, <3>4
    <2>3. Padded(code[k])[i] \in -(HIGH * HALF) .. HIGH * HALF - 1 /\ Len(Padded(code[k])) = 5
      BY <2>1, <2>2, PaddedFacts
    <2>4. Rows[k][i] = Int32(code[k][i])
      BY <2>2, <2>3 DEF Rows
    <2>5. Int32(code[k][i]).width = "i32" /\ Int32(code[k][i]).value = code[k][i]
      <3>1. PICK m \in -(HIGH * HALF) .. HIGH * HALF - 1 : m = code[k][i]
        BY <2>2, <2>3
      <3>2. m \in Int
        BY Widths
      <3>3. Int32(m).width = "i32" /\ Int32(m).value = m
        BY <3>2, Int32Facts, SignedFacts
      <3> QED
        BY <3>1, <3>3
    <2> DEFINE p == 5 * (k - 1) + i
    <2>6. p \in 1 .. n * 5 /\ p \in 1 .. 5 * n
      <3> HIDE DEF n, code
      <3> QED
        BY <1>6, <2>2
    <2>7. words[p] = Rows[k][i]
      BY <1>7, <2>2
    <2> HIDE DEF p, n, code
    <2>8. file[p + 1] = Int32(code[k][i]) /\ p + 1 <= Len(file)
      BY <1>6, <1>12, <2>4, <2>6, <2>7
    <2>9. Read(p + 1, "i32") = code[k][i]
      BY <2>5, <2>8 DEF Read
    <2> QED
      BY <1>14, <2>6, <2>9 DEF p
  <1>18. CodeRead'
    BY <1>2, <1>16, <1>17 DEF CodeRead
  <1> QED
    BY <1>3, <1>4, <1>5, <1>18

(* Every argument gets an object, and module.argv points to them.          *)
LEMMA ArgumentsStep ==
  ASSUME FileRead, ConstantsRead, CodeRead, Blocks, CellsValid, PassArguments, UNCHANGED strayed
  PROVE  FileRead' /\ ConstantsRead' /\ CodeRead' /\ Blocks' /\ CellsValid' /\ ArgumentsPassed'
         /\ Stays /\ Len(heap) \in Nat /\ Len(heap') \in Nat
  <1> DEFINE H == [type : ObjectTypes, length : Int, block : Nat]
             C == Seq(Words \cup STRING)
             h == Len(heap)
             m == Len(memory)
             n == Len(argv)
             objects  == [i \in 1 .. n |-> Object("TYPE_STRING", 1, m + i)]
             texts    == [i \in 1 .. n |-> <<argv[i]>>]
             pointers == [i \in 1 .. n |-> MAKE_PTR(h + i)]
  <1>1. /\ stage = "arguments" /\ stage' = "running" /\ Readable
        /\ heap' = heap \o objects
        /\ memory' = memory \o texts \o <<pointers>>
        /\ args' = Len(memory')
        /\ UNCHANGED <<argv, file, handles, expected, constants, instrs>>
    BY DEF PassArguments, FileRead
  <1>2. /\ heap \in Seq(H) /\ memory \in Seq(C) /\ h \in Nat /\ m \in Nat
        /\ argv \in Seq(STRING) /\ n \in Nat
    BY LoaderAssumption, LenProperties DEF Blocks, FileRead
  <1> HIDE DEF h, m, n
  <1>3. objects \in Seq(H) /\ Len(objects) = n /\ \A i \in 1 .. n : objects[i] = Object("TYPE_STRING", 1, m + i)
    <2>1. \A i \in 1 .. n : Object("TYPE_STRING", 1, m + i) \in H
      BY <1>2 DEF Object, ObjectTypes
    <2>2. objects \in [1 .. n -> H]
      <3> HIDE DEF H
      <3> QED
        BY <2>1
    <2>3. \A i \in 1 .. n : objects[i] = Object("TYPE_STRING", 1, m + i)
      OBVIOUS
    <2> HIDE DEF objects, H
    <2>4. objects \in Seq(H) /\ Len(objects) = n
      BY <1>2, <2>2, FunctionIsSeq
    <2> QED
      BY <2>3, <2>4
  <1>4. texts \in Seq(C) /\ Len(texts) = n /\ \A i \in 1 .. n : texts[i] = <<argv[i]>>
    <2>1. \A i \in 1 .. n : <<argv[i]>> \in C
      <3> TAKE i \in 1 .. n
      <3>1. PICK v \in STRING : v = argv[i]
        BY <1>2, ElementOfSeq DEF n
      <3>2. <<v>> \in C
        BY <3>1
      <3> QED
        BY <3>1, <3>2
    <2>2. texts \in [1 .. n -> C]
      <3> HIDE DEF C
      <3> QED
        BY <2>1
    <2> QED
      BY <1>2, <2>2, FunctionIsSeq
  <1>5. /\ pointers \in C /\ Len(pointers) = n
        /\ \A i \in 1 .. n : pointers[i] = MAKE_PTR(h + i) /\ pointers[i] \in Words
    <2>1. \A i \in 1 .. n : MAKE_PTR(h + i) \in Words
      BY <1>2 DEF MAKE_PTR, Word, Words, Signatures
    <2>2. pointers \in [1 .. n -> Words \cup STRING]
      <3> HIDE DEF C
      <3> QED
        BY <2>1
    <2> QED
      BY <1>2, <2>1, <2>2, FunctionIsSeq
  <1> HIDE DEF H, C, objects, texts, pointers
  <1>6. /\ heap' \in Seq(H) /\ Len(heap') = h + n
        /\ \A a \in 1 .. h : heap'[a] = heap[a]
        /\ \A i \in 1 .. n : heap'[h + i] = Object("TYPE_STRING", 1, m + i)
    <2>1. /\ heap' \in Seq(H) /\ Len(heap') = h + n
          /\ \A a \in 1 .. h + n : heap'[a] = IF a <= h THEN heap[a] ELSE objects[a - h]
      BY <1>1, <1>2, <1>3, ConcatProperties DEF h
    <2>2. \A a \in 1 .. h : a \in 1 .. h + n /\ a <= h
      BY <1>2
    <2>3. \A i \in 1 .. n : h + i \in 1 .. h + n /\ ~(h + i <= h) /\ (h + i) - h = i
      BY <1>2
    <2> QED
      BY <1>3, <2>1, <2>2, <2>3
  <1>7. /\ memory' \in Seq(C) /\ Len(memory') = m + n + 1
        /\ \A b \in 1 .. m : memory'[b] = memory[b]
        /\ \A i \in 1 .. n : memory'[m + i] = <<argv[i]>>
        /\ memory'[m + n + 1] = pointers
    <2> DEFINE s == memory \o texts
    <2>1. /\ s \in Seq(C) /\ Len(s) = m + n
          /\ \A b \in 1 .. m + n : s[b] = IF b <= m THEN memory[b] ELSE texts[b - m]
      BY <1>2, <1>4, ConcatProperties DEF m
    <2>2. memory' = Append(s, pointers)
      BY <1>1, <1>5, <2>1, AppendIsConcat
    <2> HIDE DEF s
    <2>3. /\ memory' \in Seq(C) /\ Len(memory') = m + n + 1 /\ memory'[m + n + 1] = pointers
          /\ \A b \in 1 .. m + n : memory'[b] = s[b]
      BY <1>5, <2>1, <2>2, AppendProperties
    <2>4. \A b \in 1 .. m : b \in 1 .. m + n /\ b <= m
      BY <1>2
    <2>5. \A i \in 1 .. n : m + i \in 1 .. m + n /\ ~(m + i <= m) /\ (m + i) - m = i
      BY <1>2
    <2> QED
      BY <1>4, <2>1, <2>3, <2>4, <2>5
  <1>8. /\ \A a \in 1 .. h : heap[a].block \in 1 .. m
        /\ \A a, b \in 1 .. h : heap[a].block = heap[b].block => a = b
    BY DEF Blocks, h, m
  <1>9. \A a \in 1 .. h + n : a \in 1 .. h \/ \E i \in 1 .. n : a = h + i
    <2> TAKE a \in 1 .. h + n
    <2>1. CASE a <= h
      BY <1>2, <2>1
    <2>2. CASE a > h
      <3>1. a - h \in 1 .. n /\ a = h + (a - h)
        BY <1>2, <2>2
      <3> QED
        BY <3>1
    <2> QED
      BY <1>2, <2>1, <2>2
  <1>10. args' = m + n + 1 /\ args' # 0
    BY <1>1, <1>2, <1>7
  <1>11. Blocks'
    <2>1. args' \in 0 .. Len(memory')
      BY <1>2, <1>7, <1>10
    <2>2. ASSUME NEW i \in 1 .. n PROVE heap'[h + i].block = m + i
      <3>1. heap'[h + i] = Object("TYPE_STRING", 1, m + i)
        BY <1>6
      <3> QED
        BY <3>1 DEF Object
    <2>3. ASSUME NEW a \in 1 .. h + n
          PROVE  /\ heap'[a].block \in 1 .. m + n + 1 /\ heap'[a].block # args'
                 /\ a \in 1 .. h => heap'[a].block = heap[a].block /\ heap'[a].block \in 1 .. m
                 /\ a \notin 1 .. h => a - h \in 1 .. n /\ heap'[a].block = m + (a - h)
      <3>1. CASE a \in 1 .. h
        <4>1. heap'[a] = heap[a] /\ heap[a].block \in 1 .. m
          BY <3>1, <1>6, <1>8
        <4> QED
          BY <3>1, <4>1, <1>2, <1>10
      <3>2. CASE a \notin 1 .. h
        <4>1. PICK i \in 1 .. n : a = h + i
          BY <3>2, <1>9
        <4>2. heap'[a].block = m + i /\ i = a - h
          BY <4>1, <2>2, <1>2
        <4> QED
          BY <3>2, <4>1, <4>2, <1>2, <1>10
      <3> QED
        BY <3>1, <3>2
    <2>4. ASSUME NEW a \in 1 .. h + n, NEW b \in 1 .. h + n, heap'[a].block = heap'[b].block
          PROVE  a = b
      <3>1. CASE a \in 1 .. h /\ b \in 1 .. h
        BY <3>1, <2>3, <2>4, <1>8
      <3>2. CASE a \in 1 .. h /\ b \notin 1 .. h
        BY <3>2, <2>3, <2>4, <1>2
      <3>3. CASE a \notin 1 .. h /\ b \in 1 .. h
        BY <3>3, <2>3, <2>4, <1>2
      <3>4. CASE a \notin 1 .. h /\ b \notin 1 .. h
        <4>1. m + (a - h) = m + (b - h) /\ a - h \in 1 .. n /\ b - h \in 1 .. n
          BY <3>4, <2>3, <2>4
        <4> QED
          BY <4>1, <1>2
      <3> QED
        BY <3>1, <3>2, <3>3, <3>4
    <2> QED
      BY <1>6, <1>7, <2>1, <2>3, <2>4 DEF Blocks, H, C
  <1>12. \A a \in 1 .. h : heap'[a] = heap[a] /\ memory'[heap[a].block] = memory[heap[a].block]
    BY <1>6, <1>7, <1>8
  <1>13. Stays /\ Len(heap) \in Nat /\ Len(heap') \in Nat
    <2>1. args = 0
      BY <1>1 DEF ConstantsRead
    <2>2. h <= Len(heap') /\ Len(heap') \in Nat
      BY <1>2, <1>6
    <2> QED
      BY <1>2, <1>12, <2>1, <2>2 DEF Stays, h
  <1>14. \A w : Valid(w) => Valid(w)'
    BY <1>2, <1>6, <1>13, ValidStays DEF H, Stays
  <1>15. CellsValid'
    <2>1. ASSUME NEW a \in 1 .. h + n
          PROVE  /\ heap'[a].type # "TYPE_STRING" => HoldsValid(memory[heap[a].block])'
                 /\ heap'[a].type = "TYPE_MUTABLE" => Len(memory'[heap'[a].block]) = 1
                 /\ ~strayed' => heap'[a].length = Len(memory'[heap'[a].block])
      <3>1. CASE a \in 1 .. h
        <4>1. heap'[a] = heap[a] /\ memory'[heap[a].block] = memory[heap[a].block]
          BY <3>1, <1>12
        <4>2. /\ heap[a].type # "TYPE_STRING" => HoldsValid(memory[heap[a].block])
              /\ heap[a].type = "TYPE_MUTABLE" => Len(memory[heap[a].block]) = 1
              /\ ~strayed => heap[a].length = Len(memory[heap[a].block])
          BY <3>1 DEF CellsValid, h
        <4> QED
          BY <4>1, <4>2, <1>14 DEF HoldsValid
      <3>2. CASE a \notin 1 .. h
        <4>1. PICK i \in 1 .. n : a = h + i
          BY <3>2, <1>9
        <4>2. heap'[a].type = "TYPE_STRING" /\ heap'[a].length = 1 /\ heap'[a].block = m + i
          <5>1. heap'[a] = Object("TYPE_STRING", 1, m + i)
            BY <4>1, <1>6
          <5> QED
            BY <5>1 DEF Object
        <4>3. memory'[m + i] = <<argv[i]>> /\ Len(<<argv[i]>>) = 1
          BY <1>7
        <4> QED
          BY <4>2, <4>3
      <3> QED
        BY <3>1, <3>2
    <2>2. HoldsValid(memory[args])'
      <3>1. PICK cells : cells = pointers /\ cells = memory'[args']
        BY <1>7, <1>10
      <3>2. ASSUME NEW i \in 1 .. n PROVE Valid(cells[i])'
        <4>1. cells[i] = MAKE_PTR(h + i) /\ cells[i] \in Words
          BY <3>1, <1>5
        <4>2. cells[i].payload \in 0 .. Len(heap')
          BY <4>1, <1>2, <1>6 DEF MAKE_PTR, Word
        <4> QED
          BY <4>1, <4>2 DEF Valid, GET_PTR
      <3>3. Len(cells) = n
        BY <3>1, <1>5
      <3> QED
        BY <3>1, <3>2, <3>3 DEF HoldsValid
    <2> QED
      BY <1>6, <2>1, <2>2 DEF CellsValid
  <1>16. ArgumentsPassed'
    <2>1. memory'[args'] = pointers /\ Len(pointers) = n
      BY <1>5, <1>7, <1>10
    <2>2. ASSUME NEW i \in 1 .. n PROVE Points(memory[args][i], "TYPE_STRING")'
      <3>1. memory'[args'][i] = MAKE_PTR(h + i)
        BY <2>1, <1>5
      <3>2. h + i \in 1 .. Len(heap')
        BY <1>2, <1>6
      <3>3. heap'[h + i].type = "TYPE_STRING"
        <4>1. heap'[h + i] = Object("TYPE_STRING", 1, m + i)
          BY <1>6
        <4> QED
          BY <4>1 DEF Object
      <3> QED
        BY <3>1, <3>2, <3>3 DEF Points, IS_PTR, GET_PTR, MAKE_PTR, Word
    <2> QED
      BY <1>1, <1>10, <2>1, <2>2 DEF ArgumentsPassed, n
  <1>17. Program' = Program /\ Readable'
    BY <1>1 DEF Program, Readable
  <1>18. FileRead'
    BY <1>1, <1>17 DEF FileRead
  <1>19. CodeRead'
    BY <1>1, <1>17 DEF CodeRead, HasRun
  <1>20. ConstantsRead'
    <2>1. \A w, literal : Loaded(w, literal) => Loaded(w, literal)'
      BY <1>13, LoadedStays
    <2> QED
      BY <1>1, <1>17, <2>1 DEF ConstantsRead, BeforeConstants, HasRun
  <1> QED
    BY <1>11, <1>13, <1>15, <1>16, <1>18, <1>19, <1>20
-----------------------------------------------------------------------------
(* Equality is defined, level by level.                                    *)
Level(n, e) == [p \in Words \X Words |-> IF n = 0 THEN THROWN ELSE Compared(p[1], p[2], e)]

Leveled(f, n) == f = [k \in 0 .. n |-> Level(k, f[k - 1])]

LEMMA EqualityDefined == Leveled(Equality, TypeDepth)
  <1> DEFINE T == {n \in Nat : \E f : Leveled(f, n)}
  <1>1. 0 \in T
    <2> DEFINE f == [k \in 0 .. 0 |-> Level(k, 0)]
    <2>1. \A e : Level(0, e) = Level(0, 0)
      BY DEF Level
    <2>2. \A k \in 0 .. 0 : k = 0
      OBVIOUS
    <2>3. Leveled(f, 0)
      <3>1. f = [k \in 0 .. 0 |-> Level(k, f[k - 1])]
        BY <2>1, <2>2
      <3> QED
        BY <3>1 DEF Leveled
    <2> QED
      BY <2>3
  <1>2. ASSUME NEW n \in T PROVE n + 1 \in T
    <2>1. n \in Nat
      OBVIOUS
    <2>2. PICK f : Leveled(f, n)
      BY <1>2
    <2> DEFINE g == [k \in 0 .. n + 1 |-> IF k = n + 1 THEN Level(k, f[n]) ELSE f[k]]
    <2>3. \A k \in 0 .. n : f[k] = Level(k, f[k - 1])
      BY <2>2 DEF Leveled
    <2>4. \A k \in 0 .. n + 1 : g[k] = Level(k, g[k - 1])
      <3> SUFFICES ASSUME NEW k \in 0 .. n + 1 PROVE g[k] = Level(k, g[k - 1])
        OBVIOUS
      <3>1. CASE k = n + 1
        <4>1. n \in 0 .. n + 1 /\ k - 1 = n /\ n # n + 1
          BY <2>1, <3>1
        <4>2. g[k - 1] = f[n]
          BY <4>1
        <4> QED
          BY <3>1, <4>2
      <3>2. CASE k \in 1 .. n
        <4>1. k - 1 \in 0 .. n + 1 /\ k - 1 # n + 1 /\ k # n + 1 /\ k \in 0 .. n
          BY <2>1, <3>2
        <4>2. g[k - 1] = f[k - 1] /\ g[k] = f[k]
          BY <4>1
        <4> HIDE DEF g
        <4> QED
          BY <2>3, <4>1, <4>2
      <3>3. CASE k = 0
        <4>1. g[k] = f[0] /\ 0 \in 0 .. n
          BY <2>1, <3>3
        <4>2. f[0] = Level(0, f[0 - 1])
          BY <2>3, <4>1
        <4>3. \A d, e : Level(0, d) = Level(0, e)
          BY DEF Level
        <4> HIDE DEF g
        <4> QED
          BY <3>3, <4>1, <4>2, <4>3
      <3>4. k = n + 1 \/ k \in 1 .. n \/ k = 0
        BY <2>1
      <3> QED
        BY <3>1, <3>2, <3>3, <3>4
    <2>5. Leveled(g, n + 1)
      <3>1. g = [k \in 0 .. n + 1 |-> g[k]]
        OBVIOUS
      <3> HIDE DEF g
      <3>2. [k \in 0 .. n + 1 |-> g[k]] = [k \in 0 .. n + 1 |-> Level(k, g[k - 1])]
        BY <2>4
      <3> QED
        BY <3>1, <3>2 DEF Leveled
    <2> HIDE DEF g
    <2> QED
      BY <2>1, <2>5
  <1>3. T = Nat
    <2>1. T \in SUBSET Nat
      OBVIOUS
    <2> HIDE DEF T
    <2> QED
      BY <1>1, <1>2, <2>1, SetInduction
  <1>4. \E f : Leveled(f, TypeDepth)
    BY <1>3, MachineAssumption
  <1>5. Equality = CHOOSE f : Leveled(f, TypeDepth)
    BY DEF Equality, Leveled, Level
  <1> HIDE DEF T
  <1> QED
    BY <1>4, <1>5

(* Behind a pointer there is an object, with cells of its own.             *)
LEMMA TypeFacts ==
  ASSUME NEW w, Valid(w), Blocks
  PROVE  /\ GetType(w) \in ObjectTypes => Points(w, GetType(w))
         /\ GetType(w) = "TYPE_INTEGER" <=> w.signature = "INTEGER"
         /\ GetType(w) = "TYPE_FLOAT" <=> w.signature = "FLOAT"
         /\ GetType(w) = "TYPE_FUNCTION" <=> w.signature = "FUNCTION"
         /\ w.payload \in Int
         /\ w = Word(w.signature, w.payload)
  <1>1. w \in Words /\ w.signature \in Signatures /\ w.payload \in Int /\ w = Word(w.signature, w.payload)
    BY DEF Valid, Words, Word
  <1>2. Len(heap) \in Nat
    BY LenProperties DEF Blocks
  <1>3. \A a \in 1 .. Len(heap) : heap[a].type \in ObjectTypes
    <2> TAKE a \in 1 .. Len(heap)
    <2>1. heap[a] \in [type : ObjectTypes, length : Int, block : Nat]
      BY ElementOfSeq DEF Blocks
    <2> QED
      BY <2>1
  <1>4. CASE w.signature = "POINTER" /\ w.payload # 0
    <2>1. w.payload \in 1 .. Len(heap) /\ GetType(w) = heap[w.payload].type
      BY <1>1, <1>2, <1>4 DEF Valid, IS_PTR, GET_PTR, GetType
    <2> QED
      BY <1>1, <1>3, <1>4, <2>1 DEF ObjectTypes, Points, IS_PTR, GET_PTR
  <1>5. CASE ~(w.signature = "POINTER" /\ w.payload # 0)
    BY <1>1, <1>5 DEF ObjectTypes, IS_PTR, GET_PTR, GetType, Signatures
  <1> QED
    BY <1>4, <1>5

LEMMA CellsFacts ==
  ASSUME NEW w, NEW t \in ObjectTypes, Points(w, t), Blocks, CellsValid
  PROVE  /\ Cells(w) \in Seq(Words \cup STRING) /\ Len(Cells(w)) \in Nat
         /\ Length(w) \in Int
         /\ t # "TYPE_STRING" => HoldsValid(Cells(w))
         /\ t = "TYPE_MUTABLE" => Len(Cells(w)) = 1
         /\ ~strayed => Length(w) = Len(Cells(w))
  <1> DEFINE a == GET_PTR(w)
  <1>1. a \in 1 .. Len(heap) /\ heap[a].type = t
    BY DEF Points
  <1>2. /\ Cells(w) = memory[heap[a].block] /\ Length(w) = heap[a].length
    BY DEF Cells, Length
  <1> HIDE DEF a
  <1>3. heap[a].block \in 1 .. Len(memory) /\ memory \in Seq(Seq(Words \cup STRING))
    BY <1>1 DEF Blocks
  <1>4. Cells(w) \in Seq(Words \cup STRING)
    BY <1>2, <1>3, ElementOfSeq
  <1>5. Len(Cells(w)) \in Nat
    BY <1>4, LenProperties
  <1>6. heap[a].length \in Int
    <2> DEFINE H == [type : ObjectTypes, length : Int, block : Nat]
    <2>1. heap[a] \in H
      BY <1>1, ElementOfSeq DEF Blocks
    <2> QED
      BY <2>1
  <1> QED
    BY <1>1, <1>2, <1>4, <1>5, <1>6 DEF CellsValid

LEMMA ElementValid ==
  ASSUME NEW w, Points(w, "TYPE_LIST"), Blocks, CellsValid, NEW i \in Nat
  PROVE  Valid(Element(w, i))
  <1>1. HoldsValid(Cells(w)) /\ Len(Cells(w)) \in Nat
    BY CellsFacts DEF ObjectTypes
  <1>2. CASE i < Len(Cells(w))
    BY <1>1, <1>2 DEF HoldsValid, Element
  <1>3. CASE ~(i < Len(Cells(w)))
    BY <1>3 DEF Element, Garbage, Valid, Word, Words, Signatures, IS_PTR
  <1> QED
    BY <1>2, <1>3

(* value_eq answers, or ends the process.                                  *)
LEMMA EqualityAnswers ==
  ASSUME Blocks, CellsValid, NEW a, NEW b, Valid(a), Valid(b)
  PROVE  value_eq(a, b) \in {0, 1, THROWN}
  <1> DEFINE Answers(e) == \A v, w : Valid(v) /\ Valid(w) => e[<<v, w>>] \in {0, 1, THROWN}
             T == {n \in Nat : n <= TypeDepth => Answers(Equality[n])}
  <1>1. TypeDepth \in Nat
    BY MachineAssumption
  <1>2. \A n \in 0 .. TypeDepth : Equality[n] = Level(n, Equality[n - 1])
    BY EqualityDefined DEF Leveled
  <1>3. 0 \in T
    <2>1. Equality[0] = Level(0, Equality[0 - 1])
      BY <1>1, <1>2
    <2>2. Answers(Equality[0])
      BY <2>1 DEF Level, Valid
    <2> HIDE DEF Answers
    <2> QED
      BY <2>2
  <1>4. ASSUME NEW n \in T PROVE n + 1 \in T
    <2> SUFFICES ASSUME n + 1 <= TypeDepth PROVE Answers(Equality[n + 1])
      OBVIOUS
    <2>1. n \in Nat /\ Answers(Equality[n]) /\ n + 1 \in 0 .. TypeDepth /\ (n + 1) - 1 = n
      BY <1>1
    <2>2. Equality[n + 1] = Level(n + 1, Equality[n])
      BY <1>2, <2>1
    <2>3. PICK e : e = Equality[n] /\ Answers(e)
      BY <2>1
    <2>4. ASSUME NEW v, NEW w, Valid(v), Valid(w) PROVE Compared(v, w, e) \in {0, 1, THROWN}
      <3>1. \A p : Bit(p) \in {0, 1}
        BY DEF Bit
      <3>2. CASE GetType(w) # GetType(v)
        BY <3>2 DEF Compared
      <3>3. CASE GetType(w) = GetType(v) /\ GetType(v) = "TYPE_LIST"
        <4>1. Points(v, "TYPE_LIST") /\ Points(w, "TYPE_LIST") /\ Length(v) \in Int
          BY <2>4, <3>3, TypeFacts, CellsFacts DEF ObjectTypes
        <4> DEFINE Elements(i) == e[<<Element(v, i), Element(w, i)>>]
                   Differ == {i \in 0 .. Length(v) - 1 : Elements(i) # 1}
                   least == CHOOSE i \in Differ : \A j \in Differ : i <= j
        <4>2. \A i \in Nat : Elements(i) \in {0, 1, THROWN}
          BY <2>3, <4>1, ElementValid
        <4>3. ASSUME Differ # {} PROVE least \in Nat
          <5>1. Differ \in SUBSET Nat
            BY <4>1
          <5> HIDE DEF Differ
          <5>2. \E i \in Differ : \A j \in Differ : i <= j
            BY <4>3, <5>1, Least
          <5> QED
            BY <5>1, <5>2
        <4>4. Compared(v, w, e) = IF ~SameLength(v, w) THEN 0 ELSE IF Differ = {} THEN 1 ELSE Elements(least)
          BY <3>3 DEF Compared
        <4> HIDE DEF Elements, Differ, least
        <4> QED
          BY <4>2, <4>3, <4>4
      <3>4. CASE GetType(w) = GetType(v) /\ GetType(v) = "TYPE_MUTABLE"
        <4>1. Points(v, "TYPE_MUTABLE") /\ Points(w, "TYPE_MUTABLE")
          BY <2>4, <3>4, TypeFacts DEF ObjectTypes
        <4>2. Valid(Cells(v)[1]) /\ Valid(Cells(w)[1])
          BY <4>1, CellsFacts DEF ObjectTypes, HoldsValid
        <4> QED
          BY <2>3, <3>4, <4>2 DEF Compared
      <3>5. CASE GetType(w) = GetType(v) /\ GetType(v) \notin {"TYPE_LIST", "TYPE_MUTABLE"}
        BY <3>1, <3>5 DEF Compared
      <3> QED
        BY <3>2, <3>3, <3>4, <3>5
    <2>5. \A v, w : Valid(v) /\ Valid(w) => Level(n + 1, e)[<<v, w>>] = Compared(v, w, e)
      BY <2>1 DEF Level, Valid
    <2> QED
      BY <2>2, <2>3, <2>4, <2>5
  <1>5. T = Nat
    <2>1. T \in SUBSET Nat
      OBVIOUS
    <2> HIDE DEF T
    <2> QED
      BY <1>3, <1>4, <2>1, SetInduction
  <1>6. Answers(Equality[TypeDepth])
    <2> HIDE DEF Answers
    <2> QED
      BY <1>1, <1>5
  <1> QED
    BY <1>6 DEF value_eq
-----------------------------------------------------------------------------
(* What the natives give.                                                  *)
LEMMA IntegerWords ==
  ASSUME NEW n \in Int
  PROVE  /\ MAKE_INTEGER(n) \in Words
         /\ MAKE_INTEGER(n).signature = "INTEGER"
         /\ MAKE_INTEGER(n).payload = Unsigned(n)
         /\ Valid(MAKE_INTEGER(n))
  <1>1. PICK u \in Int : u = Unsigned(n)
    BY Widths, UnsignedFacts
  <1> QED
    BY <1>1 DEF MAKE_INTEGER, Word, Words, Signatures, Valid, IS_PTR

Binary == Arithmetic \cup Order \cup Logic \cup {"eq_value"}

LEMMA OnIntegersFacts ==
  ASSUME NEW f \in Binary, NEW x \in Int, NEW y \in Int, f = "div_value" => y > 0
  PROVE  \E n \in Int : /\ OnIntegers(f, x, y) = MAKE_INTEGER(n)
                        /\ f = "add_value" => n = x + y
                        /\ f = "sub_value" => n = x - y
                        /\ f = "mul_value" => n = x * y
                        /\ f = "div_value" => n = x \div y
                        /\ f \in Order => n = IF Holds(f, x, y) THEN 1 ELSE 0
                        /\ f = "eq_value" => n = IF x = y THEN 1 ELSE 0
  <1>1. CASE f \in Arithmetic
    <2>1. OnIntegers(f, x, y) = MAKE_INTEGER(Computed(f, x, y))
      BY <1>1 DEF OnIntegers, Arithmetic, Order, Logic
    <2>2. f \notin Order /\ f # "eq_value"
      BY <1>1 DEF Arithmetic, Order
    <2>3. CASE f = "div_value"
      <3>1. Computed(f, x, y) = x \div y /\ x \div y \in Int
        BY <2>3, DivMod DEF Computed
      <3> QED
        BY <2>1, <2>2, <2>3, <3>1
    <2>4. CASE f = "add_value"
      <3>1. Computed(f, x, y) = x + y /\ x + y \in Int
        BY <2>4 DEF Computed
      <3> QED
        BY <2>1, <2>2, <2>4, <3>1
    <2>5. CASE f = "sub_value"
      <3>1. Computed(f, x, y) = x - y /\ x - y \in Int
        BY <2>5 DEF Computed
      <3> QED
        BY <2>1, <2>2, <2>5, <3>1
    <2>6. CASE f = "mul_value"
      <3>1. Computed(f, x, y) = x * y /\ x * y \in Int
        BY <2>6 DEF Computed
      <3> QED
        BY <2>1, <2>2, <2>6, <3>1
    <2> QED
      BY <1>1, <2>3, <2>4, <2>5, <2>6 DEF Arithmetic
  <1>2. ASSUME NEW p, OnIntegers(f, x, y) = BOOL(p), f \notin Arithmetic,
               f \in Order => (p <=> Holds(f, x, y)), f = "eq_value" => (p <=> x = y)
        PROVE  \E n \in Int : /\ OnIntegers(f, x, y) = MAKE_INTEGER(n)
                              /\ f \in Order => n = IF Holds(f, x, y) THEN 1 ELSE 0
                              /\ f = "eq_value" => n = IF x = y THEN 1 ELSE 0
    <2>1. OnIntegers(f, x, y) = MAKE_INTEGER(IF p THEN 1 ELSE 0)
      BY <1>2 DEF BOOL
    <2>2. CASE p
      BY <2>1, <2>2, <1>2
    <2>3. CASE ~p
      BY <2>1, <2>3, <1>2
    <2> QED
      BY <2>2, <2>3
  <1>3. CASE f \in Order
    <2>1. OnIntegers(f, x, y) = BOOL(Holds(f, x, y)) /\ f \notin Arithmetic /\ f # "eq_value"
      BY <1>3 DEF OnIntegers, Order, Arithmetic
    <2> QED
      BY <1>2, <2>1 DEF Arithmetic
  <1>4. CASE f = "eq_value"
    <2>1. OnIntegers(f, x, y) = BOOL(x = y) /\ f \notin Arithmetic /\ f \notin Order
      BY <1>4 DEF OnIntegers, Order, Arithmetic
    <2> QED
      BY <1>2, <2>1 DEF Arithmetic
  <1>5. CASE f \in Logic
    <2>1. f \notin Arithmetic /\ f \notin Order /\ f # "eq_value"
      BY <1>5 DEF Logic, Order, Arithmetic
    <2>2. OnIntegers(f, x, y) = BOOL(x # 0 /\ y # 0) \/ OnIntegers(f, x, y) = BOOL(x # 0 \/ y # 0)
      BY <1>5 DEF OnIntegers, Logic, Order, Arithmetic
    <2> QED
      BY <1>2, <2>1, <2>2 DEF Arithmetic
  <1> QED
    BY <1>1, <1>3, <1>4, <1>5 DEF Binary

LEMMA OnFloatsFacts ==
  ASSUME Len(heap) \in Nat, NEW f \in Binary \ Logic, NEW x \in Int, NEW y \in Int
  PROVE  /\ Valid(OnFloats(f, x, y))
         /\ f \notin Arithmetic => OnFloats(f, x, y).signature = "INTEGER"
  <1>1. \A n \in Int : Valid(MAKE_FLOAT(n))
    <2> TAKE n \in Int
    <2>1. CASE -MaxFloat <= n /\ n <= MaxFloat
      BY <2>1 DEF MAKE_FLOAT, Word, Words, Signatures, Valid, IS_PTR
    <2>2. CASE ~(-MaxFloat <= n /\ n <= MaxFloat)
      BY <2>2 DEF MAKE_FLOAT, Word, Words, Signatures, Valid, IS_PTR
    <2> QED
      BY <2>1, <2>2
  <1>2. \A p : Valid(BOOL(p)) /\ BOOL(p).signature = "INTEGER"
    <2> TAKE p
    <2>1. \E n \in {0, 1} : BOOL(p) = MAKE_INTEGER(n)
      BY DEF BOOL
    <2> QED
      BY <2>1, IntegerWords
  <1>3. CASE f = "div_value"
    <2>1. f \in Arithmetic
      BY <1>3 DEF Arithmetic
    <2>2. CASE y = 0
      <3>1. OnFloats(f, x, y) = NAN \/ OnFloats(f, x, y) = Word("INFINITY", 0)
        BY <1>3, <2>2 DEF OnFloats, Arithmetic, Order
      <3>2. Valid(Word("INFINITY", 0))
        BY DEF Word, Words, Signatures, Valid, IS_PTR
      <3>3. Valid(NAN)
        BY DEF NAN, MAKE_PTR, Word, Words, Signatures, Valid, IS_PTR, GET_PTR
      <3> QED
        BY <2>1, <3>1, <3>2, <3>3
    <2>3. CASE y # 0
      <3>1. OnFloats(f, x, y) = MAKE_FLOAT(Quotient(x, y))
        BY <1>3, <2>3 DEF OnFloats, Arithmetic, Order
      <3>2. Quotient(x, y) \in Int
        <4> DEFINE size(n) == IF n < 0 THEN -n ELSE n
        <4>1. size(x) \in Int /\ size(y) \in Int /\ size(y) > 0
          BY <2>3
        <4>2. PICK q \in Int : q = size(x) \div size(y)
          <5> HIDE DEF size
          <5> QED
            BY <4>1, DivMod
        <4>3. Quotient(x, y) = IF (x < 0) = (y < 0) THEN q ELSE -q
          BY <4>2 DEF Quotient
        <4> HIDE DEF size
        <4> QED
          BY <4>2, <4>3
      <3> QED
        BY <1>1, <2>1, <3>1, <3>2
    <2> QED
      BY <2>2, <2>3
  <1>4. CASE f \in Arithmetic \ {"div_value"}
    <2>1. OnFloats(f, x, y) = MAKE_FLOAT(Computed(f, x, y))
      BY <1>4 DEF OnFloats, Arithmetic, Order
    <2>2. Computed(f, x, y) \in Int
      <3>1. f = "add_value" \/ f = "sub_value" \/ f = "mul_value"
        BY <1>4 DEF Arithmetic
      <3> QED
        BY <3>1 DEF Computed
    <2> QED
      BY <1>1, <1>4, <2>1, <2>2
  <1>5. CASE f \in Order
    <2>1. OnFloats(f, x, y) = BOOL(Holds(f, x, y))
      BY <1>5 DEF OnFloats, Order, Arithmetic
    <2> QED
      BY <1>2, <2>1
  <1>6. CASE f = "eq_value"
    <2>1. OnFloats(f, x, y) = BOOL(x = y)
      BY <1>6 DEF OnFloats, Order, Arithmetic
    <2> QED
      BY <1>2, <2>1
  <1> QED
    BY <1>3, <1>4, <1>5, <1>6 DEF Binary

(* What op_native_call may rely on: a native that returns gives a word     *)
(* that is no dangling pointer, one that makes an object gives it cells.   *)
Made(out) ==
  /\ out.type \in {"TYPE_STRING", "TYPE_LIST"}
  /\ out.block = 0
  /\ out.length \in Int
  /\ out.cells \in Seq(Words \cup STRING)
  /\ out.type = "TYPE_LIST" => HoldsValid(out.cells)

Sound(out) ==
  \/ out.does = "throw"
  \/ out.does = "return" /\ Valid(out.word)
  \/ out.does = "make" /\ Made(out)

(* The length that is stored with the cells is theirs.                     *)
Measured(out) == out.does = "make" /\ Len(out.cells) < INT => out.length = Len(out.cells)

(* The elements that are copied out of a list are valid words, and as long *)
(* as no length wrapped they are what was stored.                          *)
LEMMA CopiedFacts ==
  ASSUME NEW w, Points(w, "TYPE_LIST"), Blocks, CellsValid
  PROVE  /\ Copied(w) \in Seq(Words \cup STRING) /\ HoldsValid(Copied(w))
         /\ ~strayed => Copied(w) = Cells(w)
  <1>1. PICK x, l : x = Cells(w) /\ l = Length(w)
    OBVIOUS
  <1>2. /\ x \in Seq(Words \cup STRING) /\ Len(x) \in Nat /\ l \in Int
        /\ ~strayed => l = Len(x)
    BY <1>1, CellsFacts DEF ObjectTypes
  <1>3. PICK n \in Nat : 1 .. l = 1 .. n /\ (l \in Nat => n = l)
    <2>1. CASE l \in Nat
      BY <2>1
    <2>2. CASE l \notin Nat
      <3>1. 1 .. l = 1 .. 0
        BY <1>2, <2>2
      <3> QED
        BY <2>2, <3>1
    <2> QED
      BY <2>1, <2>2
  <1>4. PICK c : c = Copied(w)
    OBVIOUS
  <1>5. c = [i \in 1 .. n |-> Element(w, i - 1)]
    BY <1>1, <1>3, <1>4 DEF Copied
  <1>6. \A i \in 1 .. n : c[i] = Element(w, i - 1) /\ Valid(c[i])
    <2> SUFFICES ASSUME NEW i \in 1 .. n PROVE Valid(Element(w, i - 1))
      BY <1>5
    <2>1. PICK k \in Nat : k = i - 1
      OBVIOUS
    <2> QED
      BY <2>1, ElementValid
  <1>7. c \in [1 .. n -> Words]
    BY <1>5, <1>6 DEF Valid
  <1>8. c \in Seq(Words) /\ Len(c) = n
    BY <1>7, FunctionIsSeq
  <1>9. c \in Seq(Words \cup STRING)
    BY <1>8, SeqMonotonic
  <1>10. HoldsValid(c)
    BY <1>6, <1>8 DEF HoldsValid
  <1>11. ASSUME ~strayed PROVE c = x
    <2>1. n = Len(x)
      BY <1>2, <1>3, <1>11
    <2>2. \A i \in 1 .. n : c[i] = x[i]
      <3> SUFFICES ASSUME NEW i \in 1 .. n PROVE Element(w, i - 1) = x[i]
        BY <1>6
      <3>1. i - 1 < Len(x) /\ i - 1 + 1 = i
        BY <2>1
      <3> QED
        BY <1>1, <3>1 DEF Element
    <2>3. x = [i \in 1 .. n |-> x[i]]
      BY <1>2, <2>1
    <2> QED
      BY <1>7, <2>2, <2>3
  <1> QED
    BY <1>1, <1>4, <1>9, <1>10, <1>11

LEMMA JoinedFacts ==
  ASSUME NEW a, NEW b, Blocks, CellsValid, NEW t \in {"TYPE_STRING", "TYPE_LIST"},
         Points(a, t), Points(b, t), GetType(a) = t
  PROVE  /\ Joined(a, b).does = "make" /\ Made(Joined(a, b))
         /\ ~strayed => /\ Measured(Joined(a, b))
                        /\ Joined(a, b) = Makes(t, 0, Cells(a) \o Cells(b), Unsigned(Length(a) + Length(b)))
  <1> DEFINE S == Words \cup STRING
  <1>1. PICK x, y : /\ x = IF t = "TYPE_LIST" THEN Copied(a) ELSE Cells(a)
                    /\ y = IF t = "TYPE_LIST" THEN Copied(b) ELSE Cells(b)
    OBVIOUS
  <1>2. PICK k : k = IF t = "TYPE_LIST" THEN Length(a) + Length(b) ELSE Len(Cells(a)) + Len(Cells(b))
    OBVIOUS
  <1>3. PICK l : l = Unsigned(k)
    OBVIOUS
  <1>4. /\ Cells(a) \in Seq(S) /\ Cells(b) \in Seq(S) /\ Len(Cells(a)) \in Nat /\ Len(Cells(b)) \in Nat
        /\ Length(a) \in Int /\ Length(b) \in Int
        /\ ~strayed => Length(a) = Len(Cells(a)) /\ Length(b) = Len(Cells(b))
    BY CellsFacts DEF ObjectTypes
  <1>5. /\ x \in Seq(S) /\ y \in Seq(S)
        /\ t # "TYPE_STRING" => HoldsValid(x) /\ HoldsValid(y)
        /\ ~strayed => x = Cells(a) /\ y = Cells(b)
    <2>1. CASE t = "TYPE_LIST"
      BY <1>1, <2>1, CopiedFacts
    <2>2. CASE t = "TYPE_STRING"
      BY <1>1, <1>4, <2>2
    <2> QED
      BY <2>1, <2>2
  <1>6. Joined(a, b) = Makes(t, 0, x \o y, l)
    <2>1. CASE t = "TYPE_LIST"
      BY <1>1, <1>2, <1>3, <2>1 DEF Joined
    <2>2. CASE t = "TYPE_STRING"
      BY <1>1, <1>2, <1>3, <2>2 DEF Joined
    <2> QED
      BY <2>1, <2>2
  <1>7. k \in Int /\ l \in Int
    <2>1. k \in Int
      BY <1>2, <1>4
    <2> QED
      BY <1>3, <2>1, Widths, UnsignedFacts
  <1>8. Len(x) \in Nat /\ Len(y) \in Nat
    BY <1>5, LenProperties
  <1> HIDE DEF S
  <1>9. /\ x \o y \in Seq(S) /\ Len(x \o y) = Len(x) + Len(y)
        /\ \A i \in 1 .. Len(x) + Len(y) : (x \o y)[i] = IF i <= Len(x) THEN x[i] ELSE y[i - Len(x)]
    BY <1>5, ConcatProperties
  <1>10. ASSUME t # "TYPE_STRING" PROVE HoldsValid(x \o y)
    <2> SUFFICES ASSUME NEW i \in 1 .. Len(x) + Len(y) PROVE Valid((x \o y)[i])
      BY <1>9 DEF HoldsValid
    <2>1. HoldsValid(x) /\ HoldsValid(y)
      BY <1>5, <1>10
    <2>2. CASE i <= Len(x)
      BY <1>8, <1>9, <2>1, <2>2 DEF HoldsValid
    <2>3. CASE ~(i <= Len(x))
      <3>1. i - Len(x) \in 1 .. Len(y) /\ (x \o y)[i] = y[i - Len(x)]
        BY <1>8, <1>9, <2>3
      <3> QED
        BY <2>1, <3>1 DEF HoldsValid
    <2> QED
      BY <2>2, <2>3
  <1>11. ~strayed => k = Len(x) + Len(y) /\ k = Length(a) + Length(b)
    BY <1>2, <1>4, <1>5
  <1>12. ASSUME ~strayed, Len(x) + Len(y) < INT PROVE l = Len(x) + Len(y)
    <2>1. k = Len(x) + Len(y)
      BY <1>11, <1>12
    <2>2. k \in 0 .. INT - 1
      BY <1>7, <1>8, <1>12, <2>1, Widths
    <2> QED
      BY <1>3, <1>7, <2>1, <2>2, UnsignedFacts
  <1>13. ASSUME ~strayed
         PROVE  Joined(a, b) = Makes(t, 0, Cells(a) \o Cells(b), Unsigned(Length(a) + Length(b)))
    BY <1>3, <1>5, <1>6, <1>11, <1>13
  <1>14. Makes(t, 0, x \o y, l).does = "make" /\ Made(Makes(t, 0, x \o y, l))
    BY <1>7, <1>9, <1>10 DEF Makes, Made, S
  <1>15. ~strayed => Measured(Makes(t, 0, x \o y, l))
    BY <1>9, <1>12 DEF Makes, Measured
  <1> QED
    BY <1>6, <1>13, <1>14, <1>15

LEMMA OperationFacts ==
  ASSUME NEW f \in Binary, NEW a, NEW b, Valid(a), Valid(b), Blocks, CellsValid
  PROVE  Sound(Operation(f, a, b)) /\ (~strayed => Measured(Operation(f, a, b)))
  <1> DEFINE ty == GetType(b)
  <1>0. \A r : Throws(r).does = "throw"
    BY DEF Throws
  <1>1. \A w : Valid(w) => Sound(Returns(w)) /\ Returns(w).does = "return"
    BY DEF Returns, Sound
  <1>2. CASE GetType(a) # ty \/ ty \notin Supported(f)
    <2>1. Operation(f, a, b) = Throws("type") \/ Operation(f, a, b) = Throws("Unsupported type")
      BY <1>2 DEF Operation
    <2> QED
      BY <1>0, <2>1 DEF Sound, Measured
  <1>3. CASE GetType(a) = ty /\ ty \in Supported(f) /\ ty = "TYPE_INTEGER"
    <2>1. GET_INT(a) \in Int /\ GET_INT(b) \in 0 .. INT - 1 /\ GET_INT(b) \in Int
      <3>1. a.payload \in Int /\ b.payload \in Int
        BY TypeFacts
      <3>2. GET_INT(a) \in 0 .. INT - 1 /\ GET_INT(b) \in 0 .. INT - 1
        BY <3>1, UnsignedFacts DEF GET_INT
      <3> QED
        BY <3>2, Widths
    <2>2. CASE f = "div_value" /\ GET_INT(b) = 0
      <3>1. Operation(f, a, b) = Throws("SIGFPE")
        BY <1>3, <2>2 DEF Operation
      <3> QED
        BY <1>0, <3>1 DEF Sound, Measured
    <2>3. CASE ~(f = "div_value" /\ GET_INT(b) = 0)
      <3>1. Operation(f, a, b) = Returns(OnIntegers(f, GET_INT(a), GET_INT(b)))
        BY <1>3, <2>3 DEF Operation
      <3>2. Valid(OnIntegers(f, GET_INT(a), GET_INT(b)))
        <4>1. f = "div_value" => GET_INT(b) > 0
          BY <2>1, <2>3
        <4> QED
          BY <2>1, <4>1, OnIntegersFacts, IntegerWords
      <3> QED
        BY <1>1, <3>1, <3>2 DEF Measured
    <2> QED
      BY <2>2, <2>3
  <1>4. CASE GetType(a) = ty /\ ty \in Supported(f) /\ ty = "TYPE_FLOAT"
    <2>1. Operation(f, a, b) = Returns(OnFloats(f, GET_FLOAT(a), GET_FLOAT(b)))
      BY <1>4 DEF Operation
    <2>2. f \in Binary \ Logic
      BY <1>4 DEF Supported, Binary
    <2>3. GET_FLOAT(a) \in Int /\ GET_FLOAT(b) \in Int /\ Len(heap) \in Nat
      BY TypeFacts, LenProperties DEF GET_FLOAT, Blocks
    <2> QED
      BY <1>1, <2>1, <2>2, <2>3, OnFloatsFacts DEF Measured
  <1>5. CASE GetType(a) = ty /\ ty \in Supported(f) /\ ty \notin {"TYPE_INTEGER", "TYPE_FLOAT"}
    <2>1. ty \in {"TYPE_STRING", "TYPE_LIST"} /\ f \in {"add_value", "eq_value"}
      BY <1>5 DEF Supported
    <2>2. Points(a, ty) /\ Points(b, ty)
      BY <1>5, <2>1, TypeFacts DEF ObjectTypes
    <2>3. Operation(f, a, b) = IF f = "add_value" THEN Joined(a, b)
                               ELSE IF value_eq(a, b) = THROWN THEN Throws("type")
                               ELSE Returns(MAKE_INTEGER(value_eq(a, b)))
      BY <1>5 DEF Operation
    <2>4. CASE f = "add_value"
      <3>1. Operation(f, a, b) = Joined(a, b)
        BY <2>3, <2>4
      <3>2. Joined(a, b).does = "make" /\ Made(Joined(a, b)) /\ (~strayed => Measured(Joined(a, b)))
        <4> HIDE DEF ty
        <4> QED
          BY <1>5, <2>1, <2>2, JoinedFacts
      <3> QED
        BY <3>1, <3>2 DEF Sound
    <2>5. CASE f # "add_value" /\ value_eq(a, b) = THROWN
      <3>1. Operation(f, a, b) = Throws("type")
        BY <2>3, <2>5
      <3> QED
        BY <1>0, <3>1 DEF Sound, Measured
    <2>6. CASE f # "add_value" /\ value_eq(a, b) # THROWN
      <3>1. Operation(f, a, b) = Returns(MAKE_INTEGER(value_eq(a, b)))
        BY <2>3, <2>6
      <3>2. value_eq(a, b) \in Int
        BY <2>6, EqualityAnswers
      <3> QED
        BY <1>1, <3>1, <3>2, IntegerWords DEF Measured
    <2> QED
      BY <2>4, <2>5, <2>6
  <1> QED
    BY <1>2, <1>3, <1>4, <1>5

LEMMA SliceFacts ==
  ASSUME NEW xs, NEW from, NEW to, Valid(xs), Valid(from), Valid(to), Blocks, CellsValid
  PROVE  /\ Sound(slice(xs, from, to))
         /\ GET_INT(from) <= GET_INT(to) => Measured(slice(xs, from, to))
  <1> DEFINE start == GET_INT(from)
             end   == GET_INT(to)
             cells == [i \in 1 .. end - start |-> Element(xs, start + i - 1)]
             out   == slice(xs, from, to)
  <1>1. start \in 0 .. INT - 1 /\ end \in 0 .. INT - 1 /\ INT \in Int
    BY TypeFacts, Widths, UnsignedFacts DEF GET_INT
  <1>2. CASE out = Throws("type") \/ out = Throws("Index out of bounds")
    <2>0. \A reason : Throws(reason).does = "throw"
      BY DEF Throws
    <2> HIDE DEF out
    <2>1. out.does = "throw"
      BY <1>2, <2>0
    <2> QED
      BY <2>1 DEF Sound, Measured, out
  <1>3. CASE GetType(xs) = "TYPE_LIST" /\ out = Makes("TYPE_LIST", 0, cells, SliceLength(start, end))
    <2>1. Points(xs, "TYPE_LIST")
      BY <1>3, TypeFacts DEF ObjectTypes
    <2> HIDE DEF start, end, out
    <2>2. \A i \in 1 .. end - start : start + i - 1 \in Nat
      BY <1>1
    <2>3. \A i \in 1 .. end - start : Valid(Element(xs, start + i - 1))
      BY <2>1, <2>2, ElementValid
    <2>4. PICK n \in Nat : 1 .. end - start = 1 .. n /\ (start <= end => n = end - start)
      <3>1. CASE start <= end
        BY <1>1, <3>1
      <3>2. CASE ~(start <= end)
        <4>1. 1 .. end - start = 1 .. 0
          BY <1>1, <3>2
        <4> QED
          BY <3>2, <4>1
      <3> QED
        BY <3>1, <3>2
    <2>5. cells \in [1 .. n -> Words] /\ \A i \in 1 .. n : Valid(cells[i])
      BY <2>3, <2>4 DEF Valid
    <2> HIDE DEF cells
    <2>6. cells \in Seq(Words) /\ Len(cells) = n
      BY <2>4, <2>5, FunctionIsSeq
    <2>7. cells \in Seq(Words \cup STRING)
      BY <2>6, SeqMonotonic
    <2>8. SliceLength(start, end) \in Int /\ (start <= end => SliceLength(start, end) = n)
      <3>1. PICK d \in Int : d = end - start
        BY <1>1
      <3>2. Unsigned(d) \in 0 .. INT - 1 /\ (d \in 0 .. INT - 1 => Unsigned(d) = d)
        BY <3>1, UnsignedFacts
      <3>3. start <= end => d \in 0 .. INT - 1
        BY <1>1, <3>1
      <3> QED
        BY <1>1, <2>4, <3>1, <3>2, <3>3 DEF SliceLength
    <2>9. Made(out) /\ out.does = "make" /\ (start <= end => Measured(out))
      BY <1>3, <2>5, <2>6, <2>7, <2>8 DEF Makes, Made, Measured, HoldsValid
    <2> QED
      BY <2>9 DEF Sound, out, start, end
  <1> QED
    BY <1>2, <1>3 DEF slice

LEMMA ArityFacts ==
  /\ \A f \in Natives : Arity(f) \in 0 .. 3
  /\ \A f \in Binary : Arity(f) = 2 /\ f \notin {"get_args", "length", "mutable_value", "not_value", "slice"}
  /\ Natives = Binary \cup {"get_args", "length", "mutable_value", "not_value", "slice"}
  /\ Arity("get_args") = 0 /\ Arity("slice") = 3
  /\ \A f \in {"length", "mutable_value", "not_value"} : Arity(f) = 1
  BY DEF Arity, Natives, Binary, Arithmetic, Order, Logic

LEMMA OutcomeFacts ==
  ASSUME NEW f \in Natives, NEW xs \in Seq(Words), Len(xs) = Arity(f), HoldsValid(xs),
         Blocks, CellsValid, args # 0, Len(memory[args]) = Len(argv), argv \in Seq(STRING)
  PROVE  /\ Sound(Outcome(f, xs))
         /\ ~strayed /\ ~Strays(f, xs) => Measured(Outcome(f, xs))
  <1>0. /\ \A r : Sound(Throws(r)) /\ Measured(Throws(r))
        /\ \A w : Valid(w) => Sound(Returns(w)) /\ Measured(Returns(w))
    BY DEF Throws, Returns, Sound, Measured
  <1>1. CASE f \in Binary
    <2>1. Outcome(f, xs) = Operation(f, xs[1], xs[2])
      BY <1>1, ArityFacts DEF Outcome
    <2>2. Valid(xs[1]) /\ Valid(xs[2])
      BY <1>1, ArityFacts DEF HoldsValid
    <2> QED
      BY <1>1, <2>1, <2>2, OperationFacts
  <1>2. CASE f = "slice"
    <2>1. Outcome(f, xs) = slice(xs[1], xs[2], xs[3])
      BY <1>2 DEF Outcome
    <2>2. Valid(xs[1]) /\ Valid(xs[2]) /\ Valid(xs[3])
      BY <1>2, ArityFacts DEF HoldsValid
    <2>3. ~Strays(f, xs) => GET_INT(xs[2]) <= GET_INT(xs[3])
      <3>1. xs[2].payload \in Int /\ xs[3].payload \in Int
        BY <2>2, TypeFacts
      <3>2. GET_INT(xs[2]) \in 0 .. INT - 1 /\ GET_INT(xs[3]) \in 0 .. INT - 1
        BY <3>1, UnsignedFacts DEF GET_INT
      <3>3. GET_INT(xs[2]) \in Int /\ GET_INT(xs[3]) \in Int
        BY <3>2, Widths
      <3> QED
        BY <1>2, <3>3 DEF Strays
    <2> QED
      BY <2>1, <2>2, <2>3, SliceFacts
  <1>3. CASE f = "get_args"
    <2>1. Outcome(f, xs) = get_args
      BY <1>3 DEF Outcome
    <2>2. memory[args] \in Seq(Words \cup STRING) /\ HoldsValid(memory[args])
      <3>1. args \in 1 .. Len(memory) /\ memory \in Seq(Seq(Words \cup STRING))
        BY DEF Blocks
      <3> QED
        BY <3>1, ElementOfSeq DEF CellsValid
    <2>3. Len(argv) \in Int
      BY LenProperties
    <2>4. Made(get_args) /\ get_args.does = "make" /\ Measured(get_args)
      BY <2>2, <2>3 DEF get_args, Makes, Made, Measured
    <2> QED
      BY <2>1, <2>4 DEF Sound
  <1>4. CASE f \in {"length", "mutable_value", "not_value"}
    <2>1. Valid(xs[1])
      BY <1>4, ArityFacts DEF HoldsValid
    <2> DEFINE w == xs[1]
    <2>2. CASE f = "length"
      <3>1. Outcome(f, xs) = length(w)
        BY <2>2 DEF Outcome
      <3>2. CASE GetType(w) = "TYPE_STRING"
        <4>1. length(w) = Returns(MAKE_INTEGER(Len(Cells(w))))
          BY <3>2 DEF length
        <4>2. Len(Cells(w)) \in Int
          BY <2>1, <3>2, TypeFacts, CellsFacts DEF ObjectTypes
        <4> QED
          BY <1>0, <3>1, <4>1, <4>2, IntegerWords
      <3>3. CASE GetType(w) = "TYPE_LIST"
        <4>1. length(w) = Returns(MAKE_INTEGER(Length(w)))
          BY <3>3 DEF length
        <4>2. Length(w) \in Int
          BY <2>1, <3>3, TypeFacts, CellsFacts DEF ObjectTypes
        <4> QED
          BY <1>0, <3>1, <4>1, <4>2, IntegerWords
      <3>4. CASE GetType(w) \notin {"TYPE_STRING", "TYPE_LIST"}
        <4>1. length(w) = Throws("Unsupported type for length")
          BY <3>4 DEF length
        <4> QED
          BY <1>0, <3>1, <4>1
      <3> QED
        BY <3>2, <3>3, <3>4
    <2>3. CASE f = "mutable_value"
      <3>1. Outcome(f, xs) = ValueOf(w)
        BY <2>3 DEF Outcome
      <3>2. CASE GetType(w) = "TYPE_MUTABLE"
        <4>1. Valid(Cells(w)[1])
          BY <2>1, <3>2, TypeFacts, CellsFacts DEF ObjectTypes, HoldsValid
        <4> QED
          BY <1>0, <3>1, <3>2, <4>1 DEF ValueOf
      <3>3. CASE GetType(w) # "TYPE_MUTABLE"
        BY <1>0, <3>1, <3>3 DEF ValueOf
      <3> QED
        BY <3>2, <3>3
    <2>4. CASE f = "not_value"
      <3>1. Outcome(f, xs) = Negation(w)
        BY <2>4 DEF Outcome
      <3>2. \A p : Valid(BOOL(p))
        <4>1. \A p : \E n \in {0, 1} : BOOL(p) = MAKE_INTEGER(n)
          BY DEF BOOL
        <4> QED
          BY <4>1, IntegerWords
      <3> QED
        BY <1>0, <3>1, <3>2 DEF Negation
    <2> QED
      BY <1>4, <2>2, <2>3, <2>4
  <1> QED
    BY <1>1, <1>2, <1>3, <1>4, ArityFacts
-----------------------------------------------------------------------------
(* The options of the command line, in its order.                          *)
NextOptions(i, before) ==
  IF i = 0 THEN <<>> ELSE IF argv[i] = "-l" THEN Append(before, i) ELSE before

Optioned(f, n) == f = [i \in 0 .. n |-> NextOptions(i, f[i - 1])]

LEMMA OptionsDefined ==
  ASSUME Len(argv) \in Nat
  PROVE  Optioned(OptionsUpTo, Len(argv))
  <1> DEFINE T == {n \in Nat : \E f : Optioned(f, n)}
  <1>0. \A d : NextOptions(0, d) = <<>>
    BY DEF NextOptions
  <1>1. 0 \in T
    <2> DEFINE f == [i \in 0 .. 0 |-> <<>>]
    <2>1. \A i \in 0 .. 0 : NextOptions(i, f[i - 1]) = <<>>
      BY <1>0
    <2>2. Optioned(f, 0)
      <3>1. f = [i \in 0 .. 0 |-> NextOptions(i, f[i - 1])]
        BY <2>1
      <3> QED
        BY <3>1 DEF Optioned
    <2> QED
      BY <2>2
  <1>2. ASSUME NEW n \in T PROVE n + 1 \in T
    <2>1. n \in Nat
      OBVIOUS
    <2>2. PICK f : Optioned(f, n)
      BY <1>2
    <2> DEFINE g == [i \in 0 .. n + 1 |-> IF i = n + 1 THEN NextOptions(i, f[n]) ELSE f[i]]
    <2>3. \A i \in 0 .. n : f[i] = NextOptions(i, f[i - 1])
      BY <2>2 DEF Optioned
    <2>4. \A i \in 0 .. n + 1 : g[i] = NextOptions(i, g[i - 1])
      <3> SUFFICES ASSUME NEW i \in 0 .. n + 1 PROVE g[i] = NextOptions(i, g[i - 1])
        OBVIOUS
      <3>1. CASE i = n + 1
        <4>1. n \in 0 .. n + 1 /\ i - 1 = n /\ n # n + 1
          BY <2>1, <3>1
        <4>2. g[i - 1] = f[n]
          BY <4>1
        <4> QED
          BY <3>1, <4>2
      <3>2. CASE i \in 1 .. n
        <4>1. i - 1 \in 0 .. n + 1 /\ i - 1 # n + 1 /\ i # n + 1 /\ i \in 0 .. n
          BY <2>1, <3>2
        <4>2. g[i - 1] = f[i - 1] /\ g[i] = f[i]
          BY <4>1
        <4> HIDE DEF g
        <4> QED
          BY <2>3, <4>1, <4>2
      <3>3. CASE i = 0
        <4>1. g[i] = f[0] /\ 0 \in 0 .. n
          BY <2>1, <3>3
        <4>2. f[0] = NextOptions(0, f[0 - 1])
          BY <2>3, <4>1
        <4> HIDE DEF g
        <4> QED
          BY <1>0, <3>3, <4>1, <4>2
      <3>4. i = n + 1 \/ i \in 1 .. n \/ i = 0
        BY <2>1
      <3> QED
        BY <3>1, <3>2, <3>3, <3>4
    <2>5. Optioned(g, n + 1)
      <3>1. g = [i \in 0 .. n + 1 |-> g[i]]
        OBVIOUS
      <3> HIDE DEF g
      <3>2. [i \in 0 .. n + 1 |-> g[i]] = [i \in 0 .. n + 1 |-> NextOptions(i, g[i - 1])]
        BY <2>4
      <3> QED
        BY <3>1, <3>2 DEF Optioned
    <2> HIDE DEF g
    <2> QED
      BY <2>1, <2>5
  <1>3. T = Nat
    <2>1. T \in SUBSET Nat
      OBVIOUS
    <2> HIDE DEF T
    <2> QED
      BY <1>1, <1>2, <2>1, SetInduction
  <1>4. \E f : Optioned(f, Len(argv))
    BY <1>3
  <1>5. OptionsUpTo = CHOOSE f : Optioned(f, Len(argv))
    BY DEF OptionsUpTo, Optioned, NextOptions
  <1> HIDE DEF T
  <1> QED
    BY <1>4, <1>5

Increasing(s, n) ==
  /\ s \in Seq(1 .. n)
  /\ \A k \in 1 .. Len(s) : argv[s[k]] = "-l"
  /\ \A j, k \in 1 .. Len(s) : j < k => s[j] < s[k]

LEMMA OptionsFacts ==
  ASSUME argv \in Seq(STRING)
  PROVE  Increasing(Options, Len(argv))
  <1>1. Len(argv) \in Nat
    BY LenProperties
  <1>2. \A i \in 0 .. Len(argv) : OptionsUpTo[i] = NextOptions(i, OptionsUpTo[i - 1])
    BY <1>1, OptionsDefined DEF Optioned
  <1> DEFINE T == {n \in Nat : n <= Len(argv) => Increasing(OptionsUpTo[n], n)}
  <1>3. 0 \in T
    <2>1. OptionsUpTo[0] = <<>>
      BY <1>1, <1>2 DEF NextOptions
    <2>2. \A s : s = <<>> => Increasing(s, 0)
      <3> SUFFICES ASSUME NEW s, s = <<>> PROVE Increasing(s, 0)
        OBVIOUS
      <3>1. s \in Seq(1 .. 0) /\ Len(s) = 0
        BY EmptySeq
      <3>2. \A k \in 1 .. Len(s) : FALSE
        BY <3>1
      <3> QED
        BY <3>1, <3>2 DEF Increasing
    <2> QED
      BY <2>1, <2>2
  <1>4. ASSUME NEW n \in T PROVE n + 1 \in T
    <2> SUFFICES ASSUME n + 1 <= Len(argv) PROVE Increasing(OptionsUpTo[n + 1], n + 1)
      OBVIOUS
    <2>1. n \in Nat /\ n + 1 \in 0 .. Len(argv) /\ (n + 1) - 1 = n /\ Increasing(OptionsUpTo[n], n)
      BY <1>1
    <2>2. PICK s : s = OptionsUpTo[n] /\ Increasing(s, n)
      BY <2>1
    <2>3. /\ s \in Seq(1 .. n) /\ \A k \in 1 .. Len(s) : argv[s[k]] = "-l" /\ s[k] \in 1 .. n
          /\ \A j, k \in 1 .. Len(s) : j < k => s[j] < s[k]
      BY <2>2, ElementOfSeq DEF Increasing
    <2>4. s \in Seq(1 .. n + 1) /\ Len(s) \in Nat
      <3>1. 1 .. n \subseteq 1 .. n + 1
        BY <2>1
      <3> QED
        BY <2>3, <3>1, SeqMonotonic, LenProperties
    <2>5. CASE argv[n + 1] = "-l"
      <3>1. OptionsUpTo[n + 1] = Append(s, n + 1)
        <4>1. OptionsUpTo[n + 1] = NextOptions(n + 1, s) /\ n + 1 # 0
          BY <1>2, <2>1, <2>2
        <4> QED
          BY <2>5, <4>1 DEF NextOptions
      <3>2. PICK t : t = Append(s, n + 1)
        OBVIOUS
      <3>3. /\ t \in Seq(1 .. n + 1) /\ Len(t) = Len(s) + 1 /\ t[Len(s) + 1] = n + 1
            /\ \A k \in 1 .. Len(s) : t[k] = s[k]
        <4>1. n + 1 \in 1 .. n + 1
          BY <2>1
        <4> QED
          BY <2>4, <3>2, <4>1, AppendProperties
      <3>4. \A k \in 1 .. Len(t) : k \in 1 .. Len(s) \/ k = Len(s) + 1
        BY <2>4, <3>3
      <3>5. \A k \in 1 .. Len(t) : argv[t[k]] = "-l"
        BY <2>3, <2>5, <3>3, <3>4
      <3>6. \A j, k \in 1 .. Len(t) : j < k => t[j] < t[k]
        <4> SUFFICES ASSUME NEW j \in 1 .. Len(t), NEW k \in 1 .. Len(t), j < k PROVE t[j] < t[k]
          OBVIOUS
        <4>1. j \in 1 .. Len(s)
          BY <2>4, <3>3
        <4>2. CASE k \in 1 .. Len(s)
          BY <2>3, <3>3, <4>1, <4>2
        <4>3. CASE k = Len(s) + 1
          <5>1. t[j] \in 1 .. n /\ t[k] = n + 1
            BY <2>3, <3>3, <4>1, <4>3
          <5> QED
            BY <2>1, <5>1
        <4> QED
          BY <3>4, <4>2, <4>3
      <3> QED
        BY <3>1, <3>2, <3>3, <3>5, <3>6 DEF Increasing
    <2>6. CASE argv[n + 1] # "-l"
      <3>1. OptionsUpTo[n + 1] = s
        BY <1>2, <2>1, <2>2, <2>6 DEF NextOptions
      <3> QED
        BY <2>3, <2>4, <3>1 DEF Increasing
    <2> QED
      BY <2>5, <2>6
  <1>5. T = Nat
    <2>1. T \in SUBSET Nat
      OBVIOUS
    <2> HIDE DEF T
    <2> QED
      BY <1>3, <1>4, <2>1, SetInduction
  <1> QED
    BY <1>1, <1>5 DEF Options

(* The handles are those of the options.                                   *)
HandlesKnown ==
  stage \notin {"start", "thrown"} => handles = [k \in 1 .. Len(Options) |-> Opened(Named(Options[k]))]

LEMMA FoundFunction ==
  ASSUME NEW f, handles \in Seq(DOMAIN Libraries \cup {NULL})
  PROVE  \/ /\ FindFunction(f) = 0
            /\ \A k \in 1 .. Len(handles) : f \notin Defines(handles[k])
         \/ /\ FindFunction(f) \in 1 .. Len(handles)
            /\ f \in Defines(handles[FindFunction(f)])
            /\ \A k \in 1 .. Len(handles) : f \in Defines(handles[k]) => FindFunction(f) <= k
  <1> DEFINE I == {k \in 1 .. Len(handles) : f \in Defines(handles[k])}
  <1>1. FindFunction(f) = IF I # {} THEN CHOOSE k \in I : \A j \in I : k <= j ELSE 0
    BY DEF FindFunction, SelectInSeq, Min
  <1>2. Len(handles) \in Nat
    BY LenProperties
  <1>3. CASE I = {}
    BY <1>1, <1>3
  <1>4. CASE I # {}
    <2>1. I \in SUBSET Nat
      BY <1>2
    <2>2. \E k \in I : \A j \in I : k <= j
      <3> HIDE DEF I
      <3> QED
        BY <1>4, <2>1, Least
    <2>3. FindFunction(f) \in I /\ \A j \in I : FindFunction(f) <= j
      <3> HIDE DEF I
      <3> QED
        BY <1>1, <1>4, <2>2
    <2> QED
      BY <2>3
  <1> QED
    BY <1>3, <1>4
-----------------------------------------------------------------------------
(* What every step keeps: the program is in memory as the compiler wrote   *)
(* it, no two objects share a block, and no word dangles.                  *)
Kept ==
  /\ FileRead /\ ConstantsRead /\ CodeRead
  /\ Blocks /\ CellsValid /\ ArgumentsPassed
  /\ HandlesKnown
  /\ StackValid

LEMMA KeptFacts ==
  ASSUME Kept
  PROVE  /\ argv \in Seq(STRING) /\ Len(argv) \in Nat
         /\ stack \in Seq(Words) /\ Len(stack) \in Nat
         /\ heap \in Seq([type : ObjectTypes, length : Int, block : Nat]) /\ Len(heap) \in Nat
         /\ memory \in Seq(Seq(Words \cup STRING))
  BY LoaderAssumption, LenProperties DEF Kept, FileRead, Blocks, StackValid

LEMMA SameMemory ==
  ASSUME Kept, UNCHANGED <<heap, memory, args>>, strayed => strayed'
  PROVE  Blocks' /\ CellsValid' /\ Stays /\ (\A w : Valid(w) => Valid(w)')
  <1>1. Blocks' /\ CellsValid' /\ (\A w : Valid(w) => Valid(w)')
    BY DEF Kept, Blocks, CellsValid, HoldsValid, Valid
  <1>2. Stays
    BY KeptFacts DEF Stays
  <1> QED
    BY <1>1, <1>2

(* An instruction may change what the machine has, but not what main has.  *)
LEMMA MachineStep ==
  ASSUME Kept, stage = "running", stage' \in {"running", "thrown", "over"},
         OnlyLoader, Stays, Blocks', CellsValid', StackValid'
  PROVE  Kept'
  <1>1. UNCHANGED <<argv, file, handles, expected, constants, instrs, args>>
    BY DEF OnlyLoader
  <1>2. Len(heap) \in Nat /\ Len(heap') \in Nat
    BY LenProperties DEF Kept, Blocks
  <1>3. Readable /\ FileRead /\ ConstantsRead /\ CodeRead /\ ArgumentsPassed /\ HandlesKnown
    BY DEF Kept, FileRead
  <1>4. Program' = Program /\ Readable' /\ Options' = Options
    BY <1>1, <1>3 DEF Program, Readable, Options, OptionsUpTo
  <1>5. FileRead'
    BY <1>1, <1>3, <1>4 DEF FileRead
  <1>6. ConstantsRead'
    <2>1. \A w, literal : Loaded(w, literal) => Loaded(w, literal)'
      BY <1>2, LoadedStays
    <2>2. Len(constants) = Len(Program.constants)
      BY <1>3 DEF ConstantsRead, HasRun
    <2> QED
      BY <1>1, <1>3, <1>4, <2>1, <2>2 DEF ConstantsRead, BeforeConstants, HasRun
  <1>7. CodeRead'
    <2>1. HasRun
      BY DEF HasRun
    <2> QED
      BY <1>1, <1>3, <1>4, <2>1 DEF CodeRead
  <1>8. ArgumentsPassed'
    <2>1. /\ args # 0 /\ Len(memory[args]) = Len(argv)
          /\ \A i \in 1 .. Len(argv) : Points(memory[args][i], "TYPE_STRING")
      BY <1>3 DEF ArgumentsPassed
    <2>2. memory'[args'] = memory[args]
      BY <2>1 DEF Stays
    <2>3. \A w : Points(w, "TYPE_STRING") => Points(w, "TYPE_STRING")'
      BY <1>2 DEF Points, Stays
    <2>4. ASSUME NEW i \in 1 .. Len(argv) PROVE Points(memory[args][i], "TYPE_STRING")'
      <3>1. PICK w : w = memory[args][i]
        OBVIOUS
      <3>2. Points(w, "TYPE_STRING")'
        BY <2>1, <2>3, <3>1
      <3> QED
        BY <2>2, <3>1, <3>2
    <2> QED
      BY <1>1, <2>1, <2>2, <2>4 DEF ArgumentsPassed
  <1>9. HandlesKnown'
    <2>1. handles = [k \in 1 .. Len(Options) |-> Opened(Named(Options[k]))]
      BY <1>3 DEF HandlesKnown
    <2>2. \A i : Named(i)' = Named(i)
      BY <1>1 DEF Named
    <2> QED
      BY <1>1, <1>4, <2>1, <2>2 DEF HandlesKnown
  <1> QED
    BY <1>5, <1>6, <1>7, <1>8, <1>9 DEF Kept

(* The stack after an instruction.                                         *)
LEMMA StackPops ==
  ASSUME Kept, NEW n \in 0 .. Len(stack)
  PROVE  /\ SubSeq(stack, 1, Len(stack) - n) \in Seq(Words)
         /\ HoldsValid(SubSeq(stack, 1, Len(stack) - n))
         /\ Operands(n) \in Seq(Words) /\ Len(Operands(n)) = n /\ HoldsValid(Operands(n))
         /\ \A i \in 1 .. n : Operands(n)[i] = stack[Len(stack) - n + i]
         /\ \A i \in 0 .. Len(stack) - 1 : Valid(Top(i))
  <1> DEFINE l == Len(stack)
             s == SubSeq(stack, 1, l - n)
             o == SubSeq(stack, l - n + 1, l)
  <1>1. l \in Nat /\ \A i \in 1 .. l : stack[i] \in Words /\ Valid(stack[i])
    BY LenProperties, ElementOfSeq DEF Kept, StackValid, HoldsValid
  <1>2. n \in Nat /\ n <= l
    BY <1>1
  <1> HIDE DEF l
  <1>3. s \in Seq(Words) /\ Len(s) = l - n /\ \A i \in 1 .. l - n : s[i] = stack[i]
    <2>1. 1 \in Int /\ l - n \in Int /\ \A i \in 1 .. l - n : i \in 1 .. l
      BY <1>1, <1>2
    <2>2. /\ s \in Seq(Words) /\ Len(s) = IF 1 <= l - n THEN l - n - 1 + 1 ELSE 0
          /\ \A i \in 1 .. l - n - 1 + 1 : s[i] = stack[1 + i - 1]
      BY <1>1, <2>1, SubSeqProperties
    <2> HIDE DEF s
    <2> QED
      BY <1>1, <1>2, <2>2
  <1>4. o \in Seq(Words) /\ Len(o) = n /\ \A i \in 1 .. n : o[i] = stack[l - n + i]
    <2>1. PICK m \in Int : m = l - n + 1
      BY <1>1, <1>2
    <2>2. o = SubSeq(stack, m, l)
      BY <2>1
    <2> HIDE DEF o
    <2>3. \A i \in m .. l : stack[i] \in Words
      BY <1>1, <1>2, <2>1
    <2>4. /\ o \in Seq(Words) /\ Len(o) = IF m <= l THEN l - m + 1 ELSE 0
          /\ \A i \in 1 .. l - m + 1 : o[i] = stack[m + i - 1]
      BY <1>1, <2>2, <2>3, SubSeqProperties
    <2>5. l - m + 1 = n /\ (m <= l \/ n = 0)
      BY <1>1, <1>2, <2>1
    <2>6. \A i \in 1 .. n : m + i - 1 = l - n + i
      BY <1>1, <1>2, <2>1
    <2> QED
      BY <1>2, <2>4, <2>5, <2>6
  <1>5. \A i \in 1 .. n : l - n + i \in 1 .. l
    BY <1>1, <1>2
  <1>6. \A i \in 1 .. l - n : i \in 1 .. l
    BY <1>1, <1>2
  <1>7. \A i \in 0 .. l - 1 : l - i \in 1 .. l
    BY <1>1
  <1> HIDE DEF s, o
  <1>8. HoldsValid(s) /\ HoldsValid(o)
    BY <1>1, <1>3, <1>4, <1>5, <1>6 DEF HoldsValid
  <1>9. \A i \in 0 .. l - 1 : Valid(Top(i))
    BY <1>1, <1>7 DEF Top, l
  <1> QED
    BY <1>3, <1>4, <1>8, <1>9 DEF Operands, s, o, l

LEMMA StackReplaced ==
  ASSUME Kept, NEW n \in 0 .. Len(stack), NEW w, NEW t, Replace(n, w, t),
         Valid(w)', \A v : Valid(v) => Valid(v)'
  PROVE  StackValid'
  <1>0. /\ Len(types') = Len(stack') /\ Len(stack') <= Depth
        /\ \E S : types' \in Seq(S)
    <2>1. PICK S : types \in Seq(S)
      BY DEF Kept, StackValid
    <2>2. PICK l \in Nat : l = Len(stack) /\ l = Len(types)
      BY KeptFacts DEF Kept, StackValid
    <2>3. n \in 0 .. l /\ l - n < Depth /\ Depth \in Nat
      BY <2>2, MachineAssumption DEF Replace
    <2>4. PICK s, ts : s = SubSeq(stack, 1, l - n) /\ ts = SubSeq(types, 1, l - n)
      OBVIOUS
    <2>5. PICK m \in Nat : m = l - n /\ m < Depth
      BY <2>3
    <2>6. /\ s \in Seq(Words) /\ Len(s) = m
          /\ ts \in Seq(S) /\ Len(ts) = m
      <3>1. \A i \in 1 .. m : i \in 1 .. l
        BY <2>3, <2>5
      <3>2. \A i \in 1 .. m : stack[i] \in Words /\ types[i] \in S
        BY <2>1, <2>2, <3>1, KeptFacts, ElementOfSeq
      <3>3. 1 \in Int /\ m \in Int /\ m - 1 + 1 = m /\ (~(1 <= m) => m = 0)
        BY <2>5
      <3> QED
        BY <2>4, <2>5, <3>2, <3>3, SubSeqProperties
    <2>7. PICK T : T = S \cup {t}
      OBVIOUS
    <2>8. PICK W : W = Words \cup {w}
      OBVIOUS
    <2>9. ts \in Seq(T) /\ t \in T /\ s \in Seq(W) /\ w \in W
      BY <2>6, <2>7, <2>8, SeqMonotonic
    <2>10. stack' = Append(s, w) /\ types' = Append(ts, t)
      BY <2>2, <2>4 DEF Replace
    <2>11. types' \in Seq(T) /\ Len(types') = m + 1 /\ Len(stack') = m + 1
      BY <2>6, <2>9, <2>10, AppendProperties
    <2> QED
      BY <2>5, <2>11, MachineAssumption
  <1>1. PICK s : s = SubSeq(stack, 1, Len(stack) - n)
    OBVIOUS
  <1>2. s \in Seq(Words) /\ HoldsValid(s) /\ w \in Words /\ stack' = Append(s, w)
    BY <1>1, StackPops DEF Replace, Valid
  <1>3. PICK r : r = stack'
    OBVIOUS
  <1>4. /\ r \in Seq(Words) /\ Len(r) = Len(s) + 1 /\ r[Len(s) + 1] = w
        /\ \A i \in 1 .. Len(s) : r[i] = s[i]
    BY <1>2, <1>3, AppendProperties
  <1>5. Len(s) \in Nat
    BY <1>2, LenProperties
  <1>6. ASSUME NEW i \in 1 .. Len(r) PROVE Valid(r[i])'
    <2>1. CASE i \in 1 .. Len(s)
      <3>1. PICK v : v = s[i]
        OBVIOUS
      <3>2. Valid(v)'
        BY <1>2, <2>1, <3>1 DEF HoldsValid
      <3> QED
        BY <1>4, <2>1, <3>1, <3>2
    <2>2. CASE i = Len(s) + 1
      BY <1>4, <2>2
    <2> QED
      BY <1>4, <1>5, <2>1, <2>2
  <1> QED
    BY <1>0, <1>3, <1>4, <1>6 DEF StackValid, HoldsValid

(* An instruction that makes an object and pushes a pointer to it.         *)
LEMMA ObjectPushed ==
  ASSUME Kept, stage = "running", stage' = "running", OnlyLoader,
         NEW n \in 0 .. Len(stack), NEW r, NEW t, Replace(n, MAKE_PTR(NewAddress), r),
         NEW type \in ObjectTypes, NEW cells \in Seq(Words \cup STRING), NEW size \in Int,
         MakeObject(type, cells, size, t),
         type # "TYPE_STRING" => HoldsValid(cells),
         type = "TYPE_MUTABLE" => Len(cells) = 1,
         strayed => strayed', ~strayed' => size = Len(cells)
  PROVE  Kept'
  <1>1. /\ memory' = Append(memory, cells)
        /\ heap' = Append(heap, Object(type, size, Len(memory')))
        /\ args' = args
    BY DEF MakeObject, OnlyLoader
  <1>2. Blocks' /\ CellsValid' /\ Stays /\ Len(heap') = Len(heap) + 1
    BY <1>1, NewObject DEF Kept
  <1>3. PICK w : w = MAKE_PTR(NewAddress)
    OBVIOUS
  <1>4. /\ heap \in Seq([type : ObjectTypes, length : Int, block : Nat]) /\ Len(heap) \in Nat
        /\ heap' \in Seq([type : ObjectTypes, length : Int, block : Nat])
    BY <1>2, KeptFacts DEF Blocks
  <1>5. w = Word("POINTER", Len(heap) + 1) /\ Len(heap) + 1 \in 0 .. Len(heap')
    BY <1>2, <1>3, <1>4 DEF NewAddress, MAKE_PTR
  <1>6. Valid(w)'
    BY <1>5 DEF Valid, Word, Words, Signatures, IS_PTR, GET_PTR
  <1>7. \A v : Valid(v) => Valid(v)'
    BY <1>2, <1>4, ValidStays
  <1>8. StackValid'
    BY <1>3, <1>6, <1>7, StackReplaced
  <1> QED
    BY <1>2, <1>8, MachineStep

(* An instruction that leaves the memory alone.                            *)
LEMMA WordPushed ==
  ASSUME Kept, stage = "running", stage' = "running", OnlyLoader, SameHeap,
         NEW n \in 0 .. Len(stack), NEW w, NEW t, Replace(n, w, t), Valid(w),
         strayed => strayed'
  PROVE  Kept'
  <1>1. Blocks' /\ CellsValid' /\ Stays /\ \A v : Valid(v) => Valid(v)'
    BY SameMemory DEF SameHeap, OnlyLoader
  <1>2. StackValid'
    BY <1>1, StackReplaced
  <1> QED
    BY <1>1, <1>2, MachineStep

LEMMA NothingPushed ==
  ASSUME Kept, stage = "running", stage' \in {"running", "thrown", "over"}, OnlyLoader,
         UNCHANGED <<stack, types, heap, memory>>, strayed' = strayed
  PROVE  Kept'
  <1>1. Blocks' /\ CellsValid' /\ Stays /\ \A v : Valid(v) => Valid(v)'
    BY SameMemory DEF OnlyLoader
  <1>2. StackValid'
    BY <1>1 DEF StackValid, HoldsValid, Kept
  <1> QED
    BY <1>1, <1>2, MachineStep

LEMMA ConstantsValid ==
  ASSUME Kept, stage = "running", NEW i \in 1 .. Len(constants)
  PROVE  Valid(constants[i])
  <1>1. constants[i] \in Words
    BY ElementOfSeq DEF Kept, ConstantsRead
  <1>2. IS_PTR(constants[i]) => Points(constants[i], "TYPE_STRING")
    BY PointerConstants DEF Kept
  <1> QED
    BY <1>1, <1>2, KeptFacts DEF Valid, Points

LEMMA PushSteps ==
  ASSUME Kept
  PROVE  /\ \A i \in DOMAIN constants : LoadConstant(i) => Kept'
         /\ \A i \in 1 .. Depth : LoadSlot(i) => Kept'
         /\ \A f \in Files[argv[2]].functions : MakeFunction(f[1], f[2]) => Kept'
  <1>0. 0 \in 0 .. Len(stack) /\ DOMAIN constants = 1 .. Len(constants) /\ DOMAIN stack = 1 .. Len(stack)
    BY KeptFacts, LenProperties DEF Kept, ConstantsRead
  <1>1. ASSUME NEW i \in DOMAIN constants, LoadConstant(i) PROVE Kept'
    <2>1. /\ stage = "running" /\ stage' = "running" /\ OnlyLoader /\ SameHeap
          /\ Replace(0, constants[i], <<KindOf(i)>>) /\ strayed' = strayed
      BY <1>1 DEF LoadConstant, Executes, Quietly
    <2>2. PICK w, t : w = constants[i] /\ t = <<KindOf(i)>>
      OBVIOUS
    <2>3. Valid(w)
      BY <1>0, <1>1, <2>1, <2>2, ConstantsValid
    <2> QED
      BY <1>0, <2>1, <2>2, <2>3, WordPushed
  <1>2. ASSUME NEW i \in 1 .. Depth, LoadSlot(i) PROVE Kept'
    <2>1. /\ stage = "running" /\ stage' = "running" /\ OnlyLoader /\ SameHeap
          /\ i \in DOMAIN stack /\ Replace(0, stack[i], types[i]) /\ strayed' = strayed
      BY <1>2 DEF LoadSlot, Executes, Quietly
    <2>2. PICK w, t : w = stack[i] /\ t = types[i]
      OBVIOUS
    <2>3. Valid(w)
      BY <1>0, <2>1, <2>2 DEF Kept, StackValid, HoldsValid
    <2> QED
      BY <1>0, <2>1, <2>2, <2>3, WordPushed
  <1>3. ASSUME NEW f \in Files[argv[2]].functions, MakeFunction(f[1], f[2]) PROVE Kept'
    <2>1. /\ stage = "running" /\ stage' = "running" /\ OnlyLoader /\ SameHeap
          /\ Replace(0, MAKE_FUNCTION(f[1], f[2]), fn) /\ (strayed => strayed')
      BY <1>3 DEF MakeFunction, Executes, Quietly
    <2>2. PICK w, t : w = MAKE_FUNCTION(f[1], f[2]) /\ t = fn
      OBVIOUS
    <2>3. f[1] \in Int /\ f[2] \in Int
      <3>1. Readable
        BY <2>1 DEF Kept, FileRead
      <3>2. Program.functions \subseteq Int \X Int
        BY <3>1, ProgramFacts
      <3> QED
        BY <3>2 DEF Program
    <2>4. PICK p \in Int : p = (f[1] % HALF) + (f[2] % HALF) * HALF
      <3>1. f[1] % HALF \in Int /\ f[2] % HALF \in Int
        BY <2>3, Widths, DivMod, WidthAssumption
      <3>2. PICK a \in Int, b \in Int : a = f[1] % HALF /\ b = f[2] % HALF
        BY <3>1
      <3>3. a + b * HALF \in Int
        BY Widths
      <3> QED
        BY <3>2, <3>3
    <2>5. w = Word("FUNCTION", p) \/ w = Word("ONES", p)
      BY <2>2, <2>4 DEF MAKE_FUNCTION
    <2>6. Valid(w)
      BY <2>4, <2>5 DEF Valid, Word, Words, Signatures, IS_PTR
    <2> QED
      BY <1>0, <2>1, <2>2, <2>6, WordPushed
  <1> QED
    BY <1>1, <1>2, <1>3

LEMMA MakeSteps ==
  ASSUME Kept
  PROVE  /\ \A n \in 0 .. MaxElements, t \in Types : MakeList(n, t) => Kept'
         /\ MakeMutable => Kept'
  <1>1. ASSUME NEW n \in 0 .. MaxElements, NEW t \in Types, MakeList(n, t) PROVE Kept'
    <2>1. /\ stage = "running" /\ stage' = "running" /\ OnlyLoader /\ n <= Len(stack)
          /\ MakeObject("TYPE_LIST", Operands(n), n, t)
          /\ Replace(n, MAKE_PTR(NewAddress), list(t)) /\ strayed' = strayed
      BY <1>1 DEF MakeList, Executes, Quietly
    <2>2. n \in 0 .. Len(stack) /\ n \in Int
      BY <2>1, KeptFacts, MachineAssumption
    <2>3. PICK cells, r : cells = Operands(n) /\ r = list(t)
      OBVIOUS
    <2>4. cells \in Seq(Words) /\ Len(cells) = n /\ HoldsValid(cells)
      BY <2>2, <2>3, StackPops
    <2>5. cells \in Seq(Words \cup STRING)
      BY <2>4, SeqMonotonic
    <2> QED
      BY <2>1, <2>2, <2>3, <2>4, <2>5, ObjectPushed DEF ObjectTypes
  <1>2. ASSUME MakeMutable PROVE Kept'
    <2>1. /\ stage = "running" /\ stage' = "running" /\ OnlyLoader /\ stack # <<>>
          /\ MakeObject("TYPE_MUTABLE", <<Top(0)>>, 1, TypeOfTop(0))
          /\ Replace(1, MAKE_PTR(NewAddress), mutable(TypeOfTop(0))) /\ strayed' = strayed
      BY <1>2 DEF MakeMutable, Executes, Quietly
    <2>2. 1 \in 0 .. Len(stack) /\ 0 \in 0 .. Len(stack) - 1
      BY <2>1, KeptFacts, EmptySeq
    <2>3. PICK w, t, r : w = Top(0) /\ t = TypeOfTop(0) /\ r = mutable(t)
      OBVIOUS
    <2>4. Valid(w)
      BY <2>2, <2>3, StackPops
    <2>5. PICK cells : cells = <<w>>
      OBVIOUS
    <2>6. cells \in Seq(Words \cup STRING) /\ Len(cells) = 1 /\ HoldsValid(cells)
      BY <2>4, <2>5 DEF HoldsValid, Valid
    <2>7. MakeObject("TYPE_MUTABLE", cells, 1, t) /\ Replace(1, MAKE_PTR(NewAddress), r)
      BY <2>1, <2>3, <2>5
    <2>8. "TYPE_MUTABLE" \in ObjectTypes /\ 1 \in Int
          /\ 1 = Len(cells) /\ ("TYPE_MUTABLE" = "TYPE_MUTABLE" => Len(cells) = 1)
      BY <2>6 DEF ObjectTypes
    <2> QED
      BY <2>1, <2>2, <2>6, <2>7, <2>8, ObjectPushed
  <1> QED
    BY <1>1, <1>2

(* Another value in a mutable: its block belongs to no other object.       *)
LEMMA MutableSet ==
  ASSUME Kept, NEW w, Points(w, "TYPE_MUTABLE"), NEW v, Valid(v), UNCHANGED <<heap, args>>,
         strayed => strayed',
         memory' = [memory EXCEPT ![heap[GET_PTR(w)].block] = <<v>>]
  PROVE  Blocks' /\ CellsValid' /\ Stays /\ (\A x : Valid(x) => Valid(x)')
  <1>1. PICK a : a = GET_PTR(w)
    OBVIOUS
  <1>2. PICK b : b = heap[a].block
    OBVIOUS
  <1>3. PICK cells : cells = <<v>>
    OBVIOUS
  <1>4. a \in 1 .. Len(heap) /\ heap[a].type = "TYPE_MUTABLE"
    BY <1>1 DEF Points
  <1>5. /\ b \in 1 .. Len(memory) /\ b # args
        /\ \A c \in 1 .. Len(heap) : heap[c].block = b => c = a
    BY <1>2, <1>4 DEF Kept, Blocks
  <1>6. cells \in Seq(Words \cup STRING) /\ Len(cells) = 1 /\ cells[1] = v
    BY <1>3 DEF Valid
  <1>7. memory' = [memory EXCEPT ![b] = cells]
    BY <1>1, <1>2, <1>3
  <1>8. /\ memory' \in Seq(Seq(Words \cup STRING)) /\ Len(memory') = Len(memory)
        /\ \A c \in 1 .. Len(memory) : memory'[c] = IF c = b THEN cells ELSE memory[c]
    <2> DEFINE C == Seq(Words \cup STRING)
    <2>1. memory \in Seq(C) /\ cells \in C
      BY <1>6, KeptFacts
    <2> HIDE DEF C
    <2>2. memory' \in Seq(C) /\ Len(memory') = Len(memory)
      <3>1. b \in 1 .. Len(memory)
        BY <1>5
      <3>2. [memory EXCEPT ![b] = cells] \in Seq(C) /\ Len([memory EXCEPT ![b] = cells]) = Len(memory)
        BY <2>1, <3>1, ExceptSeq
      <3> QED
        BY <3>2, <1>7
    <2>3. \A c \in 1 .. Len(memory) : memory'[c] = IF c = b THEN cells ELSE memory[c]
      BY <2>1, <1>5, <1>7, ExceptSeq
    <2> QED
      BY <2>2, <2>3 DEF C
  <1>9. Blocks'
    BY <1>8 DEF Kept, Blocks
  <1>10. \A x : Valid(x) => Valid(x)'
    BY DEF Valid
  <1>11. \A s : HoldsValid(s) => HoldsValid(s)'
    BY <1>10 DEF HoldsValid
  <1>12. HoldsValid(cells)
    BY <1>6 DEF HoldsValid
  <1>13. \A c \in 1 .. Len(heap) : heap[c].block \in 1 .. Len(memory)
    BY DEF Kept, Blocks
  <1>14. ASSUME NEW c \in 1 .. Len(heap)
         PROVE  /\ heap'[c].type # "TYPE_STRING" => HoldsValid(memory[heap[c].block])'
                /\ heap'[c].type = "TYPE_MUTABLE" => Len(memory'[heap'[c].block]) = 1
                /\ ~strayed' => heap'[c].length = Len(memory'[heap'[c].block])
    <2>1. /\ heap[c].type # "TYPE_STRING" => HoldsValid(memory[heap[c].block])
          /\ heap[c].type = "TYPE_MUTABLE" => Len(memory[heap[c].block]) = 1
          /\ ~strayed => heap[c].length = Len(memory[heap[c].block])
      BY DEF Kept, CellsValid
    <2>2. CASE c = a
      <3>1. memory'[heap'[c].block] = cells
        BY <1>2, <1>5, <1>8, <2>2
      <3>2. HoldsValid(memory[heap[c].block])'
        BY <3>1, <1>11, <1>12
      <3> QED
        BY <3>1, <3>2, <2>1, <2>2, <1>4, <1>6
    <2>3. CASE c # a
      <3>1. memory'[heap'[c].block] = memory[heap[c].block]
        BY <1>5, <1>8, <1>13, <2>3
      <3> QED
        BY <3>1, <2>1, <1>11
    <2> QED
      BY <2>2, <2>3
  <1>15. args' # 0 => memory'[args'] = memory[args] /\ HoldsValid(memory[args])'
    <2>1. args # 0 => args \in 1 .. Len(memory) /\ HoldsValid(memory[args])
      BY DEF Kept, Blocks, CellsValid
    <2>2. args # 0 => memory'[args] = memory[args]
      BY <2>1, <1>5, <1>8
    <2> QED
      BY <2>1, <2>2, <1>11
  <1>16. CellsValid'
    BY <1>14, <1>15 DEF CellsValid
  <1>17. Stays
    <2>1. \A c \in 1 .. Len(heap) : heap[c].type # "TYPE_MUTABLE" => memory'[heap[c].block] = memory[heap[c].block]
      BY <1>4, <1>5, <1>8, <1>13
    <2> QED
      BY <2>1, <1>15, KeptFacts DEF Stays
  <1> QED
    BY <1>9, <1>10, <1>16, <1>17

LEMMA UpdateStep ==
  ASSUME Kept, Update
  PROVE  Kept'
  <1>1. stage = "running" /\ OnlyLoader /\ Len(stack) >= 2
    BY DEF Update, Executes
  <1>2. 2 \in 0 .. Len(stack) /\ 0 \in 0 .. Len(stack) - 1 /\ 1 \in 0 .. Len(stack) - 1
    BY <1>1, KeptFacts
  <1>3. CASE GetType(Top(0)) # "TYPE_MUTABLE"
    BY <1>1, <1>3, NothingPushed DEF Update, Throw
  <1>4. CASE GetType(Top(0)) = "TYPE_MUTABLE"
    <2>1. PICK w, v : w = Top(0) /\ v = Top(1)
      OBVIOUS
    <2>2. Valid(w) /\ Valid(v)
      BY <2>1, <1>2, StackPops
    <2>3. Points(w, "TYPE_MUTABLE")
      BY <2>1, <2>2, <1>4, TypeFacts DEF ObjectTypes, Kept
    <2>4. /\ stage' = "running" /\ UNCHANGED <<heap, args, strayed>> /\ Drop(2)
          /\ memory' = [memory EXCEPT ![heap[GET_PTR(w)].block] = <<v>>]
      BY <1>1, <1>4, <2>1 DEF Update, Quietly, OnlyLoader
    <2>5. Blocks' /\ CellsValid' /\ Stays /\ (\A x : Valid(x) => Valid(x)')
      BY <2>2, <2>3, <2>4, MutableSet
    <2>6. StackValid'
      <3>1. PICK s : s = SubSeq(stack, 1, Len(stack) - 2)
        OBVIOUS
      <3>2. s \in Seq(Words) /\ HoldsValid(s) /\ stack' = s
        BY <3>1, <2>4, <1>2, StackPops DEF Drop
      <3>3. HoldsValid(s)'
        BY <3>2, <2>5 DEF HoldsValid
      <3>4. PICK S : types \in Seq(S)
        BY DEF Kept, StackValid
      <3>5. PICK l \in Nat : l = Len(stack) /\ l = Len(types) /\ l >= 2 /\ l <= Depth
        BY <1>1, KeptFacts DEF Kept, StackValid
      <3>6. PICK m \in Nat : m = l - 2
        BY <3>5
      <3>7. /\ types' = SubSeq(types, 1, m) /\ s = SubSeq(stack, 1, m)
            /\ \A i \in 1 .. m : stack[i] \in Words /\ types[i] \in S
        <4>1. \A i \in 1 .. m : i \in 1 .. l
          BY <3>6
        <4> QED
          BY <2>4, <3>1, <3>4, <3>5, <3>6, <4>1, KeptFacts, ElementOfSeq DEF Drop
      <3>8. types' \in Seq(S) /\ Len(types') = m /\ Len(s) = m
        <4>1. 1 \in Int /\ m \in Int /\ m - 1 + 1 = m /\ (~(1 <= m) => m = 0)
          BY <3>6
        <4> QED
          BY <3>7, <4>1, SubSeqProperties
      <3>9. m <= Depth
        BY <3>5, <3>6, MachineAssumption
      <3> QED
        BY <3>2, <3>3, <3>8, <3>9 DEF StackValid, HoldsValid
    <2> QED
      BY <1>1, <2>4, <2>5, <2>6, MachineStep
  <1> QED
    BY <1>3, <1>4

(* An element that is taken from a list, or no element of it.              *)
LEMMA TakeStep ==
  ASSUME Kept, stage = "running", OnlyLoader, NEW n \in 0 .. Len(stack), NEW w, Valid(w),
         NEW i \in Nat, Take(n, w, i)
  PROVE  Kept'
  <1>1. CASE GetType(w) = "TYPE_LIST" /\ ~(i >= Length(w))
    <2>1. PICK e, t : e = Element(w, i) /\ t = Tail(TypeOfTop(n - 1))
      OBVIOUS
    <2>2. Points(w, "TYPE_LIST")
      BY <1>1, TypeFacts DEF ObjectTypes, Kept
    <2>3. Valid(e)
      BY <2>1, <2>2, ElementValid DEF Kept
    <2>4. stage' = "running" /\ SameHeap /\ Replace(n, e, t) /\ strayed' = strayed
      BY <1>1, <2>1 DEF Take, Quietly
    <2> QED
      BY <2>3, <2>4, WordPushed
  <1>2. CASE ~(GetType(w) = "TYPE_LIST" /\ ~(i >= Length(w)))
    <2>1. stage' = "thrown" /\ UNCHANGED <<stack, types, heap, memory, strayed>>
      BY <1>2 DEF Take, Throw
    <2> QED
      BY <2>1, NothingPushed
  <1> QED
    BY <1>1, <1>2

LEMMA ElementSteps ==
  ASSUME Kept
  PROVE  /\ \A i \in 0 .. MaxElements : ListGet(i) => Kept'
         /\ GetIndex => Kept'
  <1>1. ASSUME NEW i \in 0 .. MaxElements, ListGet(i) PROVE Kept'
    <2>1. /\ stage = "running" /\ OnlyLoader /\ stack # <<>>
          /\ Take(1, Top(0), Unsigned(i))
      BY <1>1 DEF ListGet, Executes
    <2>2. 1 \in 0 .. Len(stack) /\ 0 \in 0 .. Len(stack) - 1
      BY <2>1, KeptFacts, EmptySeq
    <2>3. PICK w, j : w = Top(0) /\ j = Unsigned(i)
      OBVIOUS
    <2>4. i \in Int /\ j \in Nat
      BY <2>3, MachineAssumption, UnsignedFacts, Widths
    <2>5. Valid(w)
      BY <2>2, <2>3, StackPops
    <2>6. Take(1, w, j)
      BY <2>1, <2>3
    <2> QED
      BY <2>1, <2>2, <2>4, <2>5, <2>6, TakeStep
  <1>2. ASSUME GetIndex PROVE Kept'
    <2>1. stage = "running" /\ OnlyLoader /\ Len(stack) >= 2
      BY <1>2 DEF GetIndex, Executes
    <2>2. 2 \in 0 .. Len(stack) /\ 0 \in 0 .. Len(stack) - 1 /\ 1 \in 0 .. Len(stack) - 1
      BY <2>1, KeptFacts
    <2>3. PICK w, j : w = Top(1) /\ j = GET_INT(Top(0))
      OBVIOUS
    <2>4. Valid(w) /\ Valid(Top(0))
      BY <2>2, <2>3, StackPops
    <2>5. j \in Nat
      <3>1. Top(0).payload \in Int
        BY <2>4, TypeFacts DEF Kept
      <3>2. PICK p \in Int : p = Top(0).payload
        BY <3>1
      <3>3. Unsigned(p) \in 0 .. INT - 1
        BY UnsignedFacts
      <3>4. j = Unsigned(p)
        BY <2>3, <3>2 DEF GET_INT
      <3> QED
        BY <3>3, <3>4, Widths
    <2>6. CASE GetType(Top(0)) = "TYPE_INTEGER"
      <3>1. Take(2, w, j)
        BY <1>2, <2>3, <2>6 DEF GetIndex
      <3> QED
        BY <3>1, <2>1, <2>2, <2>4, <2>5, TakeStep
    <2>7. CASE GetType(Top(0)) # "TYPE_INTEGER"
      <3>1. stage' = "thrown" /\ UNCHANGED <<stack, types, heap, memory, strayed>>
        BY <1>2, <2>7 DEF GetIndex, Throw
      <3> QED
        BY <3>1, <2>1, NothingPushed
    <2> QED
      BY <2>6, <2>7
  <1> QED
    BY <1>1, <1>2

(* The handles are those of libraries, or NULL.                            *)
LEMMA HandlesAre ==
  ASSUME FileRead, HandlesKnown, stage \notin {"start", "thrown"}
  PROVE  handles \in Seq(DOMAIN Libraries \cup {NULL}) /\ Len(handles) = Len(Options)
  <1>1. argv \in Seq(STRING)
    BY LoaderAssumption DEF FileRead
  <1>2. Len(Options) \in Nat
    BY <1>1, OptionsFacts, LenProperties DEF Increasing
  <1>3. handles = [k \in 1 .. Len(Options) |-> Opened(Named(Options[k]))]
    BY DEF HandlesKnown
  <1>4. \A name : Opened(name) \in DOMAIN Libraries \cup {NULL}
    BY DEF Opened
  <1>5. handles \in [1 .. Len(Options) -> DOMAIN Libraries \cup {NULL}]
    BY <1>3, <1>4
  <1> QED
    BY <1>2, <1>5, FunctionIsSeq

(* A native that is found is of a library, and its arguments are there.    *)
LEMMA CalledNative ==
  ASSUME Kept, NEW i \in DOMAIN constants, NativeCall(i),
         NEW f, f = Cells(constants[i])[1], FindFunction(f) # 0
  PROVE  f \in Natives /\ Arity(f) \in 0 .. Len(stack)
  <1>1. handles[FindFunction(f)] # NULL /\ Arity(f) <= Len(stack) /\ stage = "running"
    BY DEF NativeCall, Executes
  <1>2. handles \in Seq(DOMAIN Libraries \cup {NULL})
    BY <1>1, HandlesAre DEF Kept
  <1>3. FindFunction(f) \in 1 .. Len(handles) /\ f \in Defines(handles[FindFunction(f)])
    BY <1>2, FoundFunction
  <1>4. PICK h : h = handles[FindFunction(f)]
    OBVIOUS
  <1>5. h \in DOMAIN Libraries \cup {NULL}
    BY <1>2, <1>3, <1>4, ElementOfSeq
  <1>6. h \in DOMAIN Libraries /\ f \in Libraries[h]
    BY <1>1, <1>3, <1>4, <1>5 DEF Defines
  <1>7. f \in Natives
    BY <1>6, MachineAssumption
  <1> QED
    BY <1>1, <1>7, ArityFacts, KeptFacts

(* A native is called with the words on top, and what it gives is pushed.  *)
LEMMA NativeSteps ==
  ASSUME Kept, NEW i \in DOMAIN constants, NativeCall(i)
  PROVE  Kept'
  <1>1. PICK f : f = Cells(constants[i])[1]
    OBVIOUS
  <1>2. PICK out : out = Outcome(f, Operands(Arity(f)))
    OBVIOUS
  <1>3. stage = "running" /\ OnlyLoader
    BY DEF NativeCall, Executes
  <1>4. CASE FindFunction(f) = 0
    <2>1. stage' = "thrown" /\ UNCHANGED <<stack, types, heap, memory, strayed>>
      BY <1>1, <1>4 DEF NativeCall, Throw
    <2> QED
      BY <2>1, <1>3, NothingPushed
  <1>5. CASE FindFunction(f) # 0
    <2>2. f \in Natives
      BY <1>1, <1>5, CalledNative
    <2>3. PICK n : n = Arity(f)
      OBVIOUS
    <2>4. PICK xs : xs = Operands(n)
      OBVIOUS
    <2>5. n \in 0 .. Len(stack)
      BY <1>1, <1>5, <2>3, CalledNative
    <2>6. xs \in Seq(Words) /\ Len(xs) = Arity(f) /\ HoldsValid(xs)
      BY <2>3, <2>4, <2>5, StackPops
    <2>7. PICK r \in ResultTypes(f, SubSeq(types, Len(types) - n + 1, Len(types))) :
            \/ out.does = "throw" /\ Throw(out.reason)
            \/ out.does = "return" /\ Returned(f, n, out.word, r) /\ SameHeap
            \/ /\ out.does = "make"
               /\ MakeIn(out, Tail(r))
               /\ Returned(f, n, MAKE_PTR(NewAddress), r)
      BY <1>1, <1>2, <1>5, <2>3, <2>4 DEF NativeCall, Arguments
    <2>8. /\ Sound(out)
          /\ ~strayed /\ ~Strays(f, xs) => Measured(out)
      <3>1. args # 0 /\ Len(memory[args]) = Len(argv) /\ argv \in Seq(STRING)
        BY <1>3, KeptFacts DEF Kept, ArgumentsPassed
      <3>2. out = Outcome(f, xs)
        BY <1>2, <2>3, <2>4
      <3> QED
        BY <2>2, <2>6, <3>1, <3>2, OutcomeFacts DEF Kept
    <2>9. CASE out.does = "throw" /\ Throw(out.reason)
      BY <2>9, <1>3, NothingPushed DEF Throw
    <2>10. CASE out.does = "return" /\ Returned(f, n, out.word, r) /\ SameHeap
      <3>1. PICK w : w = out.word
        OBVIOUS
      <3>2. Valid(w)
        BY <2>8, <2>10, <3>1 DEF Sound
      <3>3. stage' = "running" /\ Replace(n, w, r) /\ (strayed => strayed')
        BY <2>10, <3>1, <1>3 DEF Returned
      <3> QED
        BY <1>3, <2>5, <2>10, <3>2, <3>3, WordPushed
    <2>11. CASE out.does = "make" /\ MakeIn(out, Tail(r)) /\ Returned(f, n, MAKE_PTR(NewAddress), r)
      <3>1. Made(out)
        BY <2>8, <2>11 DEF Sound
      <3>2. PICK type, cells, size, t : /\ type = out.type /\ cells = out.cells
                                        /\ size = out.length /\ t = Tail(r)
        OBVIOUS
      <3>3. MakeObject(type, cells, size, t)
        BY <2>11, <3>1, <3>2 DEF MakeIn, Made
      <3>4. /\ type \in {"TYPE_STRING", "TYPE_LIST"} /\ size \in Int
            /\ cells \in Seq(Words \cup STRING) /\ (type = "TYPE_LIST" => HoldsValid(cells))
        BY <3>1, <3>2 DEF Made
      <3>5. (strayed => strayed') /\ (~strayed' => size = Len(cells))
        <4>1. strayed' = (strayed \/ Strays(f, xs))
          BY <2>4, <2>11 DEF Returned
        <4> QED
          BY <2>8, <2>11, <3>2, <3>3, <4>1 DEF Measured, MakeObject
      <3>6. /\ type \in ObjectTypes /\ (type # "TYPE_STRING" => HoldsValid(cells))
            /\ (type = "TYPE_MUTABLE" => Len(cells) = 1)
        BY <3>4 DEF ObjectTypes
      <3>7. stage' = "running" /\ Replace(n, MAKE_PTR(NewAddress), r)
        BY <2>11, <1>3 DEF Returned
      <3> QED
        BY <1>3, <2>5, <3>3, <3>4, <3>5, <3>6, <3>7, ObjectPushed
    <2> QED
      BY <2>7, <2>9, <2>10, <2>11
  <1> QED
    BY <1>4, <1>5

LEMMA MachineSteps ==
  ASSUME Kept, Next, ~(Load /\ UNCHANGED machineVars)
  PROVE  Kept'
  <1>1. ASSUME Halt PROVE Kept'
    <2>1. stage = "running" /\ stage' = "over" /\ OnlyLoader /\ UNCHANGED <<stack, types, heap, memory, strayed>>
      BY <1>1 DEF Halt
    <2> QED
      BY <2>1, NothingPushed
  <1> QED
    BY <1>1, PushSteps, MakeSteps, UpdateStep, ElementSteps, NativeSteps DEF Next
-----------------------------------------------------------------------------
(* While the file is read, the machine has not begun.                      *)
LEMMA NotBegun ==
  ASSUME Kept, UNCHANGED <<argv, machineVars>>, Blocks', Len(heap) <= Len(heap')
  PROVE  StackValid' /\ Options' = Options /\ (\A i : Named(i)' = Named(i))
         /\ (Readable => Program' = Program /\ Readable')
  <1>1. StackValid'
    <2>1. \A w : Valid(w) => Valid(w)'
      BY ValidStays DEF Kept, Blocks
    <2>2. UNCHANGED <<stack, types>>
      BY DEF machineVars
    <2> QED
      BY <2>1, <2>2 DEF Kept, StackValid, HoldsValid
  <1>2. UNCHANGED argv
    OBVIOUS
  <1> QED
    BY <1>1, <1>2 DEF Options, OptionsUpTo, Named, Readable, Program

LEMMA StartSteps ==
  ASSUME Kept, Refuse \/ LoadLibraries \/ ReadCount, UNCHANGED machineVars
  PROVE  Kept'
  <1>1. /\ stage \in {"start", "count"} /\ UNCHANGED <<argv, heap, memory, constants, args>>
        /\ stage' \in {"thrown", "count", "constants"}
    BY DEF Refuse, LoadLibraries, ReadCount
  <1>2. Blocks' /\ CellsValid'
    BY <1>1, SameMemory DEF machineVars
  <1>3. Len(heap) \in Nat
    BY KeptFacts
  <1>4. StackValid' /\ Options' = Options /\ (\A i : Named(i)' = Named(i))
        /\ (Readable => Program' = Program /\ Readable')
    BY <1>1, <1>2, <1>3, NotBegun
  <1>5. constants = <<>> /\ heap = <<>> /\ memory = <<>> /\ args = 0
    BY <1>1 DEF Kept, ConstantsRead, BeforeConstants
  <1>6. ConstantsRead' /\ CodeRead' /\ ArgumentsPassed'
    BY <1>1, <1>5, EmptySeq DEF ConstantsRead, CodeRead, ArgumentsPassed, BeforeConstants, HasRun
  <1>7. FileRead'
    <2>1. CASE Refuse
      BY <2>1 DEF Refuse, FileRead, Kept
    <2>2. CASE LoadLibraries
      <3>1. file' = Serialized(Program) /\ Readable /\ stage' = "count"
        BY <2>2 DEF LoadLibraries, Program
      <3> QED
        BY <3>1, <1>1, <1>4 DEF FileRead, Kept
    <2>3. CASE ReadCount
      BY <2>3, CountStep DEF Kept
    <2> QED
      BY <2>1, <2>2, <2>3
  <1>8. HandlesKnown'
    <2>1. CASE Refuse
      BY <2>1 DEF Refuse, HandlesKnown
    <2>2. CASE LoadLibraries
      BY <2>2, <1>4 DEF LoadLibraries, HandlesKnown
    <2>3. CASE ReadCount
      BY <2>3, <1>4 DEF ReadCount, HandlesKnown, Kept
    <2> QED
      BY <2>1, <2>2, <2>3
  <1> QED
    BY <1>2, <1>4, <1>6, <1>7, <1>8 DEF Kept

LEMMA ReadSteps ==
  ASSUME Kept, ReadConstant \/ ReadCode \/ PassArguments, UNCHANGED machineVars
  PROVE  Kept'
  <1>1. /\ stage \in {"constants", "arguments"} /\ UNCHANGED <<argv, handles>>
        /\ stage' \in {"constants", "arguments", "running"}
    BY DEF ReadConstant, ReadCode, PassArguments
  <1>2. /\ FileRead' /\ ConstantsRead' /\ CodeRead' /\ Blocks' /\ CellsValid' /\ ArgumentsPassed'
        /\ Len(heap) <= Len(heap')
    <2>1. CASE ReadConstant
      <3>1. stage' = "constants"
        BY <2>1 DEF ReadConstant
      <3> QED
        BY <3>1, <2>1, ConstantStep DEF Kept, ArgumentsPassed, Stays, machineVars
    <2>2. CASE ReadCode
      <3>1. stage' = "arguments" /\ heap' = heap
        BY <2>2 DEF ReadCode
      <3> QED
        BY <3>1, <2>2, CodeStep, KeptFacts DEF Kept, ArgumentsPassed, machineVars
    <2>3. CASE PassArguments
      BY <2>3, ArgumentsStep DEF Kept, Stays, machineVars
    <2> QED
      BY <2>1, <2>2, <2>3
  <1>3. StackValid' /\ Options' = Options /\ (\A i : Named(i)' = Named(i))
    BY <1>1, <1>2, NotBegun
  <1>4. HandlesKnown'
    BY <1>1, <1>3 DEF HandlesKnown, Kept
  <1> QED
    BY <1>2, <1>3, <1>4 DEF Kept

LEMMA KeptAtFirst == MachineInit => Kept
  <1> SUFFICES ASSUME MachineInit PROVE Kept
    OBVIOUS
  <1>1. /\ stage = "start" /\ argv \in CommandLines /\ heap = <<>> /\ memory = <<>>
        /\ constants = <<>> /\ args = 0 /\ stack = <<>> /\ types = <<>>
    BY DEF MachineInit, Init
  <1>2. \A S : <<>> \in Seq(S) /\ Len(<<>>) = 0
    BY EmptySeq
  <1>3. StackValid
    <2>1. types \in Seq({}) /\ Len(types) = 0
      BY <1>1, <1>2
    <2>2. 0 <= Depth
      BY MachineAssumption
    <2> QED
      BY <1>1, <1>2, <2>1, <2>2 DEF StackValid, HoldsValid
  <1> QED
    BY <1>1, <1>2, <1>3 DEF Kept, FileRead, ConstantsRead, CodeRead, Blocks, CellsValid, ArgumentsPassed,
      HandlesKnown, BeforeConstants, HasRun

LEMMA KeptBySteps == Kept /\ [Next]_vars => Kept'
  <1> SUFFICES ASSUME Kept, [Next]_vars PROVE Kept'
    OBVIOUS
  <1>1. CASE UNCHANGED vars
    <2>1. UNCHANGED <<stage, argv, file, handles, expected, heap, memory, constants, instrs, args, stack,
                      types, strayed>>
      BY <1>1 DEF vars, loaderVars, machineVars
    <2>2. Blocks' /\ CellsValid'
      BY <2>1, SameMemory
    <2>3. StackValid'
      BY <2>1 DEF Kept, StackValid, HoldsValid, Valid
    <2>4. Program' = Program /\ Readable' = Readable /\ Options' = Options /\ (\A i : Named(i)' = Named(i))
      BY <2>1 DEF Program, Readable, Options, OptionsUpTo, Named
    <2>5. ArgumentsPassed' /\ CodeRead' /\ HandlesKnown'
      BY <2>1, <2>4 DEF Kept, ArgumentsPassed, Points, CodeRead, HandlesKnown, HasRun
    <2>6. \A w, literal : Loaded(w, literal)' = Loaded(w, literal)
      BY <2>1 DEF Loaded, Points, Cells, Length
    <2>7. ConstantsRead'
      BY <2>1, <2>4, <2>6 DEF Kept, ConstantsRead, BeforeConstants, HasRun
    <2>8. FileRead'
      BY <2>1, <2>4 DEF Kept, FileRead, PartsFrom, Parts, CodeFields, Rows
    <2> QED
      BY <2>2, <2>3, <2>5, <2>7, <2>8 DEF Kept
  <1>2. CASE Load /\ UNCHANGED machineVars
    BY <1>2, StartSteps, ReadSteps DEF Load
  <1>3. CASE Next /\ ~(Load /\ UNCHANGED machineVars)
    BY <1>3, MachineSteps
  <1> QED
    BY <1>1, <1>2, <1>3

LEMMA AlwaysKept == Spec => []Kept
  <1>1. MachineInit => Kept
    BY KeptAtFirst
  <1>2. Kept /\ [Next]_vars => Kept'
    BY KeptBySteps
  <1> QED
    BY <1>1, <1>2, PTL DEF Spec
-----------------------------------------------------------------------------
(* What deserialize leaves in memory is the program that the compiler      *)
(* wrote, for any program and any widths.                                  *)
THEOREM SpecLoadedAsCompiled == Spec => []LoadedAsCompiled
  <1>1. Kept => LoadedAsCompiled
    <2> SUFFICES ASSUME Kept, stage \in {"arguments", "over"} PROVE LoadedAsCompiled
      BY DEF LoadedAsCompiled
    <2>1. Readable /\ HasRun
      BY DEF Kept, FileRead, HasRun
    <2>2. PICK program : program = Program
      OBVIOUS
    <2>3. /\ Len(constants) = Len(program.constants) /\ DOMAIN constants = 1 .. Len(constants)
          /\ program.constants \in Seq(Literals)
          /\ program.code \in Seq(Instructions) /\ DOMAIN program.code = 1 .. Len(program.code)
      BY <2>1, <2>2, ProgramFacts, LenProperties DEF Kept, ConstantsRead
    <2>4. /\ Len(instrs) = 5 * Len(program.code)
          /\ \A k \in DOMAIN program.code : \A i \in DOMAIN program.code[k] :
               instrs[5 * (k - 1) + i] = program.code[k][i]
      <3>1. \A k \in 1 .. Len(program.code) : DOMAIN program.code[k] = 1 .. Len(program.code[k])
        BY <2>3, ElementOfSeq, LenProperties DEF Instructions
      <3> QED
        BY <2>1, <2>2, <2>3, <3>1 DEF Kept, CodeRead
    <2>5. ASSUME NEW i \in DOMAIN constants
          PROVE  CASE program.constants[i].kind = "int" ->
                        /\ GetType(constants[i]) = "TYPE_INTEGER"
                        /\ (GET_INT(constants[i]) - program.constants[i].value) % INT = 0
                   [] program.constants[i].kind = "float" ->
                        constants[i] = Word("FLOAT", program.constants[i].value)
                   [] program.constants[i].kind \in {"string", "native"} ->
                        /\ GetType(constants[i]) = "TYPE_STRING"
                        /\ Cells(constants[i]) = program.constants[i].value
                        /\ Length(constants[i]) = Len(program.constants[i].value)
      <3>0. PICK w, literal : w = constants[i] /\ literal = program.constants[i]
        OBVIOUS
      <3>1. Loaded(w, literal) /\ literal \in Literals
        BY <2>1, <2>2, <2>3, <3>0, ElementOfSeq DEF Kept, ConstantsRead
      <3>2. literal.kind \in {"int", "float", "string", "native"} /\ (literal.kind = "int" => literal.value \in Int)
        BY <3>1 DEF Literals
      <3>3. ASSUME literal.kind = "int"
            PROVE  GetType(w) = "TYPE_INTEGER" /\ (GET_INT(w) - literal.value) % INT = 0
        <4>1. PICK n \in Int : n = literal.value
          BY <3>2, <3>3
        <4>2. PICK u : u = Unsigned(n)
          OBVIOUS
        <4>3. u \in 0 .. INT - 1 /\ (u - n) % INT = 0
          BY <4>2, UnsignedFacts
        <4>4. Unsigned(u) = u
          BY <4>3, UnsignedFacts, Widths
        <4>5. w = Word("INTEGER", u)
          BY <3>1, <3>3, <4>1, <4>2 DEF Loaded, MAKE_INTEGER
        <4>6. w.signature = "INTEGER" /\ w.payload = u
          BY <4>5 DEF Word
        <4>7. GetType(w) = "TYPE_INTEGER"
          BY <4>6 DEF GetType, IS_PTR
        <4>8. GET_INT(w) = u
          BY <4>4, <4>6 DEF GET_INT
        <4> QED
          BY <4>1, <4>3, <4>7, <4>8
      <3>4. Points(w, "TYPE_STRING") => GetType(w) = "TYPE_STRING"
        <4>1. Points(w, "TYPE_STRING") => w.signature = "POINTER" /\ GET_PTR(w) # 0 /\ heap[GET_PTR(w)].type = "TYPE_STRING"
          BY DEF Points, IS_PTR
        <4> QED
          BY <4>1 DEF GetType, IS_PTR
      <3>5. CASE literal.kind = "int"
        BY <3>0, <3>3, <3>5
      <3>6. CASE literal.kind = "float"
        BY <3>0, <3>1, <3>6 DEF Loaded
      <3>7. CASE literal.kind \in {"string", "native"}
        BY <3>0, <3>1, <3>4, <3>7 DEF Loaded
      <3> QED
        BY <3>0, <3>2, <3>5, <3>6, <3>7
    <2> QED
      BY <2>2, <2>3, <2>4, <2>5 DEF LoadedAsCompiled, Program
  <1> QED
    BY <1>1, AlwaysKept, PTL

-----------------------------------------------------------------------------
(* Where every -l names a library that is there, a native is taken from    *)
(* the first on the command line that has it.                              *)
THEOREM SpecNativesFromTheirLibrary == Spec => []NativesFromTheirLibrary
  <1> DEFINE Given(i) == i < Len(argv) /\ argv[i + 1] \in DOMAIN Libraries
             With(f)  == {i \in Range(Options) : f \in Libraries[argv[i + 1]]}
             First(f) == CHOOSE i \in With(f) : \A j \in With(f) : i <= j
  <1>1. ASSUME Kept, stage \in {"arguments", "over"}, \A i \in Range(Options) : Given(i),
               NEW f, With(f) # {}
        PROVE  /\ FindFunction(f) \in DOMAIN handles
               /\ handles[FindFunction(f)] = argv[1 + First(f)]
    <2>1. argv \in Seq(STRING) /\ Len(argv) \in Nat
      BY <1>1, KeptFacts
    <2>2. /\ Options \in Seq(1 .. Len(argv)) /\ Len(Options) \in Nat
          /\ \A j, k \in 1 .. Len(Options) : j < k => Options[j] < Options[k]
          /\ \A k \in 1 .. Len(Options) : Options[k] \in 1 .. Len(argv)
          /\ Range(Options) = {Options[k] : k \in 1 .. Len(Options)}
      <3>1. Increasing(Options, Len(argv))
        BY <2>1, OptionsFacts
      <3>2. Options \in Seq(1 .. Len(argv))
        BY <3>1 DEF Increasing
      <3>3. Len(Options) \in Nat /\ DOMAIN Options = 1 .. Len(Options)
        BY <3>2, LenProperties
      <3>4. \A k \in 1 .. Len(Options) : Options[k] \in 1 .. Len(argv)
        BY <3>2, ElementOfSeq
      <3>5. Range(Options) = {Options[k] : k \in 1 .. Len(Options)}
        BY <3>3 DEF Range
      <3> QED
        BY <3>1, <3>2, <3>3, <3>4, <3>5 DEF Increasing
    <2>3. /\ handles \in Seq(DOMAIN Libraries \cup {NULL}) /\ Len(handles) = Len(Options)
          /\ handles = [k \in 1 .. Len(Options) |-> Opened(Named(Options[k]))]
      BY <1>1, HandlesAre DEF Kept, HandlesKnown
    <2>4. ASSUME NEW k \in 1 .. Len(Options)
          PROVE  handles[k] = argv[Options[k] + 1] /\ Defines(handles[k]) = Libraries[argv[Options[k] + 1]]
      <3>1. Given(Options[k])
        BY <1>1, <2>2
      <3>2. handles[k] = argv[Options[k] + 1]
        BY <2>3, <3>1 DEF Opened, Named
      <3>3. handles[k] # NULL
        BY <3>1, <3>2, LoaderAssumption
      <3> QED
        BY <3>2, <3>3 DEF Defines
    <2>5. First(f) \in With(f) /\ \A j \in With(f) : First(f) <= j
      <3>1. With(f) \in SUBSET Nat
        BY <2>2
      <3>2. PICK W \in SUBSET Nat : W = With(f)
        BY <3>1
      <3>3. \E i \in W : \A j \in W : i <= j
        BY <1>1, <3>2, Least
      <3> HIDE DEF With
      <3> QED
        BY <3>2, <3>3
    <2>6. PICK m : m = First(f)
      OBVIOUS
    <2>7. PICK q : q = FindFunction(f)
      OBVIOUS
    <2>8. PICK k \in 1 .. Len(Options) : Options[k] = m
      BY <2>2, <2>5, <2>6
    <2>9. f \in Defines(handles[k])
      BY <2>4, <2>5, <2>6, <2>8
    <2>10. q \in 1 .. Len(Options) /\ f \in Defines(handles[q]) /\ q <= k
      BY <2>3, <2>7, <2>9, FoundFunction
    <2>11. Options[q] \in With(f)
      BY <2>2, <2>4, <2>10
    <2>12. m <= Options[q]
      BY <2>5, <2>6, <2>11
    <2>13. Options[q] = m
      BY <2>2, <2>8, <2>10, <2>12
    <2>14. handles[q] = argv[m + 1] /\ m \in Nat
      BY <2>2, <2>4, <2>10, <2>13
    <2>15. DOMAIN handles = 1 .. Len(Options)
      BY <2>3
    <2> QED
      BY <2>6, <2>7, <2>10, <2>14, <2>15
  <1>2. Kept => NativesFromTheirLibrary
    BY <1>1 DEF NativesFromTheirLibrary
  <1> QED
    BY <1>2, AlwaysKept, PTL
-----------------------------------------------------------------------------
(* What is freed at the end.                                               *)
LEMMA BothInjective ==
  ASSUME NEW S, NEW s \in Seq(S), NEW t \in Seq(S), IsInjective(s), IsInjective(t),
         \A i \in 1 .. Len(s), j \in 1 .. Len(t) : s[i] # t[j]
  PROVE  s \o t \in Seq(S) /\ IsInjective(s \o t)
  <1>1. /\ Len(s) \in Nat /\ DOMAIN s = 1 .. Len(s)
        /\ Len(t) \in Nat /\ DOMAIN t = 1 .. Len(t)
    BY LenProperties
  <1>2. PICK c : c = s \o t
    OBVIOUS
  <1>3. /\ c \in Seq(S) /\ Len(c) = Len(s) + Len(t)
        /\ \A i \in 1 .. Len(s) + Len(t) : c[i] = IF i <= Len(s) THEN s[i] ELSE t[i - Len(s)]
    BY <1>2, ConcatProperties
  <1>4. DOMAIN c = 1 .. Len(s) + Len(t)
    BY <1>3, LenProperties
  <1>5. \A i \in 1 .. Len(s) + Len(t) : ~(i <= Len(s)) => i - Len(s) \in 1 .. Len(t)
    BY <1>1
  <1>6. ASSUME NEW i \in DOMAIN c, NEW j \in DOMAIN c, c[i] = c[j] PROVE i = j
    <2>1. CASE i <= Len(s) /\ j <= Len(s)
      BY <1>1, <1>3, <1>4, <1>6, <2>1 DEF IsInjective
    <2>2. CASE ~(i <= Len(s)) /\ ~(j <= Len(s))
      <3>1. t[i - Len(s)] = t[j - Len(s)]
        BY <1>3, <1>4, <1>6, <2>2
      <3>2. i - Len(s) = j - Len(s)
        BY <3>1, <1>1, <1>4, <1>5, <2>2 DEF IsInjective
      <3> QED
        BY <3>2, <1>1, <1>4
    <2>3. CASE i <= Len(s) /\ ~(j <= Len(s))
      BY <1>1, <1>3, <1>4, <1>5, <1>6, <2>3
    <2>4. CASE ~(i <= Len(s)) /\ j <= Len(s)
      BY <1>1, <1>3, <1>4, <1>5, <1>6, <2>4
    <2> QED
      BY <2>1, <2>2, <2>3, <2>4
  <1> QED
    BY <1>2, <1>3, <1>6 DEF IsInjective

(* free_constant and force_sweep.                                          *)
LEMMA FreedOnce ==
  ASSUME Kept, stage = "running"
  PROVE  IsInjective(Frees)
  <1> DEFINE S == {"text", "object", "array"} \X Nat
             FreesOf(w) == IF IS_PTR(w) THEN <<<<"text", heap[GET_PTR(w)].block>>, <<"object", GET_PTR(w)>>>>
                           ELSE <<>>
             ofConstants == {GET_PTR(w) : w \in {c \in Range(constants) : IS_PTR(c)}}
             Swept(a) == IF a \in ofConstants THEN <<>>
                         ELSE IF heap[a].type = "TYPE_STRING" THEN <<<<"object", a>>>>
                         ELSE <<<<"array", heap[a].block>>, <<"object", a>>>>
             A == [i \in DOMAIN constants |-> FreesOf(constants[i])]
             B == [a \in DOMAIN heap |-> Swept(a)]
  <1>1. /\ DOMAIN constants = 1 .. Len(constants) /\ Len(constants) \in Nat
        /\ DOMAIN heap = 1 .. Len(heap) /\ Len(heap) \in Nat
    BY KeptFacts, LenProperties DEF Kept, ConstantsRead
  <1>2. Frees = (FlattenSeq(A) \o FlattenSeq(B)) \o <<<<"array", args>>>>
    BY DEF Frees
  <1>3. /\ \A a \in 1 .. Len(heap) : heap[a].block \in 1 .. Len(memory) /\ heap[a].block # args
        /\ \A a, b \in 1 .. Len(heap) : heap[a].block = heap[b].block => a = b
        /\ args \in Nat /\ Len(memory) \in Nat
    <2>1. Len(memory) \in Nat
      BY KeptFacts, LenProperties
    <2> QED
      BY <2>1 DEF Kept, Blocks
  <1>4. ASSUME NEW i \in 1 .. Len(constants), IS_PTR(constants[i])
        PROVE  /\ GET_PTR(constants[i]) \in 1 .. Len(heap)
               /\ GET_PTR(constants[i]) \in ofConstants
               /\ constants[i] = Word("POINTER", GET_PTR(constants[i]))
    <2>1. Points(constants[i], "TYPE_STRING")
      BY <1>4, PointerConstants DEF Kept
    <2>2. constants[i] \in Words /\ constants[i] \in Range(constants)
      BY <1>1, ElementOfSeq DEF Kept, ConstantsRead, Range
    <2> QED
      BY <1>4, <2>1, <2>2 DEF Points, Words, Word, IS_PTR, GET_PTR
  <1>5. \A i, j \in 1 .. Len(constants) :
          IS_PTR(constants[i]) /\ IS_PTR(constants[j]) /\ GET_PTR(constants[i]) = GET_PTR(constants[j]) => i = j
    BY <1>4 DEF Kept, ConstantsRead
  <1>6. ASSUME NEW i \in 1 .. Len(constants)
        PROVE  \/ A[i] = <<>>
               \/ /\ IS_PTR(constants[i])
                  /\ A[i] = <<<<"text", heap[GET_PTR(constants[i])].block>>, <<"object", GET_PTR(constants[i])>>>>
    BY <1>1
  <1>7. ASSUME NEW a \in 1 .. Len(heap)
        PROVE  \/ B[a] = <<>>
               \/ a \notin ofConstants /\ B[a] = <<<<"object", a>>>>
               \/ a \notin ofConstants /\ B[a] = <<<<"array", heap[a].block>>, <<"object", a>>>>
    <2> HIDE DEF ofConstants
    <2> QED
      BY <1>1
  <1>8. A \in Seq(Seq(S)) /\ Len(A) = Len(constants)
    <2>1. ASSUME NEW i \in 1 .. Len(constants) PROVE A[i] \in Seq(S)
      <3>1. CASE A[i] = <<>>
        BY <3>1, EmptySeq
      <3>2. CASE IS_PTR(constants[i])
        <4>1. PICK p, b : p = GET_PTR(constants[i]) /\ b = heap[p].block
          OBVIOUS
        <4>2. p \in Nat /\ b \in Nat
          BY <1>1, <1>3, <1>4, <3>2, <4>1
        <4>3. A[i] = <<<<"text", b>>, <<"object", p>>>>
          BY <1>1, <3>2, <4>1
        <4>4. <<"text", b>> \in S /\ <<"object", p>> \in S
          BY <4>2
        <4> HIDE DEF S, A
        <4> QED
          BY <4>3, <4>4
      <3> QED
        BY <1>6, <3>1, <3>2
    <2>2. A = [i \in 1 .. Len(constants) |-> A[i]]
      BY <1>1
    <2>3. A \in [1 .. Len(constants) -> Seq(S)]
      <3> HIDE DEF A, S
      <3> QED
        BY <2>1, <2>2
    <2> HIDE DEF A, S
    <2> QED
      BY <1>1, <2>3, FunctionIsSeq
  <1>9. B \in Seq(Seq(S)) /\ Len(B) = Len(heap)
    <2>1. ASSUME NEW a \in 1 .. Len(heap) PROVE B[a] \in Seq(S)
      <3>1. PICK b : b = heap[a].block
        OBVIOUS
      <3>2. <<"array", b>> \in S /\ <<"object", a>> \in S
        BY <1>1, <1>3, <3>1
      <3>3. B[a] = <<>> \/ B[a] = <<<<"object", a>>>> \/ B[a] = <<<<"array", b>>, <<"object", a>>>>
        BY <1>7, <3>1
      <3> HIDE DEF S, B
      <3>4. \A x \in S, y \in S : <<>> \in Seq(S) /\ <<x>> \in Seq(S) /\ <<x, y>> \in Seq(S)
        OBVIOUS
      <3> QED
        BY <3>2, <3>3, <3>4
    <2>2. B = [a \in 1 .. Len(heap) |-> B[a]]
      BY <1>1
    <2>3. B \in [1 .. Len(heap) -> Seq(S)]
      <3> HIDE DEF B, S
      <3> QED
        BY <2>1, <2>2
    <2> HIDE DEF B, S
    <2> QED
      BY <1>1, <2>3, FunctionIsSeq
  <1> HIDE DEF A, B, S, ofConstants
  \* The entries of a constant, and those of an object.
  <1>10. ASSUME NEW k \in 1 .. Len(constants), NEW i \in 1 .. Len(A[k])
         PROVE  /\ IS_PTR(constants[k])
                /\ \/ i = 1 /\ A[k][i] = <<"text", heap[GET_PTR(constants[k])].block>>
                   \/ i = 2 /\ A[k][i] = <<"object", GET_PTR(constants[k])>>
    <2>1. A[k] # <<>>
      BY EmptySeq
    <2>2. PICK x, y : x = <<"text", heap[GET_PTR(constants[k])].block>> /\ y = <<"object", GET_PTR(constants[k])>>
      OBVIOUS
    <2>3. A[k] = <<x, y>> /\ IS_PTR(constants[k])
      BY <1>6, <2>1, <2>2
    <2>4. Len(A[k]) = 2 /\ A[k][1] = x /\ A[k][2] = y
      BY <2>3
    <2>5. i = 1 \/ i = 2
      BY <2>4
    <2> QED
      BY <2>2, <2>3, <2>4, <2>5
  <1>11. ASSUME NEW a \in 1 .. Len(heap), NEW i \in 1 .. Len(B[a])
         PROVE  /\ a \notin ofConstants
                /\ \/ i = 1 /\ B[a][i] = <<"array", heap[a].block>>
                   \/ i = Len(B[a]) /\ B[a][i] = <<"object", a>>
    <2>1. B[a] # <<>>
      BY EmptySeq
    <2>2. PICK x, y : x = <<"array", heap[a].block>> /\ y = <<"object", a>>
      OBVIOUS
    <2>3. a \notin ofConstants /\ (B[a] = <<y>> \/ B[a] = <<x, y>>)
      BY <1>7, <2>1, <2>2
    <2>4. CASE B[a] = <<y>>
      <3>1. Len(B[a]) = 1 /\ B[a][1] = y
        BY <2>4
      <3>2. i = 1
        BY <3>1
      <3> QED
        BY <2>2, <2>3, <3>1, <3>2
    <2>5. CASE B[a] = <<x, y>>
      <3>1. Len(B[a]) = 2 /\ B[a][1] = x /\ B[a][2] = y
        BY <2>5
      <3>2. i = 1 \/ i = 2
        BY <3>1
      <3> QED
        BY <2>2, <2>3, <3>1, <3>2
    <2> QED
      BY <2>3, <2>4, <2>5
  <1>12. "text" # "object" /\ "text" # "array" /\ "object" # "array"
    OBVIOUS
  <1>13. /\ \A k \in 1 .. Len(A) : IsInjective(A[k])
         /\ \A k, l \in 1 .. Len(A) : \A i \in 1 .. Len(A[k]), j \in 1 .. Len(A[l]) :
              A[k][i] = A[l][j] => k = l
    <2>1. ASSUME NEW k \in 1 .. Len(A), NEW l \in 1 .. Len(A),
                 NEW i \in 1 .. Len(A[k]), NEW j \in 1 .. Len(A[l]), A[k][i] = A[l][j]
          PROVE  k = l /\ (k = l => i = j)
      <3>1. PICK p, q : p = GET_PTR(constants[k]) /\ q = GET_PTR(constants[l])
        OBVIOUS
      <3>2. /\ IS_PTR(constants[k]) /\ IS_PTR(constants[l])
            /\ (i = 1 /\ A[k][i] = <<"text", heap[p].block>>) \/ (i = 2 /\ A[k][i] = <<"object", p>>)
            /\ (j = 1 /\ A[l][j] = <<"text", heap[q].block>>) \/ (j = 2 /\ A[l][j] = <<"object", q>>)
        BY <1>8, <1>10, <3>1
      <3>3. p \in 1 .. Len(heap) /\ q \in 1 .. Len(heap)
        BY <1>4, <1>8, <3>1, <3>2
      <3>4. p = q /\ i = j
        BY <1>3, <1>12, <2>1, <3>2, <3>3
      <3> QED
        BY <1>5, <1>8, <3>1, <3>2, <3>4
    <2>2. ASSUME NEW k \in 1 .. Len(A) PROVE IsInjective(A[k])
      <3>1. DOMAIN A[k] = 1 .. Len(A[k])
        BY <1>8, ElementOfSeq, LenProperties
      <3> QED
        BY <2>1, <3>1 DEF IsInjective
    <2> QED
      BY <2>1, <2>2
  <1>14. /\ \A a \in 1 .. Len(B) : IsInjective(B[a])
         /\ \A a, b \in 1 .. Len(B) : \A i \in 1 .. Len(B[a]), j \in 1 .. Len(B[b]) :
              B[a][i] = B[b][j] => a = b
    <2>1. ASSUME NEW a \in 1 .. Len(B), NEW b \in 1 .. Len(B),
                 NEW i \in 1 .. Len(B[a]), NEW j \in 1 .. Len(B[b]), B[a][i] = B[b][j]
          PROVE  a = b /\ (a = b => i = j)
      <3>1. /\ (i = 1 /\ B[a][i] = <<"array", heap[a].block>>) \/ (i = Len(B[a]) /\ B[a][i] = <<"object", a>>)
            /\ (j = 1 /\ B[b][j] = <<"array", heap[b].block>>) \/ (j = Len(B[b]) /\ B[b][j] = <<"object", b>>)
        BY <1>9, <1>11
      <3> QED
        BY <1>3, <1>9, <1>12, <2>1, <3>1
    <2>2. ASSUME NEW a \in 1 .. Len(B) PROVE IsInjective(B[a])
      <3>1. DOMAIN B[a] = 1 .. Len(B[a])
        BY <1>9, ElementOfSeq, LenProperties
      <3> QED
        BY <2>1, <3>1 DEF IsInjective
    <2> QED
      BY <2>1, <2>2
  <1>15. /\ FlattenSeq(A) \in Seq(S) /\ IsInjective(FlattenSeq(A))
         /\ \A i \in 1 .. Len(FlattenSeq(A)) : \E k \in 1 .. Len(A) : \E j \in 1 .. Len(A[k]) :
              FlattenSeq(A)[i] = A[k][j]
    BY <1>8, <1>13, FlattenInjective
  <1>16. /\ FlattenSeq(B) \in Seq(S) /\ IsInjective(FlattenSeq(B))
         /\ \A i \in 1 .. Len(FlattenSeq(B)) : \E k \in 1 .. Len(B) : \E j \in 1 .. Len(B[k]) :
              FlattenSeq(B)[i] = B[k][j]
    BY <1>9, <1>14, FlattenInjective
  <1>17. PICK s, t, u : s = FlattenSeq(A) /\ t = FlattenSeq(B) /\ u = <<<<"array", args>>>>
    OBVIOUS
  <1>18. \A i \in 1 .. Len(s) : \E p \in ofConstants \cap (1 .. Len(heap)) :
           s[i] = <<"text", heap[p].block>> \/ s[i] = <<"object", p>>
    <2> TAKE i \in 1 .. Len(s)
    <2>1. PICK k \in 1 .. Len(A) : \E j \in 1 .. Len(A[k]) : s[i] = A[k][j]
      BY <1>15, <1>17
    <2>2. PICK j \in 1 .. Len(A[k]) : s[i] = A[k][j]
      BY <2>1
    <2>3. PICK p : p = GET_PTR(constants[k])
      OBVIOUS
    <2>4. p \in ofConstants \cap (1 .. Len(heap))
      BY <1>4, <1>8, <1>10, <2>3
    <2>5. s[i] = <<"text", heap[p].block>> \/ s[i] = <<"object", p>>
      BY <1>8, <1>10, <2>2, <2>3
    <2> QED
      BY <2>4, <2>5
  <1>19. \A i \in 1 .. Len(t) : \E a \in (1 .. Len(heap)) \ ofConstants :
           t[i] = <<"array", heap[a].block>> \/ t[i] = <<"object", a>>
    <2> TAKE i \in 1 .. Len(t)
    <2>1. PICK a \in 1 .. Len(B) : \E j \in 1 .. Len(B[a]) : t[i] = B[a][j]
      BY <1>16, <1>17
    <2>2. PICK j \in 1 .. Len(B[a]) : t[i] = B[a][j]
      BY <2>1
    <2>3. a \in 1 .. Len(heap)
      BY <1>9
    <2>4. a \notin ofConstants /\ (B[a][j] = <<"array", heap[a].block>> \/ B[a][j] = <<"object", a>>)
      BY <1>11, <2>3
    <2> QED
      BY <2>2, <2>3, <2>4
  <1>20. s \o t \in Seq(S) /\ IsInjective(s \o t)
    <2>1. \A i \in 1 .. Len(s), j \in 1 .. Len(t) : s[i] # t[j]
      BY <1>12, <1>18, <1>19
    <2> QED
      BY <1>15, <1>16, <1>17, <2>1, BothInjective
  <1>21. u \in Seq(S) /\ IsInjective(u) /\ Len(u) = 1 /\ u[1] = <<"array", args>>
    BY <1>3, <1>17 DEF IsInjective, S
  <1>22. PICK v : v = s \o t
    OBVIOUS
  <1>23. \A i \in 1 .. Len(v), j \in 1 .. Len(u) : v[i] # u[j]
    <2>1. /\ s \in Seq(S) /\ t \in Seq(S) /\ Len(s) \in Nat /\ Len(t) \in Nat
      BY <1>15, <1>16, <1>17, LenProperties
    <2>2. /\ Len(v) = Len(s) + Len(t)
          /\ \A i \in 1 .. Len(s) + Len(t) : v[i] = IF i <= Len(s) THEN s[i] ELSE t[i - Len(s)]
      BY <1>22, <2>1, ConcatProperties
    <2>3. \A i \in 1 .. Len(v) : (\E j \in 1 .. Len(s) : v[i] = s[j]) \/ (\E j \in 1 .. Len(t) : v[i] = t[j])
      <3> TAKE i \in 1 .. Len(v)
      <3>1. CASE i <= Len(s)
        BY <2>1, <2>2, <3>1
      <3>2. CASE ~(i <= Len(s))
        <4>1. i - Len(s) \in 1 .. Len(t) /\ v[i] = t[i - Len(s)]
          BY <2>1, <2>2, <3>2
        <4> QED
          BY <4>1
      <3> QED
        BY <3>1, <3>2
    <2>4. \A i \in 1 .. Len(s) : s[i] # <<"array", args>>
      BY <1>12, <1>18
    <2>5. \A i \in 1 .. Len(t) : t[i] # <<"array", args>>
      BY <1>3, <1>12, <1>19
    <2> TAKE i \in 1 .. Len(v), j \in 1 .. Len(u)
    <2>6. u[j] = <<"array", args>>
      BY <1>21
    <2> QED
      BY <2>3, <2>4, <2>5, <2>6
  <1>24. IsInjective(v \o u)
    BY <1>20, <1>21, <1>22, <1>23, BothInjective
  <1> QED
    BY <1>2, <1>17, <1>22, <1>24

(* main frees nothing twice, whatever the program did.                     *)
THEOREM SpecNothingFreedTwice == Spec => []NothingFreedTwice
  <1>1. MachineInit => NothingFreedTwice
    <2>1. DOMAIN <<>> = {}
      OBVIOUS
    <2> QED
      BY <2>1 DEF MachineInit, NothingFreedTwice, IsInjective
  <1>2. Kept /\ NothingFreedTwice /\ [Next]_vars => NothingFreedTwice'
    <2> SUFFICES ASSUME Kept, NothingFreedTwice, [Next]_vars PROVE NothingFreedTwice'
      OBVIOUS
    <2>1. CASE Halt
      <3>1. stage = "running" /\ freed' = Frees
        BY <2>1 DEF Halt
      <3>2. PICK f : f = Frees
        OBVIOUS
      <3>3. IsInjective(f)
        BY <3>1, <3>2, FreedOnce
      <3>4. freed' = f
        BY <3>1, <3>2
      <3> QED
        BY <3>3, <3>4 DEF NothingFreedTwice, IsInjective
    <2>2. CASE ~Halt
      <3>1. freed' = freed
        BY <2>2 DEF Next, vars, machineVars, LoadConstant, LoadSlot, MakeFunction, MakeList, MakeMutable,
          Update, ListGet, GetIndex, NativeCall, Take, Throw, Returned, Quietly
      <3> QED
        BY <3>1 DEF NothingFreedTwice, IsInjective
    <2> QED
      BY <2>1, <2>2
  <1> QED
    BY <1>1, <1>2, AlwaysKept, PTL DEF Spec
-----------------------------------------------------------------------------
(* Types, as the checker of a well-typed program knows them: what is in a   *)
(* list or a mutable is behind its name.                                   *)
Kinds == {"int", "float", "string", "fn", "list", "mutable"}
Boxes == {"list", "mutable"}

Path(t) ==
  /\ t \in Seq(Kinds)
  /\ Len(t) \in 1 .. TypeDepth
  /\ \A k \in 1 .. Len(t) : t[k] \in Boxes <=> k < Len(t)
  /\ t[Len(t)] = "fn" => Len(t) = 1

LEMMA PathFacts ==
  ASSUME NEW t, Path(t)
  PROVE  /\ Head(t) \in Kinds /\ Head(t) = t[1] /\ Len(t) \in Nat
         /\ Head(t) \in Boxes => /\ Path(Tail(t)) /\ Len(Tail(t)) = Len(t) - 1
                                 /\ Tail(t) # fn
         /\ Head(t) \notin Boxes => t = <<Head(t)>> /\ Tail(t) = <<>>
  <1>1. /\ t \in Seq(Kinds) /\ Len(t) \in Nat /\ Len(t) >= 1 /\ Len(t) <= TypeDepth
        /\ TypeDepth \in Nat /\ t # <<>>
    BY LenProperties, EmptySeq, MachineAssumption DEF Path
  <1>2. PICK u : u = Tail(t)
    OBVIOUS
  <1>3. PICK n \in Nat : n = Len(t)
    BY <1>1
  <1>4. /\ Head(t) = t[1] /\ t[1] \in Kinds /\ u \in Seq(Kinds) /\ Len(u) = n - 1
        /\ \A i \in 1 .. n - 1 : u[i] = t[i + 1]
    <2>1. Head(t) = t[1] /\ t[1] \in Kinds
      BY <1>1, ElementOfSeq
    <2>2. u \in Seq(Kinds) /\ Len(u) = Len(t) - 1 /\ \A i \in 1 .. Len(u) : u[i] = t[i + 1]
      BY <1>1, <1>2, HeadTailProperties
    <2> QED
      BY <2>1, <2>2, <1>3
  <1>5. \A k \in 1 .. n : t[k] \in Boxes <=> k < n
    BY <1>3 DEF Path
  <1>6. ASSUME Head(t) \in Boxes PROVE Path(u) /\ u # fn
    <2>1. n >= 2
      BY <1>1, <1>3, <1>4, <1>5, <1>6
    <2>2. \A k \in 1 .. n - 1 : k + 1 \in 1 .. n /\ (k + 1 < n <=> k < n - 1)
      OBVIOUS
    <2>3. \A k \in 1 .. Len(u) : u[k] \in Boxes <=> k < Len(u)
      BY <1>4, <1>5, <2>2
    <2>4. u[Len(u)] = t[n] /\ Len(u) \in 1 .. TypeDepth
      BY <1>1, <1>3, <1>4, <2>1
    <2>5. t[n] # "fn"
      BY <1>3, <2>1 DEF Path
    <2>6. fn[Len(fn)] = "fn"
      BY DEF fn
    <2> QED
      BY <1>4, <2>3, <2>4, <2>5, <2>6 DEF Path
  <1>7. ASSUME Head(t) \notin Boxes PROVE t = <<Head(t)>> /\ u = <<>>
    <2>1. n = 1
      BY <1>1, <1>3, <1>4, <1>5, <1>7
    <2>2. u = <<>>
      BY <1>4, <2>1, EmptySeq
    <2>3. t = <<t[1]>>
      <3>1. PICK q : q = <<t[1]>>
        OBVIOUS
      <3>2. q \in Seq(Kinds) /\ Len(q) = 1 /\ q[1] = t[1]
        BY <1>4, <3>1
      <3>3. \A i \in 1 .. Len(q) : q[i] = t[i]
        BY <3>2
      <3> QED
        BY <1>1, <1>3, <2>1, <3>1, <3>2, <3>3, SeqEqual
    <2> QED
      BY <1>4, <2>2, <2>3
  <1> QED
    BY <1>1, <1>2, <1>3, <1>4, <1>6, <1>7

(* list<t> and mutable<t> *)
LEMMA BoxFacts ==
  ASSUME NEW S, NEW box \in S, NEW t \in Seq(S)
  PROVE  /\ <<box>> \o t \in Seq(S)
         /\ Head(<<box>> \o t) = box /\ Tail(<<box>> \o t) = t
  <1>1. PICK b \in Seq(S) : b = <<box>>
    <2>1. <<box>> \in Seq(S)
      OBVIOUS
    <2> QED
      BY <2>1
  <1>2. Len(b) = 1 /\ b[1] = box /\ Len(t) \in Nat
    BY <1>1, LenProperties
  <1>3. PICK u : u = b \o t
    OBVIOUS
  <1>4. /\ u \in Seq(S) /\ Len(u) = 1 + Len(t)
        /\ \A i \in 1 .. 1 + Len(t) : u[i] = IF i <= 1 THEN b[i] ELSE t[i - 1]
    BY <1>1, <1>2, <1>3, ConcatProperties
  <1>5. u # <<>>
    BY <1>2, <1>4, EmptySeq
  <1>6. Head(u) = box
    BY <1>2, <1>4, <1>5
  <1>7. PICK v : v = Tail(u)
    OBVIOUS
  <1>8. /\ v \in Seq(S) /\ Len(v) = Len(u) - 1 /\ \A i \in 1 .. Len(v) : v[i] = u[i + 1]
    BY <1>4, <1>5, <1>7, HeadTailProperties
  <1>9. \A i \in 1 .. Len(v) : v[i] = t[i]
    <2> TAKE i \in 1 .. Len(v)
    <2>1. i + 1 \in 1 .. 1 + Len(t) /\ ~(i + 1 <= 1) /\ (i + 1) - 1 = i
      BY <1>2, <1>4, <1>8
    <2> QED
      BY <1>4, <1>8, <2>1
  <1>10. Len(v) = Len(t)
    BY <1>2, <1>4, <1>8
  <1>11. v = t
    BY <1>8, <1>9, <1>10, SeqEqual
  <1> QED
    BY <1>1, <1>3, <1>4, <1>6, <1>7, <1>11

LEMMA TypesArePaths ==
  ASSUME NEW t \in Types
  PROVE  Path(t)
  <1>1. PICK path \in BoundedSeq({"list", "mutable"}, TypeDepth - 1), leaf \in {int, float, string} : t = path \o leaf
    BY DEF Types
  <1>2. path \in Seq(Boxes) /\ Len(path) <= TypeDepth - 1 /\ Len(path) \in Nat
    <2>1. PICK m \in 0 .. TypeDepth - 1 : path \in [1 .. m -> Boxes]
      BY <1>1 DEF BoundedSeq, SeqOf, Boxes
    <2>2. m \in Nat /\ m <= TypeDepth - 1
      BY <2>1, MachineAssumption
    <2>3. path \in Seq(Boxes) /\ Len(path) = m
      BY <2>1, <2>2, FunctionIsSeq
    <2> QED
      BY <2>2, <2>3
  <1>3. leaf \in Seq(Kinds) /\ Len(leaf) = 1 /\ leaf[1] \in {"int", "float", "string"}
    BY <1>1 DEF int, float, string, Kinds
  <1>4. path \in Seq(Kinds) /\ \A i \in 1 .. Len(path) : path[i] \in Boxes
    <2>1. Boxes \subseteq Kinds
      BY DEF Boxes, Kinds
    <2> QED
      BY <1>2, <2>1, SeqMonotonic, ElementOfSeq
  <1>5. PICK n \in Nat : n = Len(path)
    BY <1>2
  <1>6. /\ t \in Seq(Kinds) /\ Len(t) = n + 1
        /\ \A i \in 1 .. n + 1 : t[i] = IF i <= n THEN path[i] ELSE leaf[i - n]
    BY <1>1, <1>3, <1>4, <1>5, ConcatProperties, SMTT(60)
  <1>7. t[n + 1] \in {"int", "float", "string"}
    <2>1. n + 1 \in 1 .. n + 1 /\ ~(n + 1 <= n) /\ (n + 1) - n = 1
      OBVIOUS
    <2> QED
      BY <1>3, <1>6, <2>1
  <1>8. \A i \in 1 .. n : t[i] \in Boxes
    BY <1>4, <1>5, <1>6
  <1>9. Len(t) \in 1 .. TypeDepth
    BY <1>2, <1>5, <1>6, MachineAssumption
  <1>10. \A i \in 1 .. n + 1 : i \in 1 .. n \/ i = n + 1
    OBVIOUS
  <1>11. \A i \in 1 .. Len(t) : t[i] \in Boxes <=> i < Len(t)
    BY <1>6, <1>7, <1>8, <1>10 DEF Boxes
  <1>12. t[Len(t)] # "fn"
    BY <1>6, <1>7
  <1> QED
    BY <1>6, <1>9, <1>11, <1>12 DEF Path

(* A word that has the type t, and is an int32 if t is int.                *)
Typed(w, t) ==
  /\ HasType(w, t)
  /\ Head(t) = "int" => w.payload \in 0 .. INT - 1

HoldsTyped(cells, t) == \A i \in 1 .. Len(cells) : Typed(cells[i], t)

StackTyped ==
  /\ types \in Seq(Seq(Kinds)) /\ Len(types) = Len(stack) /\ Len(stack) <= Depth
  /\ \A i \in 1 .. Len(stack) : Path(types[i]) /\ Typed(stack[i], types[i])

CellsTyped ==
  /\ DOMAIN contents \subseteq 1 .. Len(heap)
  /\ \A a \in DOMAIN contents : heap[a].type = "TYPE_STRING" => contents[a] = <<>>
  /\ \A a \in 1 .. Len(heap) : heap[a].type # "TYPE_STRING" =>
       /\ a \in DOMAIN contents
       /\ Path(contents[a])
       /\ HoldsTyped(memory[heap[a].block], contents[a])

(* What is in the lists and mutables that were there is of the same type.  *)
Remains == \A a \in DOMAIN contents : a \in DOMAIN contents' /\ contents'[a] = contents[a]

LEMMA TypesOfWords ==
  ASSUME NEW w, NEW t, Head(t) \in Kinds
  PROVE  /\ HasType(w, t) <=>
              /\ Head(t) = "int"    => GetType(w) = "TYPE_INTEGER"
              /\ Head(t) = "float"  => GetType(w) = "TYPE_FLOAT"
              /\ Head(t) = "string" => GetType(w) = "TYPE_STRING"
              /\ Head(t) = "fn"     => GetType(w) = "TYPE_FUNCTION"
              /\ Head(t) = "list"   => GetType(w) = "TYPE_LIST" /\ contents[GET_PTR(w)] = Tail(t)
              /\ Head(t) = "mutable" => GetType(w) = "TYPE_MUTABLE" /\ contents[GET_PTR(w)] = Tail(t)
         /\ HasType(w, t)' <=>
              /\ Head(t) = "int"    => GetType(w)' = "TYPE_INTEGER"
              /\ Head(t) = "float"  => GetType(w)' = "TYPE_FLOAT"
              /\ Head(t) = "string" => GetType(w)' = "TYPE_STRING"
              /\ Head(t) = "fn"     => GetType(w)' = "TYPE_FUNCTION"
              /\ Head(t) = "list"   => GetType(w)' = "TYPE_LIST" /\ contents'[GET_PTR(w)] = Tail(t)
              /\ Head(t) = "mutable" => GetType(w)' = "TYPE_MUTABLE" /\ contents'[GET_PTR(w)] = Tail(t)
  BY DEF HasType, Kinds, GET_PTR

(* What a word has a type by: its signature, or the object it points to.   *)
LEMMA TypeIsOf ==
  ASSUME Kept, NEW w, Valid(w)
  PROVE  /\ w.signature = "FLOAT"    => GetType(w) = "TYPE_FLOAT"
         /\ w.signature = "INTEGER"  => GetType(w) = "TYPE_INTEGER"
         /\ w.signature = "FUNCTION" => GetType(w) = "TYPE_FUNCTION"
         /\ \A t \in ObjectTypes : Points(w, t) => GetType(w) = t
  <1>1. w.signature \in Signatures /\ heap \in Seq([type : ObjectTypes, length : Int, block : Nat])
    BY DEF Valid, Words, Kept, Blocks
  <1> QED
    BY <1>1 DEF GetType, Points, IS_PTR, GET_PTR, ObjectTypes, Signatures

LEMMA TypeStays ==
  ASSUME Kept, Stays, NEW w, Valid(w)
  PROVE  GetType(w)' = GetType(w)
  <1>1. w.signature \in Signatures
    BY DEF Valid, Words
  <1>2. IS_PTR(w) /\ GET_PTR(w) # 0 => heap'[GET_PTR(w)] = heap[GET_PTR(w)]
    <2>1. IS_PTR(w) /\ GET_PTR(w) # 0 => GET_PTR(w) \in 1 .. Len(heap)
      BY KeptFacts DEF Valid
    <2> QED
      BY <2>1 DEF Stays
  <1> QED
    BY <1>1, <1>2 DEF GetType, IS_PTR, GET_PTR, Signatures

LEMMA TypedStays ==
  ASSUME Kept, CellsTyped, Stays, Remains, NEW w, NEW t, Valid(w), Head(t) \in Kinds, Typed(w, t)
  PROVE  Typed(w, t)'
  <1>1. GetType(w)' = GetType(w)
    BY TypeStays
  <1>2. ASSUME Head(t) \in Boxes PROVE contents'[GET_PTR(w)] = Tail(t)
    <2>1. GetType(w) \in {"TYPE_LIST", "TYPE_MUTABLE"} /\ contents[GET_PTR(w)] = Tail(t)
      BY <1>2, TypesOfWords DEF Typed, Boxes
    <2>2. Points(w, GetType(w))
      BY <2>1, TypeFacts DEF Kept, ObjectTypes
    <2>3. GET_PTR(w) \in DOMAIN contents
      BY <2>1, <2>2 DEF CellsTyped, Points
    <2> QED
      BY <2>1, <2>3 DEF Remains
  <1>3. HasType(w, t)'
    BY <1>1, <1>2, TypesOfWords DEF Typed, Boxes
  <1> QED
    BY <1>3 DEF Typed

LEMMA HoldsStays ==
  ASSUME Kept, CellsTyped, Stays, Remains, NEW cells, NEW t, HoldsValid(cells), Head(t) \in Kinds,
         HoldsTyped(cells, t)
  PROVE  HoldsTyped(cells, t)'
  BY TypedStays DEF HoldsTyped, HoldsValid

(* The types of the operands, and what is below them.                      *)
OperandTypes(n) == SubSeq(types, Len(types) - n + 1, Len(types))

LEMMA TypesPop ==
  ASSUME Kept, StackTyped, NEW n \in 0 .. Len(stack)
  PROVE  /\ OperandTypes(n) \in Seq(Seq(Kinds)) /\ Len(OperandTypes(n)) = n
         /\ \A i \in 1 .. n : /\ Path(OperandTypes(n)[i])
                              /\ Typed(Operands(n)[i], OperandTypes(n)[i])
         /\ \A i \in 0 .. Len(stack) - 1 : Path(TypeOfTop(i)) /\ Typed(Top(i), TypeOfTop(i))
  <1>1. PICK l \in Nat : l = Len(stack)
    BY KeptFacts
  <1>2. n \in 0 .. l /\ types \in Seq(Seq(Kinds)) /\ Len(types) = l
    BY <1>1 DEF StackTyped
  <1>3. \A i \in 1 .. l : /\ types[i] \in Seq(Kinds) /\ Path(types[i])
                          /\ Typed(stack[i], types[i])
    BY <1>1, <1>2, ElementOfSeq DEF StackTyped
  <1>4. PICK ts : ts = OperandTypes(n)
    OBVIOUS
  <1>5. /\ ts \in Seq(Seq(Kinds)) /\ Len(ts) = n
        /\ \A i \in 1 .. n : ts[i] = types[l - n + i]
    <2>1. \A i \in (l - n + 1) .. l : types[i] \in Seq(Kinds)
      BY <1>2, <1>3
    <2>2. ts = SubSeq(types, l - n + 1, l) /\ l - n + 1 \in Int /\ l \in Int
      BY <1>2, <1>4 DEF OperandTypes
    <2>3. /\ ts \in Seq(Seq(Kinds)) /\ Len(ts) = IF l - n + 1 <= l THEN l - (l - n + 1) + 1 ELSE 0
          /\ \A i \in 1 .. l - (l - n + 1) + 1 : ts[i] = types[(l - n + 1) + i - 1]
      BY <2>1, <2>2, SubSeqProperties
    <2>4. \A i \in 1 .. n : (l - n + 1) + i - 1 = l - n + i /\ i \in 1 .. l - (l - n + 1) + 1
      BY <1>2
    <2> QED
      BY <1>2, <2>3, <2>4, SMTT(60)
  <1>6. \A i \in 1 .. n : Operands(n)[i] = stack[l - n + i]
    BY <1>1, StackPops
  <1>7. \A i \in 1 .. n : l - n + i \in 1 .. l
    BY <1>2
  <1>8. \A i \in 0 .. l - 1 : l - i \in 1 .. l
    OBVIOUS
  <1>9. \A i \in 0 .. l - 1 : Path(TypeOfTop(i)) /\ Typed(Top(i), TypeOfTop(i))
    BY <1>1, <1>2, <1>3, <1>8 DEF TypeOfTop, Top
  <1>10. \A i \in 1 .. n : Path(ts[i]) /\ Typed(Operands(n)[i], ts[i])
    BY <1>3, <1>5, <1>6, <1>7
  <1> QED
    BY <1>1, <1>4, <1>5, <1>9, <1>10

(* The stack after n words were popped and m of them pushed, 0 or 1.       *)
LEMMA TypesReplaced ==
  ASSUME Kept, StackTyped, CellsTyped, Stays, Remains,
         NEW n \in 0 .. Len(stack), NEW w, NEW t, Replace(n, w, t), Path(t), Typed(w, t)'
  PROVE  StackTyped'
  <1>1. PICK l \in Nat : l = Len(stack)
    BY KeptFacts
  <1>2. n \in 0 .. l /\ types \in Seq(Seq(Kinds)) /\ Len(types) = l /\ Depth \in Nat /\ l - n < Depth
    BY <1>1, MachineAssumption DEF StackTyped, Replace
  <1>3. \A i \in 1 .. l : /\ types[i] \in Seq(Kinds) /\ Path(types[i])
                          /\ Valid(stack[i]) /\ Typed(stack[i], types[i])
    BY <1>1, <1>2, ElementOfSeq DEF StackTyped, Kept, StackValid, HoldsValid
  <1>4. PICK s, ts : s = SubSeq(stack, 1, l - n) /\ ts = SubSeq(types, 1, l - n)
    OBVIOUS
  <1>5. /\ s \in Seq(Words) /\ Len(s) = l - n /\ \A i \in 1 .. l - n : s[i] = stack[i]
        /\ ts \in Seq(Seq(Kinds)) /\ Len(ts) = l - n /\ \A i \in 1 .. l - n : ts[i] = types[i]
    <2>1. \A i \in 1 .. l - n : i \in 1 .. l /\ 1 + i - 1 = i
      BY <1>2
    <2>2. \A i \in 1 .. l - n : stack[i] \in Words /\ types[i] \in Seq(Kinds)
      BY <1>3, <2>1 DEF Valid
    <2>3. 1 \in Int /\ l - n \in Int /\ l - n - 1 + 1 = l - n /\ (~(1 <= l - n) => l - n = 0)
      BY <1>2
    <2> QED
      BY <1>4, <2>1, <2>2, <2>3, SubSeqProperties
  <1>6. PICK r, rs : r = stack' /\ rs = types'
    OBVIOUS
  <1>7. r = Append(s, w) /\ rs = Append(ts, t) /\ t \in Seq(Kinds)
    BY <1>1, <1>2, <1>4, <1>6 DEF Replace, Path
  <1>8. PICK m \in Nat : m = l - n
    BY <1>2
  <1>9. /\ rs \in Seq(Seq(Kinds)) /\ Len(rs) = m + 1 /\ rs[m + 1] = t
        /\ \A i \in 1 .. m : rs[i] = types[i]
    BY <1>5, <1>7, <1>8, AppendProperties, SMTT(60)
  <1>10. PICK S : S = Words \cup {w}
    OBVIOUS
  <1>11. /\ Len(r) = m + 1 /\ r[m + 1] = w
         /\ \A i \in 1 .. m : r[i] = stack[i]
    <2>1. s \in Seq(S) /\ w \in S
      BY <1>5, <1>10, SeqMonotonic
    <2> QED
      BY <2>1, <1>5, <1>7, <1>8, AppendProperties
  <1>12. ASSUME NEW i \in 1 .. m + 1 PROVE Path(rs[i]) /\ Typed(r[i], rs[i])'
    <2>1. CASE i = m + 1
      BY <1>9, <1>11, <2>1
    <2>2. CASE i \in 1 .. m
      <3>1. PICK v, u : v = stack[i] /\ u = types[i]
        OBVIOUS
      <3>2. i \in 1 .. l
        BY <1>2, <1>8, <2>2
      <3>3. Valid(v) /\ Path(u) /\ Typed(v, u)
        BY <1>3, <3>1, <3>2
      <3>4. Typed(v, u)'
        BY <3>3, PathFacts, TypedStays
      <3> QED
        BY <1>9, <1>11, <2>2, <3>1, <3>3, <3>4
    <2> QED
      BY <2>1, <2>2
  <1>13. m + 1 <= Depth
    BY <1>2, <1>8
  <1>14. \A i \in 1 .. Len(stack') : Path(types'[i]) /\ Typed(stack[i], types[i])'
    BY <1>6, <1>9, <1>11, <1>12
  <1>15. \A u : Path(u)' <=> Path(u)
    BY DEF Path
  <1>16. /\ types' \in Seq(Seq(Kinds)) /\ Len(types') = Len(stack') /\ Len(stack') <= Depth
    BY <1>6, <1>9, <1>11, <1>13
  <1> QED
    BY <1>14, <1>15, <1>16 DEF StackTyped

(* What is typed in memory stays so when the stack alone changes, when an  *)
(* object is made and when a mutable is set.                               *)
LEMMA MemorySame ==
  ASSUME Kept, CellsTyped, UNCHANGED <<heap, memory, contents, args>>, strayed => strayed'
  PROVE  CellsTyped' /\ Stays /\ Remains
  <1>1. Stays /\ Remains
    BY SameMemory DEF Remains
  <1>2. \A w, t : Typed(w, t)' <=> Typed(w, t)
    BY DEF Typed, HasType, GetType, GET_PTR, IS_PTR
  <1>3. \A cells, t : HoldsTyped(cells, t)' <=> HoldsTyped(cells, t)
    BY <1>2 DEF HoldsTyped
  <1>4. \A t : Path(t)' <=> Path(t)
    BY DEF Path
  <1> QED
    BY <1>1, <1>3, <1>4 DEF CellsTyped

LEMMA TypedObject ==
  ASSUME Kept, CellsTyped, UNCHANGED args,
         NEW type \in ObjectTypes, NEW cells \in Seq(Words \cup STRING), NEW size \in Int, NEW t,
         MakeObject(type, cells, size, t),
         type = "TYPE_STRING" => t = <<>>,
         type # "TYPE_STRING" => HoldsValid(cells) /\ Path(t) /\ HoldsTyped(cells, t),
         type = "TYPE_MUTABLE" => Len(cells) = 1,
         strayed => strayed',
         ~strayed' => size = Len(cells),
         NEW w, w = MAKE_PTR(NewAddress)
  PROVE  /\ CellsTyped' /\ Stays /\ Remains
         /\ GetType(w)' = type /\ contents'[GET_PTR(w)] = t
  <1>1. /\ memory' = Append(memory, cells)
        /\ heap' = Append(heap, Object(type, size, Len(memory')))
        /\ contents' = WithContents(t)
    BY DEF MakeObject
  <1>2. PICK n \in Nat : n = Len(heap)
    BY KeptFacts
  <1>3. /\ Blocks' /\ CellsValid' /\ Stays /\ Len(heap') = n + 1
        /\ heap'[n + 1].type = type
        /\ memory'[heap'[n + 1].block] = cells
        /\ \A a \in 1 .. n : heap'[a] = heap[a]
    <2>1. /\ Blocks' /\ CellsValid' /\ Stays /\ Len(heap') = Len(heap) + 1
          /\ heap'[Len(heap) + 1].type = type
          /\ memory'[heap'[Len(heap) + 1].block] = cells
      <3>1. Blocks /\ CellsValid
        BY DEF Kept
      <3> QED
        BY <1>1, <3>1, NewObject
    <2> QED
      BY <2>1, <1>2 DEF Stays
  <1>4. NewAddress = n + 1 /\ \A a \in 1 .. n : a # n + 1
    BY <1>2 DEF NewAddress
  <1>5. /\ \A a \in 1 .. n + 1 : a \in 1 .. n \/ a = n + 1
        /\ \A a \in 1 .. n : a \in 1 .. n + 1
        /\ n + 1 \in 1 .. n + 1
    OBVIOUS
  <1>6. /\ DOMAIN contents' = DOMAIN contents \cup {n + 1} /\ contents'[n + 1] = t
        /\ \A a \in DOMAIN contents : a # n + 1 /\ contents'[a] = contents[a]
    <2>1. DOMAIN contents \subseteq 1 .. n
      BY <1>2 DEF CellsTyped
    <2> QED
      BY <1>1, <1>4, <2>1 DEF WithContents
  <1>7. Remains
    BY <1>6 DEF Remains
  <1>8. \A a \in 1 .. n : memory'[heap[a].block] = memory[heap[a].block]
    <2> DEFINE C == Seq(Words \cup STRING)
    <2>1. memory \in Seq(C) /\ cells \in C
      BY KeptFacts
    <2> HIDE DEF C
    <2>2. \A b \in 1 .. Len(memory) : memory'[b] = memory[b]
      BY <1>1, <2>1, AppendProperties
    <2> QED
      BY <1>2, <2>2 DEF Kept, Blocks
  <1>9. ASSUME NEW a \in 1 .. n + 1, heap'[a].type # "TYPE_STRING"
        PROVE  /\ a \in DOMAIN contents' /\ Path(contents'[a])
               /\ HoldsTyped(memory[heap[a].block], contents[a])'
    <2>1. CASE a = n + 1
      <3>1. type # "TYPE_STRING" /\ Path(t) /\ HoldsValid(cells) /\ HoldsTyped(cells, t)
        BY <1>3, <1>9, <2>1
      <3>2. HoldsTyped(cells, t)'
        BY <3>1, <1>3, <1>7, PathFacts, HoldsStays
      <3> QED
        BY <1>3, <1>6, <2>1, <3>1, <3>2
    <2>2. CASE a \in 1 .. n
      <3>1. PICK old, u : old = memory[heap[a].block] /\ u = contents[a]
        OBVIOUS
      <3>2. heap[a].type # "TYPE_STRING"
        BY <1>3, <1>9, <2>2
      <3>3. /\ a \in DOMAIN contents /\ Path(u) /\ HoldsTyped(old, u) /\ HoldsValid(old)
        BY <1>2, <2>2, <3>1, <3>2 DEF CellsTyped, Kept, CellsValid
      <3>4. HoldsTyped(old, u)'
        BY <1>3, <1>7, <3>3, PathFacts, HoldsStays
      <3>5. memory'[heap'[a].block] = old /\ contents'[a] = u
        BY <1>3, <1>6, <1>8, <2>2, <3>1, <3>3
      <3> QED
        BY <1>6, <3>3, <3>4, <3>5
    <2> QED
      BY <1>5, <2>1, <2>2
  <1>10. \A a \in DOMAIN contents' : heap'[a].type = "TYPE_STRING" => contents'[a] = <<>>
    <2>1. \A a \in DOMAIN contents : a \in 1 .. n /\ (heap[a].type = "TYPE_STRING" => contents[a] = <<>>)
      BY <1>2 DEF CellsTyped
    <2> QED
      BY <1>3, <1>6, <2>1
  <1>11. DOMAIN contents' \subseteq 1 .. n + 1
    BY <1>2, <1>5, <1>6 DEF CellsTyped
  <1>12. \A u : Path(u)' <=> Path(u)
    BY DEF Path
  <1>13. CellsTyped'
    BY <1>3, <1>9, <1>10, <1>11, <1>12 DEF CellsTyped
  <1>14. w.signature = "POINTER" /\ w.payload = n + 1 /\ n + 1 # 0
    BY <1>4 DEF MAKE_PTR, Word
  <1>15. GetType(w)' = type /\ GET_PTR(w) = n + 1
    BY <1>3, <1>14 DEF GetType, IS_PTR, GET_PTR
  <1> QED
    BY <1>3, <1>6, <1>7, <1>13, <1>15

LEMMA MutableTyped ==
  ASSUME Kept, CellsTyped, NEW w, Points(w, "TYPE_MUTABLE"), NEW v, Valid(v),
         UNCHANGED <<heap, args, contents>>, strayed => strayed',
         Typed(v, contents[GET_PTR(w)]),
         memory' = [memory EXCEPT ![heap[GET_PTR(w)].block] = <<v>>]
  PROVE  CellsTyped' /\ Stays /\ Remains
  <1>1. Stays /\ Remains
    BY MutableSet DEF Remains
  <1>2. PICK a, t : a = GET_PTR(w) /\ t = contents[a]
    OBVIOUS
  <1>3. PICK b : b = heap[a].block
    OBVIOUS
  <1>4. PICK cells : cells = <<v>>
    OBVIOUS
  <1>5. a \in 1 .. Len(heap) /\ heap[a].type = "TYPE_MUTABLE"
    BY <1>2 DEF Points
  <1>6. /\ b \in 1 .. Len(memory)
        /\ \A c \in 1 .. Len(heap) : heap[c].block \in 1 .. Len(memory) /\ (heap[c].block = b => c = a)
    BY <1>3, <1>5 DEF Kept, Blocks
  <1>7. \A c \in 1 .. Len(memory) : memory'[c] = IF c = b THEN cells ELSE memory[c]
    <2> DEFINE C == Seq(Words \cup STRING)
    <2>1. memory \in Seq(C) /\ cells \in C
      BY <1>4, KeptFacts DEF Valid
    <2> HIDE DEF C
    <2>2. memory' = [memory EXCEPT ![b] = cells]
      BY <1>2, <1>3, <1>4
    <2> QED
      BY <2>1, <2>2, <1>6, ExceptSeq
  <1>8. Path(t) /\ Head(t) \in Kinds
    <2>1. Path(t)
      BY <1>2, <1>5 DEF CellsTyped
    <2> QED
      BY <2>1, PathFacts
  <1>9. HoldsTyped(cells, t)'
    <2>1. Typed(v, t)'
      BY <1>1, <1>2, <1>8, TypedStays
    <2>2. Len(cells) = 1 /\ cells[1] = v
      BY <1>4
    <2> QED
      BY <2>1, <2>2 DEF HoldsTyped
  <1>10. ASSUME NEW c \in 1 .. Len(heap), heap[c].type # "TYPE_STRING"
         PROVE  /\ c \in DOMAIN contents /\ Path(contents[c])
                /\ HoldsTyped(memory[heap[c].block], contents[c])'
    <2>1. PICK old, u : old = memory[heap[c].block] /\ u = contents[c]
      OBVIOUS
    <2>2. c \in DOMAIN contents /\ Path(u) /\ HoldsTyped(old, u) /\ HoldsValid(old)
      BY <1>10, <2>1 DEF CellsTyped, Kept, CellsValid
    <2>3. CASE c = a
      BY <1>2, <1>3, <1>6, <1>7, <1>9, <2>1, <2>2, <2>3
    <2>4. CASE c # a
      <3>1. HoldsTyped(old, u)'
        BY <1>1, <2>2, PathFacts, HoldsStays
      <3>2. memory'[heap'[c].block] = old
        BY <1>6, <1>7, <2>1, <2>4
      <3> QED
        BY <2>1, <2>2, <3>1, <3>2
    <2> QED
      BY <2>3, <2>4
  <1>11. \A u : Path(u)' <=> Path(u)
    BY DEF Path
  <1>12. CellsTyped'
    BY <1>10, <1>11 DEF CellsTyped
  <1> QED
    BY <1>1, <1>12

(* What else makes a program well typed.                                   *)
Stated ==
  /\ FunctionsKeepTheirAddress
  /\ error # "type"

Well == StackTyped /\ CellsTyped /\ Stated

LEMMA StatedStays ==
  ASSUME Stated, error' # "type", functions' = functions
  PROVE  Stated'
  BY DEF Stated, FunctionsKeepTheirAddress

(* An instruction that pushes a word, one that makes an object, one that   *)
(* only throws.                                                            *)
LEMMA TypedWordPushed ==
  ASSUME Kept, StackTyped, CellsTyped, OnlyLoader, SameHeap, strayed => strayed',
         NEW n \in 0 .. Len(stack), NEW w, NEW t, Replace(n, w, t), Valid(w), Path(t), Typed(w, t)
  PROVE  StackTyped' /\ CellsTyped'
  <1>1. CellsTyped' /\ Stays /\ Remains
    BY MemorySame DEF SameHeap, OnlyLoader
  <1>2. Typed(w, t)'
    BY <1>1, PathFacts, TypedStays
  <1> QED
    BY <1>1, <1>2, TypesReplaced

LEMMA TypedObjectPushed ==
  ASSUME Kept, StackTyped, CellsTyped, OnlyLoader,
         NEW n \in 0 .. Len(stack), NEW r, NEW t, Replace(n, MAKE_PTR(NewAddress), r), Path(r),
         NEW type \in ObjectTypes, NEW cells \in Seq(Words \cup STRING), NEW size \in Int,
         MakeObject(type, cells, size, t),
         t = Tail(r),
         type = "TYPE_STRING" => Head(r) = "string",
         type = "TYPE_LIST" => Head(r) = "list",
         type = "TYPE_MUTABLE" => Head(r) = "mutable" /\ Len(cells) = 1,
         type # "TYPE_STRING" => HoldsValid(cells) /\ HoldsTyped(cells, t),
         strayed => strayed',
         ~strayed' => size = Len(cells)
  PROVE  StackTyped' /\ CellsTyped'
  <1>1. PICK w : w = MAKE_PTR(NewAddress)
    OBVIOUS
  <1>2. UNCHANGED args
    BY DEF OnlyLoader
  <1>3. /\ type = "TYPE_STRING" => t = <<>>
        /\ type # "TYPE_STRING" => Path(t)
    BY PathFacts DEF ObjectTypes, Boxes
  <1>4. /\ CellsTyped' /\ Stays /\ Remains
        /\ GetType(w)' = type /\ contents'[GET_PTR(w)] = t
    BY <1>1, <1>2, <1>3, TypedObject
  <1>5. Typed(w, r)'
    <2>1. Head(r) \in Kinds /\ Head(r) # "int"
      BY PathFacts DEF ObjectTypes
    <2>2. HasType(w, r)'
      BY <1>4, <2>1, TypesOfWords DEF ObjectTypes
    <2> QED
      BY <2>1, <2>2 DEF Typed
  <1> QED
    BY <1>1, <1>4, <1>5, TypesReplaced

LEMMA TypedThrow ==
  ASSUME Kept, Well, Executes, OnlyLoader, NEW reason, Throw(reason), reason # "type"
  PROVE  Well'
  <1>1. UNCHANGED <<stack, types, heap, memory, contents, functions, args, strayed>> /\ error' = reason
    BY DEF Throw, OnlyLoader
  <1>2. CellsTyped'
    BY <1>1, MemorySame DEF Well
  <1>3. \A w, t : Typed(w, t)' <=> Typed(w, t)
    BY <1>1 DEF Typed, HasType, GetType, GET_PTR, IS_PTR
  <1>4. \A t : Path(t)' <=> Path(t)
    BY DEF Path
  <1>5. StackTyped'
    BY <1>1, <1>3, <1>4 DEF Well, StackTyped
  <1>6. Stated'
    BY <1>1, StatedStays DEF Well
  <1> QED
    BY <1>2, <1>5, <1>6 DEF Well

(* Every int, float, string and fn is a type of its own.                   *)
LEMMA LeafPath ==
  ASSUME NEW k \in Kinds \ Boxes
  PROVE  Path(<<k>>) /\ Head(<<k>>) = k /\ Tail(<<k>>) = <<>>
  <1>1. PICK t : t = <<k>>
    OBVIOUS
  <1>2. t \in Seq(Kinds) /\ Len(t) = 1 /\ t[1] = k /\ t # <<>>
    BY <1>1
  <1>3. Path(t)
    <2>1. Len(t) \in 1 .. TypeDepth
      BY <1>2, MachineAssumption
    <2>2. \A i \in 1 .. Len(t) : i = 1 /\ ~(i < Len(t))
      BY <1>2
    <2> QED
      BY <1>2, <2>1, <2>2 DEF Path
  <1>4. Head(t) = k
    BY <1>2
  <1> QED
    BY <1>1, <1>3, <1>4, PathFacts

(* A constant is of the type of its literal.                               *)
LEMMA ConstantTyped ==
  ASSUME Kept, stage = "running", NEW i \in 1 .. Len(constants), KindOf(i) # "native"
  PROVE  KindOf(i) \in Kinds \ Boxes /\ Typed(constants[i], <<KindOf(i)>>)
  <1>1. PICK w, literal : w = constants[i] /\ literal = Program.constants[i]
    OBVIOUS
  <1>2. Readable /\ Len(constants) = Len(Program.constants) /\ Loaded(w, literal)
    BY <1>1 DEF Kept, FileRead, ConstantsRead, HasRun
  <1>3. literal \in Literals
    <2>1. i \in 1 .. Len(Program.constants)
      BY <1>2
    <2> QED
      BY <2>1, <1>1, <1>2, ProgramFacts, ElementOfSeq
  <1>4. PICK k : k = KindOf(i)
    OBVIOUS
  <1>5. k = literal.kind
    BY <1>1, <1>4 DEF KindOf, Program
  <1>6. k \in {"int", "float", "string"}
    BY <1>3, <1>4, <1>5, LiteralFacts
  <1>7. k \in Kinds \ Boxes
    BY <1>6 DEF Kinds, Boxes
  <1>8. Head(<<k>>) = k
    BY <1>7, LeafPath
  <1>9. Valid(w)
    BY <1>1, ConstantsValid
  <1>10. /\ k = "int" => GetType(w) = "TYPE_INTEGER" /\ w.payload \in 0 .. INT - 1
         /\ k = "float" => GetType(w) = "TYPE_FLOAT"
         /\ k = "string" => GetType(w) = "TYPE_STRING"
    <2>1. ASSUME k = "int" PROVE GetType(w) = "TYPE_INTEGER" /\ w.payload \in 0 .. INT - 1
      <3>1. w = MAKE_INTEGER(literal.value) /\ literal.value \in Int
        BY <1>2, <1>3, <1>5, <2>1, LiteralFacts DEF Loaded
      <3>2. PICK n \in Int : n = literal.value
        BY <3>1
      <3>3. w.signature = "INTEGER" /\ w.payload = Unsigned(n)
        BY <3>1, <3>2, IntegerWords
      <3> QED
        BY <3>2, <3>3, <1>9, UnsignedFacts, TypeIsOf
    <2>2. ASSUME k = "float" PROVE GetType(w) = "TYPE_FLOAT"
      <3>1. w.signature = "FLOAT"
        BY <1>2, <1>5, <2>2 DEF Loaded, Word
      <3> QED
        BY <3>1, <1>9, TypeIsOf
    <2>3. ASSUME k = "string" PROVE GetType(w) = "TYPE_STRING"
      <3>1. Points(w, "TYPE_STRING")
        BY <1>2, <1>5, <2>3 DEF Loaded
      <3> QED
        BY <3>1, <1>9, TypeIsOf DEF ObjectTypes
    <2> QED
      BY <2>1, <2>2, <2>3
  <1>11. Typed(w, <<k>>)
    <2>1. Head(<<k>>) \in Kinds
      BY <1>7, <1>8
    <2>2. HasType(w, <<k>>)
      BY <2>1, <1>6, <1>8, <1>10, TypesOfWords
    <2> QED
      BY <2>2, <1>8, <1>10 DEF Typed
  <1> QED
    BY <1>1, <1>4, <1>7, <1>11

(* The 16 bits of an address and of a local space that fit in them.        *)
LEMMA FunctionWords ==
  ASSUME NEW x \in -HIGH .. HIGH - 1, NEW y \in 0 .. HIGH - 1
  PROVE  /\ MAKE_FUNCTION(x, y) \in Words
         /\ IS_FUN(MAKE_FUNCTION(x, y))
         /\ FunctionAddress(MAKE_FUNCTION(x, y)) = x
         /\ FunctionLocalSpace(MAKE_FUNCTION(x, y)) = y
  <1>1. HALF \in Int /\ HIGH \in Int /\ HIGH > 0 /\ HALF = 2 * HIGH
    BY Widths
  <1>2. PICK a \in Int : a = IF x < 0 THEN x + HALF ELSE x
    BY <1>1
  <1>3. a \in 0 .. HALF - 1 /\ Signed16(a) = x
    BY <1>1, <1>2 DEF Signed16
  <1>4. x % HALF = a
    <2>1. CASE x < 0
      <3>1. x = HALF * (-1) + a /\ -1 \in Int
        BY <1>1, <1>2, <2>1
      <3> QED
        BY <3>1, <1>1, <1>3, DivModUnique
    <2>2. CASE ~(x < 0)
      <3>1. x = HALF * 0 + a /\ 0 \in Int
        BY <1>1, <1>2, <2>2
      <3> QED
        BY <3>1, <1>1, <1>3, DivModUnique
    <2> QED
      BY <2>1, <2>2
  <1>5. y \in 0 .. HALF - 1 /\ y \in Int /\ Signed16(y) = y
    BY <1>1 DEF Signed16
  <1>6. y % HALF = y
    <2>1. y = HALF * 0 + y /\ 0 \in Int
      BY <1>1, <1>5
    <2> QED
      BY <2>1, <1>1, <1>5, DivModUnique
  <1>7. PICK p \in Int : p = a + y * HALF
    BY <1>1, <1>5
  <1>8. p % HALF = a /\ p \div HALF = y
    <2>1. p = HALF * y + a
      BY <1>1, <1>5, <1>7
    <2> QED
      BY <2>1, <1>1, <1>3, <1>5, DivModUnique
  <1>9. MAKE_FUNCTION(x, y) = Word("FUNCTION", p)
    <2>1. y % HALF < HIGH
      BY <1>1, <1>6
    <2> QED
      BY <2>1, <1>4, <1>6, <1>7 DEF MAKE_FUNCTION
  <1>10. PICK w : w = Word("FUNCTION", p)
    OBVIOUS
  <1>11. w \in Words /\ w.signature = "FUNCTION" /\ w.payload = p
    BY <1>10 DEF Word, Words, Signatures
  <1>12. FunctionAddress(w) = x /\ FunctionLocalSpace(w) = y
    BY <1>3, <1>5, <1>6, <1>8, <1>11 DEF FunctionAddress, FunctionLocalSpace
  <1> QED
    BY <1>9, <1>10, <1>11, <1>12 DEF IS_FUN

LEMMA TypedPushSteps ==
  ASSUME Kept, Well
  PROVE  /\ \A i \in DOMAIN constants : LoadConstant(i) => Well'
         /\ \A i \in 1 .. Depth : LoadSlot(i) => Well'
         /\ \A f \in Files[argv[2]].functions : MakeFunction(f[1], f[2]) /\ ~strayed' => Well'
  <1>0. 0 \in 0 .. Len(stack) /\ DOMAIN constants = 1 .. Len(constants) /\ DOMAIN stack = 1 .. Len(stack)
    BY KeptFacts, LenProperties DEF Kept, ConstantsRead
  <1>1. ASSUME NEW i \in DOMAIN constants, LoadConstant(i) PROVE Well'
    <2>1. /\ stage = "running" /\ Executes /\ OnlyLoader /\ SameHeap /\ KindOf(i) # "native"
          /\ Replace(0, constants[i], <<KindOf(i)>>)
          /\ UNCHANGED <<error, functions, strayed>>
      BY <1>1 DEF LoadConstant, Executes, Quietly
    <2>2. PICK w, k : w = constants[i] /\ k = KindOf(i)
      OBVIOUS
    <2>3. Valid(w) /\ k \in Kinds \ Boxes /\ Typed(w, <<k>>)
      BY <1>0, <1>1, <2>1, <2>2, ConstantsValid, ConstantTyped
    <2>4. PICK t : t = <<k>>
      OBVIOUS
    <2>5. Path(t) /\ Typed(w, t) /\ Replace(0, w, t)
      BY <2>1, <2>2, <2>3, <2>4, LeafPath
    <2>6. StackTyped' /\ CellsTyped'
      BY <1>0, <2>1, <2>3, <2>5, TypedWordPushed DEF Well
    <2> QED
      BY <2>1, <2>6, StatedStays DEF Well, Stated
  <1>2. ASSUME NEW i \in 1 .. Depth, LoadSlot(i) PROVE Well'
    <2>1. /\ stage = "running" /\ Executes /\ OnlyLoader /\ SameHeap
          /\ i \in DOMAIN stack /\ Replace(0, stack[i], types[i])
          /\ UNCHANGED <<error, functions, strayed>>
      BY <1>2 DEF LoadSlot, Executes, Quietly
    <2>2. PICK w, t : w = stack[i] /\ t = types[i]
      OBVIOUS
    <2>3. Valid(w) /\ Path(t) /\ Typed(w, t)
      BY <1>0, <2>1, <2>2 DEF Kept, StackValid, HoldsValid, Well, StackTyped
    <2>4. StackTyped' /\ CellsTyped'
      BY <1>0, <2>1, <2>2, <2>3, TypedWordPushed DEF Well
    <2> QED
      BY <2>1, <2>4, StatedStays DEF Well, Stated
  <1>3. ASSUME NEW f \in Files[argv[2]].functions, MakeFunction(f[1], f[2]), ~strayed' PROVE Well'
    <2>1. /\ stage = "running" /\ Executes /\ OnlyLoader /\ SameHeap
          /\ Replace(0, MAKE_FUNCTION(f[1], f[2]), fn)
          /\ error' = error
          /\ functions' = functions \cup {<<MAKE_FUNCTION(f[1], f[2]), f[1], f[2]>>}
          /\ strayed' = (strayed \/ ~FitWord(f[1], f[2]))
      BY <1>3 DEF MakeFunction, Executes, Quietly
    <2>2. PICK w, t : w = MAKE_FUNCTION(f[1], f[2]) /\ t = fn
      OBVIOUS
    <2>3. f[1] \in -HIGH .. HIGH - 1 /\ f[2] \in 0 .. HIGH - 1
      BY <1>3, <2>1 DEF FitWord
    <2>4. w \in Words /\ IS_FUN(w) /\ FunctionAddress(w) = f[1] /\ FunctionLocalSpace(w) = f[2]
      BY <2>2, <2>3, FunctionWords
    <2>5. Valid(w) /\ GetType(w) = "TYPE_FUNCTION"
      BY <2>4, TypeIsOf DEF Valid, IS_FUN, IS_PTR
    <2>6. Path(t) /\ Head(t) = "fn"
      BY <2>2, LeafPath DEF fn, Kinds, Boxes
    <2>7. Typed(w, t)
      BY <2>5, <2>6, TypesOfWords DEF Typed, Kinds
    <2>8. StackTyped' /\ CellsTyped'
      BY <1>0, <2>1, <2>2, <2>5, <2>6, <2>7, TypedWordPushed DEF Well
    <2>9. FunctionsKeepTheirAddress'
      BY <2>1, <2>2, <2>4 DEF Well, Stated, FunctionsKeepTheirAddress
    <2> QED
      BY <2>1, <2>8, <2>9 DEF Well, Stated
  <1> QED
    BY <1>1, <1>2, <1>3

LEMMA TypesDropped ==
  ASSUME Kept, StackTyped, CellsTyped, Stays, Remains, NEW n \in 0 .. Len(stack), Drop(n)
  PROVE  StackTyped'
  <1>1. PICK l \in Nat : l = Len(stack)
    BY KeptFacts
  <1>2. n \in 0 .. l /\ types \in Seq(Seq(Kinds)) /\ Len(types) = l /\ l <= Depth /\ Depth \in Nat
    BY <1>1, MachineAssumption DEF StackTyped
  <1>3. \A i \in 1 .. l : /\ types[i] \in Seq(Kinds) /\ Path(types[i])
                          /\ Valid(stack[i]) /\ Typed(stack[i], types[i])
    BY <1>1, <1>2, ElementOfSeq DEF StackTyped, Kept, StackValid, HoldsValid
  <1>4. PICK s, ts : s = stack' /\ ts = types'
    OBVIOUS
  <1>5. s = SubSeq(stack, 1, l - n) /\ ts = SubSeq(types, 1, l - n)
    BY <1>1, <1>2, <1>4 DEF Drop
  <1>6. \A i \in 1 .. l - n : i \in 1 .. l
    BY <1>2
  <1>7. /\ Len(s) = l - n /\ \A i \in 1 .. l - n : s[i] = stack[i]
        /\ ts \in Seq(Seq(Kinds)) /\ Len(ts) = l - n /\ \A i \in 1 .. l - n : ts[i] = types[i]
    <2>1. \A i \in 1 .. l - n : 1 + i - 1 = i
      BY <1>2
    <2>2. \A i \in 1 .. l - n : stack[i] \in Words /\ types[i] \in Seq(Kinds)
      BY <1>3, <1>6 DEF Valid
    <2>3. 1 \in Int /\ l - n \in Int /\ l - n - 1 + 1 = l - n /\ (~(1 <= l - n) => l - n = 0)
      BY <1>2
    <2> QED
      BY <1>5, <2>1, <2>2, <2>3, SubSeqProperties
  <1>8. ASSUME NEW i \in 1 .. l - n PROVE Path(ts[i]) /\ Typed(s[i], ts[i])'
    <2>1. PICK v, u : v = stack[i] /\ u = types[i]
      OBVIOUS
    <2>2. Valid(v) /\ Path(u) /\ Typed(v, u)
      BY <1>3, <1>6, <2>1
    <2>3. Typed(v, u)'
      BY <2>2, PathFacts, TypedStays
    <2> QED
      BY <1>7, <2>1, <2>2, <2>3
  <1>9. \A i \in 1 .. Len(stack') : Path(types'[i]) /\ Typed(stack[i], types[i])'
    BY <1>4, <1>7, <1>8
  <1>10. \A u : Path(u)' <=> Path(u)
    BY DEF Path
  <1>11. types' \in Seq(Seq(Kinds)) /\ Len(types') = Len(stack') /\ Len(stack') <= Depth
    BY <1>2, <1>4, <1>7
  <1> QED
    BY <1>9, <1>10, <1>11 DEF StackTyped

LEMMA TypedMakeSteps ==
  ASSUME Kept, Well
  PROVE  /\ \A n \in 0 .. MaxElements, t \in Types : MakeList(n, t) => Well'
         /\ MakeMutable => Well'
  <1>1. ASSUME NEW n \in 0 .. MaxElements, NEW t \in Types, MakeList(n, t) PROVE Well'
    <2>1. /\ Executes /\ OnlyLoader /\ n <= Len(stack) /\ list(t) \in Types
          /\ \A k \in 0 .. n - 1 : TypeOfTop(k) = t
          /\ MakeObject("TYPE_LIST", Operands(n), n, t)
          /\ Replace(n, MAKE_PTR(NewAddress), list(t))
          /\ UNCHANGED <<error, functions, strayed>>
      BY <1>1 DEF MakeList, Quietly
    <2>2. n \in 0 .. Len(stack) /\ n \in Int
      BY <2>1, KeptFacts, MachineAssumption
    <2>3. PICK cells, r : cells = Operands(n) /\ r = list(t)
      OBVIOUS
    <2>4. /\ cells \in Seq(Words) /\ Len(cells) = n /\ HoldsValid(cells)
          /\ \A i \in 1 .. n : cells[i] = stack[Len(stack) - n + i]
      BY <2>2, <2>3, StackPops
    <2>5. cells \in Seq(Words \cup STRING)
      BY <2>4, SeqMonotonic
    <2>6. Path(r) /\ Head(r) = "list" /\ Tail(r) = t
      <3>1. Path(t) /\ t \in Seq(Kinds)
        BY TypesArePaths DEF Path
      <3>2. Path(r)
        BY <2>1, <2>3, TypesArePaths
      <3>3. "list" \in Kinds
        BY DEF Kinds
      <3> QED
        BY <3>1, <3>2, <3>3, <2>3, BoxFacts DEF list
    <2>7. HoldsTyped(cells, t)
      <3> SUFFICES ASSUME NEW i \in 1 .. n PROVE Typed(cells[i], t)
        BY <2>4 DEF HoldsTyped
      <3>1. PICK l \in Nat : l = Len(stack)
        BY KeptFacts
      <3>2. n - i \in 0 .. n - 1 /\ n - i \in 0 .. l - 1 /\ l - (n - i) = l - n + i
        BY <2>2, <3>1
      <3>3. PICK k : k = n - i
        OBVIOUS
      <3>4. Typed(Top(k), TypeOfTop(k))
        BY <2>2, <3>1, <3>2, <3>3, TypesPop DEF Well
      <3>5. Top(k) = cells[i]
        BY <2>4, <3>1, <3>2, <3>3 DEF Top
      <3> QED
        BY <2>1, <3>2, <3>3, <3>4, <3>5
    <2>8. StackTyped' /\ CellsTyped'
      BY <2>1, <2>2, <2>3, <2>4, <2>5, <2>6, <2>7, TypedObjectPushed DEF ObjectTypes, Well
    <2> QED
      BY <2>1, <2>8, StatedStays DEF Well, Stated
  <1>2. ASSUME MakeMutable PROVE Well'
    <2>1. /\ Executes /\ OnlyLoader /\ stack # <<>> /\ mutable(TypeOfTop(0)) \in Types
          /\ MakeObject("TYPE_MUTABLE", <<Top(0)>>, 1, TypeOfTop(0))
          /\ Replace(1, MAKE_PTR(NewAddress), mutable(TypeOfTop(0)))
          /\ UNCHANGED <<error, functions, strayed>>
      BY <1>2 DEF MakeMutable, Quietly
    <2>2. 1 \in 0 .. Len(stack) /\ 0 \in 0 .. Len(stack) - 1
      BY <2>1, KeptFacts, EmptySeq
    <2>3. PICK w, t, r : w = Top(0) /\ t = TypeOfTop(0) /\ r = mutable(t)
      OBVIOUS
    <2>4. Valid(w) /\ Path(t) /\ Typed(w, t)
      BY <2>2, <2>3, StackPops, TypesPop DEF Well
    <2>5. PICK cells : cells = <<w>>
      OBVIOUS
    <2>6. /\ cells \in Seq(Words \cup STRING) /\ Len(cells) = 1 /\ HoldsValid(cells)
          /\ HoldsTyped(cells, t)
      BY <2>4, <2>5 DEF HoldsValid, Valid, HoldsTyped
    <2>7. MakeObject("TYPE_MUTABLE", cells, 1, t) /\ Replace(1, MAKE_PTR(NewAddress), r)
      BY <2>1, <2>3, <2>5
    <2>8. Path(r) /\ Head(r) = "mutable" /\ Tail(r) = t
      <3>1. t \in Seq(Kinds)
        BY <2>4 DEF Path
      <3>2. Path(r)
        BY <2>1, <2>3, TypesArePaths
      <3>3. "mutable" \in Kinds
        BY DEF Kinds
      <3> QED
        BY <3>1, <3>2, <3>3, <2>3, BoxFacts DEF mutable
    <2>9. StackTyped' /\ CellsTyped'
      <3>1. PICK type : type = "TYPE_MUTABLE"
        OBVIOUS
      <3>2. PICK size \in Int : size = 1
        OBVIOUS
      <3>3. type \in ObjectTypes /\ type # "TYPE_STRING" /\ type # "TYPE_LIST"
        BY <3>1 DEF ObjectTypes
      <3>4. MakeObject(type, cells, size, t)
        BY <2>7, <3>1, <3>2
      <3> QED
        BY <2>1, <2>2, <2>6, <2>7, <2>8, <3>2, <3>3, <3>4, TypedObjectPushed DEF Well
    <2> QED
      BY <2>1, <2>9, StatedStays DEF Well, Stated
  <1> QED
    BY <1>1, <1>2

LEMMA TypedUpdateStep ==
  ASSUME Kept, Well, Update
  PROVE  Well'
  <1>1. Executes /\ OnlyLoader /\ Len(stack) >= 2 /\ TypeOfTop(0) = mutable(TypeOfTop(1))
    BY DEF Update
  <1>2. 2 \in 0 .. Len(stack) /\ 0 \in 0 .. Len(stack) - 1 /\ 1 \in 0 .. Len(stack) - 1
    BY <1>1, KeptFacts
  <1>3. PICK w, v, t, u : w = Top(0) /\ v = Top(1) /\ t = TypeOfTop(0) /\ u = TypeOfTop(1)
    OBVIOUS
  <1>4. Valid(w) /\ Valid(v) /\ Path(t) /\ Path(u) /\ Typed(w, t) /\ Typed(v, u)
    BY <1>2, <1>3, StackPops, TypesPop DEF Well
  <1>5. Head(t) = "mutable" /\ Tail(t) = u
    <2>1. t = mutable(u) /\ u \in Seq(Kinds) /\ "mutable" \in Kinds
      BY <1>1, <1>3, <1>4 DEF Path, Kinds
    <2> QED
      BY <2>1, BoxFacts DEF mutable
  <1>6. GetType(w) = "TYPE_MUTABLE" /\ contents[GET_PTR(w)] = u
    <2>1. HasType(w, t) /\ Head(t) \in Kinds
      BY <1>4, <1>5 DEF Typed, Kinds
    <2> QED
      BY <2>1, <1>5, TypesOfWords
  <1>7. Points(w, "TYPE_MUTABLE")
    BY <1>4, <1>6, TypeFacts DEF ObjectTypes, Kept
  <1>8. /\ UNCHANGED <<heap, args, contents, error, functions, strayed>> /\ Drop(2)
        /\ memory' = [memory EXCEPT ![heap[GET_PTR(w)].block] = <<v>>]
    BY <1>1, <1>3, <1>6 DEF Update, Quietly, OnlyLoader
  <1>9. CellsTyped' /\ Stays /\ Remains
    BY <1>4, <1>6, <1>7, <1>8, MutableTyped DEF Well
  <1>10. StackTyped'
    BY <1>2, <1>8, <1>9, TypesDropped DEF Well
  <1> QED
    BY <1>1, <1>8, <1>9, <1>10, StatedStays DEF Well, Stated

(* An element is of the type of what is in the list.                       *)
LEMMA ElementTyped ==
  ASSUME ~strayed, Kept, CellsTyped, NEW w, NEW t, Valid(w), Path(t), Typed(w, t), Head(t) = "list"
  PROVE  /\ GetType(w) = "TYPE_LIST" /\ Points(w, "TYPE_LIST") /\ Path(Tail(t))
         /\ Cells(w) \in Seq(Words \cup STRING) /\ HoldsValid(Cells(w)) /\ HoldsTyped(Cells(w), Tail(t))
         /\ Length(w) = Len(Cells(w)) /\ Len(Cells(w)) \in Nat
         /\ \A i \in Nat : ~(i >= Length(w)) => /\ Element(w, i) = Cells(w)[i + 1]
                                               /\ Valid(Element(w, i)) /\ Typed(Element(w, i), Tail(t))
  <1>1. GetType(w) = "TYPE_LIST" /\ contents[GET_PTR(w)] = Tail(t)
    BY TypesOfWords DEF Typed, Kinds
  <1>2. Points(w, "TYPE_LIST")
    BY <1>1, TypeFacts DEF ObjectTypes, Kept
  <1>3. Path(Tail(t))
    BY PathFacts DEF Boxes
  <1>4. PICK cells : cells = Cells(w)
    OBVIOUS
  <1>5. /\ cells \in Seq(Words \cup STRING) /\ Len(cells) \in Nat /\ HoldsValid(cells)
        /\ Length(w) = Len(cells)
    BY <1>2, <1>4, CellsFacts DEF Kept, ObjectTypes
  <1>6. HoldsTyped(cells, Tail(t))
    BY <1>1, <1>2, <1>4 DEF Points, CellsTyped, Cells
  <1>7. ASSUME NEW i \in Nat, ~(i >= Length(w))
        PROVE  /\ Element(w, i) = cells[i + 1]
               /\ Valid(Element(w, i)) /\ Typed(Element(w, i), Tail(t))
    <2>1. i < Len(cells) /\ i + 1 \in 1 .. Len(cells)
      BY <1>5, <1>7
    <2>2. Element(w, i) = cells[i + 1]
      BY <1>4, <2>1 DEF Element
    <2> QED
      BY <1>5, <1>6, <2>1, <2>2 DEF HoldsValid, HoldsTyped
  <1> QED
    BY <1>1, <1>2, <1>3, <1>4, <1>5, <1>6, <1>7

LEMMA TypedTakeStep ==
  ASSUME ~strayed, Kept, Well, Executes, OnlyLoader, NEW n \in 1 .. Len(stack), NEW w,
         w = Top(n - 1), Head(TypeOfTop(n - 1)) = "list", NEW i \in Nat, Take(n, w, i)
  PROVE  Well'
  <1>1. PICK t : t = TypeOfTop(n - 1)
    OBVIOUS
  <1>2. n - 1 \in 0 .. Len(stack) - 1 /\ n \in 0 .. Len(stack)
    BY KeptFacts
  <1>3. Valid(w) /\ Path(t) /\ Typed(w, t)
    BY <1>1, <1>2, StackPops, TypesPop DEF Well
  <1>4. GetType(w) = "TYPE_LIST" /\ Path(Tail(t))
    BY <1>1, <1>3, ElementTyped DEF Well
  <1>5. CASE i >= Length(w)
    <2>1. Throw("Index out of bounds")
      BY <1>4, <1>5 DEF Take
    <2> QED
      BY <2>1, TypedThrow
  <1>6. CASE ~(i >= Length(w))
    <2>1. PICK e, u : e = Element(w, i) /\ u = Tail(t)
      OBVIOUS
    <2>2. Valid(e) /\ Typed(e, u) /\ Path(u)
      BY <1>1, <1>3, <1>4, <1>6, <2>1, ElementTyped DEF Well
    <2>3. Replace(n, e, u) /\ SameHeap /\ UNCHANGED <<error, functions, strayed>>
      BY <1>1, <1>4, <1>6, <2>1 DEF Take, Quietly
    <2>4. StackTyped' /\ CellsTyped'
      BY <1>2, <2>2, <2>3, TypedWordPushed DEF Well
    <2> QED
      BY <2>3, <2>4, StatedStays DEF Well, Stated
  <1> QED
    BY <1>5, <1>6

LEMMA TypedElementSteps ==
  ASSUME ~strayed, Kept, Well
  PROVE  /\ \A i \in 0 .. MaxElements : ListGet(i) => Well'
         /\ GetIndex => Well'
  <1>1. ASSUME NEW i \in 0 .. MaxElements, ListGet(i) PROVE Well'
    <2>1. /\ Executes /\ OnlyLoader /\ stack # <<>> /\ Head(TypeOfTop(0)) = "list"
          /\ Take(1, Top(0), Unsigned(i))
      BY <1>1 DEF ListGet
    <2>2. 1 \in 1 .. Len(stack) /\ 1 - 1 = 0
      BY <2>1, KeptFacts, EmptySeq
    <2>3. PICK w, j : w = Top(0) /\ j = Unsigned(i)
      OBVIOUS
    <2>4. j \in Nat
      BY <2>3, MachineAssumption, UnsignedFacts, Widths
    <2> QED
      BY <2>1, <2>2, <2>3, <2>4, TypedTakeStep
  <1>2. ASSUME GetIndex PROVE Well'
    <2>1. /\ Executes /\ OnlyLoader /\ Len(stack) >= 2 /\ TypeOfTop(0) = int
          /\ Head(TypeOfTop(1)) = "list"
      BY <1>2 DEF GetIndex
    <2>2. 2 \in 1 .. Len(stack) /\ 2 - 1 = 1 /\ 0 \in 0 .. Len(stack) - 1 /\ 0 \in 0 .. Len(stack)
      BY <2>1, KeptFacts
    <2>3. PICK v, j : v = Top(0) /\ j = GET_INT(Top(0))
      OBVIOUS
    <2>4. Valid(v) /\ Typed(v, int)
      BY <2>1, <2>2, <2>3, StackPops, TypesPop DEF Well
    <2>5. Head(int) = "int"
      BY LeafPath DEF int, Kinds, Boxes
    <2>6. GetType(v) = "TYPE_INTEGER"
      BY <2>4, <2>5, TypesOfWords DEF Typed, Kinds
    <2>7. j \in Nat
      <3>1. PICK p \in Int : p = v.payload
        BY <2>4, TypeFacts DEF Kept
      <3>2. Unsigned(p) \in 0 .. INT - 1
        BY UnsignedFacts
      <3>3. j = Unsigned(p)
        BY <2>3, <3>1 DEF GET_INT
      <3> QED
        BY <3>2, <3>3, Widths
    <2>8. PICK w : w = Top(1)
      OBVIOUS
    <2>9. Take(2, w, j)
      BY <1>2, <2>3, <2>6, <2>8 DEF GetIndex
    <2> QED
      BY <2>1, <2>2, <2>7, <2>8, <2>9, TypedTakeStep
  <1> QED
    BY <1>1, <1>2
-----------------------------------------------------------------------------
(* Denotations is defined, level by level, as Equality is.                 *)
Denotes(n, e) == [w \in Words |-> IF n = 0 THEN w ELSE Denoted(w, e)]

DenotedUpTo(f, n) == f = [k \in 0 .. n |-> Denotes(k, f[k - 1])]

LEMMA DenotationsDefined == DenotedUpTo(Denotations, TypeDepth)
  <1> DEFINE T == {n \in Nat : \E f : DenotedUpTo(f, n)}
  <1>1. 0 \in T
    <2> DEFINE f == [k \in 0 .. 0 |-> Denotes(k, 0)]
    <2>1. \A e : Denotes(0, e) = Denotes(0, 0)
      BY DEF Denotes
    <2>2. \A k \in 0 .. 0 : k = 0
      OBVIOUS
    <2>3. DenotedUpTo(f, 0)
      <3>1. f = [k \in 0 .. 0 |-> Denotes(k, f[k - 1])]
        BY <2>1, <2>2
      <3> QED
        BY <3>1 DEF DenotedUpTo
    <2> QED
      BY <2>3
  <1>2. ASSUME NEW n \in T PROVE n + 1 \in T
    <2>1. n \in Nat
      OBVIOUS
    <2>2. PICK f : DenotedUpTo(f, n)
      BY <1>2
    <2> DEFINE g == [k \in 0 .. n + 1 |-> IF k = n + 1 THEN Denotes(k, f[n]) ELSE f[k]]
    <2>3. \A k \in 0 .. n : f[k] = Denotes(k, f[k - 1])
      BY <2>2 DEF DenotedUpTo
    <2>4. \A k \in 0 .. n + 1 : g[k] = Denotes(k, g[k - 1])
      <3> SUFFICES ASSUME NEW k \in 0 .. n + 1 PROVE g[k] = Denotes(k, g[k - 1])
        OBVIOUS
      <3>1. CASE k = n + 1
        <4>1. n \in 0 .. n + 1 /\ k - 1 = n /\ n # n + 1
          BY <2>1, <3>1
        <4>2. g[k - 1] = f[n]
          BY <4>1
        <4> QED
          BY <3>1, <4>2
      <3>2. CASE k \in 1 .. n
        <4>1. k - 1 \in 0 .. n + 1 /\ k - 1 # n + 1 /\ k # n + 1 /\ k \in 0 .. n
          BY <2>1, <3>2
        <4>2. g[k - 1] = f[k - 1] /\ g[k] = f[k]
          BY <4>1
        <4> HIDE DEF g
        <4> QED
          BY <2>3, <4>1, <4>2
      <3>3. CASE k = 0
        <4>1. g[k] = f[0] /\ 0 \in 0 .. n
          BY <2>1, <3>3
        <4>2. f[0] = Denotes(0, f[0 - 1])
          BY <2>3, <4>1
        <4>3. \A d, e : Denotes(0, d) = Denotes(0, e)
          BY DEF Denotes
        <4> HIDE DEF g
        <4> QED
          BY <3>3, <4>1, <4>2, <4>3
      <3>4. k = n + 1 \/ k \in 1 .. n \/ k = 0
        BY <2>1
      <3> QED
        BY <3>1, <3>2, <3>3, <3>4
    <2>5. DenotedUpTo(g, n + 1)
      <3>1. g = [k \in 0 .. n + 1 |-> g[k]]
        OBVIOUS
      <3> HIDE DEF g
      <3>2. [k \in 0 .. n + 1 |-> g[k]] = [k \in 0 .. n + 1 |-> Denotes(k, g[k - 1])]
        BY <2>4
      <3> QED
        BY <3>1, <3>2 DEF DenotedUpTo
    <2> HIDE DEF g
    <2> QED
      BY <2>1, <2>5
  <1>3. T = Nat
    <2>1. T \in SUBSET Nat
      OBVIOUS
    <2> HIDE DEF T
    <2> QED
      BY <1>1, <1>2, <2>1, SetInduction
  <1>4. \E f : DenotedUpTo(f, TypeDepth)
    BY <1>3, MachineAssumption
  <1>5. Denotations = CHOOSE f : DenotedUpTo(f, TypeDepth)
    BY DEF Denotations, DenotedUpTo, Denotes
  <1> HIDE DEF T
  <1> QED
    BY <1>4, <1>5

(* value_eq and denotations, one level down.                               *)
LEMMA NextLevel ==
  ASSUME NEW n \in Nat, n + 1 <= TypeDepth, NEW v \in Words, NEW w \in Words
  PROVE  /\ Equality[n + 1][<<v, w>>] = Compared(v, w, Equality[n])
         /\ Denotations[n + 1][v] = Denoted(v, Denotations[n])
  <1>1. n + 1 \in 0 .. TypeDepth /\ (n + 1) - 1 = n /\ n + 1 # 0
    BY MachineAssumption
  <1>2. Equality[n + 1] = Level(n + 1, Equality[n])
    BY <1>1, EqualityDefined DEF Leveled
  <1>3. Denotations[n + 1] = Denotes(n + 1, Denotations[n])
    BY <1>1, DenotationsDefined DEF DenotedUpTo
  <1>4. PICK p : p = <<v, w>>
    OBVIOUS
  <1>5. p \in Words \X Words /\ p[1] = v /\ p[2] = w
    BY <1>4
  <1>6. Equality[n + 1][p] = Compared(v, w, Equality[n])
    BY <1>1, <1>2, <1>5 DEF Level
  <1>7. Denotations[n + 1][v] = Denoted(v, Denotations[n])
    BY <1>1, <1>3 DEF Denotes
  <1> QED
    BY <1>4, <1>6, <1>7

(* Two words of a type are equal exactly when they denote the same.        *)
SameOf(v, w, e, d) == e[<<v, w>>] = Bit(d[v] = d[w])

Alike(n) ==
  \A t : Path(t) /\ t # fn /\ Len(t) <= n =>
    \A v, w : Valid(v) /\ Valid(w) /\ Typed(v, t) /\ Typed(w, t) =>
      SameOf(v, w, Equality[n], Denotations[n])

(* Two lists: of different lengths, or with elements that differ, of which *)
(* value_eq stops at the first.                                            *)
LEMMA ListsAlike ==
  ASSUME ~strayed, Kept, CellsTyped, NEW t, Path(t), Head(t) = "list",
         NEW v, NEW w, Valid(v), Valid(w), Typed(v, t), Typed(w, t), NEW e, NEW d,
         \A a, b : Valid(a) /\ Valid(b) /\ Typed(a, Tail(t)) /\ Typed(b, Tail(t)) => SameOf(a, b, e, d)
  PROVE  Compared(v, w, e) = Bit(Denoted(v, d) = Denoted(w, d))
  <1>1. PICK x, y, u : x = Cells(v) /\ y = Cells(w) /\ u = Tail(t)
    OBVIOUS
  <1>2. /\ GetType(v) = "TYPE_LIST" /\ GetType(w) = "TYPE_LIST"
        /\ Length(v) = Len(x) /\ Len(x) \in Nat /\ Length(w) = Len(y) /\ Len(y) \in Nat
        /\ x \in Seq(Words \cup STRING) /\ y \in Seq(Words \cup STRING)
    BY <1>1, ElementTyped
  <1>3. PICK k \in Nat, l \in Nat : k = Len(x) /\ l = Len(y)
    BY <1>2
  <1>4. /\ \A i \in 0 .. k - 1 : /\ Element(v, i) = x[i + 1] /\ Valid(x[i + 1]) /\ Typed(x[i + 1], u)
        /\ \A i \in 0 .. l - 1 : /\ Element(w, i) = y[i + 1] /\ Valid(y[i + 1]) /\ Typed(y[i + 1], u)
    <2>1. /\ \A i \in 0 .. k - 1 : i \in Nat /\ ~(i >= Length(v))
          /\ \A i \in 0 .. l - 1 : i \in Nat /\ ~(i >= Length(w))
      BY <1>2, <1>3
    <2>2. \A i \in 0 .. k - 1 : /\ Element(v, i) = x[i + 1] /\ Valid(Element(v, i)) /\ Typed(Element(v, i), u)
      BY <1>1, <2>1, ElementTyped
    <2>3. \A i \in 0 .. l - 1 : /\ Element(w, i) = y[i + 1] /\ Valid(Element(w, i)) /\ Typed(Element(w, i), u)
      BY <1>1, <2>1, ElementTyped
    <2> QED
      BY <2>2, <2>3
  <1> DEFINE same(i) == e[<<Element(v, i), Element(w, i)>>]
             Differ == {i \in 0 .. k - 1 : same(i) # 1}
             dx == [i \in 1 .. k |-> d[x[i]]]
             dy == [i \in 1 .. l |-> d[y[i]]]
  <1>5. Compared(v, w, e) = IF k # l THEN 0
                            ELSE IF Differ = {} THEN 1
                            ELSE same(CHOOSE i \in Differ : \A j \in Differ : i <= j)
    <2>1. Length(v) = k /\ Length(w) = l
      BY <1>2, <1>3
    <2> QED
      BY <1>2, <2>1 DEF Compared, SameLength
  <1>6. Denoted(v, d) = dx /\ Denoted(w, d) = dy
    <2>1. DOMAIN x = 1 .. k /\ DOMAIN y = 1 .. l
      BY <1>2, <1>3
    <2> QED
      BY <1>1, <1>2, <2>1 DEF Denoted
  <1>7. CASE k # l
    <2>1. DOMAIN dx = 1 .. k /\ DOMAIN dy = 1 .. l
      OBVIOUS
    <2>2. 1 .. k # 1 .. l
      <3>1. (k \in 1 .. k /\ k \notin 1 .. l) \/ (l \in 1 .. l /\ l \notin 1 .. k)
        BY <1>7
      <3> QED
        BY <3>1
    <2>3. dx # dy
      BY <2>1, <2>2
    <2> QED
      BY <1>5, <1>6, <1>7, <2>3 DEF Bit
  <1>8. CASE k = l
    <2>1. \A i \in 0 .. k - 1 : same(i) = Bit(d[x[i + 1]] = d[y[i + 1]])
      BY <1>1, <1>4, <1>8 DEF SameOf
    <2>2. CASE Differ = {}
      <3>1. ASSUME NEW i \in 1 .. k PROVE d[x[i]] = d[y[i]]
        <4>1. PICK j : j = i - 1
          OBVIOUS
        <4>2. j \in 0 .. k - 1 /\ j + 1 = i
          BY <4>1
        <4>3. same(j) = 1
          BY <2>2, <4>2
        <4> QED
          BY <2>1, <4>2, <4>3 DEF Bit
      <3>2. dx = dy
        BY <1>8, <3>1
      <3> QED
        BY <1>5, <1>6, <1>8, <2>2, <3>2 DEF Bit
    <2>3. CASE Differ # {}
      <3>1. Differ \in SUBSET Nat
        OBVIOUS
      <3>2. PICK m : m = CHOOSE i \in Differ : \A j \in Differ : i <= j
        OBVIOUS
      <3>3. m \in Differ
        <4> HIDE DEF Differ
        <4>1. \E i \in Differ : \A j \in Differ : i <= j
          BY <2>3, <3>1, Least
        <4> QED
          BY <3>2, <4>1
      <3>4. m \in 0 .. k - 1 /\ same(m) # 1
        BY <3>3
      <3>5. same(m) = 0 /\ d[x[m + 1]] # d[y[m + 1]]
        BY <2>1, <3>4 DEF Bit
      <3>6. dx # dy
        <4>1. m + 1 \in 1 .. k /\ m + 1 \in 1 .. l
          BY <1>8, <3>4
        <4>2. dx[m + 1] = d[x[m + 1]] /\ dy[m + 1] = d[y[m + 1]]
          BY <4>1
        <4> QED
          BY <3>5, <4>2
      <3>7. Compared(v, w, e) = 0
        <4> HIDE DEF Differ, same
        <4> QED
          BY <1>5, <1>8, <2>3, <3>2, <3>5
      <3> QED
        BY <1>6, <3>6, <3>7 DEF Bit
    <2> QED
      BY <2>2, <2>3
  <1> QED
    BY <1>7, <1>8

LEMMA AlikeNext ==
  ASSUME ~strayed, Kept, CellsTyped, NEW n \in Nat, n + 1 <= TypeDepth, Alike(n)
  PROVE  Alike(n + 1)
  <1> SUFFICES ASSUME NEW t, Path(t), t # fn, Len(t) <= n + 1,
                      NEW v, NEW w, Valid(v), Valid(w), Typed(v, t), Typed(w, t)
               PROVE  SameOf(v, w, Equality[n + 1], Denotations[n + 1])
    BY DEF Alike
  <1>1. PICK e, d : e = Equality[n] /\ d = Denotations[n]
    OBVIOUS
  <1>2. PICK u : u = Tail(t)
    OBVIOUS
  <1>3. /\ Head(t) \in Kinds /\ Len(t) \in Nat
        /\ Head(t) \in Boxes => Path(u) /\ Len(u) = Len(t) - 1 /\ u # fn
        /\ Head(t) \notin Boxes => t = <<Head(t)>>
    BY <1>2, PathFacts
  <1>4. Head(t) # "fn"
    BY <1>3 DEF fn, Boxes
  <1>5. ASSUME Head(t) \in Boxes, NEW a, NEW b, Valid(a), Valid(b), Typed(a, u), Typed(b, u)
        PROVE  SameOf(a, b, e, d)
    <2>1. Len(u) <= n
      BY <1>3, <1>5
    <2> QED
      BY <1>1, <1>3, <1>5, <2>1 DEF Alike
  <1>6. Compared(v, w, e) = Bit(Denoted(v, d) = Denoted(w, d))
    <2>1. CASE Head(t) \in {"int", "float"}
      <3>1. GetType(v) = GetType(w) /\ GetType(v) \in {"TYPE_INTEGER", "TYPE_FLOAT"}
        BY <1>3, <2>1, TypesOfWords DEF Typed
      <3> QED
        BY <3>1 DEF Compared, Denoted
    <2>2. CASE Head(t) = "string"
      <3>1. GetType(v) = "TYPE_STRING" /\ GetType(w) = "TYPE_STRING"
        BY <1>3, <2>2, TypesOfWords DEF Typed
      <3> QED
        BY <3>1 DEF Compared, Denoted
    <2>3. CASE Head(t) = "list"
      <3>1. \A a, b : Valid(a) /\ Valid(b) /\ Typed(a, u) /\ Typed(b, u) => SameOf(a, b, e, d)
        BY <1>5, <2>3 DEF Boxes
      <3> QED
        BY <1>2, <2>3, <3>1, ListsAlike
    <2>4. CASE Head(t) = "mutable"
      <3>1. PICK x, y : x = Cells(v) /\ y = Cells(w)
        OBVIOUS
      <3>2. /\ GetType(v) = "TYPE_MUTABLE" /\ contents[GET_PTR(v)] = u
            /\ GetType(w) = "TYPE_MUTABLE" /\ contents[GET_PTR(w)] = u
        BY <1>2, <1>3, <2>4, TypesOfWords DEF Typed
      <3>3. Points(v, "TYPE_MUTABLE") /\ Points(w, "TYPE_MUTABLE")
        BY <3>2, TypeFacts DEF Kept, ObjectTypes
      <3>4. /\ x \in Seq(Words \cup STRING) /\ Len(x) = 1 /\ HoldsValid(x)
            /\ y \in Seq(Words \cup STRING) /\ Len(y) = 1 /\ HoldsValid(y)
        BY <3>1, <3>3, CellsFacts DEF Kept, ObjectTypes
      <3>5. HoldsTyped(x, u) /\ HoldsTyped(y, u)
        BY <3>1, <3>2, <3>3 DEF CellsTyped, Points, Cells
      <3>6. SameOf(x[1], y[1], e, d)
        <4>1. 1 \in 1 .. Len(x) /\ 1 \in 1 .. Len(y)
          BY <3>4
        <4>2. Valid(x[1]) /\ Valid(y[1]) /\ Typed(x[1], u) /\ Typed(y[1], u)
          BY <3>4, <3>5, <4>1 DEF HoldsValid, HoldsTyped
        <4> QED
          BY <1>5, <2>4, <4>2 DEF Boxes
      <3>7. Compared(v, w, e) = e[<<x[1], y[1]>>]
        BY <3>1, <3>2 DEF Compared
      <3> DEFINE dx == [i \in 1 .. 1 |-> d[x[i]]]
                 dy == [i \in 1 .. 1 |-> d[y[i]]]
      <3>8. Denoted(v, d) = dx /\ Denoted(w, d) = dy
        <4>1. DOMAIN x = 1 .. 1 /\ DOMAIN y = 1 .. 1
          BY <3>4
        <4> QED
          BY <3>1, <3>2, <4>1 DEF Denoted
      <3>9. dx = dy <=> d[x[1]] = d[y[1]]
        <4>1. \A i \in 1 .. 1 : i = 1
          OBVIOUS
        <4>2. dx[1] = d[x[1]] /\ dy[1] = d[y[1]]
          OBVIOUS
        <4>3. d[x[1]] = d[y[1]] => dx = dy
          BY <4>1
        <4> QED
          BY <4>2, <4>3
      <3> HIDE DEF dx, dy
      <3> QED
        BY <3>6, <3>7, <3>8, <3>9 DEF SameOf, Bit
    <2> QED
      BY <1>3, <1>4, <2>1, <2>2, <2>3, <2>4 DEF Kinds
  <1>7. v \in Words /\ w \in Words
    BY DEF Valid
  <1>8. /\ Equality[n + 1][<<v, w>>] = Compared(v, w, e)
        /\ Denotations[n + 1][v] = Denoted(v, d) /\ Denotations[n + 1][w] = Denoted(w, d)
    BY <1>1, <1>7, NextLevel
  <1> QED
    BY <1>6, <1>8 DEF SameOf

LEMMA AllAlike ==
  ASSUME ~strayed, Kept, CellsTyped
  PROVE  Alike(TypeDepth)
  <1> DEFINE T == {n \in Nat : n <= TypeDepth => Alike(n)}
  <1>1. 0 \in T
    <2>1. \A t : Path(t) => ~(Len(t) <= 0)
      BY DEF Path
    <2> QED
      BY <2>1 DEF Alike
  <1>2. ASSUME NEW n \in T PROVE n + 1 \in T
    <2>1. n \in Nat /\ (n <= TypeDepth => Alike(n))
      BY Zenon
    <2>2. n + 1 <= TypeDepth => n <= TypeDepth
      BY <2>1, MachineAssumption
    <2>3. n + 1 <= TypeDepth => Alike(n + 1)
      BY <2>1, <2>2, AlikeNext
    <2> QED
      BY <2>1, <2>3
  <1>3. T \in SUBSET Nat
    OBVIOUS
  <1>4. T = Nat
    <2> HIDE DEF T
    <2> QED
      BY <1>1, <1>2, <1>3, SetInduction
  <1> QED
    BY <1>4, MachineAssumption

LEMMA EqualityAlike ==
  ASSUME ~strayed, Kept, CellsTyped, NEW t, Path(t), t # fn,
         NEW v, NEW w, Valid(v), Valid(w), Typed(v, t), Typed(w, t)
  PROVE  value_eq(v, w) = Bit(Denotation(v) = Denotation(w))
  <1>1. Len(t) <= TypeDepth
    BY MachineAssumption DEF Path
  <1> QED
    BY <1>1, AllAlike DEF Alike, SameOf, value_eq, Denotation
-----------------------------------------------------------------------------
(* What a native throws, gives or makes has the type r.                    *)
TypedOut(out, r) ==
  /\ out.does = "throw" => out.reason # "type"
  /\ out.does = "return" => Typed(out.word, r)
  /\ out.does = "make" =>
       /\ out.type = "TYPE_STRING" => Head(r) = "string"
       /\ out.type = "TYPE_LIST" => Head(r) = "list" /\ HoldsTyped(out.cells, Tail(r))

LEMMA OutsTyped ==
  ASSUME NEW r
  PROVE  /\ \A reason : reason # "type" => TypedOut(Throws(reason), r)
         /\ \A w : Typed(w, r) => TypedOut(Returns(w), r)
  BY DEF TypedOut, Throws, Returns

LEMMA LeafTyped ==
  ASSUME Kept, NEW w, Valid(w)
  PROVE  /\ w.signature = "INTEGER" /\ w.payload \in 0 .. INT - 1 => Typed(w, int)
         /\ w.signature = "FLOAT" => Typed(w, float)
         /\ Points(w, "TYPE_STRING") => Typed(w, string)
  <1>1. /\ Head(int) = "int" /\ Head(float) = "float" /\ Head(string) = "string"
    BY DEF int, float, string
  <1>2. /\ w.signature = "INTEGER" => HasType(w, int)
        /\ w.signature = "FLOAT" => HasType(w, float)
        /\ Points(w, "TYPE_STRING") => HasType(w, string)
    BY <1>1, TypeIsOf DEF HasType, ObjectTypes
  <1> QED
    BY <1>1, <1>2 DEF Typed

LEMMA IntegerTyped ==
  ASSUME Kept, NEW n \in Int
  PROVE  Typed(MAKE_INTEGER(n), int)
  <1>1. PICK w : w = MAKE_INTEGER(n)
    OBVIOUS
  <1>2. Valid(w) /\ w.signature = "INTEGER" /\ w.payload \in 0 .. INT - 1
    BY <1>1, IntegerWords, UnsignedFacts
  <1> QED
    BY <1>1, <1>2, LeafTyped

LEMMA BitTyped ==
  ASSUME Kept, NEW p
  PROVE  Typed(BOOL(p), int)
  <1>1. \E n \in {0, 1} : BOOL(p) = MAKE_INTEGER(n)
    BY DEF BOOL
  <1> QED
    BY <1>1, IntegerTyped

(* Strings and lists are joined with strings and lists of the same type.   *)
LEMMA JoinedTyped ==
  ASSUME ~strayed, Kept, CellsTyped, NEW t, Path(t), Head(t) \in {"string", "list"},
         NEW a, NEW b, Valid(a), Valid(b), Typed(a, t), Typed(b, t)
  PROVE  TypedOut(Joined(a, b), t)
  <1>1. PICK x, y, u : x = Cells(a) /\ y = Cells(b) /\ u = Tail(t)
    OBVIOUS
  <1>2. PICK n : n = Unsigned(Length(a) + Length(b))
    OBVIOUS
  <1>3. Joined(a, b) = Makes(GetType(a), 0, x \o y, n)
    <2>1. PICK ty : ty = GetType(a)
      OBVIOUS
    <2>2. ty = GetType(b) /\ ty \in {"TYPE_STRING", "TYPE_LIST"}
      BY <2>1, TypesOfWords DEF Typed, Kinds
    <2>3. Points(a, ty) /\ Points(b, ty)
      BY <2>1, <2>2, TypeFacts DEF ObjectTypes, Kept
    <2> QED
      BY <1>1, <1>2, <2>1, <2>2, <2>3, JoinedFacts DEF Kept
  <1>4. CASE Head(t) = "string"
    <2>1. GetType(a) = "TYPE_STRING"
      BY <1>4, TypesOfWords DEF Typed, Kinds
    <2> QED
      BY <1>3, <1>4, <2>1 DEF TypedOut, Makes
  <1>5. CASE Head(t) = "list"
    <2>1. /\ GetType(a) = "TYPE_LIST" /\ x \in Seq(Words \cup STRING) /\ HoldsTyped(x, u)
          /\ y \in Seq(Words \cup STRING) /\ HoldsTyped(y, u)
      BY <1>1, <1>5, ElementTyped
    <2>2. PICK k \in Nat, l \in Nat : k = Len(x) /\ l = Len(y)
      BY <2>1, LenProperties
    <2>3. PICK z : z = x \o y
      OBVIOUS
    <2>4. Len(z) = k + l /\ \A i \in 1 .. k + l : z[i] = IF i <= k THEN x[i] ELSE y[i - k]
      BY <2>1, <2>2, <2>3, ConcatProperties
    <2>5. HoldsTyped(z, u)
      <3>1. \A i \in 1 .. k + l : i \in 1 .. k \/ (~(i <= k) /\ i - k \in 1 .. l)
        OBVIOUS
      <3>2. \A i \in 1 .. k : i <= k
        OBVIOUS
      <3>3. \A i \in 1 .. k + l : Typed(z[i], u)
        BY <2>1, <2>2, <2>4, <3>1, <3>2 DEF HoldsTyped
      <3> QED
        BY <2>4, <3>3 DEF HoldsTyped
    <2> QED
      BY <1>1, <1>3, <1>5, <2>1, <2>3, <2>5 DEF TypedOut, Makes
  <1> QED
    BY <1>4, <1>5

LEMMA OperationTyped ==
  ASSUME ~strayed, Kept, CellsTyped, NEW f \in Binary, NEW t, Path(t),
         NEW a, NEW b, Valid(a), Valid(b), Typed(a, t), Typed(b, t),
         \/ f \in Arithmetic /\ GetType(a) = "TYPE_FLOAT" =>
              OnFloats(f, GET_FLOAT(a), GET_FLOAT(b)).signature = "FLOAT"
         \/ Operation(f, a, b).does = "throw",
         NEW r, r = IF f \in Arithmetic THEN t ELSE int
  PROVE  TypedOut(Operation(f, a, b), r)
  <1>1. Head(t) \in Kinds /\ (Head(t) \notin Boxes => t = <<Head(t)>>)
    BY PathFacts
  <1>2. /\ Head(t) = "int"    => t = int /\ GetType(a) = "TYPE_INTEGER" /\ GetType(b) = "TYPE_INTEGER"
        /\ Head(t) = "float"  => t = float /\ GetType(a) = "TYPE_FLOAT" /\ GetType(b) = "TYPE_FLOAT"
        /\ Head(t) = "string" => GetType(a) = "TYPE_STRING" /\ GetType(b) = "TYPE_STRING"
        /\ Head(t) = "list"   => GetType(a) = "TYPE_LIST" /\ GetType(b) = "TYPE_LIST"
        /\ Head(t) = "fn"     => GetType(a) = "TYPE_FUNCTION" /\ GetType(b) = "TYPE_FUNCTION"
        /\ Head(t) = "mutable" => GetType(a) = "TYPE_MUTABLE" /\ GetType(b) = "TYPE_MUTABLE"
    BY <1>1, TypesOfWords DEF Typed, Boxes, int, float
  <1>3. GetType(a) = GetType(b)
    BY <1>1, <1>2 DEF Kinds
  <1>4. PICK ty : ty = GetType(b)
    OBVIOUS
  <1>5. CASE ty \notin Supported(f)
    <2>1. Operation(f, a, b) = Throws("Unsupported type")
      BY <1>3, <1>4, <1>5 DEF Operation
    <2> QED
      BY <2>1, OutsTyped
  <1>6. CASE ty \in Supported(f) /\ Head(t) = "int"
    <2>1. PICK x, y : x = GET_INT(a) /\ y = GET_INT(b)
      OBVIOUS
    <2>2. x \in 0 .. INT - 1 /\ y \in 0 .. INT - 1 /\ x \in Int /\ y \in Int
      <3>1. a.payload \in Int /\ b.payload \in Int
        BY TypeFacts DEF Kept
      <3>2. x \in 0 .. INT - 1 /\ y \in 0 .. INT - 1
        BY <2>1, <3>1, UnsignedFacts DEF GET_INT
      <3> QED
        BY <3>2, Widths
    <2>3. Operation(f, a, b) = IF f = "div_value" /\ y = 0 THEN Throws("SIGFPE")
                               ELSE Returns(OnIntegers(f, x, y))
      BY <1>2, <1>3, <1>4, <1>6, <2>1 DEF Operation
    <2>4. CASE f = "div_value" /\ y = 0
      <3>1. Operation(f, a, b) = Throws("SIGFPE")
        BY <2>3, <2>4
      <3> QED
        BY <3>1, OutsTyped
    <2>5. CASE ~(f = "div_value" /\ y = 0)
      <3>1. f = "div_value" => y > 0
        BY <2>2, <2>5
      <3>2. \E n \in Int : OnIntegers(f, x, y) = MAKE_INTEGER(n)
        BY <2>2, <3>1, OnIntegersFacts
      <3>3. Typed(OnIntegers(f, x, y), int) /\ r = int
        BY <1>2, <1>6, <3>2, IntegerTyped
      <3>4. Operation(f, a, b) = Returns(OnIntegers(f, x, y))
        BY <2>3, <2>5
      <3> QED
        BY <3>3, <3>4, OutsTyped
    <2> QED
      BY <2>4, <2>5
  <1>7. CASE ty \in Supported(f) /\ Head(t) = "float"
    <2>1. PICK x, y : x = GET_FLOAT(a) /\ y = GET_FLOAT(b)
      OBVIOUS
    <2>2. x \in Int /\ y \in Int /\ Len(heap) \in Nat
      BY <2>1, TypeFacts, KeptFacts DEF GET_FLOAT, Kept
    <2>3. f \in Binary \ Logic
      BY <1>2, <1>4, <1>7 DEF Supported, Binary
    <2>4. PICK w : w = OnFloats(f, x, y)
      OBVIOUS
    <2>5. Operation(f, a, b) = Returns(w)
      BY <1>2, <1>3, <1>4, <1>7, <2>1, <2>4 DEF Operation
    <2>6. CASE f \in Arithmetic
      <3>1. Operation(f, a, b).does # "throw"
        BY <2>5 DEF Returns
      <3>2. Valid(w)
        BY <2>2, <2>3, <2>4, OnFloatsFacts
      <3>3. w.signature = "FLOAT"
        BY <1>2, <1>7, <2>1, <2>4, <2>6, <3>1
      <3> QED
        BY <1>2, <1>7, <2>5, <2>6, <3>2, <3>3, LeafTyped, OutsTyped
    <2>7. CASE f \notin Arithmetic
      <3>1. PICK p : w = BOOL(p)
        <4>1. f \in Order \/ f = "eq_value"
          BY <2>3, <2>7 DEF Binary
        <4>2. w = BOOL(Holds(f, x, y)) \/ w = BOOL(x = y)
          BY <2>4, <4>1 DEF OnFloats, Order, Arithmetic
        <4> QED
          BY <4>2
      <3> QED
        BY <2>5, <2>7, <3>1, BitTyped, OutsTyped
    <2> QED
      BY <2>6, <2>7
  <1>8. CASE ty \in Supported(f) /\ Head(t) \in {"string", "list"}
    <2>1. ty \in {"TYPE_STRING", "TYPE_LIST"} /\ f \in {"add_value", "eq_value"}
      BY <1>2, <1>4, <1>8 DEF Supported
    <2>2. Operation(f, a, b) = IF f = "add_value" THEN Joined(a, b)
                               ELSE IF value_eq(a, b) = THROWN THEN Throws("type")
                               ELSE Returns(MAKE_INTEGER(value_eq(a, b)))
      BY <1>3, <1>4, <1>8, <2>1 DEF Operation
    <2>3. CASE f = "add_value"
      <3>1. r = t /\ Operation(f, a, b) = Joined(a, b)
        BY <2>2, <2>3 DEF Arithmetic
      <3> QED
        BY <1>8, <3>1, JoinedTyped
    <2>4. CASE f = "eq_value"
      <3>1. t # fn
        BY <1>8 DEF fn
      <3>2. value_eq(a, b) \in {0, 1}
        BY <3>1, EqualityAlike DEF Bit
      <3>3. r = int /\ Operation(f, a, b) = Returns(MAKE_INTEGER(value_eq(a, b)))
        BY <2>2, <2>4, <3>2 DEF Arithmetic, THROWN
      <3>4. Typed(MAKE_INTEGER(value_eq(a, b)), int)
        BY <3>2, IntegerTyped
      <3> QED
        BY <3>3, <3>4, OutsTyped
    <2> QED
      BY <2>1, <2>3, <2>4
  <1>9. CASE ty \in Supported(f) /\ Head(t) \in {"fn", "mutable"}
    BY <1>2, <1>4, <1>9 DEF Supported
  <1> QED
    BY <1>1, <1>5, <1>6, <1>7, <1>8, <1>9 DEF Kinds

LEMMA SliceTyped ==
  ASSUME ~strayed, Kept, CellsTyped, NEW t, Path(t), Head(t) = "list",
         NEW xs, NEW from, NEW to, Valid(xs), Valid(from), Valid(to),
         Typed(xs, t), Typed(from, int), Typed(to, int),
         GET_INT(from) <= GET_INT(to) \/ slice(xs, from, to).does = "throw"
  PROVE  TypedOut(slice(xs, from, to), t)
  <1>1. PICK start, end : start = GET_INT(from) /\ end = GET_INT(to)
    OBVIOUS
  <1>2. start \in Nat /\ end \in Nat
    <2>1. from.payload \in Int /\ to.payload \in Int
      BY TypeFacts DEF Kept
    <2>2. start \in 0 .. INT - 1 /\ end \in 0 .. INT - 1
      BY <1>1, <2>1, UnsignedFacts DEF GET_INT
    <2> QED
      BY <1>1, <2>2, Widths
  <1>3. GetType(from) = "TYPE_INTEGER" /\ GetType(to) = "TYPE_INTEGER" /\ GetType(xs) = "TYPE_LIST"
    BY TypesOfWords DEF Typed, int, Kinds
  <1>4. CASE ~WithinList(start, end, Length(xs))
    <2>1. slice(xs, from, to) = Throws("Index out of bounds")
      BY <1>1, <1>3, <1>4 DEF slice
    <2> QED
      BY <2>1, OutsTyped
  <1>5. CASE WithinList(start, end, Length(xs))
    <2>1. PICK cells, n : /\ cells = [i \in 1 .. end - start |-> Element(xs, start + i - 1)]
                          /\ n = SliceLength(start, end)
      OBVIOUS
    <2>2. slice(xs, from, to) = Makes("TYPE_LIST", 0, cells, n)
      BY <1>1, <1>3, <1>5, <2>1 DEF slice
    <2>3. Length(xs) \in Int /\ end <= Length(xs)
      BY <1>3, <1>5, TypeFacts, CellsFacts DEF WithinList, ObjectTypes, Kept
    <2>4. PICK m \in Nat : m = end - start
      <3>1. slice(xs, from, to).does # "throw"
        BY <2>2 DEF Makes
      <3>2. start <= end
        BY <1>1, <3>1
      <3> QED
        BY <1>2, <3>2
    <2>5. \A i \in 1 .. m : start + i - 1 \in Nat /\ ~(start + i - 1 >= Length(xs))
      BY <1>2, <2>3, <2>4
    <2>6. \A i \in 1 .. m : /\ Typed(Element(xs, start + i - 1), Tail(t))
                            /\ Valid(Element(xs, start + i - 1))
      BY <2>5, ElementTyped
    <2>7. cells \in [1 .. m -> Words] /\ \A i \in 1 .. m : Typed(cells[i], Tail(t))
      BY <2>1, <2>4, <2>6 DEF Valid
    <2>8. Len(cells) = m
      BY <2>7, FunctionIsSeq
    <2> QED
      BY <2>2, <2>7, <2>8 DEF TypedOut, Makes, HoldsTyped
  <1> QED
    BY <1>4, <1>5

(* The result types of a native whose arguments have the types ts.         *)
LEMMA ResultTypesAre ==
  ASSUME NEW f \in Natives, NEW ts, NEW r \in ResultTypes(f, ts),
         f \in Logic => DOMAIN ts = 1 .. 2, f = "not_value" => DOMAIN ts = 1 .. 1
  PROVE  /\ f \in Binary => ts[1] = ts[2] /\ r = IF f \in Arithmetic THEN ts[1] ELSE int
         /\ f = "not_value" => ts[1] = int /\ r = int
         /\ f = "mutable_value" => Head(ts[1]) = "mutable" /\ r = Tail(ts[1])
         /\ f = "slice" => Head(ts[1]) = "list" /\ ts[2] = int /\ ts[3] = int /\ r = ts[1]
         /\ f = "length" => Head(ts[1]) = "list" /\ r = int
         /\ f = "get_args" => r = list(string)
  <1>1. CASE f \in Arithmetic
    <2>1. r \in IF ts[1] = ts[2] THEN {ts[1]} ELSE {}
      BY <1>1 DEF ResultTypes, Arithmetic, Order, Logic
    <2>2. ts[1] = ts[2] /\ r = ts[1]
      BY <2>1
    <2> QED
      BY <1>1, <2>2 DEF Arithmetic
  <1>2. CASE f \in Order \cup {"eq_value"}
    <2>1. r \in IF ts[1] = ts[2] THEN {int} ELSE {}
      BY <1>2 DEF ResultTypes, Arithmetic, Order, Logic
    <2>2. ts[1] = ts[2] /\ r = int
      BY <2>1
    <2> QED
      BY <1>2, <2>2 DEF Arithmetic, Order
  <1>3. CASE f \in Logic \cup {"not_value"}
    <2>1. Range(ts) = {int} /\ r = int
      BY <1>3 DEF ResultTypes, Arithmetic, Order, Logic
    <2>2. \A i \in DOMAIN ts : ts[i] = int
      BY <2>1 DEF Range
    <2>3. f \in Logic => ts[1] = int /\ ts[2] = int
      BY <2>2
    <2>4. f = "not_value" => ts[1] = int
      BY <2>2
    <2> QED
      BY <1>3, <2>1, <2>3, <2>4 DEF Binary, Arithmetic, Order, Logic
  <1>4. CASE f \in {"mutable_value", "slice", "length", "get_args"}
    BY <1>4 DEF ResultTypes, Arithmetic, Order, Logic, Binary
  <1> QED
    BY <1>1, <1>2, <1>3, <1>4 DEF Natives

LEMMA OutcomeTyped ==
  ASSUME ~strayed, Kept, CellsTyped, stage = "running",
         NEW f \in Natives, NEW xs \in Seq(Words), Len(xs) = Arity(f), HoldsValid(xs),
         NEW ts \in Seq(Seq(Kinds)), Len(ts) = Arity(f),
         \A i \in 1 .. Arity(f) : Path(ts[i]) /\ Typed(xs[i], ts[i]),
         NEW r \in ResultTypes(f, ts), ~Strays(f, xs) \/ Outcome(f, xs).does = "throw"
  PROVE  Path(r) /\ TypedOut(Outcome(f, xs), r)
  <1>1. Path(int) /\ Head(int) = "int"
    BY LeafPath DEF int, Kinds, Boxes
  <1>2. DOMAIN ts = 1 .. Len(ts)
    BY LenProperties
  <1>3. /\ f \in Binary => ts[1] = ts[2] /\ r = IF f \in Arithmetic THEN ts[1] ELSE int
        /\ f = "not_value" => ts[1] = int /\ r = int
        /\ f = "mutable_value" => Head(ts[1]) = "mutable" /\ r = Tail(ts[1])
        /\ f = "slice" => Head(ts[1]) = "list" /\ ts[2] = int /\ ts[3] = int /\ r = ts[1]
        /\ f = "length" => Head(ts[1]) = "list" /\ r = int
        /\ f = "get_args" => r = list(string)
    <2>1. /\ f \in Logic => DOMAIN ts = 1 .. 2
          /\ f = "not_value" => DOMAIN ts = 1 .. 1
      BY <1>2, ArityFacts DEF Binary
    <2> QED
      BY <2>1, ResultTypesAre
  <1>4. CASE f \in Binary
    <2>1. Outcome(f, xs) = Operation(f, xs[1], xs[2])
      BY <1>4, ArityFacts DEF Outcome
    <2>2. PICK a, b, t : a = xs[1] /\ b = xs[2] /\ t = ts[1]
      OBVIOUS
    <2>3. ts[2] = t /\ r = IF f \in Arithmetic THEN t ELSE int
      BY <1>3, <1>4, <2>2
    <2>4. 1 \in 1 .. Arity(f) /\ 2 \in 1 .. Arity(f)
      BY <1>4, ArityFacts
    <2>5. Path(t) /\ Typed(a, t) /\ Typed(b, t) /\ Valid(a) /\ Valid(b)
      BY <2>2, <2>3, <2>4 DEF HoldsValid
    <2>6. \/ f \in Arithmetic /\ GetType(a) = "TYPE_FLOAT" =>
               OnFloats(f, GET_FLOAT(a), GET_FLOAT(b)).signature = "FLOAT"
          \/ Operation(f, a, b).does = "throw"
      BY <2>1, <2>2 DEF Strays
    <2>7. TypedOut(Operation(f, a, b), r)
      BY <1>4, <2>3, <2>5, <2>6, OperationTyped
    <2> QED
      BY <1>1, <2>1, <2>2, <2>3, <2>5, <2>7
  <1>5. CASE f = "slice"
    <2>1. Outcome(f, xs) = slice(xs[1], xs[2], xs[3])
      BY <1>5 DEF Outcome
    <2>2. 1 \in 1 .. Arity(f) /\ 2 \in 1 .. Arity(f) /\ 3 \in 1 .. Arity(f)
      BY <1>5, ArityFacts
    <2>3. Head(ts[1]) = "list" /\ ts[2] = int /\ ts[3] = int /\ r = ts[1]
      BY <1>3, <1>5
    <2>4. GET_INT(xs[2]) <= GET_INT(xs[3]) \/ slice(xs[1], xs[2], xs[3]).does = "throw"
      <3>1. xs[2].payload \in Int /\ xs[3].payload \in Int
        BY <2>2, TypeFacts DEF HoldsValid, Kept
      <3>2. GET_INT(xs[2]) \in 0 .. INT - 1 /\ GET_INT(xs[3]) \in 0 .. INT - 1
        BY <3>1, UnsignedFacts DEF GET_INT
      <3>3. GET_INT(xs[2]) \in Int /\ GET_INT(xs[3]) \in Int
        BY <3>2, Widths
      <3> QED
        BY <1>5, <2>1, <3>3 DEF Strays
    <2>5. /\ Valid(xs[1]) /\ Valid(xs[2]) /\ Valid(xs[3]) /\ Path(r)
          /\ Typed(xs[1], r) /\ Typed(xs[2], int) /\ Typed(xs[3], int)
      BY <2>2, <2>3 DEF HoldsValid
    <2>6. TypedOut(slice(xs[1], xs[2], xs[3]), r)
      BY <2>3, <2>4, <2>5, SliceTyped
    <2> QED
      BY <2>1, <2>5, <2>6
  <1>6. CASE f = "get_args"
    <2>1. r = list(string)
      BY <1>3, <1>6
    <2>2. string \in Seq(Kinds) /\ "list" \in Kinds
      BY DEF string, Kinds
    <2>3. Head(r) = "list" /\ Tail(r) = string
      BY <2>1, <2>2, BoxFacts DEF list
    <2>4. Path(r)
      <3>1. PICK u : u = string
        OBVIOUS
      <3>2. PICK b \in Seq(Kinds) : b = <<"list">>
        <4>1. <<"list">> \in Seq(Kinds)
          BY <2>2
        <4> QED
          BY <4>1
      <3>3. /\ Len(b) = 1 /\ b[1] = "list" /\ u \in Seq(Kinds) /\ Len(u) = 1 /\ u[1] = "string"
        BY <2>2, <3>1, <3>2 DEF string
      <3>4. /\ r \in Seq(Kinds) /\ Len(r) = 2
            /\ \A i \in 1 .. 2 : r[i] = IF i <= 1 THEN b[i] ELSE u[i - 1]
        <4>1. r = b \o u
          BY <2>1, <3>1, <3>2 DEF list
        <4>2. PICK v : v = b \o u
          OBVIOUS
        <4>3. /\ v \in Seq(Kinds) /\ Len(v) = Len(b) + Len(u)
              /\ \A i \in 1 .. Len(b) + Len(u) : v[i] = IF i <= Len(b) THEN b[i] ELSE u[i - Len(b)]
          BY <3>3, <4>2, ConcatProperties
        <4>4. Len(b) + Len(u) = 2
          BY <3>3
        <4> QED
          BY <3>3, <4>1, <4>2, <4>3, <4>4
      <3>5. r[1] = "list" /\ r[2] = "string"
        BY <3>3, <3>4
      <3>6. Len(r) \in 1 .. TypeDepth
        BY <3>4, MachineAssumption
      <3>7. \A i \in 1 .. Len(r) : i = 1 \/ i = 2
        BY <3>4
      <3>8. \A i \in 1 .. Len(r) : r[i] \in Boxes <=> i < Len(r)
        BY <3>4, <3>5, <3>7 DEF Boxes
      <3> QED
        BY <3>4, <3>5, <3>6, <3>8 DEF Path
    <2>5. PICK cells : cells = memory[args]
      OBVIOUS
    <2>6. args # 0 /\ Len(cells) = Len(argv) /\ \A i \in 1 .. Len(argv) : Points(cells[i], "TYPE_STRING")
      BY <2>5 DEF Kept, ArgumentsPassed
    <2>7. HoldsValid(cells)
      BY <2>5, <2>6 DEF Kept, CellsValid
    <2>8. HoldsTyped(cells, string)
      BY <2>6, <2>7, LeafTyped DEF HoldsValid, HoldsTyped
    <2>9. Outcome(f, xs) = Makes("TYPE_LIST", 0, cells, Len(argv))
      BY <1>6, <2>5 DEF Outcome, get_args
    <2>10. PICK u : u = string
      OBVIOUS
    <2>11. PICK out : out = Outcome(f, xs)
      OBVIOUS
    <2>12. out.does = "make" /\ out.type = "TYPE_LIST" /\ out.cells = cells
      BY <2>9, <2>11 DEF Makes
    <2>13. HoldsTyped(cells, u) /\ Tail(r) = u
      BY <2>3, <2>8, <2>10
    <2>14. TypedOut(out, r)
      BY <2>3, <2>12, <2>13 DEF TypedOut
    <2> QED
      BY <2>4, <2>11, <2>14
  <1>7. ASSUME f \in {"length", "mutable_value", "not_value"}
        PROVE  1 \in 1 .. Arity(f) /\ Path(ts[1]) /\ Typed(xs[1], ts[1]) /\ Valid(xs[1])
    <2>1. 1 \in 1 .. Arity(f)
      BY <1>7, ArityFacts
    <2> QED
      BY <2>1 DEF HoldsValid
  <1>8. CASE f = "length"
    <2>1. Head(ts[1]) = "list" /\ r = int
      BY <1>3, <1>8
    <2>2. PICK w, t : w = xs[1] /\ t = ts[1]
      OBVIOUS
    <2>3. GetType(w) = "TYPE_LIST" /\ Valid(w)
      BY <1>7, <1>8, <2>1, <2>2, ElementTyped
    <2>4. Length(w) \in Int
      BY <2>3, TypeFacts, CellsFacts DEF ObjectTypes, Kept
    <2>5. Outcome(f, xs) = Returns(MAKE_INTEGER(Length(w)))
      BY <1>8, <2>2, <2>3 DEF Outcome, length
    <2> QED
      BY <1>1, <2>1, <2>4, <2>5, IntegerTyped, OutsTyped
  <1>9. CASE f = "mutable_value"
    <2>1. PICK w, t : w = xs[1] /\ t = ts[1]
      OBVIOUS
    <2>2. Head(t) = "mutable" /\ r = Tail(t) /\ Path(t) /\ Typed(w, t) /\ Valid(w)
      BY <1>3, <1>7, <1>9, <2>1
    <2>3. Path(r)
      BY <2>2, PathFacts DEF Boxes
    <2>4. GetType(w) = "TYPE_MUTABLE" /\ contents[GET_PTR(w)] = r
      BY <2>2, TypesOfWords DEF Typed, Kinds
    <2>5. Points(w, "TYPE_MUTABLE")
      BY <2>2, <2>4, TypeFacts DEF ObjectTypes, Kept
    <2>6. PICK cells : cells = Cells(w)
      OBVIOUS
    <2>7. Len(cells) = 1 /\ HoldsTyped(cells, r)
      <3>1. Len(cells) = 1
        BY <2>5, <2>6, CellsFacts DEF ObjectTypes, Kept
      <3>2. HoldsTyped(cells, r)
        BY <2>4, <2>5, <2>6 DEF Points, CellsTyped, Cells
      <3> QED
        BY <3>1, <3>2
    <2>8. Typed(cells[1], r)
      BY <2>7 DEF HoldsTyped
    <2>9. Outcome(f, xs) = Returns(cells[1])
      BY <1>9, <2>1, <2>4, <2>6 DEF Outcome, ValueOf
    <2> QED
      BY <2>3, <2>8, <2>9, OutsTyped
  <1>10. CASE f = "not_value"
    <2>1. r = int
      BY <1>3, <1>10
    <2>2. PICK p : Outcome(f, xs) = Throws("Unsupported type") \/ Outcome(f, xs) = Returns(BOOL(p))
      BY <1>10 DEF Outcome, Negation
    <2> QED
      BY <1>1, <2>1, <2>2, BitTyped, OutsTyped
  <1> QED
    BY <1>4, <1>5, <1>6, <1>8, <1>9, <1>10, ArityFacts

LEMMA TypedNativeStep ==
  ASSUME ~strayed, ~strayed', Kept, Well, NEW i \in DOMAIN constants, NativeCall(i)
  PROVE  Well'
  <1>1. PICK f : f = Cells(constants[i])[1]
    OBVIOUS
  <1>2. PICK out : out = Outcome(f, Operands(Arity(f)))
    OBVIOUS
  <1>3. stage = "running" /\ Executes /\ OnlyLoader
    BY DEF NativeCall, Executes
  <1>4. CASE FindFunction(f) = 0
    <2>1. Throw("Function not found")
      BY <1>1, <1>4 DEF NativeCall
    <2> QED
      BY <2>1, <1>3, TypedThrow
  <1>5. CASE FindFunction(f) # 0
    <2>1. PICK n : n = Arity(f)
      OBVIOUS
    <2>2. PICK xs, ts : xs = Operands(n) /\ ts = OperandTypes(n)
      OBVIOUS
    <2>3. f \in Natives /\ n \in 0 .. Len(stack)
      BY <1>1, <1>5, <2>1, CalledNative
    <2>4. PICK r \in ResultTypes(f, ts) :
            \/ out.does = "throw" /\ Throw(out.reason)
            \/ out.does = "return" /\ Returned(f, n, out.word, r) /\ SameHeap
            \/ /\ out.does = "make"
               /\ MakeIn(out, Tail(r))
               /\ Returned(f, n, MAKE_PTR(NewAddress), r)
      BY <1>1, <1>2, <1>5, <2>1, <2>2 DEF NativeCall, Arguments, OperandTypes
    <2>5. xs \in Seq(Words) /\ Len(xs) = Arity(f) /\ HoldsValid(xs)
      BY <2>1, <2>2, <2>3, StackPops
    <2>6. /\ ts \in Seq(Seq(Kinds)) /\ Len(ts) = Arity(f)
          /\ \A k \in 1 .. Arity(f) : Path(ts[k]) /\ Typed(xs[k], ts[k])
      BY <2>1, <2>2, <2>3, TypesPop DEF Well
    <2>7. out = Outcome(f, xs)
      BY <1>2, <2>1, <2>2
    <2>8. ~Strays(f, xs) \/ out.does = "throw"
      BY <2>2, <2>4 DEF Returned
    <2>9. Path(r) /\ TypedOut(out, r)
      BY <1>3, <2>3, <2>5, <2>6, <2>7, <2>8, OutcomeTyped DEF Well
    <2>10. Sound(out) /\ (~Strays(f, xs) => Measured(out))
      <3>1. args # 0 /\ Len(memory[args]) = Len(argv) /\ argv \in Seq(STRING)
        BY <1>3, KeptFacts DEF Kept, ArgumentsPassed
      <3> QED
        BY <2>3, <2>5, <2>7, <3>1, OutcomeFacts DEF Kept
    <2>11. CASE out.does = "throw" /\ Throw(out.reason)
      <3>1. PICK reason : reason = out.reason
        OBVIOUS
      <3>2. Throw(reason) /\ reason # "type"
        BY <2>9, <2>11, <3>1 DEF TypedOut
      <3> QED
        BY <1>3, <3>2, TypedThrow
    <2>12. CASE out.does = "return" /\ Returned(f, n, out.word, r) /\ SameHeap
      <3>1. PICK w : w = out.word
        OBVIOUS
      <3>2. Valid(w) /\ Typed(w, r)
        BY <2>9, <2>10, <2>12, <3>1 DEF Sound, TypedOut
      <3>3. Replace(n, w, r) /\ UNCHANGED <<error, functions>>
        BY <2>12, <3>1 DEF Returned
      <3>4. StackTyped' /\ CellsTyped'
        BY <1>3, <2>3, <2>9, <2>12, <3>2, <3>3, TypedWordPushed DEF Well
      <3> QED
        BY <1>3, <3>3, <3>4, StatedStays DEF Well, Stated
    <2>13. CASE out.does = "make" /\ MakeIn(out, Tail(r)) /\ Returned(f, n, MAKE_PTR(NewAddress), r)
      <3>1. Made(out)
        BY <2>10, <2>13 DEF Sound
      <3>2. PICK type, cells, size, t : /\ type = out.type /\ cells = out.cells
                                        /\ size = out.length /\ t = Tail(r)
        OBVIOUS
      <3>3. MakeObject(type, cells, size, t)
        BY <2>13, <3>1, <3>2 DEF MakeIn, Made
      <3>4. /\ type \in {"TYPE_STRING", "TYPE_LIST"} /\ size \in Int
            /\ cells \in Seq(Words \cup STRING) /\ (type = "TYPE_LIST" => HoldsValid(cells))
        BY <3>1, <3>2 DEF Made
      <3>5. size = Len(cells)
        BY <2>8, <2>10, <2>13, <3>2, <3>3 DEF Measured, MakeObject
      <3>6. /\ type = "TYPE_STRING" => Head(r) = "string"
            /\ type = "TYPE_LIST" => Head(r) = "list" /\ HoldsTyped(cells, t)
        BY <2>9, <2>13, <3>2 DEF TypedOut
      <3>7. /\ type \in ObjectTypes /\ type # "TYPE_MUTABLE"
            /\ type # "TYPE_STRING" => HoldsValid(cells) /\ HoldsTyped(cells, t)
        BY <3>4, <3>6 DEF ObjectTypes
      <3>8. Replace(n, MAKE_PTR(NewAddress), r) /\ UNCHANGED <<error, functions>>
        BY <2>13 DEF Returned
      <3>9. StackTyped' /\ CellsTyped'
        BY <1>3, <2>3, <2>9, <3>2, <3>3, <3>4, <3>5, <3>6, <3>7, <3>8, TypedObjectPushed DEF Well
      <3> QED
        BY <1>3, <3>8, <3>9, StatedStays DEF Well, Stated
    <2> QED
      BY <2>4, <2>11, <2>12, <2>13
  <1> QED
    BY <1>4, <1>5

(* While the file is read there are strings, and nothing else.             *)
OnlyStrings == \A a \in 1 .. Len(heap) : heap[a].type = "TYPE_STRING"

NotStarted ==
  /\ stack = <<>> /\ types = <<>> /\ contents = <<>> /\ functions = {}
  /\ error = "" /\ steps = 0 /\ strayed = FALSE
  /\ OnlyStrings

NothingMade == stage \notin {"running", "thrown", "over"} => NotStarted

(* What holds of programs that left the types behind as well.              *)
Shape ==
  /\ DOMAIN contents \subseteq 1 .. Len(heap)
  /\ steps \in 0 .. MaxSteps
  /\ strayed \in BOOLEAN

WellOK == (~strayed => Well) /\ NothingMade /\ Shape

LEMMA WellFirst == (NotStarted => Well /\ Shape) /\ (NotStarted => Well /\ Shape)'
  <1>1. NotStarted => Well /\ Shape
    <2> SUFFICES ASSUME NotStarted PROVE Well /\ Shape
      OBVIOUS
    <2>1. Len(<<>>) = 0 /\ <<>> \in Seq(Seq(Kinds)) /\ DOMAIN <<>> = {}
      BY EmptySeq
    <2>2. StackTyped
      <3>1. types \in Seq(Seq(Kinds)) /\ Len(types) = 0 /\ Len(stack) = 0
        BY <2>1 DEF NotStarted
      <3>3. 0 <= Depth
        BY MachineAssumption
      <3>2. \A i \in 1 .. 0 : FALSE
        OBVIOUS
      <3> QED
        BY <3>1, <3>2, <3>3 DEF StackTyped
    <2>3. CellsTyped
      BY <2>1 DEF CellsTyped, NotStarted, OnlyStrings
    <2>4. Stated
      BY DEF NotStarted, Stated, FunctionsKeepTheirAddress
    <2>5. Shape
      <3>1. 0 \in 0 .. MaxSteps
        BY MachineAssumption
      <3> QED
        BY <2>1, <3>1 DEF NotStarted, Shape
    <2> QED
      BY <2>2, <2>3, <2>4, <2>5 DEF Well
  <1> QED
    BY <1>1, PTL

LEMMA StringsLoaded ==
  ASSUME Kept, Kept', Load, OnlyStrings
  PROVE  OnlyStrings'
  <1> DEFINE H == [type : ObjectTypes, length : Int, block : Nat]
  <1>1. heap \in Seq(H) /\ Len(heap) \in Nat
    BY KeptFacts
  <1>2. CASE heap' = heap
    BY <1>2 DEF OnlyStrings
  <1>3. ASSUME NEW size, NEW block, heap' = Append(heap, Object("TYPE_STRING", size, block))
        PROVE  OnlyStrings'
    <2>1. PICK o : o = Object("TYPE_STRING", size, block)
      OBVIOUS
    <2>2. PICK n \in Nat : n = Len(heap)
      BY <1>1
    <2>3. PICK S : S = H \cup {o}
      OBVIOUS
    <2>4. heap \in Seq(S) /\ o \in S
      <3> HIDE DEF H
      <3> QED
        BY <1>1, <2>3, SeqMonotonic
    <2>5. Len(heap') = n + 1 /\ heap'[n + 1] = o /\ \A a \in 1 .. n : heap'[a] = heap[a]
      BY <1>3, <2>1, <2>2, <2>4, AppendProperties
    <2>6. o.type = "TYPE_STRING"
      BY <2>1 DEF Object
    <2>7. \A a \in 1 .. n + 1 : a \in 1 .. n \/ a = n + 1
      OBVIOUS
    <2> QED
      BY <2>2, <2>5, <2>6, <2>7 DEF OnlyStrings
  <1>4. CASE PassArguments
    <2>1. PICK n, m : n = Len(argv) /\ m = Len(memory)
      OBVIOUS
    <2>2. n \in Nat
      BY <2>1, KeptFacts
    <2>3. PICK objects : objects = [i \in 1 .. n |-> Object("TYPE_STRING", 1, m + i)]
      OBVIOUS
    <2>4. heap' = heap \o objects
      BY <1>4, <2>1, <2>3 DEF PassArguments
    <2>5. \A i \in 1 .. n : objects[i].type = "TYPE_STRING"
      BY <2>3 DEF Object
    <2>6. PICK S : S = H \cup {objects[i] : i \in 1 .. n}
      OBVIOUS
    <2>7. objects \in [1 .. n -> S]
      BY <2>3, <2>6
    <2>8. heap \in Seq(S) /\ objects \in Seq(S) /\ Len(objects) = n
      <3> HIDE DEF H
      <3> QED
        BY <1>1, <2>2, <2>6, <2>7, SeqMonotonic, FunctionIsSeq
    <2>9. PICK h \in Nat : h = Len(heap)
      BY <1>1
    <2>10. /\ Len(heap') = h + n
           /\ \A a \in 1 .. h + n : heap'[a] = IF a <= h THEN heap[a] ELSE objects[a - h]
      BY <2>4, <2>8, <2>9, ConcatProperties
    <2>11. \A a \in 1 .. h + n : a \in 1 .. h \/ (~(a <= h) /\ a - h \in 1 .. n)
      BY <2>2
    <2>12. \A a \in 1 .. h : a <= h
      OBVIOUS
    <2> QED
      BY <2>5, <2>9, <2>10, <2>11, <2>12 DEF OnlyStrings
  <1>5. heap' = heap \/ PassArguments
        \/ \E size, block : heap' = Append(heap, Object("TYPE_STRING", size, block))
    BY DEF Load, Refuse, LoadLibraries, ReadCount, ReadConstant, ReadCode
  <1> QED
    BY <1>2, <1>3, <1>4, <1>5

LEMMA WellAtFirst == MachineInit => WellOK
  <1> SUFFICES ASSUME MachineInit PROVE NotStarted
    BY WellFirst DEF WellOK, NothingMade
  <1>1. Len(heap) = 0
    BY EmptySeq DEF MachineInit, Init
  <1>2. OnlyStrings
    BY <1>1 DEF OnlyStrings
  <1> QED
    BY <1>2 DEF MachineInit, NotStarted

(* Only a native call leaves something in last.                            *)
LEMMA StageAfter ==
  ASSUME Next, ~(Load /\ UNCHANGED machineVars)
  PROVE  /\ stage' \in {"running", "thrown", "over"}
         /\ last' = NoCall \/ Halt \/ \E i \in DOMAIN constants : NativeCall(i)
  <1>1. ASSUME NEW popped, NEW w, NEW i, stage = "running", Take(popped, w, i)
        PROVE  stage' \in {"running", "thrown"} /\ last' = NoCall
    BY <1>1 DEF Take, Throw, Quietly
  <1>2. ASSUME NEW i \in DOMAIN constants, NativeCall(i) PROVE stage' \in {"running", "thrown"}
    <2>1. stage = "running" /\ (stage' = stage \/ stage' = "thrown")
      BY <1>2 DEF NativeCall, Executes, Throw, Returned
    <2> QED
      BY <2>1
  <1>3. ASSUME NEW i, LoadConstant(i) \/ LoadSlot(i) PROVE stage' = "running" /\ last' = NoCall
    BY <1>3 DEF LoadConstant, LoadSlot, Executes, Quietly
  <1>4. ASSUME NEW x, NEW y, MakeFunction(x, y) \/ MakeList(x, y) PROVE stage' = "running" /\ last' = NoCall
    BY <1>4 DEF MakeFunction, MakeList, Executes, Quietly
  <1>5. MakeMutable => stage' = "running" /\ last' = NoCall
    BY DEF MakeMutable, Executes, Quietly
  <1>6. Update => stage' \in {"running", "thrown"} /\ last' = NoCall
    BY DEF Update, Executes, Quietly, Throw
  <1>7. ASSUME NEW i, ListGet(i) PROVE stage' \in {"running", "thrown"} /\ last' = NoCall
    <2>1. stage = "running" /\ Take(1, Top(0), Unsigned(i))
      BY <1>7 DEF ListGet, Executes
    <2> QED
      BY <2>1, <1>1
  <1>8. ASSUME GetIndex PROVE stage' \in {"running", "thrown"} /\ last' = NoCall
    <2>1. stage = "running" /\ (Throw("type") \/ Take(2, Top(1), GET_INT(Top(0))))
      BY <1>8 DEF GetIndex, Executes
    <2> QED
      BY <2>1, <1>1 DEF Throw
  <1>9. Halt => stage' = "over"
    BY DEF Halt
  <1> QED
    BY <1>2, <1>3, <1>4, <1>5, <1>6, <1>7, <1>8, <1>9 DEF Next

(* No instruction forgets that the types were left behind; one makes at    *)
(* most one object.                                                        *)
OneMore == \E o, t : heap' = Append(heap, o) /\ contents' = WithContents(t)

LEMMA StepsInShape ==
  ASSUME Next, ~(Load /\ UNCHANGED machineVars), strayed \in BOOLEAN
  PROVE  /\ Executes \/ steps' = steps
         /\ strayed' \in BOOLEAN /\ (strayed => strayed')
         /\ UNCHANGED <<heap, contents>> \/ OneMore
  <1> DEFINE Good == /\ strayed' \in BOOLEAN /\ (strayed => strayed')
                     /\ UNCHANGED <<heap, contents>> \/ OneMore
  <1>1. ASSUME NEW reason, Throw(reason) PROVE Good
    BY <1>1 DEF Throw
  <1>2. ASSUME NEW popped, NEW w, NEW i, Take(popped, w, i) PROVE Good
    BY <1>2, <1>1 DEF Take, SameHeap
  <1>3. ASSUME NEW type, NEW cells, NEW size, NEW t, MakeObject(type, cells, size, t) PROVE OneMore
    BY <1>3 DEF MakeObject, OneMore
  <1>4. ASSUME NEW i, LoadConstant(i) \/ LoadSlot(i) PROVE Executes /\ Good
    BY <1>4 DEF LoadConstant, LoadSlot, SameHeap
  <1>5. ASSUME NEW x, NEW y, MakeFunction(x, y) PROVE Executes /\ Good
    BY <1>5 DEF MakeFunction, SameHeap
  <1>6. ASSUME NEW n, NEW t, MakeList(n, t) PROVE Executes /\ Good
    BY <1>6, <1>3 DEF MakeList
  <1>7. MakeMutable => Executes /\ Good
    BY <1>3 DEF MakeMutable
  <1>8. Update => Executes /\ Good
    BY <1>1 DEF Update
  <1>9. ASSUME NEW i, ListGet(i) PROVE Executes /\ Good
    BY <1>9, <1>2 DEF ListGet
  <1>10. GetIndex => Executes /\ Good
    BY <1>1, <1>2 DEF GetIndex
  <1>11. ASSUME NEW i, NativeCall(i) PROVE Executes /\ Good
    <2>1. ASSUME NEW f, NEW n, NEW w, NEW r, Returned(f, n, w, r)
          PROVE  strayed' \in BOOLEAN /\ (strayed => strayed')
      BY <2>1 DEF Returned
    <2>2. ASSUME NEW out, NEW t, MakeIn(out, t) PROVE OneMore
      BY <2>2, <1>3 DEF MakeIn, OneMore
    <2> QED
      BY <1>1, <1>11, <2>1, <2>2 DEF NativeCall, SameHeap
  <1>12. Halt => steps' = steps /\ Good
    BY DEF Halt
  <1> QED
    BY <1>4, <1>5, <1>6, <1>7, <1>8, <1>9, <1>10, <1>11, <1>12 DEF Next

LEMMA ShapeBySteps ==
  ASSUME Shape, Kept, Next, ~(Load /\ UNCHANGED machineVars)
  PROVE  Shape'
  <1>1. /\ Executes \/ steps' = steps
        /\ strayed' \in BOOLEAN
        /\ UNCHANGED <<heap, contents>> \/ OneMore
    BY StepsInShape DEF Shape
  <1>2. steps' \in 0 .. MaxSteps
    BY <1>1, MachineAssumption DEF Shape, Executes
  <1>3. CASE OneMore
    <2> DEFINE H == [type : ObjectTypes, length : Int, block : Nat]
    <2>1. PICK o, t : heap' = Append(heap, o) /\ contents' = WithContents(t)
      BY <1>3 DEF OneMore
    <2>2. PICK n \in Nat : n = Len(heap)
      BY KeptFacts
    <2>3. PICK S : S = H \cup {o}
      OBVIOUS
    <2>4. heap \in Seq(S) /\ o \in S
      <3>1. heap \in Seq(H)
        BY KeptFacts
      <3> HIDE DEF H
      <3> QED
        BY <2>3, <3>1, SeqMonotonic
    <2>5. Len(heap') = n + 1
      BY <2>1, <2>2, <2>4, AppendProperties
    <2>6. DOMAIN contents' = DOMAIN contents \cup {n + 1}
      BY <2>1, <2>2 DEF WithContents, NewAddress
    <2>7. DOMAIN contents' \subseteq 1 .. n + 1
      BY <2>2, <2>6 DEF Shape
    <2> QED
      BY <1>1, <1>2, <2>5, <2>7 DEF Shape
  <1>4. CASE UNCHANGED <<heap, contents>>
    BY <1>1, <1>2, <1>4 DEF Shape
  <1> QED
    BY <1>1, <1>3, <1>4

LEMMA WellBySteps ==
  ASSUME WellOK, Kept, Kept', [Next]_vars
  PROVE  WellOK'
  <1>1. ASSUME UNCHANGED <<stack, types, heap, memory, contents, functions, args, steps, error, strayed>>
        PROVE  (~strayed => Well)' /\ Shape'
    <2> SUFFICES ASSUME ~strayed PROVE Well'
      BY <1>1 DEF WellOK, Shape
    <2>1. CellsTyped'
      BY <1>1, MemorySame DEF WellOK, Well
    <2>2. \A w, t : Typed(w, t)' <=> Typed(w, t)
      BY <1>1 DEF Typed, HasType, GetType, GET_PTR, IS_PTR
    <2>3. \A t : Path(t)' <=> Path(t)
      BY DEF Path
    <2>4. StackTyped'
      BY <1>1, <2>2, <2>3 DEF WellOK, Well, StackTyped
    <2>5. Stated'
      BY <1>1 DEF WellOK, Well, Stated, FunctionsKeepTheirAddress
    <2> QED
      BY <2>1, <2>4, <2>5 DEF Well
  <1>2. CASE UNCHANGED vars
    <2>1. UNCHANGED <<stage, stack, types, heap, memory, contents, functions, args, steps, error, strayed>>
      BY <1>2 DEF vars, loaderVars, machineVars
    <2>2. NothingMade'
      BY <2>1 DEF WellOK, NothingMade, NotStarted, OnlyStrings
    <2> QED
      BY <1>1, <2>1, <2>2 DEF WellOK
  <1>3. CASE Load /\ UNCHANGED machineVars
    <2>1. stage \notin {"running", "thrown", "over"}
      BY <1>3 DEF Load, Refuse, LoadLibraries, ReadCount, ReadConstant, ReadCode, PassArguments
    <2>2. NotStarted'
      BY <1>3, <2>1, StringsLoaded DEF WellOK, NothingMade, NotStarted, machineVars
    <2> QED
      BY <2>2, WellFirst DEF WellOK, NothingMade
  <1>4. CASE Halt
    <2>1. stage' = "over" /\ UNCHANGED <<stack, types, heap, memory, contents, functions, args, steps, error, strayed>>
      BY <1>4 DEF Halt, OnlyLoader
    <2> QED
      BY <1>1, <2>1 DEF WellOK, NothingMade
  <1>5. CASE Next /\ ~(Load /\ UNCHANGED machineVars) /\ ~Halt
    <2>1. ASSUME ~strayed' PROVE Well'
      <3>1. ~strayed
        BY <1>5, <2>1, StepsInShape DEF WellOK, Shape
      <3>2. Well
        BY <3>1 DEF WellOK
      <3> QED
        BY <1>5, <2>1, <3>1, <3>2, TypedPushSteps, TypedMakeSteps, TypedUpdateStep, TypedElementSteps,
           TypedNativeStep DEF Next
    <2>2. stage' \in {"running", "thrown", "over"}
      BY <1>5, StageAfter
    <2>3. Shape'
      BY <1>5, ShapeBySteps DEF WellOK
    <2> QED
      BY <2>1, <2>2, <2>3 DEF WellOK, NothingMade
  <1> QED
    BY <1>2, <1>3, <1>4, <1>5

LEMMA AlwaysWell == Spec => [](Kept /\ WellOK)
  <1>1. MachineInit => WellOK
    BY WellAtFirst
  <1>2. Kept /\ Kept' /\ WellOK /\ [Next]_vars => WellOK'
    BY WellBySteps
  <1> QED
    BY <1>1, <1>2, AlwaysKept, PTL DEF Spec

(* Until a program slices backwards, calculates with what is no finite     *)
(* float or makes a function too far away or with too many locals, every   *)
(* slot and every cell has the type that the checker gave it, functions    *)
(* keep their address and no ASSERT_TYPE fails: for programs of any size.  *)
(* And whatever it does, its words point into the heap.                    *)
THEOREM SpecWellTyped == Spec => []WellTyped
  <1>1. Kept /\ WellOK => TypeOK
    <2> SUFFICES ASSUME Kept, WellOK PROVE TypeOK
      OBVIOUS
    <2>1. /\ DOMAIN stack = 1 .. Len(stack) /\ DOMAIN heap = 1 .. Len(heap)
          /\ DOMAIN memory = 1 .. Len(memory)
      BY KeptFacts, LenProperties
    <2>2. Len(heap) \in Nat
      BY KeptFacts
    <2>3. ASSUME NEW i \in DOMAIN stack, IS_PTR(stack[i]) PROVE GET_PTR(stack[i]) \in {0} \cup DOMAIN heap
      <3>1. GET_PTR(stack[i]) \in 0 .. Len(heap)
        BY <2>1, <2>3 DEF Kept, StackValid, HoldsValid, Valid
      <3> QED
        BY <2>1, <2>2, <3>1
    <2> QED
      BY <2>1, <2>3 DEF TypeOK, WellOK, Shape, StackValid, Kept, FileRead, Blocks
  <1>2. ASSUME Kept, Well
        PROVE  TypesAreGuaranteed /\ FunctionsKeepTheirAddress /\ error # "type"
    <2>1. DOMAIN stack = 1 .. Len(stack)
      BY <1>2, KeptFacts, LenProperties
    <2>2. \A i \in DOMAIN stack : HasType(stack[i], types[i])
      BY <1>2, <2>1 DEF Well, StackTyped, Typed
    <2>3. ASSUME NEW a \in DOMAIN contents, contents[a] # <<>>, NEW i \in DOMAIN memory[heap[a].block]
          PROVE  HasType(memory[heap[a].block][i], contents[a])
      <3>1. PICK cells : cells = memory[heap[a].block]
        OBVIOUS
      <3>2. a \in 1 .. Len(heap) /\ heap[a].type # "TYPE_STRING"
        BY <1>2, <2>3 DEF Well, CellsTyped
      <3>3. HoldsTyped(cells, contents[a])
        BY <1>2, <3>1, <3>2 DEF Well, CellsTyped
      <3>4. cells \in Seq(Words \cup STRING)
        BY <1>2, <3>1, <3>2, ElementOfSeq DEF Kept, Blocks
      <3>5. i \in 1 .. Len(cells)
        BY <2>3, <3>1, <3>4, LenProperties
      <3> QED
        BY <3>1, <3>3, <3>5 DEF HoldsTyped, Typed
    <2> QED
      BY <1>2, <2>2, <2>3 DEF TypesAreGuaranteed, Well, Stated
  <1>3. Kept /\ WellOK => WellTyped
    BY <1>1, <1>2 DEF WellOK, WellTyped
  <1> QED
    BY <1>3, AlwaysWell, PTL
-----------------------------------------------------------------------------
(* Words that denote the same, for eq_value: numbers by their payload,     *)
(* strings and lists by what is in them.                                   *)
LEMMA NumbersDenote ==
  ASSUME NEW w \in Words, GetType(w) \in {"TYPE_INTEGER", "TYPE_FLOAT"}
  PROVE  Denotation(w) = w.payload
  <1>1. PICK n \in Nat : TypeDepth = n + 1
    <2>1. TypeDepth - 1 \in Nat /\ TypeDepth = (TypeDepth - 1) + 1
      BY MachineAssumption
    <2> QED
      BY <2>1
  <1>2. Denotations[n + 1][w] = Denoted(w, Denotations[n])
    <2>1. n + 1 <= TypeDepth
      BY <1>1
    <2> QED
      BY <2>1, NextLevel
  <1>3. \A d : Denoted(w, d) = w.payload
    BY DEF Denoted
  <1> QED
    BY <1>1, <1>2, <1>3 DEF Denotation

LEMMA EqualityStructural ==
  ASSUME ~strayed, Kept, CellsTyped, NEW t, Path(t),
         NEW a, NEW b, Valid(a), Valid(b), Typed(a, t), Typed(b, t),
         NEW out, out = Operation("eq_value", a, b)
  PROVE  /\ out.does # "make"
         /\ out.does = "return" => out.word = BOOL(Denotation(a) = Denotation(b))
  <1>1. Head(t) \in Kinds
    BY PathFacts
  <1>2. /\ Head(t) = "int"    => GetType(a) = "TYPE_INTEGER" /\ GetType(b) = "TYPE_INTEGER"
        /\ Head(t) = "float"  => GetType(a) = "TYPE_FLOAT" /\ GetType(b) = "TYPE_FLOAT"
        /\ Head(t) = "string" => GetType(a) = "TYPE_STRING" /\ GetType(b) = "TYPE_STRING"
        /\ Head(t) = "list"   => GetType(a) = "TYPE_LIST" /\ GetType(b) = "TYPE_LIST"
        /\ Head(t) = "fn"     => GetType(a) = "TYPE_FUNCTION" /\ GetType(b) = "TYPE_FUNCTION"
        /\ Head(t) = "mutable" => GetType(a) = "TYPE_MUTABLE" /\ GetType(b) = "TYPE_MUTABLE"
    BY <1>1, TypesOfWords DEF Typed
  <1>3. a \in Words /\ b \in Words
    BY DEF Valid
  <1>4. ASSUME NEW p, out = Returns(BOOL(p)), p <=> Denotation(a) = Denotation(b)
        PROVE  out.does # "make" /\ out.word = BOOL(Denotation(a) = Denotation(b))
    <2>1. BOOL(p) = BOOL(Denotation(a) = Denotation(b))
      BY <1>4 DEF BOOL
    <2>2. out.does = "return" /\ out.word = BOOL(p)
      BY <1>4 DEF Returns
    <2> QED
      BY <2>1, <2>2
  <1>5. CASE Head(t) = "int"
    <2>1. out = Returns(OnIntegers("eq_value", GET_INT(a), GET_INT(b)))
      BY <1>2, <1>5 DEF Operation, Supported
    <2>2. OnIntegers("eq_value", GET_INT(a), GET_INT(b)) = BOOL(GET_INT(a) = GET_INT(b))
      BY DEF OnIntegers, Arithmetic, Order
    <2>3. GET_INT(a) = a.payload /\ GET_INT(b) = b.payload
      <3>1. \A w : w.payload \in 0 .. INT - 1 => GET_INT(w) = w.payload
        <4> TAKE w
        <4> HAVE w.payload \in 0 .. INT - 1
        <4>1. w.payload \in Int
          BY Widths
        <4> QED
          BY <4>1, UnsignedFacts DEF GET_INT
      <3> QED
        BY <1>5, <3>1 DEF Typed
    <2>4. Denotation(a) = a.payload /\ Denotation(b) = b.payload
      BY <1>2, <1>3, <1>5, NumbersDenote
    <2>5. PICK p : p <=> a.payload = b.payload
      OBVIOUS
    <2>6. out = Returns(BOOL(p))
      <3>1. BOOL(p) = BOOL(a.payload = b.payload)
        BY <2>5 DEF BOOL
      <3> QED
        BY <2>1, <2>2, <2>3, <3>1
    <2> QED
      BY <1>4, <2>4, <2>5, <2>6
  <1>6. CASE Head(t) = "float"
    <2>1. out = Returns(OnFloats("eq_value", GET_FLOAT(a), GET_FLOAT(b)))
      BY <1>2, <1>6 DEF Operation, Supported, Logic
    <2>2. OnFloats("eq_value", GET_FLOAT(a), GET_FLOAT(b)) = BOOL(GET_FLOAT(a) = GET_FLOAT(b))
      BY DEF OnFloats, Arithmetic, Order
    <2>3. Denotation(a) = GET_FLOAT(a) /\ Denotation(b) = GET_FLOAT(b)
      BY <1>2, <1>3, <1>6, NumbersDenote DEF GET_FLOAT
    <2>4. PICK p : p <=> GET_FLOAT(a) = GET_FLOAT(b)
      OBVIOUS
    <2>5. out = Returns(BOOL(p))
      <3>1. BOOL(p) = BOOL(GET_FLOAT(a) = GET_FLOAT(b))
        BY <2>4 DEF BOOL
      <3> QED
        BY <2>1, <2>2, <3>1
    <2> QED
      BY <1>4, <2>3, <2>4, <2>5
  <1>7. CASE Head(t) \in {"string", "list"}
    <2>1. t # fn
      BY <1>7 DEF fn
    <2>2. value_eq(a, b) = Bit(Denotation(a) = Denotation(b))
      BY <2>1, EqualityAlike
    <2>3. out = IF value_eq(a, b) = THROWN THEN Throws("type") ELSE Returns(MAKE_INTEGER(value_eq(a, b)))
      BY <1>2, <1>7 DEF Operation, Supported
    <2>4. PICK p : p <=> Denotation(a) = Denotation(b)
      OBVIOUS
    <2>5. value_eq(a, b) = (IF p THEN 1 ELSE 0) /\ value_eq(a, b) # THROWN
      BY <2>2, <2>4 DEF Bit, THROWN
    <2>6. out = Returns(BOOL(p))
      BY <2>3, <2>5 DEF BOOL
    <2> QED
      BY <1>4, <2>4, <2>6
  <1>8. CASE Head(t) \in {"fn", "mutable"}
    <2>1. out = Throws("Unsupported type")
      BY <1>2, <1>8 DEF Operation, Supported
    <2>2. \A reason : Throws(reason).does = "throw"
      BY DEF Throws
    <2>3. out.does = "throw"
      BY <2>1, <2>2
    <2> QED
      BY <2>3
  <1> QED
    BY <1>1, <1>4, <1>5, <1>6, <1>7, <1>8 DEF Kinds

(* What the natives give for two integers, in the numbers that are         *)
(* printed.                                                                *)
LEMMA AsPrinted ==
  ASSUME NEW f \in Arithmetic \cup Order, NEW x \in 0 .. INT - 1, NEW y \in 0 .. INT - 1,
         f = "div_value" => y # 0,
         NEW r, r = GET_INT(OnIntegers(f, x, y)), NEW u, u = Signed(x), NEW v, v = Signed(y)
  PROVE  /\ f = "add_value" => (r - (u + v)) % INT = 0
         /\ f = "sub_value" => (r - (u - v)) % INT = 0
         /\ f = "mul_value" => (r - (u * v)) % INT = 0
         /\ u >= 0 /\ v >= 0 =>
              /\ f = "div_value" => v * r <= u /\ u < v * (r + 1)
              /\ f = "lt_value"  => (r = 1 <=> u < v)
              /\ f = "gt_value"  => (r = 1 <=> v < u)
              /\ f = "lte_value" => (r = 1 <=> ~(v < u))
              /\ f = "gte_value" => (r = 1 <=> ~(u < v))
  <1>1. INT \in Int /\ INT > 1 /\ x \in Int /\ y \in Int /\ HIGH * HALF \in Int /\ INT = 2 * (HIGH * HALF)
    BY Widths
  <1>2. PICK n \in Int : /\ OnIntegers(f, x, y) = MAKE_INTEGER(n)
                         /\ f = "add_value" => n = x + y
                         /\ f = "sub_value" => n = x - y
                         /\ f = "mul_value" => n = x * y
                         /\ f = "div_value" => n = x \div y
                         /\ f \in Order => n = IF Holds(f, x, y) THEN 1 ELSE 0
    <2>1. f \in Binary
      BY DEF Binary
    <2>2. f = "div_value" => y > 0
      BY <1>1
    <2> QED
      BY <1>1, <2>1, <2>2, OnIntegersFacts
  <1>3. r \in Int /\ (r - n) % INT = 0 /\ (n \in 0 .. INT - 1 => r = n)
    <2>1. PICK k \in Int : k = Unsigned(n)
      BY <1>1, UnsignedFacts
    <2>2. k \in 0 .. INT - 1 /\ Unsigned(k) = k
      BY <2>1, UnsignedFacts
    <2>3. r = Unsigned(Unsigned(n))
      BY <1>2 DEF GET_INT, MAKE_INTEGER, Word
    <2>4. r = k
      BY <2>1, <2>2, <2>3
    <2> QED
      BY <2>1, <2>4, UnsignedFacts
  <1>4. (u = x \/ u = x - INT) /\ (v = y \/ v = y - INT) /\ u \in Int /\ v \in Int
        /\ (u >= 0 => u = x) /\ (v >= 0 => v = y)
    BY <1>1 DEF Signed
  <1>5. ASSUME NEW m \in Int, NEW k \in Int, m = n - INT * k
        PROVE  (r - m) % INT = 0
    <2>1. PICK d \in Int : d = r - n
      BY <1>3
    <2>2. r - m = d + INT * k
      BY <1>1, <1>3, <1>5, <2>1
    <2>3. INT > 0
      BY <1>1
    <2>4. (d + INT * k) % INT = d % INT
      BY <1>1, <2>3, SameRemainder
    <2>5. d % INT = 0
      BY <1>3, <2>1
    <2> QED
      BY <2>2, <2>4, <2>5
  <1>6. CASE f \in {"add_value", "sub_value", "mul_value"}
    <2>1. CASE f = "add_value"
      <3>1. PICK k \in {0, 1, 2} : u + v = n - INT * k
        BY <1>1, <1>2, <1>4, <2>1
      <3> QED
        BY <1>4, <1>5, <2>1, <3>1
    <2>2. CASE f = "sub_value"
      <3>1. PICK k \in {-1, 0, 1} : u - v = n - INT * k
        BY <1>1, <1>2, <1>4, <2>2
      <3> QED
        BY <1>4, <1>5, <2>2, <3>1
    <2>3. CASE f = "mul_value"
      <3>1. PICK p \in {0, 1}, q \in {0, 1} : u = x - INT * p /\ v = y - INT * q
        BY <1>1, <1>4
      <3>2. PICK k \in Int : k = p * y + q * x - INT * p * q
        BY <1>1
      <3>3. u * v = n - INT * k
        BY <1>1, <1>2, <2>3, <3>1, <3>2
      <3>4. u * v \in Int
        BY <1>4
      <3> QED
        BY <1>5, <2>3, <3>3, <3>4
    <2> QED
      BY <1>6, <2>1, <2>2, <2>3
  <1>7. CASE f = "div_value"
    <2>1. ASSUME u >= 0, v >= 0 PROVE v * r <= u /\ u < v * (r + 1)
      <3>1. u = x /\ v = y /\ y > 0
        BY <1>1, <1>4, <1>7, <2>1
      <3>2. PICK m \in Int : m = x % y
        BY <1>1, <3>1, DivMod
      <3>3. x = (y * n) + m /\ m \in 0 .. y - 1
        BY <1>1, <1>2, <1>7, <3>1, <3>2, DivMod
      <3>4. n >= 0 /\ n <= x
        BY <1>1, <3>1, <3>3
      <3>5. r = n
        BY <1>1, <1>3, <3>4
      <3> QED
        BY <1>1, <3>1, <3>3, <3>5
    <2> QED
      BY <1>7, <2>1
  <1>8. CASE f \in Order
    <2>1. r = IF Holds(f, x, y) THEN 1 ELSE 0
      BY <1>1, <1>2, <1>3, <1>8
    <2> QED
      BY <1>1, <1>4, <1>8, <2>1 DEF Holds, Order
  <1> QED
    BY <1>6, <1>7, <1>8 DEF Arithmetic

(* There is nothing to say of an instruction that calls no native.         *)
LEMMA NothingAsked == (last = NoCall => ResultsAsPrinted) /\ (last = NoCall => ResultsAsPrinted)'
  <1>1. last = NoCall => ResultsAsPrinted
    <2> SUFFICES ASSUME last = NoCall PROVE ResultsAsPrinted
      OBVIOUS
    <2>1. last.name = ""
      BY DEF NoCall
    <2>2. "" \notin Arithmetic \cup Order
      BY DEF Arithmetic, Order
    <2> QED
      BY <2>1, <2>2 DEF ResultsAsPrinted, EqualityIsStructural, IntegersAsPrinted
  <1> QED
    BY <1>1, PTL

(* The words on top when a native is called, as eq_value and maths.c have  *)
(* them.                                                                   *)
LEMMA AnswersAsPrinted ==
  ASSUME Kept, ~strayed => Well, NEW i \in DOMAIN constants, NativeCall(i)
  PROVE  ResultsAsPrinted'
  <1>0. last' = NoCall => ResultsAsPrinted'
    BY NothingAsked
  <1>1. PICK f : f = Cells(constants[i])[1]
    OBVIOUS
  <1>2. PICK n : n = Arity(f)
    OBVIOUS
  <1>3. PICK xs, ts : xs = Operands(n) /\ ts = OperandTypes(n)
    OBVIOUS
  <1>4. PICK out : out = Outcome(f, xs)
    OBVIOUS
  <1>5. UNCHANGED args
    BY DEF NativeCall, OnlyLoader
  <1>6. CASE FindFunction(f) = 0 \/ last' = NoCall
    BY <1>0, <1>1, <1>6 DEF NativeCall, Throw
  <1>7. CASE FindFunction(f) # 0 /\ last' # NoCall
    <2>1. f \in Natives /\ n \in 0 .. Len(stack)
      BY <1>1, <1>2, <1>7, CalledNative
    <2>2. PICK r \in ResultTypes(f, ts) :
            \/ out.does = "return" /\ Returned(f, n, out.word, r) /\ SameHeap
            \/ /\ out.does = "make"
               /\ MakeIn(out, Tail(r))
               /\ Returned(f, n, MAKE_PTR(NewAddress), r)
      BY <1>1, <1>2, <1>3, <1>4, <1>7 DEF NativeCall, Arguments, OperandTypes, Throw
    <2>3. PICK w : last' = [name |-> f, given |-> xs, result |-> w]
                   /\ (out.does = "return" => w = out.word)
      BY <1>3, <2>2 DEF Returned
    <2>4. last'.name = f /\ last'.given = xs /\ last'.result = w
      BY <2>3
    <2>5. CASE f \notin Binary
      <3>1. f # "eq_value" /\ f \notin Arithmetic \cup Order
        BY <2>5 DEF Binary
      <3> QED
        BY <2>4, <3>1 DEF ResultsAsPrinted, EqualityIsStructural, IntegersAsPrinted
    <2>6. CASE f \in Binary
      <3>1. PICK a, b, t : a = xs[1] /\ b = xs[2] /\ t = ts[1]
        OBVIOUS
      <3>2. n = 2 /\ 1 \in 1 .. n /\ 2 \in 1 .. n
        BY <1>2, <2>6, ArityFacts
      <3>3. ASSUME Well PROVE Path(t) /\ Typed(a, t) /\ Typed(b, t)
        <4>1. /\ ts \in Seq(Seq(Kinds)) /\ Len(ts) = n
              /\ \A k \in 1 .. n : Path(ts[k]) /\ Typed(xs[k], ts[k])
          BY <1>3, <2>1, <3>3, TypesPop DEF Well
        <4>2. DOMAIN ts = 1 .. 2 /\ f # "not_value"
          BY <2>6, <3>2, <4>1, ArityFacts, LenProperties
        <4>3. ts[2] = t
          BY <2>1, <2>6, <3>1, <4>2, ResultTypesAre
        <4> QED
          BY <3>1, <3>2, <4>1, <4>3
      <3>4. Valid(a) /\ Valid(b)
        BY <1>3, <2>1, <3>1, <3>2, StackPops DEF HoldsValid
      <3>5. ~strayed' => ~strayed
        BY <2>2 DEF Returned
      <3>6. out = Operation(f, a, b)
        BY <1>4, <2>6, <3>1, ArityFacts DEF Outcome
      <3>7. EqualityIsStructural'
        <4> SUFFICES ASSUME f = "eq_value", ~strayed' PROVE w = BOOL(Denotation(a)' = Denotation(b)')
          BY <2>4, <3>1 DEF EqualityIsStructural
        <4>1. out.does # "make" /\ (out.does = "return" => out.word = BOOL(Denotation(a) = Denotation(b)))
          BY <3>3, <3>4, <3>5, <3>6, EqualityStructural DEF Well
        <4>2. out.does = "return" /\ SameHeap
          BY <2>2, <4>1
        <4>3. Denotation(a)' = Denotation(a) /\ Denotation(b)' = Denotation(b)
          BY <4>2 DEF SameHeap, Denotation, Denotations, Denoted, GetType, Cells, IS_PTR, GET_PTR
        <4> QED
          BY <2>3, <4>1, <4>2, <4>3
      <3>8. IntegersAsPrinted'
        <4> SUFFICES ASSUME f \in Arithmetic \cup Order, GetType(a)' = "TYPE_INTEGER"
                     PROVE  IntegersAsPrinted'
          BY <2>4, <3>1 DEF IntegersAsPrinted
        <4>1. GetType(a) = "TYPE_INTEGER"
          <5>1. CASE out.does = "return"
            <6>1. UNCHANGED heap
              BY <2>2, <5>1 DEF SameHeap
            <6> QED
              BY <6>1 DEF GetType, IS_PTR, GET_PTR
          <5>2. CASE out.does = "make"
            <6>1. GetType(a) \in {"TYPE_STRING", "TYPE_LIST"}
              <7>1. /\ \A reason : Throws(reason).does = "throw"
                    /\ \A v : Returns(v).does = "return"
                BY DEF Throws, Returns
              <7>2. ~(GetType(b) \in Supported(f) \cap {"TYPE_INTEGER", "TYPE_FLOAT"}) /\ GetType(a) = GetType(b)
                    /\ GetType(b) \in Supported(f)
                BY <3>6, <5>2, <7>1 DEF Operation
              <7> QED
                BY <7>2 DEF Supported
            <6>2. Points(a, GetType(a))
              BY <3>4, <6>1, TypeFacts DEF ObjectTypes, Kept
            <6>3. PICK p, h : p = GET_PTR(a) /\ h = heap
              OBVIOUS
            <6>4. IS_PTR(a) /\ p \in 1 .. Len(h) /\ h \in Seq([type : ObjectTypes, length : Int, block : Nat])
              BY <6>2, <6>3, KeptFacts DEF Points
            <6>5. PICK o : heap' = Append(h, o)
              BY <2>2, <5>2, <6>3 DEF MakeIn, MakeObject
            <6>6. heap'[p] = h[p]
              <7> DEFINE H == [type : ObjectTypes, length : Int, block : Nat]
              <7>1. PICK S : S = H \cup {o}
                OBVIOUS
              <7>2. h \in Seq(S) /\ o \in S
                <8>1. h \in Seq(H)
                  BY <6>4
                <8> HIDE DEF H
                <8> QED
                  BY <7>1, <8>1, SeqMonotonic
              <7> HIDE DEF H
              <7> QED
                BY <6>4, <6>5, <7>2, AppendProperties
            <6> QED
              BY <6>3, <6>4, <6>6 DEF GetType, IS_PTR, GET_PTR
          <5> QED
            BY <2>2, <5>1, <5>2
        <4>2. out.does # "throw"
          BY <2>2
        <4>3. GetType(b) = "TYPE_INTEGER"
          <5>1. Throws("type").does = "throw"
            BY DEF Throws
          <5>2. GetType(a) # GetType(b) => out = Throws("type")
            BY <3>6 DEF Operation
          <5> QED
            BY <4>1, <4>2, <5>1, <5>2
        <4>4. PICK x, y : x = GET_INT(a) /\ y = GET_INT(b)
          OBVIOUS
        <4>5. x \in 0 .. INT - 1 /\ y \in 0 .. INT - 1
          <5>1. a.payload \in Int /\ b.payload \in Int
            BY <3>4, TypeFacts DEF Kept
          <5> QED
            BY <4>4, <5>1, UnsignedFacts DEF GET_INT
        <4>6. out = IF f = "div_value" /\ y = 0 THEN Throws("SIGFPE") ELSE Returns(OnIntegers(f, x, y))
          BY <3>6, <4>1, <4>3, <4>4 DEF Operation, Supported
        <4>7. ~(f = "div_value" /\ y = 0) /\ out = Returns(OnIntegers(f, x, y))
          <5>1. Throws("SIGFPE").does = "throw"
            BY DEF Throws
          <5> QED
            BY <2>2, <4>6, <5>1
        <4>8. w = OnIntegers(f, x, y)
          <5>1. out.does = "return" /\ out.word = OnIntegers(f, x, y)
            BY <4>7 DEF Returns
          <5> QED
            BY <2>3, <5>1
        <4>9. PICK r1, u, v : r1 = GET_INT(w) /\ u = Signed(x) /\ v = Signed(y)
          OBVIOUS
        <4>10. /\ f = "add_value" => (r1 - (u + v)) % INT = 0
               /\ f = "sub_value" => (r1 - (u - v)) % INT = 0
               /\ f = "mul_value" => (r1 - (u * v)) % INT = 0
               /\ u >= 0 /\ v >= 0 =>
                    /\ f = "div_value" => v * r1 <= u /\ u < v * (r1 + 1)
                    /\ f = "lt_value"  => (r1 = 1 <=> u < v)
                    /\ f = "gt_value"  => (r1 = 1 <=> v < u)
                    /\ f = "lte_value" => (r1 = 1 <=> ~(v < u))
                    /\ f = "gte_value" => (r1 = 1 <=> ~(u < v))
          BY <4>5, <4>7, <4>8, <4>9, AsPrinted
        <4>11. /\ Signed(GET_INT(last'.given[1])) = u /\ Signed(GET_INT(last'.given[2])) = v
               /\ GET_INT(last'.result) = r1
          BY <2>4, <3>1, <4>4, <4>9
        <4> QED
          BY <2>4, <4>10, <4>11 DEF IntegersAsPrinted
      <3> QED
        BY <3>7, <3>8 DEF ResultsAsPrinted
    <2> QED
      BY <2>5, <2>6
  <1> QED
    BY <1>6, <1>7

PrintedOK == ResultsAsPrinted /\ (stage \notin {"running", "thrown", "over"} => last = NoCall)

LEMMA PrintedBySteps ==
  ASSUME PrintedOK, WellOK, Kept, [Next]_vars
  PROVE  PrintedOK'
  <1>1. NoCall' = NoCall
    BY DEF NoCall, kNull
  <1>2. ASSUME UNCHANGED <<heap, memory, last, strayed>>, stage' = "running" => stage = "running"
        PROVE  ResultsAsPrinted'
    <2>1. \A w : GetType(w)' = GetType(w) /\ Denotation(w)' = Denotation(w)
      BY <1>2 DEF Denotation, Denotations, Denoted, GetType, Cells, IS_PTR, GET_PTR
    <2>2. EqualityIsStructural'
      BY <1>2, <2>1 DEF PrintedOK, ResultsAsPrinted, EqualityIsStructural
    <2>3. IntegersAsPrinted'
      BY <1>2, <2>1 DEF PrintedOK, ResultsAsPrinted, IntegersAsPrinted
    <2> QED
      BY <2>2, <2>3 DEF ResultsAsPrinted
  <1>3. CASE UNCHANGED vars
    <2>1. UNCHANGED <<stage, heap, memory, last, strayed>>
      BY <1>3 DEF vars, loaderVars, machineVars
    <2> QED
      BY <1>1, <1>2, <2>1 DEF PrintedOK
  <1>4. CASE Load /\ UNCHANGED machineVars
    <2>1. stage \notin {"running", "thrown", "over"}
      BY <1>4 DEF Load, Refuse, LoadLibraries, ReadCount, ReadConstant, ReadCode, PassArguments
    <2>2. last' = NoCall
      BY <1>4, <2>1 DEF PrintedOK, machineVars
    <2> QED
      BY <1>1, <2>2, NothingAsked DEF PrintedOK
  <1>5. CASE Halt
    <2>1. stage' = "over" /\ UNCHANGED <<heap, memory, last, strayed>>
      BY <1>5 DEF Halt
    <2> QED
      BY <1>2, <2>1 DEF PrintedOK
  <1>6. CASE Next /\ ~(Load /\ UNCHANGED machineVars) /\ ~Halt
    <2>1. /\ stage' \in {"running", "thrown", "over"}
          /\ last' = NoCall \/ \E i \in DOMAIN constants : NativeCall(i)
      BY <1>6, StageAfter
    <2>2. ResultsAsPrinted'
      BY <1>1, <2>1, NothingAsked, AnswersAsPrinted DEF WellOK
    <2> QED
      BY <2>1, <2>2 DEF PrintedOK
  <1> QED
    BY <1>3, <1>4, <1>5, <1>6

(* For any programs: a sum, a product, a quotient or a comparison of two   *)
(* integers is that of the numbers that print shows, within the bounds     *)
(* stated, and until the types are left behind equal is what looks alike.  *)
THEOREM SpecResultsAsPrinted == Spec => []ResultsAsPrinted
  <1>1. MachineInit => PrintedOK
    BY NothingAsked DEF PrintedOK, MachineInit, Init
  <1>2. Kept /\ WellOK /\ PrintedOK /\ [Next]_vars => PrintedOK'
    BY PrintedBySteps
  <1>3. PrintedOK => ResultsAsPrinted
    BY DEF PrintedOK
  <1> QED
    BY <1>1, <1>2, <1>3, AlwaysWell, PTL DEF Spec
=============================================================================
