---------------------------- MODULE StreamProofs ----------------------------
(***************************************************************************)
(* Proofs about what a terminal sees: a number is printed as text and the  *)
(* text reads back as the number, a script asks for one key at a time, and *)
(* stdio over the polled port implements module Stream.                    *)
(*                                                                         *)
(* Texts and numbers are built by recursive functions.  The first part     *)
(* proves induction over the natural numbers for sets (not for operators), *)
(* and from it that a recursive function is the one its equation defines.  *)
(* The last part takes a text apart into its places: a digit of a number   *)
(* is worth what its place says, and the sum of the places is the number.  *)
(***************************************************************************)
EXTENDS DemosProofs, WellFoundedInduction, SequenceTheorems

-----------------------------------------------------------------------------
(* Induction, from the least element of a set of natural numbers.          *)
LEMMA LeastNatural ==
  ASSUME NEW T, T \subseteq Nat, T # {}
  PROVE  \E m \in T : \A k \in T : m <= k
<1> DEFINE R == OpToRel(<, Nat)
<1>1. IsWellFoundedOn(R, Nat)
  BY NatLessThanWellFounded
<1>2. \A p, q \in Nat : p < q => <<p, q>> \in R
  BY DEF OpToRel
<1> HIDE DEF R
<1>3. PICK m \in T : \A k \in T : ~(<<k, m>> \in R)
  BY <1>1, WFMin
<1>4. \A k \in T : ~(k < m)
  BY <1>2, <1>3
<1> QED
  BY <1>4

LEMMA Induction ==
  ASSUME NEW I \in SUBSET Nat, 0 \in I, \A n \in I : n + 1 \in I
  PROVE  Nat \subseteq I
<1> SUFFICES ASSUME Nat \ I # {} PROVE FALSE
  OBVIOUS
<1>1. Nat \ I \subseteq Nat
  OBVIOUS
<1>2. PICK m \in Nat \ I : \A k \in Nat \ I : m <= k
  BY <1>1, LeastNatural
<1>3. m - 1 \in Nat /\ ~(m <= m - 1) /\ (m - 1) + 1 = m
  BY <1>2
<1>4. m - 1 \in I
  BY <1>2, <1>3
<1> QED
  BY <1>3, <1>4

-----------------------------------------------------------------------------
(* Recursion: a function whose value at n depends on its value at a        *)
(* smaller d[n] is defined by its equation.                                *)
Recursive(f, S, a, d, g) == f = [n \in S |-> IF n = 0 THEN a ELSE g[<<n, f[d[n]]>>]]

SolvesUpTo(f, n, a, d, g) == Recursive(f, 0 .. n, a, d, g)

Agree(p, q, k) == p[k] = q[k]

LEMMA RecursionAgrees ==
  ASSUME NEW a, NEW d \in [Nat -> Nat], \A n \in Nat \ {0} : d[n] < n, NEW g,
         NEW m \in Nat, NEW n \in Nat, NEW p, NEW q, n <= m,
         SolvesUpTo(p, m, a, d, g), SolvesUpTo(q, n, a, d, g)
  PROVE  Agree(p, q, n)
<1> DEFINE T == {j \in Nat : j <= n /\ p[j] # q[j]}
<1> SUFFICES ASSUME T # {} PROVE FALSE
  BY DEF Agree
<1>1. PICK j \in T : \A i \in T : j <= i
  <2>1. T \subseteq Nat
    OBVIOUS
  <2> HIDE DEF T
  <2> QED
    BY <2>1, LeastNatural
<1>2. j \in Nat /\ j \in 0 .. m /\ j \in 0 .. n /\ p[j] # q[j]
  BY <1>1
<1>3. p[j] = IF j = 0 THEN a ELSE g[<<j, p[d[j]]>>]
  BY <1>2 DEF SolvesUpTo, Recursive
<1>4. q[j] = IF j = 0 THEN a ELSE g[<<j, q[d[j]]>>]
  BY <1>2 DEF SolvesUpTo, Recursive
<1>5. j # 0
  BY <1>2, <1>3, <1>4
<1>6. d[j] \in Nat /\ d[j] < j
  BY <1>2, <1>5
<1>7. d[j] <= n /\ ~(j <= d[j])
  <2>1. \A i \in Nat : i < j => i <= n /\ ~(j <= i)
    BY <1>2
  <2> QED
    BY <1>6, <2>1
<1>8. p[d[j]] = q[d[j]]
  BY <1>1, <1>6, <1>7
<1> QED
  BY <1>2, <1>3, <1>4, <1>8

LEMMA RecursionUpTo ==
  ASSUME NEW a, NEW d \in [Nat -> Nat], \A n \in Nat \ {0} : d[n] < n, NEW g
  PROVE  \A n \in Nat : \E f : Recursive(f, 0 .. n, a, d, g)
<1> DEFINE I == {n \in Nat : \E f : Recursive(f, 0 .. n, a, d, g)}
<1>1. 0 \in I
  <2> DEFINE f == [n \in 0 .. 0 |-> a]
  <2>1. Recursive(f, 0 .. 0, a, d, g)
    <3>1. \A n \in 0 .. 0 : n = 0
      OBVIOUS
    <3> QED
      BY <3>1 DEF Recursive
  <2> QED
    BY <2>1
<1>2. ASSUME NEW n \in I PROVE n + 1 \in I
  <2>1. n \in Nat /\ n + 1 \in Nat
    OBVIOUS
  <2>2. PICK f : Recursive(f, 0 .. n, a, d, g)
    OBVIOUS
  <2> DEFINE h == [k \in 0 .. n + 1 |-> IF k <= n THEN f[k] ELSE g[<<k, f[d[k]]>>]]
  <2>3. ASSUME NEW k \in 0 .. n + 1 PROVE h[k] = IF k = 0 THEN a ELSE g[<<k, h[d[k]]>>]
    <3>1. CASE k = 0
      <4>1. k \in 0 .. n /\ h[k] = f[k]
        BY <2>1, <3>1
      <4> QED
        BY <2>2, <3>1, <4>1 DEF Recursive
    <3>2. CASE k # 0
      <4>1. k \in Nat /\ d[k] \in Nat /\ d[k] < k
        BY <2>1, <3>2
      <4>2. d[k] \in 0 .. n + 1 /\ d[k] <= n
        BY <2>1, <4>1
      <4>3. h[d[k]] = f[d[k]]
        BY <4>2
      <4>4. CASE k <= n
        <5>1. h[k] = f[k] /\ k \in 0 .. n
          BY <2>1, <4>4
        <5>2. f[k] = g[<<k, f[d[k]]>>]
          BY <2>2, <3>2, <5>1 DEF Recursive
        <5> QED
          BY <3>2, <4>3, <5>1, <5>2
      <4>5. CASE ~(k <= n)
        <5>1. h[k] = g[<<k, f[d[k]]>>]
          BY <4>5
        <5> QED
          BY <3>2, <4>3, <5>1
      <4> QED
        BY <4>4, <4>5
    <3> QED
      BY <3>1, <3>2
  <2>4. h = [k \in 0 .. n + 1 |-> h[k]]
    OBVIOUS
  <2> HIDE DEF h
  <2>5. Recursive(h, 0 .. n + 1, a, d, g)
    BY <2>3, <2>4 DEF Recursive
  <2> QED
    BY <2>1, <2>5
<1> HIDE DEF I
<1>3. I \in SUBSET Nat
  BY DEF I
<1>4. Nat \subseteq I
  BY <1>1, <1>2, <1>3, Induction
<1> QED
  BY <1>4 DEF I

LEMMA Recursion ==
  ASSUME NEW a, NEW d \in [Nat -> Nat], \A n \in Nat \ {0} : d[n] < n, NEW g
  PROVE  \E f : Recursive(f, Nat, a, d, g)
<1> DEFINE P(n) == CHOOSE f : Recursive(f, 0 .. n, a, d, g)
           f == [n \in Nat |-> P(n)[n]]
<1>1. \A n \in Nat : Recursive(P(n), 0 .. n, a, d, g)
  BY RecursionUpTo
<1>2. ASSUME NEW n \in Nat PROVE f[n] = IF n = 0 THEN a ELSE g[<<n, f[d[n]]>>]
  <2>1. f[n] = P(n)[n] /\ n \in 0 .. n
    OBVIOUS
  <2> HIDE DEF P
  <2>2. P(n)[n] = IF n = 0 THEN a ELSE g[<<n, P(n)[d[n]]>>]
    BY <1>1, <2>1 DEF Recursive
  <2>3. CASE n = 0
    BY <2>1, <2>2, <2>3
  <2>4. CASE n # 0
    <3>1. d[n] \in Nat /\ d[n] < n
      BY <2>4
    <3>2. d[n] <= n /\ d[n] <= d[n]
      BY <3>1
    <3>3. P(n)[d[n]] = P(d[n])[d[n]]
      <4> DEFINE k == d[n]
                 p == P(n)
                 q == P(k)
      <4>1. k \in Nat /\ k <= n
        BY <3>1, <3>2
      <4>2. SolvesUpTo(p, n, a, d, g) /\ SolvesUpTo(q, k, a, d, g)
        BY <1>1, <4>1 DEF SolvesUpTo
      <4> HIDE DEF k, p, q
      <4>3. Agree(p, q, k)
        BY <4>1, <4>2, RecursionAgrees
      <4> QED
        BY <4>3 DEF k, p, q, Agree
    <3>4. f[d[n]] = P(d[n])[d[n]]
      BY <3>1
    <3> QED
      BY <2>1, <2>2, <2>4, <3>3, <3>4
  <2> QED
    BY <2>3, <2>4
<1>3. f = [n \in Nat |-> f[n]]
  OBVIOUS
<1> HIDE DEF f
<1>4. Recursive(f, Nat, a, d, g)
  BY <1>2, <1>3 DEF Recursive
<1> QED
  BY <1>4

LEMMA NotBelow == \A i, k \in Nat : i < k => ~(k <= i)
OBVIOUS

LEMMA RecursiveType ==
  ASSUME NEW a, NEW d \in [Nat -> Nat], \A n \in Nat \ {0} : d[n] < n, NEW g,
         NEW f, Recursive(f, Nat, a, d, g),
         NEW A, a \in A, \A n \in Nat \ {0} : \A x \in A : g[<<n, x>>] \in A
  PROVE  f \in [Nat -> A]
<1> DEFINE T == {n \in Nat : f[n] \notin A}
<1>1. ASSUME T # {} PROVE FALSE
  <2>1. T \subseteq Nat
    OBVIOUS
  <2>2. PICK n \in T : \A k \in T : n <= k
    <3> HIDE DEF T
    <3> QED
      BY <1>1, <2>1, LeastNatural
  <2>3. n \in Nat /\ f[n] \notin A
    OBVIOUS
  <2>4. f[n] = IF n = 0 THEN a ELSE g[<<n, f[d[n]]>>]
    BY <2>3 DEF Recursive
  <2>5. n # 0
    BY <2>3, <2>4
  <2>6. d[n] \in Nat /\ ~(n <= d[n])
    <3>1. d[n] \in Nat /\ d[n] < n
      BY <2>3, <2>5
    <3> QED
      BY <2>3, <3>1, NotBelow
  <2>7. f[d[n]] \in A
    BY <2>2, <2>6
  <2> QED
    BY <2>3, <2>4, <2>5, <2>7
<1>2. \A n \in Nat : f[n] \in A
  BY <1>1
<1>3. f = [n \in Nat |-> f[n]]
  BY DEF Recursive
<1> QED
  BY <1>2, <1>3

-----------------------------------------------------------------------------
(* FlattenSeq, which is a recursive function on the length.                *)
FlattenStep(s, f, n) ==
  f = [i \in 1 .. n |-> IF i = 1 THEN s[i] ELSE f[i - 1] \o s[i]]

LEMMA FlattenExists ==
  ASSUME NEW S, NEW s \in Seq(Seq(S)), NEW n \in 1 .. Len(s)
  PROVE  \E f : FlattenStep(s, f, n)
<1> DEFINE I == {k \in Nat : k \in 1 .. Len(s) => \E f : FlattenStep(s, f, k)}
<1>1. 0 \in I
  OBVIOUS
<1>2. ASSUME NEW k \in I PROVE k + 1 \in I
  <2> SUFFICES ASSUME k + 1 \in 1 .. Len(s) PROVE \E f : FlattenStep(s, f, k + 1)
    OBVIOUS
  <2>1. k \in Nat
    OBVIOUS
  <2>2. CASE k = 0
    <3>1. FlattenStep(s, [i \in 1 .. k + 1 |-> s[i]], k + 1)
      BY <2>2 DEF FlattenStep
    <3> QED
      BY <3>1
  <2>3. CASE k # 0
    <3>1. k \in 1 .. Len(s)
      BY <2>1, <2>3
    <3>2. PICK f : FlattenStep(s, f, k)
      BY <3>1
    <3> DEFINE g == [i \in 1 .. k + 1 |-> IF i <= k THEN f[i] ELSE f[k] \o s[k + 1]]
    <3>3. ASSUME NEW i \in 1 .. k + 1
          PROVE  g[i] = IF i = 1 THEN s[i] ELSE g[i - 1] \o s[i]
      <4>1. CASE i <= k
        <5>1. i \in 1 .. k
          BY <4>1, <2>1
        <5>2. f[i] = IF i = 1 THEN s[i] ELSE f[i - 1] \o s[i]
          BY <3>2, <5>1 DEF FlattenStep
        <5>3. g[i] = f[i] /\ (i # 1 => g[i - 1] = f[i - 1])
          BY <5>1, <2>1
        <5> QED
          BY <5>2, <5>3
      <4>2. CASE ~(i <= k)
        <5>1. i = k + 1 /\ i # 1 /\ k \in 1 .. k + 1
          BY <4>2, <2>1, <2>3
        <5>2. g[i] = f[k] \o s[k + 1]
          BY <4>2
        <5>4. g[k] = f[k]
          BY <5>1, <2>1
        <5>3. i - 1 = k
          BY <5>1, <2>1
        <5> QED
          BY <5>1, <5>2, <5>3, <5>4
      <4> QED
        BY <4>1, <4>2
    <3>4. g = [i \in 1 .. k + 1 |-> g[i]]
      OBVIOUS
    <3> HIDE DEF g
    <3>5. FlattenStep(s, g, k + 1)
      BY <3>3, <3>4 DEF FlattenStep
    <3> QED
      BY <3>5
  <2> QED
    BY <2>2, <2>3
<1>3. Nat \subseteq I
  <2> HIDE DEF I
  <2>1. I \in SUBSET Nat
    BY DEF I
  <2> QED
    BY <1>1, <1>2, <2>1, Induction
<1> QED
  BY <1>3

LEMMA FlattenDefined ==
  ASSUME NEW S, NEW s \in Seq(Seq(S)), s # <<>>
  PROVE  \E f : FlattenStep(s, f, Len(s)) /\ FlattenSeq(s) = f[Len(s)]
<1> DEFINE f == CHOOSE f : f = [i \in 1 .. Len(s) |-> IF i = 1 THEN s[i] ELSE f[i - 1] \o s[i]]
<1>1. Len(s) # 0 /\ Len(s) \in 1 .. Len(s)
  OBVIOUS
<1>2. \E g : g = [i \in 1 .. Len(s) |-> IF i = 1 THEN s[i] ELSE g[i - 1] \o s[i]]
  BY <1>1, FlattenExists DEF FlattenStep
<1>3. f = [i \in 1 .. Len(s) |-> IF i = 1 THEN s[i] ELSE f[i - 1] \o s[i]]
  BY <1>2, Zenon
<1>4. FlattenSeq(s) = f[Len(s)]
  BY <1>1, Zenon DEF FlattenSeq
<1> HIDE DEF f
<1> QED
  BY <1>3, <1>4 DEF FlattenStep

LEMMA FlattenType ==
  ASSUME NEW S, NEW s \in Seq(Seq(S)), NEW f, FlattenStep(s, f, Len(s)), NEW n \in 1 .. Len(s)
  PROVE  f[n] \in Seq(S)
<1> DEFINE I == {k \in Nat : k \in 1 .. Len(s) => f[k] \in Seq(S)}
<1>1. 0 \in I
  OBVIOUS
<1>2. ASSUME NEW k \in I PROVE k + 1 \in I
  <2> SUFFICES ASSUME k + 1 \in 1 .. Len(s) PROVE f[k + 1] \in Seq(S)
    OBVIOUS
  <2>1. k \in Nat /\ s[k + 1] \in Seq(S)
    OBVIOUS
  <2>2. f[k + 1] = IF k + 1 = 1 THEN s[k + 1] ELSE f[(k + 1) - 1] \o s[k + 1]
    BY DEF FlattenStep
  <2>3. CASE k = 0
    BY <2>1, <2>2, <2>3
  <2>4. CASE k # 0
    <3>1. k \in 1 .. Len(s) /\ (k + 1) - 1 = k /\ k + 1 # 1
      BY <2>1, <2>4
    <3>2. f[k] \in Seq(S)
      BY <3>1
    <3> QED
      BY <2>1, <2>2, <3>1, <3>2
  <2> QED
    BY <2>3, <2>4
<1>3. Nat \subseteq I
  <2> HIDE DEF I
  <2>1. I \in SUBSET Nat
    BY DEF I
  <2> QED
    BY <1>1, <1>2, <2>1, Induction
<1> QED
  BY <1>3

LEMMA InFront ==
  ASSUME NEW S, NEW a \in S, NEW s \in Seq(S)
  PROVE  /\ <<a>> \o s \in Seq(S) /\ Len(<<a>> \o s) = Len(s) + 1
         /\ (<<a>> \o s)[1] = a
         /\ \A k \in 1 .. Len(s) : (<<a>> \o s)[k + 1] = s[k]
         /\ Head(<<a>> \o s) = a /\ Tail(<<a>> \o s) = s /\ <<a>> \o s # <<>>
OBVIOUS

Associative(u, v, w) == (u \o v) \o w = u \o (v \o w)

LEMMA Associates ==
  ASSUME NEW S, NEW u \in Seq(S), NEW v \in Seq(S), NEW w \in Seq(S)
  PROVE  Associative(u, v, w)
BY ConcatAssociative DEF Associative

LEMMA FlattenFront ==
  ASSUME NEW S, NEW a \in Seq(S), NEW s \in Seq(Seq(S))
  PROVE  FlattenSeq(<<a>> \o s) = a \o FlattenSeq(s)
<1> DEFINE t == <<a>> \o s
<1>1. /\ t \in Seq(Seq(S)) /\ Len(t) = Len(s) + 1 /\ t # <<>>
      /\ t[1] = a /\ \A i \in 1 .. Len(s) : t[i + 1] = s[i]
  OBVIOUS
<1> HIDE DEF t
<1>2. PICK g : FlattenStep(t, g, Len(t)) /\ FlattenSeq(t) = g[Len(t)]
  BY <1>1, FlattenDefined
<1>3. \A i \in 1 .. Len(t) : g[i] = IF i = 1 THEN t[i] ELSE g[i - 1] \o t[i]
  BY <1>2 DEF FlattenStep
<1>4. CASE s = <<>>
  <2>1. FlattenSeq(s) = <<>>
    BY <1>4 DEF FlattenSeq
  <2>2. Len(t) = 1
    BY <1>1, <1>4
  <2>3. FlattenSeq(t) = a
    BY <1>1, <1>2, <1>3, <2>2
  <2>4. a \o <<>> = a
    OBVIOUS
  <2> QED
    BY <2>1, <2>3, <2>4 DEF t
<1>5. CASE s # <<>>
  <2>1. PICK f : FlattenStep(s, f, Len(s)) /\ FlattenSeq(s) = f[Len(s)]
    BY <1>5, FlattenDefined
  <2>2. \A i \in 1 .. Len(s) : f[i] = IF i = 1 THEN s[i] ELSE f[i - 1] \o s[i]
    BY <2>1 DEF FlattenStep
  <2>3. \A i \in 1 .. Len(s) : f[i] \in Seq(S) /\ s[i] \in Seq(S)
    BY <2>1, FlattenType
  <2> DEFINE I == {k \in Nat : k \in 1 .. Len(s) => g[k + 1] = a \o f[k]}
  <2>4. 0 \in I
    OBVIOUS
  <2>5. ASSUME NEW k \in I PROVE k + 1 \in I
    <3> SUFFICES ASSUME k + 1 \in 1 .. Len(s) PROVE g[(k + 1) + 1] = a \o f[k + 1]
      OBVIOUS
    <3>1. k \in Nat
      OBVIOUS
    <3>2. (k + 1) + 1 \in 1 .. Len(t) /\ (k + 1) + 1 # 1 /\ ((k + 1) + 1) - 1 = k + 1
      BY <3>1, <1>1
    <3>3. g[(k + 1) + 1] = g[k + 1] \o s[k + 1]
      BY <3>2, <1>1, <1>3
    <3>4. CASE k = 0
      <4>1. k + 1 = 1 /\ 1 \in 1 .. Len(t) /\ 1 \in 1 .. Len(s)
        BY <3>1, <3>2, <3>4
      <4>2. g[k + 1] = a
        BY <4>1, <1>1, <1>3
      <4>3. f[k + 1] = s[k + 1]
        BY <4>1, <2>2
      <4> QED
        BY <3>3, <4>2, <4>3
    <3>5. CASE k # 0
      <4>1. k \in 1 .. Len(s) /\ k + 1 # 1 /\ (k + 1) - 1 = k
        BY <3>1, <3>5
      <4>2. g[k + 1] = a \o f[k]
        BY <4>1
      <4>3. f[k + 1] = f[k] \o s[k + 1]
        BY <4>1, <2>2
      <4>4. f[k] \in Seq(S) /\ s[k + 1] \in Seq(S)
        BY <4>1, <2>3
      <4>5. (a \o f[k]) \o s[k + 1] = a \o (f[k] \o s[k + 1])
        <5> DEFINE p == f[k]
                   q == s[k + 1]
        <5>1. p \in Seq(S) /\ q \in Seq(S) /\ a \in Seq(S)
          BY <4>4
        <5> HIDE DEF p, q
        <5>2. Associative(a, p, q)
          BY <5>1, Associates
        <5> QED
          BY <5>2 DEF p, q, Associative
      <4> QED
        BY <3>3, <4>2, <4>3, <4>5
    <3> QED
      BY <3>4, <3>5
  <2>6. Nat \subseteq I
    <3> HIDE DEF I
    <3>1. I \in SUBSET Nat
      BY DEF I
    <3> QED
      BY <2>4, <2>5, <3>1, Induction
  <2>7. Len(s) \in Nat /\ Len(s) \in 1 .. Len(s)
    BY <1>5
  <2>8. g[Len(s) + 1] = a \o f[Len(s)]
    BY <2>6, <2>7
  <2> QED
    BY <1>1, <1>2, <2>1, <2>8 DEF t
<1> QED
  BY <1>4, <1>5

LEMMA FlattenSeqType ==
  ASSUME NEW S, NEW s \in Seq(Seq(S))
  PROVE  FlattenSeq(s) \in Seq(S)
<1>1. CASE s = <<>>
  BY <1>1 DEF FlattenSeq
<1>2. CASE s # <<>>
  <2>1. PICK f : FlattenStep(s, f, Len(s)) /\ FlattenSeq(s) = f[Len(s)]
    BY <1>2, FlattenDefined
  <2>2. Len(s) \in 1 .. Len(s)
    BY <1>2
  <2> QED
    BY <2>1, <2>2, FlattenType
<1> QED
  BY <1>1, <1>2

-----------------------------------------------------------------------------
(* What AsLines makes of a text, a character at a time.                    *)
AsLine(ch) == IF ch = LF THEN <<CR, LF>> ELSE <<ch>>

LEMMA NothingAsLines == AsLines(<<>>) = <<>>
<1>1. [k \in DOMAIN <<>> |-> IF <<>>[k] = LF THEN <<CR, LF>> ELSE <<(<<>>)[k]>>] = <<>>
  OBVIOUS
<1>2. FlattenSeq(<<>>) = <<>>
  BY DEF FlattenSeq
<1> QED
  BY <1>1, <1>2 DEF AsLines

LEMMA CharacterAsLine ==
  ASSUME NEW S, NEW str \in Seq(S)
  PROVE  /\ AsLines(str) \in Seq(S \cup {CR, LF})
         /\ str # <<>> => AsLines(str) = AsLine(Head(str)) \o AsLines(Tail(str))
<1> DEFINE T == S \cup {CR, LF}
           L(s) == [k \in DOMAIN s |-> IF s[k] = LF THEN <<CR, LF>> ELSE <<s[k]>>]
<1>1. ASSUME NEW s \in Seq(S) PROVE L(s) = [k \in 1 .. Len(s) |-> AsLine(s[k])]
  BY DEF AsLine
<1>2. \A ch \in S : AsLine(ch) \in Seq(T)
  <2> SUFFICES ASSUME NEW ch \in S PROVE AsLine(ch) \in Seq(T)
    OBVIOUS
  <2>1. CR \in T /\ LF \in T /\ ch \in T
    OBVIOUS
  <2> HIDE DEF T
  <2>2. <<CR, LF>> \in Seq(T) /\ <<ch>> \in Seq(T)
    BY <2>1
  <2> QED
    BY <2>2 DEF AsLine
<1>3. ASSUME NEW s \in Seq(S) PROVE L(s) \in Seq(Seq(T)) /\ Len(L(s)) = Len(s)
  <2>1. \A k \in 1 .. Len(s) : AsLine(s[k]) \in Seq(T)
    BY <1>2
  <2> HIDE DEF L, T
  <2> QED
    BY <1>1, <2>1
<1>4. \A s : AsLines(s) = FlattenSeq(L(s))
  BY Zenon DEF AsLines
<1>5. AsLines(str) \in Seq(T)
  <2>1. L(str) \in Seq(Seq(T))
    BY <1>3
  <2> HIDE DEF L, T
  <2> QED
    BY <1>4, <2>1, FlattenSeqType
<1>6. ASSUME str # <<>>
      PROVE  AsLines(str) = AsLine(Head(str)) \o AsLines(Tail(str))
  <2>1. Tail(str) \in Seq(S) /\ Len(Tail(str)) = Len(str) - 1 /\ Head(str) \in S
        /\ Len(str) \in Nat \ {0} /\ Head(str) = str[1]
        /\ \A k \in 1 .. Len(str) - 1 : Tail(str)[k] = str[k + 1]
    BY <1>6
  <2>2. L(Tail(str)) \in Seq(Seq(T)) /\ Len(L(Tail(str))) = Len(str) - 1
        /\ L(str) \in Seq(Seq(T)) /\ Len(L(str)) = Len(str)
    BY <1>3, <2>1
  <2>3. AsLine(Head(str)) \in Seq(T)
    BY <1>2, <2>1
  <2>4. \A k \in 1 .. Len(str) - 1 : L(Tail(str))[k] = AsLine(str[k + 1])
    <3> DEFINE u == Tail(str)
               m == L(u)
    <3>1. u \in Seq(S) /\ Len(u) = Len(str) - 1
          /\ \A k \in 1 .. Len(str) - 1 : u[k] = str[k + 1]
      BY <2>1
    <3> HIDE DEF u
    <3>2. m = [k \in 1 .. Len(u) |-> AsLine(u[k])]
      BY <1>1, <3>1
    <3> HIDE DEF L, m
    <3>3. \A k \in 1 .. Len(str) - 1 : m[k] = AsLine(str[k + 1])
      BY <3>1, <3>2
    <3> QED
      BY <3>3 DEF m, u
  <2>5. \A k \in 1 .. Len(str) : L(str)[k] = AsLine(str[k])
    BY <1>1
  <2> HIDE DEF L, T
  <2> DEFINE u == <<AsLine(Head(str))>> \o L(Tail(str))
  <2>6. /\ u \in Seq(Seq(T)) /\ Len(u) = Len(str)
        /\ u[1] = AsLine(Head(str))
        /\ \A k \in 1 .. Len(str) - 1 : u[k + 1] = L(Tail(str))[k]
    <3>1. Len(L(Tail(str))) + 1 = Len(str)
      <4> DEFINE m == Len(L(Tail(str)))
      <4>1. m = Len(str) - 1 /\ Len(str) \in Nat
        BY <2>1, <2>2
      <4> HIDE DEF m
      <4>2. m + 1 = Len(str)
        BY <4>1
      <4> QED
        BY <4>2 DEF m
    <3> QED
      BY <2>2, <2>3, <3>1, InFront
  <2> HIDE DEF u
  <2>7. ASSUME NEW k \in 1 .. Len(str) PROVE u[k] = L(str)[k]
    <3>1. CASE k = 1
      BY <3>1, <2>1, <2>5, <2>6
    <3>2. CASE k # 1
      <4>1. k - 1 \in 1 .. Len(str) - 1 /\ (k - 1) + 1 = k
        BY <3>2, <2>1
      <4> QED
        BY <4>1, <2>4, <2>5, <2>6
    <3> QED
      BY <3>1, <3>2
  <2>8. u = L(str)
    BY <2>2, <2>6, <2>7, SeqEqual
  <2>9. FlattenSeq(u) = AsLine(Head(str)) \o FlattenSeq(L(Tail(str)))
    BY <2>2, <2>3, FlattenFront DEF u
  <2> QED
    BY <1>4, <2>8, <2>9
<1> QED
  BY <1>5, <1>6

-----------------------------------------------------------------------------
(* What the scripts print are sequences, and a script asks for one key at  *)
(* most.                                                                   *)
IsText(str) == str \in Seq(Range(str))

WellFormed(item0) ==
  /\ IsText(item0.str)
  /\ item0.width \in Nat
  /\ item0.op \in {"itoa", "ltoa"} => NumberFormat(item0.base, item0.width)

LEMMA AsksFacts ==
  ASSUME NEW calls, NEW n
  PROVE  Asks(calls, n) <=>
           /\ calls \in Seq(Range(calls))
           /\ \A k \in DOMAIN calls : WellFormed(calls[k])
           /\ \A j, k \in DOMAIN calls :
                calls[j].op = "getchar" /\ calls[k].op = "getchar" => n = 1 /\ j = k
BY Zenon DEF Asks, WellFormed, IsText

LEMMA Text ==
  ASSUME NEW S, NEW s \in Seq(S)
  PROVE  IsText(s)
BY InRange DEF IsText

LEMMA ShortTexts ==
  /\ IsText(<<>>)
  /\ \A a1 : IsText(<<a1>>)
  /\ \A a1, a2 : IsText(<<a1, a2>>)
  /\ \A a1, a2, a3 : IsText(<<a1, a2, a3>>)
  /\ \A a1, a2, a3, a4 : IsText(<<a1, a2, a3, a4>>)
  /\ \A a1, a2, a3, a4, a5, a6, a7 : IsText(<<a1, a2, a3, a4, a5, a6, a7>>)
<1>1. IsText(<<>>)
  <2>1. <<>> \in Seq({})
    OBVIOUS
  <2> QED
    BY <2>1, Text
<1>2. ASSUME NEW a1 PROVE IsText(<<a1>>)
  <2>1. <<a1>> \in Seq({a1})
    OBVIOUS
  <2> QED
    BY <2>1, Text
<1>3. ASSUME NEW a1, NEW a2 PROVE IsText(<<a1, a2>>)
  <2>1. <<a1, a2>> \in Seq({a1, a2})
    OBVIOUS
  <2> QED
    BY <2>1, Text
<1>4. ASSUME NEW a1, NEW a2, NEW a3 PROVE IsText(<<a1, a2, a3>>)
  <2>1. <<a1, a2, a3>> \in Seq({a1, a2, a3})
    OBVIOUS
  <2> QED
    BY <2>1, Text
<1>5. ASSUME NEW a1, NEW a2, NEW a3, NEW a4 PROVE IsText(<<a1, a2, a3, a4>>)
  <2>1. <<a1, a2, a3, a4>> \in Seq({a1, a2, a3, a4})
    OBVIOUS
  <2> QED
    BY <2>1, Text
<1>6. ASSUME NEW a1, NEW a2, NEW a3, NEW a4, NEW a5, NEW a6, NEW a7
      PROVE  IsText(<<a1, a2, a3, a4, a5, a6, a7>>)
  <2>1. <<a1, a2, a3, a4, a5, a6, a7>> \in Seq({a1, a2, a3, a4, a5, a6, a7})
    OBVIOUS
  <2> QED
    BY <2>1, Text
<1> QED
  BY <1>1, <1>2, <1>3, <1>4, <1>5, <1>6

LEMMA AskingCall ==
  ASSUME NEW call0, WellFormed(call0)
  PROVE  /\ Asks(<<call0>>, 1)
         /\ call0.op # "getchar" => Asks(<<call0>>, 0)
<1>1. /\ <<call0>> \in Seq({call0}) /\ <<call0>>[1] = call0
      /\ DOMAIN <<call0>> = 1 .. 1
  OBVIOUS
<1>2. <<call0>> \in Seq(Range(<<call0>>))
  BY <1>1, InRange
<1>3. \A k \in DOMAIN <<call0>> : k = 1
  BY <1>1
<1>4. \A k \in DOMAIN <<call0>> : WellFormed(<<call0>>[k])
  BY <1>1, <1>3
<1> QED
  BY <1>1, <1>2, <1>3, <1>4, AsksFacts

LEMMA PutsAsk == \A str : IsText(str) => Asks(Puts(str), 0)
<1> SUFFICES ASSUME NEW str, IsText(str) PROVE Asks(Puts(str), 0)
  OBVIOUS
<1> DEFINE call0 == [Call("fputs") EXCEPT !.str = str]
<1>1. call0.op = "fputs" /\ call0.str = str /\ call0.width = 0
  BY DEF Call
<1>2. Puts(str) = <<call0>>
  BY DEF Puts
<1> HIDE DEF call0
<1>3. WellFormed(call0)
  BY <1>1 DEF WellFormed
<1> QED
  BY <1>1, <1>2, <1>3, AskingCall

LEMMA PutsTexts ==
  /\ \A a1 : Asks(Puts(<<a1>>), 0)
  /\ \A a1, a2 : Asks(Puts(<<a1, a2>>), 0)
  /\ \A a1, a2, a3 : Asks(Puts(<<a1, a2, a3>>), 0)
  /\ \A a1, a2, a3, a4 : Asks(Puts(<<a1, a2, a3, a4>>), 0)
  /\ \A a1, a2, a3, a4, a5, a6, a7 : Asks(Puts(<<a1, a2, a3, a4, a5, a6, a7>>), 0)
BY ShortTexts, PutsAsk, Zenon

LEMMA NumberAsks ==
  \A base \in {10, 16}, width \in Nat : base = 10 \/ width # 0 =>
    Asks(PutInt(base, width), 0) /\ Asks(PutLong(base, width), 0)
<1> SUFFICES ASSUME NEW base \in {10, 16}, NEW width \in Nat, base = 10 \/ width # 0
             PROVE  Asks(PutInt(base, width), 0) /\ Asks(PutLong(base, width), 0)
  OBVIOUS
<1> DEFINE int == [Call("itoa") EXCEPT !.base = base, !.width = width]
           long == [Call("ltoa") EXCEPT !.base = base, !.width = width]
<1>1. /\ int.op = "itoa" /\ int.str = <<>> /\ int.base = base /\ int.width = width
      /\ long.op = "ltoa" /\ long.str = <<>> /\ long.base = base /\ long.width = width
  BY DEF Call
<1>2. PutInt(base, width) = <<int>> /\ PutLong(base, width) = <<long>>
  BY DEF PutInt, PutLong
<1> HIDE DEF int, long
<1>3. WellFormed(int) /\ WellFormed(long) /\ int.op # "getchar" /\ long.op # "getchar"
  BY <1>1, ShortTexts DEF WellFormed, NumberFormat
<1> QED
  BY <1>2, <1>3, AskingCall

LEMMA NumbersAsk ==
  /\ \A width \in Nat : Asks(PutInt(10, width), 0) /\ Asks(PutLong(10, width), 0)
  /\ \A width \in {3, 4, 8, 12} : Asks(PutInt(16, width), 0) /\ Asks(PutLong(16, width), 0)
BY NumberAsks

LEMMA DoAsks ==
  \A name : name \notin {"itoa", "ltoa"} =>
    Asks(Do(name), 1) /\ (name # "getchar" => Asks(Do(name), 0))
<1> SUFFICES ASSUME NEW name, name \notin {"itoa", "ltoa"}
             PROVE  Asks(Do(name), 1) /\ (name # "getchar" => Asks(Do(name), 0))
  OBVIOUS
<1> DEFINE call0 == Call(name)
<1>1. call0.op = name /\ call0.str = <<>> /\ call0.width = 0
  BY DEF Call
<1>2. Do(name) = <<call0>>
  BY DEF Do
<1> HIDE DEF call0
<1>3. WellFormed(call0)
  BY <1>1, ShortTexts DEF WellFormed
<1> QED
  BY <1>1, <1>2, <1>3, AskingCall

LEMMA ModesAsk == \A i \in Nat : Asks(Modes(i), 0)
<1> SUFFICES ASSUME NEW i \in Nat PROVE Asks(Modes(i), 0)
  OBVIOUS
<1> DEFINE call0 == [Call("modes") EXCEPT !.width = i]
<1>1. call0.op = "modes" /\ call0.str = <<>> /\ call0.width = i
  BY DEF Call
<1>2. Modes(i) = <<call0>>
  BY DEF Modes
<1> HIDE DEF call0
<1>3. WellFormed(call0) /\ call0.op # "getchar"
  BY <1>1, ShortTexts DEF WellFormed
<1> QED
  BY <1>2, <1>3, AskingCall

LEMMA NothingAsks == \A n : Asks(<<>>, n)
<1>1. <<>> \in Seq(Range(<<>>)) /\ DOMAIN <<>> = {}
  BY InRange
<1> QED
  BY <1>1 DEF Asks

LEMMA AsksFewer == \A s : Asks(s, 0) => Asks(s, 1)
BY DEF Asks

LEMMA AskJoined ==
  ASSUME NEW m \in {0, 1}, NEW n \in {0, 1}, m + n <= 1, NEW s, NEW t, Asks(s, m), Asks(t, n)
  PROVE  Asks(s \o t, m + n)
<1> DEFINE S == Range(s) \cup Range(t)
           r == s \o t
<1>1. /\ s \in Seq(S) /\ t \in Seq(S) /\ r \in Seq(S) /\ Len(r) = Len(s) + Len(t)
      /\ Len(s) \in Nat /\ Len(t) \in Nat
  <2>1. s \in Seq(Range(s)) /\ t \in Seq(Range(t))
    BY DEF Asks
  <2>2. s \in Seq(S) /\ t \in Seq(S)
    BY <2>1
  <2> QED
    BY <2>1, <2>2
<1>2. ASSUME NEW k \in DOMAIN r
      PROVE  \/ k <= Len(s) /\ k \in DOMAIN s /\ r[k] = s[k]
             \/ k > Len(s) /\ k - Len(s) \in DOMAIN t /\ r[k] = t[k - Len(s)]
  BY <1>1
<1>3. r \in Seq(Range(r))
  BY <1>1, InRange
<1>4. DOMAIN r = 1 .. Len(r)
  BY <1>1
<1> HIDE DEF S, r
<1>5. ASSUME NEW k \in DOMAIN r PROVE WellFormed(r[k])
  BY <1>2, AsksFacts
<1>6. ASSUME NEW j \in DOMAIN r, NEW k \in DOMAIN r, r[j].op = "getchar", r[k].op = "getchar"
      PROVE  m + n = 1 /\ j = k
  <2>1. \A i \in DOMAIN s : s[i].op = "getchar" => m = 1
    BY DEF Asks
  <2>2. \A i \in DOMAIN t : t[i].op = "getchar" => n = 1
    BY DEF Asks
  <2>3. \A i1, i2 \in DOMAIN s : s[i1].op = "getchar" /\ s[i2].op = "getchar" => i1 = i2
    BY DEF Asks
  <2>4. \A i1, i2 \in DOMAIN t : t[i1].op = "getchar" /\ t[i2].op = "getchar" => i1 = i2
    BY DEF Asks
  <2>5. CASE m = 1
    <3>1. n = 0
      BY <2>5
    <3>2. j \in DOMAIN s /\ k \in DOMAIN s /\ r[j] = s[j] /\ r[k] = s[k]
      BY <1>2, <1>6, <2>2, <3>1
    <3> QED
      BY <1>6, <2>3, <2>5, <3>1, <3>2
  <2>6. CASE m = 0
    <3>1. /\ j - Len(s) \in DOMAIN t /\ r[j] = t[j - Len(s)]
          /\ k - Len(s) \in DOMAIN t /\ r[k] = t[k - Len(s)]
      BY <1>2, <1>6, <2>1, <2>6
    <3>2. n = 1
      BY <1>6, <2>2, <3>1
    <3>3. j - Len(s) = k - Len(s) /\ j \in Int /\ k \in Int
      BY <1>1, <1>4, <1>6, <2>4, <3>1
    <3>4. j = k
      BY <1>1, <3>3
    <3> QED
      BY <2>6, <3>2, <3>4
  <2> QED
    BY <2>5, <2>6
<1>7. Asks(r, m + n)
  BY <1>3, <1>5, <1>6, AsksFacts
<1> QED
  BY <1>7 DEF r

LEMMA AskBoth ==
  /\ \A s, t : Asks(s, 0) /\ Asks(t, 0) => Asks(s \o t, 0)
  /\ \A s, t : Asks(s, 0) /\ Asks(t, 1) => Asks(s \o t, 1)
  /\ \A s, t : Asks(s, 1) /\ Asks(t, 0) => Asks(s \o t, 1)
<1>1. ASSUME NEW s, NEW t, Asks(s, 0), Asks(t, 0) PROVE Asks(s \o t, 0)
  <2>1. Asks(s \o t, 0 + 0)
    BY <1>1, AskJoined
  <2> QED
    BY <2>1
<1>2. ASSUME NEW s, NEW t, Asks(s, 0), Asks(t, 1) PROVE Asks(s \o t, 1)
  <2>1. Asks(s \o t, 0 + 1)
    BY <1>2, AskJoined
  <2> QED
    BY <2>1
<1>3. ASSUME NEW s, NEW t, Asks(s, 1), Asks(t, 0) PROVE Asks(s \o t, 1)
  <2>1. Asks(s \o t, 1 + 0)
    BY <1>3, AskJoined
  <2> QED
    BY <2>1
<1> QED
  BY <1>1, <1>2, <1>3

LEMMA AskRepeated ==
  ASSUME NEW n \in Nat, NEW calls, Asks(calls, 0)
  PROVE  Asks(Repeat(n, calls), 0)
<1> DEFINE r == Repeat(n, calls)
           m == Len(calls)
           S == Range(calls)
<1>1. calls \in Seq(S) /\ m \in Nat /\ n * m \in Nat
  BY DEF Asks
<1>2. ASSUME NEW k \in 1 .. n * m
      PROVE  ((k - 1) % m) + 1 \in DOMAIN calls
  <2>1. m > 0
    BY <1>1
  <2> QED
    BY <1>1, <2>1
<1>3. r = [k \in 1 .. n * m |-> calls[((k - 1) % m) + 1]]
  BY DEF Repeat
<1>4. \A k \in 1 .. n * m : r[k] = calls[((k - 1) % m) + 1] /\ r[k] \in S
  BY <1>1, <1>2, <1>3
<1>5. r \in Seq(S) /\ DOMAIN r = 1 .. n * m
  BY <1>1, <1>3, <1>4
<1> HIDE DEF r, m, S
<1>6. ASSUME NEW k \in DOMAIN r
      PROVE  WellFormed(r[k]) /\ r[k].op # "getchar"
  <2>1. ((k - 1) % m) + 1 \in DOMAIN calls /\ r[k] = calls[((k - 1) % m) + 1]
    BY <1>2, <1>4, <1>5, <1>6
  <2> QED
    BY <2>1, AsksFacts
<1>7. Asks(r, 0)
  BY <1>5, <1>6, InRange, AsksFacts
<1> QED
  BY <1>7 DEF r

(* A call returns, which may have been that of getchar().                  *)
LEMMA AskTail ==
  ASSUME NEW n \in {0, 1}, NEW s, Asks(s, n), s # <<>>
  PROVE  /\ Asks(Tail(s), n)
         /\ s[1].op = "getchar" => n = 1 /\ Asks(Tail(s), 0)
         /\ WellFormed(s[1])
<1> DEFINE t == Tail(s)
           S == Range(s)
<1>1. /\ s \in Seq(S) /\ Len(s) \in Nat /\ Len(s) > 0
      /\ t \in Seq(S) /\ Len(t) = Len(s) - 1 /\ 1 \in DOMAIN s
      /\ \A k \in DOMAIN t : t[k] = s[k + 1] /\ k + 1 \in DOMAIN s /\ k + 1 # 1 /\ k \in Int
  BY DEF Asks
<1> HIDE DEF t, S
<1>2. t \in Seq(Range(t))
  BY <1>1, InRange
<1>3. \A k \in DOMAIN t : WellFormed(t[k])
  BY <1>1, AsksFacts
<1>4. \A j, k \in DOMAIN t : t[j].op = "getchar" /\ t[k].op = "getchar" => n = 1 /\ j = k
  <2> SUFFICES ASSUME NEW j \in DOMAIN t, NEW k \in DOMAIN t,
                      t[j].op = "getchar", t[k].op = "getchar"
               PROVE  n = 1 /\ j = k
    OBVIOUS
  <2>1. n = 1 /\ j + 1 = k + 1
    BY <1>1 DEF Asks
  <2> QED
    BY <1>1, <2>1
<1>5. Asks(t, n)
  BY <1>2, <1>3, <1>4, AsksFacts
<1>6. ASSUME s[1].op = "getchar" PROVE n = 1 /\ Asks(t, 0)
  <2>1. n = 1
    BY <1>1, <1>6 DEF Asks
  <2>2. \A k \in DOMAIN t : t[k].op # "getchar"
    BY <1>1, <1>6 DEF Asks
  <2> QED
    BY <1>2, <1>3, <2>1, <2>2, AsksFacts
<1>7. WellFormed(s[1])
  BY <1>1, AsksFacts
<1> QED
  BY <1>5, <1>6, <1>7 DEF t

LEMMA PartsAsk ==
  /\ Asks(NewLine, 0) /\ Asks(Hex8, 0) /\ Asks(read_apic, 0) /\ Asks(ShowCPUID, 0)
  /\ Asks(init_graphics, 0) /\ Asks(print_page_tables, 0)
  /\ Asks(AskAndEcho, 1) /\ Asks(Panic, 0) /\ Asks(malloc_test, 0)
<1>1. Asks(NewLine, 0) /\ Asks(Hex8, 0)
  BY PutsTexts, NumbersAsk, AskBoth DEF NewLine, Hex8
<1>2. Asks(read_apic, 0)
  BY <1>1, AskRepeated DEF read_apic
<1>3. Asks(ShowCPUID, 0)
  BY <1>1, PutsTexts, AskBoth, Zenon DEF ShowCPUID
<1>4. Asks(init_graphics, 0)
  <2> DEFINE s == Puts(<<"video ram: ">>) \o PutLong(10, 1) \o Puts(<<LF, "video mode: 0x">>)
                    \o PutInt(16, 3)
             t == s \o Puts(<<"  ">>) \o PutInt(10, 1) \o Puts(<<" x ">>) \o PutInt(10, 1)
  <2>1. Asks(s, 0)
    BY PutsTexts, NumbersAsk, AskBoth, Zenon
  <2>2. init_graphics = t \o Puts(<<" x ">>) \o PutInt(10, 1) \o Puts(<<"  0x">>)
                          \o PutLong(16, 8) \o NewLine
    BY Zenon DEF init_graphics
  <2> HIDE DEF s
  <2>3. Asks(t, 0)
    BY <2>1, PutsTexts, NumbersAsk, AskBoth, Zenon
  <2> HIDE DEF t
  <2> QED
    BY <1>1, <2>2, <2>3, PutsTexts, NumbersAsk, AskBoth, Zenon
<1>5. Asks(Do("DumpPTE"), 0) /\ Asks(Do("putchar"), 0) /\ Asks(Do("halt"), 0)
  BY DoAsks
<1>6. \A prefix : Asks(PrintPTE(prefix), 0)
  BY <1>1, <1>5, PutsTexts, AskBoth, Zenon DEF PrintPTE
<1>7. Asks(PrintPDT, 0) /\ Asks(PrintPT, 0)
  <2>1. Asks(Puts(<<"PDT[">>) \o PutInt(10, 3) \o PrintPTE("]      = "), 0)
    BY <1>6, PutsTexts, NumbersAsk, AskBoth, Zenon
  <2>2. Asks(PutLong(16, 12) \o PrintPTE(" -> "), 0)
    BY <1>6, NumbersAsk, AskBoth, Zenon
  <2> QED
    BY <2>1, <2>2, AskRepeated, ScriptsAssumption DEF PrintPDT, PrintPT
<1>8. Asks(print_page_tables, 0)
  BY <1>6, <1>7, AskBoth, Zenon DEF print_page_tables
<1>9. Asks(AskAndEcho, 1)
  <2>1. Asks(Puts(<<LF, "press a key ">>) \o Do("getchar"), 1)
    BY PutsTexts, DoAsks, AskBoth, Zenon
  <2>2. Asks(Puts(<<LF, "you pressed: ">>), 0)
    BY PutsTexts, Zenon
  <2> QED
    BY <1>5, <2>1, <2>2, AskBoth, Zenon DEF AskAndEcho
<1>10. Asks(Panic, 0)
  BY <1>5, PutsTexts, NumbersAsk, AskBoth, Zenon DEF Panic
<1>11. Asks(malloc_test, 0)
  BY <1>1, PutsTexts, NumbersAsk, AskBoth, Zenon DEF malloc_test
<1> QED
  BY <1>1, <1>2, <1>3, <1>4, <1>8, <1>9, <1>10, <1>11

LEMMA OpeningAsks == \A b \in DOMAIN Opening : Asks(Opening[b], 0)
<1>1. DOMAIN Opening = {"rm16", "lm64", "pm32", "vga", "vesa"}
  BY DEF Opening
<1>2. Asks(Do("COM_Init"), 0)
  BY DoAsks
<1>3. Asks(Opening["rm16"], 0)
  BY <1>2, PutsTexts, AskBoth DEF Opening
<1>4. Asks(Opening["lm64"], 0)
  BY <1>2, PutsTexts, PartsAsk, AskBoth DEF Opening
<1>5. Asks(Opening["pm32"], 0)
  BY <1>2, PutsTexts, AskBoth DEF Opening
<1>6. Asks(Opening["vga"], 0)
  BY <1>2, PutsTexts, AskBoth DEF Opening
<1>7. Asks(Opening["vesa"], 0)
  BY <1>2, PutsTexts, PartsAsk, AskBoth DEF Opening
<1> QED
  BY <1>1, <1>3, <1>4, <1>5, <1>6, <1>7

LEMMA LoopAsks == \A b \in DOMAIN Opening : Asks(Loop[b], 1)
<1>1. DOMAIN Opening = {"rm16", "lm64", "pm32", "vga", "vesa"}
  BY DEF Opening
<1>2. Asks(Do("getchar"), 1) /\ Asks(Do("switch"), 0)
  BY DoAsks
<1>3. Asks(Loop["rm16"], 1)
  BY <1>2, PutsTexts, NumbersAsk, PartsAsk, AskBoth DEF Loop
<1>4. Asks(Loop["lm64"], 1)
  BY <1>2, PutsTexts, NumbersAsk, PartsAsk, AskBoth DEF Loop
<1>5. Asks(Loop["pm32"], 1) /\ Asks(Loop["vga"], 1) /\ Asks(Loop["vesa"], 1)
  BY NumbersAsk, PartsAsk, AskBoth DEF Loop
<1> QED
  BY <1>1, <1>3, <1>4, <1>5

LEMMA ReadClockAsks == Asks(ReadClock, 0)
<1>1. ReadClock = (Do("RTC_GetTime") \o Do("time")) \o Do("break")
  BY DEF ReadClock, Do
<1>2. Asks(Do("RTC_GetTime"), 0) /\ Asks(Do("time"), 0) /\ Asks(Do("break"), 0)
  BY DoAsks
<1> QED
  BY <1>1, <1>2, AskBoth, Zenon

LEMMA AnswerAsks ==
  ASSUME NEW b, NEW ch
  PROVE  Asks(Answer(b, ch), 0)
<1>1. CASE b = "rm16"
  <2>1. Answers[b] = [e |-> Puts(<<LF, "IRQ 0 enabled">>),
                      d |-> Puts(<<LF, "IRQ 0 disabled">>),
                      t |-> ReadClock,
                      v |-> Puts(<<"Querying", LF>>) \o Do("VBE_GetInfo")]
    BY <1>1 DEF Answers
  <2>2. PICK on : on = Puts(<<LF, "IRQ 0 enabled">>)
    OBVIOUS
  <2>3. PICK off : off = Puts(<<LF, "IRQ 0 disabled">>)
    OBVIOUS
  <2>4. PICK vbe : vbe = Puts(<<"Querying", LF>>) \o Do("VBE_GetInfo")
    OBVIOUS
  <2>5. Answers[b] = [e |-> on, d |-> off, t |-> ReadClock, v |-> vbe]
    BY <2>1, <2>2, <2>3, <2>4, Zenon
  <2>6. Asks(on, 0) /\ Asks(off, 0) /\ Asks(vbe, 0)
    <3>1. Asks(Do("VBE_GetInfo"), 0)
      BY DoAsks
    <3> QED
      BY <2>2, <2>3, <2>4, <3>1, PutsTexts, AskBoth, Zenon
  <2> HIDE <2>1, <2>2, <2>3, <2>4
  <2>7. DOMAIN Answers[b] = {"e", "d", "t", "v"}
        /\ \A k \in {"e", "d", "t", "v"} : Asks(Answers[b][k], 0)
    BY <2>5, <2>6, ReadClockAsks
  <2> QED
    BY <2>7, NothingAsks DEF Answer
<1>2. CASE b = "lm64"
  <2>1. Answers[b] = [d |-> Panic, p |-> Panic, m |-> malloc_test]
    BY <1>2 DEF Answers
  <2>2. DOMAIN Answers[b] = {"d", "p", "m"}
        /\ \A k \in {"d", "p", "m"} : Asks(Answers[b][k], 0)
    BY <2>1, PartsAsk
  <2> QED
    BY <2>2, NothingAsks DEF Answer
<1>3. CASE b \notin {"rm16", "lm64"}
  <2>1. DOMAIN Answers = {"rm16", "lm64"}
    BY DEF Answers
  <2> QED
    BY <1>3, <2>1, NothingAsks DEF Answer
<1> QED
  BY <1>1, <1>2, <1>3

LEMMA VbeAsks ==
  /\ Asks(VbeInfo, 0) /\ Asks(VbeFailed, 0)
  /\ \A i \in Nat : \A s \in AtMode(i) : Asks(s, 0)
<1>1. Asks(VbeInfo, 0) /\ Asks(VbeFailed, 0)
  BY PutsTexts, NumbersAsk, ModesAsk, PartsAsk, AskBoth DEF VbeInfo, VbeFailed
<1>2. ASSUME NEW i \in Nat PROVE Asks(VbeMode(i), 0)
  <2>1. Asks(IF i % 16 = 4 THEN Do("pause") ELSE <<>>, 0)
    BY DoAsks, NothingAsks
  <2> DEFINE s == Puts(<<"mode: 0x">>) \o PutInt(16, 3) \o Puts(<<"  res: ">>) \o PutInt(10, 4)
             t == s \o Puts(<<" x ">>) \o PutInt(10, 4) \o Puts(<<" x ">>) \o PutInt(10, 2)
  <2>2. Asks(s, 0)
    BY PutsTexts, NumbersAsk, AskBoth, Zenon
  <2>3. VbeMode(i) = t \o Puts(<<"  fbuf: 0x">>) \o PutInt(16, 8)
                       \o Puts(<<"  direct-color", LF>>)
                       \o IF i % 16 = 4 THEN Do("pause") ELSE <<>>
    BY Zenon DEF VbeMode
  <2> HIDE DEF s
  <2>4. Asks(t, 0)
    BY <2>2, PutsTexts, NumbersAsk, AskBoth, Zenon
  <2> HIDE DEF t
  <2> QED
    BY <2>1, <2>3, <2>4, PutsTexts, NumbersAsk, AskBoth, Zenon
<1>3. ASSUME NEW i \in Nat, NEW s \in AtMode(i) PROVE Asks(s, 0)
  <2>1. s \in {<<>>, Modes(i + 1), VbeMode(i) \o Modes(i + 1)}
    BY <1>3 DEF AtMode
  <2>2. Asks(Modes(i + 1), 0)
    <3>1. i + 1 \in Nat
      OBVIOUS
    <3> QED
      BY <3>1, ModesAsk
  <2> QED
    BY <1>2, <2>1, <2>2, NothingAsks, AskBoth
<1> QED
  BY <1>1, <1>3

-----------------------------------------------------------------------------
(* Numbers: the recursive functions of module Numbers.                     *)
LEMMA Divided ==
  \A n \in Nat \ {0}, base \in {10, 16} :
    /\ n \div base \in Nat /\ n \div base < n
    /\ n % base \in 0 .. base - 1
    /\ n = base * (n \div base) + (n % base)
OBVIOUS

LEMMA DivideEquation ==
  ASSUME NEW base \in {10, 16}
  PROVE  \E d \in [Nat -> Nat] : /\ \A n \in Nat \ {0} : d[n] < n
                                 /\ \A n \in Nat : d[n] = n \div base
<1> DEFINE d == [n \in Nat |-> n \div base]
<1>1. \A n \in Nat : n \div base \in Nat
  OBVIOUS
<1>2. d \in [Nat -> Nat] /\ \A n \in Nat : d[n] = n \div base
  BY <1>1
<1>3. \A n \in Nat \ {0} : d[n] < n
  BY <1>2, Divided
<1> HIDE DEF d
<1> QED
  BY <1>2, <1>3

DigitOf(n, base) == DigitChar[(n % base) + 1]

LEMMA DigitChars ==
  /\ DigitChar \in Seq(Range(DigitChar)) /\ Len(DigitChar) = 16
  /\ \A n \in Nat, base \in {10, 16} : DigitOf(n, base) \in Range(DigitChar)
<1>1. DigitChar \in Seq({"0", "1", "2", "3", "4", "5", "6", "7", "8", "9",
                         "a", "b", "c", "d", "e", "f"}) /\ Len(DigitChar) = 16
  BY DEF DigitChar
<1>2. DigitChar \in Seq(Range(DigitChar))
  BY <1>1, InRange
<1>3. ASSUME NEW n \in Nat, NEW base \in {10, 16}
      PROVE  DigitOf(n, base) \in Range(DigitChar)
  <2>1. (n % base) + 1 \in 1 .. 16
    OBVIOUS
  <2>2. \A k \in 1 .. 16 : DigitChar[k] \in Range(DigitChar)
    BY <1>1 DEF Range
  <2> QED
    BY <2>1, <2>2 DEF DigitOf
<1> QED
  BY <1>1, <1>2, <1>3

LEMMA DigitsEquation ==
  ASSUME NEW base \in {10, 16}
  PROVE  /\ Digits(0, base) = <<>>
         /\ \A n \in Nat : Digits(n, base) \in Seq(Range(DigitChar))
         /\ \A n \in Nat \ {0} :
              Digits(n, base) = <<DigitOf(n, base)>> \o Digits(n \div base, base)
<1> DEFINE C == Range(DigitChar)
           g == [x \in Nat \X Seq(C) |-> <<DigitOf(x[1], base)>> \o x[2]]
<1>1. PICK d \in [Nat -> Nat] : /\ \A n \in Nat \ {0} : d[n] < n
                                /\ \A n \in Nat : d[n] = n \div base
  BY DivideEquation
<1>2. \A n \in Nat : \A x \in Seq(C) :
        g[<<n, x>>] = <<DigitOf(n, base)>> \o x /\ g[<<n, x>>] \in Seq(C)
  <2> SUFFICES ASSUME NEW n \in Nat, NEW x \in Seq(C)
               PROVE  g[<<n, x>>] = <<DigitOf(n, base)>> \o x /\ g[<<n, x>>] \in Seq(C)
    OBVIOUS
  <2>1. g[<<n, x>>] = <<DigitOf(n, base)>> \o x
    OBVIOUS
  <2>2. DigitOf(n, base) \in C
    BY DigitChars
  <2> HIDE DEF C, g
  <2> QED
    BY <2>1, <2>2, InFront
<1> HIDE DEF C, g
<1>3. PICK f : Recursive(f, Nat, <<>>, d, g)
  BY <1>1, Recursion
<1>4. f \in [Nat -> Seq(C)]
  <2>1. <<>> \in Seq(C)
    OBVIOUS
  <2> QED
    BY <1>1, <1>2, <1>3, <2>1, RecursiveType
<1> DEFINE E(r) == r = [n \in Nat |-> IF n = 0 THEN <<>>
                                      ELSE <<DigitChar[(n % base) + 1]>> \o r[n \div base]]
<1>5. E(f)
  <2>1. ASSUME NEW n \in Nat
        PROVE  f[n] = IF n = 0 THEN <<>> ELSE <<DigitChar[(n % base) + 1]>> \o f[n \div base]
    <3>1. f[n] = IF n = 0 THEN <<>> ELSE g[<<n, f[d[n]]>>]
      BY <1>3 DEF Recursive
    <3>2. d[n] = n \div base /\ f[d[n]] \in Seq(C)
      BY <1>1, <1>4
    <3>3. g[<<n, f[d[n]]>>] = <<DigitOf(n, base)>> \o f[d[n]]
      BY <1>2, <3>2
    <3> QED
      BY <3>1, <3>2, <3>3 DEF DigitOf
  <2>2. f = [n \in Nat |-> f[n]]
    BY <1>4
  <2> QED
    BY <2>1, <2>2
<1> DEFINE rest == CHOOSE r : E(r)
<1>6. E(rest)
  BY <1>5
<1>7. \A n : Digits(n, base) = rest[n]
  BY DEF Digits
<1>8. ASSUME NEW n \in Nat
      PROVE  rest[n] = IF n = 0 THEN <<>>
                       ELSE <<DigitChar[(n % base) + 1]>> \o rest[n \div base]
  <2> HIDE DEF rest
  <2> QED
    BY <1>6
<1> HIDE DEF rest, E
<1>9. \A n \in Nat : rest[n] \in Seq(C)
  <2>1. ASSUME NEW n \in Nat
        PROVE  rest[n] = IF n = 0 THEN <<>> ELSE <<DigitOf(n, base)>> \o rest[n \div base]
    BY <1>8 DEF DigitOf
  <2> DEFINE T == {n \in Nat : rest[n] \notin Seq(C)}
  <2>2. ASSUME T # {} PROVE FALSE
    <3>1. T \subseteq Nat
      OBVIOUS
    <3>2. PICK n \in T : \A k \in T : n <= k
      <4> HIDE DEF T
      <4> QED
        BY <2>2, <3>1, LeastNatural
    <3>3. n \in Nat /\ rest[n] \notin Seq(C)
      OBVIOUS
    <3>4. n # 0
      <4>1. <<>> \in Seq(C)
        OBVIOUS
      <4> QED
        BY <2>1, <3>3, <4>1
    <3>5. n \div base \in Nat /\ ~(n <= n \div base)
      BY <3>3, <3>4, Divided, NotBelow
    <3>6. rest[n \div base] \in Seq(C)
      BY <3>2, <3>5
    <3>7. DigitOf(n, base) \in C
      BY <3>3, DigitChars DEF C
    <3>8. rest[n] = <<DigitOf(n, base)>> \o rest[n \div base]
      BY <2>1, <3>3, <3>4
    <3>9. rest[n] \in Seq(C)
      <4> HIDE DEF T
      <4> QED
        BY <3>6, <3>7, <3>8, InFront
    <3> QED
      BY <3>3, <3>9
  <2> QED
    BY <2>2
<1> QED
  <2>1. Digits(0, base) = <<>>
    BY <1>7, <1>8
  <2>2. \A n \in Nat : Digits(n, base) \in Seq(C)
    BY <1>7, <1>9
  <2>3. ASSUME NEW n \in Nat \ {0}
        PROVE  Digits(n, base) = <<DigitOf(n, base)>> \o Digits(n \div base, base)
    BY <1>7, <1>8 DEF DigitOf
  <2> QED
    BY <2>1, <2>2, <2>3 DEF C

LEMMA TwoToEquation ==
  /\ TwoTo[0] = 1
  /\ \A n \in Nat : TwoTo[n] \in Nat \ {0} /\ TwoTo[n + 1] = 2 * TwoTo[n]
<1> DEFINE d == [n \in Nat |-> IF n = 0 THEN 0 ELSE n - 1]
           g == [x \in Nat \X (Nat \ {0}) |-> 2 * x[2]]
           E(r) == r = [n \in Nat |-> IF n = 0 THEN 1 ELSE 2 * r[n - 1]]
<1>1. d \in [Nat -> Nat] /\ \A n \in Nat \ {0} : d[n] < n /\ d[n] = n - 1
  OBVIOUS
<1>2. \A n \in Nat : \A x \in Nat \ {0} : g[<<n, x>>] = 2 * x /\ g[<<n, x>>] \in Nat \ {0}
  OBVIOUS
<1> HIDE DEF d, g
<1>3. PICK f : Recursive(f, Nat, 1, d, g)
  BY <1>1, Recursion
<1>4. f \in [Nat -> Nat \ {0}]
  <2> DEFINE A == Nat \ {0}
  <2>1. 1 \in A /\ \A n \in Nat \ {0} : \A x \in A : g[<<n, x>>] \in A
    BY <1>2
  <2> HIDE DEF A
  <2>2. f \in [Nat -> A]
    BY <1>1, <1>3, <2>1, RecursiveType
  <2> QED
    BY <2>2 DEF A
<1>5. E(f)
  <2>1. ASSUME NEW n \in Nat PROVE f[n] = IF n = 0 THEN 1 ELSE 2 * f[n - 1]
    <3>1. f[n] = IF n = 0 THEN 1 ELSE g[<<n, f[d[n]]>>]
      BY <1>3 DEF Recursive
    <3>2. CASE n = 0
      BY <3>1, <3>2
    <3>3. CASE n # 0
      <4>1. d[n] = n - 1 /\ n - 1 \in Nat
        BY <1>1, <3>3
      <4>2. f[n - 1] \in Nat \ {0}
        BY <1>4, <4>1
      <4>3. g[<<n, f[n - 1]>>] = 2 * f[n - 1]
        BY <1>2, <4>2
      <4> QED
        BY <3>1, <3>3, <4>1, <4>3
    <3> QED
      BY <3>2, <3>3
  <2>2. f = [n \in Nat |-> f[n]]
    BY <1>4
  <2> QED
    BY <2>1, <2>2
<1>6. E(TwoTo)
  <2>1. TwoTo = CHOOSE r : E(r)
    BY DEF TwoTo
  <2> HIDE DEF E
  <2> QED
    BY <1>5, <2>1
<1>7. \A n \in Nat : TwoTo[n] = IF n = 0 THEN 1 ELSE 2 * TwoTo[n - 1]
  BY <1>6
<1> HIDE DEF E
<1>8. ASSUME NEW n \in Nat, TwoTo[n] \in Nat \ {0}
      PROVE  TwoTo[n + 1] = 2 * TwoTo[n] /\ TwoTo[n + 1] \in Nat \ {0}
  <2>1. n + 1 \in Nat /\ n + 1 # 0 /\ (n + 1) - 1 = n
    OBVIOUS
  <2>2. TwoTo[n + 1] = 2 * TwoTo[n]
    BY <1>7, <2>1
  <2>3. \A x \in Nat \ {0} : 2 * x \in Nat \ {0}
    OBVIOUS
  <2> QED
    BY <1>8, <2>2, <2>3
<1>9. \A n \in Nat : TwoTo[n] \in Nat \ {0}
  <2> DEFINE I == {n \in Nat : TwoTo[n] \in Nat \ {0}}
  <2>1. 0 \in I
    BY <1>7
  <2>2. \A n \in I : n + 1 \in I
    BY <1>8
  <2>3. I \in SUBSET Nat
    OBVIOUS
  <2>4. Nat \subseteq I
    <3> HIDE DEF I
    <3> QED
      BY <2>1, <2>2, <2>3, Induction
  <2> QED
    BY <2>4
<1> QED
  BY <1>7, <1>8, <1>9

(* itoa() and ltoa(), taken apart.                                         *)
Negative(n, base) == n < 0 /\ base = 10
Unsigned(n, base, bits) == (IF Negative(n, base) THEN -n ELSE n) % TwoTo[bits]
DigitsOf(n, base, bits) ==
  IF n = 0 THEN <<"0">> ELSE Digits(Unsigned(n, base, bits), base)
WithSign(n, base, bits) ==
  DigitsOf(n, base, bits) \o IF Negative(n, base) THEN <<"-">> ELSE <<>>
Pad(base, width) == [k \in 1 .. width |-> IF base = 10 THEN SP ELSE "0"]
Padded(n, base, width, bits) ==
  WithSign(n, base, bits)
    \o SubSeq(Pad(base, width), Len(WithSign(n, base, bits)) + 1, width)

LEMMA ToText ==
  ASSUME NEW n, NEW base, NEW width, NEW bits
  PROVE  toText(n, base, width, bits) =
           Reverse(IF base # 10 /\ width > 0
                   THEN SubSeq(Padded(n, base, width, bits), 1, width)
                   ELSE Padded(n, base, width, bits))
BY Zenon DEF toText, Padded, Pad, WithSign, DigitsOf, Unsigned, Negative

Chars == Range(DigitChar) \cup {"-", SP}

LEMMA Reversed ==
  ASSUME NEW S, NEW s \in Seq(S)
  PROVE  Reverse(s) \in Seq(S) /\ Len(Reverse(s)) = Len(s)
         /\ \A k \in 1 .. Len(s) : Reverse(s)[k] = s[(Len(s) - k) + 1]
<1>1. \A k \in 1 .. Len(s) : (Len(s) - k) + 1 \in 1 .. Len(s)
  OBVIOUS
<1>2. Reverse(s) = [k \in 1 .. Len(s) |-> s[(Len(s) - k) + 1]]
  BY DEF Reverse
<1> QED
  BY <1>1, <1>2

LEMMA SubSequence ==
  ASSUME NEW S, NEW s \in Seq(S), NEW m \in Nat \ {0}, NEW n \in Nat, n <= Len(s)
  PROVE  /\ SubSeq(s, m, n) \in Seq(S)
         /\ Len(SubSeq(s, m, n)) = IF m <= n THEN (n - m) + 1 ELSE 0
         /\ \A k \in 1 .. Len(SubSeq(s, m, n)) : SubSeq(s, m, n)[k] = s[(m + k) - 1]
OBVIOUS

LEMMA Joining ==
  ASSUME NEW S, NEW s \in Seq(S), NEW t \in Seq(S)
  PROVE  /\ s \o t \in Seq(S) /\ Len(s \o t) = Len(s) + Len(t)
         /\ \A k \in 1 .. Len(s) : (s \o t)[k] = s[k]
         /\ \A k \in 1 .. Len(t) : (s \o t)[Len(s) + k] = t[k]
OBVIOUS

LEMMA DigitsOfType ==
  ASSUME NEW n \in Int, NEW base \in {10, 16}, NEW bits \in Nat
  PROVE  /\ Unsigned(n, base, bits) \in 0 .. TwoTo[bits] - 1
         /\ DigitsOf(n, base, bits) \in Seq(Range(DigitChar))
         /\ WithSign(n, base, bits) \in Seq(Chars)
<1>1. Unsigned(n, base, bits) \in 0 .. TwoTo[bits] - 1
  <2>1. TwoTo[bits] \in Nat \ {0}
    BY TwoToEquation
  <2>2. \A m \in Int, p \in Nat \ {0} : m % p \in 0 .. p - 1
    OBVIOUS
  <2>3. (IF Negative(n, base) THEN -n ELSE n) \in Int
    OBVIOUS
  <2> QED
    BY <2>1, <2>2, <2>3 DEF Unsigned
<1>2. DigitsOf(n, base, bits) \in Seq(Range(DigitChar))
  <2>1. <<"0">> \in Seq(Range(DigitChar))
    <3>1. DigitChar[1] \in Range(DigitChar) /\ DigitChar[1] = "0"
      <4>1. DigitChar[1] = "0" /\ 1 \in DOMAIN DigitChar
        BY DEF DigitChar
      <4> QED
        BY <4>1 DEF Range
    <3> QED
      BY <3>1
  <2>2. Digits(Unsigned(n, base, bits), base) \in Seq(Range(DigitChar))
    <3>1. TwoTo[bits] \in Nat \ {0}
      BY TwoToEquation
    <3>2. Unsigned(n, base, bits) \in Nat
      BY <1>1, <3>1
    <3> QED
      BY <3>2, DigitsEquation
  <2> QED
    BY <2>1, <2>2 DEF DigitsOf
<1>3. WithSign(n, base, bits) \in Seq(Chars)
  <2>1. DigitsOf(n, base, bits) \in Seq(Chars)
    BY <1>2 DEF Chars
  <2>2. (IF Negative(n, base) THEN <<"-">> ELSE <<>>) \in Seq(Chars)
    <3>1. "-" \in Chars
      BY DEF Chars
    <3>2. <<"-">> \in Seq(Chars) /\ <<>> \in Seq(Chars)
      BY <3>1
    <3> QED
      BY <3>2
  <2> QED
    BY <2>1, <2>2, Joining DEF WithSign
<1> QED
  BY <1>1, <1>2, <1>3

LEMMA PaddedType ==
  ASSUME NEW n \in Int, NEW base \in {10, 16}, NEW width \in Nat, NEW bits \in Nat
  PROVE  /\ Padded(n, base, width, bits) \in Seq(Chars)
         /\ Len(Padded(n, base, width, bits)) =
              IF Len(WithSign(n, base, bits)) <= width THEN width
              ELSE Len(WithSign(n, base, bits))
         /\ \A k \in 1 .. Len(Padded(n, base, width, bits)) :
              Padded(n, base, width, bits)[k] =
                IF k <= Len(WithSign(n, base, bits)) THEN WithSign(n, base, bits)[k]
                ELSE IF base = 10 THEN SP ELSE "0"
<1> DEFINE w == WithSign(n, base, bits)
           p == Pad(base, width)
           q == SubSeq(p, Len(w) + 1, width)
           r == w \o q
<1>1. w \in Seq(Chars) /\ Len(w) \in Nat
  <2>1. w \in Seq(Chars)
    BY DigitsOfType
  <2> HIDE DEF w
  <2> QED
    BY <2>1
<1>2. p \in Seq(Chars) /\ Len(p) = width
      /\ \A k \in 1 .. width : p[k] = IF base = 10 THEN SP ELSE "0"
  <2>1. DigitChar[1] = "0" /\ 1 \in DOMAIN DigitChar
    BY DEF DigitChar
  <2>2. "0" \in Chars /\ SP \in Chars
    BY <2>1 DEF Chars, Range
  <2> QED
    BY <2>2 DEF Pad
<1>3. Padded(n, base, width, bits) = r
  BY DEF Padded
<1> HIDE DEF w, p
<1>4. /\ q \in Seq(Chars)
      /\ Len(q) = IF Len(w) + 1 <= width THEN (width - (Len(w) + 1)) + 1 ELSE 0
      /\ \A k \in 1 .. Len(q) : q[k] = p[((Len(w) + 1) + k) - 1]
  BY <1>1, <1>2, SubSequence
<1> HIDE DEF q
<1>5. /\ r \in Seq(Chars) /\ Len(r) = Len(w) + Len(q)
      /\ \A k \in 1 .. Len(w) : r[k] = w[k]
      /\ \A k \in 1 .. Len(q) : r[Len(w) + k] = q[k]
  BY <1>1, <1>4, Joining
<1> HIDE DEF r
<1>6. Len(q) \in Nat
  BY <1>4
<1>7. Len(r) = IF Len(w) <= width THEN width ELSE Len(w)
  BY <1>1, <1>4, <1>5
<1>8. ASSUME NEW k \in 1 .. Len(r)
      PROVE  r[k] = IF k <= Len(w) THEN w[k] ELSE IF base = 10 THEN SP ELSE "0"
  <2>1. CASE k <= Len(w)
    BY <1>1, <1>5, <2>1
  <2>2. CASE ~(k <= Len(w))
    <3>1. k - Len(w) \in 1 .. Len(q) /\ Len(w) + (k - Len(w)) = k
          /\ ((Len(w) + 1) + (k - Len(w))) - 1 = k
      BY <1>1, <1>5, <1>6, <2>2
    <3>2. r[k] = q[k - Len(w)] /\ q[k - Len(w)] = p[k]
      BY <1>4, <1>5, <3>1
    <3>3. k \in 1 .. width
      BY <1>1, <1>4, <1>5, <1>6, <2>2
    <3> QED
      BY <1>2, <2>2, <3>2, <3>3
  <2> QED
    BY <2>1, <2>2
<1> QED
  BY <1>3, <1>5, <1>7, <1>8 DEF w

IsPadded(r, w, ch, width) ==
  /\ r \in Seq(Chars)
  /\ Len(r) = IF Len(w) <= width THEN width ELSE Len(w)
  /\ \A k \in 1 .. Len(r) : r[k] = IF k <= Len(w) THEN w[k] ELSE ch

LEMMA PaddedIs ==
  ASSUME NEW n \in Int, NEW base \in {10, 16}, NEW width \in Nat, NEW bits \in Nat
  PROVE  IsPadded(Padded(n, base, width, bits), WithSign(n, base, bits),
                  IF base = 10 THEN SP ELSE "0", width)
<1> DEFINE r == Padded(n, base, width, bits)
           w == WithSign(n, base, bits)
<1>1. /\ r \in Seq(Chars)
      /\ Len(r) = IF Len(w) <= width THEN width ELSE Len(w)
      /\ \A k \in 1 .. Len(r) : r[k] = IF k <= Len(w) THEN w[k] ELSE IF base = 10 THEN SP ELSE "0"
  BY PaddedType
<1> HIDE DEF r, w
<1>2. IsPadded(r, w, IF base = 10 THEN SP ELSE "0", width)
  BY <1>1 DEF IsPadded
<1> QED
  BY <1>2 DEF r, w

LEMMA PaddedDecimal ==
  ASSUME NEW n \in Int, NEW width \in Nat, NEW bits \in Nat,
         NEW w, w = WithSign(n, 10, bits), NEW r, r = Padded(n, 10, width, bits)
  PROVE  IsPadded(r, w, SP, width)
<1>1. IsPadded(Padded(n, 10, width, bits), WithSign(n, 10, bits),
               IF 10 = 10 THEN SP ELSE "0", width)
  <2>1. 10 \in {10, 16}
    OBVIOUS
  <2> QED
    BY <2>1, PaddedIs
<1> QED
  BY <1>1

LEMMA NumbersAreTexts ==
  ASSUME NEW n \in Int, NEW base \in {10, 16}, NEW width \in Nat, NEW bits \in Nat
  PROVE  toText(n, base, width, bits) \in Seq(Chars)
<1> DEFINE r == Padded(n, base, width, bits)
           s == IF base # 10 /\ width > 0 THEN SubSeq(r, 1, width) ELSE r
<1>1. r \in Seq(Chars) /\ width <= Len(r)
  <2> DEFINE w == WithSign(n, base, bits)
  <2>1. w \in Seq(Chars)
    BY DigitsOfType
  <2>2. r \in Seq(Chars) /\ Len(r) = IF Len(w) <= width THEN width ELSE Len(w)
    BY PaddedType
  <2> HIDE DEF w, r
  <2>3. Len(w) \in Nat
    BY <2>1
  <2> QED
    BY <2>2, <2>3
<1> HIDE DEF r
<1>2. s \in Seq(Chars)
  BY <1>1, SubSequence
<1> HIDE DEF s
<1>3. Reverse(s) \in Seq(Chars)
  BY <1>2, Reversed
<1> QED
  BY <1>3, ToText DEF s, r

-----------------------------------------------------------------------------
(* Every text printed is a sequence.                                       *)
LEMMA TextJoined ==
  \A s, t : IsText(s) /\ IsText(t) => IsText(s \o t)
<1> SUFFICES ASSUME NEW s, NEW t, IsText(s), IsText(t) PROVE IsText(s \o t)
  OBVIOUS
<1> DEFINE S == Range(s) \cup Range(t)
<1>1. s \in Seq(S) /\ t \in Seq(S)
  <2>1. s \in Seq(Range(s)) /\ t \in Seq(Range(t))
    BY DEF IsText
  <2> QED
    BY <2>1
<1> HIDE DEF S
<1>2. s \o t \in Seq(S)
  BY <1>1
<1> QED
  BY <1>2, Text

LEMMA Translated ==
  \A s, repl, with : IsText(s) => IsText(strtr(s, repl, with))
<1> SUFFICES ASSUME NEW s, NEW repl, NEW with, IsText(s) PROVE IsText(strtr(s, repl, with))
  OBVIOUS
<1> DEFINE S == Range(s) \cup {with}
           r == strtr(s, repl, with)
<1>1. s \in Seq(S)
  <2>1. s \in Seq(Range(s))
    BY DEF IsText
  <2> QED
    BY <2>1
<1>2. r = [k \in 1 .. Len(s) |-> IF s[k] = repl THEN with ELSE s[k]]
  BY <1>1 DEF strtr
<1>3. \A k \in 1 .. Len(s) : (IF s[k] = repl THEN with ELSE s[k]) \in S
  BY <1>1
<1> HIDE DEF S, r
<1>4. r \in Seq(S)
  BY <1>1, <1>2, <1>3
<1>5. IsText(r)
  BY <1>4, Text
<1> QED
  BY <1>5 DEF r

LEMMA Widths ==
  /\ IntBits \in Nat /\ LongBits \in Nat
  /\ IntValues \subseteq Int /\ LongValues \subseteq Int
  /\ \A pte \in Entries : pte.address \in Int
<1>1. IntBits \in Nat \ {0} /\ LongBits \in Nat \ {0}
  BY NumbersAssumption
<1>2. IntBits - 1 \in Nat /\ LongBits - 1 \in Nat
  BY <1>1
<1>3. /\ TwoTo[IntBits - 1] \in Nat /\ TwoTo[LongBits - 1] \in Nat /\ TwoTo[LongBits] \in Nat
  BY <1>1, <1>2, TwoToEquation
<1>4. \A m, n \in Int : m .. n \subseteq Int
  OBVIOUS
<1>5. /\ -TwoTo[IntBits - 1] \in Int /\ TwoTo[IntBits - 1] - 1 \in Int
      /\ -TwoTo[LongBits - 1] \in Int /\ TwoTo[LongBits - 1] - 1 \in Int
      /\ TwoTo[LongBits] - 1 \in Int
  BY <1>3
<1> QED
  BY <1>1, <1>4, <1>5, DemosAssumption

LEMMA NumberTexts ==
  ASSUME NEW num0 \in Int, NEW base \in {10, 16}, NEW width \in Nat
  PROVE  IsText(itoa(num0, base, width)) /\ IsText(ltoa(num0, base, width))
<1>1. itoa(num0, base, width) \in Seq(Chars)
  BY Widths, NumbersAreTexts DEF itoa
<1>2. ltoa(num0, base, width) \in Seq(Chars)
  BY Widths, NumbersAreTexts DEF ltoa
<1> QED
  BY <1>1, <1>2, Text

LEMMA EntryIsText == \A pte \in Entries : IsText(DumpPTE(pte))
<1> SUFFICES ASSUME NEW pte \in Entries PROVE IsText(DumpPTE(pte))
  OBVIOUS
<1> DEFINE f == [k \in DOMAIN PTEFlags |->
                   IF PTEFlags[k][1] \in pte.flags THEN PTEFlags[k][2] ELSE PTEFlags[k][3]]
<1>1. IsText(ltoa(pte.address, 16, 10))
  <2>1. pte.address \in Int /\ 16 \in {10, 16} /\ 10 \in Nat
    BY Widths
  <2> QED
    BY <2>1, NumberTexts
<1>2. IsText(f)
  <2>1. DOMAIN PTEFlags = 1 .. 10
    BY DEF PTEFlags
  <2>2. DOMAIN f = 1 .. 10
    BY <2>1
  <2>3. f = [k \in 1 .. 10 |-> f[k]]
    BY <2>1
  <2> HIDE DEF f
  <2>4. \A k \in 1 .. 10 : f[k] \in Range(f)
    BY <2>2 DEF Range
  <2>5. f \in Seq(Range(f))
    BY <2>3, <2>4
  <2> QED
    BY <2>5, Text
<1>3. DumpPTE(pte) = ((ltoa(pte.address, 16, 10) \o <<":">>) \o f) \o <<":", "os bits">>
  BY Zenon DEF DumpPTE
<1> QED
  BY <1>1, <1>2, <1>3, ShortTexts, TextJoined, Zenon

LEMMA TimeIsText == RtcInv => IsText(TimeText)
<1> SUFFICES ASSUME RtcInv PROVE IsText(TimeText)
  OBVIOUS
<1>1. now \in [Register -> 0 .. 255]
  BY Zenon DEF RtcInv, RtcTypeOK
<1>2. now[HOUR] \in Int /\ now[2] \in Int /\ now[1] \in Int
  BY <1>1 DEF Register, HOUR
<1>3. \A n \in Int : IsText(itoa(n, 10, 2))
  BY NumberTexts
<1> DEFINE sbuf == (((itoa(now[HOUR], 10, 2) \o <<":">>) \o itoa(now[2], 10, 2)) \o <<":">>)
                     \o itoa(now[1], 10, 2)
<1>4. IsText(sbuf)
  BY <1>2, <1>3, ShortTexts, TextJoined
<1>5. TimeText = <<LF, "Time is ">> \o strtr(sbuf, SP, "0")
  BY Zenon DEF TimeText
<1> QED
  BY <1>4, <1>5, ShortTexts, TextJoined, Translated, Zenon

-----------------------------------------------------------------------------
(* The calls: what each action leaves of CallsOK.                          *)
Quota == IF c = NONE THEN 1 ELSE 0

LEMMA CallsFacts ==
  CallsOK <=> IsText(text) /\ Asks(script, Quota) /\ Quota \in {0, 1}
BY DEF CallsOK, IsText, Quota

LEMMA CallsNext ==
  ASSUME IsText(text'), Asks(script', 0)
  PROVE  CallsOK'
<1>1. Asks(script', 1)
  BY AsksFewer
<1>2. Asks(script', IF c' = NONE THEN 1 ELSE 0)
  BY <1>1
<1> QED
  BY <1>2 DEF CallsOK, IsText

LEMMA CallsTail ==
  ASSUME CallsOK, IsText(text'), c' = c, script # <<>>, script' = Tail(script) \/ script' = script
  PROVE  CallsOK'
<1>1. Asks(script, Quota) /\ Quota \in {0, 1}
  BY CallsFacts
<1>2. Asks(script', Quota)
  BY <1>1, AskTail
<1> QED
  BY <1>2 DEF CallsOK, IsText, Quota

LEMMA CallsUnchanged ==
  ASSUME CallsOK, text' = text, c' = c, script' = script
  PROVE  CallsOK'
BY DEF CallsOK, Asks


LEMMA AtCall ==
  ASSUME CallsOK, NEW op, At(op)
  PROVE  WellFormed(script[1])
<1>1. script # <<>>
  BY Zenon DEF At
<1> QED
  BY <1>1, CallsFacts, AskTail

LEMMA PrintingCalls ==
  ASSUME CallsOK, script # <<>>, NEW str, IsText(str), NEW n, Prints(str, n)
  PROVE  CallsOK'
<1>1. text' = str /\ script' = Tail(script) /\ c' = c
  BY DEF Prints, fputs
<1> QED
  BY <1>1, CallsTail

LEMMA CallsInit == Init => CallsOK
<1> SUFFICES ASSUME Init PROVE CallsOK
  OBVIOUS
<1>1. text = <<>> /\ build \in Builds /\ script = Opening[build]
  BY DEF Init, SerialInit
<1>2. Asks(script, 0)
  BY <1>1, OpeningAsks, DemosAssumption
<1>3. Asks(script, 1)
  BY <1>2, AsksFewer
<1> QED
  BY <1>1, <1>2, <1>3, ShortTexts DEF CallsOK, IsText

LEMMA CallsStep == IInv /\ [Next]_vars => CallsOK'
<1> SUFFICES ASSUME IInv, [Next]_vars PROVE CallsOK'
  OBVIOUS
<1>1. SetUpInv /\ CallsOK /\ RtcInv /\ IsText(text) /\ build \in Builds
  BY Parts, CallsFacts DEF IInv
<1>2. CASE PrintString
  <2>1. At("fputs") /\ Prints(script[1].str, 0)
    BY <1>2 DEF PrintString
  <2>2. IsText(script[1].str) /\ script # <<>>
    BY <1>1, <2>1, AtCall DEF WellFormed, At
  <2> QED
    BY <1>1, <2>1, <2>2, PrintingCalls
<1>3. CASE PrintInt
  <2>1. At("itoa") /\ \E n \in IntValues : Prints(itoa(n, script[1].base, script[1].width), n)
    BY <1>3 DEF PrintInt
  <2>2. PICK n \in IntValues : Prints(itoa(n, script[1].base, script[1].width), n)
    BY <2>1
  <2>3. script[1].base \in {10, 16} /\ script[1].width \in Nat /\ script # <<>>
    BY <1>1, <2>1, AtCall DEF WellFormed, At, NumberFormat
  <2>4. IsText(itoa(n, script[1].base, script[1].width))
    BY <2>3, Widths, NumberTexts
  <2> QED
    BY <1>1, <2>2, <2>3, <2>4, PrintingCalls
<1>4. CASE PrintLong
  <2>1. At("ltoa") /\ \E n \in LongValues : Prints(ltoa(n, script[1].base, script[1].width), n)
    BY <1>4 DEF PrintLong
  <2>2. PICK n \in LongValues : Prints(ltoa(n, script[1].base, script[1].width), n)
    BY <2>1
  <2>3. script[1].base \in {10, 16} /\ script[1].width \in Nat /\ script # <<>>
    BY <1>1, <2>1, AtCall DEF WellFormed, At, NumberFormat
  <2>4. IsText(ltoa(n, script[1].base, script[1].width))
    BY <2>3, Widths, NumberTexts
  <2> QED
    BY <1>1, <2>2, <2>3, <2>4, PrintingCalls
<1>5. CASE PrintKey
  <2>1. At("putchar") /\ Prints(<<c>>, 0)
    BY <1>5 DEF PrintKey
  <2>2. IsText(<<c>>) /\ script # <<>>
    BY <2>1, ShortTexts DEF At
  <2> QED
    BY <1>1, <2>1, <2>2, PrintingCalls
<1>6. CASE PrintEntry
  <2>1. At("DumpPTE") /\ \E pte \in Entries : Prints(DumpPTE(pte), pte.address)
    BY <1>6 DEF PrintEntry
  <2>2. PICK pte \in Entries : Prints(DumpPTE(pte), pte.address)
    BY <2>1
  <2>3. IsText(DumpPTE(pte)) /\ script # <<>>
    BY <2>1, EntryIsText DEF At
  <2> QED
    BY <1>1, <2>2, <2>3, PrintingCalls
<1>7. CASE PrintTime
  <2>1. script # <<>> /\ text' = TimeText /\ script' = Tail(script) /\ c' = c
    BY <1>7 DEF PrintTime, At, fputs
  <2>2. IsText(text')
    BY <1>1, <2>1, TimeIsText
  <2> QED
    BY <1>1, <2>1, <2>2, CallsTail
<1>8. CASE InitPort
  <2>1. script # <<>> /\ script' \in {Tail(script), script} /\ text' = text /\ c' = c
    BY <1>8, Zenon DEF InitPort, At, COM_Init
  <2>2. IsText(text')
    BY <1>1, <2>1
  <2> QED
    BY <1>1, <2>1, <2>2, CallsTail
<1>9. CASE SendChar
  <2>1. script' = script /\ text' = text /\ c' = c
    BY <1>9, Zenon DEF SendChar, demo, COM_WriteChar
  <2> QED
    BY <1>1, <2>1, CallsUnchanged
<1>10. CASE ReadKey
  <2>1. script # <<>> /\ script[1].op = "getchar" /\ script' = Tail(script) /\ text' = text
    BY <1>10, Zenon DEF ReadKey, At, Return, COM_ReadChar
  <2>2. Asks(script', 0)
    BY <1>1, <2>1, CallsFacts, AskTail
  <2>3. IsText(text')
    BY <1>1, <2>1
  <2> QED
    BY <2>2, <2>3, CallsNext
<1>11. CASE Pause
  <2>1. script # <<>> /\ script' = Tail(script) /\ text' = text
    BY <1>11, Zenon DEF Pause, At, Return, COM_ReadChar
  <2>2. c' = c
    BY <1>11, Zenon DEF Pause, COM_ReadChar
  <2>3. IsText(text')
    BY <1>1, <2>1
  <2> QED
    BY <1>1, <2>1, <2>2, <2>3, CallsTail
<1>12. CASE Switch
  <2>1. script' = Answer(build, c) /\ text' = text
    BY <1>12, Zenon DEF Switch, serial
  <2>2. Asks(script', 0)
    BY <2>1, AnswerAsks
  <2>3. IsText(text')
    BY <1>1, <2>1
  <2> QED
    BY <2>2, <2>3, CallsNext
<1>13. CASE CallGetTime \/ Break
  <2>1. script # <<>> /\ script' = Tail(script) /\ text' = text /\ c' = c
    BY <1>13, Zenon DEF CallGetTime, Break, Return, At, serial
  <2>2. IsText(text')
    BY <1>1, <2>1
  <2> QED
    BY <1>1, <2>1, <2>2, CallsTail
<1>14. CASE GetTime \/ SecondPasses \/ ClockUpdates \/ UNCHANGED vars
  <2>1. script' = script /\ text' = text /\ c' = c
    BY <1>14, Zenon DEF GetTime, SecondPasses, ClockUpdates, vars, serial, demo
  <2> QED
    BY <1>1, <2>1, CallsUnchanged
<1>15. CASE GetInfo
  <2>1. script' \in {VbeInfo, VbeFailed} /\ text' = text
    BY <1>15, Zenon DEF GetInfo, serial
  <2>2. Asks(script', 0)
    BY <2>1, VbeAsks
  <2>3. IsText(text')
    BY <1>1, <2>1
  <2> QED
    BY <2>2, <2>3, CallsNext
<1>16. CASE ListModes
  <2>1. script' \in AtMode(script[1].width) /\ text' = text /\ At("modes")
    BY <1>16, Zenon DEF ListModes, serial
  <2>2. script[1].width \in Nat
    BY <1>1, <2>1, AtCall DEF WellFormed
  <2>3. Asks(script', 0)
    BY <2>1, <2>2, VbeAsks
  <2>4. IsText(text')
    BY <1>1, <2>1
  <2> QED
    BY <2>3, <2>4, CallsNext
<1>17. CASE Again
  <2>1. script' = Loop[build] /\ text' = text /\ c' = NONE
    BY <1>17, Zenon DEF Again
  <2>2. Asks(script', 1)
    BY <1>1, <2>1, LoopAsks, DemosAssumption
  <2>3. IsText(text')
    BY <1>1, <2>1
  <2> QED
    BY <2>1, <2>2, <2>3 DEF CallsOK, IsText
<1>18. CASE Port \/ Typing
  <2>1. script' = script /\ text' = text /\ c' = c
    BY <1>18, Zenon DEF Port, Typing, Transmit, Receive, demo
  <2> QED
    BY <1>1, <2>1, CallsUnchanged
<1> QED
  BY <1>2, <1>3, <1>4, <1>5, <1>6, <1>7, <1>8, <1>9, <1>10, <1>11, <1>12, <1>13, <1>14,
     <1>15, <1>16, <1>17, <1>18, Zenon DEF Next, Program

-----------------------------------------------------------------------------
(* What has been printed: what each action leaves of TextOK.               *)
LEMMA ItemKept ==
  ASSUME TextOK, item' = item, num' = num, text' = text,
         \/ item.op # "time"
         \/ pc' = pc /\ script' = script /\ now' = now
         \/ pc' = "idle" /\ script' = <<>>
  PROVE  TextOK'
<1>1. TimeText' = TimeText \/ item.op # "time" \/ (pc' = "idle" /\ script' = <<>>)
  BY Zenon DEF TimeText, HOUR
<1> QED
  BY <1>1, Zenon DEF TextOK, itoa, ltoa, DumpPTE, PTEFlags

LEMMA PrintingText ==
  ASSUME NEW item0, item' = item0, item0.op \notin {"itoa", "ltoa", "DumpPTE", "time"}
  PROVE  TextOK'
BY DEF TextOK

LEMMA NotTime ==
  ASSUME TextOK, NEW op, At(op), op # "break"
  PROVE  item.op # "time"
<1>1. script # <<>> /\ script[1].op = op
  BY DEF At
<1>2. Tail(Tail(ReadClock))[1].op = "break"
  BY ClockScript
<1> QED
  BY <1>1, <1>2, Zenon DEF TextOK

LEMMA TextStep == IInv /\ [Next]_vars => TextOK'
<1> SUFFICES ASSUME IInv, [Next]_vars PROVE TextOK'
  OBVIOUS
<1>1. SetUpInv /\ CallsOK /\ TextOK /\ ScriptOK
  BY Parts DEF IInv
<1>2. CASE PrintString \/ PrintKey
  <2>1. item' = script[1] /\ script[1].op \in {"fputs", "putchar"}
    BY <1>2, Zenon DEF PrintString, PrintKey, Prints, At
  <2> QED
    BY <2>1, PrintingText
<1>3. CASE PrintInt
  <2>1. At("itoa") /\ \E n \in IntValues : Prints(itoa(n, script[1].base, script[1].width), n)
    BY <1>3 DEF PrintInt
  <2>2. PICK n \in IntValues : Prints(itoa(n, script[1].base, script[1].width), n)
    BY <2>1
  <2>3. /\ item' = script[1] /\ num' = n
        /\ text' = itoa(n, script[1].base, script[1].width)
    BY <2>2 DEF Prints, fputs
  <2>4. script[1].op = "itoa" /\ NumberFormat(script[1].base, script[1].width)
    BY <1>1, <2>1, AtCall DEF WellFormed, At
  <2> QED
    BY <2>3, <2>4 DEF TextOK, itoa
<1>4. CASE PrintLong
  <2>1. At("ltoa") /\ \E n \in LongValues : Prints(ltoa(n, script[1].base, script[1].width), n)
    BY <1>4 DEF PrintLong
  <2>2. PICK n \in LongValues : Prints(ltoa(n, script[1].base, script[1].width), n)
    BY <2>1
  <2>3. /\ item' = script[1] /\ num' = n
        /\ text' = ltoa(n, script[1].base, script[1].width)
    BY <2>2 DEF Prints, fputs
  <2>4. script[1].op = "ltoa" /\ NumberFormat(script[1].base, script[1].width)
    BY <1>1, <2>1, AtCall DEF WellFormed, At
  <2> QED
    BY <2>3, <2>4 DEF TextOK, ltoa
<1>5. CASE PrintEntry
  <2>1. At("DumpPTE") /\ \E pte \in Entries : Prints(DumpPTE(pte), pte.address)
    BY <1>5 DEF PrintEntry
  <2>2. PICK pte \in Entries : Prints(DumpPTE(pte), pte.address)
    BY <2>1
  <2>3. /\ item' = script[1] /\ num' = pte.address /\ text' = DumpPTE(pte)
    BY <2>2 DEF Prints, fputs
  <2>4. script[1].op = "DumpPTE"
    BY <2>1 DEF At
  <2> QED
    BY <2>3, <2>4 DEF TextOK, DumpPTE, ltoa
<1>6. CASE PrintTime
  <2>1. /\ At("time") /\ item' = script[1] /\ script' = Tail(script) /\ text' = TimeText
        /\ pc' = pc /\ now' = now
    BY <1>6 DEF PrintTime, fputs, call
  <2>2. pc = "returned" /\ script = Tail(ReadClock) /\ script[1].op = "time"
    BY <1>1, <2>1, AtFacts DEF At
  <2>3. TimeText' = TimeText
    BY <2>1, Zenon DEF TimeText, HOUR
  <2>4. pc' = "returned" /\ script' = Tail(Tail(ReadClock)) /\ text' = TimeText'
    BY <2>1, <2>2, <2>3
  <2>5. item'.op = "time"
    BY <2>1, <2>2
  <2> QED
    BY <2>4, <2>5, Zenon DEF TextOK, ReadClock, Call
<1>7. CASE InitPort \/ ReadKey \/ Pause \/ Switch \/ CallGetTime \/ GetInfo \/ ListModes
  <2>1. item.op # "time"
    <3>1. \E op \in {"COM_Init", "getchar", "pause", "switch", "RTC_GetTime",
                     "VBE_GetInfo", "modes"} : At(op)
      BY <1>7, Zenon DEF InitPort, ReadKey, Pause, Switch, CallGetTime, GetInfo, ListModes
    <3>2. PICK op \in {"COM_Init", "getchar", "pause", "switch", "RTC_GetTime",
                      "VBE_GetInfo", "modes"} : At(op)
      BY <3>1
    <3>3. op # "break"
      OBVIOUS
    <3> QED
      BY <1>1, <3>2, <3>3, NotTime
  <2>2. item' = item /\ num' = num /\ text' = text
    BY <1>7, Zenon DEF InitPort, COM_Init, ReadKey, Pause, COM_ReadChar, Return, Switch,
       CallGetTime, GetInfo, ListModes, serial
  <2> QED
    BY <1>1, <2>1, <2>2, ItemKept
<1>8. CASE SendChar \/ Port \/ Typing \/ UNCHANGED vars
  <2>1. item' = item /\ num' = num /\ text' = text /\ pc' = pc /\ script' = script /\ now' = now
    BY <1>8, Zenon DEF SendChar, COM_WriteChar, Port, Transmit, Typing, Receive, vars, demo,
       serial, rtcVars, call
  <2> QED
    BY <1>1, <2>1, ItemKept
<1>9. CASE GetTime \/ SecondPasses \/ ClockUpdates
  <2>1. item' = item /\ num' = num /\ text' = text
    BY <1>9, Zenon DEF GetTime, SecondPasses, ClockUpdates, serial, demo
  <2>2. pc \notin {"idle", "returned"}
    BY <1>9, Zenon DEF GetTime, RTC_readTime, RTC_read, Convert, SecondPasses, ClockUpdates,
       Calling
  <2>3. item.op # "time"
    BY <1>1, <2>2, Zenon DEF TextOK
  <2> QED
    BY <1>1, <2>1, <2>3, ItemKept
<1>10. CASE Break
  <2>1. /\ At("break") /\ item' = item /\ num' = num /\ text' = text
        /\ pc' = "idle" /\ script' = Tail(script)
    BY <1>10, Zenon DEF Break, Return, Use, serial
  <2>2. script' = <<>>
    BY <1>1, <2>1, AtFacts, ClockScript
  <2> QED
    BY <1>1, <2>1, <2>2, ItemKept
<1>11. CASE Again
  <2>1. item' = Call("fputs")
    BY <1>11 DEF Again
  <2>2. Call("fputs").op = "fputs"
    BY DEF Call
  <2> QED
    BY <2>1, <2>2, PrintingText
<1> QED
  BY <1>2, <1>3, <1>4, <1>5, <1>6, <1>7, <1>8, <1>9, <1>10, <1>11, Zenon DEF Next, Program

LEMMA IInvInit == Init => IInv
<1> SUFFICES ASSUME Init PROVE IInv
  OBVIOUS
<1>1. item = Call("fputs")
  BY DEF Init
<1>2. Call("fputs").op = "fputs"
  BY DEF Call
<1>3. TextOK
  BY <1>1, <1>2 DEF TextOK
<1> QED
  BY <1>3, InitKeeps, CallsInit DEF IInv

LEMMA IInvNext == IInv /\ [Next]_vars => IInv'
<1>1. IInv /\ [Next]_vars => SetUpInv'
  BY SetUpInvNext, Zenon DEF IInv
<1> QED
  BY <1>1, CallsStep, TextStep, Zenon DEF IInv

(* The invariant: how far the port is set up and the clock is read, what   *)
(* the program still calls and what it has printed, in every build and     *)
(* whatever is typed.                                                      *)
THEOREM DemosInvariant == Spec => []IInv
<1>1. Init => IInv
  BY IInvInit
<1>2. IInv /\ [Next]_vars => IInv'
  BY IInvNext
<1> QED
  BY <1>1, <1>2, PTL DEF Spec

-----------------------------------------------------------------------------
(* The port implements Stream: what is printed and not yet sent is the     *)
(* queue.                                                                  *)
Queue == IF crSent THEN <<LF>> \o AsLines(Tail(Unsent)) ELSE AsLines(Unsent)

LEMMA StreamParts ==
  /\ StreamOf!StreamInit <=> text = <<>> /\ Queue = <<>> /\ tx = <<>> /\ rx = <<>> /\ c = NONE
  /\ StreamOf!streamVars = <<text, Queue, tx, rx, c>>
  /\ StreamOf!Say <=> Queue' = Queue \o AsLines(text') /\ UNCHANGED <<tx, rx, c>>
  /\ StreamOf!Send <=> /\ tx = <<>> /\ Queue # <<>>
                       /\ tx' = <<Head(Queue)>> /\ Queue' = Tail(Queue)
                       /\ UNCHANGED <<text, rx, c>>
  /\ StreamOf!Arrive <=> tx # <<>> /\ tx' = <<>> /\ UNCHANGED <<text, Queue, rx, c>>
  /\ StreamOf!Type <=> /\ Len(rx) < FifoSize
                       /\ \E k \in Key : rx' = Append(rx, k)
                       /\ UNCHANGED <<text, Queue, tx, c>>
  /\ StreamOf!Read <=> /\ rx # <<>>
                       /\ (c = NONE /\ c' = Head(rx)) \/ c' = c
                       /\ rx' = Tail(rx)
                       /\ UNCHANGED <<text, Queue, tx>>
  /\ StreamOf!Clear <=> text = <<>> /\ rx' = <<>> /\ UNCHANGED <<text, Queue, tx, c>>
  /\ StreamOf!Answered <=> c' = NONE /\ UNCHANGED <<text, Queue, tx, rx>>
<1>1. \A str : StreamOf!AsLines(str) = AsLines(str)
  BY DEF AsLines, StreamOf!AsLines, StreamOf!FlattenSeq, FlattenSeq, LF, CR,
         StreamOf!LF, StreamOf!CR
<1> QED
  BY <1>1, Zenon DEF Queue, StreamOf!StreamInit, StreamOf!streamVars, StreamOf!Say, StreamOf!Send,
     StreamOf!Arrive, StreamOf!Type, StreamOf!Read, StreamOf!Clear, StreamOf!Answered

LEMMA QueueKept ==
  ASSUME text' = text, at' = at, crSent' = crSent
  PROVE  Queue' = Queue
BY Zenon DEF Queue, Unsent

LEMMA WholeText ==
  ASSUME NEW str, IsText(str)
  PROVE  SubSeq(str, 1, Len(str)) = str
BY DEF IsText

(* A call that prints: the queue was empty, and is now its text.           *)
LEMMA SayStep ==
  ASSUME PortInv, Printed, IsText(text), IsText(text'), fputs(text')
  PROVE  StreamOf!Say
<1>1. at' = 1 /\ tx' = tx /\ rx' = rx /\ c' = c
  BY DEF fputs
<1>2. ~crSent /\ ~crSent'
  <2>1. crSent' = crSent
    BY Zenon DEF fputs
  <2> QED
    BY <2>1, PrintedFacts, Zenon
<1>3. Queue = <<>>
  <2>1. text \in Seq(Range(text)) /\ at \in Nat \ {0} /\ at \notin 1 .. Len(text)
    BY DEF IsText, PortInv, SerialTypeOK, Printed
  <2>2. Len(text) \in Nat /\ ~(at <= Len(text))
    BY <2>1
  <2>3. Unsent = <<>>
    BY <2>1, <2>2 DEF Unsent
  <2> QED
    BY <1>2, <2>3, NothingAsLines, Zenon DEF Queue
<1>4. Queue' = AsLines(text')
  <2>1. Unsent' = text'
    BY <1>1, WholeText DEF Unsent
  <2> QED
    BY <1>2, <2>1, Zenon DEF Queue
<1>5. AsLines(text') = <<>> \o AsLines(text')
  <2> DEFINE T == Range(text') \cup {CR, LF}
             u == AsLines(text')
  <2>1. u \in Seq(T)
    BY CharacterAsLine DEF IsText
  <2> HIDE DEF T, u
  <2>2. u = <<>> \o u
    BY <2>1
  <2> QED
    BY <2>2 DEF u
<1> QED
  BY <1>1, <1>3, <1>4, <1>5, StreamParts

LEMMA AllButFirst ==
  ASSUME NEW C, NEW t \in Seq(C), t # <<>>
  PROVE  /\ Tail(t) \in Seq(C) /\ Len(Tail(t)) = Len(t) - 1
         /\ \A j \in 1 .. (Len(t) - 1) : Tail(t)[j] = t[j + 1]
OBVIOUS

LEMMA RestOf ==
  ASSUME NEW C, NEW s \in Seq(C), NEW k \in 1 .. Len(s)
  PROVE  /\ SubSeq(s, k, Len(s)) \in Seq(C) /\ SubSeq(s, k, Len(s)) # <<>>
         /\ Head(SubSeq(s, k, Len(s))) = s[k]
         /\ Tail(SubSeq(s, k, Len(s))) \in Seq(C)
         /\ Tail(SubSeq(s, k, Len(s))) = SubSeq(s, k + 1, Len(s))
<1> DEFINE t == SubSeq(s, k, Len(s))
           u == SubSeq(s, k + 1, Len(s))
<1>1. k \in Nat \ {0} /\ k + 1 \in Nat \ {0} /\ Len(s) \in Nat /\ k <= Len(s)
  OBVIOUS
<1>2. /\ t \in Seq(C) /\ Len(t) = (Len(s) - k) + 1
      /\ \A j \in 1 .. Len(t) : t[j] = s[(k + j) - 1]
  BY <1>1, SubSequence
<1>3. /\ u \in Seq(C) /\ Len(u) = Len(s) - k
      /\ \A j \in 1 .. Len(u) : u[j] = s[((k + 1) + j) - 1]
  BY <1>1, SubSequence
<1> HIDE DEF t, u
<1>4. t # <<>> /\ Head(t) = s[k]
  BY <1>1, <1>2
<1>5. Tail(t) \in Seq(C) /\ Len(Tail(t)) = Len(u)
      /\ \A j \in 1 .. Len(u) : Tail(t)[j] = t[j + 1]
  <2>1. /\ Tail(t) \in Seq(C) /\ Len(Tail(t)) = Len(t) - 1
        /\ \A j \in 1 .. (Len(t) - 1) : Tail(t)[j] = t[j + 1]
    BY <1>2, <1>4, AllButFirst
  <2>2. Len(t) - 1 = Len(u)
    BY <1>1, <1>2, <1>3
  <2> QED
    BY <2>1, <2>2
<1>6. \A j \in 1 .. Len(u) : Tail(t)[j] = u[j]
  <2> SUFFICES ASSUME NEW j \in 1 .. Len(u) PROVE Tail(t)[j] = u[j]
    OBVIOUS
  <2>1. j + 1 \in 1 .. Len(t) /\ (k + (j + 1)) - 1 = ((k + 1) + j) - 1
    BY <1>1, <1>2, <1>3
  <2> QED
    BY <1>2, <1>3, <1>5, <2>1
<1>7. Tail(t) = u
  BY <1>3, <1>5, <1>6, SeqEqual
<1> QED
  BY <1>2, <1>3, <1>4, <1>5, <1>7 DEF t, u

LEMMA UnsentFacts ==
  ASSUME PortInv, IsText(text), ~Printed
  PROVE  /\ Unsent # <<>> /\ Head(Unsent) = text[at]
         /\ Tail(Unsent) = SubSeq(text, at + 1, Len(text))
         /\ AsLines(Unsent) = AsLine(text[at]) \o AsLines(Tail(Unsent))
         /\ AsLines(Tail(Unsent)) \in Seq(Range(text) \cup {CR, LF})
         /\ text[at] \in Range(text)
<1>1. text \in Seq(Range(text)) /\ at \in 1 .. Len(text)
  BY DEF IsText, PortInv, SerialTypeOK, Printed
<1> DEFINE C == Range(text)
           n == Len(text)
<1>2. text \in Seq(C) /\ at \in 1 .. n /\ n \in Nat
  BY <1>1
<1> HIDE DEF C
<1>3. /\ Unsent \in Seq(C) /\ Unsent # <<>> /\ Head(Unsent) = text[at]
      /\ Tail(Unsent) \in Seq(C) /\ Tail(Unsent) = SubSeq(text, at + 1, n)
      /\ text[at] \in C
  <2>1. Unsent = SubSeq(text, at, n)
    BY DEF Unsent
  <2>2. text[at] \in C
    BY <1>2
  <2> QED
    BY <1>2, <2>1, <2>2, RestOf
<1>4. AsLines(Unsent) = AsLine(Head(Unsent)) \o AsLines(Tail(Unsent))
  BY <1>3, CharacterAsLine
<1>5. AsLines(Tail(Unsent)) \in Seq(C \cup {CR, LF})
  BY <1>3, CharacterAsLine
<1> QED
  BY <1>3, <1>4, <1>5 DEF C

(* COM_WriteString() sends a character: the queue's first leaves.          *)
LEMMA SendStep ==
  ASSUME PortInv, COM_Ready, IsText(text), COM_WriteChar
  PROVE  StreamOf!Send
<1>1. /\ ~Printed /\ tx = <<>>
      /\ Outb(0, IF crSent' THEN CR ELSE text[at])
      /\ at' = IF crSent' THEN at ELSE at + 1
      /\ text' = text /\ c' = c
  BY Zenon DEF COM_WriteChar, COM_SendChar, COM_IsTxEmpty
<1>2. crSent' <=> (text[at] = LF /\ ~crSent)
  BY Zenon DEF COM_WriteChar
<1>3. Selects(0) = "thr"
  BY DEF PortInv, UartOK, COM_Ready, Selects
<1>4. rx' = rx /\ tx' = <<IF crSent' THEN CR ELSE text[at]>>
  <2>1. PICK a : a = IF crSent' THEN CR ELSE text[at]
    OBVIOUS
  <2>2. Outb(0, a)
    BY <1>1, <2>1, Zenon
  <2>3. rx' = rx /\ tx' = Append(tx, a)
    BY <1>3, <2>2 DEF Outb
  <2>4. tx' = <<a>>
    BY <1>1, <2>3
  <2> QED
    BY <2>1, <2>3, <2>4, Zenon
<1> DEFINE u == AsLines(Tail(Unsent))
           T == Range(text) \cup {CR, LF}
<1>5. /\ AsLines(Unsent) = AsLine(text[at]) \o u
      /\ u \in Seq(T) /\ text[at] \in T /\ LF \in T /\ CR \in T
  BY <1>1, UnsentFacts
<1>6. Tail(Unsent) = SubSeq(text, at + 1, Len(text))
  BY <1>1, UnsentFacts
<1> HIDE DEF u, T
<1>7. ~crSent => Queue = AsLine(text[at]) \o u
  BY <1>5, Zenon DEF Queue
<1>8. crSent => Queue = <<LF>> \o u /\ text[at] = LF
  BY Zenon DEF Queue, PortInv, SerialTypeOK, u
<1>9. crSent' => Queue' = <<LF>> \o u
  <2>1. at' = at /\ text' = text => Unsent' = Unsent
    BY Zenon DEF Unsent
  <2> QED
    BY <1>1, <2>1, Zenon DEF Queue, u
<1>10. ~crSent' => Queue' = u
  <2>1. at' = at + 1 /\ text' = text => Unsent' = Tail(Unsent)
    BY <1>6, Zenon DEF Unsent
  <2> QED
    BY <1>1, <2>1, Zenon DEF Queue, u
<1>11. CASE crSent'
  <2>1. text[at] = LF /\ Queue = AsLine(LF) \o u
    BY <1>2, <1>7, <1>11, Zenon
  <2>2. AsLine(LF) \o u = <<CR>> \o (<<LF>> \o u)
    <3>1. AsLine(LF) = <<CR>> \o <<LF>>
      BY DEF AsLine
    <3>2. <<CR>> \in Seq(T) /\ <<LF>> \in Seq(T)
      BY <1>5
    <3>3. \A r, s, t \in Seq(T) : (r \o s) \o t = r \o (s \o t)
      OBVIOUS
    <3> QED
      BY <1>5, <3>1, <3>2, <3>3
  <2>3. <<LF>> \o u \in Seq(T)
    BY <1>5
  <2>4. Queue # <<>> /\ Head(Queue) = CR /\ Tail(Queue) = <<LF>> \o u
    BY <1>5, <2>1, <2>2, <2>3, InFront
  <2>5. tx' = <<CR>>
    BY <1>4, <1>11, Zenon
  <2>6. Queue' = Tail(Queue)
    BY <1>9, <1>11, <2>4
  <2>7. tx' = <<Head(Queue)>>
    BY <2>4, <2>5
  <2> QED
    BY <1>1, <1>4, <2>4, <2>6, <2>7, StreamParts, Zenon
<1>12. CASE ~crSent'
  <2>1. Queue = <<text[at]>> \o u
    <3>1. CASE crSent
      BY <1>8, <3>1
    <3>2. CASE ~crSent
      <4>1. text[at] # LF
        BY <1>2, <1>12, <3>2
      <4>2. AsLine(text[at]) = <<text[at]>>
        BY <4>1 DEF AsLine
      <4> QED
        BY <1>7, <3>2, <4>2
    <3> QED
      BY <3>1, <3>2
  <2>2. Queue # <<>> /\ Head(Queue) = text[at] /\ Tail(Queue) = u
    BY <1>5, <2>1, InFront
  <2>3. tx' = <<text[at]>>
    BY <1>4, <1>12, Zenon
  <2>4. Queue' = Tail(Queue)
    BY <1>10, <1>12, <2>2
  <2>5. tx' = <<Head(Queue)>>
    BY <2>2, <2>3
  <2> QED
    BY <1>1, <1>4, <2>2, <2>4, <2>5, StreamParts, Zenon
<1> QED
  BY <1>11, <1>12

LEMMA VarsKept ==
  ASSUME UNCHANGED <<text, Queue, tx, rx, c>>
  PROVE  UNCHANGED StreamOf!streamVars
BY Zenon DEF Queue, StreamOf!streamVars

LEMMA StreamStutters ==
  ASSUME UNCHANGED serial
  PROVE  UNCHANGED StreamOf!streamVars
<1>1. text' = text /\ at' = at /\ crSent' = crSent /\ tx' = tx /\ rx' = rx /\ c' = c
  BY Zenon DEF serial
<1>2. Queue' = Queue
  BY <1>1, QueueKept, Zenon
<1> QED
  BY <1>1, <1>2, VarsKept, Zenon

LEMMA StreamStep == IInv /\ [Next]_vars => [StreamOf!StreamNext]_(StreamOf!streamVars)
<1> SUFFICES ASSUME IInv, [Next]_vars PROVE [StreamOf!StreamNext]_(StreamOf!streamVars)
  OBVIOUS
<1> USE DEF StreamOf!StreamNext
<1>1. PortInv /\ ScriptOK /\ CallsOK /\ IsText(text) /\ build \in Builds
  BY Parts, CallsFacts DEF IInv
<1>2. IsText(text')
  BY CallsStep DEF CallsOK, IsText
<1>3. CASE PrintString \/ PrintInt \/ PrintLong \/ PrintKey \/ PrintEntry \/ PrintTime
  <2>1. Printed /\ \E str : fputs(str)
    BY <1>3, Zenon DEF PrintString, PrintInt, PrintLong, PrintKey, PrintEntry, PrintTime, Prints, At
  <2>2. fputs(text')
    BY <2>1, Zenon DEF fputs
  <2>3. StreamOf!Say
    BY <1>1, <1>2, <2>1, <2>2, SayStep
  <2> QED
    BY <2>3, Zenon
<1>4. CASE InitPort
  <2>1. At("COM_Init") /\ COM_Init
    BY <1>4 DEF InitPort
  <2>2. text = <<>> /\ tx = <<>>
    BY <1>1, <2>1, AtFacts
  <2>3. tx' = <<>> /\ rx' \in {rx, <<>>} /\ text' = text /\ at' = at
    BY <1>1, <2>1, <2>2, InitPortKeeps
  <2>4. crSent' = crSent /\ c' = c
    BY <2>1, Zenon DEF COM_Init
  <2>5. Queue' = Queue
    BY <2>3, <2>4, QueueKept, Zenon
  <2>6. UNCHANGED <<text, Queue, tx, c>>
    BY <2>2, <2>3, <2>4, <2>5, Zenon
  <2>7. CASE rx' = rx
    BY <2>6, <2>7, VarsKept, Zenon
  <2>8. CASE rx' = <<>>
    <3>1. StreamOf!Clear
      BY <2>2, <2>6, <2>8, StreamParts, Zenon
    <3> QED
      BY <3>1, Zenon
  <2> QED
    BY <2>3, <2>7, <2>8
<1>5. CASE SendChar
  <2>1. COM_WriteChar
    BY <1>5, Zenon DEF SendChar
  <2>2. text # <<>>
    <3>1. ~Printed
      BY <2>1, Zenon DEF COM_WriteChar
    <3> QED
      BY <3>1 DEF Printed
  <2>3. COM_Ready
    BY <1>1, <2>2, Ready
  <2>4. StreamOf!Send
    BY <1>1, <2>1, <2>3, SendStep
  <2> QED
    BY <2>4, Zenon
<1>6. CASE ReadKey \/ Pause
  <2>1. /\ rx # <<>> /\ rx' = Tail(rx) /\ text' = text /\ at' = at /\ tx' = tx
        /\ (ReadKey /\ c' = Head(rx)) \/ c' = c
    BY <1>6, Zenon DEF ReadKey, Pause, COM_ReadChar, COM_IsRxReady
  <2>2. crSent' = crSent
    BY <1>6, Zenon DEF ReadKey, Pause, COM_ReadChar
  <2>3. Queue' = Queue
    BY <2>1, <2>2, QueueKept, Zenon
  <2>4. ASSUME ReadKey PROVE c = NONE
    <3>1. script # <<>> /\ script[1].op = "getchar"
      BY <2>4 DEF ReadKey, At
    <3>2. Quota = 1
      BY <1>1, <3>1, CallsFacts, AskTail
    <3> QED
      BY <3>2 DEF Quota
  <2>5. (c = NONE /\ c' = Head(rx)) \/ c' = c
    BY <2>1, <2>4
  <2>6. StreamOf!Read
    BY <2>1, <2>3, <2>5, StreamParts, Zenon
  <2> QED
    BY <2>6, Zenon
<1>7. CASE \/ Switch \/ CallGetTime \/ GetTime \/ Break \/ GetInfo \/ ListModes
           \/ SecondPasses \/ ClockUpdates \/ UNCHANGED vars
  <2>1. UNCHANGED serial
    BY <1>7, Zenon DEF Switch, CallGetTime, GetTime, Break, GetInfo, ListModes, SecondPasses,
       ClockUpdates, vars
  <2>2. UNCHANGED StreamOf!streamVars
    BY <2>1, StreamStutters
  <2> QED
    BY <2>2, Zenon
<1>8. CASE Again
  <2>1. text' = text /\ at' = at /\ tx' = tx /\ rx' = rx /\ c' = NONE
    BY <1>8, Zenon DEF Again
  <2>2. crSent' = crSent
    BY <1>8, Zenon DEF Again
  <2>3. Queue' = Queue
    BY <2>1, <2>2, QueueKept, Zenon
  <2>4. StreamOf!Answered
    BY <2>1, <2>3, StreamParts, Zenon
  <2> QED
    BY <2>4, Zenon
<1>9. CASE Port
  <2>1. /\ Transmit /\ tx # <<>> /\ text' = text /\ at' = at /\ rx' = rx /\ c' = c
    BY <1>9, Zenon DEF Port, Transmit
  <2>2. crSent' = crSent
    BY <2>1, Zenon DEF Transmit
  <2>3. tx' = <<>>
    BY <1>1, <2>1, TransmitKeeps
  <2>4. Queue' = Queue
    BY <2>1, <2>2, QueueKept, Zenon
  <2>5. StreamOf!Arrive
    BY <2>1, <2>3, <2>4, StreamParts, Zenon
  <2> QED
    BY <2>5, Zenon
<1>10. CASE Typing
  <2>1. PICK k \in Typed[build] : Receive(k)
    BY <1>10 DEF Typing
  <2>2. k \in Key
    BY <1>1, DemosAssumption
  <2>3. /\ Len(rx) < FifoSize /\ rx' = Append(rx, k)
        /\ text' = text /\ at' = at /\ tx' = tx /\ c' = c
    BY <2>1, Zenon DEF Receive
  <2>4. crSent' = crSent
    BY <2>1, Zenon DEF Receive
  <2>5. Queue' = Queue
    BY <2>3, <2>4, QueueKept, Zenon
  <2>6. StreamOf!Type
    BY <2>2, <2>3, <2>5, StreamParts, Zenon
  <2> QED
    BY <2>6, Zenon
<1> QED
  BY <1>3, <1>4, <1>5, <1>6, <1>7, <1>8, <1>9, <1>10, Zenon DEF Next, Program

(* stdio over the polled port implements Stream: everything printed is     *)
(* sent once, in order, with a carriage return before each line feed, and  *)
(* the keys typed reach getchar() in the order they were typed, each       *)
(* answered before the next is read.                                       *)
THEOREM ImplementsStream == Spec => StreamOf!StreamSafe
<1>1. Init => StreamOf!StreamInit
  <2> SUFFICES ASSUME Init PROVE StreamOf!StreamInit
    OBVIOUS
  <2>1. text = <<>> /\ at = 1 /\ tx = <<>> /\ rx = <<>> /\ c = NONE
    BY DEF Init, SerialInit
  <2>2. ~crSent
    BY Zenon DEF Init, SerialInit
  <2>3. Unsent = <<>>
    BY <2>1 DEF Unsent
  <2>4. Queue = <<>>
    BY <2>2, <2>3, NothingAsLines, Zenon DEF Queue
  <2> QED
    BY <2>1, <2>4, StreamParts, Zenon
<1>2. IInv /\ [Next]_vars => [StreamOf!StreamNext]_(StreamOf!streamVars)
  BY StreamStep
<1> QED
  BY <1>1, <1>2, DemosInvariant, PTL DEF Spec, StreamOf!StreamSafe

-----------------------------------------------------------------------------
(* What a printed number says.  The place k of a number is its digit k from*)
(* the right, "0" where it has none.                                       *)
Place(u, base, k) == IF k <= Len(Digits(u, base)) THEN Digits(u, base)[k] ELSE "0"

LEMMA DigitValues ==
  /\ \A d \in 0 .. 15 : DigitValue(DigitChar[d + 1]) = d
  /\ \A d \in 0 .. 9 : DigitChar[d + 1] \in DecimalDigits
  /\ \A d \in 0 .. 15 : DigitChar[d + 1] \notin {"-", "+", SP}
  /\ \A ch \in DecimalDigits : ch \notin {"-", "+", SP}
<1>1. \A d, e \in 0 .. 15 : DigitChar[d + 1] = DigitChar[e + 1] => d = e
  BY DEF DigitChar
<1>2. ASSUME NEW d \in 0 .. 15 PROVE DigitValue(DigitChar[d + 1]) = d
  <2> DEFINE P(e) == DigitChar[e + 1] = DigitChar[d + 1]
  <2>1. DigitValue(DigitChar[d + 1]) = CHOOSE e \in 0 .. 15 : P(e)
    BY DEF DigitValue
  <2>2. P(d) /\ \A e \in 0 .. 15 : P(e) => e = d
    BY <1>1
  <2> HIDE DEF P
  <2> QED
    BY <2>1, <2>2
<1>3. \A d \in 0 .. 15 : DigitChar[d + 1] \notin {"-", "+", SP}
  BY DEF DigitChar, SP
<1>4. \A d \in 0 .. 9 : DigitChar[d + 1] \in DecimalDigits
  <2>1. \A d \in 0 .. 9 : d + 1 \in 1 .. 10
    OBVIOUS
  <2> QED
    BY <2>1 DEF DecimalDigits
<1>5. ASSUME NEW ch \in DecimalDigits PROVE ch \notin {"-", "+", SP}
  <2>1. PICK k \in 1 .. 10 : ch = DigitChar[k]
    BY DEF DecimalDigits
  <2>2. k - 1 \in 0 .. 15 /\ (k - 1) + 1 = k
    OBVIOUS
  <2> QED
    BY <1>3, <2>1, <2>2
<1> QED
  BY <1>2, <1>3, <1>4, <1>5

LEMMA DigitOfValue ==
  ASSUME NEW base \in {10, 16}, NEW u \in Nat
  PROVE  /\ DigitValue(DigitOf(u, base)) = u % base
         /\ DigitOf(u, base) \notin {"-", "+", SP}
         /\ base = 10 => DigitOf(u, base) \in DecimalDigits
<1>1. u % base \in 0 .. 15 /\ (base = 10 => u % base \in 0 .. 9)
  OBVIOUS
<1> DEFINE d == u % base
<1>2. d \in 0 .. 15 /\ (base = 10 => d \in 0 .. 9)
  BY <1>1
<1>3. DigitOf(u, base) = DigitChar[d + 1]
  BY DEF DigitOf
<1> HIDE DEF d
<1>4. /\ DigitValue(DigitOf(u, base)) = d
      /\ DigitOf(u, base) \notin {"-", "+", SP}
      /\ base = 10 => DigitOf(u, base) \in DecimalDigits
  BY <1>2, <1>3, DigitValues
<1> QED
  BY <1>4 DEF d

LEMMA PlaceEquation ==
  ASSUME NEW base \in {10, 16}, NEW u \in Nat
  PROVE  /\ u \div base \in Nat /\ u = base * (u \div base) + (u % base) /\ u % base \in Nat
         /\ Place(u, base, 1) = DigitOf(u, base)
         /\ \A k \in Nat \ {0} : Place(u, base, k + 1) = Place(u \div base, base, k)
         /\ Len(Digits(u, base)) \in Nat
         /\ Len(Digits(u, base)) =
              IF u = 0 THEN 0 ELSE Len(Digits(u \div base, base)) + 1
<1> DEFINE v == u \div base
           s == Digits(u, base)
           t == Digits(v, base)
           C == Range(DigitChar)
<1>1. v \in Nat /\ u = base * v + (u % base) /\ u % base \in Nat /\ (u = 0 => v = 0)
  OBVIOUS
<1>2. s \in Seq(C) /\ t \in Seq(C)
  BY <1>1, DigitsEquation
<1>3. CASE u = 0
  <2>1. s = <<>> /\ t = <<>>
    BY <1>1, <1>3, DigitsEquation
  <2>2. DigitOf(u, base) = "0"
    BY <1>3 DEF DigitOf, DigitChar
  <2>3. \A k \in Nat \ {0} : Place(u, base, k) = "0" /\ Place(v, base, k) = "0"
    BY <2>1 DEF Place
  <2>4. 1 \in Nat \ {0} /\ \A k \in Nat \ {0} : k + 1 \in Nat \ {0}
    OBVIOUS
  <2>5. Len(s) = 0
    BY <2>1
  <2> HIDE DEF s, t, v
  <2>6. /\ Place(u, base, 1) = DigitOf(u, base)
        /\ \A k \in Nat \ {0} : Place(u, base, k + 1) = Place(v, base, k)
    BY <2>2, <2>3, <2>4
  <2> QED
    BY <1>1, <1>3, <2>5, <2>6 DEF s, v
<1>4. CASE u # 0
  <2>1. s = <<DigitOf(u, base)>> \o t
    BY <1>4, DigitsEquation
  <2>2. DigitOf(u, base) \in C
    BY DigitChars
  <2> HIDE DEF s, t, C, v
  <2>3. /\ Len(s) = Len(t) + 1 /\ Len(t) \in Nat
        /\ s[1] = DigitOf(u, base)
        /\ \A k \in 1 .. Len(t) : s[k + 1] = t[k]
    BY <1>2, <2>1, <2>2
  <2>4. Place(u, base, 1) = DigitOf(u, base)
    BY <2>3 DEF Place, s
  <2>5. ASSUME NEW k \in Nat \ {0} PROVE Place(u, base, k + 1) = Place(v, base, k)
    <3>1. k + 1 <= Len(s) <=> k <= Len(t)
      BY <2>3
    <3>2. k <= Len(t) => k \in 1 .. Len(t)
      BY <2>3
    <3> QED
      BY <2>3, <3>1, <3>2 DEF Place, s, t
  <2>6. Len(s) \in Nat
    BY <2>3
  <2> QED
    BY <1>1, <1>4, <2>3, <2>4, <2>5, <2>6 DEF s, t, v
<1> QED
  BY <1>3, <1>4

Splits(u, base, v, d) ==
  /\ v \in Nat /\ u = base * v + d /\ d \in Nat
  /\ Place(u, base, 1) = DigitOf(u, base)
  /\ \A k \in Nat \ {0} : Place(u, base, k + 1) = Place(v, base, k)
  /\ Len(Digits(u, base)) = IF u = 0 THEN 0 ELSE Len(Digits(v, base)) + 1

LEMMA LastDigit ==
  ASSUME NEW base \in {10, 16}, NEW u \in Nat
  PROVE  Splits(u, base, u \div base, u % base)
BY PlaceEquation DEF Splits

LEMMA PlaceIsDigit ==
  ASSUME NEW base \in {10, 16}
  PROVE  \A k \in Nat : \A u \in Nat : \E v \in Nat : Place(u, base, k + 1) = DigitOf(v, base)
<1> DEFINE I == {k \in Nat : \A u \in Nat : \E v \in Nat : Place(u, base, k + 1) = DigitOf(v, base)}
<1>1. 0 \in I
  <2>1. ASSUME NEW u \in Nat PROVE Place(u, base, 1) = DigitOf(u, base)
    BY PlaceEquation
  <2>2. ASSUME NEW u \in Nat PROVE \E v \in Nat : Place(u, base, 1) = DigitOf(v, base)
    BY <2>1
  <2>3. 0 \in Nat /\ 0 + 1 = 1
    OBVIOUS
  <2> QED
    BY <2>2, <2>3
<1>2. ASSUME NEW k \in I PROVE k + 1 \in I
  <2>1. k \in Nat /\ k + 1 \in Nat \ {0} /\ k + 1 \in Nat
    OBVIOUS
  <2>2. ASSUME NEW u \in Nat
        PROVE  \E v \in Nat : Place(u, base, (k + 1) + 1) = DigitOf(v, base)
    <3>1. /\ u \div base \in Nat
          /\ \A j \in Nat \ {0} : Place(u, base, j + 1) = Place(u \div base, base, j)
      BY PlaceEquation
    <3>2. \A v \in Nat : \E x \in Nat : Place(v, base, k + 1) = DigitOf(x, base)
      OBVIOUS
    <3> HIDE DEF I
    <3> DEFINE v == u \div base
    <3>3. v \in Nat /\ Place(u, base, (k + 1) + 1) = Place(v, base, k + 1)
      BY <2>1, <3>1
    <3> HIDE DEF v
    <3> QED
      BY <3>2, <3>3
  <2> QED
    BY <2>1, <2>2
<1>3. Nat \subseteq I
  <2>1. I \in SUBSET Nat
    OBVIOUS
  <2> HIDE DEF I
  <2> QED
    BY <1>1, <1>2, <2>1, Induction
<1> QED
  BY <1>3

-----------------------------------------------------------------------------
(* Value(), read from the left: h has the value of every prefix.           *)
Reads(h, s, base) ==
  /\ h \in [0 .. Len(s) -> Nat] /\ h[0] = 0
  /\ \A n \in 1 .. Len(s) : h[n] = base * h[n - 1] + DigitValue(s[n])

LEMMA ReadsUnique ==
  ASSUME NEW s, Len(s) \in Nat, NEW base \in {10, 16}, NEW h, Reads(h, s, base)
  PROVE  Value(s, base) = h[Len(s)]
<1> DEFINE E(r) == r = [n \in 0 .. Len(s) |->
                          IF n = 0 THEN 0 ELSE base * r[n - 1] + DigitValue(s[n])]
           result == CHOOSE r : E(r)
<1>1. Value(s, base) = result[Len(s)]
  BY DEF Value
<1>2. E(h)
  <2>1. \A n \in 0 .. Len(s) : h[n] = IF n = 0 THEN 0 ELSE base * h[n - 1] + DigitValue(s[n])
    <3>1. \A n \in 0 .. Len(s) : n # 0 => n \in 1 .. Len(s)
      OBVIOUS
    <3> QED
      BY <3>1 DEF Reads
  <2>2. h = [n \in 0 .. Len(s) |-> h[n]]
    BY DEF Reads
  <2> QED
    BY <2>1, <2>2
<1>3. E(result)
  BY <1>2
<1>4. \A n \in 0 .. Len(s) : result[n] = IF n = 0 THEN 0
                                         ELSE base * result[n - 1] + DigitValue(s[n])
  <2> HIDE DEF result
  <2> QED
    BY <1>3
<1> HIDE DEF result, E
<1> DEFINE T == {n \in 0 .. Len(s) : result[n] # h[n]}
<1>5. ASSUME T # {} PROVE FALSE
  <2>1. T \subseteq Nat
    OBVIOUS
  <2>2. PICK n \in T : \A k \in T : n <= k
    <3> HIDE DEF T
    <3> QED
      BY <1>5, <2>1, LeastNatural
  <2>3. n \in 0 .. Len(s) /\ result[n] # h[n]
    OBVIOUS
  <2>4. n # 0
    BY <1>4, <2>3 DEF Reads
  <2>5. n \in 1 .. Len(s) /\ n - 1 \in 0 .. Len(s) /\ ~(n <= n - 1)
    BY <2>3, <2>4
  <2>6. result[n - 1] = h[n - 1]
    BY <2>2, <2>5
  <2>7. h[n] = base * h[n - 1] + DigitValue(s[n])
    BY <2>5 DEF Reads
  <2>8. result[n] = base * result[n - 1] + DigitValue(s[n])
    BY <1>4, <2>3, <2>4
  <2> QED
    BY <2>3, <2>6, <2>7, <2>8
<1>6. Len(s) \in 0 .. Len(s)
  OBVIOUS
<1> QED
  BY <1>1, <1>5, <1>6

LEMMA ReadsNothing ==
  ASSUME NEW s, Len(s) = 0, NEW base
  PROVE  Reads([n \in 0 .. 0 |-> 0], s, base)
BY DEF Reads

LEMMA ReadsOneMore ==
  ASSUME NEW s, Len(s) \in Nat, NEW base \in {10, 16}, NEW h, Reads(h, s, base),
         NEW t, Len(t) = Len(s) + 1, \A k \in 1 .. Len(s) : t[k] = s[k],
         NEW d \in Nat, DigitValue(t[Len(t)]) = d
  PROVE  \E r : Reads(r, t, base) /\ r[Len(t)] = base * h[Len(s)] + d
<1> DEFINE n == Len(s)
           v == base * h[n] + d
           r == [k \in 0 .. n + 1 |-> IF k <= n THEN h[k] ELSE v]
<1>1. n \in Nat /\ Len(t) = n + 1 /\ h \in [0 .. n -> Nat] /\ h[0] = 0
  BY DEF Reads
<1>2. v \in Nat
  <2>1. h[n] \in Nat
    BY <1>1
  <2> HIDE DEF n
  <2> QED
    BY <2>1
<1>3. \A k \in 1 .. n : h[k] = base * h[k - 1] + DigitValue(t[k])
  BY DEF Reads
<1> HIDE DEF n, v
<1>4. r \in [0 .. n + 1 -> Nat] /\ r[0] = 0 /\ r[n + 1] = v
  BY <1>1, <1>2
<1>5. ASSUME NEW k \in 1 .. n + 1 PROVE r[k] = base * r[k - 1] + DigitValue(t[k])
  <2>1. CASE k <= n
    <3>1. k \in 1 .. n /\ k \in 0 .. n + 1 /\ k - 1 \in 0 .. n + 1 /\ k - 1 <= n
      BY <1>1, <2>1
    <3>2. r[k] = h[k] /\ r[k - 1] = h[k - 1]
      BY <2>1, <3>1
    <3> QED
      BY <1>3, <3>1, <3>2
  <2>2. CASE ~(k <= n)
    <3>1. k = n + 1 /\ k - 1 = n /\ n \in 0 .. n + 1
      BY <1>1, <2>2
    <3>2. r[k] = v /\ r[k - 1] = h[n] /\ DigitValue(t[k]) = d
      BY <1>1, <1>4, <3>1
    <3> QED
      BY <3>2 DEF v
  <2> QED
    BY <2>1, <2>2
<1> HIDE DEF r
<1>6. Reads(r, t, base) /\ r[Len(t)] = v
  BY <1>1, <1>4, <1>5 DEF Reads
<1> QED
  BY <1>6 DEF v, n

LEMMA DividesOnce ==
  ASSUME NEW M \in Nat \ {0}, NEW x \in Int, NEW q \in Int, NEW r \in 0 .. M - 1,
         x = M * q + r
  PROVE  x % M = r
OBVIOUS

LEMMA LowHex ==
  ASSUME NEW u \in Nat, NEW P \in Nat \ {0}
  PROVE  16 * ((u \div 16) % P) + (u % 16) = u % (16 * P)
<1> DEFINE v == u \div 16
           r == u % 16
           a == v \div P
           b == v % P
<1>1. v \in Nat /\ r \in 0 .. 15 /\ u = 16 * v + r
  OBVIOUS
<1> HIDE DEF v, r
<1>2. a \in Int /\ b \in 0 .. P - 1 /\ v = P * a + b
  BY <1>1
<1> HIDE DEF a, b
<1>3. u = (16 * P) * a + (16 * b + r)
  BY <1>1, <1>2
<1>4. 16 * P \in Nat \ {0} /\ 16 * b + r \in 0 .. (16 * P) - 1
  BY <1>1, <1>2
<1>5. u % (16 * P) = 16 * b + r
  <2> DEFINE M == 16 * P
             y == 16 * b + r
  <2>1. u \in Int /\ a \in Int /\ M \in Nat \ {0} /\ y \in 0 .. M - 1 /\ u = M * a + y
    BY <1>2, <1>3, <1>4
  <2> HIDE DEF M, y
  <2>2. u % M = y
    BY <2>1, DividesOnce
  <2> QED
    BY <2>2 DEF M, y
<1> QED
  BY <1>5 DEF a, b, v, r

LEMMA FirstPart ==
  ASSUME NEW S, NEW s \in Seq(S), NEW n \in Nat, n <= Len(s)
  PROVE  /\ SubSeq(s, 1, n) \in Seq(S) /\ Len(SubSeq(s, 1, n)) = n
         /\ \A k \in 1 .. n : SubSeq(s, 1, n)[k] = s[k]
OBVIOUS

LEMMA LastPart ==
  ASSUME NEW S, NEW s \in Seq(S), NEW n \in Nat, n <= Len(s)
  PROVE  /\ SubSeq(s, n + 1, Len(s)) \in Seq(S)
         /\ Len(SubSeq(s, n + 1, Len(s))) = Len(s) - n
         /\ \A k \in 1 .. (Len(s) - n) : SubSeq(s, n + 1, Len(s))[k] = s[n + k]
OBVIOUS

LEMMA TwoToSum ==
  ASSUME NEW m \in Nat
  PROVE  \A n \in Nat : TwoTo[m + n] = TwoTo[m] * TwoTo[n]
<1> DEFINE I == {n \in Nat : TwoTo[m + n] = TwoTo[m] * TwoTo[n]}
<1>1. 0 \in I
  <2>1. m + 0 = m /\ TwoTo[m] \in Nat /\ TwoTo[0] = 1
    BY TwoToEquation
  <2> QED
    BY <2>1
<1>2. ASSUME NEW n \in I PROVE n + 1 \in I
  <2>1. n \in Nat /\ n + 1 \in Nat /\ m + n \in Nat /\ m + (n + 1) = (m + n) + 1
    OBVIOUS
  <2>2. /\ TwoTo[(m + n) + 1] = 2 * TwoTo[m + n] /\ TwoTo[n + 1] = 2 * TwoTo[n]
        /\ TwoTo[m] \in Nat /\ TwoTo[n] \in Nat
    BY <2>1, TwoToEquation
  <2>3. TwoTo[m + n] = TwoTo[m] * TwoTo[n]
    OBVIOUS
  <2>4. \A a, b \in Nat : 2 * (a * b) = a * (2 * b)
    OBVIOUS
  <2>5. 2 * (TwoTo[m] * TwoTo[n]) = TwoTo[m] * (2 * TwoTo[n])
    BY <2>2, <2>4
  <2>6. TwoTo[m + (n + 1)] = TwoTo[m] * TwoTo[n + 1]
    BY <2>1, <2>2, <2>3, <2>5
  <2> QED
    BY <2>1, <2>6
<1>3. Nat \subseteq I
  <2>1. I \in SUBSET Nat
    OBVIOUS
  <2> HIDE DEF I
  <2> QED
    BY <1>1, <1>2, <2>1, Induction
<1> QED
  BY <1>3

LEMMA TwoToFacts ==
  /\ TwoTo[0] = 1
  /\ \A n \in Nat : TwoTo[n + 4] = 16 * TwoTo[n]
  /\ \A m, n \in Nat : m <= n => \E k \in Nat \ {0} : TwoTo[n] = TwoTo[m] * k
  /\ \A m, n \in Nat : m <= n => TwoTo[m] <= TwoTo[n]
<1>1. ASSUME NEW n \in Nat PROVE TwoTo[n + 4] = 16 * TwoTo[n]
  <2>1. n + 1 \in Nat /\ n + 2 \in Nat /\ n + 3 \in Nat /\ (n + 1) + 1 = n + 2
        /\ (n + 2) + 1 = n + 3 /\ (n + 3) + 1 = n + 4
    OBVIOUS
  <2>2. /\ TwoTo[n + 1] = 2 * TwoTo[n] /\ TwoTo[n + 2] = 2 * TwoTo[n + 1]
        /\ TwoTo[n + 3] = 2 * TwoTo[n + 2] /\ TwoTo[n + 4] = 2 * TwoTo[n + 3]
        /\ TwoTo[n] \in Nat
    BY <2>1, TwoToEquation
  <2> QED
    BY <2>2
<1>2. ASSUME NEW m \in Nat, NEW n \in Nat, m <= n
      PROVE  (\E k \in Nat \ {0} : TwoTo[n] = TwoTo[m] * k) /\ TwoTo[m] <= TwoTo[n]
  <2>1. n - m \in Nat /\ m + (n - m) = n
    BY <1>2
  <2>2. TwoTo[n] = TwoTo[m] * TwoTo[n - m]
    BY <2>1, TwoToSum
  <2>3. TwoTo[n - m] \in Nat \ {0} /\ TwoTo[m] \in Nat
    BY <2>1, TwoToEquation
  <2>4. \A a \in Nat, b \in Nat \ {0} : a <= a * b
    OBVIOUS
  <2> QED
    BY <2>2, <2>3, <2>4
<1> QED
  BY <1>1, <1>2, TwoToEquation

LEMMA NestedRemainder ==
  ASSUME NEW x \in Int, NEW M \in Nat \ {0}, NEW k \in Nat \ {0}
  PROVE  (x % (M * k)) % M = x % M
<1> DEFINE N == M * k
           y == x % N
           q == x \div N
           r == y % M
           p == y \div M
<1>1. N \in Nat \ {0}
  OBVIOUS
<1>2. y \in Nat /\ q \in Int /\ x = N * q + y
  <2> HIDE DEF N
  <2> QED
    BY <1>1
<1> HIDE DEF y, q
<1>3. r \in 0 .. M - 1 /\ p \in Int /\ y = M * p + r
  BY <1>2
<1> HIDE DEF r, p
<1>4. x = M * (k * q + p) + r /\ k * q + p \in Int
  BY <1>2, <1>3 DEF N
<1> DEFINE z == k * q + p
<1>5. x = M * z + r /\ z \in Int
  BY <1>4
<1> HIDE DEF z
<1>6. x % M = r
  BY <1>3, <1>5, DividesOnce
<1> QED
  BY <1>6 DEF r, y, N

-----------------------------------------------------------------------------
(* A text whose characters are the last w places of u, first one first.    *)
Shows(s, u, base, w) ==
  /\ s \in Seq(Chars) /\ Len(s) = w
  /\ \A j \in 1 .. w : s[j] = Place(u, base, (w + 1) - j)

LEMMA ShownValue ==
  ASSUME NEW base \in {10, 16}
  PROVE  \A w \in Nat : \A u \in Nat, s \in Seq(Chars) : Shows(s, u, base, w) =>
           \E h : /\ Reads(h, s, base)
                  /\ Len(Digits(u, base)) <= w => h[w] = u
                  /\ base = 16 => h[w] = u % TwoTo[4 * w]
<1> DEFINE I == {w \in Nat : \A u \in Nat, s \in Seq(Chars) : Shows(s, u, base, w) =>
                   \E h : /\ Reads(h, s, base)
                          /\ Len(Digits(u, base)) <= w => h[w] = u
                          /\ base = 16 => h[w] = u % TwoTo[4 * w]}
<1>1. 0 \in I
  <2>1. ASSUME NEW u \in Nat, NEW s \in Seq(Chars), Shows(s, u, base, 0)
        PROVE  \E h : /\ Reads(h, s, base)
                      /\ Len(Digits(u, base)) <= 0 => h[0] = u
                      /\ base = 16 => h[0] = u % TwoTo[4 * 0]
    <3> DEFINE h == [n \in 0 .. 0 |-> 0]
    <3>1. Reads(h, s, base)
      BY <2>1, ReadsNothing DEF Shows
    <3>2. h[0] = 0
      OBVIOUS
    <3>3. Len(Digits(u, base)) <= 0 => u = 0
      <4>1. /\ u # 0 => Len(Digits(u, base)) = Len(Digits(u \div base, base)) + 1
            /\ u \div base \in Nat
        BY PlaceEquation
      <4>2. Len(Digits(u \div base, base)) \in Nat
        <5> DEFINE v == u \div base
        <5>1. v \in Nat
          BY <4>1
        <5> HIDE DEF v
        <5>2. Len(Digits(v, base)) \in Nat
          BY <5>1, PlaceEquation
        <5> QED
          BY <5>2 DEF v
      <4> QED
        BY <4>1, <4>2
    <3>4. u % TwoTo[4 * 0] = 0
      <4>1. 4 * 0 = 0 /\ u % 1 = 0
        OBVIOUS
      <4> QED
        BY <4>1, TwoToEquation
    <3> HIDE DEF h
    <3> QED
      BY <3>1, <3>2, <3>3, <3>4
  <2> QED
    BY <2>1
<1>2. ASSUME NEW w \in I PROVE w + 1 \in I
  <2>1. w \in Nat /\ w + 1 \in Nat
    OBVIOUS
  <2>2. ASSUME NEW u \in Nat, NEW s \in Seq(Chars), Shows(s, u, base, w + 1)
        PROVE  \E r : /\ Reads(r, s, base)
                      /\ Len(Digits(u, base)) <= w + 1 => r[w + 1] = u
                      /\ base = 16 => r[w + 1] = u % TwoTo[4 * (w + 1)]
    <3> DEFINE v == u \div base
               d == u % base
               t == SubSeq(s, 1, w)
    <3>1. Splits(u, base, v, d)
      BY LastDigit
    <3>2. DigitValue(DigitOf(u, base)) = d
      BY DigitOfValue
    <3>3. Len(s) = w + 1 /\ \A j \in 1 .. w + 1 : s[j] = Place(u, base, ((w + 1) + 1) - j)
      BY <2>2 DEF Shows
    <3>4. /\ t \in Seq(Chars) /\ Len(t) = w
          /\ \A k \in 1 .. w : t[k] = s[k]
      <4>1. w <= Len(s)
        BY <2>1, <3>3
      <4> QED
        BY <2>1, <4>1, FirstPart
    <3> HIDE DEF t, v, d
    <3>5. Shows(t, v, base, w)
      <4>1. ASSUME NEW j \in 1 .. w PROVE t[j] = Place(v, base, (w + 1) - j)
        <5>1. j \in 1 .. w + 1 /\ (w + 1) - j \in Nat \ {0}
              /\ ((w + 1) + 1) - j = ((w + 1) - j) + 1
          BY <2>1
        <5> QED
          BY <3>1, <3>3, <3>4, <5>1 DEF Splits
      <4> QED
        BY <3>4, <4>1 DEF Shows
    <3>6. PICK h : /\ Reads(h, t, base)
                   /\ Len(Digits(v, base)) <= w => h[w] = v
                   /\ base = 16 => h[w] = v % TwoTo[4 * w]
      BY <3>1, <3>4, <3>5 DEF Splits
    <3> HIDE DEF I
    <3>7. DigitValue(s[Len(s)]) = d
      <4>1. w + 1 \in 1 .. w + 1 /\ ((w + 1) + 1) - (w + 1) = 1
        BY <2>1
      <4> QED
        BY <3>1, <3>2, <3>3, <4>1 DEF Splits
    <3>8. PICK r : Reads(r, s, base) /\ r[Len(s)] = base * h[Len(t)] + d
      <4>1. Len(t) \in Nat /\ Len(s) = Len(t) + 1 /\ \A k \in 1 .. Len(t) : s[k] = t[k]
        BY <2>1, <3>3, <3>4
      <4>2. Reads(h, t, base) /\ d \in Nat
        BY <3>1, <3>6 DEF Splits
      <4> QED
        BY <3>7, <4>1, <4>2, ReadsOneMore
    <3>9. r[w + 1] = base * h[w] + d
      BY <3>3, <3>4, <3>8
    <3>10. Len(Digits(u, base)) <= w + 1 => r[w + 1] = u
      <4>1. Len(Digits(v, base)) \in Nat /\ (v = 0 => Len(Digits(v, base)) = 0)
        BY <3>1, PlaceEquation DEF Splits
      <4>2. u = 0 => v = 0
        BY DEF v
      <4>3. Len(Digits(u, base)) <= w + 1 => Len(Digits(v, base)) <= w
        <5>1. CASE u = 0
          BY <2>1, <4>1, <4>2, <5>1
        <5>2. CASE u # 0
          <6>1. Len(Digits(u, base)) = Len(Digits(v, base)) + 1
            BY <3>1, <5>2 DEF Splits
          <6> QED
            BY <2>1, <4>1, <6>1
        <5> QED
          BY <5>1, <5>2
      <4> QED
        BY <3>1, <3>6, <3>9, <4>3 DEF Splits
    <3>11. base = 16 => r[w + 1] = u % TwoTo[4 * (w + 1)]
      <4> SUFFICES ASSUME base = 16 PROVE r[w + 1] = u % TwoTo[4 * (w + 1)]
        OBVIOUS
      <4> DEFINE P == TwoTo[4 * w]
      <4>1. 4 * w \in Nat /\ 4 * (w + 1) = 4 * w + 4
        BY <2>1
      <4>2. P \in Nat \ {0} /\ TwoTo[4 * (w + 1)] = 16 * P
        BY <4>1, TwoToEquation, TwoToFacts
      <4>3. r[w + 1] = 16 * ((u \div 16) % P) + (u % 16)
        BY <3>6, <3>9 DEF v, d
      <4> HIDE DEF P
      <4> QED
        BY <4>2, <4>3, LowHex
    <3> QED
      BY <3>8, <3>10, <3>11
  <2> QED
    BY <2>1, <2>2
<1>3. Nat \subseteq I
  <2>1. I \in SUBSET Nat
    OBVIOUS
  <2> HIDE DEF I
  <2> QED
    BY <1>1, <1>2, <2>1, Induction
<1> QED
  BY <1>3

LEMMA ValueShown ==
  ASSUME NEW base \in {10, 16}, NEW w \in Nat, NEW u \in Nat, NEW s, Shows(s, u, base, w)
  PROVE  /\ Len(Digits(u, base)) <= w => Value(s, base) = u
         /\ base = 16 => Value(s, base) = u % TwoTo[4 * w]
<1>1. s \in Seq(Chars) /\ Len(s) = w
  BY DEF Shows
<1>2. PICK h : /\ Reads(h, s, base)
               /\ Len(Digits(u, base)) <= w => h[w] = u
               /\ base = 16 => h[w] = u % TwoTo[4 * w]
  BY <1>1, ShownValue
<1>3. Value(s, base) = h[w]
  BY <1>1, <1>2, ReadsUnique
<1> QED
  BY <1>2, <1>3

LEMMA SpanIs ==
  ASSUME NEW str, Len(str) \in Nat, NEW chars, NEW n \in 0 .. Len(str),
         \A k \in 1 .. n : str[k] \in chars, n < Len(str) => str[n + 1] \notin chars
  PROVE  Span(str, chars) = n
<1> DEFINE P(m) == /\ \A k \in 1 .. m : str[k] \in chars
                   /\ m < Len(str) => str[m + 1] \notin chars
<1>1. P(n)
  OBVIOUS
<1>2. ASSUME NEW m \in 0 .. Len(str), P(m) PROVE m = n
  <2>1. CASE m < n
    <3>1. m + 1 \in 1 .. n /\ m < Len(str)
      BY <2>1
    <3> QED
      BY <1>1, <1>2, <3>1
  <2>2. CASE n < m
    <3>1. n + 1 \in 1 .. m /\ n < Len(str)
      BY <2>2
    <3> QED
      BY <1>1, <1>2, <3>1
  <2> QED
    BY <2>1, <2>2
<1>3. Span(str, chars) = CHOOSE m \in 0 .. Len(str) : P(m)
  BY DEF Span
<1> HIDE DEF P
<1> QED
  BY <1>1, <1>2, <1>3

(* A text of b blanks, a minus sign if g is 1, and n places of u.          *)
IsDecimal(s, u, g, n, b) ==
  /\ s \in Seq(Chars) /\ Len(s) = (b + g) + n
  /\ \A j \in 1 .. b : s[j] = SP
  /\ g = 1 => s[b + 1] = "-"
  /\ \A j \in 1 .. n : s[(b + g) + j] = Place(u, 10, (n + 1) - j)
  /\ Len(Digits(u, 10)) <= n

LEMMA PlacesAreDecimal ==
  ASSUME NEW u \in Nat, NEW n \in Nat, NEW j \in 1 .. n
  PROVE  /\ Place(u, 10, (n + 1) - j) \in DecimalDigits
         /\ Place(u, 10, (n + 1) - j) \notin {"-", "+", SP}
<1>1. n - j \in Nat /\ (n - j) + 1 = (n + 1) - j
  OBVIOUS
<1>2. PICK v \in Nat : Place(u, 10, (n + 1) - j) = DigitOf(v, 10)
  <2>1. \A k \in Nat : \A x \in Nat : \E v \in Nat : Place(x, 10, k + 1) = DigitOf(v, 10)
    BY PlaceIsDigit
  <2> QED
    BY <1>1, <2>1
<1>3. DigitOf(v, 10) \in DecimalDigits /\ DigitOf(v, 10) \notin {"-", "+", SP}
  BY DigitOfValue
<1> QED
  BY <1>2, <1>3

IsReadAs(s, v, bits) == fromText(s, bits) = Signed(v, bits)

(* atoi() and atol() skip the blanks and read the sign and the places.     *)
LEMMA DecimalRead ==
  ASSUME NEW s, NEW u \in Nat, NEW g \in {0, 1}, NEW n \in Nat \ {0}, NEW b \in Nat,
         IsDecimal(s, u, g, n, b), NEW bits, NEW v, v = IF g = 1 THEN -u ELSE u
  PROVE  IsReadAs(s, v, bits)
<1> DEFINE rest == SubSeq(s, Span(s, {SP}) + 1, Len(s))
           signed == rest # <<>> /\ rest[1] \in {"-", "+"}
           digits == IF signed THEN Tail(rest) ELSE rest
           read == SubSeq(digits, 1, Span(digits, DecimalDigits))
           result == Value(read, 10)
<1>1. /\ s \in Seq(Chars) /\ Len(s) = (b + g) + n
      /\ \A j \in 1 .. b : s[j] = SP
      /\ g = 1 => s[b + 1] = "-"
      /\ \A j \in 1 .. n : s[(b + g) + j] = Place(u, 10, (n + 1) - j)
      /\ Len(Digits(u, 10)) <= n
  BY DEF IsDecimal
<1>2. \A j \in 1 .. n : /\ s[(b + g) + j] \in DecimalDigits
                        /\ s[(b + g) + j] \notin {"-", "+", SP}
  <2> SUFFICES ASSUME NEW j \in 1 .. n
               PROVE  /\ s[(b + g) + j] \in DecimalDigits
                      /\ s[(b + g) + j] \notin {"-", "+", SP}
    OBVIOUS
  <2>1. /\ Place(u, 10, (n + 1) - j) \in DecimalDigits
        /\ Place(u, 10, (n + 1) - j) \notin {"-", "+", SP}
    BY PlacesAreDecimal
  <2> QED
    BY <1>1, <2>1
<1>3. s[b + 1] # SP /\ (s[b + 1] \in {"-", "+"} <=> g = 1)
  <2>1. CASE g = 1
    <3>1. "-" # SP
      BY DEF SP
    <3> QED
      BY <1>1, <2>1, <3>1
  <2>2. CASE g = 0
    <3>1. 1 \in 1 .. n /\ (b + g) + 1 = b + 1
      BY <2>2
    <3> QED
      BY <1>2, <2>2, <3>1
  <2> QED
    BY <2>1, <2>2
<1>4. Span(s, {SP}) = b
  <2>1. b \in 0 .. Len(s) /\ Len(s) \in Nat /\ \A k \in 1 .. b : s[k] \in {SP}
    BY <1>1
  <2>2. b < Len(s) => s[b + 1] \notin {SP}
    BY <1>3
  <2> QED
    BY <2>1, <2>2, SpanIs
<1>5. /\ rest \in Seq(Chars) /\ Len(rest) = g + n
      /\ \A k \in 1 .. g + n : rest[k] = s[b + k]
  <2>1. b <= Len(s) /\ Len(s) - b = g + n
    BY <1>1
  <2>2. rest = SubSeq(s, b + 1, Len(s))
    BY <1>4
  <2> HIDE DEF rest
  <2>3. /\ rest \in Seq(Chars) /\ Len(rest) = Len(s) - b
        /\ \A k \in 1 .. (Len(s) - b) : rest[k] = s[b + k]
    BY <1>1, <2>1, <2>2, LastPart
  <2> QED
    BY <2>1, <2>3
<1> HIDE DEF rest
<1>6. signed <=> g = 1
  <2>1. 1 \in 1 .. g + n
    OBVIOUS
  <2>2. rest[1] = s[b + 1] /\ rest # <<>>
    BY <1>5, <2>1
  <2> QED
    BY <1>3, <2>2
<1>7. /\ digits \in Seq(Chars) /\ Len(digits) = n
      /\ \A j \in 1 .. n : digits[j] = s[(b + g) + j]
  <2>1. CASE g = 1
    <3>1. digits = Tail(rest) /\ rest # <<>>
      BY <1>6, <2>1
    <3>2. /\ Tail(rest) \in Seq(Chars) /\ Len(Tail(rest)) = Len(rest) - 1
          /\ \A j \in 1 .. (Len(rest) - 1) : Tail(rest)[j] = rest[j + 1]
      BY <1>5, <3>1, AllButFirst
    <3>3. Len(rest) - 1 = n /\ \A j \in 1 .. n : j + 1 \in 1 .. g + n /\ b + (j + 1) = (b + g) + j
      BY <1>5, <2>1
    <3> HIDE DEF digits
    <3> QED
      BY <1>5, <3>1, <3>2, <3>3
  <2>2. CASE g = 0
    <3>1. digits = rest
      BY <1>6, <2>2
    <3>2. g + n = n /\ \A j \in 1 .. n : b + j = (b + g) + j
      BY <2>2
    <3> HIDE DEF digits
    <3> QED
      BY <1>5, <3>1, <3>2
  <2> QED
    BY <2>1, <2>2
<1> HIDE DEF signed, digits
<1>8. Span(digits, DecimalDigits) = n
  <2>1. n \in 0 .. Len(digits) /\ Len(digits) \in Nat /\ ~(n < Len(digits))
    BY <1>7
  <2>2. \A k \in 1 .. n : digits[k] \in DecimalDigits
    BY <1>2, <1>7
  <2> QED
    BY <2>1, <2>2, SpanIs
<1>9. Shows(read, u, 10, n)
  <2>1. n <= Len(digits) /\ n \in Nat
    BY <1>7
  <2>2. read = SubSeq(digits, 1, n)
    BY <1>8
  <2> HIDE DEF read
  <2>3. /\ read \in Seq(Chars) /\ Len(read) = n
        /\ \A k \in 1 .. n : read[k] = digits[k]
    BY <1>7, <2>1, <2>2, FirstPart
  <2> QED
    BY <1>1, <1>7, <2>3 DEF Shows
<1>10. result = u
  BY <1>1, <1>9, ValueShown
<1>11. fromText(s, bits) = Signed(IF signed /\ rest[1] = "-" THEN -result ELSE result, bits)
  BY DEF fromText, signed, digits, rest
<1>12. signed /\ rest[1] = "-" <=> g = 1
  <2>1. 1 \in 1 .. g + n
    OBVIOUS
  <2>2. rest[1] = s[b + 1]
    BY <1>5, <2>1
  <2> QED
    BY <1>1, <1>6, <2>2
<1>13. fromText(s, bits) = Signed(v, bits)
  BY <1>10, <1>11, <1>12
<1> QED
  BY <1>13 DEF IsReadAs

LEMMA SignedSame ==
  ASSUME NEW bits \in Nat \ {0}, NEW n \in -TwoTo[bits - 1] .. TwoTo[bits - 1] - 1
  PROVE  Signed(n, bits) = n /\ TwoTo[bits] = 2 * TwoTo[bits - 1] /\ TwoTo[bits - 1] \in Nat \ {0}
<1> DEFINE P == TwoTo[bits - 1]
<1>1. bits - 1 \in Nat /\ (bits - 1) + 1 = bits
  OBVIOUS
<1>2. P \in Nat \ {0} /\ TwoTo[bits] = 2 * P
  <2>1. \A k \in Nat : TwoTo[k] \in Nat \ {0} /\ TwoTo[k + 1] = 2 * TwoTo[k]
    BY TwoToEquation
  <2> QED
    BY <1>1, <2>1
<1>3. n \in -P .. P - 1
  OBVIOUS
<1>4. Signed(n, bits) = ((n + P) % TwoTo[bits]) - P
  BY DEF Signed
<1> HIDE DEF P
<1> DEFINE x == n + P
           M == TwoTo[bits]
<1>5. x \in 0 .. M - 1 /\ M \in Nat \ {0} /\ x = M * 0 + x /\ x - P = n
  BY <1>2, <1>3
<1> HIDE DEF x, M
<1>6. x % M = x
  BY <1>5, DividesOnce
<1>7. Signed(n, bits) = n
  BY <1>4, <1>5, <1>6 DEF x, M
<1> QED
  BY <1>2, <1>7 DEF P

(* The characters s of n, which is u as an unsigned number, last one first.*)
ArePlaces(s, n, u, base) ==
  /\ u \in Nat /\ s \in Seq(Chars)
  /\ Len(s) = IF n = 0 THEN 1 ELSE Len(Digits(u, base))
  /\ Len(Digits(u, base)) <= Len(s)
  /\ u # 0 \/ n = 0 => Len(s) # 0
  /\ \A k \in 1 .. Len(s) : s[k] = Place(u, base, k)

LEMMA DigitsOfPlaces ==
  ASSUME NEW n \in Int, NEW base \in {10, 16}, NEW bits \in Nat,
         NEW u, u = Unsigned(n, base, bits), NEW s, s = DigitsOf(n, base, bits)
  PROVE  ArePlaces(s, n, u, base)
<1>1. u \in Nat /\ s \in Seq(Chars)
  <2>1. u \in 0 .. TwoTo[bits] - 1 /\ s \in Seq(Range(DigitChar)) /\ TwoTo[bits] \in Nat
    BY DigitsOfType, TwoToEquation
  <2>2. s \in Seq(Chars)
    BY <2>1 DEF Chars
  <2> QED
    BY <2>1, <2>2
<1>2. CASE n = 0
  <2>1. s = <<"0">>
    BY <1>2 DEF DigitsOf
  <2>2. u = 0
    <3>1. u = 0 % TwoTo[bits] /\ TwoTo[bits] \in Nat \ {0}
      BY <1>2, TwoToEquation DEF Unsigned, Negative
    <3>2. \A M \in Nat \ {0} : 0 % M = 0
      OBVIOUS
    <3> QED
      BY <3>1, <3>2
  <2>3. Place(u, base, 1) = "0" /\ Len(Digits(u, base)) = 0
    <3>1. Digits(u, base) = <<>>
      BY <2>2, DigitsEquation
    <3> QED
      BY <3>1 DEF Place
  <2>4. Len(s) = 1 /\ s[1] = "0" /\ \A k \in 1 .. Len(s) : k = 1
    BY <2>1
  <2>5. \A k \in 1 .. Len(s) : s[k] = Place(u, base, k)
    BY <2>3, <2>4
  <2>6. Len(Digits(u, base)) <= Len(s) /\ Len(s) # 0
    BY <2>3, <2>4
  <2> QED
    BY <1>1, <1>2, <2>4, <2>5, <2>6 DEF ArePlaces
<1>3. CASE n # 0
  <2>1. s = Digits(u, base)
    BY <1>3 DEF DigitsOf
  <2>2. Len(Digits(u, base)) \in Nat
    BY <1>1, PlaceEquation
  <2>3. u # 0 => Len(Digits(u, base)) # 0
    <3> DEFINE v == u \div base
    <3>1. v \in Nat /\ (u # 0 => Len(Digits(u, base)) = Len(Digits(v, base)) + 1)
      BY <1>1, PlaceEquation
    <3> HIDE DEF v
    <3>2. Len(Digits(v, base)) \in Nat
      BY <3>1, PlaceEquation
    <3> QED
      BY <3>1, <3>2
  <2>4. \A k \in 1 .. Len(Digits(u, base)) : Digits(u, base)[k] = Place(u, base, k)
    BY <2>2 DEF Place
  <2>5. /\ Len(s) = Len(Digits(u, base)) /\ Len(Digits(u, base)) <= Len(s)
        /\ u # 0 \/ n = 0 => Len(s) # 0
        /\ \A k \in 1 .. Len(s) : s[k] = Place(u, base, k)
    BY <1>3, <2>1, <2>2, <2>3, <2>4
  <2> QED
    BY <1>1, <1>3, <2>5 DEF ArePlaces
<1> QED
  BY <1>2, <1>3

(* Base 10: blanks up to the width, the sign, all places.                  *)
LEMMA DecimalPrinted ==
  ASSUME NEW bits \in Nat \ {0}, NEW n \in -TwoTo[bits - 1] .. TwoTo[bits - 1] - 1,
         NEW width \in Nat
  PROVE  LET g == IF n < 0 THEN 1 ELSE 0
             s == DigitsOf(n, 10, bits)
             t == toText(n, 10, width, bits)
             L == IF Len(s) + g <= width THEN width ELSE Len(s) + g
         IN  /\ (IF n < 0 THEN -n ELSE n) \in Nat
             /\ Len(s) \in Nat \ {0} /\ L - (Len(s) + g) \in Nat
             /\ IsDecimal(t, IF n < 0 THEN -n ELSE n, g, Len(s), L - (Len(s) + g))
             /\ Len(s) = IF n = 0 THEN 1 ELSE Len(Digits(IF n < 0 THEN -n ELSE n, 10))
<1> DEFINE P == TwoTo[bits - 1]
           g == IF n < 0 THEN 1 ELSE 0
           u == IF n < 0 THEN -n ELSE n
           s == DigitsOf(n, 10, bits)
           m == IF n < 0 THEN <<"-">> ELSE <<>>
           w == WithSign(n, 10, bits)
           r == Padded(n, 10, width, bits)
           t == toText(n, 10, width, bits)
           L == IF Len(s) + g <= width THEN width ELSE Len(s) + g
<1>1. TwoTo[bits] = 2 * P /\ P \in Nat \ {0} /\ n \in -P .. P - 1 /\ n \in Int
  <2>1. TwoTo[bits] = 2 * TwoTo[bits - 1] /\ TwoTo[bits - 1] \in Nat \ {0}
    BY SignedSame
  <2>2. n \in -P .. P - 1
    OBVIOUS
  <2> HIDE DEF P
  <2>3. n \in Int
    BY <2>1, <2>2 DEF P
  <2> QED
    BY <2>1, <2>2, <2>3 DEF P
<1> HIDE DEF P
<1>2. u \in Nat /\ u < TwoTo[bits] /\ (u = 0 <=> n = 0)
  BY <1>1
<1>3. Unsigned(n, 10, bits) = u
  <2>1. Unsigned(n, 10, bits) = u % TwoTo[bits]
    BY DEF Unsigned, Negative
  <2> DEFINE M == TwoTo[bits]
  <2>2. M \in Nat \ {0} /\ u \in 0 .. M - 1 /\ u = M * 0 + u
    BY <1>1, <1>2
  <2> HIDE DEF M, u
  <2>3. u % M = u
    BY <2>2, DividesOnce
  <2> QED
    BY <2>1, <2>3 DEF M
<1>4. /\ s \in Seq(Chars) /\ Len(s) = IF n = 0 THEN 1 ELSE Len(Digits(u, 10))
      /\ Len(Digits(u, 10)) <= Len(s) /\ Len(s) # 0
      /\ \A k \in 1 .. Len(s) : s[k] = Place(u, 10, k)
  <2>1. 10 \in {10, 16} /\ bits \in Nat /\ u = Unsigned(n, 10, bits)
    BY <1>3
  <2> HIDE DEF u, s
  <2>2. s = DigitsOf(n, 10, bits)
    BY DEF s
  <2>3. ArePlaces(s, n, u, 10)
    BY <1>1, <2>1, <2>2, DigitsOfPlaces
  <2> QED
    BY <1>2, <2>3 DEF ArePlaces
<1>5. w = s \o m /\ m \in Seq(Chars) /\ Len(m) = g /\ (g = 1 => m[1] = "-")
  <2>1. w = s \o m
    BY DEF WithSign, Negative
  <2>2. "-" \in Chars
    BY DEF Chars
  <2> QED
    BY <2>1, <2>2
<1> HIDE DEF s, m, w, u
<1>6. /\ w \in Seq(Chars) /\ Len(w) = Len(s) + g
      /\ \A k \in 1 .. Len(s) : w[k] = s[k]
      /\ g = 1 => w[Len(s) + 1] = "-"
  <2>1. /\ w \in Seq(Chars) /\ Len(w) = Len(s) + Len(m)
        /\ \A k \in 1 .. Len(s) : w[k] = s[k]
        /\ \A k \in 1 .. Len(m) : w[Len(s) + k] = m[k]
    <3>1. s \in Seq(Chars) /\ m \in Seq(Chars) /\ w = s \o m
      BY <1>4, <1>5
    <3> HIDE DEF g
    <3> QED
      BY <3>1, Joining
  <2>2. g = 1 => 1 \in 1 .. Len(m)
    BY <1>5
  <2> HIDE DEF g
  <2> QED
    BY <1>5, <2>1, <2>2
<1>7. Len(s) \in Nat \ {0} /\ g \in {0, 1} /\ L \in Nat /\ L - (Len(s) + g) \in Nat
  <2>1. Len(s) \in Nat /\ Len(s) # 0
    BY <1>4
  <2>2. g \in {0, 1}
    OBVIOUS
  <2> DEFINE k == Len(s) + g
  <2>3. k \in Nat
    BY <2>1, <2>2
  <2>4. L = IF k <= width THEN width ELSE k
    OBVIOUS
  <2> HIDE DEF g, L, k
  <2>5. L \in Nat /\ L - k \in Nat
    BY <2>3, <2>4
  <2> QED
    BY <2>1, <2>2, <2>5 DEF k
<1>8. /\ r \in Seq(Chars) /\ Len(r) = L
      /\ \A k \in 1 .. L : r[k] = IF k <= Len(s) + g THEN w[k] ELSE SP
  <2>1. bits \in Nat /\ n \in Int /\ width \in Nat /\ w = WithSign(n, 10, bits)
        /\ r = Padded(n, 10, width, bits)
    BY <1>1 DEF w
  <2> HIDE DEF r
  <2>2. IsPadded(r, w, SP, width)
    BY <2>1, PaddedDecimal
  <2> HIDE DEF r, g
  <2> QED
    BY <1>6, <2>2 DEF IsPadded
<1>9. t = Reverse(r)
  BY ToText
<1> HIDE DEF r, t, L, g
<1>10. /\ t \in Seq(Chars) /\ Len(t) = L
       /\ \A k \in 1 .. L : t[k] = r[(L - k) + 1]
  BY <1>8, <1>9, Reversed
<1> DEFINE b == L - (Len(s) + g)
<1>11. \A j \in 1 .. b : t[j] = SP
  <2> SUFFICES ASSUME NEW j \in 1 .. b PROVE t[j] = SP
    OBVIOUS
  <2>1. j \in 1 .. L /\ (L - j) + 1 \in 1 .. L /\ ~((L - j) + 1 <= Len(s) + g)
    BY <1>7
  <2> QED
    BY <1>8, <1>10, <2>1
<1>12. g = 1 => t[b + 1] = "-"
  <2> SUFFICES ASSUME g = 1 PROVE t[b + 1] = "-"
    OBVIOUS
  <2>1. /\ b + 1 \in 1 .. L /\ (L - (b + 1)) + 1 = Len(s) + 1
        /\ Len(s) + 1 \in 1 .. L /\ Len(s) + 1 <= Len(s) + g
    BY <1>7
  <2> QED
    BY <1>6, <1>8, <1>10, <2>1
<1>13. \A j \in 1 .. Len(s) : t[(b + g) + j] = Place(u, 10, (Len(s) + 1) - j)
  <2> SUFFICES ASSUME NEW j \in 1 .. Len(s)
               PROVE  t[(b + g) + j] = Place(u, 10, (Len(s) + 1) - j)
    OBVIOUS
  <2>1. /\ (b + g) + j \in 1 .. L
        /\ (L - ((b + g) + j)) + 1 = (Len(s) + 1) - j
        /\ (Len(s) + 1) - j \in 1 .. Len(s) /\ (Len(s) + 1) - j \in 1 .. L
        /\ (Len(s) + 1) - j <= Len(s) + g
    BY <1>7
  <2>2. t[(b + g) + j] = r[(Len(s) + 1) - j] /\ r[(Len(s) + 1) - j] = w[(Len(s) + 1) - j]
    BY <1>8, <1>10, <2>1
  <2> QED
    BY <1>4, <1>6, <2>1, <2>2
<1>14. L = (b + g) + Len(s)
  BY <1>7
<1>15. IsDecimal(t, u, g, Len(s), b)
  <2> HIDE DEF b
  <2> QED
    BY <1>4, <1>10, <1>11, <1>12, <1>13, <1>14 DEF IsDecimal
<1> QED
  BY <1>2, <1>4, <1>7, <1>15 DEF t, u, g, s, L

LEMMA DecimalValue ==
  ASSUME NEW bits \in Nat \ {0}, NEW n \in -TwoTo[bits - 1] .. TwoTo[bits - 1] - 1,
         NEW width \in Nat
  PROVE  /\ fromText(toText(n, 10, width, bits), bits) = n
         /\ Len(toText(n, 10, width, bits)) >= width
<1> DEFINE g == IF n < 0 THEN 1 ELSE 0
           u == IF n < 0 THEN -n ELSE n
           k == Len(DigitsOf(n, 10, bits))
           L == IF k + g <= width THEN width ELSE k + g
           b == L - (k + g)
           t == toText(n, 10, width, bits)
<1>1. u \in Nat /\ k \in Nat \ {0} /\ b \in Nat /\ IsDecimal(t, u, g, k, b)
  BY DecimalPrinted
<1>2. Signed(n, bits) = n /\ TwoTo[bits - 1] \in Nat \ {0}
  BY SignedSame
<1>3. (IF g = 1 THEN -u ELSE u) = n /\ g \in {0, 1}
  <2>1. \A M \in Nat : -M .. M - 1 \subseteq Int
    OBVIOUS
  <2>2. n \in Int
    BY <1>2, <2>1
  <2> QED
    BY <2>2
<1>4. Len(t) = (b + g) + k
  BY <1>1 DEF IsDecimal
<1>5. Len(t) >= width
  <2> DEFINE i == k + g
  <2>1. i \in Nat /\ Len(t) = L /\ L = IF i <= width THEN width ELSE i
    BY <1>1, <1>3, <1>4
  <2> HIDE DEF i, L
  <2> QED
    BY <2>1
<1> HIDE DEF t, u, g, k, b
<1>6. fromText(t, bits) = Signed(IF g = 1 THEN -u ELSE u, bits)
  <2> DEFINE v == IF g = 1 THEN -u ELSE u
  <2>1. v = IF g = 1 THEN -u ELSE u
    OBVIOUS
  <2> HIDE DEF v
  <2>2. IsReadAs(t, v, bits)
    BY <1>1, <1>3, <2>1, DecimalRead
  <2> QED
    BY <2>1, <2>2 DEF IsReadAs
<1> QED
  BY <1>2, <1>3, <1>5, <1>6 DEF t

(* Base 16: the low places, as many as the field has.                      *)
LEMMA HexPrinted ==
  ASSUME NEW bits \in Nat, NEW n \in Int, NEW width \in Nat \ {0},
         NEW u, u = n % TwoTo[bits], NEW t, t = toText(n, 16, width, bits)
  PROVE  u \in Nat /\ Shows(t, u, 16, width)
<1> DEFINE s == DigitsOf(n, 16, bits)
           w == WithSign(n, 16, bits)
           r == Padded(n, 16, width, bits)
           q == SubSeq(r, 1, width)
<1>1. ArePlaces(s, n, u, 16)
  <2>1. 16 \in {10, 16} /\ u = Unsigned(n, 16, bits)
    BY DEF Unsigned, Negative
  <2>2. s = DigitsOf(n, 16, bits)
    OBVIOUS
  <2> HIDE DEF s
  <2> QED
    BY <2>1, <2>2, DigitsOfPlaces
<1>2. w = s
  <2>1. w = s \o <<>>
    BY DEF WithSign, Negative
  <2>2. s \in Seq(Chars)
    BY <1>1 DEF ArePlaces
  <2> HIDE DEF s
  <2> QED
    BY <2>1, <2>2
<1>3. /\ u \in Nat /\ Len(s) \in Nat /\ Len(Digits(u, 16)) <= Len(s)
      /\ Len(Digits(u, 16)) \in Nat
      /\ \A k \in 1 .. Len(s) : s[k] = Place(u, 16, k)
  <2>1. s \in Seq(Chars) /\ u \in Nat
    BY <1>1 DEF ArePlaces
  <2>2. Len(Digits(u, 16)) \in Nat
    BY <2>1, PlaceEquation
  <2> HIDE DEF s
  <2>3. Len(s) \in Nat
    BY <2>1
  <2> QED
    BY <1>1, <2>1, <2>2, <2>3 DEF ArePlaces
<1>4. /\ r \in Seq(Chars)
      /\ Len(r) = IF Len(s) <= width THEN width ELSE Len(s)
      /\ \A k \in 1 .. Len(r) : r[k] = IF k <= Len(s) THEN s[k] ELSE "0"
  <2>1. 16 \in {10, 16} /\ width \in Nat
    OBVIOUS
  <2>2. /\ r \in Seq(Chars)
        /\ Len(r) = IF Len(w) <= width THEN width ELSE Len(w)
        /\ \A k \in 1 .. Len(r) : r[k] = IF k <= Len(w) THEN w[k] ELSE "0"
    <3>1. /\ r \in Seq(Chars)
          /\ Len(r) = IF Len(w) <= width THEN width ELSE Len(w)
          /\ \A k \in 1 .. Len(r) :
               r[k] = IF k <= Len(w) THEN w[k] ELSE IF 16 = 10 THEN SP ELSE "0"
      BY <2>1, PaddedType, Zenon DEF w, r
    <3> HIDE DEF r, w, s
    <3> QED
      BY <3>1
  <2> HIDE DEF r, w, s
  <2> QED
    BY <1>2, <2>2
<1>5. t = Reverse(q)
  BY ToText
<1> HIDE DEF s, w, r
<1>6. width <= Len(r) /\ \A k \in 1 .. width : r[k] = Place(u, 16, k)
  <2>1. width <= Len(r) /\ \A k \in 1 .. width : k \in 1 .. Len(r)
    BY <1>3, <1>4
  <2>2. ASSUME NEW k \in 1 .. width PROVE r[k] = Place(u, 16, k)
    <3>1. CASE k <= Len(s)
      <4>1. k \in 1 .. Len(s)
        BY <1>3, <3>1
      <4> QED
        BY <1>3, <1>4, <2>1, <3>1, <4>1
    <3>2. CASE ~(k <= Len(s))
      <4>1. ~(k <= Len(Digits(u, 16)))
        BY <1>3, <3>2
      <4>2. Place(u, 16, k) = "0"
        BY <4>1 DEF Place
      <4> QED
        BY <1>4, <2>1, <3>2, <4>2
    <3> QED
      BY <3>1, <3>2
  <2> QED
    BY <2>1, <2>2
<1>7. q \in Seq(Chars) /\ Len(q) = width /\ \A k \in 1 .. width : q[k] = r[k]
  <2>1. width \in Nat
    OBVIOUS
  <2> QED
    BY <1>4, <1>6, <2>1, FirstPart
<1> HIDE DEF q
<1>8. /\ t \in Seq(Chars) /\ Len(t) = width
      /\ \A k \in 1 .. width : t[k] = q[(width - k) + 1]
  BY <1>5, <1>7, Reversed
<1>9. ASSUME NEW j \in 1 .. width PROVE t[j] = Place(u, 16, (width + 1) - j)
  <2>1. (width - j) + 1 = (width + 1) - j /\ (width + 1) - j \in 1 .. width
    OBVIOUS
  <2> QED
    BY <1>6, <1>7, <1>8, <2>1
<1> QED
  BY <1>3, <1>8, <1>9 DEF Shows

IsLow(t, n, width, bits) == Len(t) = width /\ Value(t, 16) = LowDigits(n, width, bits)

LEMMA HexValue ==
  ASSUME NEW bits \in Nat, NEW n \in Int, NEW width \in Nat \ {0},
         NEW t, t = toText(n, 16, width, bits)
  PROVE  IsLow(t, n, width, bits)
<1> DEFINE u == n % TwoTo[bits]
<1>1. u \in Nat /\ Shows(t, u, 16, width)
  BY HexPrinted
<1>2. TwoTo[bits] \in Nat \ {0} /\ 4 * width \in Nat /\ TwoTo[4 * width] \in Nat \ {0}
  BY TwoToEquation
<1>3. u \in 0 .. TwoTo[bits] - 1
  <2> DEFINE M == TwoTo[bits]
  <2>1. M \in Nat \ {0}
    BY <1>2
  <2> HIDE DEF M
  <2>2. n % M \in 0 .. M - 1
    BY <2>1
  <2> QED
    BY <2>2 DEF M
<1> HIDE DEF u
<1>4. Len(t) = width /\ Value(t, 16) = u % TwoTo[4 * width]
  <2>1. 16 \in {10, 16} /\ width \in Nat
    OBVIOUS
  <2>2. Value(t, 16) = u % TwoTo[4 * width]
    BY <1>1, <2>1, ValueShown
  <2> QED
    BY <1>1, <2>2 DEF Shows
<1>5. CASE 4 * width >= bits
  <2>1. TwoTo[bits] <= TwoTo[4 * width]
    BY <1>2, <1>5, TwoToFacts
  <2> DEFINE M == TwoTo[4 * width]
  <2>2. M \in Nat \ {0} /\ u \in 0 .. M - 1 /\ u = M * 0 + u
    BY <1>2, <1>3, <2>1
  <2> HIDE DEF M
  <2>3. u % M = u
    BY <2>2, DividesOnce
  <2> QED
    BY <1>4, <1>5, <2>3 DEF LowDigits, u, M, IsLow
<1>6. CASE ~(4 * width >= bits)
  <2>1. 4 * width <= bits
    BY <1>2, <1>6
  <2>2. PICK k \in Nat \ {0} : TwoTo[bits] = TwoTo[4 * width] * k
    BY <1>2, <2>1, TwoToFacts
  <2> DEFINE M == TwoTo[4 * width]
  <2>3. M \in Nat \ {0}
    BY <1>2
  <2> HIDE DEF M
  <2>4. (n % (M * k)) % M = n % M
    BY <2>3, NestedRemainder
  <2>5. u % M = n % M
    BY <2>2, <2>4 DEF u, M
  <2> QED
    BY <1>4, <1>6, <2>5 DEF LowDigits, M, IsLow
<1> QED
  BY <1>5, <1>6

Joins(z, x, y, i, k) ==
  /\ IsText(z) /\ Len(z) = i + k
  /\ \A j \in 1 .. i : z[j] = x[j]
  /\ \A j \in 1 .. k : z[i + j] = y[j]

LEMMA JoinedParts ==
  ASSUME NEW x, NEW y, IsText(x), IsText(y)
  PROVE  Joins(x \o y, x, y, Len(x), Len(y))
<1> DEFINE S == Range(x) \cup Range(y)
<1>1. IsText(x \o y)
  BY TextJoined
<1>2. x \in Seq(S) /\ y \in Seq(S)
  <2>1. x \in Seq(Range(x)) /\ y \in Seq(Range(y))
    BY DEF IsText
  <2> QED
    BY <2>1
<1> HIDE DEF S
<1>3. /\ Len(x \o y) = Len(x) + Len(y)
      /\ \A k \in 1 .. Len(x) : (x \o y)[k] = x[k]
      /\ \A k \in 1 .. Len(y) : (x \o y)[Len(x) + k] = y[k]
  BY <1>2, Joining
<1> QED
  BY <1>1, <1>3 DEF Joins

LEMMA JoinedText ==
  ASSUME NEW x, NEW y, IsText(x), IsText(y)
  PROVE  /\ IsText(x \o y) /\ Len(x) \in Nat /\ Len(y) \in Nat
         /\ Len(x \o y) = Len(x) + Len(y) /\ Len(x \o y) >= Len(x)
         /\ \A k \in 1 .. Len(x) : (x \o y)[k] = x[k]
         /\ \A k \in 1 .. Len(y) : (x \o y)[Len(x) + k] = y[k]
<1>1. Len(x) \in Nat /\ Len(y) \in Nat
  BY DEF IsText
<1>2. Joins(x \o y, x, y, Len(x), Len(y))
  BY JoinedParts
<1> QED
  BY <1>1, <1>2 DEF Joins

(* An address has 40 bits, ten places.                                     *)
LEMMA EntryValue ==
  ASSUME NEW pte \in Entries
  PROVE  Value(SubSeq(DumpPTE(pte), 1, 10), 16) = pte.address
<1> DEFINE A == ltoa(pte.address, 16, 10)
           f == [k \in DOMAIN PTEFlags |->
                   IF PTEFlags[k][1] \in pte.flags THEN PTEFlags[k][2] ELSE PTEFlags[k][3]]
           s == DumpPTE(pte)
<1>1. LongBits \in Nat /\ pte.address \in Int /\ 10 \in Nat \ {0}
  BY Widths
<1>2. Len(A) = 10 /\ Value(A, 16) = LowDigits(pte.address, 10, LongBits)
  <2>1. A = toText(pte.address, 16, 10, LongBits)
    BY DEF ltoa
  <2> HIDE DEF A
  <2> QED
    <3> DEFINE x == pte.address
               d == 10
    <3>1. A = toText(x, 16, d, LongBits) /\ x \in Int /\ d \in Nat \ {0}
      BY <1>1, <2>1
    <3> HIDE DEF x, d
    <3>2. IsLow(A, x, d, LongBits)
      BY <1>1, <3>1, HexValue
    <3> QED
      BY <3>2 DEF x, d, IsLow
<1>3. LowDigits(pte.address, 10, LongBits) = pte.address
  <2> DEFINE M == IF 4 * 10 >= LongBits THEN TwoTo[LongBits] ELSE TwoTo[4 * 10]
             x == pte.address
  <2>1. M \in Nat \ {0}
    <3>1. 4 * 10 \in Nat
      OBVIOUS
    <3> QED
      BY <1>1, <3>1, TwoToEquation
  <2>2. x \in 0 .. M - 1
    <3>1. /\ x \in 0 .. TwoTo[LongBits] - 1
          /\ LongBits > 40 => x < TwoTo[40]
      BY DemosAssumption
    <3>2. 4 * 10 = 40 /\ TwoTo[LongBits] \in Nat
      BY <1>1, TwoToEquation
    <3>3. CASE 40 >= LongBits
      BY <3>1, <3>2, <3>3
    <3>4. CASE ~(40 >= LongBits)
      <4>1. LongBits > 40
        BY <1>1, <3>4
      <4>2. x < TwoTo[40] /\ x \in Nat
        BY <3>1, <3>2, <4>1
      <4>3. M = TwoTo[40]
        BY <3>2, <3>4
      <4> HIDE DEF M, x
      <4> QED
        BY <2>1, <4>2, <4>3
    <3> QED
      BY <3>3, <3>4
  <2>3. LowDigits(pte.address, 10, LongBits) = x % M
    BY DEF LowDigits
  <2> HIDE DEF x, M
  <2>4. x = M * 0 + x /\ x \in Int
    BY <2>1, <2>2
  <2>5. x % M = x
    BY <2>1, <2>2, <2>4, DividesOnce
  <2> QED
    BY <2>3, <2>5 DEF x
<1>4. IsText(A)
  <2>1. 16 \in {10, 16} /\ 10 \in Nat
    OBVIOUS
  <2> QED
    BY <1>1, <2>1, NumberTexts
<1>5. IsText(f)
  <2>1. DOMAIN PTEFlags = 1 .. 10
    BY DEF PTEFlags
  <2>2. DOMAIN f = 1 .. 10
    BY <2>1
  <2>3. f = [k \in 1 .. 10 |-> f[k]]
    BY <2>1
  <2> HIDE DEF f
  <2>4. \A k \in 1 .. 10 : f[k] \in Range(f)
    BY <2>2 DEF Range
  <2>5. f \in Seq(Range(f))
    BY <2>3, <2>4
  <2> QED
    BY <2>5, Text
<1>6. s = ((A \o <<":">>) \o f) \o <<":", "os bits">>
  BY Zenon DEF DumpPTE
<1> HIDE DEF A, f, s
<1>7. IsText(s) /\ 10 <= Len(s) /\ \A k \in 1 .. 10 : s[k] = A[k]
  <2> DEFINE B == <<":">>
             D == <<":", "os bits">>
             x == A \o B
             y == x \o f
  <2>2. IsText(B) /\ IsText(D)
    BY ShortTexts, Zenon
  <2>3. s = y \o D
    BY <1>6
  <2> HIDE DEF B, D
  <2>4. /\ IsText(x) /\ Len(x) >= Len(A)
        /\ \A k \in 1 .. Len(A) : x[k] = A[k]
    BY <1>4, <2>2, JoinedText
  <2> HIDE DEF x
  <2>5. /\ IsText(y) /\ Len(y) >= Len(x) /\ Len(x) \in Nat
        /\ \A k \in 1 .. Len(x) : y[k] = x[k]
    BY <1>5, <2>4, JoinedText
  <2> HIDE DEF y
  <2>6. /\ IsText(s) /\ Len(s) >= Len(y) /\ Len(y) \in Nat /\ Len(s) \in Nat
        /\ \A k \in 1 .. Len(y) : s[k] = y[k]
    <3>1. /\ IsText(s) /\ Len(s) >= Len(y) /\ Len(y) \in Nat
          /\ \A k \in 1 .. Len(y) : s[k] = y[k]
      BY <2>2, <2>3, <2>5, JoinedText
    <3>2. Len(s) \in Nat
      BY <3>1 DEF IsText
    <3> QED
      BY <3>1, <3>2
  <2>7. 10 <= Len(x) /\ 10 <= Len(y) /\ 10 <= Len(s)
    BY <1>2, <2>4, <2>5, <2>6
  <2>8. \A k \in 1 .. 10 : k \in 1 .. Len(x) /\ k \in 1 .. Len(y)
    BY <2>5, <2>6, <2>7
  <2> QED
    BY <1>2, <2>4, <2>5, <2>6, <2>7, <2>8
<1>8. SubSeq(s, 1, 10) = A
  <2> DEFINE S == Range(s) \cup Range(A)
             q == SubSeq(s, 1, 10)
  <2>1. s \in Seq(S) /\ A \in Seq(S)
    <3>1. s \in Seq(Range(s)) /\ A \in Seq(Range(A))
      BY <1>4, <1>7 DEF IsText
    <3> QED
      BY <3>1
  <2> HIDE DEF S
  <2>2. /\ q \in Seq(S) /\ Len(q) = 10
        /\ \A k \in 1 .. 10 : q[k] = s[k]
    BY <1>7, <2>1, FirstPart
  <2> HIDE DEF q
  <2>3. \A k \in 1 .. Len(q) : q[k] = A[k]
    BY <1>7, <2>2
  <2>4. q = A
    BY <1>2, <2>1, <2>2, <2>3, SeqEqual
  <2> QED
    BY <2>4 DEF q
<1> QED
  BY <1>2, <1>3, <1>8 DEF s

(* A number of the clock: two digits, the blank made a "0".                *)
IsTwoDigits(t, n) ==
  /\ t \in Seq(Chars) /\ Len(t) = 2 /\ t[1] \in DecimalDigits /\ t[2] \in DecimalDigits
  /\ atoi(t) = n

LEMMA ClockNumber ==
  ASSUME NEW n \in 0 .. 59
  PROVE  n \in -TwoTo[IntBits - 1] .. TwoTo[IntBits - 1] - 1
<1>1. IntBits - 1 \in Nat /\ 6 <= IntBits - 1
  BY Widths, DemosAssumption
<1>2. TwoTo[6] = 64
  <2>1. TwoTo[0 + 1] = 2 * TwoTo[0] /\ TwoTo[1 + 1] = 2 * TwoTo[1] /\ TwoTo[0] = 1
    BY TwoToEquation
  <2>2. 0 + 1 = 1 /\ 1 + 1 = 2 /\ 2 + 4 = 6
    OBVIOUS
  <2>3. TwoTo[2 + 4] = 16 * TwoTo[2]
    BY TwoToFacts
  <2> QED
    BY <2>1, <2>2, <2>3
<1>3. TwoTo[6] <= TwoTo[IntBits - 1] /\ TwoTo[IntBits - 1] \in Nat
  BY <1>1, TwoToFacts, TwoToEquation
<1> DEFINE P == TwoTo[IntBits - 1]
<1>4. 64 <= P /\ P \in Nat
  BY <1>2, <1>3
<1> HIDE DEF P
<1>5. n \in -P .. P - 1
  BY <1>4
<1> QED
  BY <1>5 DEF P

LEMMA FewDigits ==
  ASSUME NEW n \in 0 .. 59
  PROVE  Len(Digits(n, 10)) \in 0 .. 2
<1> DEFINE v == n \div 10
           x == v \div 10
<1>1. n \in Nat /\ v \in Nat /\ x = 0 /\ x \in Nat
  OBVIOUS
<1>2. Len(Digits(n, 10)) = IF n = 0 THEN 0 ELSE Len(Digits(v, 10)) + 1
  BY <1>1, PlaceEquation
<1> HIDE DEF v
<1>3. Len(Digits(v, 10)) = IF v = 0 THEN 0 ELSE Len(Digits(x, 10)) + 1
  BY <1>1, PlaceEquation
<1> HIDE DEF x
<1>4. Len(Digits(x, 10)) = 0
  BY <1>1, PlaceEquation
<1>5. Len(Digits(v, 10)) = 0 \/ Len(Digits(v, 10)) = 0 + 1
  BY <1>3, <1>4, Zenon
<1>6. Len(Digits(n, 10)) = 0 \/ Len(Digits(n, 10)) = Len(Digits(v, 10)) + 1
  BY <1>2, Zenon
<1> DEFINE i == Len(Digits(n, 10))
           k == Len(Digits(v, 10))
<1>7. (k = 0 \/ k = 0 + 1) /\ (i = 0 \/ i = k + 1)
  BY <1>5, <1>6
<1> HIDE DEF i, k
<1>8. i \in 0 .. 2
  BY <1>7
<1> QED
  BY <1>8 DEF i

LEMMA TwoCharacters ==
  ASSUME NEW S, NEW t, t = [k \in 1 .. 2 |-> t[k]], t[1] \in S, t[2] \in S
  PROVE  t \in Seq(S) /\ Len(t) = 2
<1>1. \A k \in 1 .. 2 : t[k] \in S
  <2>1. \A k \in 1 .. 2 : k = 1 \/ k = 2
    OBVIOUS
  <2> QED
    BY <2>1
<1> QED
  BY <1>1

LEMMA PairIn ==
  ASSUME NEW S, NEW s \in Seq(S), Len(s) = 2
  PROVE  s[1] \in S /\ s[2] \in S
<1>1. \A k \in 1 .. 2 : s[k] \in S
  OBVIOUS
<1> QED
  BY <1>1

LEMMA TwoDigits ==
  ASSUME NEW n \in 0 .. 59, NEW t, t = strtr(itoa(n, 10, 2), SP, "0")
  PROVE  IsTwoDigits(t, n)
<1> DEFINE s == itoa(n, 10, 2)
           k == Len(DigitsOf(n, 10, IntBits))
           L == IF k + 0 <= 2 THEN 2 ELSE k + 0
           b == L - (k + 0)
<1>1. IntBits \in Nat \ {0} /\ n \in Nat /\ ~(n < 0) /\ 2 \in Nat
  BY NumbersAssumption
<1>2. /\ k \in Nat \ {0} /\ IsDecimal(s, n, 0, k, b)
      /\ k = IF n = 0 THEN 1 ELSE Len(Digits(n, 10))
  <2>1. n \in -TwoTo[IntBits - 1] .. TwoTo[IntBits - 1] - 1
    BY ClockNumber
  <2>2. LET g == IF n < 0 THEN 1 ELSE 0
            s0 == DigitsOf(n, 10, IntBits)
            t0 == toText(n, 10, 2, IntBits)
            L0 == IF Len(s0) + g <= 2 THEN 2 ELSE Len(s0) + g
        IN  /\ Len(s0) \in Nat \ {0}
            /\ IsDecimal(t0, IF n < 0 THEN -n ELSE n, g, Len(s0), L0 - (Len(s0) + g))
            /\ Len(s0) = IF n = 0 THEN 1 ELSE Len(Digits(IF n < 0 THEN -n ELSE n, 10))
    BY <1>1, <2>1, DecimalPrinted
  <2>3. (IF n < 0 THEN 1 ELSE 0) = 0 /\ (IF n < 0 THEN -n ELSE n) = n
    BY <1>1
  <2> QED
    BY <2>2, <2>3 DEF itoa
<1>3. k \in {1, 2} /\ b = 2 - k /\ Len(Digits(n, 10)) <= k /\ Len(Digits(n, 10)) \in Nat
  <2>1. Len(Digits(n, 10)) \in 0 .. 2
    BY FewDigits
  <2>2. k \in {1, 2} /\ Len(Digits(n, 10)) <= k
    <3> DEFINE d == Len(Digits(n, 10))
    <3>1. d \in 0 .. 2 /\ k = (IF n = 0 THEN 1 ELSE d) /\ k \in Nat \ {0} /\ (n = 0 => d = 0)
      BY <1>2, <2>1, DigitsEquation
    <3> HIDE DEF d, k
    <3>2. k \in {1, 2} /\ d <= k
      BY <3>1
    <3> QED
      BY <3>2 DEF d
  <2>3. L = IF k + 0 <= 2 THEN 2 ELSE k + 0
    OBVIOUS
  <2>4. b = L - (k + 0)
    OBVIOUS
  <2> HIDE DEF k, L, b
  <2>5. b = 2 - k
    BY <2>2, <2>3, <2>4
  <2> QED
    BY <2>1, <2>2, <2>5
<1> HIDE DEF s, k, b
<1>4. /\ s \in Seq(Chars) /\ Len(s) = 2
      /\ \A j \in 1 .. b : s[j] = SP
      /\ \A j \in 1 .. k : s[(b + 0) + j] = Place(n, 10, (k + 1) - j)
  <2>1. /\ s \in Seq(Chars) /\ Len(s) = (b + 0) + k
        /\ \A j \in 1 .. b : s[j] = SP
        /\ \A j \in 1 .. k : s[(b + 0) + j] = Place(n, 10, (k + 1) - j)
    BY <1>2, Zenon DEF IsDecimal
  <2>2. (b + 0) + k = 2
    BY <1>3
  <2> QED
    BY <2>1, <2>2
<1>5. /\ Place(n, 10, 1) \in DecimalDigits /\ Place(n, 10, 2) \in DecimalDigits
      /\ Place(n, 10, 1) # SP /\ Place(n, 10, 2) # SP
  <2>1. 1 \in 1 .. 2 /\ 2 \in 1 .. 2 /\ (2 + 1) - 1 = 2 /\ (2 + 1) - 2 = 1 /\ 2 \in Nat
    OBVIOUS
  <2>2. \A j \in 1 .. 2 : /\ Place(n, 10, (2 + 1) - j) \in DecimalDigits
                          /\ Place(n, 10, (2 + 1) - j) \notin {"-", "+", SP}
    BY <1>1, PlacesAreDecimal
  <2> QED
    BY <2>1, <2>2
<1>6. s[2] = Place(n, 10, 1) /\ (s[1] = Place(n, 10, 2) \/ (s[1] = SP /\ Place(n, 10, 2) = "0"))
  <2>1. CASE k = 1
    <3>1. b = 1 /\ 1 \in 1 .. b /\ 1 \in 1 .. k /\ (b + 0) + 1 = 2 /\ (k + 1) - 1 = 1
      BY <1>3, <2>1
    <3>2. Place(n, 10, 2) = "0"
      BY <1>3, <2>1 DEF Place
    <3> QED
      BY <1>4, <3>1, <3>2
  <2>2. CASE k = 2
    <3>1. /\ 1 \in 1 .. k /\ 2 \in 1 .. k /\ (b + 0) + 1 = 1 /\ (b + 0) + 2 = 2
          /\ (k + 1) - 1 = 2 /\ (k + 1) - 2 = 1
      BY <1>3, <2>2
    <3> QED
      BY <1>4, <3>1
  <2> QED
    BY <1>3, <2>1, <2>2
<1>7. t = [j \in 1 .. 2 |-> IF s[j] = SP THEN "0" ELSE s[j]]
  BY <1>4 DEF strtr, s
<1>8. t[1] = Place(n, 10, 2) /\ t[2] = Place(n, 10, 1)
  BY <1>5, <1>6, <1>7
<1>9. t \in Seq(Chars) /\ Len(t) = 2
  <2>1. "0" \in Chars
    <3>1. DigitChar[1] = "0" /\ 1 \in DOMAIN DigitChar
      BY DEF DigitChar
    <3> QED
      BY <3>1 DEF Chars, Range
  <2>2. s[1] \in Chars /\ s[2] \in Chars
    BY <1>4, PairIn
  <2>3. t[1] \in Chars /\ t[2] \in Chars
    BY <1>7, <2>1, <2>2
  <2>4. t = [j \in 1 .. 2 |-> t[j]]
    BY <1>7
  <2> QED
    BY <2>3, <2>4, TwoCharacters
<1>10. IsDecimal(t, n, 0, 2, 0)
  <2>1. \A j \in 1 .. 2 : t[(0 + 0) + j] = Place(n, 10, (2 + 1) - j)
    <3>1. \A j \in 1 .. 2 : j = 1 \/ j = 2
      OBVIOUS
    <3>2. (0 + 0) + 1 = 1 /\ (0 + 0) + 2 = 2 /\ (2 + 1) - 1 = 2 /\ (2 + 1) - 2 = 1
      OBVIOUS
    <3> QED
      BY <1>8, <3>1, <3>2
  <2>2. Len(t) = (0 + 0) + 2 /\ Len(Digits(n, 10)) <= 2
    BY <1>3, <1>9
  <2>3. \A j \in 1 .. 0 : t[j] = SP
    OBVIOUS
  <2> QED
    BY <1>9, <2>1, <2>2, <2>3 DEF IsDecimal
<1>11. atoi(t) = n
  <2>1. n = IF 0 = 1 THEN -n ELSE n
    OBVIOUS
  <2>2. 0 \in {0, 1} /\ 2 \in Nat \ {0} /\ 0 \in Nat
    OBVIOUS
  <2>3. IsReadAs(t, n, IntBits)
    BY <1>1, <1>10, <2>1, <2>2, DecimalRead, Zenon
  <2>4. Signed(n, IntBits) = n
    BY <1>1, ClockNumber, SignedSame
  <2> QED
    BY <2>3, <2>4 DEF IsReadAs, atoi
<1> QED
  BY <1>5, <1>8, <1>9, <1>11 DEF IsTwoDigits

LEMMA OneCharacter ==
  \A ch : IsText(<<ch>>) /\ Len(<<ch>>) = 1 /\ <<ch>>[1] = ch
BY ShortTexts

LEMMA JoinedLengths ==
  ASSUME NEW x, NEW y, IsText(x), IsText(y), NEW i, Len(x) = i, NEW k, Len(y) = k,
         NEW z, z = x \o y
  PROVE  Joins(z, x, y, i, k)
BY JoinedParts

IsClock(x, h, m, s) ==
  /\ IsText(x) /\ Len(x) = 8 /\ x[1] = h[1] /\ x[2] = h[2] /\ x[3] = ":"
  /\ x[4] = m[1] /\ x[5] = m[2] /\ x[6] = ":" /\ x[7] = s[1] /\ x[8] = s[2]

LEMMA ClockText ==
  ASSUME NEW h, NEW m, NEW s, IsText(h), IsText(m), IsText(s),
         Len(h) = 2, Len(m) = 2, Len(s) = 2,
         NEW x, x = (((h \o <<":">>) \o m) \o <<":">>) \o s
  PROVE  IsClock(x, h, m, s)
<1> DEFINE C == <<":">>
           p == h \o C
           q == p \o m
           r == q \o C
<1>1. IsText(C) /\ Len(C) = 1 /\ C[1] = ":"
  BY OneCharacter
<1>2. x = r \o s
  OBVIOUS
<1> HIDE DEF C
<1>3. /\ 1 \in 1 .. 1 /\ 1 \in 1 .. 2 /\ 2 \in 1 .. 2
      /\ \A k \in 1 .. 3 : k \in 1 .. 5
      /\ \A k \in 1 .. 2 : k \in 1 .. 3
      /\ \A k \in 1 .. 5 : k \in 1 .. 6
      /\ 2 + 1 = 3 /\ 3 + 1 = 4 /\ 3 + 2 = 5 /\ 5 + 1 = 6 /\ 6 + 1 = 7 /\ 6 + 2 = 8
  OBVIOUS
<1>4. IsText(p) /\ Len(p) = 3 /\ p[1] = h[1] /\ p[2] = h[2] /\ p[3] = ":"
  <2>1. p = h \o C
    OBVIOUS
  <2> HIDE DEF p
  <2>2. Joins(p, h, C, 2, 1)
    BY <1>1, <2>1, JoinedLengths
  <2> QED
    BY <2>2, <1>1, <1>3 DEF Joins
<1> HIDE DEF p
<1>5. /\ IsText(q) /\ Len(q) = 5 /\ q[1] = h[1] /\ q[2] = h[2] /\ q[3] = ":"
      /\ q[4] = m[1] /\ q[5] = m[2]
  <2>1. q = p \o m
    OBVIOUS
  <2> HIDE DEF q
  <2>2. Joins(q, p, m, 3, 2)
    BY <1>4, <2>1, JoinedLengths
  <2> QED
    BY <2>2, <1>3, <1>4 DEF Joins
<1> HIDE DEF q
<1>6. /\ IsText(r) /\ Len(r) = 6 /\ r[1] = h[1] /\ r[2] = h[2] /\ r[3] = ":"
      /\ r[4] = m[1] /\ r[5] = m[2] /\ r[6] = ":"
  <2>1. r = q \o C
    OBVIOUS
  <2> HIDE DEF r
  <2>2. Joins(r, q, C, 5, 1)
    BY <1>1, <1>5, <2>1, JoinedLengths
  <2> QED
    BY <2>2, <1>1, <1>3, <1>5 DEF Joins
<1> HIDE DEF r
<1>7. Joins(x, r, s, 6, 2)
  BY <1>2, <1>6, JoinedLengths
<1> QED
  BY <1>3, <1>6, <1>7 DEF Joins, IsClock

LEMMA ClockTwo ==
  ASSUME NEW n \in 0 .. 59
  PROVE  /\ IsText(itoa(n, 10, 2)) /\ Len(itoa(n, 10, 2)) = 2
         /\ \A t : t = strtr(itoa(n, 10, 2), SP, "0") => IsTwoDigits(t, n)
<1>1. \A t : t = strtr(itoa(n, 10, 2), SP, "0") => IsTwoDigits(t, n)
  BY TwoDigits
<1>2. IsText(itoa(n, 10, 2))
  BY NumberTexts
<1>3. Len(itoa(n, 10, 2)) = 2
  <2> DEFINE s == itoa(n, 10, 2)
             t == strtr(s, SP, "0")
  <2>1. Len(t) = 2 /\ t \in Seq(Chars)
    BY <1>1 DEF IsTwoDigits
  <2>2. s \in Seq(Range(s))
    BY <1>2 DEF IsText
  <2>3. DOMAIN t = DOMAIN s
    BY DEF strtr
  <2> HIDE DEF s, t
  <2>4. DOMAIN s = 1 .. 2
    BY <2>1, <2>3
  <2> QED
    BY <2>2, <2>4 DEF s
<1> QED
  BY <1>1, <1>2, <1>3

(* The time as it is printed: two digits, a colon, two digits and so on.   *)
TimeDigits(t) ==
  /\ t[5] = ":" /\ t[8] = ":"
  /\ \A k \in {3, 4, 6, 7, 9, 10} : t[k] \in DecimalDigits
  /\ \A r \in 1 .. 3 : atoi(SubSeq(t, 12 - 3 * r, 13 - 3 * r)) = now[r]

IsPair(q, S, x, y) == q \in Seq(S) /\ Len(q) = 2 /\ q[1] = x /\ q[2] = y

LEMMA PairOf ==
  ASSUME NEW S, NEW s \in Seq(S), NEW i \in Nat \ {0}, i + 1 <= Len(s)
  PROVE  IsPair(SubSeq(s, i, i + 1), S, s[i], s[i + 1])
<1> DEFINE q == SubSeq(s, i, i + 1)
           j == i + 1
<1>1. i \in Int /\ j \in Int /\ Len(s) \in Nat /\ 1 <= i /\ i <= Len(s) /\ j <= Len(s)
  OBVIOUS
<1>2. q = SubSeq(s, i, j)
  OBVIOUS
<1>3. q \in Seq(S)
  BY <1>1, <1>2
<1>4. q = [k \in 1 .. 2 |-> s[(i + k) - 1]]
  OBVIOUS
<1> HIDE DEF q, j
<1>5. Len(q) = 2 /\ q[1] = s[(i + 1) - 1] /\ q[2] = s[(i + 2) - 1]
  BY <1>4
<1>6. (i + 1) - 1 = i /\ (i + 2) - 1 = i + 1
  OBVIOUS
<1> QED
  BY <1>3, <1>5, <1>6 DEF q, IsPair

LEMMA TwoOf ==
  ASSUME NEW t, IsText(t), Len(t) = 10, NEW i \in 1 .. 9, NEW u, u \in Seq(Chars), Len(u) = 2,
         t[i] = u[1], t[i + 1] = u[2]
  PROVE  SubSeq(t, i, i + 1) = u
<1> DEFINE S == Range(t) \cup Chars
           q == SubSeq(t, i, i + 1)
<1>1. t \in Seq(S) /\ u \in Seq(S)
  <2>1. t \in Seq(Range(t))
    BY DEF IsText
  <2> QED
    BY <2>1
<1> HIDE DEF S
<1>2. IsPair(q, S, t[i], t[i + 1])
  <2>1. i \in Nat \ {0} /\ i + 1 <= Len(t)
    OBVIOUS
  <2> QED
    BY <1>1, <2>1, PairOf
<1> HIDE DEF q
<1>3. \A k \in 1 .. 2 : k = 1 \/ k = 2
  OBVIOUS
<1>4. q \in Seq(S) /\ Len(q) = 2 /\ \A k \in 1 .. Len(q) : q[k] = u[k]
  BY <1>2, <1>3 DEF IsPair
<1>5. q = u
  BY <1>1, <1>4, SeqEqual
<1> QED
  BY <1>5 DEF q

LEMMA TimeShown ==
  ASSUME now \in Time
  PROVE  TimeDigits(TimeText)
<1> DEFINE a == itoa(now[HOUR], 10, 2)
           b == itoa(now[2], 10, 2)
           d == itoa(now[1], 10, 2)
           x == (((a \o <<":">>) \o b) \o <<":">>) \o d
           y == strtr(x, SP, "0")
           p == <<LF, "Time is ">>
           t == p \o y
           A == strtr(a, SP, "0")
           B == strtr(b, SP, "0")
           D == strtr(d, SP, "0")
<1>1. TimeText = t
  BY Zenon DEF TimeText
<1>2. now[HOUR] \in 0 .. 59 /\ now[2] \in 0 .. 59 /\ now[1] \in 0 .. 59 /\ HOUR = 3
  <2>1. \A r \in Register : now[r] \in 0 .. 59
    BY TimeFacts
  <2> QED
    BY <2>1 DEF Register, HOUR
<1>3. /\ IsText(a) /\ Len(a) = 2 /\ IsTwoDigits(A, now[HOUR])
      /\ IsText(b) /\ Len(b) = 2 /\ IsTwoDigits(B, now[2])
      /\ IsText(d) /\ Len(d) = 2 /\ IsTwoDigits(D, now[1])
  BY <1>2, ClockTwo
<1>4. /\ A[1] = IF a[1] = SP THEN "0" ELSE a[1]
      /\ A[2] = IF a[2] = SP THEN "0" ELSE a[2]
      /\ B[1] = IF b[1] = SP THEN "0" ELSE b[1]
      /\ B[2] = IF b[2] = SP THEN "0" ELSE b[2]
      /\ D[1] = IF d[1] = SP THEN "0" ELSE d[1]
      /\ D[2] = IF d[2] = SP THEN "0" ELSE d[2]
  <2>1. ASSUME NEW u, IsText(u), Len(u) = 2, NEW w, w = strtr(u, SP, "0")
        PROVE  /\ w[1] = IF u[1] = SP THEN "0" ELSE u[1]
               /\ w[2] = IF u[2] = SP THEN "0" ELSE u[2]
    <3>1. DOMAIN u = 1 .. 2
      BY <2>1 DEF IsText
    <3>2. 1 \in 1 .. 2 /\ 2 \in 1 .. 2
      OBVIOUS
    <3> QED
      BY <2>1, <3>1, <3>2 DEF strtr
  <2>2. A = strtr(a, SP, "0") /\ B = strtr(b, SP, "0") /\ D = strtr(d, SP, "0")
    OBVIOUS
  <2> HIDE DEF a, b, d, A, B, D
  <2> QED
    BY <1>3, <2>1, <2>2
<1> HIDE DEF A, B, D, a, b, d
<1>5. /\ IsText(x) /\ Len(x) = 8 /\ x[1] = a[1] /\ x[2] = a[2] /\ x[3] = ":"
      /\ x[4] = b[1] /\ x[5] = b[2] /\ x[6] = ":" /\ x[7] = d[1] /\ x[8] = d[2]
  <2>1. x = (((a \o <<":">>) \o b) \o <<":">>) \o d
    OBVIOUS
  <2> HIDE DEF x
  <2>2. IsClock(x, a, b, d)
    BY <1>3, <2>1, ClockText
  <2> QED
    BY <2>2 DEF IsClock
<1> HIDE DEF x
<1>6. /\ IsText(y) /\ Len(y) = 8
      /\ \A k \in 1 .. 8 : y[k] = IF x[k] = SP THEN "0" ELSE x[k]
  <2>1. DOMAIN x = 1 .. 8 /\ IsText(y)
    BY <1>5, Translated DEF IsText
  <2>2. DOMAIN y = 1 .. 8 /\ \A k \in 1 .. 8 : y[k] = IF x[k] = SP THEN "0" ELSE x[k]
    BY <2>1 DEF strtr
  <2> HIDE DEF y
  <2>3. y \in Seq(Range(y))
    BY <2>1 DEF IsText
  <2> QED
    BY <2>1, <2>2, <2>3
<1> HIDE DEF y
<1>7. IsText(p) /\ Len(p) = 2
  <2>1. IsText(p)
    BY ShortTexts, Zenon
  <2> QED
    BY <2>1
<1> HIDE DEF p
<1>8. Joins(t, p, y, 2, 8)
  BY <1>6, <1>7, JoinedLengths
<1> HIDE DEF t
<1>9. \A k \in 1 .. 8 : t[2 + k] = IF x[k] = SP THEN "0" ELSE x[k]
  BY <1>6, <1>8 DEF Joins
<1>10. /\ t[3] = A[1] /\ t[4] = A[2] /\ t[6] = B[1] /\ t[7] = B[2]
       /\ t[9] = D[1] /\ t[10] = D[2] /\ t[5] = ":" /\ t[8] = ":"
  <2>1. \A k \in 1 .. 8 : \A j : j = 2 + k => t[j] = IF x[k] = SP THEN "0" ELSE x[k]
    BY <1>9
  <2>2. 3 = 2 + 1 /\ 4 = 2 + 2 /\ 5 = 2 + 3 /\ 6 = 2 + 4 /\ 7 = 2 + 5 /\ 8 = 2 + 6
        /\ 9 = 2 + 7 /\ 10 = 2 + 8
        /\ \A k \in {1, 2, 3, 4, 5, 6, 7, 8} : k \in 1 .. 8
    OBVIOUS
  <2>3. ":" # SP
    BY DEF SP
  <2>4. t[5] = ":" /\ t[8] = ":"
    BY <1>5, <2>1, <2>2, <2>3
  <2>5. t[3] = A[1] /\ t[4] = A[2]
    BY <1>4, <1>5, <2>1, <2>2
  <2>6. t[6] = B[1] /\ t[7] = B[2]
    BY <1>4, <1>5, <2>1, <2>2
  <2>7. t[9] = D[1] /\ t[10] = D[2]
    BY <1>4, <1>5, <2>1, <2>2
  <2> QED
    BY <2>4, <2>5, <2>6, <2>7
<1>11. IsText(t) /\ Len(t) = 10
  BY <1>8 DEF Joins
<1>12. SubSeq(t, 3, 3 + 1) = A /\ SubSeq(t, 6, 6 + 1) = B /\ SubSeq(t, 9, 9 + 1) = D
  <2>1. 3 \in 1 .. 9 /\ 6 \in 1 .. 9 /\ 9 \in 1 .. 9 /\ 3 + 1 = 4 /\ 6 + 1 = 7 /\ 9 + 1 = 10
    OBVIOUS
  <2>2. /\ A \in Seq(Chars) /\ Len(A) = 2 /\ B \in Seq(Chars) /\ Len(B) = 2
        /\ D \in Seq(Chars) /\ Len(D) = 2
    BY <1>3 DEF IsTwoDigits
  <2> QED
    BY <1>10, <1>11, <2>1, <2>2, TwoOf
<1>13. /\ atoi(SubSeq(t, 3, 4)) = now[3] /\ atoi(SubSeq(t, 6, 7)) = now[2]
       /\ atoi(SubSeq(t, 9, 10)) = now[1]
  <2>1. 3 + 1 = 4 /\ 6 + 1 = 7 /\ 9 + 1 = 10
    OBVIOUS
  <2>2. SubSeq(t, 3, 4) = A /\ SubSeq(t, 6, 7) = B /\ SubSeq(t, 9, 10) = D
    BY <1>12, <2>1
  <2> QED
    BY <1>2, <1>3, <2>2 DEF IsTwoDigits
<1>14. \A r \in 1 .. 3 : atoi(SubSeq(t, 12 - 3 * r, 13 - 3 * r)) = now[r]
  <2> SUFFICES ASSUME NEW r \in 1 .. 3
               PROVE  atoi(SubSeq(t, 12 - 3 * r, 13 - 3 * r)) = now[r]
    OBVIOUS
  <2>1. CASE r = 1
    <3>1. 12 - 3 * r = 9 /\ 13 - 3 * r = 10
      BY <2>1
    <3> QED
      BY <1>13, <2>1, <3>1
  <2>2. CASE r = 2
    <3>1. 12 - 3 * r = 6 /\ 13 - 3 * r = 7
      BY <2>2
    <3> QED
      BY <1>13, <2>2, <3>1
  <2>3. CASE r = 3
    <3>1. 12 - 3 * r = 3 /\ 13 - 3 * r = 4
      BY <2>3
    <3> QED
      BY <1>13, <2>3, <3>1
  <2> QED
    BY <2>1, <2>2, <2>3
<1>15. \A k \in {3, 4, 6, 7, 9, 10} : t[k] \in DecimalDigits
  <2>1. /\ A[1] \in DecimalDigits /\ A[2] \in DecimalDigits
        /\ B[1] \in DecimalDigits /\ B[2] \in DecimalDigits
        /\ D[1] \in DecimalDigits /\ D[2] \in DecimalDigits
    BY <1>3 DEF IsTwoDigits
  <2> QED
    BY <1>10, <2>1
<1>16. TimeDigits(t)
  BY <1>10, <1>14, <1>15 DEF TimeDigits
<1> QED
  BY <1>1, <1>16

(* Every number the programs print can be read back, in every build and    *)
(* for all widths of an int and a long: in base 10 as the same number, in  *)
(* base 16 as the low digits the field has room for; and the time has two  *)
(* digits for each of its three numbers.                                   *)
THEOREM PrintedNumbersReadBack == Spec => []NumbersPrinted
<1>1. IInv => NumbersPrinted
  <2> SUFFICES ASSUME IInv PROVE NumbersPrinted
    OBVIOUS
  <2>1. TextOK /\ RtcTypeOK
    BY DEF IInv, SetUpInv, RtcInv
  <2>2. /\ IntBits \in Nat \ {0} /\ LongBits \in Nat \ {0}
        /\ IntValues \subseteq Int /\ LongValues \subseteq Int
    BY NumbersAssumption, Widths
  <2>3. /\ IntValues \subseteq -TwoTo[IntBits - 1] .. TwoTo[IntBits - 1] - 1
        /\ LongValues \subseteq -TwoTo[LongBits - 1] .. TwoTo[LongBits - 1] - 1
    BY DemosAssumption
  <2>4. ASSUME item.op = "itoa"
        PROVE  /\ item.base = 10 => atoi(text) = num /\ Len(text) >= item.width
               /\ item.base = 16 => IsLow(text, num, item.width, IntBits)
    <3>1. /\ NumberFormat(item.base, item.width) /\ num \in IntValues
          /\ text = toText(num, item.base, item.width, IntBits)
      BY <2>1, <2>4 DEF TextOK, itoa
    <3>2. item.width \in Nat /\ (item.base = 16 => item.width \in Nat \ {0})
      BY <3>1 DEF NumberFormat
    <3>3. item.base = 10 => atoi(text) = num /\ Len(text) >= item.width
      BY <2>2, <2>3, <3>1, <3>2, DecimalValue DEF atoi
    <3>4. item.base = 16 => IsLow(text, num, item.width, IntBits)
      BY <2>2, <3>1, <3>2, HexValue
    <3> QED
      BY <3>3, <3>4
  <2>5. ASSUME item.op = "ltoa"
        PROVE  /\ item.base = 10 => atol(text) = num /\ Len(text) >= item.width
               /\ item.base = 16 => IsLow(text, num, item.width, LongBits)
    <3>1. /\ NumberFormat(item.base, item.width) /\ num \in LongValues
          /\ text = toText(num, item.base, item.width, LongBits)
      BY <2>1, <2>5 DEF TextOK, ltoa
    <3>2. item.width \in Nat /\ (item.base = 16 => item.width \in Nat \ {0})
      BY <3>1 DEF NumberFormat
    <3>3. item.base = 10 => atol(text) = num /\ Len(text) >= item.width
      BY <2>2, <2>3, <3>1, <3>2, DecimalValue DEF atol
    <3>4. item.base = 16 => IsLow(text, num, item.width, LongBits)
      BY <2>2, <3>1, <3>2, HexValue
    <3> QED
      BY <3>3, <3>4
  <2>6. ASSUME item.op = "DumpPTE" PROVE Value(SubSeq(text, 1, 10), 16) = num
    <3>1. PICK pte \in Entries : num = pte.address /\ text = DumpPTE(pte)
      BY <2>1, <2>6 DEF TextOK
    <3> QED
      BY <3>1, EntryValue
  <2>7. ASSUME item.op = "time", pc = "returned" PROVE TimeDigits(text)
    <3>1. now \in Time
      BY <2>1, <2>7 DEF RtcTypeOK
    <3>2. text = TimeText
      BY <2>1, <2>7 DEF TextOK
    <3> QED
      BY <3>1, <3>2, TimeShown
  <2> QED
    BY <2>4, <2>5, <2>6, <2>7 DEF NumbersPrinted, TimeDigits, IsLow
<1> QED
  BY <1>1, DemosInvariant, PTL
=============================================================================
