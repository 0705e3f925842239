----------------------------- MODULE FoldLemmas ------------------------------
(* Induction on the natural numbers, stated with a set, and by it what two    *)
(* folds of the community modules compute: FlattenSeq at the two ends of a    *)
(* queue of sequences, SumFunctionOnSet when one member leaves or changes.    *)
(* And that a loop written as a recursive function is one.                    *)
EXTENDS Integers, Sequences, SequencesExt, SequenceTheorems, FiniteSetTheorems,
        WellFoundedInduction, TLAPS

SmallerThan == {p \in Nat \X Nat : p[1] < p[2]}

LEMMA SmallerThanIsWellFounded == IsWellFoundedOn(SmallerThan, Nat)
<1>1. OpToRel(<, Nat) = SmallerThan
  BY DEF OpToRel, SmallerThan
<1> QED
  BY <1>1, NatLessThanWellFounded

\* A set that has 0, and n + 1 whenever it has n, has all of them.
LEMMA Induction ==
  ASSUME NEW S, 0 \in S, \A n \in Nat : n \in S => n + 1 \in S
  PROVE  Nat \subseteq S
<1> SUFFICES ASSUME ~ (Nat \subseteq S) PROVE FALSE
  OBVIOUS
<1>1. PICK x \in Nat \ S : \A y \in Nat \ S : ~ (<<y, x>> \in SmallerThan)
  BY SmallerThanIsWellFounded, WFMin
<1>2. \A y \in Nat \ S : ~ (y < x)
  BY <1>1 DEF SmallerThan
<1>3. x - 1 \in Nat /\ x - 1 \in S
  BY <1>2
<1> QED
  BY <1>1, <1>3

-----------------------------------------------------------------------------
(* FlattenSeq.                                                                *)

\* f is the function FlattenSeq(s) defines by recursion
Flattens(f, s) ==
  f = [i \in 1 .. Len(s) |-> IF i = 1 THEN s[i] ELSE f[i - 1] \o s[i]]

LEMMA FlattensExists == ASSUME NEW S, NEW s \in Seq(S) PROVE \E f : Flattens(f, s)
<1> DEFINE Upto(n) == \E f : f = [i \in 1 .. n |-> IF i = 1 THEN s[i] ELSE f[i - 1] \o s[i]]
           Good == {n \in Nat : Upto(n)}
<1>1. 0 \in Good
  <2> DEFINE f == [i \in 1 .. 0 |-> s[i]]
  <2>1. f = [i \in 1 .. 0 |-> IF i = 1 THEN s[i] ELSE f[i - 1] \o s[i]]
    OBVIOUS
  <2> QED
    BY <2>1
<1>2. ASSUME NEW n \in Nat, n \in Good PROVE n + 1 \in Good
  <2>1. PICK f : f = [i \in 1 .. n |-> IF i = 1 THEN s[i] ELSE f[i - 1] \o s[i]]
    BY <1>2
  <2> DEFINE g == [i \in 1 .. n + 1 |->
                     IF i <= n THEN f[i] ELSE IF i = 1 THEN s[i] ELSE f[n] \o s[i]]
             h == [i \in 1 .. n + 1 |-> IF i = 1 THEN s[i] ELSE g[i - 1] \o s[i]]
  <2>2. ASSUME NEW i \in 1 .. n + 1 PROVE g[i] = h[i]
    <3>1. CASE i <= n
      <4>1. g[i] = f[i] /\ i \in 1 .. n
        BY <3>1
      <4>2. f[i] = IF i = 1 THEN s[i] ELSE f[i - 1] \o s[i]
        BY <2>1, <4>1
      <4>3. i # 1 => g[i - 1] = f[i - 1]
        BY <4>1
      <4> QED
        BY <4>1, <4>2, <4>3
    <3>2. CASE i = n + 1
      <4>1. i # 1 => g[i - 1] = f[n]
        BY <3>2
      <4> QED
        BY <3>2, <4>1
    <3> QED
      BY <3>1, <3>2
  <2>3. g = h
    BY <2>2
  <2>4. Upto(n + 1)
    <3>1. g = [i \in 1 .. n + 1 |-> IF i = 1 THEN s[i] ELSE g[i - 1] \o s[i]]
      BY <2>3
    <3> SUFFICES \E k : k = [i \in 1 .. n + 1 |-> IF i = 1 THEN s[i] ELSE k[i - 1] \o s[i]]
      OBVIOUS
    <3> WITNESS g
    <3> QED
      BY <3>1
  <2> HIDE DEF Upto
  <2> QED
    BY <2>4
<1> HIDE DEF Good
<1>3. Nat \subseteq Good
  BY <1>1, <1>2, Induction
<1> QED
  <2>1. Len(s) \in Good
    BY <1>3
  <2> QED
    BY <2>1 DEF Flattens, Good

LEMMA FlattenIs ==
  ASSUME NEW S, NEW s \in Seq(S), s # <<>>
  PROVE  \E f : Flattens(f, s) /\ FlattenSeq(s) = f[Len(s)]
<1> DEFINE f == CHOOSE g : Flattens(g, s)
<1>1. Flattens(f, s)
  BY FlattensExists
<1>2. FlattenSeq(s) = f[Len(s)]
  BY DEF FlattenSeq, Flattens
<1> QED
  BY <1>1, <1>2

\* The function of a queue of n sequences, at each place.
LEMMA FlattenAt ==
  \A f, s : Flattens(f, s) =>
    \A i \in 1 .. Len(s) : f[i] = (IF i = 1 THEN s[i] ELSE f[i - 1] \o s[i])
BY DEF Flattens

LEMMA FlattenTypes ==
  ASSUME NEW f, NEW S, NEW s \in Seq(Seq(S)), Flattens(f, s)
  PROVE  \A i \in 1 .. Len(s) : f[i] \in Seq(S)
<1> DEFINE Good == {n \in Nat : n \in 1 .. Len(s) => f[n] \in Seq(S)}
<1>1. 0 \in Good
  OBVIOUS
<1>2. ASSUME NEW n \in Nat, n \in Good PROVE n + 1 \in Good
  <2>1. SUFFICES ASSUME n + 1 \in 1 .. Len(s) PROVE f[n + 1] \in Seq(S)
    OBVIOUS
  <2>2. f[n + 1] = IF n + 1 = 1 THEN s[n + 1] ELSE f[n] \o s[n + 1]
    <3>1. f[n + 1] = IF n + 1 = 1 THEN s[n + 1] ELSE f[(n + 1) - 1] \o s[n + 1]
      BY <2>1, FlattenAt
    <3> QED
      BY <3>1
  <2>3. s[n + 1] \in Seq(S)
    BY <2>1
  <2>4. n + 1 # 1 => f[n] \in Seq(S)
    BY <1>2, <2>1
  <2> QED
    BY <2>2, <2>3, <2>4
<1> HIDE DEF Good
<1>3. Nat \subseteq Good
  BY <1>1, <1>2, Induction
<1>4. \A i \in 1 .. Len(s) : i \in Good
  BY <1>3
<1> QED
  BY <1>4 DEF Good

LEMMA FlattenType == ASSUME NEW S, NEW s \in Seq(Seq(S)) PROVE FlattenSeq(s) \in Seq(S)
<1>1. CASE s = <<>>
  BY <1>1 DEF FlattenSeq
<1>2. CASE s # <<>>
  <2>1. PICK f : Flattens(f, s) /\ FlattenSeq(s) = f[Len(s)]
    BY <1>2, FlattenIs
  <2>2. Len(s) \in 1 .. Len(s)
    BY <1>2
  <2> QED
    BY <2>1, <2>2, FlattenTypes
<1> QED
  BY <1>1, <1>2

\* A sequence that joins the queue comes last.
LEMMA FlattenAppend ==
  ASSUME NEW S, NEW s \in Seq(Seq(S)), NEW x \in Seq(S)
  PROVE  FlattenSeq(Append(s, x)) = FlattenSeq(s) \o x
<1> DEFINE t == Append(s, x)
<1>1. /\ t \in Seq(Seq(S)) /\ t # <<>> /\ Len(t) = Len(s) + 1 /\ Len(s) \in Nat
      /\ t[Len(s) + 1] = x /\ \A i \in 1 .. Len(s) : t[i] = s[i]
  BY AppendProperties
<1> HIDE DEF t
<1>2. PICK g : Flattens(g, t) /\ FlattenSeq(t) = g[Len(t)]
  BY <1>1, FlattenIs
<1>3. g[Len(s) + 1] = IF Len(s) = 0 THEN x ELSE g[Len(s)] \o x
  <2>1. Len(s) + 1 \in 1 .. Len(t)
    BY <1>1
  <2> QED
    BY <1>1, <1>2, <2>1, FlattenAt
<1>4. CASE s = <<>>
  <2>1. FlattenSeq(t) = x
    BY <1>1, <1>2, <1>3, <1>4
  <2>2. FlattenSeq(s) = <<>>
    BY <1>4 DEF FlattenSeq
  <2> QED
    BY <2>1, <2>2 DEF t
<1>5. CASE s # <<>>
  <2>1. PICK f : Flattens(f, s) /\ FlattenSeq(s) = f[Len(s)]
    BY <1>5, FlattenIs
  <2> DEFINE Good == {n \in Nat : n \in 1 .. Len(s) => f[n] = g[n]}
  <2>2. 0 \in Good
    OBVIOUS
  <2>3. ASSUME NEW n \in Nat, n \in Good PROVE n + 1 \in Good
    <3>1. SUFFICES ASSUME n + 1 \in 1 .. Len(s) PROVE f[n + 1] = g[n + 1]
      OBVIOUS
    <3>2. n + 1 \in 1 .. Len(t) /\ t[n + 1] = s[n + 1]
      BY <1>1, <3>1
    <3>3. f[n + 1] = IF n + 1 = 1 THEN s[n + 1] ELSE f[n] \o s[n + 1]
      <4>1. f[n + 1] = IF n + 1 = 1 THEN s[n + 1] ELSE f[(n + 1) - 1] \o s[n + 1]
        BY <2>1, <3>1, FlattenAt
      <4> QED
        BY <4>1
    <3>4. g[n + 1] = IF n + 1 = 1 THEN t[n + 1] ELSE g[n] \o t[n + 1]
      <4>1. g[n + 1] = IF n + 1 = 1 THEN t[n + 1] ELSE g[(n + 1) - 1] \o t[n + 1]
        BY <1>2, <3>2, FlattenAt
      <4> QED
        BY <4>1
    <3>5. n + 1 # 1 => f[n] = g[n]
      BY <2>3, <3>1
    <3> QED
      BY <3>2, <3>3, <3>4, <3>5
  <2> HIDE DEF Good
  <2>4. Nat \subseteq Good
    BY <2>2, <2>3, Induction
  <2>5. f[Len(s)] = g[Len(s)]
    <3>1. Len(s) \in Good /\ Len(s) \in 1 .. Len(s)
      BY <1>1, <1>5, <2>4
    <3> QED
      BY <3>1 DEF Good
  <2>6. Len(s) # 0
    BY <1>5
  <2> QED
    BY <1>1, <1>2, <1>3, <2>1, <2>5, <2>6 DEF t
<1> QED
  BY <1>4, <1>5

\* Sequences put together may be grouped either way.
LEMMA ConcatAssociates ==
  \A p, q, r : (\E S : p \in Seq(S) /\ q \in Seq(S) /\ r \in Seq(S)) =>
    (p \o q) \o r = p \o (q \o r)
BY ConcatAssociative

\* The sequence at the head of the queue comes first.
LEMMA FlattenHead ==
  ASSUME NEW S, NEW s \in Seq(Seq(S)), s # <<>>
  PROVE  FlattenSeq(s) = Head(s) \o FlattenSeq(Tail(s))
<1> DEFINE t == Tail(s)
<1>1. /\ t \in Seq(Seq(S)) /\ Len(s) \in Nat \ {0} /\ Len(t) = Len(s) - 1
      /\ Head(s) = s[1] /\ Head(s) \in Seq(S) /\ \A i \in 1 .. Len(t) : t[i] = s[i + 1]
  OBVIOUS
<1> HIDE DEF t
<1>2. PICK g : Flattens(g, s) /\ FlattenSeq(s) = g[Len(s)]
  BY <1>1, FlattenIs
<1>3. g[1] = Head(s)
  <2>1. 1 \in 1 .. Len(s)
    BY <1>1
  <2> QED
    BY <1>1, <1>2, <2>1, FlattenAt
<1>4. CASE t = <<>>
  <2>1. FlattenSeq(t) = <<>>
    BY <1>4 DEF FlattenSeq
  <2>2. Len(s) = 1
    BY <1>1, <1>4
  <2>3. Head(s) \o <<>> = Head(s)
    BY <1>1
  <2> QED
    BY <1>2, <1>3, <2>1, <2>2, <2>3 DEF t
<1>5. CASE t # <<>>
  <2>1. PICK f : Flattens(f, t) /\ FlattenSeq(t) = f[Len(t)]
    BY <1>1, <1>5, FlattenIs
  <2> DEFINE Good == {n \in Nat : n \in 1 .. Len(t) => g[n + 1] = Head(s) \o f[n]}
  <2>2. 0 \in Good
    OBVIOUS
  <2>3. ASSUME NEW n \in Nat, n \in Good PROVE n + 1 \in Good
    <3>1. PICK m \in Nat, l \in Nat : m = n + 1 /\ l = m + 1
      OBVIOUS
    <3>2. SUFFICES ASSUME m \in 1 .. Len(t) PROVE g[l] = Head(s) \o f[m]
      BY <3>1
    <3>3. m \in 1 .. Len(s) /\ l \in 1 .. Len(s) /\ t[m] = s[l] /\ t[m] \in Seq(S)
      BY <1>1, <3>1, <3>2
    <3>4. g[l] = g[m] \o t[m]
      <4>1. g[l] = IF l = 1 THEN s[l] ELSE g[l - 1] \o s[l]
        BY <1>2, <3>3, FlattenAt
      <4>2. l # 1 /\ l - 1 = m
        BY <3>1
      <4> QED
        BY <3>3, <4>1, <4>2
    <3>5. CASE n = 0
      <4>1. m = 1
        BY <3>1, <3>5
      <4>2. f[m] = t[m]
        BY <2>1, <3>2, <4>1, FlattenAt
      <4> QED
        BY <1>3, <3>4, <4>1, <4>2
    <3>6. CASE n # 0
      <4>1. n \in 1 .. Len(t)
        BY <1>1, <3>1, <3>2, <3>6
      <4>2. g[m] = Head(s) \o f[n]
        BY <2>3, <3>1, <4>1
      <4>3. f[n] \in Seq(S)
        <5>1. \A i \in 1 .. Len(t) : f[i] \in Seq(S)
          BY <1>1, <2>1, FlattenTypes
        <5> QED
          BY <4>1, <5>1
      <4>4. f[m] = f[n] \o t[m]
        <5>1. f[m] = IF m = 1 THEN t[m] ELSE f[m - 1] \o t[m]
          BY <2>1, <3>2, FlattenAt
        <5>2. m # 1 /\ m - 1 = n
          BY <3>1, <3>6
        <5> QED
          BY <5>1, <5>2
      <4>5. (Head(s) \o f[n]) \o t[m] = Head(s) \o (f[n] \o t[m])
        <5> DEFINE a == Head(s)
                   b == f[n]
                   c == t[m]
        <5>1. a \in Seq(S) /\ b \in Seq(S) /\ c \in Seq(S)
          BY <1>1, <3>3, <4>3
        <5> HIDE DEF a, b, c
        <5>2. (a \o b) \o c = a \o (b \o c)
          BY <5>1, ConcatAssociates
        <5> QED
          BY <5>2 DEF a, b, c
      <4> QED
        BY <3>4, <4>2, <4>4, <4>5
    <3> QED
      BY <3>5, <3>6
  <2> HIDE DEF Good
  <2>4. Nat \subseteq Good
    BY <2>2, <2>3, Induction
  <2>5. g[Len(s)] = Head(s) \o f[Len(t)]
    <3>1. Len(t) \in Good /\ Len(t) \in 1 .. Len(t) /\ Len(t) + 1 = Len(s)
      BY <1>1, <1>5, <2>4
    <3> QED
      BY <3>1 DEF Good
  <2> QED
    BY <1>2, <2>1, <2>5 DEF t
<1> QED
  BY <1>4, <1>5

-----------------------------------------------------------------------------
(* SumFunctionOnSet.                                                          *)

\* g is the function SumFunctionOnSet(f, S) defines by recursion
Sums(g, f, S) ==
  g = [s \in SUBSET S |-> IF s = {} THEN 0
                          ELSE f[CHOOSE x \in s : TRUE] + g[s \ {CHOOSE x \in s : TRUE}]]

UpTo(S, n) == {s \in SUBSET S : Cardinality(s) <= n}

\* What is left of a set of at most n + 1 members without one of them.
LEMMA OneLess ==
  ASSUME NEW S, IsFiniteSet(S), NEW n \in Nat, NEW s \in UpTo(S, n + 1), NEW x \in s
  PROVE  s \ {x} \in UpTo(S, n)
<1>1. s \in SUBSET S /\ IsFiniteSet(s) /\ Cardinality(s) <= n + 1 /\ Cardinality(s) \in Nat
  BY FS_Subset, FS_CardinalityType DEF UpTo
<1>2. Cardinality(s \ {x}) = Cardinality(s) - 1
  BY <1>1, FS_RemoveElement
<1> QED
  BY <1>1, <1>2 DEF UpTo

LEMMA NothingUpTo ==
  ASSUME NEW S, IsFiniteSet(S), NEW s \in UpTo(S, 0)
  PROVE  s = {}
<1>1. s \in SUBSET S /\ IsFiniteSet(s) /\ Cardinality(s) <= 0 /\ Cardinality(s) \in Nat
  BY FS_Subset, FS_CardinalityType DEF UpTo
<1> QED
  BY <1>1, FS_EmptySet

LEMMA EverythingUpTo ==
  ASSUME NEW S, IsFiniteSet(S)
  PROVE  SUBSET S = UpTo(S, Cardinality(S)) /\ Cardinality(S) \in Nat
  BY FS_Subset, FS_CardinalityType DEF UpTo

LEMMA SumsExists ==
  ASSUME NEW S, IsFiniteSet(S), NEW f
  PROVE  \E g : Sums(g, f, S)
<1> DEFINE Body(g, s) == IF s = {} THEN 0
                         ELSE f[CHOOSE x \in s : TRUE] + g[s \ {CHOOSE x \in s : TRUE}]
           Exists(T) == \E g : g = [s \in T |-> Body(g, s)]
           Good == {n \in Nat : Exists(UpTo(S, n))}
<1>1. 0 \in Good
  <2> SUFFICES \E g : g = [s \in UpTo(S, 0) |-> Body(g, s)]
    OBVIOUS
  <2> WITNESS [s \in UpTo(S, 0) |-> 0]
  <2> QED
    BY NothingUpTo
<1>2. ASSUME NEW n \in Nat, n \in Good PROVE n + 1 \in Good
  <2>1. PICK g : g = [s \in UpTo(S, n) |-> Body(g, s)]
    BY <1>2
  <2> DEFINE h == [s \in UpTo(S, n + 1) |-> Body(g, s)]
             k == [s \in UpTo(S, n + 1) |-> Body(h, s)]
  <2>2. ASSUME NEW s \in UpTo(S, n + 1) PROVE Body(g, s) = Body(h, s)
    <3>1. CASE s = {}
      BY <3>1
    <3>2. CASE s # {}
      <4>1. PICK x \in s : x = CHOOSE y \in s : TRUE
        BY <3>2
      <4>2. s \ {x} \in UpTo(S, n)
        BY OneLess
      <4>3. s \ {x} \in UpTo(S, n + 1)
        <5>1. IsFiniteSet(s \ {x}) /\ Cardinality(s \ {x}) \in Nat
          BY <4>2, FS_Subset, FS_CardinalityType DEF UpTo
        <5> QED
          BY <4>2, <5>1 DEF UpTo
      <4>4. h[s \ {x}] = Body(g, s \ {x})
        BY <4>3
      <4>5. g[s \ {x}] = Body(g, s \ {x})
        BY <2>1, <4>2
      <4> QED
        BY <3>2, <4>1, <4>4, <4>5
    <3> QED
      BY <3>1, <3>2
  <2>3. h = k
    BY <2>2
  <2>4. Exists(UpTo(S, n + 1))
    <3>1. h = [s \in UpTo(S, n + 1) |-> Body(h, s)]
      BY <2>3
    <3> SUFFICES \E m : m = [s \in UpTo(S, n + 1) |-> Body(m, s)]
      OBVIOUS
    <3> WITNESS h
    <3> QED
      BY <3>1
  <2> HIDE DEF Exists
  <2> QED
    BY <2>4
<1>3. Cardinality(S) \in Good
  <2> HIDE DEF Good
  <2> QED
    BY <1>1, <1>2, Induction, EverythingUpTo
<1>4. Exists(SUBSET S)
  <2> HIDE DEF Exists
  <2> QED
    BY <1>3, EverythingUpTo
<1> QED
  BY <1>4 DEF Sums

LEMMA SumIs ==
  ASSUME NEW S, IsFiniteSet(S), NEW f
  PROVE  \E g : Sums(g, f, S) /\ SumFunctionOnSet(f, S) = g[S]
<1> DEFINE g == CHOOSE h : Sums(h, f, S)
<1>1. Sums(g, f, S)
  BY SumsExists
<1>2. SumFunctionOnSet(f, S) = g[S]
  BY DEF SumFunctionOnSet, FoldFunctionOnSet, MapThenFoldSet, Sums
<1> QED
  BY <1>1, <1>2

First(s) == CHOOSE x \in s : TRUE

\* The sum of s is x's share and the sum of the others.
Takes(g, f, s, x) == g[s] = f[x] + g[s \ {x}]

\* The sum of nothing, and of a set from which one member is taken.
LEMMA SumsAtNothing == \A S, f, g : Sums(g, f, S) => g[{}] = 0
BY DEF Sums

LEMMA SumsAt ==
  \A S, f, g : Sums(g, f, S) =>
     \A s \in SUBSET S : s # {} => First(s) \in s /\ Takes(g, f, s, First(s))
<1> SUFFICES ASSUME NEW S, NEW f, NEW g, Sums(g, f, S), NEW s \in SUBSET S, s # {}
             PROVE  First(s) \in s /\ Takes(g, f, s, First(s))
  OBVIOUS
<1>1. g[s] = IF s = {} THEN 0 ELSE f[First(s)] + g[s \ {First(s)}]
  BY DEF Sums, First
<1>2. First(s) \in s
  BY DEF First
<1> QED
  BY <1>1, <1>2 DEF Takes

\* The sum is a number.
LEMMA SumsType ==
  ASSUME NEW S, IsFiniteSet(S), NEW f, NEW g, Sums(g, f, S), NEW R,
         0 \in R, \A x \in S : f[x] \in R, \A a, b \in R : a + b \in R
  PROVE  \A s \in SUBSET S : g[s] \in R
<1> DEFINE Good == {n \in Nat : \A s \in UpTo(S, n) : g[s] \in R}
<1>1. 0 \in Good
  <2> SUFFICES ASSUME NEW s \in UpTo(S, 0) PROVE g[s] \in R
    OBVIOUS
  <2>1. s = {} /\ s \in SUBSET S
    BY NothingUpTo
  <2> QED
    BY <2>1, SumsAtNothing
<1>2. ASSUME NEW n \in Nat, n \in Good PROVE n + 1 \in Good
  <2> SUFFICES ASSUME NEW s \in UpTo(S, n + 1) PROVE g[s] \in R
    OBVIOUS
  <2>1. s \in SUBSET S
    BY DEF UpTo
  <2>2. CASE s = {}
    BY <2>2, SumsAtNothing
  <2>3. CASE s # {}
    <3>0. Sums(g, f, S)
      OBVIOUS
    <3>1. PICK x \in s : Takes(g, f, s, x)
      <4>1. First(s) \in s /\ Takes(g, f, s, First(s))
        BY <2>1, <2>3, <3>0, SumsAt
      <4> QED
        BY <4>1
    <3>2. s \ {x} \in UpTo(S, n) /\ x \in S
      BY <2>1, OneLess
    <3>3. g[s \ {x}] \in R
      BY <1>2, <3>2
    <3> QED
      BY <3>1, <3>2, <3>3 DEF Takes
  <2> QED
    BY <2>2, <2>3
<1> HIDE DEF Good
<1>3. Cardinality(S) \in Good
  BY <1>1, <1>2, Induction, EverythingUpTo
<1> QED
  BY <1>3, EverythingUpTo DEF Good

\* The sum of a set depends only on what its members are mapped to.
LEMMA SumsAgree ==
  ASSUME NEW S, IsFiniteSet(S), NEW T \in SUBSET S, NEW f, NEW e,
         NEW g, Sums(g, f, S), NEW h, Sums(h, e, T), \A x \in T : f[x] = e[x]
  PROVE  \A s \in SUBSET T : g[s] = h[s]
<1>0. IsFiniteSet(T)
  BY FS_Subset
<1> DEFINE Good == {n \in Nat : \A s \in UpTo(T, n) : g[s] = h[s]}
<1>1. 0 \in Good
  <2> SUFFICES ASSUME NEW s \in UpTo(T, 0) PROVE g[s] = h[s]
    OBVIOUS
  <2>1. s = {} /\ s \in SUBSET S /\ s \in SUBSET T
    BY <1>0, NothingUpTo
  <2>2. g[s] = 0 /\ h[s] = 0
    BY <2>1, SumsAtNothing
  <2> QED
    BY <2>2
<1>2. ASSUME NEW n \in Nat, n \in Good PROVE n + 1 \in Good
  <2> SUFFICES ASSUME NEW s \in UpTo(T, n + 1) PROVE g[s] = h[s]
    OBVIOUS
  <2>1. s \in SUBSET S /\ s \in SUBSET T
    BY DEF UpTo
  <2>2. CASE s = {}
    <3>1. g[s] = 0 /\ h[s] = 0
      BY <2>2, SumsAtNothing
    <3> QED
      BY <3>1
  <2>3. CASE s # {}
    <3>1. PICK x : x = First(s)
      OBVIOUS
    <3>2. x \in s /\ g[s] = f[x] + g[s \ {x}]
      <4>1. Sums(g, f, S)
        OBVIOUS
      <4> QED
        <5>1. First(s) \in s /\ Takes(g, f, s, First(s))
          BY <2>1, <2>3, <4>1, SumsAt
        <5> QED
          BY <3>1, <5>1 DEF Takes
    <3>3. h[s] = e[x] + h[s \ {x}]
      <4>1. Sums(h, e, T)
        OBVIOUS
      <4> QED
        <5>1. First(s) \in s /\ Takes(h, e, s, First(s))
          BY <2>1, <2>3, <4>1, SumsAt
        <5> QED
          BY <3>1, <5>1 DEF Takes
    <3>4. s \ {x} \in UpTo(T, n) /\ x \in T
      BY <1>0, <2>1, <3>2, OneLess
    <3>5. g[s \ {x}] = h[s \ {x}] /\ f[x] = e[x]
      BY <1>2, <3>4
    <3> QED
      BY <3>2, <3>3, <3>5
  <2> QED
    BY <2>2, <2>3
<1> HIDE DEF Good
<1>3. Cardinality(T) \in Good
  BY <1>0, <1>1, <1>2, Induction, EverythingUpTo
<1> QED
  BY <1>0, <1>3, EverythingUpTo DEF Good

\* Whichever member is taken first, the sum is the same.
LEMMA SumsTake ==
  \A S, f, g : IsFiniteSet(S) /\ Sums(g, f, S) /\ (\A x \in S : f[x] \in Int) =>
     \A s \in SUBSET S : \A x \in s : Takes(g, f, s, x)
<1> SUFFICES ASSUME NEW S, IsFiniteSet(S), NEW f, NEW g, Sums(g, f, S), \A x \in S : f[x] \in Int
             PROVE  \A s \in SUBSET S : \A x \in s : Takes(g, f, s, x)
  OBVIOUS
<1>0. \A s \in SUBSET S : g[s] \in Int
  BY SumsType, \A a, b \in Int : a + b \in Int
<1> DEFINE Good == {n \in Nat : \A s \in UpTo(S, n) : \A x \in s : Takes(g, f, s, x)}
<1>1. 0 \in Good
  BY NothingUpTo
<1>2. ASSUME NEW n \in Nat, n \in Good PROVE n + 1 \in Good
  <2> SUFFICES ASSUME NEW s \in UpTo(S, n + 1), NEW x \in s
               PROVE  g[s] = f[x] + g[s \ {x}]
    BY DEF Takes
  <2>1. s \in SUBSET S
    BY DEF UpTo
  <2>2. PICK c \in s : g[s] = f[c] + g[s \ {c}]
    <3>1. s # {} /\ Sums(g, f, S)
      OBVIOUS
    <3> QED
      <4>1. First(s) \in s /\ Takes(g, f, s, First(s))
        BY <2>1, <3>1, SumsAt
      <4> QED
        BY <4>1 DEF Takes
  <2>3. CASE c = x
    BY <2>2, <2>3
  <2>4. CASE c # x
    <3>1. s \ {c} \in UpTo(S, n) /\ s \ {x} \in UpTo(S, n)
      BY OneLess
    <3>2. g[s \ {c}] = f[x] + g[(s \ {c}) \ {x}]
      BY <1>2, <2>4, <3>1 DEF Takes
    <3>3. g[s \ {x}] = f[c] + g[(s \ {x}) \ {c}]
      BY <1>2, <2>4, <3>1 DEF Takes
    <3>4. PICK t \in SUBSET S : t = s \ {c, x}
      BY <2>1
    <3>5. (s \ {c}) \ {x} = t /\ (s \ {x}) \ {c} = t
      BY <3>4
    <3>6. PICK a \in Int, b \in Int, r \in Int : a = f[c] /\ b = f[x] /\ r = g[t]
      BY <1>0, <2>1
    <3>7. g[s] = a + (b + r) /\ g[s \ {x}] = a + r
      BY <2>2, <3>2, <3>3, <3>5, <3>6
    <3> QED
      BY <3>6, <3>7
  <2> QED
    BY <2>3, <2>4
<1> HIDE DEF Good
<1>3. Cardinality(S) \in Good
  BY <1>1, <1>2, Induction, EverythingUpTo
<1> QED
  BY <1>3, EverythingUpTo DEF Good

-----------------------------------------------------------------------------
(* What the proofs use.                                                       *)

LEMMA SumEmpty == \A f : SumFunctionOnSet(f, {}) = 0
<1> SUFFICES ASSUME NEW f PROVE SumFunctionOnSet(f, {}) = 0
  OBVIOUS
<1>1. PICK g : Sums(g, f, {}) /\ SumFunctionOnSet(f, {}) = g[{}]
  BY FS_EmptySet, SumIs
<1> QED
  BY <1>1, SumsAtNothing

LEMMA SumType ==
  ASSUME NEW S, IsFiniteSet(S), NEW f
  PROVE  /\ (\A x \in S : f[x] \in Int) => SumFunctionOnSet(f, S) \in Int
         /\ (\A x \in S : f[x] \in Nat) => SumFunctionOnSet(f, S) \in Nat
<1>1. PICK g : Sums(g, f, S) /\ SumFunctionOnSet(f, S) = g[S]
  BY SumIs
<1>2. ASSUME \A x \in S : f[x] \in Int PROVE g[S] \in Int
  <2>1. 0 \in Int /\ \A a, b \in Int : a + b \in Int
    OBVIOUS
  <2>2. \A s \in SUBSET S : g[s] \in Int
    BY <1>1, <1>2, <2>1, SumsType
  <2> QED
    BY <2>2
<1>3. ASSUME \A x \in S : f[x] \in Nat PROVE g[S] \in Nat
  <2>1. 0 \in Nat /\ \A a, b \in Nat : a + b \in Nat
    OBVIOUS
  <2>2. \A s \in SUBSET S : g[s] \in Nat
    BY <1>1, <1>3, <2>1, SumsType
  <2> QED
    BY <2>2
<1> QED
  BY <1>1, <1>2, <1>3

LEMMA SumTake ==
  ASSUME NEW S, IsFiniteSet(S), NEW f, \A x \in S : f[x] \in Int, NEW x \in S
  PROVE  SumFunctionOnSet(f, S) = f[x] + SumFunctionOnSet(f, S \ {x})
<1> DEFINE T == S \ {x}
<1>1. PICK g : Sums(g, f, S) /\ SumFunctionOnSet(f, S) = g[S]
  BY SumIs
<1>2. T \in SUBSET S /\ IsFiniteSet(T)
  BY FS_Subset
<1> HIDE DEF T
<1>3. PICK h : Sums(h, f, T) /\ SumFunctionOnSet(f, T) = h[T]
  BY <1>2, SumIs
<1>4. \A s \in SUBSET T : g[s] = h[s]
  <2>1. \A y \in T : f[y] = f[y]
    OBVIOUS
  <2> QED
    BY <1>1, <1>2, <1>3, <2>1, SumsAgree
<1>5. \A s \in SUBSET S : \A y \in s : Takes(g, f, s, y)
  <2>1. \A y \in S : f[y] \in Int
    OBVIOUS
  <2> QED
    BY <1>1, <2>1, SumsTake
<1>6. g[S] = f[x] + g[S \ {x}]
  BY <1>5 DEF Takes
<1>7. T = S \ {x}
  BY DEF T
<1> QED
  BY <1>1, <1>3, <1>4, <1>6, <1>7

LEMMA SumSame ==
  ASSUME NEW S, IsFiniteSet(S), NEW f, NEW e, \A x \in S : f[x] = e[x]
  PROVE  SumFunctionOnSet(f, S) = SumFunctionOnSet(e, S)
<1>1. PICK g : Sums(g, f, S) /\ SumFunctionOnSet(f, S) = g[S]
  BY SumIs
<1>2. PICK h : Sums(h, e, S) /\ SumFunctionOnSet(e, S) = h[S]
  BY SumIs
<1>3. \A s \in SUBSET S : g[s] = h[s]
  <2>1. S \in SUBSET S /\ \A x \in S : f[x] = e[x]
    OBVIOUS
  <2> QED
    BY <1>1, <1>2, <2>1, SumsAgree
<1> QED
  BY <1>1, <1>2, <1>3

\* Smaller terms, smaller sum.
LEMMA SumAtMost ==
  ASSUME NEW S, IsFiniteSet(S), NEW f, NEW e,
         \A x \in S : f[x] \in Int /\ e[x] \in Int /\ f[x] <= e[x]
  PROVE  SumFunctionOnSet(f, S) <= SumFunctionOnSet(e, S)
<1>1. PICK g : Sums(g, f, S) /\ SumFunctionOnSet(f, S) = g[S]
  BY SumIs
<1>2. PICK h : Sums(h, e, S) /\ SumFunctionOnSet(e, S) = h[S]
  BY SumIs
<1>3. /\ \A s \in SUBSET S : g[s] \in Int /\ h[s] \in Int
      /\ \A s \in SUBSET S : \A x \in s : Takes(g, f, s, x) /\ Takes(h, e, s, x)
  <2>1. /\ 0 \in Int /\ \A a, b \in Int : a + b \in Int
        /\ \A x \in S : f[x] \in Int
        /\ \A x \in S : e[x] \in Int
    OBVIOUS
  <2>2. \A s \in SUBSET S : g[s] \in Int
    BY <1>1, <2>1, SumsType
  <2>3. \A s \in SUBSET S : h[s] \in Int
    BY <1>2, <2>1, SumsType
  <2>4. \A s \in SUBSET S : \A x \in s : Takes(g, f, s, x)
    BY <1>1, <2>1, SumsTake
  <2>5. \A s \in SUBSET S : \A x \in s : Takes(h, e, s, x)
    BY <1>2, <2>1, SumsTake
  <2> QED
    BY <2>2, <2>3, <2>4, <2>5
<1> DEFINE Good == {n \in Nat : \A s \in UpTo(S, n) : g[s] <= h[s]}
<1>4. 0 \in Good
  <2> SUFFICES ASSUME NEW s \in UpTo(S, 0) PROVE g[s] <= h[s]
    OBVIOUS
  <2>1. s = {} /\ s \in SUBSET S
    BY NothingUpTo
  <2>2. g[s] = 0 /\ h[s] = 0
    BY <1>1, <1>2, <2>1, SumsAtNothing
  <2> QED
    BY <2>2
<1>5. ASSUME NEW n \in Nat, n \in Good PROVE n + 1 \in Good
  <2> SUFFICES ASSUME NEW s \in UpTo(S, n + 1) PROVE g[s] <= h[s]
    OBVIOUS
  <2>1. s \in SUBSET S
    BY DEF UpTo
  <2>2. CASE s = {}
    <3>1. g[s] = 0 /\ h[s] = 0
      BY <1>1, <1>2, <2>2, SumsAtNothing
    <3> QED
      BY <3>1
  <2>3. CASE s # {}
    <3>1. PICK x \in s : TRUE
      BY <2>3
    <3>2. s \ {x} \in UpTo(S, n) /\ s \ {x} \in SUBSET S /\ x \in S
      BY <2>1, OneLess
    <3>3. g[s \ {x}] <= h[s \ {x}]
      BY <1>5, <3>2
    <3>4. g[s] = f[x] + g[s \ {x}] /\ h[s] = e[x] + h[s \ {x}]
      BY <1>3, <2>1 DEF Takes
    <3>5. PICK a \in Int, b \in Int, c \in Int, d \in Int :
             a = f[x] /\ b = e[x] /\ c = g[s \ {x}] /\ d = h[s \ {x}]
      BY <1>3, <3>2
    <3>6. a <= b /\ c <= d /\ g[s] = a + c /\ h[s] = b + d
      BY <3>2, <3>3, <3>4, <3>5
    <3> QED
      BY <3>6
  <2> QED
    BY <2>2, <2>3
<1> HIDE DEF Good
<1>6. Cardinality(S) \in Good
  BY <1>4, <1>5, Induction, EverythingUpTo
<1>7. g[S] <= h[S]
  BY <1>6, EverythingUpTo DEF Good
<1> QED
  BY <1>1, <1>2, <1>7

-----------------------------------------------------------------------------
(* Loops: a recursive function that does a body's step for each index.        *)

\* g is the function that starts with m and does B with the indices from first
Iterates(g, B, m, first) ==
  g = [k \in Nat |-> IF k = 0 THEN m ELSE B[<<g[k - 1], first + k - 1>>]]

LEMMA IteratesExists ==
  ASSUME NEW M, NEW B \in [M \X Nat -> M], NEW m \in M, NEW first \in Nat
  PROVE  \E g \in [Nat -> M] : Iterates(g, B, m, first)
<1> DEFINE Upto(n) == {f \in [0 .. n -> M] :
                         /\ f[0] = m
                         /\ \A k \in 0 .. n : k # 0 => f[k] = B[<<f[k - 1], first + k - 1>>]}
           Good == {n \in Nat : Upto(n) # {}}
<1>1. 0 \in Good
  <2>1. [k \in 0 .. 0 |-> m] \in Upto(0)
    OBVIOUS
  <2> QED
    BY <2>1
<1>2. ASSUME NEW n \in Nat, n \in Good PROVE n + 1 \in Good
  <2>1. PICK f \in Upto(n) : TRUE
    BY <1>2
  <2> DEFINE next == B[<<f[n], first + n>>]
             h == [k \in 0 .. n + 1 |-> IF k <= n THEN f[k] ELSE next]
  <2>2. f \in [0 .. n -> M] /\ f[0] = m
    BY <2>1
  <2>3. f[n] \in M /\ first + n \in Nat
    BY <1>2, <2>2
  <2>4. next \in M
    BY <2>3
  <2>5. h \in [0 .. n + 1 -> M] /\ h[0] = m /\ h[n + 1] = next
    BY <1>2, <2>2, <2>4
  <2>6. ASSUME NEW k \in 0 .. n + 1, k # 0
        PROVE  h[k] = B[<<h[k - 1], first + k - 1>>]
    <3>1. CASE k = n + 1
      <4>1. h[k - 1] = f[n] /\ first + k - 1 = first + n
        BY <1>2, <3>1
      <4> QED
        BY <2>5, <3>1, <4>1
    <3>2. CASE k \in 0 .. n
      <4>1. h[k] = f[k] /\ h[k - 1] = f[k - 1]
        BY <1>2, <2>6, <3>2
      <4>2. f[k] = B[<<f[k - 1], first + k - 1>>]
        BY <2>1, <2>6, <3>2
      <4> QED
        BY <4>1, <4>2
    <3> QED
      BY <1>2, <3>1, <3>2
  <2>7. h \in Upto(n + 1)
    BY <2>5, <2>6
  <2> HIDE DEF next, h, Upto
  <2>8. n + 1 \in Nat /\ Upto(n + 1) # {}
    BY <1>2, <2>7
  <2> QED
    BY <2>8
<1>3. Nat \subseteq Good
  BY <1>1, <1>2, Induction
<1>4. ASSUME NEW n \in Nat, NEW j \in 0 .. n,
             NEW f \in Upto(n), NEW h \in Upto(j)
      PROVE  f[j] = h[j]
  <2> DEFINE Same == {k \in Nat : k <= j => f[k] = h[k]}
  <2>1. 0 \in Same
    OBVIOUS
  <2>2. ASSUME NEW k \in Nat, k \in Same PROVE k + 1 \in Same
    <3>1. SUFFICES ASSUME k + 1 <= j PROVE f[k + 1] = h[k + 1]
      OBVIOUS
    <3>2. f[k] = h[k]
      BY <2>2, <3>1
    <3>3. k + 1 \in 0 .. n /\ k + 1 \in 0 .. j /\ k + 1 # 0 /\ (k + 1) - 1 = k
      BY <1>4, <3>1
    <3>4. f[k + 1] = B[<<f[(k + 1) - 1], first + (k + 1) - 1>>]
      BY <3>3
    <3>5. h[k + 1] = B[<<h[(k + 1) - 1], first + (k + 1) - 1>>]
      BY <3>3
    <3> QED
      BY <3>2, <3>3, <3>4, <3>5
  <2>3. Nat \subseteq Same
    BY <2>1, <2>2, Induction
  <2> QED
    BY <1>4, <2>3
<1> DEFINE f(n) == CHOOSE x \in Upto(n) : TRUE
           g == [n \in Nat |-> f(n)[n]]
<1>5. \A n \in Nat : f(n) \in Upto(n)
  BY <1>3
<1> HIDE DEF f
<1>6. \A n \in Nat : f(n) \in [0 .. n -> M] /\ g[n] = f(n)[n]
  BY <1>5
<1>7. g \in [Nat -> M]
  BY <1>6
<1>8. ASSUME NEW k \in Nat
      PROVE  g[k] = IF k = 0 THEN m ELSE B[<<g[k - 1], first + k - 1>>]
  <2>1. CASE k = 0
    BY <1>5, <1>6, <2>1
  <2>2. CASE k # 0
    <3>1. k - 1 \in Nat /\ k - 1 \in 0 .. k /\ k \in 0 .. k
      BY <2>2
    <3>2. f(k) \in Upto(k) /\ f(k - 1) \in Upto(k - 1)
      BY <1>5, <3>1
    <3>3. f(k)[k - 1] = f(k - 1)[k - 1]
      BY <1>4, <3>1, <3>2
    <3>4. f(k)[k] = B[<<f(k)[k - 1], first + k - 1>>]
      BY <2>2, <3>1, <3>2
    <3> QED
      BY <1>6, <2>2, <3>1, <3>3, <3>4
  <2> QED
    BY <2>1, <2>2
<1> QED
  BY <1>7, <1>8 DEF Iterates

\* What holds at first and is kept by each step holds all along.
LEMMA KeptAlong ==
  ASSUME NEW h, NEW G, h[0] \in G[0],
         \A k \in Nat : h[k] \in G[k] => h[k + 1] \in G[k + 1]
  PROVE  \A k \in Nat : h[k] \in G[k]
<1> DEFINE Good == {k \in Nat : h[k] \in G[k]}
<1>1. 0 \in Good
  OBVIOUS
<1>2. \A k \in Nat : k \in Good => k + 1 \in Good
  OBVIOUS
<1>3. Nat \subseteq Good
  BY <1>1, <1>2, Induction
<1> QED
  BY <1>3

\* The values of a run stay in S.
LEMMA StaysIn ==
  ASSUME NEW S, NEW h, h = [k \in Nat |-> h[k]], h[0] \in S,
         \A k \in Nat : h[k] \in S => h[k + 1] \in S
  PROVE  h \in [Nat -> S]
<1> DEFINE G == [k \in Nat |-> S]
<1>0. \A k \in Nat : k + 1 \in Nat /\ G[k] = S /\ G[k + 1] = S
  OBVIOUS
<1> HIDE DEF G
<1>1. \A k \in Nat : h[k] \in G[k] => h[k + 1] \in G[k + 1]
  BY <1>0
<1>2. \A k \in Nat : h[k] \in G[k]
  BY <1>0, <1>1, KeptAlong
<1>3. \A k \in Nat : h[k] \in S
  BY <1>0, <1>2
<1> QED
  BY <1>3

\* The numbers from 1 to k.
LEMMA UpToHas == \A k \in Nat : Cardinality(1 .. k) = k
BY FS_Interval

\* What maps one to one into a finite set is not larger.
LEMMA NotLarger ==
  ASSUME NEW S, NEW T, IsFiniteSet(T), NEW f \in [S -> T],
         \A x, y \in S : f[x] = f[y] => x = y
  PROVE  /\ IsFiniteSet(S) /\ Cardinality(S) <= Cardinality(T)
         /\ Cardinality(S) \in Nat /\ Cardinality(T) \in Nat
<1>1. f \in Injection(S, T)
  BY DEF Injection, IsInjective
<1>2. IsFiniteSet(S) /\ Cardinality(S) <= Cardinality(T)
  BY <1>1, FS_Injection
<1> QED
  BY <1>2, FS_CardinalityType
=============================================================================
