-------------------------- MODULE InductionLemmas --------------------------
(***************************************************************************)
(* Induction and recursion over an interval, stated over sets and          *)
(* functions, so that they are cited like any other fact, and what they    *)
(* say of folding a sequence.                                              *)
(***************************************************************************)
EXTENDS SequencesExt, SequenceTheorems, WellFoundedInduction, TLAPS

-----------------------------------------------------------------------------
Below == {p \in Nat \X Nat : p[1] < p[2]}

LEMMA BelowWellFounded == IsWellFoundedOn(Below, Nat)
BY NatLessThanWellFounded DEF OpToRel, Below

\* A set of naturals with 0 and every successor of its members is Nat.
LEMMA NatSetInduction ==
  ASSUME NEW S \in SUBSET Nat, 0 \in S, \A n \in S : n + 1 \in S
  PROVE  S = Nat
<1> SUFFICES ASSUME S # Nat PROVE FALSE
  OBVIOUS
<1> DEFINE T == Nat \ S
<1>1. T \subseteq Nat /\ T # {}
  OBVIOUS
<1>2. PICK x \in T : \A y \in T : ~ (<<y, x>> \in Below)
  <2> HIDE DEF T
  <2> QED
    BY <1>1, BelowWellFounded, WFMin
<1>3. x - 1 \in Nat /\ x - 1 < x
  OBVIOUS
<1>4. x - 1 \notin T
  BY <1>2, <1>3 DEF Below
<1> QED
  BY <1>3, <1>4

\* A set of naturals has a least member.
LEMMA LeastNumber ==
  ASSUME NEW S \in SUBSET Nat, S # {}
  PROVE  \E x \in S : \A y \in S : x <= y
<1>1. PICK x \in S : \A y \in S : ~ (<<y, x>> \in Below)
  BY BelowWellFounded, WFMin
<1>2. ASSUME NEW y \in S PROVE x <= y
  <2>1. x \in Nat /\ y \in Nat /\ ~ (<<y, x>> \in Below)
    BY <1>1
  <2>2. ~ (y < x)
    BY <2>1 DEF Below
  <2> QED
    BY <2>1, <2>2
<1> QED
  BY <1>2

LEMMA MinIsMember ==
  ASSUME NEW S \in SUBSET Nat, S # {}
  PROVE  Min(S) \in S /\ \A x \in S : Min(S) <= x
BY LeastNumber, Zenon DEF Min

\* A set with 0 and, below a bound, every successor of its members, has all up to it.
LEMMA IntervalInduction ==
  ASSUME NEW m \in Nat, NEW S, 0 \in S, \A i \in 0 .. (m - 1) : i \in S => i + 1 \in S
  PROVE  \A i \in 0 .. m : i \in S
<1> DEFINE T == {n \in Nat : n <= m => n \in S}
<1>1. 0 \in T /\ \A n \in T : n + 1 \in T
  OBVIOUS
<1>2. T = Nat
  <2> HIDE DEF T
  <2>1. T \in SUBSET Nat
    BY DEF T
  <2> QED
    BY <1>1, <2>1, NatSetInduction
<1> QED
  BY <1>2

\* A function on 0 .. m is defined by its first value and a step.
Recursion(m, A, a, step) ==
  {f \in [0 .. m -> A] : f[0] = a /\ \A i \in 1 .. m : f[i] = step[<<i, f[i - 1]>>]}

LEMMA IntervalRecursion ==
  ASSUME NEW m \in Nat, NEW A, NEW a \in A, NEW step \in [(1 .. m) \X A -> A]
  PROVE  \E f : f \in Recursion(m, A, a, step)
<1> DEFINE Defines(f, k) ==
             /\ f \in [0 .. k -> A]
             /\ \A i \in 0 .. k : f[i] = IF i = 0 THEN a ELSE step[<<i, f[i - 1]>>]
           S == {k \in 0 .. m : \E f \in [0 .. k -> A] : Defines(f, k)}
<1>1. 0 \in S
  <2> DEFINE f == [i \in 0 .. 0 |-> a]
  <2>1. f \in [0 .. 0 -> A] /\ Defines(f, 0)
    OBVIOUS
  <2> HIDE DEF f
  <2> QED
    BY <2>1
<1>2. ASSUME NEW k \in 0 .. (m - 1), k \in S
      PROVE  k + 1 \in S
  <2>1. PICK f \in [0 .. k -> A] : Defines(f, k)
    BY <1>2
  <2> DEFINE g == [i \in 0 .. (k + 1) |-> IF i = k + 1 THEN step[<<k + 1, f[k]>>] ELSE f[i]]
  <2>2. g \in [0 .. (k + 1) -> A]
    <3>1. step[<<k + 1, f[k]>>] \in A
      BY <2>1
    <3> QED
      BY <3>1, <2>1
  <2>3. \A i \in 0 .. (k + 1) : g[i] = IF i = 0 THEN a ELSE step[<<i, g[i - 1]>>]
    <3> TAKE i \in 0 .. (k + 1)
    <3>1. CASE i = k + 1
      <4>1. g[i - 1] = f[k] /\ i # 0
        BY <3>1
      <4> QED
        BY <3>1, <4>1
    <3>2. CASE i \in 1 .. k
      <4>1. g[i] = f[i] /\ g[i - 1] = f[i - 1] /\ i # 0
        BY <3>2
      <4>2. f[i] = step[<<i, f[i - 1]>>]
        BY <2>1, <3>2
      <4> HIDE DEF g
      <4> QED
        BY <4>1, <4>2
    <3>3. CASE i = 0
      <4>1. 0 \in 0 .. k /\ 0 # k + 1 /\ 0 \in 0 .. (k + 1)
        OBVIOUS
      <4>2. f[0] = a
        BY <2>1, <4>1, Zenon
      <4>3. g[0] = a
        BY <4>1, <4>2
      <4> HIDE DEF g
      <4> QED
        BY <3>3, <4>3
    <3> QED
      BY <3>1, <3>2, <3>3
  <2> HIDE DEF g
  <2>4. k + 1 \in 0 .. m
    BY <1>2
  <2> QED
    BY <2>2, <2>3, <2>4
<1>3. m \in S
  <2> HIDE DEF S
  <2> QED
    BY <1>1, <1>2, IntervalInduction
<1>4. PICK f \in [0 .. m -> A] : Defines(f, m)
  BY <1>3
<1>5. f[0] = a /\ \A i \in 1 .. m : f[i] = step[<<i, f[i - 1]>>]
  <2>1. 0 \in 0 .. m
    OBVIOUS
  <2>2. f[0] = a
    BY <1>4, <2>1, Zenon
  <2> QED
    BY <1>4, <2>2
<1> QED
  BY <1>4, <1>5 DEF Recursion

\* A function on 1 .. m that goes from a place to a later one, until it stays, is defined by
\* what it is where it stays and a step.
Jumps(m, A, last, next, step) ==
  {f \in [1 .. m -> A] : \A i \in 1 .. m : f[i] = IF next[i] = i THEN last[i] ELSE step[<<i, f[next[i]]>>]}

LEMMA JumpRecursion ==
  ASSUME NEW m \in Nat, NEW A, NEW last \in [1 .. m -> A], NEW next \in [1 .. m -> 1 .. m],
         \A i \in 1 .. m : i <= next[i], NEW step \in [(1 .. m) \X A -> A]
  PROVE  \E f : f \in Jumps(m, A, last, next, step)
<1> DEFINE Defines(f, k) ==
             \A i \in m - k + 1 .. m : f[i] = IF next[i] = i THEN last[i] ELSE step[<<i, f[next[i]]>>]
           S == {k \in 0 .. m : \E f \in [1 .. m -> A] : Defines(f, k)}
<1>1. 0 \in S
  <2> DEFINE f == last
  <2>1. f \in [1 .. m -> A] /\ m - 0 + 1 .. m = {} /\ 0 \in 0 .. m
    OBVIOUS
  <2> HIDE DEF f
  <2>2. Defines(f, 0)
    BY <2>1
  <2> HIDE DEF Defines
  <2> QED
    BY <2>1, <2>2
<1>2. ASSUME NEW k \in 0 .. (m - 1), k \in S
      PROVE  k + 1 \in S
  <2>1. PICK f \in [1 .. m -> A] : Defines(f, k)
    BY <1>2
  <2> DEFINE at == m - k
             new == IF next[at] = at THEN last[at] ELSE step[<<at, f[next[at]]>>]
             g == [i \in 1 .. m |-> IF i = at THEN new ELSE f[i]]
  <2>2. at \in 1 .. m /\ k + 1 \in 0 .. m
    BY <1>2
  <2>3. new \in A
    <3>1. next[at] \in 1 .. m
      BY <2>2
    <3>2. f[next[at]] \in A
      BY <3>1
    <3>3. step[<<at, f[next[at]]>>] \in A
      BY <2>2, <3>2
    <3>4. last[at] \in A
      BY <2>2
    <3> HIDE DEF at
    <3> QED
      BY <3>3, <3>4
  <2> HIDE DEF new
  <2>4. g \in [1 .. m -> A]
    BY <2>3
  <2>5. g[at] = new /\ \A i \in 1 .. m : i # at => g[i] = f[i]
    BY <2>2
  <2> HIDE DEF g
  <2>6. ASSUME NEW i \in m - (k + 1) + 1 .. m
        PROVE  g[i] = IF next[i] = i THEN last[i] ELSE step[<<i, g[next[i]]>>]
    <3>1. i \in 1 .. m /\ i >= at
      BY <1>2
    <3>2. CASE i = at
      <4>1. next[at] # at => next[at] \in 1 .. m
        BY <2>2
      <4> QED
        BY <2>5, <3>2, <4>1 DEF new
    <3>3. CASE i # at
      <4>1. i \in m - k + 1 .. m /\ i > at
        BY <3>1, <3>3
      <4>2. next[i] \in 1 .. m /\ next[i] # at
        <5>1. next[i] \in 1 .. m /\ i <= next[i]
          BY <3>1
        <5> HIDE DEF at
        <5> QED
          BY <2>2, <4>1, <5>1
      <4>3. f[i] = IF next[i] = i THEN last[i] ELSE step[<<i, f[next[i]]>>]
        BY <2>1, <4>1
      <4> QED
        BY <2>5, <3>1, <3>3, <4>2, <4>3
    <3> QED
      BY <3>2, <3>3
  <2>7. Defines(g, k + 1)
    BY <2>6
  <2> HIDE DEF Defines
  <2> QED
    BY <2>2, <2>4, <2>7
<1>3. m \in S
  <2> HIDE DEF S
  <2>1. \A k \in 0 .. (m - 1) : k \in S => k + 1 \in S
    BY <1>2
  <2>2. \A k \in 0 .. m : k \in S
    BY <1>1, <2>1, IntervalInduction
  <2> QED
    BY <2>2
<1>4. PICK f \in [1 .. m -> A] : Defines(f, m)
  BY <1>3
<1>5. m - m + 1 = 1
  OBVIOUS
<1> QED
  BY <1>4, <1>5 DEF Jumps

-----------------------------------------------------------------------------
\* Flattening a list grows by the sequence that is appended to it.
LEMMA FlattenAppend ==
  ASSUME NEW B, NEW s \in Seq(Seq(B)), NEW x \in Seq(B)
  PROVE  /\ FlattenSeq(<<>>) = <<>>
         /\ FlattenSeq(s) \in Seq(B)
         /\ FlattenSeq(Append(s, x)) = FlattenSeq(s) \o x
<1> DEFINE A == Seq(B)
           step(t) == [c \in (1 .. Len(t)) \X A |-> c[2] \o t[c[1]]]
           flat(t) == CHOOSE f : f = [i \in 1 .. Len(t) |-> IF i = 1 THEN t[i] ELSE f[i - 1] \o t[i]]
<1>0. /\ <<>> \in A
      /\ \A y, z \in A : y \o z \in A
      /\ \A y \in A : <<>> \o y = y
  OBVIOUS
<1>1. ASSUME NEW t \in Seq(A), NEW g \in Recursion(Len(t), A, <<>>, step(t))
      PROVE  /\ g \in [0 .. Len(t) -> A] /\ g[0] = <<>>
             /\ \A i \in 1 .. Len(t) : g[i] = g[i - 1] \o t[i]
  <2>1. ASSUME NEW i \in 1 .. Len(t) PROVE g[i] = g[i - 1] \o t[i]
    <3>1. i - 1 \in 0 .. Len(t) /\ g \in [0 .. Len(t) -> A]
      BY <1>1 DEF Recursion
    <3>2. <<i, g[i - 1]>> \in (1 .. Len(t)) \X A
      BY <3>1
    <3> HIDE DEF A
    <3> QED
      BY <1>1, <3>2 DEF Recursion
  <2> QED
    BY <1>1, <2>1 DEF Recursion
<1>2. ASSUME NEW t \in Seq(A), NEW g \in Recursion(Len(t), A, <<>>, step(t))
      PROVE  FlattenSeq(t) = g[Len(t)]
  <2>1. Len(t) \in Nat /\ \A i \in 1 .. Len(t) : t[i] \in A
    BY LenProperties, ElementOfSeq
  <2> HIDE DEF A
  <2>2. CASE Len(t) = 0
    <3>1. t = <<>>
      BY <2>2, EmptySeq
    <3>2. FlattenSeq(t) = t
      BY <2>2 DEF FlattenSeq
    <3> QED
      BY <1>1, <2>2, <3>1, <3>2
  <2>3. CASE Len(t) # 0
    <3> DEFINE h == [i \in 1 .. Len(t) |-> g[i]]
    <3>0. g[1] = t[1]
      <4>1. 1 \in 1 .. Len(t) /\ 1 - 1 = 0
        BY <2>1, <2>3
      <4>2. t[1] \in A /\ g[1] = g[1 - 1] \o t[1]
        <5>1. \A i \in 1 .. Len(t) : g[i] = g[i - 1] \o t[i]
          BY <1>1
        <5> QED
          BY <2>1, <4>1, <5>1, Zenon
      <4>3. g[1 - 1] = <<>>
        BY <1>1, <4>1
      <4>4. <<>> \o t[1] = t[1]
        BY <1>0, <4>2
      <4> QED
        BY <4>2, <4>3, <4>4, Zenon
    <3>1. h = [i \in 1 .. Len(t) |-> IF i = 1 THEN t[i] ELSE h[i - 1] \o t[i]]
      <4>1. ASSUME NEW i \in 1 .. Len(t) PROVE g[i] = IF i = 1 THEN t[i] ELSE h[i - 1] \o t[i]
        <5>1. CASE i = 1
          BY <3>0, <5>1
        <5>2. CASE i # 1
          <6>1. i - 1 \in 1 .. Len(t)
            BY <2>1, <5>2
          <6> QED
            BY <1>1, <5>2, <6>1
        <5> QED
          BY <5>1, <5>2
      <4> QED
        BY <4>1
    <3> HIDE DEF h
    <3>2. flat(t) = [i \in 1 .. Len(t) |-> IF i = 1 THEN t[i] ELSE flat(t)[i - 1] \o t[i]]
      BY <3>1
    <3>3. FlattenSeq(t) = flat(t)[Len(t)]
      BY <2>3 DEF FlattenSeq
    <3> HIDE DEF flat
    <3> DEFINE T == {i \in 0 .. Len(t) : i = 0 \/ flat(t)[i] = g[i]}
    <3>4. 0 \in T
      BY <2>1
    <3>5. ASSUME NEW i \in 0 .. (Len(t) - 1), i \in T PROVE i + 1 \in T
      <4>1. i + 1 \in 1 .. Len(t) /\ i + 1 \in 0 .. Len(t) /\ (i + 1) - 1 = i
        BY <2>1
      <4>2. g[i + 1] = g[i] \o t[i + 1]
        BY <1>1, <4>1
      <4>3. CASE i = 0
        <5>1. flat(t)[1] = t[1]
          BY <3>2, <4>1, <4>3
        <5> QED
          BY <3>0, <4>1, <4>3, <5>1
      <4>4. CASE i # 0
        <5>1. i + 1 # 1
          BY <4>4
        <5>2. flat(t)[i + 1] = flat(t)[i] \o t[i + 1]
          BY <3>2, <4>1, <5>1
        <5> QED
          BY <3>5, <4>1, <4>2, <4>4, <5>2
      <4> QED
        BY <4>3, <4>4
    <3>6. Len(t) \in T
      <4> HIDE DEF T
      <4>1. \A i \in 0 .. (Len(t) - 1) : i \in T => i + 1 \in T
        BY <3>5
      <4>2. \A i \in 0 .. Len(t) : i \in T
        BY <2>1, <3>4, <4>1, IntervalInduction
      <4> QED
        BY <2>1, <4>2
    <3> QED
      BY <2>3, <3>3, <3>6
  <2> QED
    BY <2>2, <2>3
<1>3. ASSUME NEW t \in Seq(A) PROVE \E g : g \in Recursion(Len(t), A, <<>>, step(t))
  <2>1. Len(t) \in Nat /\ \A i \in 1 .. Len(t) : t[i] \in A
    BY LenProperties, ElementOfSeq
  <2>2. step(t) \in [(1 .. Len(t)) \X A -> A]
    BY <1>0, <2>1
  <2> HIDE DEF step, A
  <2> QED
    BY <1>0, <2>1, <2>2, IntervalRecursion, Zenon
<1> DEFINE u == Append(s, x)
<1>4. /\ u \in Seq(A) /\ Len(u) = Len(s) + 1 /\ Len(s) \in Nat
      /\ u[Len(s) + 1] = x /\ \A i \in 1 .. Len(s) : u[i] = s[i]
  OBVIOUS
<1>5. PICK g : g \in Recursion(Len(u), A, <<>>, step(u))
  BY <1>3, <1>4
<1>6. g \in [0 .. Len(u) -> A] /\ g[0] = <<>> /\ \A i \in 1 .. Len(u) : g[i] = g[i - 1] \o u[i]
  BY <1>1, <1>4, <1>5
<1> DEFINE h == [i \in 0 .. Len(s) |-> g[i]]
<1>7. h \in Recursion(Len(s), A, <<>>, step(s))
  <2>1. h \in [0 .. Len(s) -> A] /\ h[0] = <<>>
    BY <1>4, <1>6
  <2>2. ASSUME NEW i \in 1 .. Len(s) PROVE h[i] = step(s)[<<i, h[i - 1]>>]
    <3>1. i \in 0 .. Len(s) /\ i - 1 \in 0 .. Len(s) /\ i \in 1 .. Len(u) /\ i - 1 \in 0 .. Len(u)
      BY <1>4
    <3>2. h[i] = g[i] /\ h[i - 1] = g[i - 1] /\ g[i - 1] \in A
      BY <1>6, <3>1
    <3>3. step(s)[<<i, h[i - 1]>>] = h[i - 1] \o s[i]
      BY <3>1, <3>2
    <3> QED
      BY <1>4, <1>6, <3>1, <3>2, <3>3
  <2> HIDE DEF h, step, A
  <2> QED
    BY <2>1, <2>2 DEF Recursion
<1>8. FlattenSeq(s) = g[Len(s)] /\ FlattenSeq(u) = g[Len(u)]
  <2>1. h[Len(s)] = g[Len(s)]
    BY <1>4
  <2> HIDE DEF h, step
  <2> QED
    BY <1>2, <1>4, <1>5, <1>7, <2>1
<1>9. FlattenSeq(<<>>) = <<>>
  BY DEF FlattenSeq
<1> QED
  <2>1. Len(s) \in 0 .. Len(u) /\ Len(u) \in 1 .. Len(u) /\ Len(u) - 1 = Len(s)
    BY <1>4
  <2> HIDE DEF u
  <2>2. g[Len(u)] = g[Len(s)] \o x /\ g[Len(s)] \in A
    BY <1>4, <1>6, <2>1
  <2> QED
    BY <1>8, <1>9, <2>2 DEF u

\* Where a part of a flattened list ends.
PlaceOf(s, i) == Len(FlattenSeq(SubSeq(s, 1, i)))

\* The parts of a flattened list lie one behind the other.
LEMMA FlattenPlaces ==
  ASSUME NEW B, NEW s \in Seq(Seq(B))
  PROVE  /\ FlattenSeq(s) \in Seq(B)
         /\ \A i \in 0 .. Len(s) : PlaceOf(s, i) \in 0 .. Len(FlattenSeq(s))
         /\ PlaceOf(s, 0) = 0 /\ PlaceOf(s, Len(s)) = Len(FlattenSeq(s))
         /\ \A i \in 1 .. Len(s) : PlaceOf(s, i) = PlaceOf(s, i - 1) + Len(s[i])
         /\ \A i \in 1 .. Len(s) : \A j \in 1 .. Len(s[i]) : FlattenSeq(s)[PlaceOf(s, i - 1) + j] = s[i][j]
<1> DEFINE n == Len(s)
           F(i) == FlattenSeq(SubSeq(s, 1, i))
<1>1. n \in Nat /\ \A i \in 1 .. n : s[i] \in Seq(B) /\ Len(s[i]) \in Nat
  BY LenProperties, ElementOfSeq
<1>2. \A i \in 0 .. n : SubSeq(s, 1, i) \in Seq(Seq(B))
  <2> TAKE i \in 0 .. n
  <2>1. \A j \in 1 .. i : s[j] \in Seq(B)
    BY <1>1
  <2> QED
    BY <1>1, <2>1, SubSeqProperties
<1>3. ASSUME NEW i \in 1 .. n PROVE F(i) = F(i - 1) \o s[i]
  <2>1. /\ i - 1 \in 0 .. n /\ i \in 1 .. n /\ 1 \in 1 .. n
    BY <1>1
  <2> DEFINE t == SubSeq(s, 1, i - 1)
  <2>2. SubSeq(s, 1, i) = t \o <<s[i]>>
    BY <1>1, <2>1, SubSeqRecursiveSecond
  <2>3. t \in Seq(Seq(B)) /\ s[i] \in Seq(B)
    BY <1>1, <1>2, <2>1
  <2> HIDE DEF t
  <2>4. Append(t, s[i]) = t \o <<s[i]>>
    BY <2>3, AppendIsConcat
  <2>5. FlattenSeq(Append(t, s[i])) = FlattenSeq(t) \o s[i]
    BY <2>3, FlattenAppend
  <2> QED
    BY <2>2, <2>4, <2>5 DEF t
<1>4. ASSUME NEW i \in 0 .. n PROVE F(i) \in Seq(B) /\ Len(F(i)) \in Nat
  <2> DEFINE t == SubSeq(s, 1, i)
  <2>1. t \in Seq(Seq(B))
    BY <1>2
  <2> HIDE DEF t
  <2>2. FlattenSeq(t) \in Seq(B)
    <3>1. <<>> \in Seq(B)
      OBVIOUS
    <3> QED
      BY <2>1, <3>1, FlattenAppend
  <2> QED
    BY <2>2, LenProperties DEF t
<1>5. F(0) = <<>> /\ F(n) = FlattenSeq(s)
  <2>1. SubSeq(s, 1, 0) = <<>>
    BY SubSeqEmpty
  <2>2. SubSeq(s, 1, n) = s
    BY SubSeqFull
  <2>3. FlattenSeq(<<>>) = <<>>
    BY DEF FlattenSeq
  <2> QED
    BY <2>1, <2>2, <2>3, Zenon
<1> HIDE DEF F
<1> DEFINE at == [i \in 0 .. n |-> Len(F(i))]
           len == [i \in 1 .. n |-> Len(s[i])]
<1>6. /\ at \in [0 .. n -> Nat] /\ len \in [1 .. n -> Nat]
      /\ \A i \in 0 .. n : at[i] = Len(F(i))
      /\ \A i \in 1 .. n : len[i] = Len(s[i])
      /\ at[0] = 0
  BY <1>1, <1>4, <1>5
<1> HIDE DEF at, len
<1>7. ASSUME NEW i \in 1 .. n
      PROVE  /\ at[i] = at[i - 1] + len[i]
             /\ \A j \in 1 .. at[i - 1] : F(i)[j] = F(i - 1)[j]
             /\ \A j \in 1 .. len[i] : F(i)[at[i - 1] + j] = s[i][j]
  <2> DEFINE x == F(i - 1)
             y == s[i]
  <2>1. i - 1 \in 0 .. n /\ i \in 0 .. n
    BY <1>1
  <2>2. /\ x \in Seq(B) /\ y \in Seq(B) /\ Len(x) \in Nat /\ Len(y) \in Nat
        /\ at[i - 1] = Len(x) /\ at[i] = Len(F(i)) /\ len[i] = Len(y)
    BY <1>1, <1>4, <1>6, <2>1
  <2>3. F(i) = x \o y
    BY <1>3
  <2> HIDE DEF x, y
  <2>4. /\ Len(x \o y) = Len(x) + Len(y)
        /\ \A j \in 1 .. Len(x) + Len(y) : (x \o y)[j] = IF j <= Len(x) THEN x[j] ELSE y[j - Len(x)]
    BY <2>2, ConcatProperties
  <2>5. \A j \in 1 .. Len(x) : (x \o y)[j] = x[j]
    BY <2>2, <2>4
  <2>6. ASSUME NEW j \in 1 .. Len(y) PROVE (x \o y)[Len(x) + j] = y[j]
    <3>1. Len(x) + j \in 1 .. Len(x) + Len(y) /\ ~ (Len(x) + j <= Len(x)) /\ Len(x) + j - Len(x) = j
      BY <2>2
    <3> QED
      BY <2>4, <3>1
  <2> QED
    BY <2>2, <2>3, <2>4, <2>5, <2>6 DEF x, y
<1> DEFINE Placed(k) ==
             \A i \in 1 .. k : /\ at[i] <= at[k]
                               /\ \A j \in 1 .. len[i] : F(k)[at[i - 1] + j] = s[i][j]
           T == {k \in 0 .. n : Placed(k)}
<1>8. 0 \in T
  <2>1. 1 .. 0 = {} /\ 0 \in 0 .. n
    BY <1>1
  <2> QED
    BY <2>1
<1>9. ASSUME NEW k \in 0 .. (n - 1), k \in T PROVE k + 1 \in T
  <2>1. k + 1 \in 1 .. n /\ (k + 1) - 1 = k /\ k \in 0 .. n /\ k + 1 \in 0 .. n
    BY <1>1
  <2>2. ASSUME NEW i \in 1 .. k + 1
        PROVE  /\ at[i] <= at[k + 1]
               /\ \A j \in 1 .. len[i] : F(k + 1)[at[i - 1] + j] = s[i][j]
    <3>1. CASE i = k + 1
      <4>1. \A j \in 1 .. len[i] : F(k + 1)[at[i - 1] + j] = s[i][j]
        BY <1>7, <2>1, <3>1
      <4>2. at[i] \in Nat /\ at[k + 1] = at[i]
        BY <1>6, <2>1, <3>1
      <4> QED
        BY <4>1, <4>2
    <3>2. CASE i \in 1 .. k
      <4>1. at[i] <= at[k] /\ \A j \in 1 .. len[i] : F(k)[at[i - 1] + j] = s[i][j]
        BY <1>9, <3>2
      <4>2. /\ at[k + 1] = at[k] + len[k + 1]
            /\ \A j \in 1 .. at[k] : F(k + 1)[j] = F(k)[j]
        BY <1>7, <2>1
      <4>3. i \in 1 .. n /\ i - 1 \in 0 .. n /\ i \in 0 .. n
        BY <2>1, <3>2
      <4>4. at[k] \in Nat /\ at[i] \in Nat /\ len[k + 1] \in Nat /\ len[i] \in Nat /\ at[i - 1] \in Nat
        BY <1>6, <2>1, <4>3
      <4>5. at[i] = at[i - 1] + len[i]
        BY <1>7, <4>3
      <4>6. ASSUME NEW j \in 1 .. len[i] PROVE F(k + 1)[at[i - 1] + j] = s[i][j]
        <5>1. at[i - 1] + j \in 1 .. at[k]
          <6> DEFINE a == at[i - 1]
                     b == at[i]
                     c == at[k]
                     d == len[i]
          <6>1. a \in Nat /\ b \in Nat /\ c \in Nat /\ d \in Nat /\ b = a + d /\ b <= c /\ j \in 1 .. d
            BY <4>1, <4>4, <4>5
          <6> HIDE DEF a, b, c, d
          <6>2. a + j \in 1 .. c
            BY <6>1
          <6> QED
            BY <6>2 DEF a, c
        <5> QED
          BY <4>1, <4>2, <5>1
      <4> QED
        BY <4>1, <4>2, <4>4, <4>6
    <3> QED
      BY <2>1, <3>1, <3>2
  <2>3. Placed(k + 1)
    BY <2>2
  <2> HIDE DEF Placed
  <2> QED
    BY <2>1, <2>3
<1>10. Placed(n)
  <2> HIDE DEF T, Placed, n
  <2>1. \A k \in 0 .. (n - 1) : k \in T => k + 1 \in T
    BY <1>9
  <2>2. \A k \in 0 .. n : k \in T
    BY <1>1, <1>8, <2>1, IntervalInduction
  <2>3. n \in T
    BY <1>1, <2>2
  <2> QED
    BY <2>3 DEF T
<1>11. \A i \in 0 .. n : at[i] \in 0 .. at[n]
  <2> TAKE i \in 0 .. n
  <2>1. at[i] \in Nat /\ at[n] \in Nat /\ at[0] = 0
    BY <1>1, <1>6
  <2>2. CASE i = 0
    BY <2>1, <2>2
  <2>3. CASE i # 0
    <3>1. i \in 1 .. n
      BY <1>1, <2>3
    <3>2. at[i] <= at[n]
      BY <1>10, <3>1
    <3> QED
      BY <2>1, <3>2
  <2> QED
    BY <2>2, <2>3
<1>12. \A i \in 0 .. n : PlaceOf(s, i) = at[i]
  BY <1>6 DEF PlaceOf, F
<1>13. at[n] = Len(FlattenSeq(s)) /\ FlattenSeq(s) \in Seq(B) /\ F(n) = FlattenSeq(s)
  BY <1>1, <1>4, <1>5, <1>6
<1>14. \A i \in 1 .. n : i - 1 \in 0 .. n /\ i \in 0 .. n
  BY <1>1
<1>15. \A i \in 1 .. n : at[i] = at[i - 1] + len[i]
  BY <1>7
<1>16. 0 \in 0 .. n /\ n \in 0 .. n
  BY <1>1
<1>17. \A i \in 1 .. n : \A j \in 1 .. len[i] : F(n)[at[i - 1] + j] = s[i][j]
  BY <1>10
<1> HIDE DEF Placed, T, n
<1>18. \A i \in 1 .. n : PlaceOf(s, i) = PlaceOf(s, i - 1) + Len(s[i])
  BY <1>6, <1>12, <1>14, <1>15
<1>19. \A i \in 1 .. n : \A j \in 1 .. Len(s[i]) : FlattenSeq(s)[PlaceOf(s, i - 1) + j] = s[i][j]
  BY <1>6, <1>12, <1>13, <1>14, <1>17
<1>20. /\ PlaceOf(s, 0) = 0 /\ PlaceOf(s, n) = Len(FlattenSeq(s))
       /\ \A i \in 0 .. n : PlaceOf(s, i) \in 0 .. Len(FlattenSeq(s))
  BY <1>6, <1>11, <1>12, <1>13, <1>16
<1> QED
  BY <1>13, <1>18, <1>19, <1>20 DEF n

\* Flattening two lists in a row flattens each.
LEMMA FlattenConcat ==
  ASSUME NEW B, NEW a \in Seq(Seq(B)), NEW b \in Seq(Seq(B))
  PROVE  FlattenSeq(a \o b) = FlattenSeq(a) \o FlattenSeq(b)
<1> DEFINE n == Len(b)
           F == FlattenSeq(a)
           G(m) == FlattenSeq(SubSeq(b, 1, m))
           T == {m \in 0 .. n : FlattenSeq(a \o SubSeq(b, 1, m)) = F \o G(m)}
<1>1. n \in Nat /\ \A i \in 1 .. n : b[i] \in Seq(B)
  BY LenProperties, ElementOfSeq
<1>2. \A m \in 0 .. n : SubSeq(b, 1, m) \in Seq(Seq(B))
  <2> TAKE m \in 0 .. n
  <2>1. \A j \in 1 .. m : b[j] \in Seq(B)
    BY <1>1
  <2> QED
    BY <1>1, <2>1, SubSeqProperties
<1>3. ASSUME NEW t \in Seq(Seq(B)), NEW x \in Seq(B)
      PROVE  /\ FlattenSeq(t) \in Seq(B)
             /\ FlattenSeq(Append(t, x)) = FlattenSeq(t) \o x
  BY FlattenAppend
<1>4. FlattenSeq(<<>>) = <<>> /\ F \in Seq(B)
  <2>1. <<>> \in Seq(B)
    OBVIOUS
  <2> QED
    BY <1>3, <2>1 DEF FlattenSeq
<1>5. 0 \in T
  <2>1. SubSeq(b, 1, 0) = <<>> /\ a \o <<>> = a /\ F \o <<>> = F /\ 0 \in 0 .. n
    BY <1>1, <1>4, SubSeqEmpty, ConcatEmptySeq
  <2> HIDE DEF F
  <2> QED
    BY <1>4, <2>1 DEF F
<1>6. ASSUME NEW m \in 0 .. (n - 1), m \in T PROVE m + 1 \in T
  <2> DEFINE t == SubSeq(b, 1, m)
             x == b[m + 1]
  <2>1. m + 1 \in 1 .. n /\ (m + 1) - 1 = m /\ m \in 0 .. n /\ m + 1 \in 0 .. n
    BY <1>1
  <2>2. t \in Seq(Seq(B)) /\ x \in Seq(B)
    BY <1>1, <1>2, <2>1
  <2>3. SubSeq(b, 1, m + 1) = t \o <<x>>
    <3>1. 1 \in 1 .. Len(b) /\ m + 1 \in 1 .. Len(b)
      BY <1>1, <2>1
    <3> QED
      BY <2>1, <3>1, SubSeqRecursiveSecond
  <2>4. FlattenSeq(a \o t) = F \o FlattenSeq(t)
    BY <1>6
  <2> HIDE DEF t, x, T, F
  <2>5. t \o <<x>> = Append(t, x)
    BY <2>2, AppendIsConcat
  <2>6. a \o t \in Seq(Seq(B)) /\ a \o Append(t, x) = Append(a \o t, x)
    <3>1. a \o t \in Seq(Seq(B)) /\ <<x>> \in Seq(Seq(B))
      BY <2>2, ConcatProperties
    <3>2. Append(a \o t, x) = (a \o t) \o <<x>>
      BY <2>2, <3>1, AppendIsConcat
    <3>3. (a \o t) \o <<x>> = a \o (t \o <<x>>)
      <4> DEFINE y == <<x>>
                 C == Seq(B)
      <4>1. a \in Seq(C) /\ t \in Seq(C) /\ y \in Seq(C)
        BY <2>2, <3>1
      <4> HIDE DEF y, C
      <4>2. (a \o t) \o y = a \o (t \o y)
        BY <4>1, ConcatAssociative, SMTT(30)
      <4> QED
        BY <4>2 DEF y
    <3> QED
      BY <2>5, <3>1, <3>2, <3>3
  <2>7. FlattenSeq(a \o Append(t, x)) = (F \o FlattenSeq(t)) \o x
    BY <1>3, <2>2, <2>4, <2>6
  <2>8. FlattenSeq(Append(t, x)) = FlattenSeq(t) \o x /\ FlattenSeq(t) \in Seq(B)
    BY <1>3, <2>2
  <2>9. (F \o FlattenSeq(t)) \o x = F \o (FlattenSeq(t) \o x)
    <3> DEFINE f == FlattenSeq(t)
    <3>1. F \in Seq(B) /\ f \in Seq(B) /\ x \in Seq(B)
      BY <1>4, <2>2, <2>8
    <3> HIDE DEF f
    <3>2. (F \o f) \o x = F \o (f \o x)
      BY <3>1, ConcatAssociative, SMTT(30)
    <3> QED
      BY <3>2 DEF f
  <2>10. FlattenSeq(a \o SubSeq(b, 1, m + 1)) = F \o FlattenSeq(SubSeq(b, 1, m + 1))
    BY <2>3, <2>5, <2>7, <2>8, <2>9
  <2> QED
    BY <2>1, <2>10 DEF T
<1>7. n \in T
  <2> HIDE DEF T, n
  <2>1. \A m \in 0 .. (n - 1) : m \in T => m + 1 \in T
    BY <1>6
  <2>2. \A m \in 0 .. n : m \in T
    BY <1>1, <1>5, <2>1, IntervalInduction
  <2> QED
    BY <1>1, <2>2
<1>8. SubSeq(b, 1, n) = b
  BY SubSeqFull
<1> QED
  BY <1>7, <1>8

-----------------------------------------------------------------------------
(* Parts of sequences *)

\* A bounded set of integers has a greatest member.
LEMMA MaxIsMember ==
  ASSUME NEW n \in Int, NEW S \in SUBSET Int, S # {}, \A x \in S : x <= n
  PROVE  Max(S) \in S /\ \A x \in S : x <= Max(S)
<1> DEFINE T == {k \in Nat : n - k \in S}
<1>1. T \in SUBSET Nat /\ T # {}
  <2>1. PICK x \in S : TRUE
    OBVIOUS
  <2>2. n - x \in Nat /\ n - (n - x) = x
    BY <2>1
  <2> QED
    BY <2>1, <2>2
<1>2. PICK k \in T : \A y \in T : k <= y
  <2> HIDE DEF T
  <2> QED
    BY <1>1, LeastNumber
<1>3. n - k \in S
  BY <1>2
<1>4. ASSUME NEW x \in S PROVE n - k >= x
  <2>1. n - x \in Nat /\ n - (n - x) = x
    OBVIOUS
  <2>2. n - x \in T
    BY <2>1
  <2>3. k <= n - x
    BY <1>2, <2>2
  <2> QED
    BY <1>2, <2>3
<1>5. \E m \in S : \A x \in S : m >= x
  BY <1>3, <1>4
<1>6. Max(S) \in S /\ \A x \in S : Max(S) >= x
  BY <1>5, Zenon DEF Max
<1> QED
  BY <1>6

\* What a part of a sequence is.
LEMMA PartOf ==
  ASSUME NEW B, NEW s \in Seq(B), NEW i \in 1 .. Len(s) + 1, NEW j \in i - 1 .. Len(s)
  PROVE  /\ SubSeq(s, i, j) \in Seq(B) /\ Len(SubSeq(s, i, j)) = j - i + 1
         /\ \A k \in 1 .. j - i + 1 : SubSeq(s, i, j)[k] = s[i + k - 1]
<1>1. Len(s) \in Nat
  BY LenProperties
<1>2. i \in Int /\ j \in Int /\ \A k \in i .. j : s[k] \in B
  BY <1>1, ElementOfSeq
<1>3. /\ SubSeq(s, i, j) \in Seq(B) /\ Len(SubSeq(s, i, j)) = IF i <= j THEN j - i + 1 ELSE 0
      /\ \A k \in 1 .. j - i + 1 : SubSeq(s, i, j)[k] = s[i + k - 1]
  BY <1>2, SubSeqProperties
<1> QED
  BY <1>1, <1>3

\* The two parts of a concatenation.
LEMMA PartsOfConcat ==
  ASSUME NEW B, NEW x \in Seq(B), NEW y \in Seq(B), NEW t, t = x \o y
  PROVE  /\ t \in Seq(B) /\ Len(t) = Len(x) + Len(y)
         /\ SubSeq(t, 1, Len(x)) = x /\ SubSeq(t, Len(x) + 1, Len(t)) = y
<1> DEFINE n == Len(x)
           m == Len(y)
<1>1. n \in Nat /\ m \in Nat
  BY LenProperties
<1>2. /\ t \in Seq(B) /\ Len(t) = n + m
      /\ \A i \in 1 .. n + m : t[i] = IF i <= n THEN x[i] ELSE y[i - n]
  BY ConcatProperties
<1> HIDE DEF n, m
<1>3. SubSeq(t, 1, n) = x
  <2> DEFINE u == SubSeq(t, 1, n)
  <2>1. 1 \in 1 .. Len(t) + 1 /\ n \in 1 - 1 .. Len(t)
    BY <1>1, <1>2
  <2>2. u \in Seq(B) /\ Len(u) = n - 1 + 1 /\ \A k \in 1 .. n - 1 + 1 : u[k] = t[1 + k - 1]
    BY <1>2, <2>1, PartOf
  <2> HIDE DEF u
  <2>3. Len(u) = Len(x) /\ \A k \in 1 .. Len(u) : u[k] = x[k]
    BY <1>1, <1>2, <2>2 DEF n
  <2>4. u = x
    BY <2>2, <2>3, SeqEqual
  <2> QED
    BY <2>4 DEF u
<1>4. SubSeq(t, n + 1, n + m) = y
  <2> DEFINE u == SubSeq(t, n + 1, n + m)
             a == n + 1
             b == n + m
  <2>1. a \in 1 .. Len(t) + 1 /\ b \in a - 1 .. Len(t)
    BY <1>1, <1>2
  <2> HIDE DEF a, b
  <2>2. SubSeq(t, a, b) \in Seq(B) /\ Len(SubSeq(t, a, b)) = b - a + 1
        /\ \A k \in 1 .. b - a + 1 : SubSeq(t, a, b)[k] = t[a + k - 1]
    BY <1>2, <2>1, PartOf
  <2>3. u = SubSeq(t, a, b) /\ b - a + 1 = m
    BY <1>1 DEF a, b
  <2> HIDE DEF u
  <2>4. u \in Seq(B) /\ Len(u) = m /\ \A k \in 1 .. m : u[k] = t[n + k]
    <3>1. \A k \in 1 .. m : a + k - 1 = n + k
      BY <1>1 DEF a
    <3> QED
      BY <2>2, <2>3, <3>1
  <2>5. \A k \in 1 .. m : u[k] = y[k]
    <3> TAKE k \in 1 .. m
    <3>1. n + k \in 1 .. n + m /\ ~ (n + k <= n) /\ (n + k) - n = k
      BY <1>1
    <3>2. t[n + k] = y[(n + k) - n]
      BY <1>2, <3>1
    <3> QED
      BY <2>4, <3>1, <3>2
  <2>6. u = y
    BY <2>4, <2>5, SeqEqual DEF m
  <2> QED
    BY <2>6 DEF u
<1> QED
  BY <1>2, <1>3, <1>4 DEF n, m

\* What stands before a text may be joined to what stands before that.
Regrouped(done, mid, f, y) ==
  /\ done \o ((mid \o f) \o y) = ((done \o mid) \o f) \o y
  /\ Len(done \o mid) = Len(done) + Len(mid)

\* Concatenation is regrouped in four parts.
LEMMA ConcatRegroup ==
  ASSUME NEW B, NEW done \in Seq(B), NEW mid \in Seq(B), NEW f \in Seq(B), NEW y \in Seq(B)
  PROVE  Regrouped(done, mid, f, y) /\ done \o mid \in Seq(B)
<1>1. done \o mid \in Seq(B) /\ mid \o f \in Seq(B) /\ Len(done \o mid) = Len(done) + Len(mid)
  BY ConcatProperties
<1>2. (done \o (mid \o f)) \o y = done \o ((mid \o f) \o y)
  <2> DEFINE z == mid \o f
  <2>1. z \in Seq(B)
    BY <1>1
  <2> HIDE DEF z
  <2>2. (done \o z) \o y = done \o (z \o y)
    BY <2>1, ConcatAssociative, SMTT(30)
  <2> QED
    BY <2>2 DEF z
<1>3. (done \o mid) \o f = done \o (mid \o f)
  BY ConcatAssociative
<1> QED
  BY <1>1, <1>2, <1>3 DEF Regrouped

\* A sequence behind another one.
LEMMA FirstThen ==
  ASSUME NEW A, NEW x \in A, NEW rest \in Seq(A)
  PROVE  /\ <<x>> \o rest \in Seq(A) /\ Len(<<x>> \o rest) = Len(rest) + 1 /\ (<<x>> \o rest)[1] = x
         /\ \A i \in 1 .. Len(rest) : (<<x>> \o rest)[i + 1] = rest[i]
OBVIOUS

\* A sequence is its first member and what follows.
LEMMA FirstThenIs ==
  ASSUME NEW A, NEW b \in A, NEW e \in Seq(A), NEW f \in Seq(A), Len(f) = Len(e) + 1, f[1] = b,
         \A i \in 1 .. Len(e) : f[i + 1] = e[i]
  PROVE  f = <<b>> \o e
<1> DEFINE g == <<b>> \o e
           n == Len(e)
<1>1. n \in Nat
  BY LenProperties
<1>2. g \in Seq(A) /\ Len(g) = n + 1 /\ g[1] = b /\ \A i \in 1 .. n : g[i + 1] = e[i]
  BY FirstThen
<1> HIDE DEF g
<1>3. \A i \in 1 .. n + 1 : f[i] = g[i]
  <2> TAKE i \in 1 .. n + 1
  <2>1. CASE i = 1
    BY <1>2, <2>1
  <2>2. CASE i # 1
    <3>1. i - 1 \in 1 .. n /\ (i - 1) + 1 = i
      BY <1>1, <2>2
    <3>2. f[(i - 1) + 1] = e[i - 1] /\ g[(i - 1) + 1] = e[i - 1]
      BY <1>2, <3>1
    <3> QED
      BY <3>1, <3>2
  <2> QED
    BY <2>1, <2>2
<1>4. f = g
  BY <1>2, <1>3, SeqEqual
<1> QED
  BY <1>4 DEF g

\* What holds at a place when it holds at all places behind it, holds at every place.
LEMMA DownwardInduction ==
  ASSUME NEW m \in Nat, NEW S, \A i \in 1 .. m : (\A j \in i + 1 .. m : j \in S) => i \in S
  PROVE  \A i \in 1 .. m : i \in S
<1> DEFINE T == {k \in 0 .. m : \A j \in m - k + 1 .. m : j \in S}
<1>1. 0 \in T
  <2>1. m - 0 + 1 .. m = {} /\ 0 \in 0 .. m
    OBVIOUS
  <2> QED
    BY <2>1
<1>2. ASSUME NEW k \in 0 .. (m - 1), k \in T PROVE k + 1 \in T
  <2>1. m - k \in 1 .. m /\ k + 1 \in 0 .. m
    OBVIOUS
  <2>2. m - k \in S
    BY <1>2, <2>1
  <2>3. \A j \in m - (k + 1) + 1 .. m : j = m - k \/ j \in m - k + 1 .. m
    OBVIOUS
  <2> QED
    BY <1>2, <2>1, <2>2, <2>3
<1>3. m \in T
  <2> HIDE DEF T
  <2>1. \A k \in 0 .. (m - 1) : k \in T => k + 1 \in T
    BY <1>2
  <2>2. \A k \in 0 .. m : k \in T
    BY <1>1, <2>1, IntervalInduction
  <2> QED
    BY <2>2
<1>4. m - m + 1 = 1
  OBVIOUS
<1> QED
  BY <1>3, <1>4

\* Flattening begins with the first sequence.
LEMMA FlattenFirst ==
  ASSUME NEW B, NEW x \in Seq(B), NEW rest \in Seq(Seq(B))
  PROVE  /\ FlattenSeq(<<x>>) = x
         /\ FlattenSeq(<<x>> \o rest) = x \o FlattenSeq(rest) /\ FlattenSeq(rest) \in Seq(B)
<1> DEFINE A == Seq(B)
           none == <<>>
           one == <<x>>
<1>1. none \in Seq(A) /\ one \in Seq(A) /\ Append(none, x) = one
  OBVIOUS
<1>2. FlattenSeq(none) = <<>> /\ FlattenSeq(Append(none, x)) = FlattenSeq(none) \o x
  <2> HIDE DEF none
  <2>1. FlattenSeq(Append(none, x)) = FlattenSeq(none) \o x
    BY <1>1, FlattenAppend
  <2> QED
    BY <2>1, <1>1, FlattenAppend DEF none
<1>3. <<>> \o x = x
  OBVIOUS
<1>4. FlattenSeq(one) = x
  <2> HIDE DEF one, none
  <2> QED
    BY <1>1, <1>2, <1>3
<1>5. FlattenSeq(one \o rest) = FlattenSeq(one) \o FlattenSeq(rest)
  <2> HIDE DEF one
  <2> QED
    BY <1>1, FlattenConcat
<1>6. FlattenSeq(rest) \in Seq(B)
  BY <1>3, FlattenAppend
<1> QED
  BY <1>4, <1>5, <1>6

\* A list of parts of at most one member each has no more members than parts.
LEMMA FlattenShort ==
  ASSUME NEW B, NEW s \in Seq(Seq(B)), \A i \in 1 .. Len(s) : Len(s[i]) <= 1
  PROVE  FlattenSeq(s) \in Seq(B) /\ Len(FlattenSeq(s)) <= Len(s)
<1> DEFINE n == Len(s)
           S == {i \in 0 .. n : PlaceOf(s, i) <= i}
<1>1. n \in Nat /\ \A i \in 1 .. n : Len(s[i]) \in Nat
  <2>1. ASSUME NEW i \in 1 .. n PROVE Len(s[i]) \in Nat
    BY ElementOfSeq, LenProperties
  <2> QED
    BY <2>1, LenProperties
<1>2. /\ FlattenSeq(s) \in Seq(B) /\ PlaceOf(s, 0) = 0 /\ PlaceOf(s, n) = Len(FlattenSeq(s))
      /\ \A i \in 0 .. n : PlaceOf(s, i) \in Int
      /\ \A i \in 1 .. n : PlaceOf(s, i) = PlaceOf(s, i - 1) + Len(s[i])
  <2>1. FlattenSeq(s) \in Seq(B) /\ \A i \in 0 .. n : PlaceOf(s, i) \in 0 .. Len(FlattenSeq(s))
    BY FlattenPlaces
  <2> QED
    BY <2>1, FlattenPlaces
<1>3. 0 \in S
  BY <1>1, <1>2
<1>4. ASSUME NEW i \in 0 .. (n - 1), i \in S PROVE i + 1 \in S
  <2>1. i \in 0 .. n /\ i + 1 \in 1 .. n /\ i + 1 \in 0 .. n /\ (i + 1) - 1 = i
    BY <1>1
  <2>2. PlaceOf(s, i + 1) = PlaceOf(s, i) + Len(s[i + 1])
    BY <1>2, <2>1
  <2>3. Len(s[i + 1]) <= 1
    BY <2>1
  <2> HIDE DEF n
  <2> QED
    BY <1>1, <1>2, <1>4, <2>1, <2>2, <2>3
<1>5. n \in S
  <2> HIDE DEF S, n
  <2>1. \A i \in 0 .. n : i \in S
    BY <1>1, <1>3, <1>4, IntervalInduction
  <2> QED
    BY <1>1, <2>1
<1> QED
  BY <1>2, <1>5
=============================================================================
