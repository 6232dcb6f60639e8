---------------------------- MODULE LibraryProofs ----------------------------
(***************************************************************************)
(* Proofs about the library as a whole: a behaviour of its specification   *)
(* is a behaviour of the specification of every wrapper, so what is proved *)
(* of a wrapper holds of the library.                                      *)
(***************************************************************************)
EXTENDS MCLibrary, ResourceProofs, ValueProofs, TextProofs, TLAPS

-----------------------------------------------------------------------------
(* Chains of pointers *)

\* The places a chain of pointers goes through.
ChainStep(pointers, ptr, offset) == IF ptr \in DOMAIN pointers THEN pointers[ptr] + offset ELSE Failed

\* A chain from an address on, place by place.
ChainFrom(pointers, address, offsets, f) ==
  /\ f[0] = address
  /\ \A k \in 1 .. Len(offsets) : f[k] = ChainStep(pointers, f[k - 1], offsets[k])
  /\ ChainPlace(pointers, address, offsets) = f[Len(offsets)]

\* The places of a chain exist, and the last one is what the chain ends at.
LEMMA ChainPlaces ==
  ASSUME NEW P \in SUBSET Int, NEW pointers \in [P -> Int], NEW address \in Int, NEW offsets \in Seq(Int)
  PROVE  \E f \in [0 .. Len(offsets) -> Int] : ChainFrom(pointers, address, offsets, f)
<1> DEFINE n == Len(offsets)
           step == [c \in (1 .. n) \X Int |-> ChainStep(pointers, c[2], offsets[c[1]])]
<1>1. n \in Nat /\ DOMAIN pointers = P /\ \A k \in 1 .. n : offsets[k] \in Int
  BY LenProperties, ElementOfSeq
<1>2. \A x \in Int, k \in 1 .. n : ChainStep(pointers, x, offsets[k]) \in Int
  BY <1>1 DEF ChainStep, Failed
<1> HIDE DEF n
<1>3. step \in [(1 .. n) \X Int -> Int]
  BY <1>2
<1>4. PICK f : f \in Recursion(n, Int, address, step)
  <2> HIDE DEF step
  <2> QED
    BY <1>1, <1>3, IntervalRecursion
<1>5. f \in [0 .. n -> Int] /\ f[0] = address /\ \A k \in 1 .. n : f[k] = step[<<k, f[k - 1]>>]
  BY <1>4 DEF Recursion
<1>6. ASSUME NEW k \in 1 .. n PROVE f[k] = ChainStep(pointers, f[k - 1], offsets[k])
  <2>1. f[k - 1] \in Int
    <3>1. k - 1 \in 0 .. n
      BY <1>1
    <3> QED
      BY <1>5, <3>1
  <2> QED
    BY <1>5, <2>1
<1> DEFINE body(g) == [k \in 0 .. n |-> IF k = 0 THEN address ELSE ChainStep(pointers, g[k - 1], offsets[k])]
           h == CHOOSE g : g = body(g)
<1>7. f = body(f)
  <2>1. \A k \in 0 .. n : f[k] = IF k = 0 THEN address ELSE ChainStep(pointers, f[k - 1], offsets[k])
    BY <1>1, <1>5, <1>6
  <2> QED
    BY <1>5, <2>1
<1>8. h = body(h)
  <2> HIDE DEF body
  <2> QED
    BY <1>7, Zenon
<1>9. ChainPlace(pointers, address, offsets) = h[n]
  BY DEF ChainPlace, h, body, n, ChainStep
<1> HIDE DEF h
<1>10. h[n] = f[n]
  <2> DEFINE S == {k \in 0 .. n : h[k] = f[k]}
  <2>1. 0 \in S
    <3>1. h[0] = address
      BY <1>1, <1>8
    <3> QED
      BY <1>1, <1>5, <3>1
  <2>2. ASSUME NEW k \in 0 .. (n - 1), k \in S PROVE k + 1 \in S
    <3>1. k + 1 \in 1 .. n /\ k + 1 \in 0 .. n /\ (k + 1) - 1 = k /\ k + 1 # 0
      BY <1>1
    <3>2. h[k + 1] = ChainStep(pointers, h[k], offsets[k + 1])
      <4>1. h[k + 1] = IF k + 1 = 0 THEN address ELSE ChainStep(pointers, h[(k + 1) - 1], offsets[k + 1])
        BY <1>8, <3>1
      <4> QED
        BY <3>1, <4>1
    <3>3. f[k + 1] = ChainStep(pointers, f[k], offsets[k + 1])
      BY <1>6, <3>1
    <3> QED
      BY <2>2, <3>1, <3>2, <3>3
  <2> HIDE DEF S
  <2>3. \A k \in 0 .. n : k \in S
    BY <1>1, <2>1, <2>2, IntervalInduction
  <2> QED
    BY <1>1, <2>3 DEF S
<1>11. ChainFrom(pointers, address, offsets, f)
  BY <1>5, <1>6, <1>9, <1>10 DEF ChainFrom, n
<1> QED
  BY <1>5, <1>11 DEF n

\* A chain from a place on ends where the whole chain does.
EndsThere(pointers, offsets, f, k) ==
  ChainPlace(pointers, f[k], SubSeq(offsets, k + 1, Len(offsets))) = f[Len(offsets)]

\* What is left of a chain, from a place on it, ends where the chain does.
LEMMA ChainRest ==
  ASSUME NEW P \in SUBSET Int, NEW pointers \in [P -> Int], NEW address \in Int, NEW offsets \in Seq(Int),
         NEW f, ChainFrom(pointers, address, offsets, f), NEW k \in 0 .. Len(offsets), f[k] \in Int
  PROVE  EndsThere(pointers, offsets, f, k)
<1> DEFINE n == Len(offsets)
           rest == SubSeq(offsets, k + 1, n)
           m == n - k
<1>1. n \in Nat /\ m \in Nat /\ k + m = n
  BY LenProperties
<1>2. rest \in Seq(Int) /\ Len(rest) = m /\ \A i \in 1 .. m : rest[i] = offsets[k + i]
  <2> DEFINE a == k + 1
  <2>1. a \in 1 .. n + 1 /\ n \in a - 1 .. n /\ n - a + 1 = m /\ \A i \in 1 .. m : a + i - 1 = k + i
    BY <1>1
  <2> HIDE DEF a, m
  <2>2. /\ SubSeq(offsets, a, n) \in Seq(Int) /\ Len(SubSeq(offsets, a, n)) = n - a + 1
        /\ \A i \in 1 .. n - a + 1 : SubSeq(offsets, a, n)[i] = offsets[a + i - 1]
    BY <2>1, PartOf, SMTT(30)
  <2> QED
    BY <2>1, <2>2 DEF a
<1>3. PICK g \in [0 .. Len(rest) -> Int] : ChainFrom(pointers, f[k], rest, g)
  <2> HIDE DEF rest
  <2> QED
    BY <1>2, ChainPlaces
<1>4. g[0] = f[k] /\ (\A i \in 1 .. m : g[i] = ChainStep(pointers, g[i - 1], rest[i]))
      /\ ChainPlace(pointers, f[k], rest) = g[m]
  BY <1>2, <1>3 DEF ChainFrom
<1>5. \A i \in 1 .. n : f[i] = ChainStep(pointers, f[i - 1], offsets[i])
  BY DEF ChainFrom
<1> HIDE DEF rest, m, n
<1> DEFINE S == {i \in 0 .. m : g[i] = f[k + i]}
<1>6. 0 \in S
  BY <1>1, <1>4
<1>7. ASSUME NEW i \in 0 .. (m - 1), i \in S PROVE i + 1 \in S
  <2>1. /\ i + 1 \in 1 .. m /\ i + 1 \in 0 .. m /\ (i + 1) - 1 = i
        /\ k + (i + 1) \in 1 .. n /\ (k + (i + 1)) - 1 = k + i
    BY <1>1
  <2>2. g[i + 1] = ChainStep(pointers, g[i], offsets[k + (i + 1)])
    BY <1>2, <1>4, <2>1
  <2>3. f[k + (i + 1)] = ChainStep(pointers, f[k + i], offsets[k + (i + 1)])
    BY <1>5, <2>1
  <2> QED
    BY <1>7, <2>1, <2>2, <2>3
<1>8. g[m] = f[n]
  <2> HIDE DEF S
  <2>1. \A i \in 0 .. m : i \in S
    BY <1>1, <1>6, <1>7, IntervalInduction
  <2>2. m \in S
    BY <1>1, <2>1
  <2> QED
    BY <1>1, <2>2 DEF S
<1> QED
  BY <1>4, <1>8 DEF rest, n, EndsThere

\* The beginning of a chain ends at a place of the chain.
LEMMA ChainStart ==
  ASSUME NEW P \in SUBSET Int, NEW pointers \in [P -> Int], NEW address \in Int, NEW offsets \in Seq(Int),
         NEW f, ChainFrom(pointers, address, offsets, f), NEW k \in 0 .. Len(offsets)
  PROVE  ChainPlace(pointers, address, SubSeq(offsets, 1, k)) = f[k]
<1> DEFINE n == Len(offsets)
           part == SubSeq(offsets, 1, k)
<1>1. n \in Nat /\ k \in Nat
  BY LenProperties
<1>2. part \in Seq(Int) /\ Len(part) = k /\ \A i \in 1 .. k : part[i] = offsets[i]
  <2>1. 1 \in 1 .. n + 1 /\ k \in 1 - 1 .. n /\ k - 1 + 1 = k /\ \A i \in 1 .. k : 1 + i - 1 = i
    BY <1>1
  <2>2. /\ SubSeq(offsets, 1, k) \in Seq(Int) /\ Len(SubSeq(offsets, 1, k)) = k - 1 + 1
        /\ \A i \in 1 .. k - 1 + 1 : SubSeq(offsets, 1, k)[i] = offsets[1 + i - 1]
    BY <2>1, PartOf
  <2> QED
    BY <2>1, <2>2
<1>3. PICK g \in [0 .. Len(part) -> Int] : ChainFrom(pointers, address, part, g)
  <2> HIDE DEF part
  <2> QED
    BY <1>2, ChainPlaces
<1>4. g[0] = address /\ (\A i \in 1 .. k : g[i] = ChainStep(pointers, g[i - 1], part[i]))
      /\ ChainPlace(pointers, address, part) = g[k]
  BY <1>2, <1>3 DEF ChainFrom
<1>5. f[0] = address /\ \A i \in 1 .. n : f[i] = ChainStep(pointers, f[i - 1], offsets[i])
  BY DEF ChainFrom
<1> HIDE DEF part
<1> DEFINE S == {i \in 0 .. k : g[i] = f[i]}
<1>6. 0 \in S
  BY <1>1, <1>4, <1>5
<1>7. ASSUME NEW i \in 0 .. (k - 1), i \in S PROVE i + 1 \in S
  <2>1. i + 1 \in 1 .. k /\ i + 1 \in 0 .. k /\ (i + 1) - 1 = i /\ i + 1 \in 1 .. n
    BY <1>1
  <2>2. g[i + 1] = ChainStep(pointers, g[i], offsets[i + 1])
    BY <1>2, <1>4, <2>1
  <2>3. f[i + 1] = ChainStep(pointers, f[i], offsets[i + 1])
    BY <1>5, <2>1
  <2> QED
    BY <1>7, <2>1, <2>2, <2>3
<1>8. g[k] = f[k]
  <2> HIDE DEF S
  <2>1. \A i \in 0 .. k : i \in S
    BY <1>1, <1>6, <1>7, IntervalInduction
  <2>2. k \in S
    BY <1>1, <2>1
  <2> QED
    BY <2>2 DEF S
<1> QED
  BY <1>4, <1>8 DEF part

\* A chain of pointers may be followed in two parts, and fails as a whole where a pointer on
\* it cannot be read, as long as no pointer that can be read is at the place of a failure
\* (read_memory_ex, write_memory_ex), whatever the pointers and offsets.
THEOREM ChainsCompose ==
  ASSUME NEW P \in SUBSET Int, Failed \notin P, NEW pointers \in [P -> Int], NEW address \in Int,
         NEW offsets \in Seq(Int)
  PROVE  ChainComposes(pointers, address, offsets)
<1> DEFINE n == Len(offsets)
<1>1. n \in Nat /\ DOMAIN pointers = P
  BY LenProperties
<1>2. PICK f \in [0 .. n -> Int] : ChainFrom(pointers, address, offsets, f)
  BY ChainPlaces
<1>3. ChainPlace(pointers, address, offsets) = f[n]
      /\ \A i \in 1 .. n : f[i] = ChainStep(pointers, f[i - 1], offsets[i])
  BY <1>2 DEF ChainFrom
<1>4. ASSUME NEW k \in 0 .. n, f[k] \notin P, k < n PROVE f[n] = Failed
  <2> HIDE DEF n
  <2> DEFINE m == n - (k + 1)
             S == {i \in 0 .. m : f[k + 1 + i] = Failed}
  <2>1. m \in Nat /\ k + 1 + m = n
    BY <1>1, <1>4
  <2>2. 0 \in S
    <3>1. k + 1 \in 1 .. n /\ (k + 1) - 1 = k /\ k + 1 + 0 = k + 1
      BY <1>1, <1>4
    <3>2. f[k + 1] = Failed
      BY <1>1, <1>3, <1>4, <3>1 DEF ChainStep
    <3> QED
      BY <2>1, <3>1, <3>2
  <2>3. ASSUME NEW i \in 0 .. (m - 1), i \in S PROVE i + 1 \in S
    <3>1. /\ i + 1 \in 0 .. m /\ k + 1 + (i + 1) \in 1 .. n /\ (k + 1 + (i + 1)) - 1 = k + 1 + i
      BY <1>1, <2>1
    <3>2. f[k + 1 + (i + 1)] = ChainStep(pointers, f[k + 1 + i], offsets[k + 1 + (i + 1)])
      BY <1>3, <3>1
    <3>3. f[k + 1 + i] = Failed
      BY <2>3
    <3> QED
      BY <1>1, <3>1, <3>2, <3>3 DEF ChainStep
  <2> HIDE DEF S, m
  <2>4. \A i \in 0 .. m : i \in S
    BY <2>1, <2>2, <2>3, IntervalInduction
  <2>5. m \in S
    BY <2>1, <2>4
  <2> QED
    BY <2>1, <2>5 DEF S
<1>5. ASSUME NEW k \in 0 .. n
      PROVE  LET middle == ChainPlace(pointers, address, SubSeq(offsets, 1, k))
             IN /\ ChainPlace(pointers, address, offsets)
                     = ChainPlace(pointers, middle, SubSeq(offsets, k + 1, n))
                /\ k < n /\ middle \notin DOMAIN pointers => ChainPlace(pointers, address, offsets) = Failed
  <2>1. ChainPlace(pointers, address, SubSeq(offsets, 1, k)) = f[k]
    BY <1>2, ChainStart
  <2>2. f[k] \in Int
    BY <1>2
  <2>3. ChainPlace(pointers, f[k], SubSeq(offsets, k + 1, n)) = f[n]
    <3>1. EndsThere(pointers, offsets, f, k)
      BY <1>2, <2>2, ChainRest
    <3> QED
      BY <3>1 DEF EndsThere
  <2> QED
    BY <1>1, <1>3, <1>4, <2>1, <2>3
<1> QED
  BY <1>5 DEF ChainComposes

-----------------------------------------------------------------------------
(* Searches of memory and snapshots of processes *)

\* A search finds the places of the block where the pattern matches, each once and in order.
LEMMA FoundAre ==
  ASSUME NEW B, NEW block \in Seq(B), NEW behind, NEW pattern
  PROVE  LET all == FindPattern(block, behind, pattern, FALSE)
         IN /\ all \in Seq(Nat)
            /\ \A i : i \in ToSet(all) <=> i \in 1 .. Len(block) /\ MatchesAt(block, behind, pattern, i)
            /\ \A k \in 2 .. Len(all) : all[k - 1] < all[k]
            /\ FindPattern(block, behind, pattern, TRUE) = IF all # <<>> THEN <<all[1]>> ELSE all
<1> DEFINE n == Len(block)
           s == [i \in DOMAIN block |-> i]
           places == {i \in DOMAIN block : MatchesAt(block, behind, pattern, i)}
           w == Picked(s, places)
<1>1. n \in Nat /\ DOMAIN block = 1 .. n
  BY LenProperties
<1>2. s \in Seq(Nat) /\ Len(s) = n /\ \A i \in 1 .. n : s[i] = i
  <2>1. s \in [1 .. n -> Nat] /\ \A i \in 1 .. n : s[i] = i
    BY <1>1
  <2> HIDE DEF s, n
  <2> QED
    BY <1>1, <2>1
<1>3. /\ FindPattern(block, behind, pattern, FALSE) = w
      /\ FindPattern(block, behind, pattern, TRUE) = IF w # <<>> THEN <<w[1]>> ELSE w
  BY DEF FindPattern
<1>4. \A i : i \in places <=> i \in 1 .. n /\ MatchesAt(block, behind, pattern, i)
  BY <1>1
<1> HIDE DEF s, places, n
<1>5. /\ w \in Seq(1 .. n)
      /\ \A k \in 1 .. Len(w) : w[k] \in places
      /\ \A k \in 2 .. Len(w) : w[k - 1] < w[k]
      /\ \A i \in 1 .. n : i \in places => \E k \in 1 .. Len(w) : w[k] = i
  BY <1>1, <1>2, PlacesPicked
<1> HIDE DEF w
<1>6. Len(w) \in Nat /\ DOMAIN w = 1 .. Len(w) /\ \A k \in 1 .. Len(w) : w[k] \in 1 .. n
  BY <1>5, LenProperties, ElementOfSeq
<1>7. w \in Seq(Nat)
  <2>1. \A i \in 1 .. n : i \in Nat
    BY <1>1
  <2>2. w \in [1 .. Len(w) -> Nat]
    BY <1>5, <1>6, <2>1
  <2> QED
    BY <1>6, <2>2
<1>8. \A i : i \in ToSet(w) <=> i \in 1 .. n /\ MatchesAt(block, behind, pattern, i)
  <2>1. \A i : i \in ToSet(w) <=> \E k \in 1 .. Len(w) : w[k] = i
    BY <1>6 DEF ToSet
  <2> QED
    BY <1>4, <1>5, <1>6, <2>1
<1> QED
  BY <1>3, <1>5, <1>7, <1>8 DEF n

\* Where the pattern fits in the block, it matches when its bytes are those of the block.
LEMMA MatchesInside ==
  ASSUME NEW B, NEW block \in Seq(B), NEW behind \in Seq(B), NEW pattern \in Seq(B \union {AnyByte}),
         NEW i \in 1 .. Len(block) - Len(pattern) + 1
  PROVE  MatchesAt(block, behind, pattern, i) <=>
           \A j \in DOMAIN pattern : pattern[j] \in {AnyByte, block[i + j - 1]}
<1> DEFINE t == block \o behind
<1>1. Len(block) \in Nat /\ Len(behind) \in Nat /\ Len(pattern) \in Nat /\ DOMAIN pattern = 1 .. Len(pattern)
  BY LenProperties
<1>2. \A k \in 1 .. Len(block) : t[k] = block[k]
  <2>1. \A k \in 1 .. Len(block) + Len(behind) : t[k] = IF k <= Len(block) THEN block[k] ELSE behind[k - Len(block)]
    BY ConcatProperties
  <2> HIDE DEF t
  <2> QED
    BY <1>1, <2>1
<1> HIDE DEF t
<1>3. \A j \in DOMAIN pattern : t[i + j - 1] = block[i + j - 1]
  <2> TAKE j \in DOMAIN pattern
  <2>1. i + j - 1 \in 1 .. Len(block)
    BY <1>1
  <2> QED
    BY <1>2, <2>1
<1> QED
  BY <1>3 DEF MatchesAt, t

\* A search of memory reports every place where the pattern lies in the block, in order, beyond
\* them only places where it reaches over the end, and as the first match the first of them
\* (find_pattern), whatever the block, what is behind it and the pattern.
THEOREM SearchFindsAll ==
  ASSUME NEW B, NEW block \in Seq(B), NEW behind \in Seq(B), NEW pattern \in Seq(B \union {AnyByte}),
         pattern # <<>>
  PROVE  PatternFound(block, behind, pattern)
<1> DEFINE n == Len(block)
           l == Len(pattern)
           inside == {i \in 1 .. n - l + 1 : \A j \in DOMAIN pattern : pattern[j] \in {AnyByte, block[i + j - 1]}}
           all == FindPattern(block, behind, pattern, FALSE)
<1>1. n \in Nat /\ l \in Nat /\ l >= 1
  BY LenProperties, EmptySeq
<1>2. /\ all \in Seq(Nat)
      /\ \A i : i \in ToSet(all) <=> i \in 1 .. n /\ MatchesAt(block, behind, pattern, i)
      /\ \A k \in 2 .. Len(all) : all[k - 1] < all[k]
      /\ FindPattern(block, behind, pattern, TRUE) = IF all # <<>> THEN <<all[1]>> ELSE all
  BY FoundAre
<1>3. \A i \in 1 .. n - l + 1 : i \in inside <=> MatchesAt(block, behind, pattern, i)
  BY MatchesInside
<1>4. PatternFound(block, behind, pattern) <=>
        /\ inside \subseteq ToSet(all)
        /\ \A i \in ToSet(all) \ inside : i + l - 1 > n
        /\ \A k \in 2 .. Len(all) : all[k - 1] < all[k]
        /\ FindPattern(block, behind, pattern, TRUE) = SubSeq(all, 1, IF all = <<>> THEN 0 ELSE 1)
  BY DEF PatternFound
<1>5. inside \subseteq 1 .. n - l + 1
  OBVIOUS
<1> HIDE DEF n, l, inside, all
<1>6. inside \subseteq ToSet(all)
  BY <1>1, <1>2, <1>3, <1>5
<1>7. ASSUME NEW i \in ToSet(all) \ inside PROVE i + l - 1 > n
  <2>1. i \in 1 .. n /\ MatchesAt(block, behind, pattern, i)
    BY <1>2
  <2>2. i \notin 1 .. n - l + 1
    BY <1>3, <2>1
  <2> QED
    BY <1>1, <2>1, <2>2
<1>8. FindPattern(block, behind, pattern, TRUE) = SubSeq(all, 1, IF all = <<>> THEN 0 ELSE 1)
  <2>1. CASE all = <<>>
    <3>1. SubSeq(all, 1, 0) = <<>>
      BY SubSeqEmpty
    <3> QED
      BY <1>2, <2>1, <3>1
  <2>2. CASE all # <<>>
    <3>1. Len(all) \in Nat /\ Len(all) >= 1
      BY <1>2, <2>2, LenProperties, EmptySeq
    <3>2. SubSeq(all, 1, 1) = <<all[1]>>
      <4> DEFINE x == SubSeq(all, 1, 1)
                 y == <<all[1]>>
      <4>1. 1 \in 1 .. Len(all) + 1 /\ 1 \in 1 - 1 .. Len(all) /\ 1 - 1 + 1 = 1 /\ 1 + 1 - 1 = 1
        BY <3>1
      <4>2. x \in Seq(Nat) /\ Len(x) = 1 - 1 + 1 /\ \A k \in 1 .. 1 - 1 + 1 : x[k] = all[1 + k - 1]
        BY <1>2, <4>1, PartOf
      <4>3. Len(x) = 1 /\ x[1] = all[1]
        BY <4>1, <4>2
      <4>4. all[1] \in Nat
        BY <1>2, <3>1, ElementOfSeq
      <4>5. y \in Seq(Nat) /\ Len(y) = 1 /\ y[1] = all[1]
        BY <4>4
      <4> HIDE DEF x, y
      <4>6. x = y
        BY <4>2, <4>3, <4>5, SeqEqual
      <4> QED
        BY <4>6 DEF x, y
    <3> QED
      BY <1>2, <2>2, <3>2
  <2> QED
    BY <2>1, <2>2
<1> QED
  BY <1>2, <1>4, <1>6, <1>7, <1>8

\* The pattern lies at an address within a region.
LiesAt(a, r, memory, pattern) ==
  /\ a \in r.base .. r.base + r.size - Len(pattern)
  /\ \A j \in DOMAIN pattern : pattern[j] \in {AnyByte, memory[a + j - 1]}

\* What a scan of a region reports.
HitsOf(hits, r, memory, pattern) ==
  /\ hits \in Seq(Nat)
  /\ \A a \in Nat : LiesAt(a, r, memory, pattern) => a \in ToSet(hits)
  /\ \A a \in ToSet(hits) : /\ a \in r.base .. r.base + r.size - 1
                            /\ LiesAt(a, r, memory, pattern) \/ a + Len(pattern) > r.base + r.size

Regions(K) == [base : Nat, size : Nat, readable : BOOLEAN, kind : K]

\* A scan of a region reports what lies in it, and asked for the first match the first of it.
LEMMA RegionScanned ==
  ASSUME NEW B, NEW K, NEW r \in Regions(K), NEW memory,
         \A a \in r.base .. r.base + r.size - 1 : memory[a] \in B,
         NEW behind \in Seq(B), NEW pattern \in Seq(B \union {AnyByte}), pattern # <<>>
  PROVE  LET hits == ScanRegion(r, memory, behind, pattern, FALSE)
         IN /\ HitsOf(hits, r, memory, pattern)
            /\ ScanRegion(r, memory, behind, pattern, TRUE) = IF hits # <<>> THEN <<hits[1]>> ELSE <<>>
<1> DEFINE b == r.base
           z == r.size
           l == Len(pattern)
           block == BytesOf(r, memory)
           all == FindPattern(block, behind, pattern, FALSE)
           one == FindPattern(block, behind, pattern, TRUE)
           hits == ScanRegion(r, memory, behind, pattern, FALSE)
           first == ScanRegion(r, memory, behind, pattern, TRUE)
<1>1. b \in Nat /\ z \in Nat
  BY DEF Regions
<1>2. l \in Nat /\ l >= 1 /\ DOMAIN pattern = 1 .. l
  BY LenProperties, EmptySeq
<1>3. block \in Seq(B) /\ Len(block) = z /\ \A i \in 1 .. z : block[i] = memory[b + i - 1]
  <2>1. block = [i \in 1 .. z |-> memory[b + i - 1]]
    BY DEF BytesOf
  <2>2. \A i \in 1 .. z : b + i - 1 \in b .. b + z - 1
    BY <1>1
  <2>3. \A i \in 1 .. z : memory[b + i - 1] \in B
    BY <2>2
  <2> HIDE DEF block, b, z
  <2> QED
    BY <1>1, <2>1, <2>3
<1> HIDE DEF block
<1>4. /\ all \in Seq(Nat)
      /\ \A i : i \in ToSet(all) <=> i \in 1 .. z /\ MatchesAt(block, behind, pattern, i)
      /\ one = IF all # <<>> THEN <<all[1]>> ELSE all
  BY <1>3, FoundAre
<1>5. \A i \in 1 .. z - l + 1 : MatchesAt(block, behind, pattern, i) <=>
                                  \A j \in 1 .. l : pattern[j] \in {AnyByte, block[i + j - 1]}
  BY <1>2, <1>3, MatchesInside
<1>6. hits = [i \in DOMAIN all |-> b + all[i] - 1] /\ first = [i \in DOMAIN one |-> b + one[i] - 1]
  BY DEF ScanRegion, block
<1>7. \A a : LiesAt(a, r, memory, pattern) <=>
        /\ a \in b .. b + z - l
        /\ \A j \in 1 .. l : pattern[j] \in {AnyByte, memory[a + j - 1]}
  BY <1>2 DEF LiesAt
<1> HIDE DEF all, one, hits, first, b, z, l
<1>8. Len(all) \in Nat /\ DOMAIN all = 1 .. Len(all) /\ \A k \in 1 .. Len(all) : all[k] \in 1 .. z
  <2>1. Len(all) \in Nat /\ DOMAIN all = 1 .. Len(all)
    BY <1>4, LenProperties
  <2> QED
    BY <1>4, <2>1 DEF ToSet
<1>9. hits \in Seq(Nat) /\ Len(hits) = Len(all) /\ \A k \in 1 .. Len(all) : hits[k] = b + all[k] - 1
  <2>1. \A k \in 1 .. Len(all) : b + all[k] - 1 \in Nat
    BY <1>1, <1>8
  <2> QED
    BY <1>6, <1>8, <2>1
<1>10. \A a : a \in ToSet(hits) <=> \E i \in ToSet(all) : a = b + i - 1
  <2>1. DOMAIN hits = 1 .. Len(all)
    BY <1>9, LenProperties
  <2> QED
    BY <1>8, <1>9, <2>1 DEF ToSet
<1>11. ASSUME NEW i \in 1 .. z - l + 1
       PROVE  MatchesAt(block, behind, pattern, i) <=> LiesAt(b + i - 1, r, memory, pattern)
  <2>1. b + i - 1 \in b .. b + z - l
    BY <1>1, <1>2
  <2>2. \A j \in 1 .. l : block[i + j - 1] = memory[(b + i - 1) + j - 1]
    <3> TAKE j \in 1 .. l
    <3>1. i + j - 1 \in 1 .. z /\ b + (i + j - 1) - 1 = (b + i - 1) + j - 1
      BY <1>1, <1>2
    <3> QED
      BY <1>3, <3>1
  <2> QED
    BY <1>5, <1>7, <2>1, <2>2
<1>12. ASSUME NEW a \in Nat, LiesAt(a, r, memory, pattern) PROVE a \in ToSet(hits)
  <2>1. a \in b .. b + z - l
    BY <1>7, <1>12
  <2>2. (a - b) + 1 \in 1 .. z - l + 1 /\ (a - b) + 1 \in 1 .. z /\ b + ((a - b) + 1) - 1 = a
    BY <1>1, <1>2, <2>1
  <2> QED
    BY <1>4, <1>10, <1>11, <1>12, <2>2
<1>13. ASSUME NEW a \in ToSet(hits)
       PROVE  /\ a \in b .. b + z - 1
              /\ LiesAt(a, r, memory, pattern) \/ a + l > b + z
  <2>1. PICK i \in ToSet(all) : a = b + i - 1
    BY <1>10
  <2>2. i \in 1 .. z /\ MatchesAt(block, behind, pattern, i)
    BY <1>4
  <2>3. CASE i \in 1 .. z - l + 1
    <3>1. LiesAt(a, r, memory, pattern)
      BY <1>11, <2>1, <2>2, <2>3
    <3> QED
      BY <1>1, <2>1, <2>2, <3>1
  <2>4. CASE i \notin 1 .. z - l + 1
    BY <1>1, <1>2, <2>1, <2>2, <2>4
  <2> QED
    BY <2>3, <2>4
<1>14. HitsOf(hits, r, memory, pattern)
  BY <1>9, <1>12, <1>13 DEF HitsOf, b, z, l
<1>15. first = IF hits # <<>> THEN <<hits[1]>> ELSE <<>>
  <2>1. CASE all = <<>>
    <3>1. Len(all) = 0
      BY <2>1
    <3>2. hits = <<>>
      BY <1>9, <3>1, EmptySeq
    <3>3. one = <<>> /\ DOMAIN one = {}
      BY <1>4, <2>1
    <3>4. first = <<>>
      BY <1>6, <3>3
    <3> QED
      BY <3>2, <3>4
  <2>2. CASE all # <<>>
    <3>1. 1 \in 1 .. Len(all)
      BY <1>4, <1>8, <2>2, EmptySeq
    <3>2. hits # <<>> /\ hits[1] = b + all[1] - 1
      <4>1. Len(hits) # 0 /\ Len(<<>>) = 0
        BY <1>8, <1>9, <3>1
      <4> QED
        BY <1>9, <3>1, <4>1
    <3>3. one = <<all[1]>>
      BY <1>4, <2>2
    <3> DEFINE x == all[1]
               y == hits[1]
    <3>4. first = [i \in DOMAIN <<x>> |-> b + <<x>>[i] - 1] /\ y = b + x - 1
      BY <1>6, <3>2, <3>3
    <3> HIDE DEF x, y
    <3>5. DOMAIN <<x>> = 1 .. 1 /\ <<x>>[1] = x /\ <<y>> = [i \in 1 .. 1 |-> y]
      OBVIOUS
    <3>6. \A i \in 1 .. 1 : b + <<x>>[i] - 1 = y
      <4> TAKE i \in 1 .. 1
      <4>1. i = 1
        OBVIOUS
      <4> QED
        BY <3>4, <3>5, <4>1
    <3>7. first = <<y>>
      BY <3>4, <3>5, <3>6
    <3> QED
      BY <3>2, <3>7 DEF y
  <2> QED
    BY <2>1, <2>2
<1> QED
  BY <1>14, <1>15 DEF hits, first

\* A module that was asked for by name is one of those loaded, or none.
LEMMA NamedModule ==
  ASSUME NEW N, NEW modules \in Seq([name : N, base : Nat, size : Nat]), NEW name
  PROVE  ModuleNamed(modules, name) \in [base : Nat, size : Nat]
<1> DEFINE at == {i \in DOMAIN modules : modules[i].name = name}
<1>1. DOMAIN modules = 1 .. Len(modules) /\ Len(modules) \in Nat
  BY LenProperties
<1>2. ModuleNamed(modules, name) = IF at = {} THEN NoModule
                                   ELSE [base |-> modules[Min(at)].base, size |-> modules[Min(at)].size]
  BY DEF ModuleNamed
<1>3. at \in SUBSET Nat /\ at \subseteq 1 .. Len(modules)
  BY <1>1
<1> HIDE DEF at
<1>4. CASE at = {}
  BY <1>2, <1>4 DEF NoModule
<1>5. CASE at # {}
  <2>1. Min(at) \in 1 .. Len(modules)
    BY <1>3, <1>5, MinIsMember
  <2>2. modules[Min(at)] \in [name : N, base : Nat, size : Nat]
    BY <2>1, ElementOfSeq
  <2> QED
    BY <1>2, <1>5, <2>2
<1> QED
  BY <1>4, <1>5

\* The regions of a process that a scan looks into.
LooksInto(r, regions, asked, module) ==
  r \in ToSet(regions) /\ r.base # 0 /\ r.kind \in asked /\ InModule(r, module) /\ r.readable

\* The regions scanned are those that were asked for, lie in the module and can be read.
LEMMA RegionsScanned ==
  ASSUME NEW R, NEW regions \in Seq(R), NEW asked, NEW module
  PROVE  LET listed == GetMemories(regions, asked)
             scan == Picked(listed, {i \in DOMAIN listed : InModule(listed[i], module) /\ listed[i].readable})
         IN scan \in Seq(R) /\ \A r : r \in ToSet(scan) <=> LooksInto(r, regions, asked, module)
<1> DEFINE listed == GetMemories(regions, asked)
           P == {r \in R : r.base # 0 /\ r.kind \in asked}
           Q == {r \in R : InModule(r, module) /\ r.readable}
           scan == Picked(listed, {i \in DOMAIN listed : InModule(listed[i], module) /\ listed[i].readable})
<1>1. DOMAIN regions = 1 .. Len(regions) /\ \A i \in 1 .. Len(regions) : regions[i] \in R
  BY LenProperties, ElementOfSeq
<1>2. {i \in DOMAIN regions : regions[i].base # 0 /\ regions[i].kind \in asked} = PlacesOf(regions, P)
  BY <1>1 DEF PlacesOf
<1>3. listed = Picked(regions, PlacesOf(regions, P))
  BY <1>2 DEF GetMemories
<1> HIDE DEF P, listed
<1>4. listed \in Seq(R) /\ \A r : r \in ToSet(listed) <=> r \in ToSet(regions) /\ r \in P
  BY <1>3, PickedWhen
<1>5. DOMAIN listed = 1 .. Len(listed) /\ \A i \in 1 .. Len(listed) : listed[i] \in R
  BY <1>4, LenProperties, ElementOfSeq
<1>6. {i \in DOMAIN listed : InModule(listed[i], module) /\ listed[i].readable} = PlacesOf(listed, Q)
  BY <1>5 DEF PlacesOf
<1>7. scan = Picked(listed, PlacesOf(listed, Q))
  BY <1>6
<1> HIDE DEF Q, scan
<1>8. scan \in Seq(R) /\ \A r : r \in ToSet(scan) <=> r \in ToSet(listed) /\ r \in Q
  BY <1>4, <1>7, PickedWhen
<1>9. \A r : r \in ToSet(regions) => r \in R
  BY <1>1 DEF ToSet
<1>10. \A r : r \in ToSet(scan) <=> LooksInto(r, regions, asked, module)
  BY <1>4, <1>8, <1>9 DEF LooksInto, P, Q
<1> QED
  BY <1>8, <1>10 DEF listed, scan

\* The regions said to be readable can be read to their end.
Readable(regions, M) == \A r \in ToSet(regions) : r.readable => r.base .. r.base + r.size - 1 \subseteq M

\* What a scan reports: of the hits of the regions looked into, or the first alone.
Reports(found, first, scan, hits) ==
  /\ \A a : a \in ToSet(found) <=> \E k \in 1 .. Len(scan) : a \in ToSet(hits[k])
  /\ Len(first) = (IF ToSet(found) = {} THEN 0 ELSE 1)
  /\ ToSet(first) \subseteq ToSet(found)

\* What a scan gives of the hits of the regions it looks into.
Given(pattern, hits, first_match_only) ==
  LET found == {k \in DOMAIN hits : hits[k] # <<>>}
  IN IF pattern = <<>> \/ found = {} THEN <<>>
     ELSE IF first_match_only THEN hits[Min(found)] ELSE FlattenSeq(hits)

\* A scan reports the hits of each region it looks into.
LEMMA ScanReports ==
  ASSUME NEW B, NEW K, NEW regions \in Seq(Regions(K)), NEW asked, NEW M \in SUBSET Nat, NEW memory \in [M -> B],
         NEW behind \in Seq(B), NEW pattern \in Seq(B \union {AnyByte}), pattern # <<>>,
         Readable(regions, M),
         NEW module
  PROVE  \E scan \in Seq(Regions(K)), hits \in Seq(Seq(Nat)) :
           /\ \A r : r \in ToSet(scan) <=> LooksInto(r, regions, asked, module)
           /\ \A k \in 1 .. Len(scan) : HitsOf(hits[k], scan[k], memory, pattern)
           /\ Reports(ProcessScanMemory(regions, asked, memory, behind, pattern, module, FALSE),
                      ProcessScanMemory(regions, asked, memory, behind, pattern, module, TRUE), scan, hits)
<1> DEFINE listed == GetMemories(regions, asked)
           scan == Picked(listed, {i \in DOMAIN listed : InModule(listed[i], module) /\ listed[i].readable})
           hits == [k \in DOMAIN scan |-> ScanRegion(scan[k], memory, behind, pattern, FALSE)]
           ones == [k \in DOMAIN scan |-> ScanRegion(scan[k], memory, behind, pattern, TRUE)]
           n == Len(scan)
           at == {k \in DOMAIN hits : hits[k] # <<>>}
           at1 == {k \in DOMAIN ones : ones[k] # <<>>}
           found == ProcessScanMemory(regions, asked, memory, behind, pattern, module, FALSE)
           first == ProcessScanMemory(regions, asked, memory, behind, pattern, module, TRUE)
<1>1. scan \in Seq(Regions(K)) /\ \A r : r \in ToSet(scan) <=> LooksInto(r, regions, asked, module)
  BY RegionsScanned
<1>2. /\ found = IF at = {} THEN <<>> ELSE FlattenSeq(hits)
      /\ first = IF at1 = {} THEN <<>> ELSE ones[Min(at1)]
  <2>1. \A one : ProcessScanMemory(regions, asked, memory, behind, pattern, module, one)
                  = Given(pattern, [k \in DOMAIN scan |-> ScanRegion(scan[k], memory, behind, pattern, one)], one)
    BY Zenon DEF ProcessScanMemory, Given
  <2>2. found = Given(pattern, hits, FALSE) /\ first = Given(pattern, ones, TRUE)
    BY <2>1
  <2> HIDE DEF found, first, hits, ones
  <2> QED
    BY <2>2 DEF Given
<1> HIDE DEF scan, found, first
<1>3. n \in Nat /\ DOMAIN scan = 1 .. n /\ \A k \in 1 .. n : scan[k] \in Regions(K) /\ scan[k] \in ToSet(scan)
  BY <1>1, LenProperties, ElementOfSeq DEF ToSet
<1>4. ASSUME NEW k \in 1 .. n
      PROVE  /\ HitsOf(hits[k], scan[k], memory, pattern)
             /\ ones[k] = IF hits[k] # <<>> THEN <<hits[k][1]>> ELSE <<>>
  <2> DEFINE r == scan[k]
  <2>1. hits[k] = ScanRegion(r, memory, behind, pattern, FALSE) /\ ones[k] = ScanRegion(r, memory, behind, pattern, TRUE)
    BY <1>3
  <2>2. r \in Regions(K) /\ LooksInto(r, regions, asked, module)
    BY <1>1, <1>3
  <2> HIDE DEF r, hits, ones
  <2>3. r.base .. r.base + r.size - 1 \subseteq M
    BY <2>2 DEF LooksInto, Readable
  <2>4. \A a \in r.base .. r.base + r.size - 1 : memory[a] \in B
    BY <2>3
  <2>5. /\ HitsOf(ScanRegion(r, memory, behind, pattern, FALSE), r, memory, pattern)
        /\ ScanRegion(r, memory, behind, pattern, TRUE)
             = IF ScanRegion(r, memory, behind, pattern, FALSE) # <<>>
               THEN <<ScanRegion(r, memory, behind, pattern, FALSE)[1]>> ELSE <<>>
    BY <2>2, <2>4, RegionScanned
  <2> QED
    BY <2>1, <2>5 DEF r
<1>5. DOMAIN hits = 1 .. n /\ DOMAIN ones = 1 .. n
  BY <1>3
<1>6. \A k \in 1 .. n : hits[k] \in Seq(Nat)
  BY <1>4 DEF HitsOf
<1>7. hits \in Seq(Seq(Nat)) /\ Len(hits) = n
  <2>1. hits = [k \in 1 .. n |-> hits[k]]
    BY <1>3
  <2> HIDE DEF hits, n
  <2>2. hits \in [1 .. n -> Seq(Nat)]
    BY <1>6, <2>1
  <2> QED
    BY <1>3, <1>5, <2>2
<1> HIDE DEF hits, ones, n
<1>8. at1 = at /\ at \subseteq 1 .. n /\ at \in SUBSET Nat
  <2>1. \A k \in 1 .. n : ones[k] # <<>> <=> hits[k] # <<>>
    <3> TAKE k \in 1 .. n
    <3>1. <<hits[k][1]>> # <<>>
      OBVIOUS
    <3> QED
      BY <1>4, <3>1
  <2> QED
    BY <1>3, <1>5, <2>1
<1>9. \A k \in 1 .. n : k \in at <=> ToSet(hits[k]) # {}
  <2> TAKE k \in 1 .. n
  <2>1. Len(hits[k]) \in Nat /\ DOMAIN hits[k] = 1 .. Len(hits[k]) /\ (hits[k] = <<>> <=> Len(hits[k]) = 0)
    BY <1>6, LenProperties, EmptySeq
  <2>2. k \in at <=> Len(hits[k]) # 0
    BY <1>5, <2>1
  <2>3. Len(hits[k]) # 0 => 1 \in DOMAIN hits[k]
    BY <2>1
  <2>4. Len(hits[k]) = 0 => DOMAIN hits[k] = {}
    BY <2>1
  <2> QED
    BY <2>2, <2>3, <2>4 DEF ToSet
<1> HIDE DEF at, at1
<1>10. \A a : a \in ToSet(found) <=> \E k \in 1 .. n : a \in ToSet(hits[k])
  <2>1. CASE at = {}
    <3>1. found = <<>> /\ ToSet(<<>>) = {}
      BY <1>2, <2>1 DEF ToSet
    <3> QED
      BY <1>9, <2>1, <3>1
  <2>2. CASE at # {}
    BY <1>2, <1>7, <2>2, FlattenMembers
  <2> QED
    BY <2>1, <2>2
<1>11. Len(first) = (IF ToSet(found) = {} THEN 0 ELSE 1) /\ ToSet(first) \subseteq ToSet(found)
  <2>1. CASE at = {}
    <3>1. first = <<>> /\ Len(<<>>) = 0 /\ ToSet(<<>>) = {} /\ found = <<>>
      BY <1>2, <1>8, <2>1 DEF ToSet
    <3> QED
      BY <3>1
  <2>2. CASE at # {}
    <3> DEFINE m == Min(at)
               x == hits[m][1]
    <3>1. m \in at /\ m \in 1 .. n
      BY <1>8, <2>2, MinIsMember
    <3>2. ToSet(hits[m]) # {} /\ hits[m] \in Seq(Nat)
      BY <1>6, <1>9, <3>1
    <3>3. hits[m] # <<>> /\ x \in ToSet(hits[m])
      <4>1. Len(hits[m]) \in Nat /\ DOMAIN hits[m] = 1 .. Len(hits[m]) /\ (hits[m] = <<>> <=> Len(hits[m]) = 0)
        BY <3>2, LenProperties, EmptySeq
      <4>2. Len(hits[m]) # 0
        BY <3>2, <4>1 DEF ToSet
      <4>3. 1 \in DOMAIN hits[m]
        BY <4>1, <4>2
      <4> QED
        BY <4>1, <4>2, <4>3 DEF ToSet
    <3>4. ones[m] = <<x>>
      BY <1>4, <3>1, <3>3
    <3>5. first = <<x>>
      BY <1>2, <1>8, <2>2, <3>4
    <3>6. x \in ToSet(found)
      BY <1>10, <3>1, <3>3
    <3> HIDE DEF x
    <3>7. Len(<<x>>) = 1 /\ ToSet(<<x>>) = {x}
      BY DEF ToSet
    <3> QED
      BY <3>5, <3>6, <3>7
  <2> QED
    BY <2>1, <2>2
<1>12. Reports(found, first, scan, hits)
  BY <1>10, <1>11 DEF Reports, n
<1> QED
  BY <1>1, <1>4, <1>7, <1>12 DEF found, first, n

\* A scan of a process, or of a module in it, reports each match within one of the readable
\* regions, nothing but what lies there or reaches over a region's end, and as the first
\* match one of them (process_scan_memory, scan_memory), whatever the regions, the memory,
\* the pattern and the modules.
THEOREM ScanFindsAll ==
  ASSUME NEW B, NEW K, NEW regions \in Seq(Regions(K)), NEW asked, NEW M \in SUBSET Nat, NEW memory \in [M -> B],
         NEW behind \in Seq(B), NEW pattern \in Seq(B \union {AnyByte}), pattern # <<>>,
         Readable(regions, M),
         NEW N, NEW modules \in Seq([name : N, base : Nat, size : Nat]), NEW name
  PROVE  ScanCovers(regions, asked, memory, behind, pattern, modules, name)
<1> DEFINE module == ModuleNamed(modules, name)
           found == ScanMemory(regions, asked, memory, behind, pattern, modules, name, FALSE)
           first == ScanMemory(regions, asked, memory, behind, pattern, modules, name, TRUE)
           inside(r) == r.kind \in asked /\ r.readable /\ r.base # 0
                        /\ (module = NoModule \/ r.base \in module.base .. module.base + module.size - 1)
<1>1. module.base \in Nat /\ module.size \in Nat
  BY NamedModule
<1>2. /\ found = ProcessScanMemory(regions, asked, memory, behind, pattern, module, FALSE)
      /\ first = ProcessScanMemory(regions, asked, memory, behind, pattern, module, TRUE)
  BY DEF ScanMemory
<1>4. ScanCovers(regions, asked, memory, behind, pattern, modules, name) <=>
        /\ \A r \in ToSet(regions) : inside(r) => \A a \in DOMAIN memory : LiesAt(a, r, memory, pattern) => a \in ToSet(found)
        /\ \A a \in ToSet(found) : \E r \in ToSet(regions) :
             /\ a \in r.base .. r.base + r.size - 1 /\ r.kind \in asked /\ r.readable
             /\ inside(r) \/ r.base = module.base + module.size
             /\ LiesAt(a, r, memory, pattern) \/ a + Len(pattern) > r.base + r.size
        /\ Len(first) = (IF ToSet(found) = {} THEN 0 ELSE 1) /\ ToSet(first) \subseteq ToSet(found)
  BY DEF ScanCovers, LiesAt
<1> HIDE DEF module, found, first
<1>3. PICK scan \in Seq(Regions(K)), hits \in Seq(Seq(Nat)) :
           /\ \A r : r \in ToSet(scan) <=> LooksInto(r, regions, asked, module)
           /\ \A k \in 1 .. Len(scan) : HitsOf(hits[k], scan[k], memory, pattern)
           /\ Reports(found, first, scan, hits)
  <2>1. \E scan \in Seq(Regions(K)), hits \in Seq(Seq(Nat)) :
           /\ \A r : r \in ToSet(scan) <=> LooksInto(r, regions, asked, module)
           /\ \A k \in 1 .. Len(scan) : HitsOf(hits[k], scan[k], memory, pattern)
           /\ Reports(ProcessScanMemory(regions, asked, memory, behind, pattern, module, FALSE),
                      ProcessScanMemory(regions, asked, memory, behind, pattern, module, TRUE), scan, hits)
    BY ScanReports, ZenonT(40)
  <2> QED
    BY <1>2, <2>1, Zenon
<1>5. Len(scan) \in Nat /\ DOMAIN scan = 1 .. Len(scan) /\ DOMAIN memory = M
  BY LenProperties
<1>6. \A r \in ToSet(regions) : r \in Regions(K)
  <2>1. DOMAIN regions = 1 .. Len(regions)
    BY LenProperties
  <2> QED
    BY <2>1, ElementOfSeq DEF ToSet
<1>7. ASSUME NEW r \in ToSet(regions), inside(r), NEW a \in DOMAIN memory, LiesAt(a, r, memory, pattern)
      PROVE  a \in ToSet(found)
  <2>1. r.base \in Nat
    BY <1>6 DEF Regions
  <2>2. InModule(r, module)
    <3>1. module = NoModule \/ r.base \in module.base .. module.base + module.size - 1
      BY <1>7
    <3> DEFINE x == r.base
               lo == module.base
               size == module.size
    <3>2. x \in Nat /\ lo \in Nat /\ size \in Nat
      BY <1>1, <2>1
    <3> HIDE DEF x, lo, size
    <3>3. x \in lo .. lo + size - 1 => x \in lo .. lo + size
      BY <3>2
    <3> QED
      BY <3>1, <3>3 DEF InModule, x, lo, size
  <2>3. r \in ToSet(scan)
    BY <1>3, <1>7, <2>2 DEF LooksInto
  <2>4. PICK k \in 1 .. Len(scan) : scan[k] = r
    BY <1>5, <2>3 DEF ToSet
  <2>5. a \in Nat
    BY <1>5
  <2>6. a \in ToSet(hits[k])
    BY <1>3, <1>7, <2>4, <2>5 DEF HitsOf
  <2> QED
    BY <1>3, <2>6 DEF Reports
<1>8. ASSUME NEW a \in ToSet(found)
      PROVE  \E r \in ToSet(regions) :
             /\ a \in r.base .. r.base + r.size - 1 /\ r.kind \in asked /\ r.readable
             /\ inside(r) \/ r.base = module.base + module.size
             /\ LiesAt(a, r, memory, pattern) \/ a + Len(pattern) > r.base + r.size
  <2>1. PICK k \in 1 .. Len(scan) : a \in ToSet(hits[k])
    BY <1>3 DEF Reports
  <2> DEFINE r == scan[k]
  <2>2. HitsOf(hits[k], r, memory, pattern)
    BY <1>3
  <2>3. r \in ToSet(scan)
    BY <1>5 DEF ToSet
  <2>4. LooksInto(r, regions, asked, module)
    BY <1>3, <2>3
  <2> HIDE DEF r
  <2>5. /\ a \in r.base .. r.base + r.size - 1
        /\ LiesAt(a, r, memory, pattern) \/ a + Len(pattern) > r.base + r.size
    BY <2>1, <2>2 DEF HitsOf
  <2>6. r \in ToSet(regions) /\ r.base # 0 /\ r.kind \in asked /\ r.readable /\ InModule(r, module)
    BY <2>4 DEF LooksInto
  <2>7. r.base \in Nat
    BY <1>6, <2>6 DEF Regions
  <2>8. inside(r) \/ r.base = module.base + module.size
    <3>1. module = NoModule \/ r.base \in module.base .. module.base + module.size
      BY <2>6 DEF InModule
    <3>2. r.base \in module.base .. module.base + module.size =>
            r.base \in module.base .. module.base + module.size - 1 \/ r.base = module.base + module.size
      <4> DEFINE x == r.base
                 lo == module.base
                 size == module.size
      <4>1. x \in Nat /\ lo \in Nat /\ size \in Nat
        BY <1>1, <2>7
      <4> HIDE DEF x, lo, size
      <4>2. x \in lo .. lo + size => x \in lo .. lo + size - 1 \/ x = lo + size
        BY <4>1
      <4> QED
        BY <4>2 DEF x, lo, size
    <3> QED
      BY <2>6, <3>1, <3>2
  <2> QED
    BY <2>5, <2>6, <2>8
<1> QED
  BY <1>3, <1>4, <1>7, <1>8 DEF Reports

\* The main thread of a process is the first of the threads it is said to have, and it has a
\* parent exactly when it is in the snapshot (get_main_thread_id, get_threads, get_parent_pid),
\* whatever the snapshot.
THEOREM ThreadsFound ==
  ASSUME NEW P, NEW processes \in Seq(P), \A p \in P : p.parent \in Nat,
         NEW T, NEW threads \in Seq(T), NEW pid
  PROVE  ThreadsAgree(processes, threads, pid)
<1> DEFINE mine == Entries(threads, "owner", pid)
           own == GetThreads(threads, pid)
           ours == Entries(processes, "pid", pid)
<1>1. DOMAIN threads = 1 .. Len(threads) /\ DOMAIN processes = 1 .. Len(processes) /\ Len(processes) \in Nat
  BY LenProperties
<1>2. mine \in SUBSET (1 .. Len(threads)) /\ ours \in SUBSET (1 .. Len(processes))
      /\ ours = {i \in DOMAIN processes : processes[i].pid = pid}
  BY <1>1 DEF Entries
<1>3. own = Picked(threads, mine) /\ GetMainThreadId(threads, pid) = FirstOf(threads, mine, "tid")
      /\ GetParentPid(processes, pid) = FirstOf(processes, ours, "parent")
  BY DEF GetThreads, GetMainThreadId, GetParentPid
<1> HIDE DEF mine, own, ours
<1>4. (own = <<>> <=> mine = {}) /\ (mine # {} => own[1] = threads[Min(mine)])
  BY <1>2, <1>3, FirstPicked
<1>5. GetMainThreadId(threads, pid) = (IF own = <<>> THEN Failed ELSE own[1].tid)
  BY <1>3, <1>4 DEF FirstOf
<1>6. GetParentPid(processes, pid) # Failed <=> ours # {}
  <2>1. CASE ours = {}
    BY <1>3, <2>1 DEF FirstOf
  <2>2. CASE ours # {}
    <3>1. Min(ours) \in 1 .. Len(processes)
      BY <1>1, <1>2, <2>2, MinIsMember, SMTT(30)
    <3>2. processes[Min(ours)].parent \in Nat
      BY <3>1, ElementOfSeq
    <3>3. GetParentPid(processes, pid) = processes[Min(ours)].parent
      BY <1>3, <2>2 DEF FirstOf
    <3> QED
      BY <2>2, <3>2, <3>3 DEF Failed
  <2> QED
    BY <2>1, <2>2
<1>7. ours # {} <=> pid \in {processes[i].pid : i \in DOMAIN processes}
  BY <1>2
<1> QED
  BY <1>5, <1>6, <1>7 DEF ThreadsAgree, own

\* A text in lower case has as many characters.
LEMMA LowerKeepsLength ==
  ASSUME NEW C, NEW s \in Seq(C), NEW t \in Seq(C), NEW lower, LowerString(s, lower) = LowerString(t, lower)
  PROVE  Len(s) = Len(t) /\ (s = <<>> <=> t = <<>>)
<1>1. DOMAIN LowerString(s, lower) = DOMAIN s /\ DOMAIN LowerString(t, lower) = DOMAIN t
  BY DEF LowerString
<1>2. DOMAIN s = 1 .. Len(s) /\ DOMAIN t = 1 .. Len(t) /\ Len(s) \in Nat /\ Len(t) \in Nat
  BY LenProperties
<1>3. 1 .. Len(s) = 1 .. Len(t)
  BY <1>1, <1>2
<1>4. Len(s) = Len(t)
  <2> DEFINE n == Len(s)
             m == Len(t)
  <2>1. n \in Nat /\ m \in Nat /\ \A i \in Int : i \in 1 .. n <=> i \in 1 .. m
    BY <1>2, <1>3
  <2> HIDE DEF n, m
  <2>2. n = m
    BY <2>1
  <2> QED
    BY <2>2 DEF n, m
<1> QED
  BY <1>4, EmptySeq

\* Snapshots in which no process is listed twice.
OneEntryEach(processes) ==
  \A i, j \in DOMAIN processes : processes[i].pid = processes[j].pid => i = j

\* The name of a process is that of its only entry, when it can be opened.
LEMMA NameOfEntry ==
  ASSUME NEW R, NEW processes \in Seq(R), OneEntryEach(processes), NEW i \in DOMAIN processes,
         processes[i].opens \in BOOLEAN
  PROVE  PidToName(processes, processes[i].pid) = IF processes[i].opens THEN processes[i].name ELSE <<>>
<1> DEFINE at == {j \in DOMAIN processes : processes[j].pid = processes[i].pid /\ processes[j].opens}
<1>1. DOMAIN processes = 1 .. Len(processes)
  BY LenProperties
<1>2. PidToName(processes, processes[i].pid) = IF at = {} THEN <<>> ELSE processes[Min(at)].name
  BY DEF PidToName
<1>3. CASE processes[i].opens
  <2>1. at = {i}
    BY <1>3 DEF OneEntryEach
  <2> HIDE DEF at
  <2>2. at \in SUBSET Nat /\ at # {}
    BY <1>1, <2>1
  <2>3. Min(at) = i
    <3>1. Min(at) \in at
      BY <2>2, MinIsMember
    <3> QED
      BY <2>1, <3>1
  <2> QED
    BY <1>2, <1>3, <2>2, <2>3
<1>4. CASE ~ processes[i].opens
  <2>1. at = {}
    BY <1>4 DEF OneEntryEach
  <2> QED
    BY <1>2, <1>4, <2>1
<1> QED
  BY <1>3, <1>4

\* The processes found by a name are those listed, as far as there is room, that have it.
LEMMA FoundByName ==
  ASSUME NEW R, NEW processes \in Seq(R), NEW room \in Nat, NEW lower, NEW name
  PROVE  LET found == ToSet(NameToPid(processes, [i \in DOMAIN processes |-> processes[i].pid], room, name, lower))
         IN \A x : x \in found <=> \E i \in DOMAIN processes :
              i <= room /\ x = processes[i].pid
              /\ LowerString(PidToName(processes, x), lower) = LowerString(name, lower)
<1> DEFINE n == Len(processes)
           listed == [i \in DOMAIN processes |-> processes[i].pid]
           m == IF Len(listed) <= room THEN Len(listed) ELSE room
           pids == SubSeq(listed, 1, m)
           I == {processes[i].pid : i \in DOMAIN processes}
           Same(pid) == LowerString(PidToName(processes, pid), lower) = LowerString(name, lower)
           Q == {pid \in I : Same(pid)}
<1>1. n \in Nat /\ DOMAIN processes = 1 .. n
  BY LenProperties
<1>2. listed \in Seq(I) /\ Len(listed) = n /\ \A i \in 1 .. n : listed[i] = processes[i].pid
  <2>1. listed = [i \in 1 .. n |-> processes[i].pid] /\ \A i \in 1 .. n : processes[i].pid \in I
    BY <1>1
  <2>2. \A i \in 1 .. n : listed[i] = processes[i].pid
    BY <2>1
  <2> HIDE DEF listed, I, n
  <2>3. listed \in [1 .. n -> I]
    BY <2>1
  <2>4. DOMAIN listed = 1 .. n
    BY <2>3
  <2> QED
    BY <1>1, <2>2, <2>3, <2>4
<1> HIDE DEF listed, I
<1>3. m \in Nat /\ m <= n /\ \A i \in 1 .. n : i <= m <=> i <= room
  BY <1>1, <1>2
<1> HIDE DEF m
<1>4. pids \in Seq(I) /\ Len(pids) = m /\ \A k \in 1 .. m : pids[k] = processes[k].pid
  <2>1. 1 \in 1 .. Len(listed) + 1 /\ m \in 1 - 1 .. Len(listed) /\ m - 1 + 1 = m
    BY <1>1, <1>2, <1>3
  <2>2. pids \in Seq(I) /\ Len(pids) = m - 1 + 1 /\ \A k \in 1 .. m - 1 + 1 : pids[k] = listed[1 + k - 1]
    BY <1>2, <2>1, PartOf
  <2>3. \A k \in 1 .. m : 1 + k - 1 = k /\ k \in 1 .. n
    BY <1>1, <1>3
  <2> QED
    BY <1>2, <2>1, <2>2, <2>3
<1>5. NameToPid(processes, listed, room, name, lower) = Picked(pids, {i \in DOMAIN pids : Same(pids[i])})
  BY DEF NameToPid, m
<1> HIDE DEF pids
<1>6. DOMAIN pids = 1 .. m /\ \A k \in 1 .. m : pids[k] \in I
  BY <1>4, LenProperties, ElementOfSeq
<1>7. {i \in DOMAIN pids : Same(pids[i])} = PlacesOf(pids, Q)
  BY <1>6 DEF PlacesOf
<1> HIDE DEF Same, Q
<1>8. \A x : x \in ToSet(Picked(pids, PlacesOf(pids, Q))) <=> x \in ToSet(pids) /\ x \in Q
  BY <1>4, PickedWhen
<1>9. \A x : x \in ToSet(pids) <=> \E i \in 1 .. m : x = processes[i].pid
  BY <1>4, <1>6 DEF ToSet
<1>10. \A x : x \in ToSet(pids) <=> \E i \in DOMAIN processes : i <= room /\ x = processes[i].pid
  <2>1. \A i : i \in 1 .. m <=> i \in DOMAIN processes /\ i <= room
    BY <1>1, <1>3
  <2> QED
    BY <1>9, <2>1
<1>11. \A x : x \in ToSet(pids) /\ x \in Q <=> x \in ToSet(pids) /\ Same(x)
  <2>1. \A x : x \in ToSet(pids) => x \in I
    BY <1>6 DEF ToSet
  <2> QED
    BY <2>1 DEF Q
<1>12. \A x : x \in ToSet(NameToPid(processes, listed, room, name, lower))
              <=> \E i \in DOMAIN processes : i <= room /\ x = processes[i].pid /\ Same(x)
  BY <1>5, <1>7, <1>8, <1>10, <1>11
<1> QED
  BY <1>12 DEF listed, Same

\* Processes and their names find each other (pid_to_name, name_to_pid), as far as the list
\* of processes has room, whatever the snapshot of processes that have a name.
THEOREM NamesFound ==
  ASSUME NEW C, NEW R, \A r \in R : r.name \in Seq(C) \ {<<>>} /\ r.opens \in BOOLEAN,
         NEW processes \in Seq(R), OneEntryEach(processes), NEW room \in Nat, NEW lower
  PROVE  NamesAgree(processes, room, lower)
<1> DEFINE n == Len(processes)
           listed == [i \in DOMAIN processes |-> processes[i].pid]
           Found(name) == ToSet(NameToPid(processes, listed, room, name, lower))
           Low(s) == LowerString(s, lower)
<1>1. n \in Nat /\ DOMAIN processes = 1 .. n
  BY LenProperties
<1>2. \A i \in DOMAIN processes : processes[i].name \in Seq(C) /\ processes[i].name # <<>> /\ processes[i].opens \in BOOLEAN
  <2>1. \A i \in DOMAIN processes : processes[i] \in R
    BY <1>1, ElementOfSeq
  <2> QED
    BY <2>1
<1>3. \A i \in DOMAIN processes :
        PidToName(processes, processes[i].pid) = IF processes[i].opens THEN processes[i].name ELSE <<>>
  BY <1>2, NameOfEntry
<1>4. \A name : \A x : x \in Found(name) <=> \E i \in DOMAIN processes :
              i <= room /\ x = processes[i].pid /\ Low(PidToName(processes, x)) = Low(name)
  BY FoundByName
<1>5. \A i, j \in DOMAIN processes : processes[i].pid = processes[j].pid => i = j
  BY DEF OneEntryEach
<1> HIDE DEF Found
<1>6. ASSUME NEW i \in DOMAIN processes, NEW name
      PROVE  processes[i].pid \in Found(name) <=>
               i <= room /\ Low(IF processes[i].opens THEN processes[i].name ELSE <<>>) = Low(name)
  BY <1>3, <1>4, <1>5
<1>7. ASSUME NEW i \in DOMAIN processes, NEW name \in Seq(C), name # <<>>
      PROVE  Low(<<>>) # Low(name)
  <2>1. <<>> \in Seq(C)
    OBVIOUS
  <2> QED
    BY <1>7, <2>1, LowerKeepsLength
<1> DEFINE WhenOpen(i) == processes[i].pid \in Found(processes[i].name) <=> processes[i].opens /\ i <= room
           Nameless(i) == ~processes[i].opens /\ i <= room => processes[i].pid \in Found(<<>>)
           AsLong(i) == \A pid \in Found(processes[i].name) : Len(PidToName(processes, pid)) = Len(processes[i].name)
<1>8. ASSUME NEW i \in DOMAIN processes PROVE WhenOpen(i)
  <2>1. processes[i].name \in Seq(C) /\ processes[i].name # <<>> /\ processes[i].opens \in BOOLEAN
    BY <1>2
  <2>2. Low(<<>>) # Low(processes[i].name)
    BY <1>7, <2>1
  <2> HIDE DEF Low
  <2>3. CASE processes[i].opens
    BY <1>6, <2>3
  <2>4. CASE ~ processes[i].opens
    BY <1>6, <2>2, <2>4
  <2> QED
    BY <2>3, <2>4
<1>9. ASSUME NEW i \in DOMAIN processes PROVE Nameless(i)
  BY <1>6
<1>10. ASSUME NEW i \in DOMAIN processes PROVE AsLong(i)
  <2> SUFFICES ASSUME NEW pid \in Found(processes[i].name)
               PROVE  Len(PidToName(processes, pid)) = Len(processes[i].name)
    OBVIOUS
  <2>1. PICK j \in DOMAIN processes : pid = processes[j].pid
                                      /\ Low(PidToName(processes, pid)) = Low(processes[i].name)
    BY <1>4
  <2>2. PidToName(processes, pid) \in Seq(C)
    <3>1. <<>> \in Seq(C)
      OBVIOUS
    <3>2. processes[j].name \in Seq(C)
      BY <1>2
    <3>3. PidToName(processes, pid) = IF processes[j].opens THEN processes[j].name ELSE <<>>
      BY <1>3, <2>1
    <3> QED
      BY <3>1, <3>2, <3>3
  <2>3. processes[i].name \in Seq(C)
    BY <1>2
  <2> QED
    BY <2>1, <2>2, <2>3, LowerKeepsLength
<1>11. NamesAgree(processes, room, lower) <=> \A i \in DOMAIN processes : WhenOpen(i) /\ Nameless(i) /\ AsLong(i)
  BY DEF NamesAgree, Found
<1> HIDE DEF WhenOpen, Nameless, AsLong
<1> QED
  BY <1>8, <1>9, <1>10, <1>11

-----------------------------------------------------------------------------
(* Numbers and pieces *)

Positive == Nat \ {0}

\* Multiples of a positive number, and their remainders.
LEMMA MultipleRest == ASSUME NEW c \in Positive, NEW m \in Positive PROVE (c * m) % m = 0 /\ c * m >= m /\ c * m \in Positive
  BY DEF Positive
LEMMA MultipleTimes ==
  ASSUME NEW c \in Positive, NEW m \in Positive, NEW x \in Positive
  PROVE  (c * m) * x = (c * x) * m /\ c * x \in Positive
  BY DEF Positive
\* A number below another is its own remainder.
LEMMA SmallRest == ASSUME NEW i \in Positive, NEW m \in Positive, i < m PROVE i % m = i
  BY DEF Positive

\* The product of positive numbers is positive and a multiple of each, so not below any.
LEMMA ProductIs ==
  ASSUME NEW a \in Seq(Positive)
  PROVE  Product(a) \in Positive /\ \A j \in DOMAIN a : Product(a) % a[j] = 0 /\ a[j] <= Product(a)
<1> DEFINE n == Len(a)
           step == [c \in (1 .. n) \X Positive |-> c[2] * a[c[1]]]
           product == CHOOSE f : f = [k \in 0 .. n |-> IF k = 0 THEN 1 ELSE f[k - 1] * a[k]]
<1>1. n \in Nat /\ DOMAIN a = 1 .. n /\ \A k \in 1 .. n : a[k] \in Positive
  BY LenProperties, ElementOfSeq
<1>2. step \in [(1 .. n) \X Positive -> Positive]
  <2>1. \A c \in (1 .. n) \X Positive : c[2] * a[c[1]] \in Positive
    BY <1>1, MultipleRest
  <2> QED
    BY <2>1
<1>3. 1 \in Positive
  BY DEF Positive
<1>4. PICK g : g \in Recursion(n, Positive, 1, step)
  BY <1>1, <1>2, <1>3, IntervalRecursion
<1>5. /\ g \in [0 .. n -> Positive] /\ g[0] = 1
      /\ \A k \in 1 .. n : g[k] = g[k - 1] * a[k]
  <2>1. g \in [0 .. n -> Positive] /\ g[0] = 1 /\ \A k \in 1 .. n : g[k] = step[<<k, g[k - 1]>>]
    BY <1>4 DEF Recursion
  <2>2. ASSUME NEW k \in 1 .. n PROVE g[k] = g[k - 1] * a[k]
    <3>1. k - 1 \in 0 .. n
      BY <1>1
    <3>2. <<k, g[k - 1]>> \in (1 .. n) \X Positive
      BY <2>1, <3>1
    <3> QED
      BY <2>1, <3>2
  <2> QED
    BY <2>1, <2>2
<1> HIDE DEF step
<1>6. product = [k \in 0 .. n |-> IF k = 0 THEN 1 ELSE product[k - 1] * a[k]]
  <2>1. g = [k \in 0 .. n |-> IF k = 0 THEN 1 ELSE g[k - 1] * a[k]]
    BY <1>1, <1>5
  <2> QED
    BY <2>1
<1>7. Product(a) = product[n]
  BY DEF Product
<1> HIDE DEF product
<1> DEFINE T == {k \in 0 .. n : product[k] = g[k] /\ \A j \in 1 .. k : \E c \in Positive : product[k] = c * a[j]}
<1>8. 0 \in T
  BY <1>1, <1>5, <1>6
<1>9. ASSUME NEW k \in 0 .. (n - 1), k \in T PROVE k + 1 \in T
  <2> DEFINE q == k + 1
  <2>1. q \in 1 .. n /\ q \in 0 .. n /\ q # 0 /\ q - 1 = k /\ k \in 0 .. n
    BY <1>1
  <2>2. product[k] = g[k] /\ \A j \in 1 .. k : \E c \in Positive : product[k] = c * a[j]
    BY <1>9
  <2>3. \A j \in 1 .. q : j \in 1 .. k \/ j = q
    BY <2>1
  <2> HIDE DEF q
  <2>4. product[q] = product[k] * a[q] /\ g[q] = g[k] * a[q] /\ product[k] \in Positive /\ a[q] \in Positive
    BY <1>1, <1>5, <1>6, <2>1, <2>2
  <2>5. ASSUME NEW j \in 1 .. q PROVE \E c \in Positive : product[q] = c * a[j]
    <3>1. CASE j = q
      BY <2>4, <3>1
    <3>2. CASE j \in 1 .. k
      <4>1. PICK c \in Positive : product[k] = c * a[j]
        BY <2>2, <3>2
      <4>2. a[j] \in Positive
        BY <1>1, <2>1, <3>2
      <4>3. (c * a[j]) * a[q] = (c * a[q]) * a[j] /\ c * a[q] \in Positive
        BY <2>4, <4>2, MultipleTimes
      <4>4. product[q] = (c * a[q]) * a[j]
        BY <2>4, <4>1, <4>3
      <4> QED
        BY <4>3, <4>4
    <3> QED
      BY <2>3, <3>1, <3>2
  <2> QED
    BY <2>1, <2>2, <2>4, <2>5 DEF q
<1> HIDE DEF T
<1>10. n \in T
  <2>1. \A k \in 0 .. n : k \in T
    BY <1>1, <1>8, <1>9, IntervalInduction
  <2> QED
    BY <1>1, <2>1
<1>11. product[n] = g[n] /\ \A j \in 1 .. n : \E c \in Positive : product[n] = c * a[j]
  BY <1>10 DEF T
<1>12. product[n] \in Positive
  BY <1>1, <1>5, <1>11
<1>13. ASSUME NEW j \in 1 .. n PROVE product[n] % a[j] = 0 /\ a[j] <= product[n]
  <2>1. PICK c \in Positive : product[n] = c * a[j]
    BY <1>11
  <2>2. (c * a[j]) % a[j] = 0 /\ c * a[j] >= a[j] /\ a[j] \in Positive
    BY <1>1, MultipleRest
  <2>3. product[n] % a[j] = 0 /\ product[n] >= a[j]
    BY <2>1, <2>2
  <2> QED
    BY <1>12, <2>2, <2>3 DEF Positive
<1> QED
  BY <1>1, <1>7, <1>12, <1>13

\* gcd and lcm have each other's names (gcd, lcm): of any positive numbers gcd gives the least
\* common multiple, which is a divisor of them all only where they are all equal, and what
\* lcm gives is never a common multiple: it is 0, or the greatest common divisor of those
\* below the least number.
THEOREM GcdLcmSwapped ==
  \A a \in Seq(Positive) \ {<<>>} :
    /\ LeastMultiple(Gcd(a), a)
    /\ GreatestDivisor(Gcd(a), a) => \A i, j \in DOMAIN a : a[i] = a[j]
    /\ ~ LeastMultiple(Lcm(a), a)
    /\ Lcm(a) # 0 => DividesAll(Lcm(a), a)
    /\ \A d \in 2 .. Least(a) - 1 : DividesAll(d, a) => d <= Lcm(a)
<1> SUFFICES ASSUME NEW a \in Seq(Positive), a # <<>>
    PROVE  /\ LeastMultiple(Gcd(a), a)
           /\ GreatestDivisor(Gcd(a), a) => \A i, j \in DOMAIN a : a[i] = a[j]
           /\ ~ LeastMultiple(Lcm(a), a)
           /\ Lcm(a) # 0 => DividesAll(Lcm(a), a)
           /\ \A d \in 2 .. Least(a) - 1 : DividesAll(d, a) => d <= Lcm(a)
  OBVIOUS
<1> DEFINE n == Len(a)
           least == Least(a)
           product == Product(a)
           common == {i \in Least(a) .. Product(a) : \A j \in DOMAIN a : i % a[j] = 0}
           divisors == {i \in 2 .. Least(a) - 1 : \A j \in DOMAIN a : a[j] % i = 0}
<1>1. n \in Nat /\ DOMAIN a = 1 .. n /\ n >= 1 /\ \A k \in 1 .. n : a[k] \in Positive
  BY LenProperties, ElementOfSeq, EmptySeq
<1>2. least \in Positive /\ (\A j \in 1 .. n : least <= a[j]) /\ \E j \in 1 .. n : least = a[j]
  <2> DEFINE S == ToSet(a)
  <2>1. \A x : x \in S <=> \E j \in 1 .. n : x = a[j]
    BY <1>1 DEF ToSet
  <2>2. least = Min(S)
    BY DEF Least
  <2> HIDE DEF S, least
  <2>3. 1 \in 1 .. n
    BY <1>1
  <2>4. S \in SUBSET Nat /\ S # {}
    BY <1>1, <2>1, <2>3 DEF Positive
  <2>5. Min(S) \in S /\ \A x \in S : Min(S) <= x
    BY <2>4, MinIsMember
  <2> QED
    BY <1>1, <2>1, <2>2, <2>5
<1>3. product \in Positive /\ \A j \in 1 .. n : product % a[j] = 0 /\ a[j] <= product
  BY <1>1, ProductIs
<1>4. /\ Gcd(a) = IF product = 0 \/ common = {} THEN 0 ELSE Min(common)
      /\ Lcm(a) = IF divisors = {} THEN 0 ELSE Max(divisors)
  BY DEF Gcd, Lcm
<1>5. /\ \A i : i \in common <=> i \in least .. product /\ \A j \in 1 .. n : i % a[j] = 0
      /\ \A i : i \in divisors <=> i \in 2 .. least - 1 /\ \A j \in 1 .. n : a[j] % i = 0
  BY <1>1
<1>6. /\ \A d : DividesAll(d, a) <=> \A j \in 1 .. n : a[j] % d = 0
      /\ \A m : MultipleOfAll(m, a) <=> \A j \in 1 .. n : m % a[j] = 0
  BY <1>1 DEF DividesAll, MultipleOfAll
<1>19. least = Least(a)
  OBVIOUS
<1> HIDE DEF n, least, product, common, divisors
<1>7. product \in common /\ common \in SUBSET Nat
  <2>1. PICK j \in 1 .. n : least = a[j]
    BY <1>2
  <2>2. product \in least .. product
    BY <1>2, <1>3, <2>1 DEF Positive
  <2>3. product \in common
    BY <1>3, <1>5, <2>2
  <2>4. \A i \in least .. product : i \in Nat
    BY <1>2, <1>3 DEF Positive
  <2> QED
    BY <1>5, <2>3, <2>4
<1>8. Min(common) \in common /\ \A x \in common : Min(common) <= x
  BY <1>7, MinIsMember
<1>9. Gcd(a) = Min(common)
  BY <1>3, <1>4, <1>7 DEF Positive
<1>10. Gcd(a) # 0 /\ \A j \in 1 .. n : Gcd(a) % a[j] = 0
  BY <1>2, <1>3, <1>5, <1>8, <1>9 DEF Positive
<1>11. ASSUME NEW i \in 1 .. Gcd(a) - 1 PROVE \E j \in 1 .. n : i % a[j] # 0
  <2>1. Gcd(a) \in Nat /\ Gcd(a) <= product
    BY <1>2, <1>3, <1>5, <1>8, <1>9 DEF Positive
  <2>2. i \in Positive /\ i < Gcd(a)
    BY <2>1 DEF Positive
  <2>3. CASE i < least
    <3>1. PICK j \in 1 .. n : least = a[j]
      BY <1>2
    <3>2. i % a[j] = i
      BY <1>1, <2>2, <2>3, <3>1, SmallRest
    <3> QED
      BY <2>2, <3>2 DEF Positive
  <2>4. CASE ~ (i < least)
    <3>1. i \in least .. product
      BY <1>2, <1>3, <2>1, <2>2, <2>4 DEF Positive
    <3>2. i \notin common
      BY <1>8, <1>9, <2>1, <2>2 DEF Positive
    <3> QED
      BY <1>5, <3>1, <3>2
  <2> QED
    BY <2>3, <2>4
<1>12. ASSUME divisors # {} PROVE Max(divisors) \in divisors /\ \A x \in divisors : x <= Max(divisors)
  <2>1. divisors \in SUBSET Int /\ least \in Int /\ \A x \in divisors : x <= least
    BY <1>2, <1>5 DEF Positive
  <2> QED
    BY <1>12, <2>1, MaxIsMember
<1>13. Lcm(a) # 0 => \A j \in 1 .. n : a[j] % Lcm(a) = 0
  BY <1>4, <1>5, <1>12
<1>14. ASSUME NEW d \in 2 .. least - 1, \A j \in 1 .. n : a[j] % d = 0 PROVE d <= Lcm(a)
  <2>1. d \in divisors
    BY <1>5, <1>14
  <2> QED
    BY <1>4, <1>12, <2>1
<1>15. Gcd(a) \in Positive
  BY <1>2, <1>5, <1>8, <1>9, <1>10 DEF Positive
<1>16. LeastMultiple(Gcd(a), a)
  <2>1. MultipleOfAll(Gcd(a), a)
    BY <1>6, <1>10
  <2>2. \A c \in 1 .. Gcd(a) - 1 : ~ MultipleOfAll(c, a)
    BY <1>6, <1>11
  <2> QED
    BY <1>15, <2>1, <2>2 DEF LeastMultiple, Positive
<1>17. ASSUME GreatestDivisor(Gcd(a), a) PROVE \A i, j \in 1 .. n : a[i] = a[j]
  <2>1. ASSUME NEW i \in 1 .. n PROVE a[i] = Gcd(a)
    <3>1. a[i] % Gcd(a) = 0 /\ Gcd(a) % a[i] = 0 /\ a[i] \in Positive
      BY <1>1, <1>6, <1>10, <1>17 DEF GreatestDivisor
    <3>2. ~ (a[i] < Gcd(a))
      BY <1>15, <3>1, SmallRest DEF Positive
    <3>3. ~ (Gcd(a) < a[i])
      BY <1>15, <3>1, SmallRest DEF Positive
    <3> QED
      BY <1>15, <3>1, <3>2, <3>3 DEF Positive
  <2> QED
    BY <2>1
<1>18. ~ LeastMultiple(Lcm(a), a)
  <2> SUFFICES ASSUME Lcm(a) > 0, MultipleOfAll(Lcm(a), a) PROVE FALSE
    BY DEF LeastMultiple
  <2>1. divisors # {} /\ Lcm(a) = Max(divisors)
    BY <1>4
  <2>2. Lcm(a) \in 2 .. least - 1
    BY <1>5, <1>12, <2>1
  <2>3. PICK j \in 1 .. n : least = a[j]
    BY <1>2
  <2>4. Lcm(a) \in Positive /\ Lcm(a) < a[j] /\ a[j] \in Positive
    BY <1>2, <2>2, <2>3 DEF Positive
  <2>5. Lcm(a) % a[j] = Lcm(a)
    BY <2>4, SmallRest
  <2> QED
    BY <1>6, <2>4, <2>5 DEF Positive
<1> QED
  BY <1>1, <1>19, <1>6, <1>13, <1>14, <1>16, <1>17, <1>18

\* What is used of the pieces of a set covers it.
CoversSet(used, items) ==
  LET beg(k) == IF k = 1 THEN 0 ELSE used[k - 1].end + 1
  IN /\ \A k \in DOMAIN used : used[k].beg = beg(k) /\ used[k].end = beg(k) + used[k].num - 1
     /\ used # <<>> => used[Len(used)].end = items - 1
     /\ used = <<>> => items = 0

\* Pieces that begin where the one before ends, the first at 0 and the last to the end.
LEMMA CoversWhen ==
  ASSUME NEW R, NEW used \in Seq(R), NEW items \in Nat, NEW E, E[0] = 0, E[Len(used)] = items,
         \A k \in 0 .. Len(used) : E[k] \in Nat,
         \A k \in 1 .. Len(used) : used[k].beg = E[k - 1] /\ used[k].end = E[k] - 1 /\ used[k].num = E[k] - E[k - 1]
  PROVE  CoversSet(used, items)
<1> DEFINE m == Len(used)
           beg(k) == IF k = 1 THEN 0 ELSE used[k - 1].end + 1
<1>1. m \in Nat /\ DOMAIN used = 1 .. m /\ (used = <<>> <=> m = 0)
  BY LenProperties, EmptySeq
<1> HIDE DEF m
<1>2. ASSUME NEW k \in 1 .. m PROVE used[k].beg = beg(k) /\ used[k].end = beg(k) + used[k].num - 1
  <2>1. k - 1 \in 0 .. m /\ k \in 0 .. m
    BY <1>1
  <2>2. E[k - 1] \in Nat /\ E[k] \in Nat /\ used[k].beg = E[k - 1] /\ used[k].end = E[k] - 1 /\ used[k].num = E[k] - E[k - 1]
    BY <2>1 DEF m
  <2>3. beg(k) = E[k - 1]
    <3>1. CASE k = 1
      BY <3>1
    <3>2. CASE k # 1
      <4>1. k - 1 \in 1 .. m
        BY <1>1, <3>2
      <4>2. used[k - 1].end = E[k - 1] - 1
        BY <4>1 DEF m
      <4> QED
        BY <2>2, <3>2, <4>2
    <3> QED
      BY <3>1, <3>2
  <2> HIDE DEF beg
  <2> QED
    BY <2>2, <2>3
<1>3. used # <<>> => used[m].end = items - 1
  <2> HAVE used # <<>>
  <2>1. m \in 1 .. m
    BY <1>1
  <2> QED
    BY <2>1 DEF m
<1>4. used = <<>> => items = 0
  BY <1>1 DEF m
<1> QED
  BY <1>1, <1>2, <1>3, <1>4 DEF CoversSet, m

\* The pieces that have an item.
UsedOf(pieces) == Picked(pieces, {k \in DOMAIN pieces : pieces[k].num # 0})

\* What covers a set are the pieces that have an item.
LEMMA PartitionsIs ==
  ASSUME NEW pieces, NEW items
  PROVE  Partitions(pieces, items) <=> CoversSet(UsedOf(pieces), items)
BY DEF Partitions, CoversSet, UsedOf

\* The size of a piece: one item when there are more pieces than items, and never so much that
\* the pieces reach over twice the items.
LEMMA SizeOfPiece ==
  ASSUME NEW items \in Nat, NEW n \in Nat \ {0}
  PROVE  /\ ItemsPerPiece(items, n) \in Nat \ {0}
         /\ n > items => ItemsPerPiece(items, n) = 1
         /\ n <= items => (n - 1) * ItemsPerPiece(items, n) < 2 * items
<1> DEFINE q == (2 * items + n) \div (2 * n)
           per == ItemsPerPiece(items, n)
<1>1. q \in Nat /\ q * (2 * n) <= 2 * items + n /\ 2 * items + n < (q + 1) * (2 * n)
  OBVIOUS
<1> HIDE DEF q
<1>2. per \in {1, q} /\ per >= 1 /\ per >= q
  <2>1. Max({1, q}) \in {1, q} /\ \A x \in {1, q} : x <= Max({1, q})
    <3>1. {1, q} \in SUBSET Int /\ {1, q} # {} /\ 1 + q \in Int /\ \A x \in {1, q} : x <= 1 + q
      BY <1>1
    <3> QED
      BY <3>1, MaxIsMember
  <2>2. per = Max({1, q})
    BY DEF ItemsPerPiece, q
  <2> HIDE DEF per
  <2> QED
    BY <2>1, <2>2
<1> HIDE DEF per
<1>3. per \in Nat \ {0}
  BY <1>1, <1>2
<1>4. ASSUME n > items PROVE per = 1
  <2>1. q < 2
    <3>1. ASSUME q >= 2 PROVE FALSE
      <4>1. q * (2 * n) >= 2 * (2 * n)
        BY <1>1, <3>1
      <4> QED
        BY <1>1, <1>4, <4>1
    <3> QED
      BY <1>1, <3>1
  <2> QED
    BY <1>1, <1>2, <2>1
<1>5. ASSUME n <= items PROVE (n - 1) * per < 2 * items
  <2>1. CASE per = 1
    BY <1>5, <2>1
  <2>2. CASE per = q
    <3>1. (n - 1) * q <= n * q /\ q * (2 * n) = 2 * (n * q)
      BY <1>1
    <3>2. n * q \in Nat /\ (n - 1) * q \in Int
      BY <1>1
    <3> DEFINE a == n * q
               b == (n - 1) * q
    <3>3. a \in Nat /\ b \in Int /\ b <= a /\ 2 * a <= 2 * items + n
      BY <1>1, <3>1, <3>2
    <3> HIDE DEF a, b
    <3>4. b < 2 * items
      BY <1>5, <3>3
    <3> QED
      BY <2>2, <3>4 DEF b
  <2> QED
    BY <1>2, <2>1, <2>2
<1> QED
  BY <1>3, <1>4, <1>5 DEF per

\* Numbers that fit the word, and negative ones, in the word.
LEMMA RestOfSmall == ASSUME NEW x \in Nat, NEW w \in Nat, x < w PROVE x % w = x
  OBVIOUS
LEMMA RestOfNegative == ASSUME NEW x \in Int, NEW w \in Nat, x < 0, 0 - w < x PROVE x % w = x + w
  OBVIOUS

\* Where a piece begins and ends and how many items it has.
LEMMA PieceValues ==
  ASSUME NEW items \in Nat, NEW n \in Nat \ {0}, NEW Word \in Nat, 2 * items < Word, NEW i \in 1 .. n
  PROVE  LET per == ItemsPerPiece(items, n)
             p == Piece(items, n, i - 1, Word)
         IN /\ i > items => p.num = 0
            /\ i <= items /\ i # n /\ i * per < Word =>
                 p.beg = (i - 1) * per /\ p.end = i * per - 1 /\ p.num = per
            /\ i <= items /\ i = n => p.beg = (n - 1) * per /\ p.end = items - 1 /\ p.num = (items - (n - 1) * per) % Word
<1> DEFINE per == ItemsPerPiece(items, n)
           p == Piece(items, n, i - 1, Word)
           b == (i - 1) * per
           e == i * per
<1>1. per \in Nat /\ per >= 1
  BY SizeOfPiece
<1>2. p = [idx |-> i - 1, beg |-> IF i - 1 < items THEN (i - 1) * per ELSE NoIndex(Word),
           end |-> IF i - 1 < items THEN ((IF i - 1 = n - 1 THEN items ELSE ((i - 1) + 1) * per) - 1) % Word ELSE NoIndex(Word),
           num |-> IF i - 1 < items THEN ((IF i - 1 = n - 1 THEN items ELSE ((i - 1) + 1) * per) - (i - 1) * per) % Word ELSE 0]
  BY DEF Piece
<1>3. /\ p.beg = IF i - 1 < items THEN b ELSE NoIndex(Word)
      /\ p.end = IF i - 1 < items THEN ((IF i - 1 = n - 1 THEN items ELSE ((i - 1) + 1) * per) - 1) % Word ELSE NoIndex(Word)
      /\ p.num = IF i - 1 < items THEN ((IF i - 1 = n - 1 THEN items ELSE ((i - 1) + 1) * per) - b) % Word ELSE 0
  BY <1>2
<1> HIDE DEF per, p
<1>4. b \in Nat /\ e \in Nat /\ e = b + per /\ e >= 1
  <2>1. (i - 1) \in Nat /\ (i - 1) + 1 = i
    OBVIOUS
  <2>2. (i - 1) * per \in Nat /\ i * per = (i - 1) * per + per
    BY <1>1
  <2> QED
    BY <1>1, <2>2
<1>5. (i - 1) + 1 = i /\ (i - 1 < items <=> i <= items) /\ (i - 1 = n - 1 <=> i = n)
  OBVIOUS
<1>6. /\ i <= items => p.beg = b
      /\ i <= items /\ i # n => p.end = (e - 1) % Word /\ p.num = (e - b) % Word
      /\ i <= items /\ i = n => p.end = (items - 1) % Word /\ p.num = (items - b) % Word
      /\ i > items => p.num = 0
  <2>1. ((i - 1) + 1) * per = e
    BY <1>5
  <2>2. /\ p.beg = IF i <= items THEN b ELSE NoIndex(Word)
        /\ p.end = IF i <= items THEN ((IF i = n THEN items ELSE e) - 1) % Word ELSE NoIndex(Word)
        /\ p.num = IF i <= items THEN ((IF i = n THEN items ELSE e) - b) % Word ELSE 0
    BY <1>3, <1>5, <2>1
  <2> HIDE DEF b, e
  <2>3. i > items => ~ (i <= items)
    OBVIOUS
  <2> QED
    BY <2>2, <2>3
<1>7. i * per = e /\ (i = n => (n - 1) * per = b)
  OBVIOUS
<1> HIDE DEF b, e
<1>8. ASSUME i <= items, i # n, e < Word PROVE p.beg = b /\ p.end = e - 1 /\ p.num = per
  <2>1. (e - 1) % Word = e - 1
    BY <1>4, <1>8, RestOfSmall
  <2>2. e - b = per /\ per < Word
    BY <1>1, <1>4, <1>8
  <2>3. per % Word = per
    BY <1>1, <2>2, RestOfSmall
  <2> QED
    BY <1>6, <1>8, <2>1, <2>2, <2>3
<1>9. ASSUME i <= items, i = n PROVE p.beg = b /\ p.end = items - 1 /\ p.num = (items - b) % Word
  <2>1. items - 1 \in Nat /\ items - 1 < Word
    BY <1>9
  <2>2. (items - 1) % Word = items - 1
    BY <2>1, RestOfSmall
  <2> QED
    BY <1>6, <1>9, <2>2
<1>10. /\ i > items => p.num = 0
       /\ i <= items /\ i # n /\ i * per < Word => p.beg = b /\ p.end = i * per - 1 /\ p.num = per
       /\ i <= items /\ i = n => p.beg = (n - 1) * per /\ p.end = items - 1 /\ p.num = (items - (n - 1) * per) % Word
  BY <1>6, <1>7, <1>8, <1>9
<1> QED
  BY <1>10 DEF per, p, b

\* The pieces up to the last that has an item, as a part of all.
LEMMA UsedPieces ==
  ASSUME NEW R, NEW pieces \in Seq(R), NEW k \in 0 .. Len(pieces),
         \A i \in 1 .. Len(pieces) : pieces[i].num # 0 <=> i <= k
  PROVE  /\ UsedOf(pieces) \in Seq(R) /\ Len(UsedOf(pieces)) = k
         /\ \A i \in 1 .. k : UsedOf(pieces)[i] = pieces[i]
<1> DEFINE n == Len(pieces)
           places == {i \in DOMAIN pieces : pieces[i].num # 0}
           used == Picked(pieces, places)
           part == SubSeq(pieces, 1, k)
<1>1. n \in Nat /\ DOMAIN pieces = 1 .. n
  BY LenProperties
<1>2. \A i \in 1 .. n : i \in places <=> i <= k
  BY <1>1
<1> HIDE DEF places
<1>3. used = part
  BY <1>2, FirstPlaces
<1>4. 1 \in 1 .. n + 1 /\ k \in 1 - 1 .. n /\ k - 1 + 1 = k /\ \A i \in 1 .. k : 1 + i - 1 = i
  BY <1>1
<1>5. part \in Seq(R) /\ Len(part) = k - 1 + 1 /\ \A i \in 1 .. k - 1 + 1 : part[i] = pieces[1 + i - 1]
  BY <1>4, PartOf
<1> HIDE DEF part, used
<1>6. used \in Seq(R) /\ Len(used) = k /\ \A i \in 1 .. k : used[i] = pieces[i]
  BY <1>3, <1>4, <1>5
<1> QED
  BY <1>6 DEF used, places, UsedOf

\* Dividing a set into a number of pieces covers it exactly when the last piece has a place to
\* begin, and where it has none the last piece has more items than there are.
LEMMA PiecesCover ==
  ASSUME NEW items \in Nat, NEW n \in Nat \ {0}, NEW Word \in Nat, 2 * items < Word
  PROVE  LET pieces == DivideItemsIntoPieces(items, n, Word)
             fits == n > items \/ (n - 1) * ItemsPerPiece(items, n) <= items
         IN (fits <=> Partitions(pieces, items)) /\ (~ fits => pieces[n].num > items)
<1> DEFINE per == ItemsPerPiece(items, n)
           last == (n - 1) * per
           pieces == DivideItemsIntoPieces(items, n, Word)
           fits == n > items \/ last <= items
           used == UsedOf(pieces)
<1>1. per \in Nat /\ per >= 1 /\ (n > items => per = 1) /\ (n <= items => last < 2 * items)
  BY SizeOfPiece
<1> DEFINE R == {Piece(items, n, i - 1, Word) : i \in 1 .. n}
<1>2. pieces \in Seq(R) /\ Len(pieces) = n /\ \A i \in 1 .. n : pieces[i] = Piece(items, n, i - 1, Word)
  <2>1. pieces = [i \in 1 .. n |-> Piece(items, n, i - 1, Word)]
    BY DEF DivideItemsIntoPieces
  <2>2. \A i \in 1 .. n : Piece(items, n, i - 1, Word) \in R
    OBVIOUS
  <2> HIDE DEF pieces, R
  <2>3. pieces \in [1 .. n -> R]
    BY <2>1, <2>2
  <2> QED
    BY <2>1, <2>3
<1>3. \A i \in 1 .. n :
        /\ i > items => pieces[i].num = 0
        /\ i <= items /\ i # n /\ i * per < Word => pieces[i].beg = (i - 1) * per /\ pieces[i].end = i * per - 1 /\ pieces[i].num = per
        /\ i <= items /\ i = n => pieces[i].beg = last /\ pieces[i].end = items - 1 /\ pieces[i].num = (items - last) % Word
  <2>1. \A i \in 1 .. n :
        /\ i > items => Piece(items, n, i - 1, Word).num = 0
        /\ i <= items /\ i # n /\ i * per < Word =>
             Piece(items, n, i - 1, Word).beg = (i - 1) * per /\ Piece(items, n, i - 1, Word).end = i * per - 1
             /\ Piece(items, n, i - 1, Word).num = per
        /\ i <= items /\ i = n =>
             Piece(items, n, i - 1, Word).beg = last /\ Piece(items, n, i - 1, Word).end = items - 1
             /\ Piece(items, n, i - 1, Word).num = (items - last) % Word
    BY PieceValues, Zenon
  <2> HIDE DEF per, last, pieces, R
  <2> QED
    BY <1>2, <2>1
<1>4. Partitions(pieces, items) <=> CoversSet(used, items)
  BY PartitionsIs
<1>5. last \in Nat
  <2>1. n - 1 \in Nat
    OBVIOUS
  <2> QED
    BY <1>1, <2>1
<1> HIDE DEF per, pieces, R
<1>6. ASSUME NEW i \in 1 .. n, i # n PROVE i * per \in Nat /\ i * per <= last /\ i * per >= i /\ (i - 1) * per \in Nat /\ i * per = (i - 1) * per + per
  <2>1. i <= n - 1 /\ i - 1 \in Nat /\ i \in Nat /\ n - 1 \in Nat
    BY <1>6
  <2>2. i * per <= (n - 1) * per
    BY <1>1, <2>1
  <2>3. i * per >= i /\ i * per \in Nat /\ (i - 1) * per \in Nat /\ i * per = (i - 1) * per + per
    BY <1>1, <2>1
  <2> QED
    BY <2>2, <2>3
<1>7. ASSUME n > items PROVE Partitions(pieces, items)
  <2>1. per = 1
    BY <1>1, <1>7
  <2>2. \A i \in 1 .. n : (i > items => pieces[i].num = 0)
                       /\ (i <= items => pieces[i].beg = i - 1 /\ pieces[i].end = i - 1 /\ pieces[i].num = 1)
    <3> TAKE i \in 1 .. n
    <3>1. i <= items => i # n /\ i * per = i /\ (i - 1) * per = i - 1 /\ i * per < Word
      BY <1>7, <2>1
    <3> QED
      BY <1>3, <2>1, <3>1
  <2>3. \A i \in 1 .. n : pieces[i].num # 0 <=> i <= items
    BY <2>2
  <2>4. items \in 0 .. n
    BY <1>7
  <2>5. used \in Seq(R) /\ Len(used) = items /\ \A i \in 1 .. items : used[i] = pieces[i]
    BY <1>2, <2>3, <2>4, UsedPieces
  <2> DEFINE E == [k \in 0 .. items |-> k]
  <2> HIDE DEF used, last
  <2>6. E[0] = 0 /\ E[Len(used)] = items /\ \A k \in 0 .. Len(used) : E[k] \in Nat
    BY <2>5
  <2>7. \A k \in 1 .. Len(used) : used[k].beg = E[k - 1] /\ used[k].end = E[k] - 1 /\ used[k].num = E[k] - E[k - 1]
    <3> TAKE k \in 1 .. Len(used)
    <3>1. k \in 1 .. items /\ k \in 1 .. n /\ k <= items
      BY <2>4, <2>5
    <3>2. used[k].beg = k - 1 /\ used[k].end = k - 1 /\ used[k].num = 1
      BY <2>2, <2>5, <3>1
    <3>3. E[k] = k /\ E[k - 1] = k - 1
      BY <3>1
    <3> HIDE DEF E
    <3> QED
      BY <3>1, <3>2, <3>3
  <2> HIDE DEF E
  <2>8. CoversSet(used, items)
    BY <2>5, <2>6, <2>7, CoversWhen
  <2> QED
    BY <1>4, <2>8
<1>8. ASSUME n <= items, last <= items PROVE Partitions(pieces, items)
  <2> DEFINE k == IF last = items THEN n - 1 ELSE n
             E == [j \in 0 .. n |-> IF j = n THEN items ELSE j * per]
  <2>1. ASSUME NEW i \in 1 .. n, i # n PROVE pieces[i].beg = (i - 1) * per /\ pieces[i].end = i * per - 1 /\ pieces[i].num = per
    <3>1. i <= items /\ i * per < Word
      BY <1>5, <1>6, <1>8, <2>1
    <3> QED
      BY <1>3, <2>1, <3>1
  <2> HIDE DEF last
  <2>2. pieces[n].beg = last /\ pieces[n].end = items - 1 /\ pieces[n].num = items - last
    <3>1. (items - last) % Word = items - last
      <4>1. items - last \in Nat /\ items - last < Word
        BY <1>5, <1>8
      <4> QED
        BY <4>1, RestOfSmall
    <3>2. n \in 1 .. n /\ n <= items
      BY <1>8
    <3> QED
      BY <1>3, <3>1, <3>2
  <2>3. k \in 0 .. n /\ k \in Nat
    OBVIOUS
  <2>4. \A i \in 1 .. n : pieces[i].num # 0 <=> i <= k
    <3> TAKE i \in 1 .. n
    <3>1. CASE i = n
      <4>1. pieces[i].num = 0 <=> last = items
        BY <1>5, <2>2, <3>1
      <4> QED
        BY <3>1, <4>1
    <3>2. CASE i # n
      <4>1. i <= n - 1 /\ i <= k
        BY <3>2
      <4> QED
        BY <1>1, <2>1, <3>2, <4>1
    <3> QED
      BY <3>1, <3>2
  <2> HIDE DEF k
  <2>5. used \in Seq(R) /\ Len(used) = k /\ \A i \in 1 .. k : used[i] = pieces[i]
    BY <1>2, <2>3, <2>4, UsedPieces
  <2> HIDE DEF used
  <2>6. \A j \in 0 .. n : E[j] \in Nat
    BY <1>1
  <2>7. E[0] = 0
    BY <1>1
  <2>8. E[k] = items
    <3>1. CASE last = items
      <4>1. k = n - 1 /\ k # n /\ k \in 0 .. n
        BY <2>3, <3>1 DEF k
      <4> QED
        BY <3>1, <4>1 DEF last
    <3>2. CASE last # items
      <4>1. k = n
        BY <3>2 DEF k
      <4> QED
        BY <4>1
    <3> QED
      BY <3>1, <3>2
  <2>9. ASSUME NEW j \in 1 .. k PROVE used[j].beg = E[j - 1] /\ used[j].end = E[j] - 1 /\ used[j].num = E[j] - E[j - 1]
    <3>1. j \in 1 .. n /\ j \in 0 .. n /\ j - 1 \in 0 .. n /\ j - 1 # n /\ used[j] = pieces[j]
      BY <2>3, <2>5
    <3>2. E[j - 1] = (j - 1) * per
      BY <3>1
    <3>3. CASE j = n
      <4>1. E[j] = items /\ E[j - 1] = last
        BY <3>1, <3>2, <3>3 DEF last
      <4> HIDE DEF E
      <4> QED
        BY <2>2, <3>1, <3>3, <4>1
    <3>4. CASE j # n
      <4>1. E[j] = j * per
        BY <3>1, <3>4
      <4>2. j * per \in Nat /\ (j - 1) * per \in Nat /\ j * per = (j - 1) * per + per
        BY <1>6, <3>1, <3>4
      <4>3. pieces[j].beg = (j - 1) * per /\ pieces[j].end = j * per - 1 /\ pieces[j].num = per
        BY <2>1, <3>1, <3>4
      <4>4. j * per - (j - 1) * per = per
        BY <1>1, <4>2
      <4> HIDE DEF E
      <4> QED
        BY <3>1, <3>2, <4>1, <4>3, <4>4
    <3> QED
      BY <3>3, <3>4
  <2> HIDE DEF E
  <2>10. \A j \in 0 .. Len(used) : E[j] \in Nat
    BY <2>3, <2>5, <2>6
  <2>11. CoversSet(used, items)
    BY <2>5, <2>7, <2>8, <2>9, <2>10, CoversWhen
  <2> QED
    BY <1>4, <2>11
<1>9. ASSUME n <= items, last > items PROVE pieces[n].num > items /\ ~ Partitions(pieces, items)
  <2>1. last < 2 * items /\ n \in 1 .. n
    BY <1>1, <1>9
  <2> HIDE DEF last
  <2>2. pieces[n].beg = last /\ pieces[n].end = items - 1 /\ pieces[n].num = (items - last) % Word
    BY <1>3, <1>9, <2>1
  <2>3. (items - last) % Word = (items - last) + Word
    <3>1. items - last \in Int /\ items - last < 0 /\ 0 - Word < items - last
      BY <1>5, <1>9, <2>1
    <3> QED
      BY <3>1, RestOfNegative
  <2>4. pieces[n].num = (items - last) + Word /\ pieces[n].num > items
    BY <1>5, <2>1, <2>2, <2>3
  <2>5. \A i \in 1 .. n : pieces[i].num # 0 <=> i <= n
    <3> TAKE i \in 1 .. n
    <3>1. CASE i = n
      BY <2>4, <3>1
    <3>2. CASE i # n
      <4>1. i * per \in Nat /\ i * per <= last
        BY <1>6, <3>2
      <4>2. i <= items /\ i * per < Word
        BY <1>5, <1>9, <2>1, <4>1
      <4>3. pieces[i].num = per
        BY <1>3, <3>2, <4>2
      <4> QED
        BY <1>1, <4>3
    <3> QED
      BY <3>1, <3>2
  <2>6. n \in 0 .. n
    OBVIOUS
  <2>7. used \in Seq(R) /\ Len(used) = n /\ \A i \in 1 .. n : used[i] = pieces[i]
    BY <1>2, <2>5, <2>6, UsedPieces
  <2> HIDE DEF used
  <2>8. DOMAIN used = 1 .. n
    BY <2>7, LenProperties
  <2>9. ASSUME CoversSet(used, items) PROVE FALSE
    <3>1. used[n].beg = (IF n = 1 THEN 0 ELSE used[n - 1].end + 1)
          /\ used[n].end = (IF n = 1 THEN 0 ELSE used[n - 1].end + 1) + used[n].num - 1
      BY <2>1, <2>8, <2>9 DEF CoversSet
    <3>2. used[n] = pieces[n]
      BY <2>1, <2>7
    <3> DEFINE x == IF n = 1 THEN 0 ELSE used[n - 1].end + 1
    <3>3. x = last /\ items - 1 = x + ((items - last) + Word) - 1
      BY <2>2, <2>4, <3>1, <3>2
    <3> HIDE DEF x
    <3> QED
      BY <1>5, <2>1, <3>3
  <2> QED
    BY <1>4, <2>4, <2>9
<1>10. fits \/ (n <= items /\ last > items)
  BY <1>5
<1> HIDE DEF last
<1>11. fits => Partitions(pieces, items)
  BY <1>5, <1>7, <1>8
<1>12. ~ fits => pieces[n].num > items /\ ~ Partitions(pieces, items)
  BY <1>9, <1>10
<1> QED
  BY <1>11, <1>12 DEF pieces, per, last

\* A multiple behind another is at least the next one.
LEMMA NextMultiple ==
  ASSUME NEW n \in Nat \ {0}, NEW x \in Nat, NEW y \in Nat, x % n = 0, y % n = 0, x < y
  PROVE  x + n <= y /\ (x + n) % n = 0
<1> DEFINE p == x \div n
           q == y \div n
<1>1. p \in Int /\ q \in Int /\ x = n * p /\ y = n * q
  OBVIOUS
<1> HIDE DEF p, q
<1>2. p < q
  <2>1. ASSUME q <= p PROVE FALSE
    <3>1. n * q <= n * p
      BY <1>1, <2>1
    <3> QED
      BY <1>1, <3>1
  <2> QED
    BY <1>1, <2>1
<1>3. n * (p + 1) <= n * q /\ n * (p + 1) = n * p + n
  BY <1>1, <1>2
<1>4. x + n = (p + 1) * n /\ p + 1 \in Nat \ {0}
  <2>1. ASSUME p < 0 PROVE FALSE
    <3>1. n * p < 0
      BY <1>1, <2>1
    <3> QED
      BY <1>1, <3>1
  <2> QED
    BY <1>1, <1>3, <2>1
<1>5. ((p + 1) * n) % n = 0
  BY <1>4, MultipleRest DEF Positive
<1>6. (x + n) % n = 0
  BY <1>4, <1>5
<1> QED
  BY <1>1, <1>3, <1>6

\* Dividing a set by the size of a piece covers it, with no short piece but the last.
LEMMA SizedCover ==
  ASSUME NEW items \in Nat, NEW n \in Nat \ {0}
  PROVE  LET sized == DivideItemsIntoNumItemsPerPiece(items, n)
         IN Partitions(sized, items) /\ \A k \in 1 .. Len(sized) - 1 : sized[k].num = n
<1> DEFINE s == [j \in 1 .. items |-> j]
           P == {j \in 1 .. items : j % n = 0 \/ j = items}
           ends == Picked(s, P)
           m == Len(ends)
           E == [k \in 0 .. m |-> IF k = 0 THEN 0 ELSE ends[k]]
           sized == DivideItemsIntoNumItemsPerPiece(items, n)
<1>1. s \in Seq(Nat) /\ Len(s) = items /\ \A i \in 1 .. items : s[i] = i
  <2>1. s \in [1 .. items -> Nat] /\ \A i \in 1 .. items : s[i] = i
    OBVIOUS
  <2> HIDE DEF s
  <2> QED
    BY <2>1
<1>2. \A j \in 1 .. items : j \in P <=> j % n = 0 \/ j = items
  OBVIOUS
<1>3. sized = [k \in DOMAIN ends |-> [idx |-> k - 1, beg |-> IF k = 1 THEN 0 ELSE ends[k - 1], end |-> ends[k] - 1,
                                      num |-> ends[k] - (IF k = 1 THEN 0 ELSE ends[k - 1])]]
  BY DEF DivideItemsIntoNumItemsPerPiece
<1> HIDE DEF s, P, sized
<1>4. /\ ends \in Seq(1 .. items)
      /\ \A k \in 1 .. m : ends[k] \in P
      /\ \A k \in 2 .. m : ends[k - 1] < ends[k]
      /\ \A i \in 1 .. items : i \in P => \E k \in 1 .. m : ends[k] = i
  BY <1>1, PlacesPicked
<1> HIDE DEF ends
<1>5. m \in Nat /\ DOMAIN ends = 1 .. m /\ \A k \in 1 .. m : ends[k] \in 1 .. items /\ ends[k] \in Int
  <2>1. m \in Nat /\ DOMAIN ends = 1 .. m /\ \A k \in 1 .. m : ends[k] \in 1 .. items
    BY <1>4, LenProperties, ElementOfSeq
  <2> QED
    BY <2>1
<1> HIDE DEF m
<1>6. \A i, j \in 1 .. m : i < j => ends[i] < ends[j]
  BY <1>4, <1>5, GrowsAlong
<1>7. E[0] = 0 /\ \A k \in 1 .. m : E[k] = ends[k]
  BY <1>5
<1> HIDE DEF E
<1>8. \A k \in 0 .. m : E[k] \in Nat /\ E[k] <= items
  <2> TAKE k \in 0 .. m
  <2>1. CASE k = 0
    BY <1>7, <2>1
  <2>2. CASE k # 0
    <3>1. k \in 1 .. m
      BY <1>5, <2>2
    <3> QED
      BY <1>5, <1>7, <3>1
  <2> QED
    BY <2>1, <2>2
<1>9. E[m] = items
  <2>1. CASE items = 0
    <3>1. m = 0
      BY <1>5, <2>1
    <3> QED
      BY <1>7, <2>1, <3>1
  <2>2. CASE items # 0
    <3>1. items \in 1 .. items
      BY <2>2
    <3>2. PICK k \in 1 .. m : ends[k] = items
      BY <1>2, <1>4, <3>1
    <3>3. m \in 1 .. m
      BY <1>5, <3>2
    <3>4. k = m
      <4>1. ASSUME k < m PROVE FALSE
        <5>1. ends[k] < ends[m] /\ ends[m] \in 1 .. items
          BY <1>5, <1>6, <3>3, <4>1
        <5> QED
          BY <3>2, <5>1
      <4> QED
        BY <1>5, <4>1
    <3> QED
      BY <1>7, <3>2, <3>3, <3>4
  <2> QED
    BY <2>1, <2>2
<1>10. \A k \in 1 .. m : E[k - 1] < E[k]
  <2> TAKE k \in 1 .. m
  <2>1. CASE k = 1
    <3>1. ends[1] \in 1 .. items /\ E[1] = ends[1] /\ k - 1 = 0
      BY <1>5, <1>7, <2>1
    <3> QED
      BY <1>7, <2>1, <3>1
  <2>2. CASE k # 1
    <3>1. k - 1 \in 1 .. m /\ k \in 2 .. m
      BY <1>5, <2>2
    <3> QED
      BY <1>4, <1>7, <3>1 DEF m
  <2> QED
    BY <2>1, <2>2
<1> DEFINE R == {[idx |-> k - 1, beg |-> E[k - 1], end |-> E[k] - 1, num |-> E[k] - E[k - 1]] : k \in 1 .. m}
<1>11. sized = [k \in 1 .. m |-> [idx |-> k - 1, beg |-> E[k - 1], end |-> E[k] - 1, num |-> E[k] - E[k - 1]]]
  <2>1. ASSUME NEW k \in 1 .. m
        PROVE  ends[k] = E[k] /\ (IF k = 1 THEN 0 ELSE ends[k - 1]) = E[k - 1]
    <3>1. CASE k = 1
      <4>1. k - 1 = 0
        BY <3>1
      <4> QED
        BY <1>7, <3>1, <4>1
    <3>2. CASE k # 1
      <4>1. k - 1 \in 1 .. m
        BY <1>5, <3>2
      <4> QED
        BY <1>7, <3>2, <4>1
    <3> QED
      BY <3>1, <3>2
  <2> QED
    BY <1>3, <1>5, <2>1
<1>12. sized \in Seq(R) /\ Len(sized) = m
       /\ \A k \in 1 .. m : sized[k].beg = E[k - 1] /\ sized[k].end = E[k] - 1 /\ sized[k].num = E[k] - E[k - 1]
  <2>1. \A k \in 1 .. m : sized[k] = [idx |-> k - 1, beg |-> E[k - 1], end |-> E[k] - 1, num |-> E[k] - E[k - 1]]
                          /\ sized[k] \in R
    BY <1>11
  <2>2. DOMAIN sized = 1 .. m /\ sized = [k \in 1 .. m |-> sized[k]]
    BY <1>11
  <2> HIDE DEF R
  <2>3. sized \in [1 .. m -> R]
    BY <2>1, <2>2
  <2>4. sized \in Seq(R) /\ Len(sized) = m
    BY <1>5, <2>3
  <2>5. ASSUME NEW k \in 1 .. m
        PROVE  sized[k].beg = E[k - 1] /\ sized[k].end = E[k] - 1 /\ sized[k].num = E[k] - E[k - 1]
    <3> DEFINE x == E[k - 1]
               y == E[k]
               p == sized[k]
    <3>1. p = [idx |-> k - 1, beg |-> x, end |-> y - 1, num |-> y - x]
      BY <2>1
    <3> HIDE DEF x, y, p
    <3>2. p.beg = x /\ p.end = y - 1 /\ p.num = y - x
      BY <3>1
    <3> QED
      BY <3>2 DEF x, y, p
  <2> QED
    BY <2>4, <2>5
<1> HIDE DEF R
<1>13. Partitions(sized, items)
  <2> DEFINE used == UsedOf(sized)
  <2>1. \A k \in 1 .. Len(sized) : sized[k].num # 0 <=> k <= m
    <3> TAKE k \in 1 .. Len(sized)
    <3>1. k \in 1 .. m /\ k - 1 \in 0 .. m /\ k \in 0 .. m
      BY <1>5, <1>12
    <3>2. E[k - 1] < E[k] /\ E[k - 1] \in Nat /\ E[k] \in Nat /\ sized[k].num = E[k] - E[k - 1]
      BY <1>8, <1>10, <1>12, <3>1
    <3> QED
      BY <3>1, <3>2
  <2>2. m \in 0 .. Len(sized)
    BY <1>5, <1>12
  <2>3. used \in Seq(R) /\ Len(used) = m /\ \A k \in 1 .. m : used[k] = sized[k]
    BY <1>12, <2>1, <2>2, UsedPieces
  <2> HIDE DEF used
  <2>4. \A k \in 1 .. Len(used) : used[k].beg = E[k - 1] /\ used[k].end = E[k] - 1 /\ used[k].num = E[k] - E[k - 1]
    BY <1>12, <2>3
  <2>5. E[Len(used)] = items /\ \A k \in 0 .. Len(used) : E[k] \in Nat
    BY <1>8, <1>9, <2>3
  <2>6. CoversSet(used, items)
    BY <1>7, <2>3, <2>4, <2>5, CoversWhen
  <2> QED
    BY <2>6, PartitionsIs DEF used
<1>14. \A k \in 0 .. m - 1 : E[k] % n = 0
  <2> TAKE k \in 0 .. m - 1
  <2>1. CASE k = 0
    BY <1>7, <2>1
  <2>2. CASE k # 0
    <3>1. k \in 1 .. m /\ m \in 1 .. m /\ k < m
      BY <1>5, <2>2
    <3>2. ends[k] < ends[m] /\ ends[m] \in 1 .. items /\ ends[k] \in 1 .. items
      BY <1>5, <1>6, <3>1
    <3>3. ends[k] # items
      BY <3>2
    <3>4. ends[k] \in P
      BY <1>4, <3>1 DEF m
    <3> QED
      BY <1>2, <1>7, <3>1, <3>2, <3>3, <3>4
  <2> QED
    BY <2>1, <2>2
<1>15. ASSUME NEW k \in 1 .. m - 1 PROVE sized[k].num = n
  <2> DEFINE x == E[k - 1]
             y == E[k]
             z == x + n
  <2>1. k \in 1 .. m /\ k - 1 \in 0 .. m /\ k \in 0 .. m /\ k - 1 \in 0 .. m - 1 /\ k \in 0 .. m - 1
    BY <1>5
  <2>2. x \in Nat /\ y \in Nat /\ y <= items /\ x < y /\ x % n = 0 /\ y % n = 0 /\ y = ends[k]
    BY <1>7, <1>8, <1>10, <1>14, <2>1
  <2>3. sized[k].num = y - x
    BY <1>12, <2>1
  <2> HIDE DEF x, y
  <2>4. z <= y /\ z % n = 0
    BY <2>2, NextMultiple
  <2>5. z \in 1 .. items
    BY <2>2, <2>4
  <2> HIDE DEF z
  <2>6. PICK l \in 1 .. m : ends[l] = z
    BY <1>2, <1>4, <2>4, <2>5 DEF m
  <2>7. ~ (l < k)
    <3>1. ASSUME l < k PROVE FALSE
      <4>1. k - 1 \in 1 .. m /\ (l = k - 1 \/ l < k - 1)
        BY <2>1, <3>1
      <4>2. x = ends[k - 1] /\ ends[k - 1] \in Int /\ ends[l] \in Int
        BY <1>5, <1>7, <4>1 DEF x
      <4>3. l < k - 1 => ends[l] < ends[k - 1]
        BY <1>6, <4>1
      <4>4. z <= x
        BY <2>6, <4>1, <4>2, <4>3
      <4> QED
        BY <2>2, <4>4 DEF z
    <3> QED
      BY <3>1
  <2>8. y <= z
    <3>1. k = l \/ k < l
      BY <2>1, <2>7
    <3>2. k < l => ends[k] < ends[l]
      BY <1>6, <2>1
    <3> QED
      BY <2>2, <2>5, <2>6, <3>1, <3>2
  <2>9. y = z
    BY <2>2, <2>4, <2>5, <2>8
  <2> QED
    BY <2>2, <2>3, <2>9 DEF z
<1> QED
  BY <1>12, <1>13, <1>15 DEF sized

\* Dividing a set into a number of pieces gives each item to one piece exactly where the rounded
\* size leaves the last piece a place to begin, which the documentation does not ask for, and
\* dividing by the size of a piece always does (divide_items_into_pieces,
\* divide_items_into_num_items_per_piece), for any set of less than half the word.
THEOREM PiecesCoverSet ==
  \A items, Word \in Nat, n \in Nat \ {0} : 2 * items < Word =>
    /\ PiecesPartition(items, n, Word)
    /\ Partitions(DivideItemsIntoPieces(items, n, Word), items) => Fits(items, n)
  BY PiecesCover, SizedCover DEF PiecesPartition, Fits

-----------------------------------------------------------------------------
(* Every wrapper in its own specification *)

\* A step of the library is a step of one wrapper and leaves every other one alone.
LEMMA LibraryStep ==
  ASSUME [LibraryNext]_<<which, input, wrapperVars>>
  PROVE  /\ [LockNext]_lockVars /\ [SignalNext]_signalVars /\ [InstanceNext]_instanceVars
         /\ [ProcessNext]_processVars /\ [MemoryNext]_memoryVars /\ [InjectNext]_injectVars
         /\ [HookNext]_hookVars /\ [SocketNext]_socketVars /\ [StreamNext]_streamVars
         /\ [RegistryNext]_registryVars /\ [ValueNext]_valueVars /\ [MappingNext]_mappingVars
         /\ [FileNext]_fileVars /\ [BufferNext]_bufferVars /\ [StopWatchNext]_stopWatchVars
         /\ [VariantNext]_variantVars /\ [SingletonNext]_singletonVars /\ [ScopedNext]_scopedVars
<1>1. [LockNext]_lockVars
  BY Zenon DEF LibraryNext, wrapperVars
<1>2. [SignalNext]_signalVars
  BY Zenon DEF LibraryNext, wrapperVars
<1>3. [InstanceNext]_instanceVars
  BY Zenon DEF LibraryNext, wrapperVars
<1>4. [ProcessNext]_processVars
  BY Zenon DEF LibraryNext, wrapperVars
<1>5. [MemoryNext]_memoryVars
  BY Zenon DEF LibraryNext, wrapperVars
<1>6. [InjectNext]_injectVars
  BY Zenon DEF LibraryNext, wrapperVars
<1>7. [HookNext]_hookVars
  BY Zenon DEF LibraryNext, wrapperVars
<1>8. [SocketNext]_socketVars
  BY Zenon DEF LibraryNext, wrapperVars
<1>9. [StreamNext]_streamVars
  BY Zenon DEF LibraryNext, wrapperVars
<1>10. [RegistryNext]_registryVars
  BY Zenon DEF LibraryNext, wrapperVars
<1>11. [ValueNext]_valueVars
  BY Zenon DEF LibraryNext, wrapperVars
<1>12. [MappingNext]_mappingVars
  BY Zenon DEF LibraryNext, wrapperVars
<1>13. [FileNext]_fileVars
  BY Zenon DEF LibraryNext, wrapperVars
<1>14. [BufferNext]_bufferVars
  BY Zenon DEF LibraryNext, wrapperVars
<1>15. [StopWatchNext]_stopWatchVars
  BY Zenon DEF LibraryNext, wrapperVars
<1>16. [VariantNext]_variantVars
  BY Zenon DEF LibraryNext, wrapperVars
<1>17. [SingletonNext]_singletonVars
  BY Zenon DEF LibraryNext, wrapperVars
<1>18. [ScopedNext]_scopedVars
  BY Zenon DEF LibraryNext, wrapperVars
<1> QED
  BY <1>1, <1>2, <1>3, <1>4, <1>5, <1>6, <1>7, <1>8, <1>9, <1>10, <1>11, <1>12, <1>13, <1>14, <1>15, <1>16, <1>17, <1>18

\* A behaviour of the library is one of every wrapper.
LEMMA LibraryIsEvery ==
  LibrarySpec => /\ LockSpec /\ SignalSpec /\ InstanceSpec /\ ProcessSpec /\ MemorySpec
                 /\ InjectSpec /\ HookSpec /\ SocketSpec /\ StreamSpec /\ RegistrySpec
                 /\ ValueSpec /\ MappingSpec /\ FileSpec /\ BufferSpec /\ StopWatchSpec
                 /\ VariantSpec /\ SingletonSpec /\ ScopedSpec
<1>1. LibraryInit => /\ LockInit /\ SignalInit /\ InstanceInit /\ ProcessInit /\ MemoryInit
                     /\ InjectInit /\ HookInit /\ SocketInit /\ StreamInit /\ RegistryInit
                     /\ ValueInit /\ MappingInit /\ FileInit /\ BufferInit /\ StopWatchInit
                     /\ VariantInit /\ SingletonInit /\ ScopedInit
  BY DEF LibraryInit
<1>2. [LibraryNext]_<<which, input, wrapperVars>>
      => /\ [LockNext]_lockVars /\ [SignalNext]_signalVars /\ [InstanceNext]_instanceVars
         /\ [ProcessNext]_processVars /\ [MemoryNext]_memoryVars /\ [InjectNext]_injectVars
         /\ [HookNext]_hookVars /\ [SocketNext]_socketVars /\ [StreamNext]_streamVars
         /\ [RegistryNext]_registryVars /\ [ValueNext]_valueVars /\ [MappingNext]_mappingVars
         /\ [FileNext]_fileVars /\ [BufferNext]_bufferVars /\ [StopWatchNext]_stopWatchVars
         /\ [VariantNext]_variantVars /\ [SingletonNext]_singletonVars /\ [ScopedNext]_scopedVars
  BY LibraryStep
<1> QED
  BY <1>1, <1>2, PTL
  DEF LibrarySpec, LockSpec, SignalSpec, InstanceSpec, ProcessSpec, MemorySpec, InjectSpec, HookSpec,
      SocketSpec, StreamSpec, RegistrySpec, ValueSpec, MappingSpec, FileSpec,
      BufferSpec, StopWatchSpec, VariantSpec, SingletonSpec, ScopedSpec

-----------------------------------------------------------------------------
(* What the library promises *)

\* What a program reads of the registry through its objects is what is there: the
\* handles it enumerates are those of the keys it opened, a listing it was given has
\* every name, and a list of strings it reads is whole - for any number of objects,
\* keys, names and values, and any strings.
THEOREM LibraryReadsRegistry == LibrarySpec => RegistryFaithful
BY LibraryIsEvery, RegistryHandlesNamed, RegistryListsAll, RegistryReadsWhole DEF RegistryFaithful

\* The variables of every wrapper keep their types in every behaviour of the library: no
\* table, handle, text, file or buffer leaves its bounds, whatever the bounds are.
THEOREM LibraryTyped == LibrarySpec => []LibraryTypeOK
<1>1. LibrarySpec =>
        /\ []LockTypeOK /\ []SignalTypeOK /\ []InstanceTypeOK /\ []ProcessTypeOK /\ []MemoryTypeOK
        /\ []InjectTypeOK /\ []HookTypeOK /\ []SocketTypeOK /\ []StreamTypeOK
  BY LibraryIsEvery, LocksTyped, SignalTyped, InstanceTyped, ProcessTyped, MemoryTyped,
     InjectTyped, HooksTyped, SocketsTyped, StreamTyped
<1>2. LibrarySpec =>
        /\ []RegistryTypeOK /\ []ValueTypeOK /\ []MappingTypeOK /\ []FileTypeOK /\ []BufferTypeOK
        /\ []StopWatchTypeOK /\ []VariantTypeOK /\ []SingletonTypeOK /\ []ScopedTypeOK
  BY LibraryIsEvery, RegistryTyped, RegistryValueTyped, MappingTyped, FilesTyped, BuffersTyped,
     StopWatchTyped, VariantsTyped, SingletonTyped, ScopedTyped
<1> QED
  BY <1>1, <1>2, PTL DEF LibraryTypeOK

\* What is proved of each wrapper is true of a program that uses them: what it shares is made
\* once, what it does to other processes is undone, what holds a handle holds its own, and
\* buffers, connections, files, variants and stop watches keep what they were given.
THEOREM LibraryKeepsPromises ==
  LibrarySpec =>
    /\ []MadeOnceUnlessRaced /\ []OneEventOwner /\ []AttachedHandleLive /\ []RemoteRestored
    /\ []SocketsAccountedFor /\ []StreamIntact /\ []HeldByItsOwn /\ []BufferAsMeant
    /\ []TotalIsElapsed /\ AnswerConsumesNothing /\ QuickReadWhole /\ VariantReadsOnce
BY LibraryIsEvery, MadeOnce, OneOwner, ObjectsOnTheirProcess, RemoteUndone, SocketsKept,
   BytesInOrder, HeldByOwner, BuffersAsMeant, TotalMeasured, SignalStaysUp, QuickReadsWhole,
   VariantsReadOnce

-----------------------------------------------------------------------------
(* What is asked of the algorithms *)

\* A bounded sequence is a sequence.
LEMMA BoundedIsSeq ==
  ASSUME NEW S, NEW n \in Nat
  PROVE  BoundedSeq(S, n) \subseteq Seq(S)
<1>1. ASSUME NEW m \in 0 .. n, NEW s \in [1 .. m -> S] PROVE s \in Seq(S)
  OBVIOUS
<1>2. BoundedSeq(S, n) = UNION {[1 .. m -> S] : m \in 0 .. n}
  BY DEF BoundedSeq, SeqOf
<1> QED
  BY <1>1, <1>2

\* A sequence over a set is one over any larger set.
LEMMA WidenSeq ==
  ASSUME NEW S, NEW T, S \subseteq T, NEW s \in Seq(S)
  PROVE  s \in Seq(T)
<1>1. s \in [1 .. Len(s) -> S] /\ Len(s) \in Nat
  BY LenProperties
<1>2. s \in [1 .. Len(s) -> T]
  BY <1>1
<1> QED
  BY <1>1, <1>2

\* The laws of the paths that are asked about.
LEMMA PathLaws == input \in PathInputs => AlgorithmsLawful
<1> DEFINE B == PathCharacters
<1> SUFFICES ASSUME input \in PathInputs PROVE AlgorithmsLawful
  OBVIOUS
<1>1. input.of = "path" /\ input.path \in Seq(B)
  BY BoundedIsSeq DEF PathInputs
<1>2. Separators \subseteq B /\ Backslash \in B /\ "a" \in B
  BY Zenon DEF Separators, Backslash, Slash, PathCharacters
<1>3. PartsMakePath(input.path)
  BY <1>1, <1>2, PathsTakenApart
<1>4. CorrectionValid(input.path, "a")
  BY <1>1, <1>2, NamesCorrected
<1>5. DriveOfDevice(input.path, <<"C", "D">>, Devices)
  <2> DEFINE D == {"C", "D"}
             drives == <<"C", "D">>
  <2>1. drives \in Seq(D)
    OBVIOUS
  <2>2. Devices \in [D -> Seq(B)]
    BY <1>2 DEF Devices, Backslash
  <2> HIDE DEF D, drives
  <2>3. DriveOfDevice(input.path, drives, Devices)
    BY <1>1, <1>2, <2>1, <2>2, DriveFound
  <2> QED
    BY <2>3 DEF drives
<1> QED
  BY <1>1, <1>3, <1>4, <1>5 DEF AlgorithmsLawful

LEMMA JoinLaws == input \in JoinInputs => AlgorithmsLawful
<1> DEFINE B == {"a", "\\", "/"}
<1> SUFFICES ASSUME input \in JoinInputs PROVE AlgorithmsLawful
  OBVIOUS
<1>1. input.of = "paths" /\ input.left \in Seq(B) /\ input.right \in Seq(B) /\ input.sep \in Separators
  <2>1. input.of = "paths" /\ input.left \in BoundedSeq(B, 3) /\ input.right \in BoundedSeq(B, 3)
        /\ input.sep \in Separators
    BY DEF JoinInputs, ShortPaths, Separators, Backslash, Slash
  <2> HIDE DEF B
  <2> QED
    BY <2>1, BoundedIsSeq
<1>2. Separators \subseteq B
  BY DEF Separators, Backslash, Slash
<1>3. NamesKept(input.left, input.right, input.sep)
  <2> HIDE DEF B
  <2> QED
    BY <1>1, <1>2, NamesStay
<1> QED
  BY <1>1, <1>3 DEF AlgorithmsLawful

LEMMA CasedLaws == input \in CasedInputs => AlgorithmsLawful
<1> DEFINE B == {"a", "A", "\\", "/"}
           A == {"a", "A", "\\"}
<1> SUFFICES ASSUME input \in CasedInputs PROVE AlgorithmsLawful
  OBVIOUS
<1>1. input.of = "cased" /\ input.left \in Seq(B) /\ input.right \in Seq(B)
  <2>1. input.of = "cased" /\ input.left \in BoundedSeq(A, 3) /\ input.right \in BoundedSeq(A, 3)
    BY DEF CasedInputs, CasedNames
  <2>2. A \subseteq B
    OBVIOUS
  <2> HIDE DEF A, B
  <2>3. input.left \in Seq(A) /\ input.right \in Seq(A)
    BY <2>1, BoundedIsSeq
  <2> QED
    BY <2>1, <2>2, <2>3
<1>2. Separators \subseteq B
  BY DEF Separators, Backslash, Slash
<1>4. Gives(LowerA, B)
  BY DEF Gives, LowerA
<1>5. Keeps(LowerA, Space) /\ Keeps(LowerA, Backslash) /\ Keeps(LowerA, Slash)
  BY DEF Keeps, Image, LowerA, Space, Backslash, Slash
<1>6. EqualPathsAgree(input.left, input.right, LowerA)
  <2> HIDE DEF B
  <2> QED
    BY <1>1, <1>2, <1>4, <1>5, EqualPathsNamed
<1> QED
  BY <1>1, <1>6 DEF AlgorithmsLawful

\* The laws of the searches of memory that are asked about.
LEMMA BlockLaws == input \in BlockInputs => AlgorithmsLawful
<1> DEFINE B == {1, 2}
           A == {1, 2, -1}
<1> SUFFICES ASSUME input \in BlockInputs PROVE AlgorithmsLawful
  OBVIOUS
<1>1. /\ input.of = "block" /\ input.block \in BoundedSeq(B, 4) /\ input.pattern \in BoundedSeq(A, 2)
      /\ input.pattern # <<>> /\ input.behind \in {<<1, 2>>, <<2, 2>>, <<1, 1>>}
  BY DEF BlockInputs
<1>2. input.behind \in Seq(B)
  <2>1. <<1, 2>> \in Seq(B) /\ <<2, 2>> \in Seq(B) /\ <<1, 1>> \in Seq(B)
    OBVIOUS
  <2> QED
    BY <1>1, <2>1
<1>3. A = B \union {AnyByte}
  BY DEF AnyByte
<1> HIDE DEF A, B
<1>4. input.block \in Seq(B) /\ input.pattern \in Seq(B \union {AnyByte})
  BY <1>1, <1>3, BoundedIsSeq
<1>5. PatternFound(input.block, input.behind, input.pattern)
  BY <1>1, <1>2, <1>4, SearchFindsAll
<1> QED
  BY <1>1, <1>5 DEF AlgorithmsLawful

LEMMA ChainLaws == input \in ChainInputs => AlgorithmsLawful
<1> DEFINE B == {0, 1}
<1> SUFFICES ASSUME input \in ChainInputs PROVE AlgorithmsLawful
  OBVIOUS
<1>1. /\ input.of = "chain" /\ input.pointers \in UNION {[d -> 1..4] : d \in SUBSET (1..3)}
      /\ input.address \in 0 .. 3 /\ input.offsets \in BoundedSeq(B, 3)
  BY DEF ChainInputs
<1>2. PICK d \in SUBSET (1..3) : input.pointers \in [d -> 1..4]
  BY <1>1
<1>3. input.offsets \in Seq(Int)
  <2>1. B \subseteq Int
    OBVIOUS
  <2> HIDE DEF B
  <2>2. input.offsets \in Seq(B)
    BY <1>1, BoundedIsSeq
  <2> QED
    BY <2>1, <2>2, WidenSeq
<1>4. /\ d \in SUBSET Int /\ Failed \notin d /\ input.pointers \in [d -> Int] /\ input.address \in Int
  BY <1>1, <1>2 DEF Failed
<1>5. ChainComposes(input.pointers, input.address, input.offsets)
  BY <1>3, <1>4, ChainsCompose
<1> QED
  BY <1>1, <1>5 DEF AlgorithmsLawful

LEMMA ScanLaws == input \in ScanInputs => AlgorithmsLawful
<1> DEFINE B == {1, 2}
           K == {"p", "i"}
           N == {"m", "n"}
           behind == <<1, 1>>
           P == {<<1>>, <<1, 2>>, <<-1, 1>>}
           R == {ThreeRegions(x, y, k) : x, y \in BOOLEAN, k \in K}
           M == 1 .. 5
<1> SUFFICES ASSUME input \in ScanInputs PROVE AlgorithmsLawful
  OBVIOUS
<1>1. input.of = "scan" /\ input.regions \in R /\ input.memory \in [M -> B] /\ input.pattern \in P
  BY DEF ScanInputs
<1>2. input.pattern \in Seq(B \union {AnyByte}) /\ input.pattern # <<>>
  <2> DEFINE A == B \union {AnyByte}
             some == -1
  <2>1. 1 \in A /\ 2 \in A /\ some \in A
    BY DEF AnyByte
  <2>2. input.pattern \in {<<1>>, <<1, 2>>, <<some, 1>>}
    BY <1>1
  <2> HIDE DEF A, some
  <2>3. <<1>> \in Seq(A) /\ <<1, 2>> \in Seq(A) /\ <<some, 1>> \in Seq(A)
    BY <2>1
  <2>4. <<1>> # <<>> /\ <<1, 2>> # <<>> /\ <<some, 1>> # <<>>
    OBVIOUS
  <2>5. input.pattern \in Seq(A) /\ input.pattern # <<>>
    BY <2>2, <2>3, <2>4
  <2> QED
    BY <2>5 DEF A
<1>3. \A r \in R : r \in Seq(Regions(K)) /\ Readable(r, M)
  <2>1. ASSUME NEW x \in BOOLEAN, NEW y \in BOOLEAN, NEW k \in K
        PROVE  ThreeRegions(x, y, k) \in Seq(Regions(K)) /\ Readable(ThreeRegions(x, y, k), M)
    <3> DEFINE a == Region(1, 2, x, "p")
               b == Region(3, 2, y, k)
               c == Region(5, 1, TRUE, "p")
               A == Regions(K)
    <3>1. a \in A /\ b \in A /\ c \in A
      BY DEF Region, Regions
    <3>2. /\ a.base .. a.base + a.size - 1 \subseteq M /\ b.base .. b.base + b.size - 1 \subseteq M
          /\ c.base .. c.base + c.size - 1 \subseteq M
      BY DEF Region
    <3>3. ThreeRegions(x, y, k) = <<a, b, c>>
      BY DEF ThreeRegions
    <3> HIDE DEF a, b, c, A, M
    <3>4. <<a, b, c>> \in Seq(A) /\ ToSet(<<a, b, c>>) = {a, b, c}
      BY <3>1 DEF ToSet
    <3>5. Readable(<<a, b, c>>, M)
      BY <3>2, <3>4 DEF Readable
    <3> QED
      BY <3>3, <3>4, <3>5 DEF A
  <2>2. \A r \in R : \E x \in BOOLEAN, y \in BOOLEAN, k \in K : r = ThreeRegions(x, y, k)
    OBVIOUS
  <2> HIDE DEF R, K, M
  <2> QED
    BY <2>1, <2>2
<1>4. Modules \in Seq([name : N, base : Nat, size : Nat])
  BY DEF Modules
<1>5. behind \in Seq(B)
  OBVIOUS
<1> HIDE DEF B, K, N, behind, P, R, M
<1>6. ScanCovers(input.regions, {"p"}, input.memory, behind, input.pattern, Modules, input.name)
  <2>1. M \in SUBSET Nat
    BY DEF M
  <2> QED
    BY <1>1, <1>2, <1>3, <1>4, <1>5, <2>1, ScanFindsAll
<1> QED
  BY <1>1, <1>6 DEF AlgorithmsLawful, behind

\* The laws of the snapshots of processes that are asked about.
LEMMA NameLaws == input \in NameInputs => AlgorithmsLawful
<1> DEFINE C == {1, 2, 3}
           R == [pid : {7, 8}, parent : {0, 7}, name : {<<1>>, <<3>>, <<2>>}, opens : BOOLEAN]
           p == input.processes
<1> SUFFICES ASSUME input \in NameInputs PROVE AlgorithmsLawful
  OBVIOUS
<1>1. input.of = "names" /\ p \in Snapshot /\ input.room \in Nat
  BY DEF NameInputs
<1>2. p \in Seq(R) /\ Len(p) = 2
  <2>1. Snapshot = {<<u, v>> : u \in R, v \in R}
    BY DEF Snapshot
  <2> HIDE DEF R, p
  <2>2. PICK u \in R, v \in R : p = <<u, v>>
    BY <1>1, <2>1
  <2> QED
    BY <2>2
<1>3. \A r \in R : r.name \in Seq(C) \ {<<>>} /\ r.opens \in BOOLEAN
  <2>1. \A c \in C : <<c>> \in Seq(C) /\ <<c>> # <<>>
    <3> HIDE DEF C
    <3> QED
      OBVIOUS
  <2> QED
    BY <2>1
<1> HIDE DEF C, R, p
<1>4. p[1].pid # p[2].pid => OneEntryEach(p)
  <2>1. DOMAIN p = {1, 2}
    BY <1>2
  <2> QED
    BY <2>1 DEF OneEntryEach
<1>5. p[1].pid # p[2].pid => NamesAgree(p, input.room, Lower)
  BY <1>1, <1>2, <1>3, <1>4, NamesFound
<1> QED
  BY <1>1, <1>5 DEF AlgorithmsLawful, p

LEMMA ThreadLaws == input \in ThreadInputs => AlgorithmsLawful
<1> DEFINE P == [pid : {7}, parent : {0}]
           T == [tid : {1, 2}, owner : {7, 8}]
<1> SUFFICES ASSUME input \in ThreadInputs PROVE AlgorithmsLawful
  OBVIOUS
<1>1. /\ input.of = "threads" /\ input.processes \in {<<>>, <<[pid |-> 7, parent |-> 0]>>}
      /\ input.threads \in BoundedSeq(T, 3)
  BY DEF ThreadInputs, Threads
<1>2. input.processes \in Seq(P)
  <2>1. <<>> \in Seq(P) /\ <<[pid |-> 7, parent |-> 0]>> \in Seq(P)
    OBVIOUS
  <2> QED
    BY <1>1, <2>1
<1>3. \A q \in P : q.parent \in Nat
  OBVIOUS
<1> HIDE DEF P, T
<1>4. input.threads \in Seq(T)
  BY <1>1, BoundedIsSeq
<1>5. \A pid \in {7, 8} : ThreadsAgree(input.processes, input.threads, pid)
  BY <1>2, <1>3, <1>4, ThreadsFound
<1> QED
  BY <1>1, <1>5 DEF AlgorithmsLawful

\* The laws of the numbers that are asked about.
LEMMA NumberLaws == input \in PieceInputs \union Base64Inputs => AlgorithmsLawful
<1>1. ASSUME input \in PieceInputs PROVE AlgorithmsLawful
  <2> DEFINE Word == 65536
  <2>1. input.of = "pieces" /\ input.items \in Nat /\ input.pieces \in Nat \ {0} /\ 2 * input.items < Word /\ Word \in Nat
    BY <1>1 DEF PieceInputs
  <2> HIDE DEF Word
  <2>2. PiecesPartition(input.items, input.pieces, Word)
    BY <2>1, PiecesCoverSet
  <2> QED
    BY <2>1, <2>2 DEF AlgorithmsLawful, Word
<1>2. ASSUME input \in Base64Inputs PROVE AlgorithmsLawful
  <2>1. input.of = "base64" /\ input.n \in Nat
    BY <1>2 DEF Base64Inputs
  <2>2. Base64SizesFit(input.n, 1024)
    BY <2>1, Base64SizesHold
  <2> QED
    BY <2>1, <2>2 DEF AlgorithmsLawful
<1> QED
  BY <1>1, <1>2

LEMMA TextsApart == input \in TextQuestions \union {[of |-> "nothing"]} => AlgorithmsLawful
<1>1. ASSUME input.of \in {"text", "list", "hex", "url", "dump", "sizes", "crc", "file", "entries", "setting", "nothing"}
      PROVE  AlgorithmsLawful
  BY <1>1 DEF AlgorithmsLawful
<1>2. input \in TextQuestions \union {[of |-> "nothing"]} =>
        input.of \in {"text", "list", "hex", "url", "dump", "sizes", "crc", "file", "entries", "setting", "nothing"}
  BY DEF TextQuestions, TextInputs, ListInputs, HexInputs, UrlInputs, DumpInputs, SizeInputs,
         CrcInputs, FileInputs, EntryInputs, SettingInputs
<1> QED
  BY <1>1, <1>2

\* Every law of paths, searches of memory, snapshots of processes and numbers holds of
\* every question of the library's behaviours.
THEOREM LibraryAlgorithms == LibrarySpec => []AlgorithmsLawful
<1> DEFINE Asked == input \in Questions \union {[of |-> "nothing"]}
<1>1. LibraryInit => Asked
  BY DEF LibraryInit
<1>2. Asked /\ [LibraryNext]_<<which, input, wrapperVars>> => Asked'
  BY DEF LibraryNext
<1>3. Asked => AlgorithmsLawful
  BY PathLaws, JoinLaws, CasedLaws, BlockLaws, ScanLaws, ChainLaws, NameLaws, ThreadLaws, NumberLaws,
     TextsApart DEF Questions, AlgorithmQuestions
<1> QED
  BY <1>1, <1>2, <1>3, PTL DEF LibrarySpec
=============================================================================
