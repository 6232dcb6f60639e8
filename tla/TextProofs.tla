----------------------------- MODULE TextProofs -----------------------------
(***************************************************************************)
(* Proofs about texts: what the string functions promise, and what the     *)
(* registry gives back of the texts, lists and data written to it, for     *)
(* texts, lists and data of any length.                                    *)
(***************************************************************************)
EXTENDS RegistryValue, Codecs, TextFiles, Settings, Paths, InductionLemmas, TLAPS

-----------------------------------------------------------------------------
(* Multi-strings *)

Strs == Seq(Characters)

\* The strings of a list with the zeros that end them.
Ended(list) == [i \in DOMAIN list |-> Append(list[i], Nul)]

\* Where the cells of a multi-string end: no string is open at the last cell.
WellEnded(cells) ==
  /\ cells \in Seq(Nat) /\ Len(cells) >= 1 /\ cells[Len(cells)] = Nul
  /\ Len(cells) > 1 => cells[Len(cells) - 1] = Nul

\* What a list can carry: its first strings, up to the first empty one.
LEMMA CarriedIsPrefix ==
  ASSUME NEW list \in Seq(Strs)
  PROVE  \E k \in 0 .. Len(list) :
           /\ Carried(list) = SubSeq(list, 1, k) /\ Carried(list) \in Seq(Strs) /\ Len(Carried(list)) = k
           /\ \A i \in 1 .. k : list[i] # <<>> /\ Carried(list)[i] = list[i]
           /\ k < Len(list) => list[k + 1] = <<>>
<1> DEFINE empty == {i \in DOMAIN list : list[i] = <<>>}
           k == IF empty = {} THEN Len(list) ELSE Min(empty) - 1
<1>1. Len(list) \in Nat /\ DOMAIN list = 1 .. Len(list)
  BY LenProperties
<1>2. Carried(list) = SubSeq(list, 1, k)
  BY DEF Carried
<1>3. /\ k \in 0 .. Len(list) /\ \A i \in 1 .. k : list[i] # <<>>
      /\ k < Len(list) => list[k + 1] = <<>>
  <2>1. CASE empty = {}
    BY <1>1, <2>1
  <2>2. CASE empty # {}
    <3>1. empty \in SUBSET Nat
      BY <1>1
    <3> DEFINE first == Min(empty)
    <3>2. first \in empty /\ \A i \in empty : first <= i
      <4> HIDE DEF empty
      <4> QED
        BY <2>2, <3>1, MinIsMember
    <3>3. first \in 1 .. Len(list) /\ list[first] = <<>> /\ k = first - 1
      BY <1>1, <2>2, <3>2
    <3> HIDE DEF first, k
    <3>4. \A i \in 1 .. k : i \in DOMAIN list /\ ~ (first <= i)
      BY <1>1, <3>3
    <3>5. k + 1 = first /\ k \in 0 .. Len(list)
      BY <1>1, <3>3
    <3> QED
      BY <3>2, <3>3, <3>4, <3>5
  <2> QED
    BY <2>1, <2>2
<1> HIDE DEF k, empty
<1>4. \A i \in 1 .. k : list[i] \in Strs
  BY <1>1, <1>3
<1>5. SubSeq(list, 1, k) \in Seq(Strs) /\ Len(SubSeq(list, 1, k)) = k
  BY <1>1, <1>3, <1>4, SubSeqProperties
<1>6. \A i \in 1 .. k : SubSeq(list, 1, k)[i] = list[i]
  BY <1>1, <1>3
<1> QED
  BY <1>2, <1>3, <1>5, <1>6

\* Every place of cells that end well has a string that ends at or behind it.
LEMMA StringEnds ==
  ASSUME NEW cells, WellEnded(cells), NEW at \in 1 .. Len(cells)
  PROVE  /\ StringEnd(cells, at) \in at .. Len(cells) /\ cells[StringEnd(cells, at)] = Nul
         /\ \A i \in at .. Len(cells) : cells[i] = Nul => StringEnd(cells, at) <= i
         /\ StringEnd(cells, at) # at => StringEnd(cells, at) + 1 \in 1 .. Len(cells)
<1> DEFINE n == Len(cells)
           zeros == {i \in at .. n : cells[i] = Nul}
           end == StringEnd(cells, at)
<1>1. n \in Nat /\ n >= 1 /\ cells[n] = Nul /\ (n > 1 => cells[n - 1] = Nul)
  BY LenProperties DEF WellEnded
<1>2. zeros \in SUBSET Nat /\ n \in zeros
  BY <1>1
<1>3. end = Min(zeros)
  BY DEF StringEnd
<1>4. end \in zeros /\ \A i \in zeros : end <= i
  <2> HIDE DEF zeros, end, n
  <2> QED
    BY <1>2, <1>3, MinIsMember
<1>5. end \in at .. n /\ cells[end] = Nul /\ \A i \in at .. n : cells[i] = Nul => end <= i
  BY <1>4
<1>6. end # at => end + 1 \in 1 .. n
  <2> HIDE DEF end, zeros
  <2> SUFFICES ASSUME end # at, end = n PROVE FALSE
    <3> HIDE DEF n
    <3> QED
      BY <1>1, <1>5
  <2>1. n - 1 \in at .. n /\ n > 1
    BY <1>1, <1>5
  <2>2. end <= n - 1
    BY <1>1, <1>5, <2>1
  <2> HIDE DEF n
  <2> QED
    BY <1>1, <2>2
<1> QED
  BY <1>5, <1>6

\* Reading a multi-string takes the string at a place and reads on behind its end.
LEMMA MultiToListReads ==
  ASSUME NEW cells, WellEnded(cells)
  PROVE  \E g \in [1 .. Len(cells) -> Seq(Seq(Nat))] :
           /\ MultiToList(cells) = g[1]
           /\ \A at \in 1 .. Len(cells) :
                g[at] = IF StringEnd(cells, at) = at THEN <<>>
                        ELSE <<SubSeq(cells, at, StringEnd(cells, at) - 1)>> \o g[StringEnd(cells, at) + 1]
<1> DEFINE n == Len(cells)
           A == Seq(Seq(Nat))
           E(at) == StringEnd(cells, at)
           Str(at) == SubSeq(cells, at, E(at) - 1)
           next == [at \in 1 .. n |-> IF E(at) = at THEN at ELSE E(at) + 1]
           step == [c \in (1 .. n) \X A |-> <<Str(c[1])>> \o c[2]]
           none == [at \in 1 .. n |-> <<>>]
<1>1. n \in Nat /\ n >= 1 /\ cells \in Seq(Nat) /\ DOMAIN cells = 1 .. n
  BY LenProperties DEF WellEnded
<1>2. \A at \in 1 .. n : E(at) \in at .. n /\ (E(at) # at => E(at) + 1 \in 1 .. n)
  BY StringEnds
<1>3. \A at \in 1 .. n : Str(at) \in Seq(Nat)
  <2> TAKE at \in 1 .. n
  <2> DEFINE e == E(at) - 1
  <2>1. at \in Int /\ e \in Int /\ \A i \in at .. e : i \in 1 .. n
    <3> DEFINE end == E(at)
    <3>1. end \in at .. n /\ e = end - 1
      BY <1>2
    <3> HIDE DEF end, e, n
    <3> QED
      BY <1>1, <3>1
  <2>2. \A i \in at .. e : cells[i] \in Nat
    BY <1>1, <2>1, ElementOfSeq
  <2> HIDE DEF e
  <2>3. SubSeq(cells, at, e) \in Seq(Nat)
    BY <2>1, <2>2, SubSeqProperties
  <2> QED
    BY <2>3 DEF e
<1> HIDE DEF E
<1>4. next \in [1 .. n -> 1 .. n] /\ \A at \in 1 .. n : at <= next[at]
  <2>1. ASSUME NEW at \in 1 .. n PROVE next[at] \in 1 .. n /\ at <= next[at]
    <3> DEFINE end == E(at)
    <3>1. end \in at .. n /\ (end # at => end + 1 \in 1 .. n) /\ next[at] = IF end = at THEN at ELSE end + 1
      BY <1>2
    <3> HIDE DEF end, next, n
    <3> QED
      BY <1>1, <3>1
  <2> QED
    BY <2>1
<1>5. \A at \in 1 .. n : \A x \in A : <<Str(at)>> \o x \in A
  <2> TAKE at \in 1 .. n
  <2>1. Str(at) \in Seq(Nat)
    BY <1>3
  <2> HIDE DEF Str
  <2> QED
    BY <2>1
<1> HIDE DEF Str
<1>6. step \in [(1 .. n) \X A -> A]
  BY <1>5
<1>7. none \in [1 .. n -> A] /\ \A at \in 1 .. n : none[at] = <<>>
  OBVIOUS
<1> HIDE DEF A, n, step, next, none
<1>8. PICK f : f \in Jumps(n, A, none, next, step)
  BY <1>1, <1>4, <1>6, <1>7, JumpRecursion
<1>9. f \in [1 .. n -> A] /\ \A at \in 1 .. n : f[at] = IF E(at) = at THEN <<>> ELSE <<Str(at)>> \o f[E(at) + 1]
  <2>1. f \in [1 .. n -> A]
    BY <1>8 DEF Jumps
  <2>2. ASSUME NEW at \in 1 .. n PROVE f[at] = IF E(at) = at THEN <<>> ELSE <<Str(at)>> \o f[E(at) + 1]
    <3>1. f[at] = IF next[at] = at THEN <<>> ELSE step[<<at, f[next[at]]>>]
      BY <1>7, <1>8 DEF Jumps
    <3>2. CASE E(at) = at
      BY <3>1, <3>2 DEF next
    <3>3. CASE E(at) # at
      <4>1. next[at] = E(at) + 1 /\ E(at) + 1 \in 1 .. n /\ E(at) + 1 # at
        <5>1. E(at) \in at .. n /\ at \in Nat
          BY <1>2
        <5>2. E(at) + 1 # at
          BY <5>1
        <5> QED
          BY <1>2, <3>3, <5>2 DEF next
      <4>2. f[E(at) + 1] \in A
        BY <2>1, <4>1
      <4>3. step[<<at, f[E(at) + 1]>>] = <<Str(at)>> \o f[E(at) + 1]
        BY <4>2 DEF step
      <4> QED
        BY <3>1, <3>3, <4>1, <4>3
    <3> QED
      BY <3>2, <3>3
  <2> QED
    BY <2>1, <2>2
<1> DEFINE body(g) == [at \in 1 .. n |-> IF E(at) = at THEN <<>> ELSE <<Str(at)>> \o g[E(at) + 1]]
           g == CHOOSE h : h = body(h)
<1>10. f = body(f)
  BY <1>9
<1>11. g = body(g)
  <2> HIDE DEF body
  <2> QED
    BY <1>10, Zenon
<1>12. MultiToList(cells) = g[1]
  BY <1>1, Zenon DEF MultiToList, E, Str, n
<1> HIDE DEF g
<1>13. \A at \in 1 .. n : g[at] = IF E(at) = at THEN <<>> ELSE <<Str(at)>> \o g[E(at) + 1]
  BY <1>11
<1> DEFINE T == {k \in 0 .. n : \A at \in n - k + 1 .. n : g[at] = f[at]}
<1>14. 0 \in T
  BY <1>1
<1>15. ASSUME NEW k \in 0 .. (n - 1), k \in T PROVE k + 1 \in T
  <2>1. ASSUME NEW at \in n - (k + 1) + 1 .. n PROVE g[at] = f[at]
    <3>1. at \in 1 .. n /\ (at \in n - k + 1 .. n \/ at = n - k)
      BY <1>1
    <3>2. CASE at \in n - k + 1 .. n
      BY <1>15, <3>2
    <3>3. CASE at = n - k /\ E(at) # at
      <4>1. E(at) + 1 \in n - k + 1 .. n
        <5> DEFINE e == E(at)
        <5>1. e \in at .. n /\ e # at /\ e + 1 \in 1 .. n
          BY <1>2, <3>1, <3>3
        <5> HIDE DEF e
        <5>2. e + 1 \in n - k + 1 .. n
          BY <1>1, <3>3, <5>1
        <5> QED
          BY <5>2 DEF e
      <4>2. g[E(at) + 1] = f[E(at) + 1]
        BY <1>15, <4>1
      <4> QED
        BY <1>9, <1>13, <3>1, <3>3, <4>2
    <3>4. CASE E(at) = at
      BY <1>9, <1>13, <3>1, <3>4
    <3> QED
      BY <3>1, <3>2, <3>3, <3>4
  <2>2. k + 1 \in 0 .. n
    BY <1>1
  <2> QED
    BY <2>1, <2>2
<1>16. n \in T
  <2> HIDE DEF T
  <2>1. \A k \in 0 .. (n - 1) : k \in T => k + 1 \in T
    BY <1>15
  <2>2. \A k \in 0 .. n : k \in T
    BY <1>1, <1>14, <2>1, IntervalInduction
  <2> QED
    BY <1>1, <2>2
<1>17. g[1] = f[1]
  <2>1. 1 \in n - n + 1 .. n
    BY <1>1
  <2> QED
    BY <1>16, <2>1
<1> QED
  BY <1>9, <1>12, <1>17 DEF A, n, E, Str

\* The strings of a list with their zeros are sequences of cells.
LEMMA EndedType ==
  ASSUME NEW c \in Seq(Strs)
  PROVE  /\ Ended(c) \in Seq(Seq(Nat)) /\ Len(Ended(c)) = Len(c) /\ Len(c) \in Nat
         /\ \A i \in 1 .. Len(c) :
              /\ c[i] \in Strs /\ Len(c[i]) \in Nat
              /\ Ended(c)[i] \in Seq(Nat) /\ Len(Ended(c)[i]) = Len(c[i]) + 1
              /\ Ended(c)[i][Len(c[i]) + 1] = Nul
              /\ \A j \in 1 .. Len(c[i]) : Ended(c)[i][j] = c[i][j] /\ c[i][j] \in Characters
<1> DEFINE w == Ended(c)
<1>1. Len(c) \in Nat /\ DOMAIN c = 1 .. Len(c) /\ \A i \in 1 .. Len(c) : c[i] \in Strs
  BY LenProperties, ElementOfSeq
<1>2. w = [i \in 1 .. Len(c) |-> Append(c[i], Nul)]
  BY <1>1 DEF Ended
<1>3. ASSUME NEW i \in 1 .. Len(c)
      PROVE  /\ Len(c[i]) \in Nat
             /\ w[i] \in Seq(Nat) /\ Len(w[i]) = Len(c[i]) + 1 /\ w[i][Len(c[i]) + 1] = Nul
             /\ \A j \in 1 .. Len(c[i]) : w[i][j] = c[i][j] /\ c[i][j] \in Characters
  <2> DEFINE t == c[i]
  <2>1. t \in Seq(Nat) /\ t \in Seq(Characters) /\ w[i] = Append(t, Nul) /\ Nul \in Nat
    <3>1. t \in Seq(Characters) /\ Characters \subseteq Nat
      BY <1>1 DEF Strs, Characters
    <3> HIDE DEF t
    <3>2. t \in Seq(Nat)
      BY <3>1, SeqMonotonic
    <3> QED
      BY <1>2, <3>1, <3>2 DEF t, Nul
  <2> HIDE DEF t
  <2> QED
    BY <2>1 DEF t
<1>4. w \in Seq(Seq(Nat)) /\ Len(w) = Len(c)
  <2>1. \A i \in 1 .. Len(c) : Append(c[i], Nul) \in Seq(Nat)
    BY <1>2, <1>3
  <2> HIDE DEF w
  <2> QED
    BY <1>1, <1>2, <2>1
<1> QED
  BY <1>1, <1>3, <1>4

\* Cells that begin with the strings of a list, each behind the one before, and a zero give
\* the list, whatever lies behind.
LEMMA MultiReads ==
  ASSUME NEW c \in Seq(Strs), \A i \in 1 .. Len(c) : c[i] # <<>>,
         NEW cells, WellEnded(cells), NEW flat, flat = FlattenSeq(Ended(c)), Len(flat) < Len(cells),
         \A i \in 1 .. Len(flat) : cells[i] = flat[i], cells[Len(flat) + 1] = Nul
  PROVE  MultiToList(cells) = c
<1> DEFINE n == Len(c)
           w == Ended(c)
           o == [i \in 0 .. n |-> PlaceOf(w, i)]
           len == [i \in 1 .. n |-> Len(c[i])]
<1>1. /\ w \in Seq(Seq(Nat)) /\ Len(w) = n /\ n \in Nat
      /\ \A i \in 1 .. n :
           /\ c[i] \in Strs /\ Len(c[i]) \in Nat
           /\ w[i] \in Seq(Nat) /\ Len(w[i]) = Len(c[i]) + 1
           /\ w[i][Len(c[i]) + 1] = Nul
           /\ \A j \in 1 .. Len(c[i]) : w[i][j] = c[i][j] /\ c[i][j] \in Characters
  BY EndedType
<1>2. /\ flat \in Seq(Nat) /\ Len(flat) \in Nat /\ Len(cells) \in Nat /\ cells \in Seq(Nat)
      /\ \A i \in 0 .. n : o[i] \in 0 .. Len(flat)
      /\ o[0] = 0 /\ o[n] = Len(flat)
      /\ len \in [1 .. n -> Nat] /\ \A i \in 1 .. n : len[i] = Len(c[i])
      /\ \A i \in 1 .. n : o[i] = o[i - 1] + len[i] + 1
      /\ \A i \in 1 .. n : \A j \in 1 .. len[i] + 1 : flat[o[i - 1] + j] = w[i][j]
  <2> HIDE DEF w, n
  <2>1. /\ flat \in Seq(Nat)
        /\ \A i \in 0 .. n : PlaceOf(w, i) \in 0 .. Len(flat)
        /\ PlaceOf(w, 0) = 0 /\ PlaceOf(w, n) = Len(flat)
        /\ \A i \in 1 .. n : PlaceOf(w, i) = PlaceOf(w, i - 1) + Len(w[i])
        /\ \A i \in 1 .. n : \A j \in 1 .. Len(w[i]) : flat[PlaceOf(w, i - 1) + j] = w[i][j]
    <3>1. flat = FlattenSeq(w) /\ w \in Seq(Seq(Nat)) /\ n = Len(w)
      BY <1>1 DEF w
    <3>2. /\ FlattenSeq(w) \in Seq(Nat)
          /\ \A i \in 0 .. Len(w) : PlaceOf(w, i) \in 0 .. Len(FlattenSeq(w))
          /\ PlaceOf(w, 0) = 0 /\ PlaceOf(w, Len(w)) = Len(FlattenSeq(w))
          /\ \A i \in 1 .. Len(w) : PlaceOf(w, i) = PlaceOf(w, i - 1) + Len(w[i])
          /\ \A i \in 1 .. Len(w) : \A j \in 1 .. Len(w[i]) : FlattenSeq(w)[PlaceOf(w, i - 1) + j] = w[i][j]
      BY <3>1, FlattenPlaces, Zenon
    <3> QED
      BY ONLY <3>1, <3>2, Zenon
  <2>2. \A i \in 1 .. n : i - 1 \in 0 .. n /\ i \in 0 .. n
    BY <1>1
  <2>3. 0 \in 0 .. n /\ n \in 0 .. n
    BY <1>1
  <2>4. len \in [1 .. n -> Nat] /\ \A i \in 1 .. n : len[i] = Len(c[i]) /\ len[i] \in Nat
    BY <1>1
  <2>5. \A i \in 0 .. n : o[i] = PlaceOf(w, i)
    OBVIOUS
  <2>6. Len(flat) \in Nat /\ Len(cells) \in Nat /\ cells \in Seq(Nat)
    BY <2>1, LenProperties DEF WellEnded
  <2> HIDE DEF o, len
  <2>7. ASSUME NEW i \in 1 .. n PROVE o[i] = o[i - 1] + len[i] + 1
    <3> DEFINE a == PlaceOf(w, i - 1)
    <3>1. PlaceOf(w, i) = a + (len[i] + 1) /\ a \in Nat /\ len[i] \in Nat
      <4>1. Len(w[i]) = len[i] + 1 /\ len[i] \in Nat
        BY <1>1, <2>4
      <4>2. PlaceOf(w, i) = a + Len(w[i])
        BY <2>1
      <4>3. a \in 0 .. Len(flat)
        BY <2>1, <2>2
      <4> QED
        BY <2>6, <4>1, <4>2, <4>3
    <3>2. o[i] = PlaceOf(w, i) /\ o[i - 1] = a
      BY <2>2, <2>5
    <3> HIDE DEF a
    <3> QED
      BY <3>1, <3>2
  <2>8. ASSUME NEW i \in 1 .. n, NEW j \in 1 .. len[i] + 1 PROVE flat[o[i - 1] + j] = w[i][j]
    <3>1. Len(w[i]) = len[i] + 1 /\ o[i - 1] = PlaceOf(w, i - 1)
      BY <1>1, <2>2, <2>4, <2>5
    <3> QED
      BY <2>1, <3>1
  <2> QED
    BY <2>1, <2>3, <2>4, <2>5, <2>6, <2>7, <2>8
<1> HIDE DEF n, w, o, len
<1>3. ASSUME NEW i \in 1 .. n
      PROVE  /\ o[i - 1] + 1 \in 1 .. Len(cells) /\ o[i] \in 1 .. Len(cells) /\ o[i - 1] \in Nat
             /\ o[i] + 1 \in 1 .. Len(cells)
             /\ cells[o[i]] = Nul
             /\ \A j \in 1 .. len[i] : cells[o[i - 1] + j] = c[i][j] /\ cells[o[i - 1] + j] # Nul
  <2> DEFINE a == o[i - 1]
             b == o[i]
             l == len[i]
             m == Len(flat)
             N == Len(cells)
  <2>1. a \in 0 .. m /\ b \in 0 .. m /\ l \in Nat /\ b = a + l + 1 /\ m \in Nat /\ N \in Nat /\ m < N
    <3>1. i - 1 \in 0 .. n /\ i \in 0 .. n
      BY <1>1
    <3> QED
      BY <1>2, <3>1
  <2>2. \A j \in 1 .. l + 1 : flat[a + j] = w[i][j]
    BY <1>2
  <2>3. \A j \in 1 .. m : cells[j] = flat[j]
    OBVIOUS
  <2>4. w[i][l + 1] = Nul /\ \A j \in 1 .. l : w[i][j] = c[i][j] /\ c[i][j] \in Characters
    BY <1>1, <1>2
  <2> HIDE DEF a, b, l, m, N
  <2>5. \A j \in 1 .. l + 1 : a + j \in 1 .. m
    BY <2>1
  <2>6. \A j \in 1 .. l + 1 : cells[a + j] = w[i][j]
    BY <2>2, <2>3, <2>5
  <2>7. cells[b] = Nul
    <3>1. b = a + (l + 1) /\ l + 1 \in 1 .. l + 1
      BY <2>1
    <3> QED
      BY <2>4, <2>6, <3>1
  <2>8. ASSUME NEW j \in 1 .. l PROVE cells[a + j] = c[i][j] /\ cells[a + j] # Nul
    <3>1. j \in 1 .. l + 1
      BY <2>1
    <3> QED
      BY <2>4, <2>6, <3>1 DEF Characters
  <2>9. a + 1 \in 1 .. N /\ b \in 1 .. N /\ a \in Nat /\ b + 1 \in 1 .. N
    BY <2>1
  <2> QED
    BY <2>7, <2>8, <2>9 DEF a, b, l, N
<1>4. ASSUME NEW i \in 1 .. n
      PROVE  /\ StringEnd(cells, o[i - 1] + 1) = o[i]
             /\ SubSeq(cells, o[i - 1] + 1, o[i] - 1) = c[i]
             /\ o[i] # o[i - 1] + 1
  <2> DEFINE a == o[i - 1]
             b == o[i]
             l == len[i]
             N == Len(cells)
             e == StringEnd(cells, a + 1)
  <2>1. /\ a + 1 \in 1 .. N /\ b \in 1 .. N /\ a \in Nat /\ l \in Nat /\ N \in Nat
        /\ b = a + l + 1 /\ cells[b] = Nul
        /\ \A j \in 1 .. l : cells[a + j] = c[i][j] /\ cells[a + j] # Nul
    BY <1>2, <1>3
  <2>2. /\ e \in a + 1 .. N /\ cells[e] = Nul
        /\ \A j \in a + 1 .. N : cells[j] = Nul => e <= j
    BY <2>1, StringEnds
  <2>3. l # 0 /\ l = Len(c[i]) /\ c[i] \in Seq(Nat)
    <3>1. c[i] \in Seq(Characters) /\ Characters \subseteq Nat /\ c[i] # <<>>
      BY <1>1 DEF Strs, Characters, n
    <3>2. c[i] \in Seq(Nat)
      BY <3>1, SeqMonotonic
    <3>3. Len(c[i]) # 0
      BY <3>1, EmptySeq
    <3> QED
      BY <1>2, <3>2, <3>3
  <2>4. \A j \in 1 .. N : cells[j] \in Nat
    BY <1>2, ElementOfSeq
  <2> HIDE DEF a, b, l, N, e
  <2>5. e = b
    <3>1. e <= b
      BY <2>1, <2>2
    <3>2. ASSUME e < b PROVE FALSE
      <4>1. e - a \in 1 .. l /\ a + (e - a) = e
        BY <2>1, <2>2, <3>2
      <4>2. cells[a + (e - a)] # Nul
        BY <2>1, <4>1
      <4> QED
        BY <2>2, <4>1, <4>2
    <3> QED
      BY <2>1, <2>2, <3>1, <3>2
  <2>6. SubSeq(cells, a + 1, b - 1) = c[i]
    <3> DEFINE t == SubSeq(cells, a + 1, b - 1)
    <3>1. a + 1 \in Int /\ b - 1 \in Int /\ \A j \in a + 1 .. b - 1 : j \in 1 .. N
      BY <2>1
    <3>2. \A j \in a + 1 .. b - 1 : cells[j] \in Nat
      BY <2>4, <3>1
    <3>3. t \in Seq(Nat) /\ Len(t) = l
      <4>1. t \in Seq(Nat) /\ Len(t) = IF a + 1 <= b - 1 THEN b - 1 - (a + 1) + 1 ELSE 0
        BY <3>1, <3>2, SubSeqProperties
      <4> HIDE DEF t
      <4> QED
        BY <2>1, <2>3, <4>1
    <3>4. ASSUME NEW j \in 1 .. l PROVE t[j] = c[i][j]
      <4>1. j \in 1 .. b - 1 - (a + 1) + 1 /\ a + 1 + j - 1 = a + j
        BY <2>1
      <4>2. t[j] = cells[a + 1 + j - 1]
        BY <3>1, <3>2, <4>1, SubSeqProperties
      <4> QED
        BY <2>1, <4>1, <4>2
    <3> HIDE DEF t
    <3> QED
      BY <2>3, <3>3, <3>4, SeqEqual DEF t
  <2>7. b # a + 1
    BY <2>1, <2>3
  <2> QED
    BY <2>5, <2>6, <2>7 DEF a, b, e
<1>5. StringEnd(cells, o[n] + 1) = o[n] + 1 /\ o[n] + 1 \in 1 .. Len(cells)
  <2> DEFINE a == o[n] + 1
             N == Len(cells)
             e == StringEnd(cells, a)
  <2>1. a \in 1 .. N /\ cells[a] = Nul
    BY <1>2
  <2>2. e \in a .. N /\ \A i \in a .. N : cells[i] = Nul => e <= i
    BY <2>1, StringEnds
  <2>3. N \in Nat
    BY <1>2
  <2> HIDE DEF a, N, e
  <2>4. e = a
    BY <2>1, <2>2, <2>3
  <2> QED
    BY <2>1, <2>4 DEF a, N, e
<1>6. PICK g \in [1 .. Len(cells) -> Seq(Seq(Nat))] :
        /\ MultiToList(cells) = g[1]
        /\ \A at \in 1 .. Len(cells) :
             g[at] = IF StringEnd(cells, at) = at THEN <<>>
                     ELSE <<SubSeq(cells, at, StringEnd(cells, at) - 1)>> \o g[StringEnd(cells, at) + 1]
  BY MultiToListReads
<1>7. g[o[n] + 1] = <<>>
  <2> DEFINE at == o[n] + 1
  <2>1. StringEnd(cells, at) = at /\ at \in 1 .. Len(cells)
    BY <1>5
  <2> HIDE DEF at
  <2>2. g[at] = <<>>
    BY <1>6, <2>1
  <2> QED
    BY <2>2 DEF at
<1>8. ASSUME NEW i \in 1 .. n PROVE g[o[i - 1] + 1] = <<c[i]>> \o g[o[i] + 1]
  <2> DEFINE at == o[i - 1] + 1
             end == o[i]
  <2>1. StringEnd(cells, at) = end /\ at \in 1 .. Len(cells) /\ end # at /\ SubSeq(cells, at, end - 1) = c[i]
    BY <1>3, <1>4
  <2> HIDE DEF at, end
  <2>2. g[at] = <<c[i]>> \o g[end + 1]
    BY <1>6, <2>1
  <2> QED
    BY <2>2 DEF at, end
<1> DEFINE T == {k \in 0 .. n : g[o[n - k] + 1] = SubSeq(c, n - k + 1, n)}
<1>9. 0 \in T
  <2>1. n - 0 = n /\ SubSeq(c, n + 1, n) = <<>> /\ 0 \in 0 .. n
    BY <1>1, SubSeqEmpty
  <2> QED
    BY <1>7, <2>1
<1>10. ASSUME NEW k \in 0 .. (n - 1), k \in T PROVE k + 1 \in T
  <2> DEFINE i == n - k
  <2>1. i \in 1 .. n /\ n - (k + 1) = i - 1 /\ n - (k + 1) + 1 = i /\ n - k + 1 = i + 1 /\ k + 1 \in 0 .. n
    BY <1>1
  <2>2. g[o[i] + 1] = SubSeq(c, i + 1, n)
    BY <1>10, <2>1
  <2> HIDE DEF i
  <2>3. SubSeq(c, i, n) = <<c[i]>> \o SubSeq(c, i + 1, n)
    <3>1. c \in Seq(Strs) /\ i \in 1 .. Len(c) /\ Len(c) \in i .. Len(c) /\ n = Len(c)
      BY <1>1, <2>1 DEF n
    <3>2. SubSeq(c, i, Len(c)) = <<c[i]>> \o SubSeq(c, i + 1, Len(c))
      BY <3>1, SubSeqRecursiveFirst
    <3> QED
      BY <3>1, <3>2
  <2>4. g[o[i - 1] + 1] = SubSeq(c, i, n)
    BY <1>8, <2>1, <2>2, <2>3
  <2> QED
    BY <2>1, <2>4
<1>11. n \in T
  <2> HIDE DEF T
  <2>1. \A k \in 0 .. (n - 1) : k \in T => k + 1 \in T
    BY <1>10
  <2>2. \A k \in 0 .. n : k \in T
    BY <1>1, <1>9, <2>1, IntervalInduction
  <2> QED
    BY <1>1, <2>2
<1>12. g[1] = c
  <2>1. n - n = 0 /\ n - n + 1 = 1 /\ 0 + 1 = 1
    BY <1>1
  <2>2. g[o[0] + 1] = SubSeq(c, 1, n)
    BY <1>11, <2>1
  <2>3. SubSeq(c, 1, n) = c
    BY SubSeqFull DEF n
  <2> QED
    BY <1>2, <2>1, <2>2, <2>3
<1> QED
  BY <1>6, <1>12

\* A multi-string is the strings with their zeros, and a zero.
LEMMA MultiCells ==
  ASSUME NEW list \in Seq(Strs)
  PROVE  /\ FlattenSeq(Ended(list)) \in Seq(Nat)
         /\ ListToMulti(list) = FlattenSeq(Ended(list)) \o <<Nul>>
         /\ WellEnded(ListToMulti(list))
<1> DEFINE w == Ended(list)
           flat == FlattenSeq(w)
           n == Len(list)
<1>1. /\ w \in Seq(Seq(Nat)) /\ Len(w) = n /\ n \in Nat
      /\ \A i \in 1 .. n : Len(list[i]) \in Nat /\ Len(w[i]) = Len(list[i]) + 1 /\ w[i][Len(list[i]) + 1] = Nul
  BY EndedType
<1>2. ListToMulti(list) = flat \o <<Nul>>
  BY DEF ListToMulti, Ended
<1>3. flat \in Seq(Nat) /\ Len(flat) \in Nat
  BY <1>1, FlattenPlaces, LenProperties
<1>4. Len(flat) > 0 => flat[Len(flat)] = Nul
  <2> SUFFICES ASSUME Len(flat) > 0 PROVE flat[Len(flat)] = Nul
    OBVIOUS
  <2> HIDE DEF w, n
  <2>1. /\ PlaceOf(w, 0) = 0 /\ PlaceOf(w, n) = Len(flat)
        /\ \A i \in 0 .. n : PlaceOf(w, i) \in 0 .. Len(flat)
        /\ \A i \in 1 .. n : PlaceOf(w, i) = PlaceOf(w, i - 1) + Len(w[i])
        /\ \A i \in 1 .. n : \A j \in 1 .. Len(w[i]) : flat[PlaceOf(w, i - 1) + j] = w[i][j]
    <3>1. /\ PlaceOf(w, 0) = 0 /\ PlaceOf(w, Len(w)) = Len(FlattenSeq(w))
          /\ \A i \in 0 .. Len(w) : PlaceOf(w, i) \in 0 .. Len(FlattenSeq(w))
          /\ \A i \in 1 .. Len(w) : PlaceOf(w, i) = PlaceOf(w, i - 1) + Len(w[i])
          /\ \A i \in 1 .. Len(w) : \A j \in 1 .. Len(w[i]) : FlattenSeq(w)[PlaceOf(w, i - 1) + j] = w[i][j]
      BY <1>1, FlattenPlaces, ZenonT(40)
    <3> QED
      BY ONLY <1>1, <3>1, Zenon
  <2> HIDE DEF flat
  <2>2. n \in 1 .. n
    <3>1. n # 0
      BY <1>3, <2>1
    <3> QED
      BY <1>1, <3>1
  <2> DEFINE l == Len(w[n])
             a == PlaceOf(w, n - 1)
  <2>3. l \in 1 .. l /\ w[n][l] = Nul
    <3> DEFINE p == Len(list[n])
    <3>1. p \in Nat /\ l = p + 1 /\ w[n][p + 1] = Nul
      BY <1>1, <2>2
    <3> HIDE DEF p, l
    <3> QED
      BY <3>1
  <2>4. Len(flat) = a + l
    BY <2>1, <2>2
  <2>5. flat[a + l] = w[n][l]
    BY <2>1, <2>2, <2>3
  <2> HIDE DEF l, a
  <2> QED
    BY <2>3, <2>4, <2>5
<1> HIDE DEF flat
<1>5. /\ flat \o <<Nul>> \in Seq(Nat) /\ Len(flat \o <<Nul>>) = Len(flat) + 1
      /\ (flat \o <<Nul>>)[Len(flat) + 1] = Nul
      /\ \A i \in 1 .. Len(flat) : (flat \o <<Nul>>)[i] = flat[i]
  BY <1>3 DEF Nul
<1>6. WellEnded(flat \o <<Nul>>)
  <2> DEFINE z == flat \o <<Nul>>
             l == Len(flat)
  <2>1. /\ z \in Seq(Nat) /\ Len(z) = l + 1 /\ z[l + 1] = Nul /\ l \in Nat
        /\ (l > 0 => z[l] = Nul)
    BY <1>3, <1>4, <1>5
  <2> HIDE DEF z, l
  <2>2. Len(z) - 1 = l
    BY <2>1
  <2>3. WellEnded(z)
    BY <2>1, <2>2 DEF WellEnded
  <2> QED
    BY <2>3 DEF z
<1> QED
  BY <1>2, <1>3, <1>6 DEF flat

\* A multi-string begins with the strings the list can carry, and a zero.
LEMMA MultiBegins ==
  ASSUME NEW list \in Seq(Strs)
  PROVE  /\ Carried(list) \in Seq(Strs) /\ \A i \in 1 .. Len(Carried(list)) : Carried(list)[i] # <<>>
         /\ \E rest \in Seq(Nat) :
              /\ ListToMulti(list) = FlattenSeq(Ended(Carried(list))) \o rest
              /\ Len(rest) >= 1 /\ rest[1] = Nul
<1> DEFINE c == Carried(list)
           n == Len(list)
<1>1. PICK k \in 0 .. n :
        /\ c = SubSeq(list, 1, k) /\ c \in Seq(Strs) /\ Len(c) = k
        /\ \A i \in 1 .. k : list[i] # <<>> /\ c[i] = list[i]
        /\ k < n => list[k + 1] = <<>>
  BY CarriedIsPrefix
<1>2. n \in Nat /\ DOMAIN list = 1 .. n /\ \A i \in 1 .. n : list[i] \in Strs
  BY LenProperties, ElementOfSeq
<1> DEFINE r == SubSeq(list, k + 1, n)
<1>3. r \in Seq(Strs) /\ Len(r) = n - k /\ \A i \in 1 .. n - k : r[i] = list[k + i]
  <2>1. k + 1 \in Int /\ n \in Int /\ \A i \in k + 1 .. n : list[i] \in Strs
    BY <1>2
  <2>2. /\ r \in Seq(Strs) /\ Len(r) = IF k + 1 <= n THEN n - (k + 1) + 1 ELSE 0
        /\ \A i \in 1 .. n - (k + 1) + 1 : r[i] = list[k + 1 + i - 1]
    BY <2>1, SubSeqProperties
  <2> HIDE DEF r, n
  <2>3. \A i \in 1 .. n - k : i \in 1 .. n - (k + 1) + 1 /\ k + 1 + i - 1 = k + i
    BY <1>2
  <2> QED
    BY <1>2, <2>2, <2>3
<1> HIDE DEF c, r, n
<1> DEFINE u == Ended(c)
           v == Ended(r)
           w == Ended(list)
<1>4. /\ u \in Seq(Seq(Nat)) /\ Len(u) = k /\ v \in Seq(Seq(Nat)) /\ Len(v) = n - k
      /\ w \in Seq(Seq(Nat)) /\ Len(w) = n
  BY <1>1, <1>3, EndedType DEF n
<1>5. w = u \o v
  <2>1. DOMAIN c = 1 .. k /\ DOMAIN r = 1 .. n - k
    BY <1>1, <1>3, LenProperties
  <2>2. u \o v \in Seq(Seq(Nat)) /\ Len(u \o v) = k + (n - k)
        /\ \A i \in 1 .. k + (n - k) : (u \o v)[i] = IF i <= k THEN u[i] ELSE v[i - k]
    <3> HIDE DEF u, v
    <3>1. u \o v \in Seq(Seq(Nat)) /\ Len(u \o v) = Len(u) + Len(v)
          /\ \A i \in 1 .. Len(u) + Len(v) : (u \o v)[i] = IF i <= Len(u) THEN u[i] ELSE v[i - Len(u)]
      BY <1>4, ConcatProperties
    <3> QED
      BY <1>4, <3>1
  <2>3. k + (n - k) = n
    BY <1>2
  <2>4. ASSUME NEW i \in 1 .. n PROVE w[i] = (u \o v)[i]
    <3>1. w[i] = Append(list[i], Nul)
      BY <1>2 DEF Ended
    <3>2. CASE i <= k
      <4>1. i \in 1 .. k
        BY <3>2
      <4>2. u[i] = Append(c[i], Nul)
        BY <2>1, <4>1 DEF Ended
      <4> HIDE DEF u, v, w
      <4> QED
        BY <1>1, <2>2, <2>3, <3>1, <3>2, <4>1, <4>2
    <3>3. CASE ~ (i <= k)
      <4>1. i - k \in 1 .. n - k /\ k + (i - k) = i
        BY <1>2, <3>3
      <4>2. v[i - k] = Append(r[i - k], Nul)
        BY <2>1, <4>1 DEF Ended
      <4> HIDE DEF u, v, w
      <4> QED
        BY <1>3, <2>2, <2>3, <3>1, <3>3, <4>1, <4>2
    <3> QED
      BY <3>2, <3>3
  <2> HIDE DEF u, v, w
  <2> QED
    BY <1>4, <2>2, <2>3, <2>4, SeqEqual
<1>6. FlattenSeq(w) = FlattenSeq(u) \o FlattenSeq(v)
  <2> HIDE DEF u, v, w
  <2> QED
    BY <1>4, <1>5, FlattenConcat
<1> DEFINE rest == FlattenSeq(v) \o <<Nul>>
<1>7. FlattenSeq(u) \in Seq(Nat) /\ FlattenSeq(v) \in Seq(Nat) /\ ListToMulti(list) = FlattenSeq(w) \o <<Nul>>
  BY <1>1, <1>3, MultiCells
<1>8. rest \in Seq(Nat) /\ ListToMulti(list) = FlattenSeq(u) \o rest /\ Len(rest) >= 1
  <2> DEFINE x == FlattenSeq(u)
             y == FlattenSeq(v)
  <2>1. x \in Seq(Nat) /\ y \in Seq(Nat) /\ <<Nul>> \in Seq(Nat) /\ ListToMulti(list) = (x \o y) \o <<Nul>>
    BY <1>6, <1>7 DEF Nul
  <2> HIDE DEF x, y
  <2>2. (x \o y) \o <<Nul>> = x \o (y \o <<Nul>>) /\ y \o <<Nul>> \in Seq(Nat) /\ Len(y \o <<Nul>>) >= 1
    BY <2>1, SMTT(30)
  <2> QED
    BY <2>1, <2>2 DEF x, y
<1>9. rest[1] = Nul
  <2>1. CASE k = n
    <3>1. v = <<>>
      BY <1>2, <1>4, <2>1, EmptySeq
    <3>2. FlattenSeq(<<>>) = <<>> /\ <<>> \o <<Nul>> = <<Nul>>
      BY DEF FlattenSeq
    <3> HIDE DEF v
    <3> QED
      BY <3>1, <3>2
  <2>2. CASE k # n
    <3>1. 1 \in 1 .. n - k /\ k < n /\ r[1] = list[k + 1]
      BY <1>2, <1>3, <2>2
    <3>2. r[1] = <<>> /\ Len(r) = n - k
      BY <1>1, <1>3, <3>1
    <3>3. Len(v[1]) = 1 /\ v[1][1] = Nul
      <4>1. Len(v[1]) = Len(r[1]) + 1 /\ v[1][Len(r[1]) + 1] = Nul
        BY <1>3, <3>1, EndedType, SMTT(30)
      <4>2. Len(r[1]) = 0
        BY <3>2
      <4> HIDE DEF v
      <4> QED
        BY <4>1, <4>2
    <3>4. FlattenSeq(v)[1] = Nul /\ Len(FlattenSeq(v)) >= 1 /\ FlattenSeq(v) \in Seq(Nat)
      <4> HIDE DEF v
      <4>1. /\ PlaceOf(v, 0) = 0 /\ \A i \in 0 .. Len(v) : PlaceOf(v, i) \in 0 .. Len(FlattenSeq(v))
            /\ \A i \in 1 .. Len(v) : PlaceOf(v, i) = PlaceOf(v, i - 1) + Len(v[i])
            /\ \A i \in 1 .. Len(v) : \A j \in 1 .. Len(v[i]) : FlattenSeq(v)[PlaceOf(v, i - 1) + j] = v[i][j]
        BY <1>4, FlattenPlaces, Zenon
      <4>2. 1 \in 1 .. Len(v) /\ 1 - 1 = 0 /\ 1 \in 0 .. Len(v) /\ 1 \in 1 .. Len(v[1])
        BY <1>2, <1>4, <3>1, <3>3
      <4>3. FlattenSeq(v)[0 + 1] = v[1][1] /\ PlaceOf(v, 1) = 0 + 1
        BY <3>3, <4>1, <4>2
      <4>4. Len(FlattenSeq(v)) \in Nat
        BY <1>7, LenProperties
      <4>5. PlaceOf(v, 1) <= Len(FlattenSeq(v))
        BY <4>1, <4>2
      <4> QED
        BY <1>7, <3>3, <4>3, <4>4, <4>5
    <3> DEFINE y == FlattenSeq(v)
    <3> HIDE DEF y
    <3>5. y[1] = Nul /\ Len(y) >= 1 /\ y \in Seq(Nat)
      BY <3>4 DEF y
    <3>6. (y \o <<Nul>>)[1] = Nul
      BY <3>5
    <3> QED
      BY <3>6 DEF y
  <2> QED
    BY <2>1, <2>2
<1>10. \A i \in 1 .. Len(c) : c[i] # <<>>
  BY <1>1
<1> HIDE DEF rest
<1> QED
  BY <1>1, <1>8, <1>9, <1>10 DEF c

\* A list in a multi-string comes back up to its first empty string, for lists of any length.
THEOREM MultiStringsKept == \A list \in Seq(Strs) : MultiStringKeeps(list)
<1> SUFFICES ASSUME NEW list \in Seq(Strs) PROVE MultiToList(ListToMulti(list)) = Carried(list)
  BY DEF MultiStringKeeps
<1> DEFINE c == Carried(list)
           flat == FlattenSeq(Ended(c))
           cells == ListToMulti(list)
<1>1. c \in Seq(Strs) /\ \A i \in 1 .. Len(c) : c[i] # <<>>
  BY MultiBegins
<1>2. PICK rest \in Seq(Nat) : cells = flat \o rest /\ Len(rest) >= 1 /\ rest[1] = Nul
  BY MultiBegins
<1>3. flat \in Seq(Nat)
  BY <1>1, MultiCells
<1>4. WellEnded(cells)
  BY MultiCells
<1> HIDE DEF c, flat, cells
<1>5. Len(flat) < Len(cells) /\ cells[Len(flat) + 1] = Nul /\ \A i \in 1 .. Len(flat) : cells[i] = flat[i]
  BY <1>2, <1>3
<1>6. MultiToList(cells) = c
  BY <1>1, <1>4, <1>5, MultiReads DEF flat
<1> QED
  BY <1>6 DEF c, cells

-----------------------------------------------------------------------------
(* RegistryValue *)

\* What the registry has of a value that was written.
Stored(v) ==
  CASE valueKind = "string" -> Append(v, Nul)
    [] valueKind = "multi"  -> ListToMulti(Carried(v))
    [] OTHER                -> v

ValueParts ==
  /\ valueKind \in {"string", "multi", "binary", "fixed"}
  /\ written \in Inputs \union {Absent}
  /\ value = IF written = Absent THEN Absent ELSE Stored(written)
  /\ reader \in [at : {"idle", "sized"}, wide : BOOLEAN, room : Nat, stale : BOOLEAN]

\* A size that was asked for and is not stale is that of the value.
SizeKnown ==
  reader.at = "sized" =>
    /\ valueKind # "fixed"
    /\ ~reader.stale => written # Absent /\ Len(value) <= reader.room

ValueInv == ValueParts /\ SizeKnown

\* The buffer of a read: the value, and zeros behind it.
LEMMA ZeroedCells ==
  ASSUME NEW cells \in Seq(Nat), NEW room \in Nat, Len(cells) <= room
  PROVE  /\ Zeroed(cells, room) \in Seq(Nat) /\ Len(Zeroed(cells, room)) = room
         /\ \A i \in 1 .. Len(cells) : Zeroed(cells, room)[i] = cells[i]
         /\ \A i \in Len(cells) + 1 .. room : Zeroed(cells, room)[i] = Nul
         /\ \E t \in Seq(Nat) : Zeroed(cells, room) = cells \o t
<1> DEFINE n == Len(cells)
           t == [i \in 1 .. room - n |-> Nul]
<1>1. n \in Nat /\ room - n \in Nat
  BY LenProperties
<1>2. t \in Seq(Nat) /\ Len(t) = room - n /\ \A i \in 1 .. room - n : t[i] = Nul
  <2> HIDE DEF n
  <2> QED
    BY <1>1 DEF Nul
<1>3. Zeroed(cells, room) = cells \o t
  BY DEF Zeroed
<1> HIDE DEF t
<1>4. /\ cells \o t \in Seq(Nat) /\ Len(cells \o t) = n + (room - n)
      /\ \A i \in 1 .. n + (room - n) : (cells \o t)[i] = IF i <= n THEN cells[i] ELSE t[i - n]
  BY <1>2, ConcatProperties
<1> HIDE DEF n
<1>5. /\ n + (room - n) = room /\ \A i \in 1 .. n : i \in 1 .. room /\ i <= n
      /\ \A i \in n + 1 .. room : i \in 1 .. room /\ ~ (i <= n) /\ i - n \in 1 .. room - n
  BY <1>1 DEF n
<1> QED
  BY <1>2, <1>3, <1>4, <1>5 DEF n

\* A text read from such a buffer is the text.
LEMMA PaddedText ==
  ASSUME NEW t \in Strs, NEW room \in Nat, Len(Append(t, Nul)) <= room
  PROVE  LET z == Zeroed(Append(t, Nul), room) IN SubSeq(z, 1, StringLength(z)) = t
<1> DEFINE cells == Append(t, Nul)
           z == Zeroed(cells, room)
           n == Len(t)
           zeros == {i \in 1 .. Len(z) : z[i] = Nul}
<1>1. t \in Seq(Nat) /\ n \in Nat /\ \A i \in 1 .. n : t[i] \in Characters
  <2>1. t \in Seq(Characters) /\ Characters \subseteq Nat
    BY DEF Strs, Characters
  <2> QED
    BY <2>1, SeqMonotonic, LenProperties, ElementOfSeq
<1>2. /\ cells \in Seq(Nat) /\ Len(cells) = n + 1 /\ cells[n + 1] = Nul
      /\ \A i \in 1 .. n : cells[i] = t[i]
  BY <1>1 DEF Nul
<1> HIDE DEF cells
<1>3. z \in Seq(Nat) /\ Len(z) = room /\ \A i \in 1 .. n + 1 : z[i] = cells[i]
  BY <1>2, ZeroedCells DEF cells
<1> HIDE DEF z
<1>4. n + 1 <= room
  BY <1>2 DEF cells
<1>5. z[n + 1] = Nul /\ \A i \in 1 .. n : z[i] = t[i] /\ z[i] # Nul
  <2> HIDE DEF n
  <2>1. n + 1 \in 1 .. n + 1 /\ \A i \in 1 .. n : i \in 1 .. n + 1
    BY <1>1
  <2> QED
    BY <1>1, <1>2, <1>3, <2>1 DEF Characters
<1>6. StringEnd(z, 1) = n + 1
  <2>1. StringEnd(z, 1) = Min(zeros)
    BY DEF StringEnd
  <2>2. zeros \in SUBSET Nat /\ n + 1 \in zeros
    <3> HIDE DEF n
    <3> QED
      BY <1>1, <1>3, <1>4, <1>5
  <2> DEFINE e == Min(zeros)
  <2>3. e \in zeros /\ e <= n + 1
    <3> HIDE DEF zeros, n
    <3> QED
      BY <2>2, MinIsMember
  <2>4. e \in 1 .. Len(z) /\ z[e] = Nul
    BY <2>3
  <2> HIDE DEF e, zeros, n
  <2>5. ~ (e \in 1 .. n)
    BY <1>5, <2>4
  <2>6. e = n + 1
    BY <1>1, <2>3, <2>4, <2>5
  <2> QED
    BY <2>1, <2>6 DEF e
<1>7. StringLength(z) = n
  <2> HIDE DEF n
  <2> QED
    BY <1>1, <1>6 DEF StringLength
<1>8. SubSeq(z, 1, n) = t
  <2>1. \A i \in 1 .. n : z[i] \in Nat
    BY <1>1, <1>5 DEF Characters
  <2>2. /\ SubSeq(z, 1, n) \in Seq(Nat) /\ Len(SubSeq(z, 1, n)) = IF 1 <= n THEN n - 1 + 1 ELSE 0
        /\ \A i \in 1 .. n - 1 + 1 : SubSeq(z, 1, n)[i] = z[1 + i - 1]
    <3> HIDE DEF n
    <3> QED
      BY <1>1, <2>1, SubSeqProperties
  <2> DEFINE m == n
             y == SubSeq(z, 1, n)
  <2> HIDE DEF m, y
  <2>3. m \in Nat /\ m = Len(t) /\ y \in Seq(Nat) /\ Len(y) = (IF 1 <= m THEN m - 1 + 1 ELSE 0)
        /\ \A i \in 1 .. m - 1 + 1 : y[i] = z[1 + i - 1]
    BY <1>1, <2>2 DEF m, y
  <2>4. Len(y) = m /\ \A i \in 1 .. m : i \in 1 .. m - 1 + 1 /\ 1 + i - 1 = i
    BY <2>3
  <2>5. \A i \in 1 .. m : y[i] = t[i]
    BY <1>5, <2>3, <2>4
  <2>6. y = t
    BY <1>1, <2>3, <2>4, <2>5, SeqEqual
  <2> QED
    BY <2>6 DEF y
<1> QED
  BY <1>7, <1>8 DEF z, cells

\* A list read from such a buffer is what it can carry, and all of that is stored.
LEMMA PaddedMulti ==
  ASSUME NEW list \in Seq(Strs), NEW room \in Nat, Len(ListToMulti(Carried(list))) <= room
  PROVE  MultiToList(Zeroed(ListToMulti(Carried(list)), room)) = Carried(list)
<1> DEFINE c == Carried(list)
           flat == FlattenSeq(Ended(c))
           cells == ListToMulti(c)
           z == Zeroed(cells, room)
<1>1. c \in Seq(Strs) /\ \A i \in 1 .. Len(c) : c[i] # <<>>
  BY MultiBegins
<1> HIDE DEF c
<1>2. flat \in Seq(Nat) /\ cells = flat \o <<Nul>> /\ WellEnded(cells) /\ cells \in Seq(Nat)
  BY <1>1, MultiCells DEF WellEnded
<1> HIDE DEF flat, cells
<1>3. /\ z \in Seq(Nat) /\ Len(z) = room /\ \A i \in 1 .. Len(cells) : z[i] = cells[i]
      /\ \A i \in Len(cells) + 1 .. room : z[i] = Nul
  BY <1>2, ZeroedCells DEF cells, c
<1> HIDE DEF z
<1> DEFINE l == Len(flat)
           n == Len(cells)
<1>4. /\ l \in Nat /\ n = l + 1 /\ cells[l + 1] = Nul /\ \A i \in 1 .. l : cells[i] = flat[i]
  BY <1>2 DEF Nul
<1>5. n <= room
  BY DEF cells, c
<1>6. cells[n] = Nul /\ (n > 1 => cells[n - 1] = Nul)
  BY <1>2 DEF WellEnded
<1> HIDE DEF l, n
<1>7. l < Len(z) /\ z[l + 1] = Nul /\ \A i \in 1 .. l : z[i] = flat[i]
  <2>1. l + 1 \in 1 .. n /\ \A i \in 1 .. l : i \in 1 .. n
    BY <1>4
  <2> QED
    BY <1>3, <1>4, <1>5, <2>1 DEF n
<1>8. WellEnded(z)
  <2>1. Len(z) >= 1 /\ room \in Nat
    BY <1>3, <1>4, <1>5
  <2>2. z[room] = Nul
    <3>1. CASE room = n
      <4>1. n \in 1 .. n
        BY <1>4
      <4> QED
        BY <1>3, <1>6, <3>1, <4>1 DEF n
    <3>2. CASE room # n
      <4>1. room \in n + 1 .. room
        BY <1>4, <1>5, <3>2
      <4> QED
        BY <1>3, <4>1 DEF n
    <3> QED
      BY <3>1, <3>2
  <2>3. ASSUME room > 1 PROVE z[room - 1] = Nul
    <3>1. CASE room = n
      <4>1. n - 1 \in 1 .. n /\ n > 1
        BY <1>4, <2>3, <3>1
      <4> QED
        BY <1>3, <1>6, <3>1, <4>1 DEF n
    <3>2. CASE room = n + 1
      <4>1. room - 1 = n /\ n \in 1 .. n
        BY <1>4, <3>2
      <4> QED
        BY <1>3, <1>6, <4>1 DEF n
    <3>3. CASE room # n /\ room # n + 1
      <4>1. room - 1 \in n + 1 .. room
        BY <1>4, <1>5, <3>3
      <4> QED
        BY <1>3, <4>1 DEF n
    <3> QED
      BY <3>1, <3>2, <3>3
  <2> QED
    BY <1>3, <2>1, <2>2, <2>3 DEF WellEnded
<1>9. MultiToList(z) = c
  BY <1>1, <1>7, <1>8, MultiReads DEF l, flat
<1> QED
  BY <1>9 DEF z, cells, c

LEMMA MultiStored ==
  ASSUME NEW list \in Seq(Strs)
  PROVE  LET stored == ListToMulti(Carried(list)) IN
         /\ Len(stored) \in Nat /\ Len(stored) >= 1
         /\ SubSeq(ListToMulti(list), 1, Len(stored)) = stored
<1> DEFINE c == Carried(list)
           flat == FlattenSeq(Ended(c))
           cells == ListToMulti(list)
           stored == ListToMulti(c)
<1>1. c \in Seq(Strs)
  BY MultiBegins
<1>2. PICK rest \in Seq(Nat) : cells = flat \o rest /\ Len(rest) >= 1 /\ rest[1] = Nul
  BY MultiBegins
<1> HIDE DEF c
<1>3. flat \in Seq(Nat) /\ stored = flat \o <<Nul>>
  BY <1>1, MultiCells
<1> HIDE DEF flat, cells, stored
<1>4. /\ stored \in Seq(Nat) /\ Len(stored) = Len(flat) + 1 /\ Len(flat) \in Nat /\ Nul \in Nat
      /\ stored[Len(flat) + 1] = Nul /\ \A i \in 1 .. Len(flat) : stored[i] = flat[i]
  BY <1>3 DEF Nul
<1> DEFINE n == Len(stored)
           y == SubSeq(cells, 1, n)
<1>5. /\ cells \in Seq(Nat) /\ Len(cells) >= n /\ Len(cells) \in Nat
      /\ cells[n] = Nul /\ \A i \in 1 .. Len(flat) : cells[i] = flat[i]
  BY <1>2, <1>3, <1>4
<1>6. \A i \in 1 .. n : cells[i] = stored[i] /\ cells[i] \in Nat
  <2> DEFINE l == Len(flat)
  <2>1. n = l + 1 /\ l \in Nat /\ stored[n] = Nul /\ \A i \in 1 .. l : cells[i] = stored[i] /\ stored[i] = flat[i]
    BY <1>4, <1>5
  <2>2. \A i \in 1 .. n : i = n \/ i \in 1 .. l
    <3> HIDE DEF l, n
    <3> QED
      BY <2>1
  <2>3. \A i \in 1 .. n : stored[i] \in Nat
    BY <1>4, ElementOfSeq
  <2> HIDE DEF l, n
  <2> QED
    BY <1>5, <2>1, <2>2, <2>3
<1>7. n \in Nat /\ n >= 1
  BY <1>4
<1>8. y = stored
  <2> HIDE DEF n
  <2>1. /\ SubSeq(cells, 1, n) \in Seq(Nat) /\ Len(SubSeq(cells, 1, n)) = IF 1 <= n THEN n - 1 + 1 ELSE 0
        /\ \A i \in 1 .. n - 1 + 1 : SubSeq(cells, 1, n)[i] = cells[1 + i - 1]
    BY <1>6, <1>7, SubSeqProperties
  <2> HIDE DEF y
  <2>2. y \in Seq(Nat) /\ Len(y) = n /\ \A i \in 1 .. n : y[i] = cells[i]
    <3>1. \A i \in 1 .. n : i \in 1 .. n - 1 + 1 /\ 1 + i - 1 = i
      BY <1>7
    <3>2. (IF 1 <= n THEN n - 1 + 1 ELSE 0) = n
      BY <1>7
    <3> QED
      BY <2>1, <3>1, <3>2 DEF y
  <2> QED
    BY <1>4, <1>6, <2>2, SeqEqual DEF n
<1> QED
  BY <1>7, <1>8 DEF n, y, cells, stored, c

\* What is written is cells and never the default, and neither is what is kept of it.
LEMMA StoredCells ==
  ASSUME valueKind \in {"string", "multi", "binary", "fixed"}, NEW v \in Inputs
  PROVE  /\ v # Absent /\ Stored(v) # Absent /\ Stored(v) \in Seq(Nat) /\ Len(Stored(v)) \in Nat
         /\ valueKind = "string" => v \in Strs
         /\ valueKind = "multi" => v \in Seq(Strs)
         /\ valueKind \in {"binary", "fixed"} => v \in Seq(Nat)
<1>1. CASE valueKind = "string"
  <2>1. v \in Seq(Characters) /\ Characters \subseteq Nat
    BY <1>1, ValueAssumption DEF Inputs, Characters
  <2>2. v \in Seq(Nat) /\ Nul \in Nat
    BY <2>1, SeqMonotonic DEF Nul
  <2>3. Append(v, Nul) \in Seq(Nat)
    BY <2>2
  <2> QED
    BY <1>1, <2>1, <2>2, <2>3, ValueAssumption, LenProperties DEF Stored, Strs
<1>2. CASE valueKind = "multi"
  <2>1. v \in Seq(Strs) /\ v # Absent
    BY <1>2, ValueAssumption DEF Inputs, Strs
  <2>2. Carried(v) \in Seq(Strs)
    BY <2>1, CarriedIsPrefix
  <2>3. ListToMulti(Carried(v)) \in Seq(Nat)
    BY <2>2, MultiCells DEF WellEnded
  <2> QED
    BY <1>2, <2>1, <2>3, ValueAssumption, LenProperties DEF Stored
<1>3. CASE valueKind = "binary"
  <2>1. v \in Seq(Nat)
    BY <1>3, ValueAssumption DEF Inputs
  <2> QED
    BY <1>3, <2>1, ValueAssumption, LenProperties DEF Stored
<1>4. CASE valueKind = "fixed"
  <2>1. PICK n \in {1, 4} : v = [i \in 1 .. n |-> n]
    BY <1>4 DEF Inputs, Sizes
  <2>2. v \in Seq(Nat)
    BY <2>1
  <2> QED
    BY <1>4, <2>2, ValueAssumption, LenProperties DEF Stored
<1> QED
  BY <1>1, <1>2, <1>3, <1>4

\* A sequence up to its length is the sequence.
LEMMA WholeSubSeq ==
  ASSUME NEW v \in Seq(Nat), NEW n \in Nat, n = Len(v)
  PROVE  SubSeq(v, 1, n) = v
<1>1. \A i \in 1 .. n : v[i] \in Nat
  BY ElementOfSeq
<1> DEFINE y == SubSeq(v, 1, n)
<1>2. /\ y \in Seq(Nat) /\ Len(y) = IF 1 <= n THEN n - 1 + 1 ELSE 0
      /\ \A i \in 1 .. n - 1 + 1 : y[i] = v[1 + i - 1]
  BY <1>1, SubSeqProperties
<1> HIDE DEF y
<1>3. Len(y) = n /\ \A i \in 1 .. n : i \in 1 .. n - 1 + 1 /\ 1 + i - 1 = i
  BY <1>2
<1>4. y = v
  BY <1>2, <1>3, SeqEqual
<1> QED
  BY <1>4 DEF y

\* The functions of both widths store what is written as one and the same cells.
LEMMA WriteStores ==
  ASSUME valueKind \in {"string", "multi", "binary", "fixed"}, NEW v \in Inputs, WriteA(v) \/ WriteW(v)
  PROVE  /\ value' = Stored(v) /\ written' = v
         /\ reader' = [reader EXCEPT !.stale = TRUE]
         /\ UNCHANGED <<valueKind, readResult>>
<1>1. written' = v /\ reader' = [reader EXCEPT !.stale = TRUE] /\ UNCHANGED <<valueKind, readResult>>
  BY DEF WriteA, WriteW, Store
<1>2. CASE valueKind = "string"
  <2> DEFINE n == Len(v)
             cells == Append(v, Nul)
  <2>1. v \in Seq(Nat) /\ n \in Nat
    <3>1. v \in Seq(Characters) /\ Characters \subseteq Nat
      BY <1>2, StoredCells DEF Strs, Characters
    <3> QED
      BY <3>1, SeqMonotonic, LenProperties
  <2>2. value' = SubSeq(cells, 1, (n + 1) \div 1) \/ value' = SubSeq(cells, 1, (2 * (n + 1)) \div 2)
    BY <1>2 DEF WriteA, WriteW, Store, CellSize, CharSize, IsText
  <2>3. cells \in Seq(Nat) /\ Len(cells) = n + 1
    BY <2>1 DEF Nul
  <2> HIDE DEF n, cells
  <2>4. (n + 1) \div 1 = n + 1 /\ (2 * (n + 1)) \div 2 = n + 1 /\ n + 1 \in Nat
    BY <2>1
  <2>5. SubSeq(cells, 1, n + 1) = cells
    BY <2>3, <2>4, WholeSubSeq
  <2>6. value' = cells
    BY <2>2, <2>4, <2>5
  <2> QED
    BY <1>1, <1>2, <2>6 DEF Stored, cells
<1>3. CASE valueKind = "multi"
  <2> DEFINE cells == ListToMulti(v)
             stored == ListToMulti(Carried(v))
             n == Len(stored)
  <2>1. v \in Seq(Strs)
    BY <1>3, StoredCells
  <2>2. n \in Nat /\ n >= 1 /\ SubSeq(cells, 1, n) = stored
    BY <2>1, MultiStored
  <2>3. MultiToList(cells) = Carried(v)
    BY <2>1, MultiStringsKept DEF MultiStringKeeps
  <2>4. SizeOfMultiA(cells) = n - 1 /\ SizeOfMultiW(cells) = 2 * (n - 1)
    BY <2>3 DEF SizeOfMultiA, SizeOfMultiW
  <2>5. \/ value' = SubSeq(cells, 1, (SizeOfMultiA(cells) + 1) \div 1)
        \/ value' = SubSeq(cells, 1, (SizeOfMultiW(cells) + 2) \div 2)
    BY <1>3 DEF WriteA, WriteW, Store, CellSize, CharSize, IsText
  <2> HIDE DEF n, cells, stored
  <2>6. (n - 1 + 1) \div 1 = n /\ (2 * (n - 1) + 2) \div 2 = n
    BY <2>2
  <2>7. value' = stored
    BY <2>2, <2>4, <2>5, <2>6
  <2> QED
    BY <1>1, <1>3, <2>7 DEF Stored, stored
<1>4. CASE valueKind \in {"binary", "fixed"}
  <2> DEFINE n == Len(v)
  <2>1. v \in Seq(Nat) /\ n \in Nat
    BY <1>4, StoredCells, LenProperties
  <2>2. value' = SubSeq(v, 1, n \div 1)
    BY <1>4 DEF WriteA, WriteW, Store, CellSize, IsText
  <2>3. SubSeq(v, 1, n) = v
    BY <2>1, WholeSubSeq
  <2> HIDE DEF n
  <2>4. n \div 1 = n
    BY <2>1
  <2>5. value' = v
    BY <2>2, <2>3, <2>4
  <2> QED
    BY <1>1, <1>4, <2>5 DEF Stored
<1> QED
  BY <1>2, <1>3, <1>4

\* Nothing is written at first.
LEMMA InitValueInv == ValueInit => ValueInv
  BY DEF ValueInit, ValueInv, ValueParts, SizeKnown

\* Writing, of either width, keeps the invariant; a size that was asked for is stale then.
LEMMA WriteValueInv ==
  ASSUME ValueInv, NEW v \in Inputs, WriteA(v) \/ WriteW(v)
  PROVE  ValueInv'
<1>1. /\ value' = Stored(v) /\ written' = v /\ reader' = [reader EXCEPT !.stale = TRUE]
      /\ UNCHANGED <<valueKind, readResult>>
  BY WriteStores DEF ValueInv, ValueParts
<1>2. Inputs' = Inputs /\ Stored(v)' = Stored(v)
  BY <1>1 DEF Inputs, Stored
<1>3. v # Absent
  BY StoredCells DEF ValueInv, ValueParts
<1>4. reader' \in [at : {"idle", "sized"}, wide : BOOLEAN, room : Nat, stale : BOOLEAN]
      /\ reader'.stale /\ reader'.at = reader.at
  BY <1>1 DEF ValueInv, ValueParts
<1>5. ValueParts'
  BY <1>1, <1>2, <1>3, <1>4 DEF ValueParts, ValueInv, Stored
<1>6. SizeKnown'
  BY <1>1, <1>4 DEF SizeKnown, ValueInv
<1> QED
  BY <1>5, <1>6 DEF ValueInv

\* A deletion by this program or another one keeps the invariant.
LEMMA DeleteValueInv ==
  ASSUME ValueInv, DeleteValue
  PROVE  ValueInv'
<1>1. reader' \in [at : {"idle", "sized"}, wide : BOOLEAN, room : Nat, stale : BOOLEAN]
      /\ reader'.stale /\ reader'.at = reader.at /\ UNCHANGED valueKind
  BY DEF ValueInv, ValueParts, DeleteValue
<1>2. ValueParts'
  BY <1>1 DEF ValueParts, ValueInv, DeleteValue, Inputs
<1>3. SizeKnown'
  BY <1>1 DEF SizeKnown, ValueInv
<1> QED
  BY <1>2, <1>3 DEF ValueInv

\* A read of a fixed size keeps the invariant: no size was asked for.
LEMMA ReadFixedInv ==
  ASSUME ValueInv, NEW size \in Sizes, ReadFixed(size)
  PROVE  ValueInv'
<1>1. reader' \in [at : {"idle", "sized"}, wide : BOOLEAN, room : Nat, stale : BOOLEAN]
      /\ reader'.at = "idle" /\ UNCHANGED <<valueKind, value, written>>
  BY DEF ValueInv, ValueParts, ReadFixed
<1>2. ValueParts'
  BY <1>1 DEF ValueParts, ValueInv, Inputs, Stored
<1> QED
  BY <1>1, <1>2 DEF ValueInv, SizeKnown

\* Asking for the size gives a buffer that the value fits.
LEMMA GetDataSizeInv ==
  ASSUME ValueInv, NEW wide \in BOOLEAN, GetDataSize(wide)
  PROVE  ValueInv'
<1>1. UNCHANGED <<valueKind, value, written>> /\ valueKind # "fixed" /\ reader.at = "idle"
  BY DEF GetDataSize
<1>2. CASE value = Absent \/ value = <<>>
  <2>1. reader' = [reader EXCEPT !.stale = FALSE]
    BY <1>2 DEF GetDataSize
  <2>2. reader' \in [at : {"idle", "sized"}, wide : BOOLEAN, room : Nat, stale : BOOLEAN]
        /\ reader'.at = "idle"
    BY <1>1, <2>1 DEF ValueInv, ValueParts
  <2> QED
    BY <1>1, <2>2 DEF ValueInv, ValueParts, SizeKnown, Inputs, Stored
<1>3. CASE value # Absent /\ value # <<>>
  <2> DEFINE n == Len(value)
             room == (n * CellSize(wide) + CharSize(wide)) \div CellSize(wide)
  <2>1. written # Absent /\ n \in Nat
    BY <1>3, StoredCells DEF ValueInv, ValueParts
  <2>2. reader' = [at |-> "sized", wide |-> wide, stale |-> FALSE, room |-> room]
    BY <1>3 DEF GetDataSize
  <2>3. \/ CellSize(wide) = 1 /\ CharSize(wide) \in {1, 2}
        \/ CellSize(wide) = 2 /\ CharSize(wide) = 2
    BY DEF CellSize, CharSize
  <2>4. room \in Nat /\ n <= room
    <3> HIDE DEF n
    <3>1. /\ (n * 1 + 1) \div 1 = n + 1 /\ (n * 1 + 2) \div 1 = n + 2
          /\ (n * 2 + 2) \div 2 = n + 1
      BY <2>1
    <3>2. room = n + 1 \/ room = n + 2
      BY <2>3, <3>1
    <3> HIDE DEF room
    <3> QED
      BY <2>1, <3>2
  <2> HIDE DEF room
  <2>5. /\ reader' \in [at : {"idle", "sized"}, wide : BOOLEAN, room : Nat, stale : BOOLEAN]
        /\ reader'.room = room
    BY <2>2, <2>4
  <2>6. ValueParts'
    BY <1>1, <2>5 DEF ValueInv, ValueParts, Inputs, Stored
  <2>7. SizeKnown'
    BY <1>1, <2>1, <2>4, <2>5 DEF SizeKnown
  <2> QED
    BY <2>6, <2>7 DEF ValueInv
<1> QED
  BY <1>2, <1>3

\* The end of a read keeps the invariant.
LEMMA ReadSizedInv ==
  ASSUME ValueInv, ReadSized
  PROVE  ValueInv'
<1>1. reader' \in [at : {"idle", "sized"}, wide : BOOLEAN, room : Nat, stale : BOOLEAN]
      /\ reader'.at = "idle" /\ UNCHANGED <<valueKind, value, written>>
  BY DEF ValueInv, ValueParts, ReadSized
<1>2. ValueParts'
  BY <1>1 DEF ValueParts, ValueInv, Inputs, Stored
<1> QED
  BY <1>1, <1>2 DEF ValueInv, SizeKnown

\* Each step keeps the invariant.
LEMMA NextValueInv == ValueInv /\ [ValueNext]_valueVars => ValueInv'
<1> SUFFICES ASSUME ValueInv, [ValueNext]_valueVars PROVE ValueInv'
  OBVIOUS
<1>1. CASE \E v \in Inputs : WriteA(v) \/ WriteW(v)
  BY <1>1, WriteValueInv
<1>2. CASE DeleteValue
  BY <1>2, DeleteValueInv
<1>3. CASE \E size \in Sizes : ReadFixed(size)
  BY <1>3, ReadFixedInv
<1>4. CASE \E wide \in BOOLEAN : GetDataSize(wide)
  BY <1>4, GetDataSizeInv
<1>5. CASE ReadSized
  BY <1>5, ReadSizedInv
<1>6. CASE UNCHANGED valueVars
  BY <1>6 DEF valueVars, ValueInv, ValueParts, SizeKnown, Inputs, Stored
<1> QED
  BY <1>1, <1>2, <1>3, <1>4, <1>5, <1>6 DEF ValueNext

\* In every behaviour the registry has what was written, in cells of either width.
LEMMA ValueInvariant == ValueSpec => []ValueInv
<1>1. ValueInit => ValueInv
  BY InitValueInv
<1>2. ValueInv /\ [ValueNext]_valueVars => ValueInv'
  BY NextValueInv
<1> QED
  BY <1>1, <1>2, PTL DEF ValueSpec

\* A read that ends finds what is there, or the size it asked for is stale.
LEMMA ReadSizedReads ==
  ASSUME ValueInv, ReadSized
  PROVE  IF readResult' = Absent THEN written = Absent \/ reader.stale
         ELSE CASE valueKind = "string" -> readResult' = written
                [] valueKind = "multi"  -> readResult' = Carried(written)
                [] valueKind = "binary" -> IsPrefix(written, readResult')
<1>1. /\ reader.at = "sized" /\ valueKind \in {"string", "multi", "binary"} /\ reader.room \in Nat
      /\ (~ reader.stale => written # Absent /\ Len(value) <= reader.room)
      /\ (written # Absent => written \in Inputs /\ value = Stored(written))
      /\ (written = Absent => value = Absent)
  BY DEF ReadSized, ValueInv, ValueParts, SizeKnown
<1>2. CASE value = Absent \/ Len(value) > reader.room
  <2>1. readResult' = Absent
    BY <1>2 DEF ReadSized
  <2>2. written = Absent \/ reader.stale
    <3> SUFFICES ASSUME written # Absent, ~ reader.stale PROVE FALSE
      OBVIOUS
    <3> DEFINE n == Len(value)
               room == reader.room
    <3>1. value # Absent /\ n \in Nat
      BY <1>1, StoredCells
    <3>2. n <= room /\ room \in Nat /\ n > room
      BY <1>1, <1>2, <3>1
    <3> HIDE DEF n, room
    <3> QED
      BY <3>1, <3>2
  <2> QED
    BY <2>1, <2>2
<1>3. CASE ~ (value = Absent \/ Len(value) > reader.room)
  <2> DEFINE room == reader.room
  <2>1. written # Absent /\ written \in Inputs /\ value = Stored(written)
    BY <1>1, <1>3
  <2>2. readResult' = Decode(Zeroed(value, room))
    BY <1>3 DEF ReadSized
  <2>3. value \in Seq(Nat) /\ Len(value) \in Nat
    BY <1>1, <2>1, StoredCells
  <2>4. Len(value) <= room /\ room \in Nat
    <3> DEFINE n == Len(value)
    <3>1. n \in Nat /\ room \in Nat /\ ~ (n > room)
      BY <1>1, <1>3, <2>3
    <3> HIDE DEF n, room
    <3>2. n <= room
      BY <3>1
    <3> QED
      BY <3>1, <3>2 DEF n
  <2> HIDE DEF room
  <2>5. CASE valueKind = "string"
    <3>1. written \in Strs /\ value = Append(written, Nul)
      BY <2>1, <2>5, StoredCells DEF Stored
    <3>2. LET z == Zeroed(value, room) IN SubSeq(z, 1, StringLength(z)) = written
      BY <2>4, <3>1, PaddedText
    <3>3. readResult' = written
      BY <2>2, <2>5, <3>2 DEF Decode
    <3>4. readResult' # Absent
      BY <2>1, <3>3
    <3> QED
      BY <2>5, <3>3, <3>4
  <2>6. CASE valueKind = "multi"
    <3>1. written \in Seq(Strs) /\ value = ListToMulti(Carried(written))
      BY <2>1, <2>6, StoredCells DEF Stored
    <3>2. MultiToList(Zeroed(value, room)) = Carried(written)
      BY <2>4, <3>1, PaddedMulti
    <3>3. readResult' = Carried(written)
      BY <2>2, <2>6, <3>2 DEF Decode
    <3>4. readResult' # Absent
      <4>1. Carried(written) \in Seq(Strs)
        BY <3>1, CarriedIsPrefix
      <4> QED
        BY <3>3, <4>1, ValueAssumption DEF Strs
    <3> QED
      BY <2>6, <3>3, <3>4
  <2>7. CASE valueKind = "binary"
    <3>1. written \in Seq(Nat) /\ value = written
      BY <2>1, <2>7, StoredCells DEF Stored
    <3> DEFINE z == Zeroed(value, room)
    <3>2. /\ z \in Seq(Nat) /\ Len(z) = room /\ \A i \in 1 .. Len(value) : z[i] = value[i]
      BY <2>3, <2>4, ZeroedCells
    <3> HIDE DEF z
    <3>3. readResult' = z
      BY <2>2, <2>7 DEF Decode, z
    <3>4. readResult' # Absent
      BY <3>2, <3>3, ValueAssumption
    <3>5. IsPrefix(written, z)
      <4> DEFINE n == Len(written)
      <4>1. /\ n \in Nat /\ n <= Len(z) /\ Len(z) \in Nat
            /\ \A i \in 1 .. n : z[i] = written[i] /\ written[i] \in Nat
        BY <2>3, <2>4, <3>1, <3>2, ElementOfSeq
      <4> DEFINE y == SubSeq(z, 1, n)
      <4>2. /\ y \in Seq(Nat) /\ Len(y) = IF 1 <= n THEN n - 1 + 1 ELSE 0
            /\ \A i \in 1 .. n - 1 + 1 : y[i] = z[1 + i - 1]
        <5>1. \A i \in 1 .. n : z[i] \in Nat
          BY <4>1
        <5> HIDE DEF n
        <5> QED
          BY <4>1, <5>1, SubSeqProperties
      <4> HIDE DEF y, n
      <4>3. Len(y) = n /\ \A i \in 1 .. n : i \in 1 .. n - 1 + 1 /\ 1 + i - 1 = i
        BY <4>1, <4>2
      <4>4. \A i \in 1 .. n : y[i] = written[i]
        BY <4>1, <4>2, <4>3
      <4>5. n = Len(written)
        BY DEF n
      <4>6. y = written
        BY <3>1, <4>2, <4>3, <4>4, <4>5, SeqEqual
      <4> QED
        BY <4>1, <4>5, <4>6 DEF IsPrefix, y
    <3> QED
      BY <2>7, <3>3, <3>4, <3>5
  <2> QED
    BY <1>1, <2>5, <2>6, <2>7
<1> QED
  BY <1>2, <1>3

\* A read gives the text, the list as far as a list can be carried, or the data that were
\* written, whole, for texts, lists and data of any length and for any writing and deleting
\* in between; the default only when there is nothing, or the size it asked for is stale.
THEOREM RegistryReadsWhole == ValueSpec => ReadsWhole
<1> DEFINE A == (reader.at = "sized" /\ reader'.at = "idle") =>
                  IF readResult' = Absent THEN written = Absent \/ reader.stale
                  ELSE CASE valueKind = "string" -> readResult' = written
                         [] valueKind = "multi"  -> readResult' = Carried(written)
                         [] valueKind = "binary" -> IsPrefix(written, readResult')
<1>1. ValueInv /\ [ValueNext]_valueVars => [A]_valueVars
  <2> SUFFICES ASSUME ValueInv, ValueNext, reader.at = "sized", reader'.at = "idle" PROVE A
    BY DEF valueVars
  <2>1. CASE \E v \in Inputs : WriteA(v) \/ WriteW(v)
    <3>1. PICK v \in Inputs : WriteA(v) \/ WriteW(v)
      BY <2>1
    <3>2. reader' = [reader EXCEPT !.stale = TRUE]
      BY <3>1, WriteStores DEF ValueInv, ValueParts
    <3>3. reader'.at = reader.at
      BY <3>2 DEF ValueInv, ValueParts
    <3> QED
      BY <3>3
  <2>2. CASE DeleteValue
    <3>1. reader'.at = reader.at
      BY <2>2 DEF DeleteValue, ValueInv, ValueParts
    <3> QED
      BY <3>1
  <2>3. CASE \E size \in Sizes : ReadFixed(size)
    BY <2>3 DEF ReadFixed
  <2>4. CASE \E wide \in BOOLEAN : GetDataSize(wide)
    BY <2>4 DEF GetDataSize
  <2>5. CASE ReadSized
    BY <2>5, ReadSizedReads
  <2> QED
    BY <2>1, <2>2, <2>3, <2>4, <2>5 DEF ValueNext
<1>2. ReadsWhole <=> [][A]_valueVars
  BY DEF ReadsWhole
<1> HIDE DEF A
<1> QED
  BY <1>1, <1>2, ValueInvariant, PTL DEF ValueSpec

\* The value is gone exactly when nothing of it was written, and nobody asks for the size
\* of a value of a fixed one.
THEOREM RegistryValueTyped == ValueSpec => []ValueTypeOK
<1>1. ValueInv => ValueTypeOK
  <2> SUFFICES ASSUME ValueInv PROVE ValueTypeOK
    OBVIOUS
  <2>1. (value = Absent) <=> (written = Absent)
    BY StoredCells DEF ValueInv, ValueParts
  <2> QED
    BY <2>1 DEF ValueTypeOK, ValueInv, ValueParts, SizeKnown
<1> QED
  BY <1>1, ValueInvariant, PTL

-----------------------------------------------------------------------------
(* Picking from sequences *)

\* The places the members of a sequence were picked from, in order: those asked for, and no other.
FromPlaces(w, s, n, places, at) ==
  /\ at \in [1 .. Len(w) -> 1 .. n]
  /\ \A k \in 1 .. Len(w) : at[k] \in places /\ w[k] = s[at[k]]
  /\ \A k \in 2 .. Len(w) : at[k - 1] < at[k]
  /\ \A i \in 1 .. n : i \in places => \E k \in 1 .. Len(w) : at[k] = i

\* One more place is asked for, or not.
LEMMA OneMorePlace ==
  ASSUME NEW A, NEW s, NEW n \in Nat, NEW places, NEW w \in Seq(A), NEW at, FromPlaces(w, s, n, places, at),
         NEW x \in A, x = s[n + 1]
  PROVE  /\ n + 1 \in places =>
              \E more : Append(w, x) \in Seq(A) /\ FromPlaces(Append(w, x), s, n + 1, places, more)
         /\ n + 1 \notin places => FromPlaces(w, s, n + 1, places, at)
<1> DEFINE m == Len(w)
           u == Append(w, x)
           more == [k \in 1 .. m + 1 |-> IF k <= m THEN at[k] ELSE n + 1]
<1>1. m \in Nat /\ u \in Seq(A) /\ Len(u) = m + 1 /\ u[m + 1] = x /\ \A k \in 1 .. m : u[k] = w[k]
  BY LenProperties, AppendProperties
<1>2. /\ at \in [1 .. m -> 1 .. n] /\ \A k \in 1 .. m : at[k] \in places /\ w[k] = s[at[k]]
      /\ \A k \in 2 .. m : at[k - 1] < at[k]
      /\ \A i \in 1 .. n : i \in places => \E k \in 1 .. m : at[k] = i
  BY DEF FromPlaces
<1> HIDE DEF m, u
<1>3. ASSUME n + 1 \in places PROVE FromPlaces(u, s, n + 1, places, more)
  <2>1. more \in [1 .. m + 1 -> 1 .. n + 1]
    BY <1>1, <1>2
  <2>2. (\A k \in 1 .. m : more[k] = at[k]) /\ more[m + 1] = n + 1
    BY <1>1
  <2> HIDE DEF more
  <2>3. \A k \in 1 .. m + 1 : k \in 1 .. m \/ k = m + 1
    BY <1>1
  <2>4. \A k \in 1 .. m + 1 : more[k] \in places /\ u[k] = s[more[k]]
    BY <1>1, <1>2, <1>3, <2>2, <2>3
  <2>5. ASSUME NEW k \in 2 .. m + 1 PROVE more[k - 1] < more[k]
    <3>1. CASE k \in 2 .. m
      <4>1. k \in 1 .. m /\ k - 1 \in 1 .. m
        BY <1>1, <3>1
      <4> QED
        BY <1>2, <2>2, <3>1, <4>1
    <3>2. CASE k = m + 1
      <4>1. m \in 1 .. m /\ k - 1 = m
        BY <1>1, <3>2
      <4>2. more[m] = at[m] /\ at[m] \in 1 .. n
        BY <1>2, <2>2, <4>1
      <4> QED
        BY <2>2, <3>2, <4>1, <4>2
    <3> QED
      BY <1>1, <3>1, <3>2
  <2>6. ASSUME NEW i \in 1 .. n + 1, i \in places PROVE \E k \in 1 .. m + 1 : more[k] = i
    <3>1. CASE i = n + 1
      <4>1. m + 1 \in 1 .. m + 1
        BY <1>1
      <4> QED
        BY <2>2, <3>1, <4>1
    <3>2. CASE i # n + 1
      <4>1. i \in 1 .. n
        BY <3>2
      <4>2. PICK k \in 1 .. m : at[k] = i
        BY <1>2, <2>6, <4>1
      <4>3. k \in 1 .. m + 1
        BY <1>1
      <4> QED
        BY <2>2, <4>2, <4>3
    <3> QED
      BY <3>1, <3>2
  <2> QED
    BY <1>1, <2>1, <2>4, <2>5, <2>6 DEF FromPlaces
<1>4. ASSUME n + 1 \notin places PROVE FromPlaces(w, s, n + 1, places, at)
  <2>1. at \in [1 .. m -> 1 .. n + 1]
    BY <1>2
  <2>2. \A i \in 1 .. n + 1 : i \in places => \E k \in 1 .. m : at[k] = i
    <3> TAKE i \in 1 .. n + 1
    <3> HAVE i \in places
    <3>1. i \in 1 .. n
      BY <1>4
    <3> QED
      BY <1>2, <3>1
  <2> QED
    BY <1>2, <2>1, <2>2 DEF FromPlaces, m
<1> QED
  BY <1>1, <1>3, <1>4 DEF u

\* What is picked of a sequence are its members at the places asked for, in their order.
LEMMA PickedIs ==
  ASSUME NEW A, NEW s \in Seq(A), NEW places
  PROVE  /\ Picked(s, places) \in Seq(A)
         /\ \E at : FromPlaces(Picked(s, places), s, Len(s), places, at)
<1> DEFINE n == Len(s)
           parts == [i \in DOMAIN s |-> IF i \in places THEN <<s[i]>> ELSE <<>>]
           AA == Seq(A)
<1>1. n \in Nat /\ DOMAIN s = 1 .. n /\ \A i \in 1 .. n : s[i] \in A
  BY LenProperties, ElementOfSeq
<1>2. parts \in Seq(AA) /\ Len(parts) = n /\ \A i \in 1 .. n : parts[i] = IF i \in places THEN <<s[i]>> ELSE <<>>
  <2>1. \A i \in 1 .. n : parts[i] = (IF i \in places THEN <<s[i]>> ELSE <<>>) /\ parts[i] \in AA
    BY <1>1
  <2>2. parts = [i \in 1 .. n |-> parts[i]]
    BY <1>1
  <2> HIDE DEF parts, AA, n
  <2>3. parts \in [1 .. n -> AA]
    BY <2>1, <2>2
  <2> QED
    BY <1>1, <2>1, <2>3
<1>3. Picked(s, places) = FlattenSeq(parts)
  BY DEF Picked
<1> HIDE DEF parts
<1> DEFINE F(k) == FlattenSeq(SubSeq(parts, 1, k))
           T == {k \in 0 .. n : F(k) \in Seq(A) /\ \E at : FromPlaces(F(k), s, k, places, at)}
<1>4. 0 \in T
  <2>1. F(0) = <<>>
    <3>1. SubSeq(parts, 1, 0) = <<>>
      BY SubSeqEmpty
    <3>2. FlattenSeq(<<>>) = <<>>
      BY DEF FlattenSeq
    <3> QED
      BY <3>1, <3>2
  <2> DEFINE at == [k \in 1 .. 0 |-> 1]
  <2>2. FromPlaces(<<>>, s, 0, places, at)
    <3>1. Len(<<>>) = 0 /\ 1 .. 0 = {} /\ 2 .. 0 = {}
      OBVIOUS
    <3>2. at \in [1 .. 0 -> 1 .. 0]
      BY <3>1
    <3> HIDE DEF at
    <3> QED
      BY <3>1, <3>2 DEF FromPlaces
  <2>3. <<>> \in Seq(A) /\ 0 \in 0 .. n
    BY <1>1
  <2> DEFINE w == F(0)
  <2>4. w = <<>>
    BY <2>1
  <2> HIDE DEF at, w
  <2>5. w \in Seq(A) /\ \E q : FromPlaces(w, s, 0, places, q)
    BY <2>2, <2>3, <2>4
  <2> QED
    BY <2>3, <2>5 DEF w
<1>5. ASSUME NEW k \in 0 .. (n - 1), k \in T PROVE k + 1 \in T
  <2> DEFINE q == k + 1
             w == F(k)
             x == SubSeq(parts, 1, k)
             y == parts[q]
  <2>1. k \in Nat /\ q \in 1 .. n /\ q - 1 = k /\ q \in 0 .. n /\ k \in 0 .. n
    BY <1>1
  <2>2. x \in Seq(AA) /\ y \in AA /\ SubSeq(parts, 1, q) = Append(x, y)
    <3> HIDE DEF q
    <3>1. k \in 1 - 1 .. Len(parts) /\ 1 \in 1 .. Len(parts) + 1 /\ q \in 1 .. Len(parts) /\ 1 \in 1 .. Len(parts)
      BY <1>1, <1>2, <2>1
    <3>2. x \in Seq(AA) /\ y \in AA
      BY <1>2, <3>1, PartOf, ElementOfSeq
    <3>3. SubSeq(parts, 1, q) = SubSeq(parts, 1, q - 1) \o <<y>>
      BY <1>2, <3>1, SubSeqRecursiveSecond
    <3> HIDE DEF x, y
    <3>4. Append(x, y) = x \o <<y>>
      BY <3>2, AppendIsConcat
    <3> QED
      BY <2>1, <3>2, <3>3, <3>4 DEF x
  <2>3. F(q) = w \o y
    <3> HIDE DEF x, y, q
    <3>1. FlattenSeq(Append(x, y)) = FlattenSeq(x) \o y
      BY <2>2, FlattenAppend
    <3> QED
      BY <2>2, <3>1 DEF x
  <2>4. w \in Seq(A) /\ \E at : FromPlaces(w, s, k, places, at)
    BY <1>5
  <2>5. s[q] \in A /\ y = IF q \in places THEN <<s[q]>> ELSE <<>>
    <3> HIDE DEF q
    <3> QED
      BY <1>1, <1>2, <2>1
  <2> HIDE DEF w, y
  <2>6. PICK at : FromPlaces(w, s, k, places, at)
    BY <2>4
  <2>7. /\ k + 1 \in places =>
              \E more : Append(w, s[q]) \in Seq(A) /\ FromPlaces(Append(w, s[q]), s, k + 1, places, more)
        /\ k + 1 \notin places => FromPlaces(w, s, k + 1, places, at)
    BY <2>1, <2>4, <2>5, <2>6, OneMorePlace
  <2>8. F(q) \in Seq(A) /\ \E more : FromPlaces(F(q), s, q, places, more)
    <3> DEFINE v == F(q)
               b == s[q]
    <3>1. v = w \o y
      BY <2>3
    <3> HIDE DEF v, b
    <3>2. CASE q \in places
      <4>1. y = <<b>> /\ b \in A
        BY <2>5, <3>2 DEF b
      <4>2. v = Append(w, b)
        BY <2>4, <3>1, <4>1, AppendIsConcat
      <4> QED
        BY <2>7, <3>2, <4>2 DEF v, b
    <3>3. CASE q \notin places
      <4>1. v = w
        BY <2>4, <2>5, <3>1, <3>3, ConcatEmptySeq
      <4>2. FromPlaces(v, s, q, places, at)
        BY <2>7, <3>3, <4>1
      <4>3. v \in Seq(A) /\ \E more : FromPlaces(v, s, q, places, more)
        BY <2>4, <4>1, <4>2
      <4> QED
        BY <4>3 DEF v
    <3> QED
      BY <3>2, <3>3
  <2> HIDE DEF F
  <2> QED
    BY <2>1, <2>8
<1>6. n \in T
  <2> HIDE DEF T
  <2>1. \A k \in 0 .. n : k \in T
    BY <1>1, <1>4, <1>5, IntervalInduction
  <2> QED
    BY <1>1, <2>1
<1>7. F(n) = FlattenSeq(parts)
  BY <1>2, SubSeqFull
<1> QED
  BY <1>3, <1>6, <1>7

\* The members of a flattened list are those of its parts.
LEMMA FlattenMembers ==
  ASSUME NEW B, NEW s \in Seq(Seq(B))
  PROVE  \A x : x \in ToSet(FlattenSeq(s)) <=> \E i \in 1 .. Len(s) : x \in ToSet(s[i])
<1> DEFINE n == Len(s)
           A == Seq(B)
           F(k) == FlattenSeq(SubSeq(s, 1, k))
           T == {k \in 0 .. n : /\ F(k) \in Seq(B)
                                /\ \A x : x \in ToSet(F(k)) <=> \E i \in 1 .. k : x \in ToSet(s[i])}
<1>1. n \in Nat
  BY LenProperties
<1>2. 0 \in T
  <2>1. F(0) = <<>>
    <3>1. SubSeq(s, 1, 0) = <<>>
      BY SubSeqEmpty
    <3>2. FlattenSeq(<<>>) = <<>>
      BY DEF FlattenSeq
    <3> QED
      BY <3>1, <3>2
  <2>2. ToSet(<<>>) = {} /\ 1 .. 0 = {} /\ <<>> \in Seq(B)
    BY DEF ToSet
  <2> DEFINE w == F(0)
  <2>3. w = <<>>
    BY <2>1
  <2> HIDE DEF w
  <2>4. w \in Seq(B) /\ \A x : x \in ToSet(w) <=> \E i \in 1 .. 0 : x \in ToSet(s[i])
    BY <2>2, <2>3
  <2>5. 0 \in 0 .. n
    BY <1>1
  <2> QED
    BY <2>4, <2>5 DEF w
<1>3. ASSUME NEW k \in 0 .. (n - 1), k \in T PROVE k + 1 \in T
  <2> DEFINE q == k + 1
             w == F(k)
             p == SubSeq(s, 1, k)
             y == s[q]
             v == F(q)
  <2>1. k \in Nat /\ q \in 1 .. n /\ q - 1 = k /\ q \in 0 .. n /\ k \in 0 .. n
    BY <1>1
  <2>2. p \in Seq(A) /\ y \in A /\ SubSeq(s, 1, q) = Append(p, y)
    <3> HIDE DEF q
    <3>1. k \in 1 - 1 .. n /\ 1 \in 1 .. n + 1 /\ q \in 1 .. n /\ 1 \in 1 .. n
      BY <1>1, <2>1
    <3>2. p \in Seq(A) /\ y \in A
      BY <3>1, PartOf, ElementOfSeq
    <3>3. SubSeq(s, 1, q) = SubSeq(s, 1, q - 1) \o <<y>>
      BY <3>1, SubSeqRecursiveSecond
    <3> HIDE DEF p, y
    <3>4. Append(p, y) = p \o <<y>>
      BY <3>2, AppendIsConcat
    <3> QED
      BY <2>1, <3>2, <3>3, <3>4 DEF p
  <2>3. v = w \o y
    <3> HIDE DEF p, y, q
    <3>1. FlattenSeq(Append(p, y)) = FlattenSeq(p) \o y
      BY <2>2, FlattenAppend
    <3> QED
      BY <2>2, <3>1 DEF p
  <2>4. w \in Seq(B) /\ \A x : x \in ToSet(w) <=> \E i \in 1 .. k : x \in ToSet(s[i])
    BY <1>3
  <2> HIDE DEF w, y, v
  <2>5. v \in Seq(B) /\ \A x : x \in ToSet(v) <=> x \in ToSet(w) \/ x \in ToSet(y)
    <3>1. Len(w) \in Nat /\ Len(y) \in Nat /\ DOMAIN w = 1 .. Len(w) /\ DOMAIN y = 1 .. Len(y)
      BY <2>2, <2>4, LenProperties
    <3>2. /\ v \in Seq(B) /\ Len(v) = Len(w) + Len(y)
          /\ \A i \in 1 .. Len(w) + Len(y) : v[i] = IF i <= Len(w) THEN w[i] ELSE y[i - Len(w)]
      BY <2>2, <2>3, <2>4, ConcatProperties
    <3>3. DOMAIN v = 1 .. Len(w) + Len(y)
      BY <3>2, LenProperties
    <3>4. ASSUME NEW x, x \in ToSet(v) PROVE x \in ToSet(w) \/ x \in ToSet(y)
      <4>1. PICK i \in 1 .. Len(w) + Len(y) : v[i] = x
        BY <3>3, <3>4 DEF ToSet
      <4>2. CASE i <= Len(w)
        <5>1. i \in 1 .. Len(w) /\ w[i] = x
          BY <3>1, <3>2, <4>1, <4>2
        <5> QED
          BY <3>1, <5>1 DEF ToSet
      <4>3. CASE ~ (i <= Len(w))
        <5>1. i - Len(w) \in 1 .. Len(y) /\ y[i - Len(w)] = x
          BY <3>1, <3>2, <4>1, <4>3
        <5> QED
          BY <3>1, <5>1 DEF ToSet
      <4> QED
        BY <4>2, <4>3
    <3>5. ASSUME NEW i \in 1 .. Len(w) PROVE w[i] \in ToSet(v)
      <4>1. i \in 1 .. Len(w) + Len(y) /\ v[i] = w[i]
        BY <3>1, <3>2
      <4> QED
        BY <3>3, <4>1 DEF ToSet
    <3>6. ASSUME NEW i \in 1 .. Len(y) PROVE y[i] \in ToSet(v)
      <4>1. /\ Len(w) + i \in 1 .. Len(w) + Len(y) /\ ~ (Len(w) + i <= Len(w)) /\ (Len(w) + i) - Len(w) = i
        BY <3>1
      <4>2. v[Len(w) + i] = y[i]
        BY <3>2, <4>1
      <4> QED
        BY <3>3, <4>1, <4>2 DEF ToSet
    <3>7. ToSet(w) = {w[i] : i \in 1 .. Len(w)} /\ ToSet(y) = {y[i] : i \in 1 .. Len(y)}
      BY <3>1 DEF ToSet
    <3> QED
      BY <3>2, <3>4, <3>5, <3>6, <3>7
  <2>6. \A x : x \in ToSet(v) <=> \E i \in 1 .. q : x \in ToSet(s[i])
    <3>1. \A i : i \in 1 .. q <=> i \in 1 .. k \/ i = q
      BY <2>1
    <3> HIDE DEF q
    <3> QED
      BY <2>4, <2>5, <3>1 DEF y
  <2> HIDE DEF F
  <2> QED
    BY <2>1, <2>5, <2>6 DEF v
<1>4. n \in T
  <2> HIDE DEF T
  <2>1. \A k \in 0 .. n : k \in T
    BY <1>1, <1>2, <1>3, IntervalInduction
  <2> QED
    BY <1>1, <2>1
<1>5. F(n) = FlattenSeq(s)
  BY SubSeqFull
<1> QED
  BY <1>4, <1>5

\* The members picked of a sequence are those at the places asked for.
LEMMA PickedMembers ==
  ASSUME NEW A, NEW s \in Seq(A), NEW places
  PROVE  /\ Picked(s, places) \in Seq(A)
         /\ \A x : x \in ToSet(Picked(s, places)) <=> \E i \in 1 .. Len(s) : i \in places /\ s[i] = x
<1> DEFINE w == Picked(s, places)
<1>1. w \in Seq(A)
  BY PickedIs
<1>2. PICK at : FromPlaces(w, s, Len(s), places, at)
  BY PickedIs
<1>3. DOMAIN w = 1 .. Len(w)
  BY <1>1, LenProperties
<1> HIDE DEF w
<1>4. /\ at \in [1 .. Len(w) -> 1 .. Len(s)] /\ \A k \in 1 .. Len(w) : at[k] \in places /\ w[k] = s[at[k]]
      /\ \A i \in 1 .. Len(s) : i \in places => \E k \in 1 .. Len(w) : at[k] = i
  BY <1>2 DEF FromPlaces
<1>5. \A x : x \in ToSet(w) <=> \E k \in 1 .. Len(w) : w[k] = x
  BY <1>3 DEF ToSet
<1> QED
  BY <1>1, <1>4, <1>5 DEF w

\* The places of a sequence where a member of a set is.
PlacesOf(s, P) == {i \in DOMAIN s : s[i] \in P}

\* What is picked of a sequence by what it is.
LEMMA PickedWhen ==
  ASSUME NEW A, NEW s \in Seq(A), NEW P
  PROVE  /\ Picked(s, PlacesOf(s, P)) \in Seq(A)
         /\ \A x : x \in ToSet(Picked(s, PlacesOf(s, P))) <=> x \in ToSet(s) /\ x \in P
<1> DEFINE places == PlacesOf(s, P)
           w == Picked(s, places)
<1>1. DOMAIN s = 1 .. Len(s)
  BY LenProperties
<1>2. w \in Seq(A) /\ \A x : x \in ToSet(w) <=> \E i \in 1 .. Len(s) : i \in places /\ s[i] = x
  BY PickedMembers
<1> HIDE DEF w
<1>3. \A x : x \in ToSet(w) <=> x \in ToSet(s) /\ x \in P
  BY <1>1, <1>2 DEF ToSet, PlacesOf
<1> QED
  BY <1>2, <1>3 DEF w

\* A sequence of growing numbers grows from any place to any later one.
LEMMA GrowsAlong ==
  ASSUME NEW m \in Nat, NEW f, \A k \in 1 .. m : f[k] \in Int, \A k \in 2 .. m : f[k - 1] < f[k]
  PROVE  \A i, j \in 1 .. m : i < j => f[i] < f[j]
<1> DEFINE T == {k \in 0 .. m : \A i \in 1 .. k, j \in 1 .. k : i < j => f[i] < f[j]}
<1>1. 0 \in T
  OBVIOUS
<1>2. ASSUME NEW k \in 0 .. (m - 1), k \in T PROVE k + 1 \in T
  <2>1. k + 1 \in 0 .. m /\ k + 1 \in 1 .. m
    OBVIOUS
  <2>2. \A i, j \in 1 .. k : i < j => f[i] < f[j]
    BY <1>2
  <2>3. ASSUME NEW i \in 1 .. k + 1, NEW j \in 1 .. k + 1, i < j PROVE f[i] < f[j]
    <3>1. CASE j = k + 1
      <4>1. k \in 1 .. m /\ i \in 1 .. k /\ k + 1 \in 2 .. m /\ (k + 1) - 1 = k
        BY <2>3, <3>1
      <4>2. f[k] < f[k + 1] /\ f[k] \in Int /\ f[k + 1] \in Int /\ f[i] \in Int
        BY <2>1, <4>1
      <4>3. i = k \/ f[i] < f[k]
        BY <2>2, <4>1
      <4> QED
        BY <3>1, <4>2, <4>3
    <3>2. CASE j # k + 1
      <4>1. i \in 1 .. k /\ j \in 1 .. k
        BY <2>3, <3>2
      <4> QED
        BY <2>2, <2>3, <4>1
    <3> QED
      BY <3>1, <3>2
  <2> QED
    BY <2>1, <2>3
<1> HIDE DEF T
<1>3. \A k \in 0 .. m : k \in T
  BY <1>1, <1>2, IntervalInduction
<1>4. m \in T
  BY <1>3
<1> QED
  BY <1>4 DEF T

\* What is picked of a sequence at its first places is the part that ends there.
LEMMA FirstPlaces ==
  ASSUME NEW A, NEW s \in Seq(A), NEW k \in 0 .. Len(s), NEW places, \A i \in 1 .. Len(s) : i \in places <=> i <= k
  PROVE  Picked(s, places) = SubSeq(s, 1, k)
<1> DEFINE w == Picked(s, places)
           p == SubSeq(s, 1, k)
           m == Len(w)
           n == Len(s)
<1>1. n \in Nat /\ k \in Nat /\ k <= n
  BY LenProperties
<1>2. w \in Seq(A)
  BY PickedIs
<1>3. PICK at : FromPlaces(w, s, n, places, at)
  BY PickedIs
<1>4. p \in Seq(A) /\ Len(p) = k /\ \A i \in 1 .. k : p[i] = s[i]
  <2>1. 1 \in 1 .. n + 1 /\ k \in 1 - 1 .. n /\ k - 1 + 1 = k
    BY <1>1
  <2>2. p \in Seq(A) /\ Len(p) = k - 1 + 1 /\ \A i \in 1 .. k - 1 + 1 : p[i] = s[1 + i - 1]
    BY <2>1, PartOf
  <2>3. \A i \in 1 .. k : 1 + i - 1 = i
    BY <1>1
  <2> QED
    BY <2>1, <2>2, <2>3
<1> HIDE DEF w, p
<1>5. m \in Nat
  BY <1>2, LenProperties
<1>6. /\ at \in [1 .. m -> 1 .. n] /\ \A i \in 1 .. m : at[i] \in places /\ w[i] = s[at[i]]
      /\ \A i \in 2 .. m : at[i - 1] < at[i]
      /\ \A i \in 1 .. n : i \in places => \E j \in 1 .. m : at[j] = i
  BY <1>3 DEF FromPlaces
<1> HIDE DEF m, n
<1>7. /\ \A i \in 1 .. m : at[i] \in Int /\ at[i] \in 1 .. k
      /\ \A i \in 1 .. k : \E j \in 1 .. m : at[j] = i
  <2>1. \A i \in 1 .. m : at[i] \in 1 .. n /\ at[i] <= k
    BY <1>6 DEF n
  <2>2. \A i \in 1 .. k : i \in 1 .. n /\ i \in places
    BY <1>1 DEF n
  <2> QED
    BY <1>1, <1>6, <2>1, <2>2
<1>8. \A i, j \in 1 .. m : i < j => at[i] < at[j]
  BY <1>5, <1>6, <1>7, GrowsAlong
<1> DEFINE T == {i \in 0 .. k : i <= m /\ \A j \in 1 .. i : at[j] = j}
<1>9. 0 \in T
  BY <1>1, <1>5
<1>10. ASSUME NEW i \in 0 .. (k - 1), i \in T PROVE i + 1 \in T
  <2>1. i + 1 \in 1 .. k /\ i + 1 \in 0 .. k /\ i <= m /\ \A j \in 1 .. i : at[j] = j
    BY <1>1, <1>10
  <2>2. PICK j \in 1 .. m : at[j] = i + 1
    BY <1>7, <2>1
  <2>3. i < j
    <3>1. j \in 1 .. i => at[j] = j
      BY <2>1
    <3> QED
      BY <1>1, <1>5, <2>2, <3>1
  <2>4. i + 1 \in 1 .. m
    BY <1>1, <1>5, <2>1, <2>3
  <2>5. at[i + 1] = i + 1
    <3>1. CASE i + 1 = j
      BY <2>2, <3>1
    <3>2. CASE i + 1 # j
      <4>1. i + 1 < j
        BY <1>1, <2>3, <3>2
      <4>2. at[i + 1] < i + 1
        BY <1>8, <2>2, <2>4, <4>1
      <4>3. at[i + 1] \in 1 .. k
        BY <1>7, <2>4
      <4>4. at[i + 1] \in 1 .. i
        BY <1>1, <2>1, <4>2, <4>3
      <4> DEFINE x == at[i + 1]
      <4>5. x \in 1 .. m /\ x < i + 1 /\ at[x] = x
        BY <1>1, <1>5, <2>1, <4>2, <4>4
      <4> HIDE DEF x
      <4>6. at[x] < at[i + 1]
        BY <1>8, <2>4, <4>5
      <4>7. x \in Int
        BY <4>5
      <4> QED
        BY <4>5, <4>6, <4>7 DEF x
    <3> QED
      BY <3>1, <3>2
  <2>6. \A l \in 1 .. i + 1 : l \in 1 .. i \/ l = i + 1
    BY <1>1
  <2> QED
    BY <2>1, <2>4, <2>5, <2>6
<1>11. k \in T
  <2> HIDE DEF T
  <2>1. \A i \in 0 .. k : i \in T
    BY <1>1, <1>9, <1>10, IntervalInduction
  <2> QED
    BY <1>1, <2>1
<1>12. m = k
  <2>1. k <= m /\ \A j \in 1 .. k : at[j] = j
    BY <1>11
  <2>2. ASSUME k < m PROVE FALSE
    <3>1. m \in 1 .. m /\ at[m] \in 1 .. k /\ at[m] \in 1 .. m /\ at[m] < m
      BY <1>1, <1>5, <1>7, <2>2
    <3> DEFINE x == at[m]
    <3>2. x \in 1 .. m /\ x < m /\ at[x] = x
      BY <2>1, <3>1
    <3> HIDE DEF x
    <3>3. at[x] < at[m]
      BY <1>8, <3>1, <3>2
    <3>4. x \in Int
      BY <3>2
    <3> QED
      BY <3>2, <3>3, <3>4 DEF x
  <2> QED
    BY <1>1, <1>5, <2>1, <2>2
<1>13. \A i \in 1 .. k : w[i] = s[i]
  <2>1. \A i \in 1 .. k : at[i] = i
    BY <1>11
  <2> QED
    BY <1>6, <1>12, <2>1
<1>14. Len(w) = k /\ \A i \in 1 .. k : w[i] = p[i]
  BY <1>4, <1>12, <1>13 DEF m
<1>15. w = p
  BY <1>2, <1>4, <1>14, SeqEqual
<1> QED
  BY <1>15 DEF w, p

\* The places picked of the places themselves are those asked for, in their order.
LEMMA PlacesPicked ==
  ASSUME NEW n \in Nat, NEW places, NEW s \in Seq(Nat), Len(s) = n, \A i \in 1 .. n : s[i] = i
  PROVE  LET w == Picked(s, places)
         IN /\ w \in Seq(1 .. n)
            /\ \A k \in 1 .. Len(w) : w[k] \in places
            /\ \A k \in 2 .. Len(w) : w[k - 1] < w[k]
            /\ \A i \in 1 .. n : i \in places => \E k \in 1 .. Len(w) : w[k] = i
<1> DEFINE w == Picked(s, places)
           m == Len(w)
<1>1. w \in Seq(Nat)
  BY PickedIs
<1>2. PICK at : FromPlaces(w, s, n, places, at)
  BY PickedIs
<1> HIDE DEF w
<1>3. m \in Nat
  BY <1>1, LenProperties
<1>4. /\ at \in [1 .. m -> 1 .. n] /\ \A k \in 1 .. m : at[k] \in places /\ w[k] = s[at[k]]
      /\ \A k \in 2 .. m : at[k - 1] < at[k]
      /\ \A i \in 1 .. n : i \in places => \E k \in 1 .. m : at[k] = i
  BY <1>2 DEF FromPlaces
<1>5. \A k \in 1 .. m : w[k] = at[k] /\ at[k] \in 1 .. n /\ at[k] \in places
  BY <1>4
<1>6. w \in Seq(1 .. n)
  <2>1. w \in [1 .. m -> Nat]
    BY <1>1, LenProperties DEF m
  <2> HIDE DEF m
  <2>2. w \in [1 .. m -> 1 .. n]
    BY <1>5, <2>1
  <2> QED
    BY <1>3, <2>2
<1>7. \A k \in 2 .. m : w[k - 1] < w[k]
  <2> HIDE DEF m
  <2> TAKE k \in 2 .. m
  <2>1. k \in 1 .. m /\ k - 1 \in 1 .. m
    BY <1>3
  <2> QED
    BY <1>4, <1>5, <2>1
<1> QED
  BY <1>4, <1>5, <1>6, <1>7 DEF m, w

\* The first of what is picked is the first member that is asked for.
LEMMA FirstPicked ==
  ASSUME NEW A, NEW s \in Seq(A), NEW places \in SUBSET (1 .. Len(s))
  PROVE  LET w == Picked(s, places)
         IN (w = <<>> <=> places = {}) /\ (places # {} => w[1] = s[Min(places)])
<1> DEFINE w == Picked(s, places)
           m == Len(w)
<1>1. w \in Seq(A)
  BY PickedIs
<1>2. PICK at : FromPlaces(w, s, Len(s), places, at)
  BY PickedIs
<1>3. Len(s) \in Nat
  BY LenProperties
<1> HIDE DEF w
<1>4. m \in Nat /\ (w = <<>> <=> m = 0)
  BY <1>1, LenProperties, EmptySeq
<1>5. /\ at \in [1 .. m -> 1 .. Len(s)] /\ \A k \in 1 .. m : at[k] \in places /\ w[k] = s[at[k]]
      /\ \A k \in 2 .. m : at[k - 1] < at[k]
      /\ \A i \in 1 .. Len(s) : i \in places => \E k \in 1 .. m : at[k] = i
  BY <1>2 DEF FromPlaces
<1> HIDE DEF m
<1>6. CASE places = {}
  <2>1. m = 0
    BY <1>4, <1>5, <1>6
  <2> QED
    BY <1>4, <1>6, <2>1 DEF w
<1>7. CASE places # {}
  <2>1. m >= 1
    <3>1. PICK i \in places : TRUE
      BY <1>7
    <3> QED
      BY <1>4, <1>5, <3>1
  <2>2. Min(places) \in places /\ \A x \in places : Min(places) <= x
    BY <1>3, <1>7, MinIsMember
  <2> DEFINE T == {k \in 0 .. m - 1 : at[1] <= at[k + 1]}
  <2>3. \A k \in 0 .. m - 1 : k \in T
    <3>1. 0 \in T
      BY <1>3, <1>4, <1>5, <2>1
    <3>2. ASSUME NEW k \in 0 .. (m - 1) - 1, k \in T PROVE k + 1 \in T
      <4>1. k + 1 \in 0 .. m - 1 /\ (k + 1) + 1 \in 2 .. m /\ ((k + 1) + 1) - 1 = k + 1
            /\ k + 1 \in 1 .. m /\ (k + 1) + 1 \in 1 .. m /\ 1 \in 1 .. m
        BY <1>4, <2>1
      <4>2. at[k + 1] < at[(k + 1) + 1] /\ at[1] <= at[k + 1]
        BY <1>5, <3>2, <4>1
      <4>3. at[1] \in Int /\ at[k + 1] \in Int /\ at[(k + 1) + 1] \in Int
        BY <1>3, <1>5, <4>1
      <4> QED
        BY <4>1, <4>2, <4>3
    <3>3. m - 1 \in Nat
      BY <1>4, <2>1
    <3> HIDE DEF T
    <3> QED
      BY <3>1, <3>2, <3>3, IntervalInduction
  <2>4. PICK k \in 1 .. m : at[k] = Min(places)
    BY <1>5, <2>2
  <2>5. at[1] <= Min(places)
    <3>1. k - 1 \in 0 .. m - 1 /\ (k - 1) + 1 = k
      BY <1>4
    <3> QED
      BY <2>3, <2>4, <3>1
  <2>6. 1 \in 1 .. m /\ at[1] \in places
    BY <1>4, <1>5, <2>1
  <2>7. at[1] = Min(places)
    <3> DEFINE least == Min(places)
    <3>0. \A x \in places : x \in Int
      BY <1>3
    <3>1. at[1] \in Int /\ Min(places) \in Int
      <4>1. least \in places /\ at[1] \in places
        BY <2>2, <2>6
      <4> HIDE DEF least
      <4>2. at[1] \in Int /\ least \in Int
        BY <3>0, <4>1
      <4> QED
        BY <4>2 DEF least
    <3>2. Min(places) <= at[1]
      BY <2>2, <2>6
    <3> QED
      BY <2>5, <3>1, <3>2
  <2> QED
    BY <1>4, <1>5, <1>7, <2>1, <2>6, <2>7 DEF w
<1> QED
  BY <1>6, <1>7

-----------------------------------------------------------------------------
(* Splitting, joining and trimming *)

\* Joining one part is that part; joining none or several gives a text.
LEMMA JoinOne ==
  ASSUME NEW B, NEW sep \in Seq(B), NEW x \in Seq(B), NEW rest \in Seq(Seq(B))
  PROVE  JoinString(<<x>>, sep) = x /\ JoinString(rest, sep) \in Seq(B)
<1> DEFINE A == Seq(B)
           Ends(parts) == [i \in DOMAIN parts |-> IF i < Len(parts) THEN parts[i] \o sep ELSE parts[i]]
           n == Len(rest)
<1>1. \A y \in A : y \o sep \in A
  OBVIOUS
<1>2. x \in A /\ rest \in Seq(A) /\ n \in Nat /\ DOMAIN rest = 1 .. n /\ \A i \in 1 .. n : rest[i] \in A
  BY LenProperties, ElementOfSeq
<1>3. \A parts : JoinString(parts, sep) = FlattenSeq(Ends(parts))
  BY DEF JoinString
<1> HIDE DEF A, n
<1>4. Ends(rest) \in Seq(A) /\ Len(Ends(rest)) = n
  <2>1. \A i \in 1 .. n : Ends(rest)[i] \in A
    BY <1>1, <1>2
  <2> QED
    BY <1>2, <2>1
<1>5. JoinString(<<x>>, sep) = x
  <2>1. Ends(<<x>>) = <<x>>
    OBVIOUS
  <2>2. FlattenSeq(<<x>>) = x
    BY <1>4, FlattenFirst DEF A
  <2> QED
    BY <1>3, <2>1, <2>2
<1>6. JoinString(rest, sep) \in Seq(B)
  <2> HIDE DEF Ends
  <2>1. FlattenSeq(Ends(rest)) \in Seq(B)
    BY <1>4, FlattenFirst DEF A
  <2> QED
    BY <1>3, <2>1
<1> QED
  BY <1>5, <1>6

\* Joining puts the separator behind the first of several parts.
LEMMA JoinMore ==
  ASSUME NEW B, NEW sep \in Seq(B), NEW x \in Seq(B), NEW rest \in Seq(Seq(B)), rest # <<>>,
         NEW all, all = <<x>> \o rest
  PROVE  JoinString(all, sep) = (x \o sep) \o JoinString(rest, sep)
<1> DEFINE A == Seq(B)
           Ends(parts) == [i \in DOMAIN parts |-> IF i < Len(parts) THEN parts[i] \o sep ELSE parts[i]]
           n == Len(rest)
<1>1. \A y \in A : y \o sep \in A
  OBVIOUS
<1>2. x \in A /\ rest \in Seq(A) /\ n \in Nat /\ DOMAIN rest = 1 .. n /\ \A i \in 1 .. n : rest[i] \in A
  BY LenProperties, ElementOfSeq
<1>3. \A parts : JoinString(parts, sep) = FlattenSeq(Ends(parts))
  BY DEF JoinString
<1> HIDE DEF A, n
<1>4. Ends(rest) \in Seq(A) /\ Len(Ends(rest)) = n
  <2>1. \A i \in 1 .. n : Ends(rest)[i] \in A
    BY <1>1, <1>2
  <2> QED
    BY <1>2, <2>1
<1>5. JoinString(all, sep) = (x \o sep) \o JoinString(rest, sep)
  <2>1. n > 0
    BY <1>2, EmptySeq DEF n
  <2>2. /\ all \in Seq(A) /\ Len(all) = n + 1 /\ all[1] = x
        /\ \A i \in 1 .. n : all[i + 1] = rest[i]
    BY <1>2, FirstThen DEF n
  <2>3. DOMAIN all = 1 .. n + 1 /\ \A i \in 1 .. n + 1 : all[i] \in A
    BY <2>2, LenProperties, ElementOfSeq
  <2>4. /\ Ends(all) \in Seq(A) /\ Len(Ends(all)) = n + 1
        /\ Ends(all)[1] = x \o sep
        /\ \A i \in 1 .. n : Ends(all)[i + 1] = Ends(rest)[i]
    <3>1. \A i \in 1 .. n + 1 : Ends(all)[i] \in A
      BY <1>1, <2>2, <2>3
    <3>2. Ends(all) \in Seq(A) /\ Len(Ends(all)) = n + 1
      <4> DEFINE f == Ends(all)
                 m == n + 1
      <4>1. f = [i \in 1 .. m |-> f[i]] /\ \A i \in 1 .. m : f[i] \in A
        BY <2>3, <3>1
      <4>2. m \in Nat
        BY <1>2
      <4> HIDE DEF f, m
      <4>3. f \in [1 .. m -> A]
        BY <4>1
      <4>4. f \in Seq(A) /\ Len(f) = m
        BY <4>2, <4>3
      <4> QED
        BY <4>4 DEF f, m
    <3>3. Ends(all)[1] = x \o sep
      <4>1. 1 \in 1 .. n + 1 /\ 1 < n + 1
        BY <1>2, <2>1
      <4>2. Ends(all)[1] = IF 1 < n + 1 THEN all[1] \o sep ELSE all[1]
        BY <2>2, <2>3, <4>1
      <4> QED
        BY <2>2, <4>1, <4>2
    <3>4. ASSUME NEW i \in 1 .. n PROVE Ends(all)[i + 1] = Ends(rest)[i]
      <4>1. i + 1 \in 1 .. n + 1 /\ (i + 1 < n + 1 <=> i < n)
        BY <1>2
      <4>2. Ends(all)[i + 1] = IF i < n THEN all[i + 1] \o sep ELSE all[i + 1]
        BY <2>2, <2>3, <4>1
      <4>3. Ends(rest)[i] = IF i < n THEN rest[i] \o sep ELSE rest[i]
        BY <1>2 DEF n
      <4> QED
        BY <2>2, <4>2, <4>3
    <3> QED
      BY <3>2, <3>3, <3>4
  <2>5. Ends(all) = <<x \o sep>> \o Ends(rest)
    <3> DEFINE b == x \o sep
               e == Ends(rest)
               f == Ends(all)
    <3>1. b \in A /\ e \in Seq(A) /\ Len(e) = n /\ f \in Seq(A) /\ Len(f) = n + 1 /\ f[1] = b
      BY <1>1, <1>2, <1>4, <2>4
    <3>2. \A i \in 1 .. n : f[i + 1] = e[i]
      BY <2>4
    <3> HIDE DEF b, e, f
    <3>3. f = <<b>> \o e
      BY <3>1, <3>2, FirstThenIs
    <3> QED
      BY <3>3 DEF b, e, f
  <2>6. x \o sep \in Seq(B)
    OBVIOUS
  <2> DEFINE e == Ends(rest)
  <2>7. e \in Seq(A)
    BY <1>4
  <2> HIDE DEF e
  <2>8. FlattenSeq(<<x \o sep>> \o e) = (x \o sep) \o FlattenSeq(e)
    BY <2>6, <2>7, FlattenFirst DEF A
  <2>9. JoinString(all, sep) = FlattenSeq(Ends(all)) /\ JoinString(rest, sep) = FlattenSeq(Ends(rest))
    BY <1>3
  <2> QED
    BY <2>5, <2>8, <2>9 DEF e
<1> QED
  BY <1>5

\* What find does not find is at no place from there on.
LEMMA FindNone ==
  ASSUME NEW B, NEW s \in Seq(B), NEW t \in Seq(B), NEW from \in Nat \ {0},
         FindFrom(s, t, from) = Npos, NEW i \in from .. Len(s) - Len(t) + 1
  PROVE  SubSeq(s, i, i + Len(t) - 1) # t
<1> DEFINE at == {k \in from .. Len(s) - Len(t) + 1 : SubSeq(s, k, k + Len(t) - 1) = t}
           m == FindFrom(s, t, from)
<1>1. Len(s) \in Nat /\ Len(t) \in Nat
  BY LenProperties
<1>2. m = IF at = {} THEN Npos ELSE Min(at)
  BY DEF FindFrom
<1>3. at \in SUBSET Nat /\ \A k \in at : k # 0
  BY <1>1
<1>4. at # {} => m \in at
  <2> HIDE DEF at, m
  <2> QED
    BY <1>2, <1>3, MinIsMember
<1>5. at = {}
  <2> HIDE DEF at
  <2> QED
    BY <1>3, <1>4 DEF Npos
<1> QED
  BY <1>5

\* What find returns: the first place of the text from there on, or that there is none.
LEMMA FindIs ==
  ASSUME NEW B, NEW s \in Seq(B), NEW t \in Seq(B), NEW from \in Nat \ {0}
  PROVE  /\ FindFrom(s, t, from) # Npos =>
              /\ FindFrom(s, t, from) \in from .. Len(s) - Len(t) + 1
              /\ SubSeq(s, FindFrom(s, t, from), FindFrom(s, t, from) + Len(t) - 1) = t
              /\ \A i \in from .. FindFrom(s, t, from) - 1 : SubSeq(s, i, i + Len(t) - 1) # t
         /\ FindFrom(s, t, from) = Npos =>
              \A i \in from .. Len(s) - Len(t) + 1 : SubSeq(s, i, i + Len(t) - 1) # t
<1> DEFINE at == {i \in from .. Len(s) - Len(t) + 1 : SubSeq(s, i, i + Len(t) - 1) = t}
           m == FindFrom(s, t, from)
<1>1. Len(s) \in Nat /\ Len(t) \in Nat
  BY LenProperties
<1>2. m = IF at = {} THEN Npos ELSE Min(at)
  BY DEF FindFrom
<1>3. at \in SUBSET Nat
  BY <1>1
<1>4. at # {} => m \in at /\ \A i \in at : m <= i
  <2> HIDE DEF at, m
  <2> QED
    BY <1>2, <1>3, MinIsMember
<1>5. m # Npos <=> at # {}
  <2>1. at # {} => m # Npos
    <3>1. at # {} => m >= from
      BY <1>1, <1>4
    <3> HIDE DEF m, at
    <3> QED
      BY <3>1 DEF Npos
  <2> QED
    BY <1>2, <2>1
<1>6. ASSUME m # Npos, NEW i \in from .. m - 1 PROVE SubSeq(s, i, i + Len(t) - 1) # t
  <2>1. m \in from .. Len(s) - Len(t) + 1
    BY <1>4, <1>5, <1>6
  <2>2. i \in from .. Len(s) - Len(t) + 1 /\ ~ (m <= i)
    <3> HIDE DEF m
    <3> QED
      BY <1>1, <2>1, <1>6
  <2> HIDE DEF m
  <2> QED
    BY <1>4, <1>5, <1>6, <2>2
<1> HIDE DEF m
<1>7. m # Npos => m \in from .. Len(s) - Len(t) + 1 /\ SubSeq(s, m, m + Len(t) - 1) = t
  BY <1>4, <1>5
<1>8. m = Npos => \A i \in from .. Len(s) - Len(t) + 1 : SubSeq(s, i, i + Len(t) - 1) # t
  BY <1>5
<1> QED
  BY <1>6, <1>7, <1>8 DEF m

\* What a split makes of one part.
PartKept(x, remove_empty) == IF x # <<>> \/ ~remove_empty THEN <<x>> ELSE <<>>

\* The loop of a split: the part up to the next separator, and the parts behind it.
SplitLoop(s, sep, remove_empty, g) ==
  /\ s # <<>> => SplitString(s, sep, remove_empty) = g[1]
  /\ \A i \in 1 .. Len(s) + 1 :
       /\ FindFrom(s, sep, i) = Npos => g[i] = PartKept(SubSeq(s, i, Len(s)), remove_empty)
       /\ FindFrom(s, sep, i) # Npos =>
            /\ FindFrom(s, sep, i) + Len(sep) \in i + 1 .. Len(s) + 1
            /\ g[i] = PartKept(SubSeq(s, i, FindFrom(s, sep, i) - 1), remove_empty)
                      \o g[FindFrom(s, sep, i) + Len(sep)]

\* A split reads a text as its loop does: the function the loop describes exists, and the
\* split is its value at the first place.
LEMMA SplitReads ==
  ASSUME NEW B, NEW s \in Seq(B), NEW sep \in Seq(B), sep # <<>>, NEW remove \in BOOLEAN
  PROVE  \E g \in [1 .. Len(s) + 1 -> Seq(Seq(B))] : SplitLoop(s, sep, remove, g)
<1> DEFINE n == Len(s)
           m == n + 1
           A == Seq(Seq(B))
           E(i) == FindFrom(s, sep, i)
           Sub(i) == IF E(i) = Npos THEN SubSeq(s, i, n) ELSE SubSeq(s, i, E(i) - 1)
           K(i) == PartKept(Sub(i), remove)
           next == [i \in 1 .. m |-> IF E(i) = Npos THEN i ELSE E(i) + Len(sep)]
           last == [i \in 1 .. m |-> K(i)]
           step == [c \in (1 .. m) \X A |-> K(c[1]) \o c[2]]
<1>1. n \in Nat /\ m \in Nat /\ Len(sep) \in Nat /\ Len(sep) >= 1
  BY LenProperties, EmptySeq
<1>2. \A i \in 1 .. m : E(i) # Npos => E(i) \in i .. n /\ E(i) + Len(sep) \in i + 1 .. m
  <2> TAKE i \in 1 .. m
  <2> DEFINE e == E(i)
  <2>1. e # Npos => e \in i .. n - Len(sep) + 1
    <3>1. i \in Nat \ {0}
      OBVIOUS
    <3> QED
      BY <3>1, FindIs
  <2> HIDE DEF e, n
  <2>2. e # Npos => e \in i .. n /\ e + Len(sep) \in i + 1 .. m
    BY <1>1, <2>1
  <2> QED
    BY <2>2 DEF e
<1>3. \A i \in 1 .. m : Sub(i) \in Seq(B)
  <2> TAKE i \in 1 .. m
  <2>1. CASE E(i) = Npos
    <3>1. n \in i - 1 .. n
      BY <1>1
    <3>2. SubSeq(s, i, n) \in Seq(B)
      BY <3>1, PartOf
    <3> QED
      BY <2>1, <3>2
  <2>2. CASE E(i) # Npos
    <3> DEFINE e == E(i) - 1
    <3>1. e \in i - 1 .. n
      BY <1>1, <1>2, <2>2
    <3> HIDE DEF e
    <3>2. SubSeq(s, i, e) \in Seq(B)
      BY <3>1, PartOf
    <3> QED
      BY <2>2, <3>2 DEF e
  <2> QED
    BY <2>1, <2>2
<1>4. \A i \in 1 .. m : K(i) \in A /\ \A x \in A : K(i) \o x \in A
  <2> TAKE i \in 1 .. m
  <2>1. Sub(i) \in Seq(B)
    BY <1>3
  <2> HIDE DEF Sub
  <2>2. K(i) \in A
    BY <2>1 DEF PartKept
  <2> HIDE DEF K
  <2> QED
    BY <2>2
<1> HIDE DEF K, E, m, A
<1>5. next \in [1 .. m -> 1 .. m] /\ \A i \in 1 .. m : i <= next[i]
  <2>1. ASSUME NEW i \in 1 .. m PROVE next[i] \in 1 .. m /\ i <= next[i]
    <3>1. CASE E(i) = Npos
      BY <1>1, <3>1
    <3>2. CASE E(i) # Npos
      <4> DEFINE e == E(i) + Len(sep)
      <4>1. e \in i + 1 .. m /\ next[i] = e
        BY <1>2, <3>2
      <4> HIDE DEF e, next
      <4> QED
        BY <1>1, <4>1
    <3> QED
      BY <3>1, <3>2
  <2> QED
    BY <2>1
<1>6. last \in [1 .. m -> A] /\ step \in [(1 .. m) \X A -> A]
  BY <1>4
<1>7. PICK f : f \in Jumps(m, A, last, next, step)
  <2> HIDE DEF last, next, step
  <2> QED
    BY <1>1, <1>5, <1>6, JumpRecursion
<1>8. f \in [1 .. m -> A]
  BY <1>7 DEF Jumps
<1>9. ASSUME NEW i \in 1 .. m
      PROVE  f[i] = IF E(i) = Npos THEN K(i) ELSE K(i) \o f[E(i) + Len(sep)]
  <2>1. f[i] = IF next[i] = i THEN last[i] ELSE step[<<i, f[next[i]]>>]
    BY <1>7 DEF Jumps
  <2>2. CASE E(i) = Npos
    BY <2>1, <2>2
  <2>3. CASE E(i) # Npos
    <3> DEFINE e == E(i) + Len(sep)
    <3>1. e \in i + 1 .. m /\ next[i] = e
      BY <1>2, <2>3
    <3> HIDE DEF e, next
    <3>2. e \in 1 .. m /\ e # i
      BY <1>1, <3>1
    <3>3. f[e] \in A
      BY <1>8, <3>2
    <3>4. step[<<i, f[e]>>] = K(i) \o f[e]
      BY <3>3
    <3> QED
      BY <2>1, <2>3, <3>1, <3>2, <3>4 DEF e
  <2> QED
    BY <2>2, <2>3
<1> DEFINE body(g) == [i \in 1 .. m |-> IF E(i) = Npos THEN K(i) ELSE K(i) \o g[E(i) + Len(sep)]]
           h == CHOOSE g : g = body(g)
<1>10. f = body(f)
  BY <1>8, <1>9
<1>11. h = body(h)
  <2> HIDE DEF body
  <2> QED
    BY <1>10, Zenon
<1>12. SplitString(s, sep, remove) = IF s = <<>> THEN <<>> ELSE h[1]
  BY DEF SplitString, h, body, K, E, m, PartKept
<1> HIDE DEF h
<1>13. h[1] = f[1]
  <2> DEFINE S == {i \in 1 .. m : h[i] = f[i]}
  <2>1. ASSUME NEW i \in 1 .. m, \A j \in i + 1 .. m : j \in S PROVE i \in S
    <3>1. h[i] = IF E(i) = Npos THEN K(i) ELSE K(i) \o h[E(i) + Len(sep)]
      BY <1>11
    <3>2. E(i) # Npos => h[E(i) + Len(sep)] = f[E(i) + Len(sep)]
      BY <1>2, <2>1
    <3> QED
      BY <1>9, <3>1, <3>2
  <2>2. \A i \in 1 .. m : i \in S
    <3> HIDE DEF S, body
    <3> QED
      BY <1>1, <2>1, DownwardInduction
  <2>3. 1 \in 1 .. m
    BY <1>1 DEF m
  <2> QED
    BY <2>2, <2>3
<1>14. \A i \in 1 .. m :
         /\ E(i) = Npos => f[i] = PartKept(SubSeq(s, i, n), remove)
         /\ E(i) # Npos =>
              /\ E(i) + Len(sep) \in i + 1 .. m
              /\ f[i] = PartKept(SubSeq(s, i, E(i) - 1), remove) \o f[E(i) + Len(sep)]
  BY <1>2, <1>9 DEF K
<1> QED
  <2> HIDE DEF n, body
  <2>1. s # <<>> => SplitString(s, sep, remove) = f[1]
    BY <1>12, <1>13
  <2> QED
    BY <1>8, <1>14, <2>1 DEF A, E, m, n, SplitLoop

\* A part that is not empty.
IfAny(x) == IF x # <<>> THEN <<x>> ELSE <<>>

\* Both kinds of splits.
Splits(s, sep, g, h) ==
  /\ s # <<>> => SplitString(s, sep, FALSE) = g[1] /\ SplitString(s, sep, TRUE) = h[1]
  /\ \A i \in 1 .. Len(s) + 1 :
       /\ FindFrom(s, sep, i) = Npos =>
            g[i] = <<SubSeq(s, i, Len(s))>> /\ h[i] = IfAny(SubSeq(s, i, Len(s)))
       /\ FindFrom(s, sep, i) # Npos =>
            /\ FindFrom(s, sep, i) + Len(sep) \in i + 1 .. Len(s) + 1
            /\ g[i] = <<SubSeq(s, i, FindFrom(s, sep, i) - 1)>> \o g[FindFrom(s, sep, i) + Len(sep)]
            /\ h[i] = IfAny(SubSeq(s, i, FindFrom(s, sep, i) - 1)) \o h[FindFrom(s, sep, i) + Len(sep)]

\* The loops of a split that keeps the empty parts and of one that drops them.
LEMMA BothSplits ==
  ASSUME NEW B, NEW s \in Seq(B), NEW sep \in Seq(B), sep # <<>>
  PROVE  \E g, h \in [1 .. Len(s) + 1 -> Seq(Seq(B))] : Splits(s, sep, g, h)
<1>1. PICK g \in [1 .. Len(s) + 1 -> Seq(Seq(B))] : SplitLoop(s, sep, FALSE, g)
  BY SplitReads, Zenon
<1>2. PICK h \in [1 .. Len(s) + 1 -> Seq(Seq(B))] : SplitLoop(s, sep, TRUE, h)
  BY SplitReads, Zenon
<1>3. \A x : PartKept(x, FALSE) = <<x>> /\ PartKept(x, TRUE) = IfAny(x)
  BY DEF PartKept, IfAny
<1> QED
  <2>1. Splits(s, sep, g, h)
    BY <1>1, <1>2, <1>3 DEF SplitLoop, Splits
  <2> QED
    BY <2>1

\* The parts that are not empty.
Filled(parts) == Picked(parts, {i \in DOMAIN parts : parts[i] # <<>>})

\* The parts that are not empty, of a list that begins with a part.
LEMMA FilledFirst ==
  ASSUME NEW B, NEW x \in Seq(B), NEW rest \in Seq(Seq(B))
  PROVE  /\ Filled(<<x>>) = IfAny(x)
         /\ Filled(<<x>> \o rest) = IfAny(x) \o Filled(rest)
<1> DEFINE A == Seq(B)
           AA == Seq(A)
           List(parts) == [i \in DOMAIN parts |-> IfAny(parts[i])]
           n == Len(rest)
           all == <<x>> \o rest
<1>1. x \in A /\ rest \in AA /\ n \in Nat /\ DOMAIN rest = 1 .. n /\ \A i \in 1 .. n : rest[i] \in A
  BY LenProperties, ElementOfSeq
<1> HIDE DEF n
<1>2. \A y \in A : IfAny(y) \in AA
  <2> HIDE DEF A
  <2> QED
    BY DEF IfAny
<1> HIDE DEF A, AA
<1>3. \A parts : Filled(parts) = FlattenSeq(List(parts))
  <2> TAKE parts
  <2>1. List(parts) = [i \in DOMAIN parts |-> IF i \in {j \in DOMAIN parts : parts[j] # <<>>}
                                              THEN <<parts[i]>> ELSE <<>>]
    BY DEF IfAny
  <2> QED
    BY <2>1 DEF Filled, Picked
<1>4. List(rest) \in Seq(AA) /\ Len(List(rest)) = n
  <2>1. \A i \in 1 .. n : List(rest)[i] \in AA
    BY <1>1, <1>2
  <2> QED
    BY <1>1, <2>1
<1>5. List(<<x>>) = <<IfAny(x)>>
  OBVIOUS
<1>6. List(all) = <<IfAny(x)>> \o List(rest)
  <2>1. /\ all \in Seq(A) /\ Len(all) = n + 1 /\ all[1] = x
        /\ \A i \in 1 .. n : all[i + 1] = rest[i]
    BY <1>1, FirstThen DEF n, AA
  <2>2. DOMAIN all = 1 .. n + 1 /\ \A i \in 1 .. n + 1 : all[i] \in A
    BY <2>1, LenProperties, ElementOfSeq
  <2> HIDE DEF all
  <2>3. \A i \in 1 .. n + 1 : List(all)[i] = IfAny(all[i]) /\ List(all)[i] \in AA
    BY <1>2, <2>2
  <2>4. List(all) \in Seq(AA) /\ Len(List(all)) = n + 1
    BY <1>1, <2>2, <2>3
  <2>5. \A i \in 1 .. n : i + 1 \in 1 .. n + 1 /\ List(rest)[i] = IfAny(rest[i])
    BY <1>1
  <2>6. 1 \in 1 .. n + 1
    BY <1>1
  <2>7. List(all)[1] = IfAny(x) /\ \A i \in 1 .. n : List(all)[i + 1] = List(rest)[i]
    BY <2>1, <2>3, <2>5, <2>6
  <2> DEFINE b == IfAny(x)
             e == List(rest)
             f == List(all)
  <2>8. b \in AA /\ e \in Seq(AA) /\ f \in Seq(AA) /\ Len(e) = n /\ Len(f) = n + 1 /\ f[1] = b
        /\ \A i \in 1 .. n : f[i + 1] = e[i]
    BY <1>1, <1>2, <1>4, <2>4, <2>7
  <2> HIDE DEF b, e, f
  <2>9. f = <<b>> \o e
    BY <2>8, FirstThenIs
  <2> QED
    BY <2>9 DEF b, e, f
<1> DEFINE b == IfAny(x)
           e == List(rest)
<1>7. b \in Seq(A) /\ e \in Seq(Seq(A))
  BY <1>1, <1>2, <1>4 DEF AA
<1>8. FlattenSeq(<<b>>) = b /\ FlattenSeq(<<b>> \o e) = b \o FlattenSeq(e)
  <2> HIDE DEF b, e
  <2> QED
    BY <1>7, FlattenFirst
<1> QED
  BY <1>3, <1>5, <1>6, <1>8

\* A text from a place on is what is before a separator, the separator, and what is behind.
LEMMA CutAt ==
  ASSUME NEW B, NEW s \in Seq(B), NEW sep \in Seq(B), sep # <<>>, NEW i \in 1 .. Len(s) + 1,
         FindFrom(s, sep, i) # Npos
  PROVE  LET e == FindFrom(s, sep, i) IN
         /\ e \in i .. Len(s) /\ e + Len(sep) \in i + 1 .. Len(s) + 1
         /\ SubSeq(s, i, e - 1) \in Seq(B) /\ SubSeq(s, e + Len(sep), Len(s)) \in Seq(B)
         /\ (SubSeq(s, i, e - 1) \o sep) \o SubSeq(s, e + Len(sep), Len(s)) = SubSeq(s, i, Len(s))
<1> DEFINE e == FindFrom(s, sep, i)
           n == Len(s)
           l == Len(sep)
<1>1. n \in Nat /\ l \in Nat /\ l >= 1 /\ i \in Nat \ {0}
  BY LenProperties, EmptySeq
<1>2. e \in i .. n - l + 1 /\ SubSeq(s, e, e + l - 1) = sep
  BY <1>1, FindIs
<1> HIDE DEF e, n, l
<1>3. /\ e \in i .. n /\ e + l \in i + 1 .. n + 1
      /\ i \in 1 .. n + 1 /\ e - 1 \in i - 1 .. n /\ e + l - 1 \in e - 1 .. n
      /\ n \in e + l - 1 .. n /\ e + l - 1 \in i - 1 .. n /\ e - 1 + 1 = e /\ e + l - 1 + 1 = e + l
      /\ e + l \in 1 .. n + 1
  BY <1>1, <1>2 DEF n
<1>4. SubSeq(s, i, e - 1) \in Seq(B) /\ SubSeq(s, e + l, n) \in Seq(B)
  <2>1. n \in e + l - 1 .. n
    BY <1>3
  <2>2. SubSeq(s, e + l, n) \in Seq(B)
    BY <1>3, <2>1, PartOf DEF n
  <2> QED
    BY <1>3, <2>2, PartOf DEF n
<1>5. SubSeq(s, i, e - 1) \o SubSeq(s, e - 1 + 1, e + l - 1) = SubSeq(s, i, e + l - 1)
  BY <1>3, ConcatAdjacentSubSeq DEF n
<1>6. SubSeq(s, i, e + l - 1) \o SubSeq(s, e + l - 1 + 1, n) = SubSeq(s, i, n)
  BY <1>3, ConcatAdjacentSubSeq DEF n
<1>7. SubSeq(s, i, e - 1) \o sep = SubSeq(s, i, e + l - 1)
  BY <1>2, <1>3, <1>5
<1>8. SubSeq(s, i, e + l - 1) \o SubSeq(s, e + l, n) = SubSeq(s, i, n)
  BY <1>3, <1>6
<1> QED
  BY <1>3, <1>4, <1>7, <1>8 DEF e, n, l

\* Splitting a text at a separator and joining the parts with it gives the text back, and
\* dropping the empty parts drops no other (split_string, join_string), whatever the text
\* and whatever separator that is not empty.
THEOREM SplitsJoin ==
  ASSUME NEW B, NEW s \in Seq(B), NEW sep \in Seq(B), sep # <<>>
  PROVE  SplitJoins(s, sep)
<1> DEFINE n == Len(s)
           m == n + 1
           E(i) == FindFrom(s, sep, i)
           l == Len(sep)
<1>1. n \in Nat /\ m \in Nat
  BY LenProperties
<1>2. SplitJoins(s, sep) <=>
        /\ JoinString(SplitString(s, sep, FALSE), sep) = s
        /\ SplitString(s, sep, TRUE) = Filled(SplitString(s, sep, FALSE))
  BY DEF SplitJoins, Filled
<1>3. CASE s = <<>>
  <2>1. \A r \in BOOLEAN : SplitString(s, sep, r) = <<>>
    BY <1>3 DEF SplitString
  <2>2. JoinString(<<>>, sep) = <<>> /\ Filled(<<>>) = <<>>
    <3>1. [i \in DOMAIN <<>> |-> IF i < Len(<<>>) THEN <<>>[i] \o sep ELSE <<>>[i]] = <<>>
      OBVIOUS
    <3>2. [i \in DOMAIN <<>> |-> IF i \in {j \in DOMAIN <<>> : <<>>[j] # <<>>} THEN << <<>>[i] >> ELSE <<>>] = <<>>
      OBVIOUS
    <3>3. FlattenSeq(<<>>) = <<>>
      BY DEF FlattenSeq
    <3> QED
      BY <3>1, <3>2, <3>3 DEF JoinString, Filled, Picked
  <2> QED
    BY <1>2, <1>3, <2>1, <2>2
<1>4. CASE s # <<>>
  <2>0. PICK g, h \in [1 .. m -> Seq(Seq(B))] : Splits(s, sep, g, h)
    BY BothSplits
  <2>1.
           /\ s # <<>> => SplitString(s, sep, FALSE) = g[1] /\ SplitString(s, sep, TRUE) = h[1]
           /\ \A i \in 1 .. m :
                /\ E(i) = Npos => g[i] = <<SubSeq(s, i, n)>> /\ h[i] = IfAny(SubSeq(s, i, n))
                /\ E(i) # Npos =>
                     /\ E(i) + l \in i + 1 .. m
                     /\ g[i] = <<SubSeq(s, i, E(i) - 1)>> \o g[E(i) + l]
                     /\ h[i] = IfAny(SubSeq(s, i, E(i) - 1)) \o h[E(i) + l]
    BY <2>0 DEF Splits
  <2> DEFINE Whole(i) == g[i] # <<>> /\ JoinString(g[i], sep) = SubSeq(s, i, n) /\ h[i] = Filled(g[i])
             S == {i \in 1 .. m : Whole(i)}
  <2>3. ASSUME NEW i \in 1 .. m, \A j \in i + 1 .. m : j \in S PROVE i \in S
    <3>1. CASE E(i) = Npos
      <4> DEFINE x == SubSeq(s, i, n)
      <4>1. x \in Seq(B)
        <5>1. n \in i - 1 .. n
          BY <1>1
        <5> QED
          BY <5>1, PartOf
      <4>2. g[i] = <<x>> /\ h[i] = IfAny(x)
        BY <2>1, <3>1
      <4> HIDE DEF x
      <4>3. JoinString(<<x>>, sep) = x /\ Filled(<<x>>) = IfAny(x)
        <5>1. <<>> \in Seq(Seq(B))
          OBVIOUS
        <5>2. JoinString(<<x>>, sep) = x
          BY <4>1, <5>1, JoinOne, ZenonT(40)
        <5> QED
          BY <4>1, <5>1, <5>2, FilledFirst
      <4>4. Whole(i)
        <5>1. <<x>> # <<>>
          OBVIOUS
        <5> QED
          BY <4>2, <4>3, <5>1 DEF x
      <4> HIDE DEF Whole
      <4> QED
        BY <4>4
    <3>2. CASE E(i) # Npos
      <4> DEFINE e == E(i)
                 x == SubSeq(s, i, e - 1)
                 y == SubSeq(s, e + l, n)
                 rest == g[e + l]
      <4>1. /\ e + l \in i + 1 .. m /\ x \in Seq(B) /\ y \in Seq(B)
            /\ (x \o sep) \o y = SubSeq(s, i, n)
        BY <3>2, CutAt
      <4>2. g[i] = <<x>> \o rest /\ h[i] = IfAny(x) \o h[e + l]
        BY <2>1, <3>2
      <4>3. rest # <<>> /\ JoinString(rest, sep) = y /\ h[e + l] = Filled(rest)
        <5>1. e + l \in S
          BY <2>3, <4>1
        <5> QED
          BY <5>1
      <4>4. rest \in Seq(Seq(B))
        <5>1. e + l \in 1 .. m
          <6> DEFINE k == e + l
          <6>1. k \in i + 1 .. m
            BY <4>1
          <6> HIDE DEF k
          <6>2. k \in 1 .. m
            BY <1>1, <6>1
          <6> QED
            BY <6>2 DEF k
        <5> QED
          BY <5>1
      <4> HIDE DEF x, y, rest
      <4>5. /\ JoinString(<<x>> \o rest, sep) = (x \o sep) \o JoinString(rest, sep)
            /\ Filled(<<x>> \o rest) = IfAny(x) \o Filled(rest)
        <5>1. JoinString(<<x>> \o rest, sep) = (x \o sep) \o JoinString(rest, sep)
          <6> DEFINE all == <<x>> \o rest
          <6>1. x \in Seq(B) /\ rest \in Seq(Seq(B)) /\ rest # <<>> /\ sep \in Seq(B)
            BY <4>1, <4>3, <4>4
          <6>2. all = <<x>> \o rest
            OBVIOUS
          <6> HIDE DEF all
          <6>3. JoinString(all, sep) = (x \o sep) \o JoinString(rest, sep)
            BY <6>1, <6>2, JoinMore
          <6> QED
            BY <6>2, <6>3
        <5> QED
          BY <4>1, <4>4, <5>1, FilledFirst
      <4>6. <<x>> \o rest # <<>>
        BY <4>4
      <4>7. Whole(i)
        BY <4>1, <4>2, <4>3, <4>5, <4>6
      <4> HIDE DEF Whole
      <4> QED
        BY <4>7
    <3> QED
      BY <3>1, <3>2
  <2>4. 1 \in S
    <3> HIDE DEF S
    <3>1. \A i \in 1 .. m : i \in S
      BY <1>1, <2>3, DownwardInduction
    <3>2. 1 \in 1 .. m
      BY <1>1
    <3> QED
      BY <3>1, <3>2
  <2>5. SubSeq(s, 1, n) = s
    BY SubSeqFull
  <2> QED
    BY <1>2, <1>4, <2>1, <2>4, <2>5
<1> QED
  BY <1>3, <1>4

\* A trim leaves the part of a text between the outermost characters it keeps.
LEMMA TrimmedPart ==
  ASSUME NEW B, NEW s \in Seq(B), NEW chars
  PROVE  /\ (\A i \in 1 .. Len(s) : s[i] \in chars) =>
              TrimLeft(s, chars) = <<>> /\ TrimRight(s, chars) = <<>>
         /\ (\E i \in 1 .. Len(s) : s[i] \notin chars) =>
              \E lo, hi \in 1 .. Len(s) :
                /\ lo <= hi /\ s[lo] \notin chars /\ s[hi] \notin chars
                /\ \A i \in 1 .. lo - 1 \union hi + 1 .. Len(s) : s[i] \in chars
                /\ TrimLeft(s, chars) = SubSeq(s, lo, Len(s)) /\ TrimRight(s, chars) = SubSeq(s, 1, hi)
<1> DEFINE n == Len(s)
           keep == {i \in DOMAIN s : s[i] \notin chars}
<1>1. n \in Nat /\ DOMAIN s = 1 .. n
  BY LenProperties
<1>2. CASE keep = {}
  <2>1. \A i \in 1 .. n : s[i] \in chars
    BY <1>1, <1>2
  <2> QED
    BY <1>2, <2>1 DEF TrimLeft, TrimRight
<1>3. CASE keep # {}
  <2> DEFINE lo == Min(keep)
             hi == Max(keep)
  <2>1. keep \in SUBSET Nat /\ keep \in SUBSET Int /\ (\A x \in keep : x <= n) /\ n \in Int
    BY <1>1
  <2>2. lo \in keep /\ \A x \in keep : lo <= x
    <3> HIDE DEF keep
    <3> QED
      BY <1>3, <2>1, MinIsMember
  <2>3. hi \in keep /\ \A x \in keep : x <= hi
    <3> HIDE DEF keep
    <3> QED
      BY <1>3, <2>1, MaxIsMember
  <2>4. TrimLeft(s, chars) = SubSeq(s, lo, n) /\ TrimRight(s, chars) = SubSeq(s, 1, hi)
    BY <1>3 DEF TrimLeft, TrimRight
  <2> HIDE DEF lo, hi
  <2>5. lo \in 1 .. n /\ hi \in 1 .. n /\ s[lo] \notin chars /\ s[hi] \notin chars /\ lo <= hi
    BY <1>1, <2>2, <2>3
  <2>6. \A i \in 1 .. lo - 1 \union hi + 1 .. n : s[i] \in chars
    <3> HIDE DEF n
    <3> QED
      BY <1>1, <2>2, <2>3, <2>5
  <2> HIDE DEF keep, n
  <2> QED
    BY <2>4, <2>5, <2>6 DEF n
<1> QED
  BY <1>2, <1>3

\* A trim takes the longest run of the characters at either end, and nothing else; whether
\* the left or the right end goes first makes no difference (TrimString of "both").
THEOREM TrimsAreLongest ==
  ASSUME NEW B, NEW s \in Seq(B), NEW chars
  PROVE  TrimLongest(s, chars)
<1> DEFINE n == Len(s)
           left == TrimLeft(s, chars)
           right == TrimRight(s, chars)
           t == TrimString(s, "both", chars)
           u == TrimString(TrimString(s, "right", chars), "left", chars)
<1>1. n \in Nat /\ t = TrimRight(left, chars) /\ u = TrimLeft(right, chars)
  BY LenProperties DEF TrimString
<1> SUFFICES /\ \E i, j \in 0 .. n : /\ i + Len(t) + j = n /\ SubSeq(s, i + 1, i + Len(t)) = t
                                     /\ \A k \in 1 .. i \union n - j + 1 .. n : s[k] \in chars
             /\ t # <<>> => t[1] \notin chars /\ t[Len(t)] \notin chars
             /\ u = t
  BY DEF TrimLongest
<1>2. CASE \A i \in 1 .. n : s[i] \in chars
  <2>1. left = <<>> /\ right = <<>>
    BY <1>2, TrimmedPart
  <2>2. t = <<>> /\ u = <<>>
    <3>1. <<>> \in Seq(B) /\ \A i \in 1 .. Len(<<>>) : <<>>[i] \in chars
      OBVIOUS
    <3>2. TrimLeft(<<>>, chars) = <<>> /\ TrimRight(<<>>, chars) = <<>>
      BY <3>1, TrimmedPart
    <3> QED
      BY <1>1, <2>1, <3>2
  <2> HIDE DEF t, u, n
  <2>3. 0 \in 0 .. n /\ n \in 0 .. n /\ 0 + Len(t) + n = n /\ SubSeq(s, 0 + 1, 0 + Len(t)) = t
    BY <1>1, <2>2
  <2>4. \A k \in 1 .. 0 \union n - n + 1 .. n : s[k] \in chars
    BY <1>1, <1>2
  <2> QED
    BY <2>2, <2>3, <2>4
<1>3. CASE \E i \in 1 .. n : s[i] \notin chars
  <2>1. PICK lo, hi \in 1 .. n :
                /\ lo <= hi /\ s[lo] \notin chars /\ s[hi] \notin chars
                /\ \A i \in 1 .. lo - 1 \union hi + 1 .. n : s[i] \in chars
                /\ left = SubSeq(s, lo, n) /\ right = SubSeq(s, 1, hi)
    BY <1>3, TrimmedPart
  <2> HIDE DEF left, right, t, u
  <2>2. /\ left \in Seq(B) /\ Len(left) = n - lo + 1
        /\ \A k \in 1 .. n - lo + 1 : left[k] = s[lo + k - 1]
    <3>1. lo \in 1 .. n + 1 /\ n \in lo - 1 .. n
      BY <1>1
    <3> QED
      BY <2>1, <3>1, PartOf
  <2>3. right \in Seq(B) /\ Len(right) = hi /\ \A k \in 1 .. hi : right[k] = s[k]
    <3>1. 1 \in 1 .. n + 1 /\ hi \in 1 - 1 .. n
      BY <1>1
    <3>2. right \in Seq(B) /\ Len(right) = hi - 1 + 1 /\ \A k \in 1 .. hi - 1 + 1 : right[k] = s[1 + k - 1]
      BY <2>1, <3>1, PartOf
    <3> HIDE DEF n
    <3> QED
      BY <1>1, <3>2
  <2> DEFINE len == hi - lo + 1
             part == SubSeq(s, lo, hi)
  <2>4. part \in Seq(B) /\ Len(part) = len /\ \A k \in 1 .. len : part[k] = s[lo + k - 1]
    <3>1. lo \in 1 .. n + 1 /\ hi \in lo - 1 .. n
      BY <1>1, <2>1
    <3> QED
      BY <3>1, PartOf
  <2> HIDE DEF part, n
  <2>5. len \in 1 .. n /\ 1 <= len
    BY <1>1, <2>1
  <2>6. t = part
    <3>1. left[len] \notin chars /\ len \in 1 .. Len(left)
      <4>1. lo + len - 1 = hi /\ len \in 1 .. n - lo + 1
        BY <1>1, <2>1
      <4> QED
        BY <2>1, <2>2, <4>1
    <3>2. PICK h \in 1 .. Len(left) :
             /\ left[h] \notin chars /\ (\A i \in h + 1 .. Len(left) : left[i] \in chars)
             /\ TrimRight(left, chars) = SubSeq(left, 1, h)
      BY <2>2, <3>1, TrimmedPart
    <3>3. h = len
      <4>1. len <= h
        BY <1>1, <2>2, <3>1, <3>2
      <4>2. ~ (len < h)
        <5> SUFFICES ASSUME len < h PROVE FALSE
          OBVIOUS
        <5>1. lo + h - 1 \in hi + 1 .. n /\ h \in 1 .. n - lo + 1
          BY <1>1, <2>1, <2>2
        <5>2. left[h] = s[lo + h - 1] /\ s[lo + h - 1] \in chars
          BY <2>1, <2>2, <5>1
        <5> QED
          BY <3>2, <5>2
      <4> QED
        BY <1>1, <2>2, <4>1, <4>2
    <3> HIDE DEF len
    <3>4. 1 \in 1 .. Len(left) + 1 /\ len \in 1 - 1 .. Len(left) /\ len \in 1 .. Len(left) /\ len - 1 + 1 = len
      BY <2>2, <3>1
    <3>5. /\ t \in Seq(B) /\ Len(t) = len
          /\ \A k \in 1 .. len : t[k] = left[1 + k - 1]
      BY <1>1, <2>2, <3>2, <3>3, <3>4, PartOf
    <3>6. \A k \in 1 .. len : t[k] = part[k]
      <4> TAKE k \in 1 .. len
      <4>1. 1 + k - 1 = k /\ k \in 1 .. n - lo + 1
        BY <1>1, <2>2, <3>4
      <4> QED
        BY <2>2, <2>4, <3>5, <4>1
    <3> QED
      BY <2>4, <3>5, <3>6, SeqEqual
  <2>7. u = part
    <3>1. right[lo] \notin chars /\ lo \in 1 .. Len(right)
      BY <2>1, <2>3
    <3>2. PICK l \in 1 .. Len(right) :
             /\ right[l] \notin chars /\ (\A i \in 1 .. l - 1 : right[i] \in chars)
             /\ TrimLeft(right, chars) = SubSeq(right, l, Len(right))
      BY <2>3, <3>1, TrimmedPart
    <3>3. l = lo
      <4>1. l <= lo
        BY <1>1, <2>1, <2>3, <3>1, <3>2
      <4>2. ~ (l < lo)
        <5> SUFFICES ASSUME l < lo PROVE FALSE
          OBVIOUS
        <5>1. l \in 1 .. lo - 1 /\ l \in 1 .. hi
          BY <1>1, <2>1, <2>3
        <5> QED
          BY <2>1, <2>3, <3>2, <5>1
      <4> QED
        BY <1>1, <2>3, <4>1, <4>2
    <3>4. lo \in 1 .. Len(right) + 1 /\ Len(right) \in lo - 1 .. Len(right)
      BY <1>1, <2>1, <2>3
    <3>5. /\ u \in Seq(B) /\ Len(u) = len
          /\ \A k \in 1 .. len : u[k] = right[lo + k - 1]
      BY <1>1, <2>3, <3>2, <3>3, <3>4, PartOf
    <3>6. \A k \in 1 .. len : u[k] = part[k]
      <4> TAKE k \in 1 .. len
      <4>1. lo + k - 1 \in 1 .. hi
        BY <1>1, <2>1
      <4> QED
        BY <2>3, <2>4, <3>5, <4>1
    <3> HIDE DEF len
    <3> QED
      BY <2>4, <3>5, <3>6, SeqEqual
  <2> DEFINE i == lo - 1
             j == n - hi
  <2>8. /\ i \in 0 .. n /\ j \in 0 .. n /\ i + len + j = n /\ i + 1 = lo /\ i + len = hi /\ n - j + 1 = hi + 1
        /\ lo + 1 - 1 = lo /\ lo + len - 1 = hi
    BY <1>1, <2>1
  <2>9. t[1] \notin chars /\ t[Len(t)] \notin chars
    <3>1. 1 \in 1 .. len /\ len \in 1 .. len
      BY <2>5
    <3> HIDE DEF len
    <3> QED
      BY <2>1, <2>4, <2>6, <2>8, <3>1
  <2>10. SubSeq(s, i + 1, i + Len(t)) = t
    <3> HIDE DEF i, j, len
    <3> QED
      BY <2>4, <2>6, <2>8 DEF part
  <2>11. \A k \in 1 .. i \union n - j + 1 .. n : s[k] \in chars
    BY <2>1, <2>8
  <2> HIDE DEF i, j, len
  <2> QED
    BY <2>4, <2>6, <2>7, <2>8, <2>9, <2>10, <2>11
<1> QED
  BY <1>2, <1>3

-----------------------------------------------------------------------------
(* Replacing *)

\* What stands between two parts is replaced: erased, and the new text inserted there.
Between(x, f, y, to, t) == InsertInto(Erase(t, Len(x) + 1, Len(f)), Len(x) + 1, to) = (x \o to) \o y

\* A turn of a replacement puts the new text where the old one stood.
LEMMA ReplacedBetween ==
  ASSUME NEW B, NEW x \in Seq(B), NEW f \in Seq(B), NEW y \in Seq(B), NEW to \in Seq(B),
         NEW t, t = (x \o f) \o y
  PROVE  Between(x, f, y, to, t)
<1> DEFINE n == Len(x)
           z == x \o f
           w == f \o y
           e == x \o y
<1>1. n \in Nat /\ Len(f) \in Nat /\ (n + 1) - 1 = n
  BY LenProperties
<1>2. z \in Seq(B) /\ Len(z) = n + Len(f) /\ w \in Seq(B) /\ e \in Seq(B) /\ t = x \o w
  BY ConcatProperties, ConcatAssociative
<1>3. SubSeq(t, 1, n) = x
  <2> HIDE DEF w
  <2> QED
    BY <1>2, PartsOfConcat
<1>4. SubSeq(t, n + 1 + Len(f), Len(t)) = y
  <2>1. t = z \o y
    OBVIOUS
  <2> HIDE DEF z
  <2>2. SubSeq(t, Len(z) + 1, Len(t)) = y
    BY <1>2, <2>1, PartsOfConcat
  <2>3. Len(z) + 1 = n + 1 + Len(f)
    BY <1>1, <1>2
  <2> QED
    BY <2>2, <2>3
<1>5. Erase(t, n + 1, Len(f)) = e
  <2> DEFINE c == (n + 1) - 1
             d == n + 1 + Len(f)
  <2>1. Erase(t, n + 1, Len(f)) = SubSeq(t, 1, c) \o SubSeq(t, d, Len(t))
    BY Zenon DEF Erase
  <2>2. SubSeq(t, 1, c) = x /\ SubSeq(t, d, Len(t)) = y
    BY <1>1, <1>3, <1>4
  <2> HIDE DEF c, d
  <2> QED
    BY <2>1, <2>2, Zenon
<1>6. SubSeq(e, 1, n) = x /\ SubSeq(e, n + 1, Len(e)) = y
  <2>1. e = x \o y
    OBVIOUS
  <2> HIDE DEF e
  <2> QED
    BY <2>1, PartsOfConcat
<1>7. InsertInto(e, n + 1, to) = (x \o to) \o y
  <2> DEFINE c == (n + 1) - 1
             d == n + 1
  <2> HIDE DEF e
  <2>1. InsertInto(e, d, to) = (SubSeq(e, 1, c) \o to) \o SubSeq(e, d, Len(e))
    BY Zenon DEF InsertInto
  <2>2. SubSeq(e, 1, c) = x /\ SubSeq(e, d, Len(e)) = y
    BY <1>1, <1>6
  <2> HIDE DEF c, d
  <2>3. InsertInto(e, d, to) = (x \o to) \o y
    BY <2>1, <2>2, Zenon
  <2> QED
    BY <2>3 DEF d
<1> QED
  BY <1>5, <1>7 DEF Between

\* Find depends on what is behind the place it begins at.
LEMMA FindNotLater ==
  ASSUME NEW B, NEW a \in Seq(B), NEW b \in Seq(B), NEW t \in Seq(B), t # <<>>,
         NEW p \in 1 .. Len(a) + 1, NEW q \in 1 .. Len(b) + 1,
         SubSeq(a, p, Len(a)) = SubSeq(b, q, Len(b)), FindFrom(a, t, p) # Npos
  PROVE  FindFrom(b, t, q) # Npos /\ FindFrom(b, t, q) - q <= FindFrom(a, t, p) - p
<1> DEFINE la == Len(a)
           lb == Len(b)
           l == Len(t)
           e == FindFrom(a, t, p)
           g == FindFrom(b, t, q)
           i == e - p + q
<1>1. la \in Nat /\ lb \in Nat /\ l \in Nat /\ l >= 1
  BY LenProperties, EmptySeq
<1>2. la \in p - 1 .. la /\ lb \in q - 1 .. lb /\ p \in Nat \ {0} /\ q \in Nat \ {0}
  BY <1>1
<1>3. /\ Len(SubSeq(a, p, la)) = la - p + 1
      /\ \A k \in 1 .. la - p + 1 : SubSeq(a, p, la)[k] = a[p + k - 1]
  BY <1>2, PartOf, ZenonT(40)
<1>4. /\ Len(SubSeq(b, q, lb)) = lb - q + 1
      /\ \A k \in 1 .. lb - q + 1 : SubSeq(b, q, lb)[k] = b[q + k - 1]
  BY <1>2, PartOf
<1>5. la - p = lb - q /\ \A k \in 1 .. la - p + 1 : a[p + k - 1] = b[q + k - 1]
  <2> DEFINE u == SubSeq(a, p, la)
             v == SubSeq(b, q, lb)
  <2>1. u = v
    OBVIOUS
  <2>2. Len(u) = la - p + 1 /\ \A k \in 1 .. la - p + 1 : u[k] = a[p + k - 1]
    BY <1>3
  <2>3. Len(v) = lb - q + 1 /\ \A k \in 1 .. lb - q + 1 : v[k] = b[q + k - 1]
    BY <1>4
  <2> HIDE DEF la, lb, u, v
  <2>4. la - p = lb - q
    BY <1>1, <1>2, <2>1, <2>2, <2>3
  <2> QED
    BY <2>1, <2>2, <2>3, <2>4
<1>6. e \in p .. la - l + 1 /\ SubSeq(a, e, e + l - 1) = t
  BY <1>2, FindIs
<1> HIDE DEF la, lb, l, e, g
<1>7. /\ i \in q .. lb - l + 1 /\ i \in 1 .. lb + 1 /\ i + l - 1 \in i - 1 .. lb
      /\ e \in 1 .. la + 1 /\ e + l - 1 \in e - 1 .. la
  BY <1>1, <1>2, <1>5, <1>6
<1>8. SubSeq(b, i, i + l - 1) = t
  <2> DEFINE u == SubSeq(a, e, e + l - 1)
             v == SubSeq(b, i, i + l - 1)
             eh == e + l - 1
             ih == i + l - 1
  <2>1. u \in Seq(B) /\ Len(u) = l /\ \A k \in 1 .. l : u[k] = a[e + k - 1]
    <3> HIDE DEF eh
    <3>1. /\ SubSeq(a, e, eh) \in Seq(B) /\ Len(SubSeq(a, e, eh)) = eh - e + 1
          /\ \A k \in 1 .. eh - e + 1 : SubSeq(a, e, eh)[k] = a[e + k - 1]
      BY <1>7, PartOf DEF la, eh
    <3>2. eh - e + 1 = l
      BY <1>1, <1>6 DEF eh
    <3> QED
      BY <3>1, <3>2 DEF eh
  <2>2. v \in Seq(B) /\ Len(v) = l /\ \A k \in 1 .. l : v[k] = b[i + k - 1]
    <3> HIDE DEF ih, i
    <3>1. /\ SubSeq(b, i, ih) \in Seq(B) /\ Len(SubSeq(b, i, ih)) = ih - i + 1
          /\ \A k \in 1 .. ih - i + 1 : SubSeq(b, i, ih)[k] = b[i + k - 1]
      BY <1>7, PartOf DEF lb, ih
    <3>2. ih - i + 1 = l
      BY <1>1, <1>7 DEF ih
    <3> QED
      BY <3>1, <3>2 DEF ih
  <2>3. \A k \in 1 .. l : a[e + k - 1] = b[i + k - 1]
    <3> TAKE k \in 1 .. l
    <3>1. e - p + k \in 1 .. la - p + 1 /\ p + (e - p + k) - 1 = e + k - 1 /\ q + (e - p + k) - 1 = i + k - 1
      BY <1>1, <1>2, <1>6
    <3> HIDE DEF i
    <3> QED
      BY <1>5, <3>1
  <2> HIDE DEF u, v, i
  <2>4. u = v
    BY <2>1, <2>2, <2>3, SeqEqual
  <2> QED
    BY <1>6, <2>4 DEF u, v
<1>9. /\ g # Npos => \A j \in q .. g - 1 : SubSeq(b, j, j + l - 1) # t
      /\ g = Npos => \A j \in q .. lb - l + 1 : SubSeq(b, j, j + l - 1) # t
      /\ g # Npos => g \in q .. lb - l + 1
  <2> USE DEF g, lb, l
  <2>1. q \in Nat \ {0}
    BY <1>2
  <2>2. g # Npos => \A j \in q .. g - 1 : SubSeq(b, j, j + l - 1) # t
    BY <2>1, FindIs
  <2>3. g = Npos => \A j \in q .. lb - l + 1 : SubSeq(b, j, j + l - 1) # t
    <3> SUFFICES ASSUME g = Npos, NEW j \in q .. lb - l + 1 PROVE SubSeq(b, j, j + l - 1) # t
      BY Zenon
    <3> QED
      BY <2>1, FindNone
  <2>4. g # Npos => g \in q .. lb - l + 1
    BY <2>1, FindIs
  <2> QED
    BY <2>2, <2>3, <2>4, Zenon
<1>10. g # Npos
  <2> HIDE DEF i
  <2> QED
    BY <1>7, <1>8, <1>9
<1>11. g <= i
  <2> HIDE DEF i
  <2>1. ASSUME g > i PROVE FALSE
    <3>1. i \in q .. g - 1
      BY <1>1, <1>7, <1>9, <1>10, <2>1
    <3> QED
      BY <1>8, <1>9, <1>10, <3>1
  <2> QED
    BY <1>1, <1>2, <1>7, <1>9, <1>10, <2>1
<1> QED
  BY <1>1, <1>2, <1>6, <1>9, <1>10, <1>11 DEF g, e

\* A search finds nothing in one of two texts exactly when it finds nothing in the other, when
\* what is behind their places is the same.
LEMMA FindBehindNone ==
  ASSUME NEW B, NEW a \in Seq(B), NEW b \in Seq(B), NEW t \in Seq(B), t # <<>>,
         NEW p \in 1 .. Len(a) + 1, NEW q \in 1 .. Len(b) + 1,
         SubSeq(a, p, Len(a)) = SubSeq(b, q, Len(b))
  PROVE  FindFrom(a, t, p) = Npos <=> FindFrom(b, t, q) = Npos
BY FindNotLater

\* The same is found behind two places.
FoundBehind(a, b, t, p, q) == FindFrom(a, t, p) = FindFrom(b, t, q) - q + p

\* What a search finds behind a place depends on what is behind it, and on nothing before.
LEMMA FindBehind ==
  ASSUME NEW B, NEW a \in Seq(B), NEW b \in Seq(B), NEW t \in Seq(B), t # <<>>,
         NEW p \in 1 .. Len(a) + 1, NEW q \in 1 .. Len(b) + 1,
         SubSeq(a, p, Len(a)) = SubSeq(b, q, Len(b)), FindFrom(b, t, q) # Npos
  PROVE  FoundBehind(a, b, t, p, q)
<1> DEFINE e == FindFrom(a, t, p)
           g == FindFrom(b, t, q)
<1>1. e # Npos /\ e - p <= g - q
  BY FindNotLater
<1>2. g - q <= e - p
  BY <1>1, FindNotLater
<1>3. e \in Int /\ g \in Int /\ p \in Int /\ q \in Int
  <2>1. p \in Nat \ {0} /\ q \in Nat \ {0} /\ Len(a) \in Nat /\ Len(b) \in Nat /\ Len(t) \in Nat
    BY LenProperties
  <2>2. e \in p .. Len(a) - Len(t) + 1 /\ g \in q .. Len(b) - Len(t) + 1
    BY <1>1, <2>1, FindIs
  <2> HIDE DEF e, g
  <2> QED
    BY <2>1, <2>2
<1> HIDE DEF e, g
<1>4. e = g - q + p
  BY <1>1, <1>2, <1>3
<1> QED
  BY <1>4 DEF e, g, FoundBehind

\* The texts of a replacement between its turns.
Replacing(B) == [text : Seq(B), start : Nat \ {0}]

\* A turn of a replacement leaves a text and a place.
LEMMA ReplacedTyped ==
  ASSUME NEW B, NEW from \in Seq(B), from # <<>>, NEW to \in Seq(B), NEW r \in Replacing(B)
  PROVE  Replaced(r, from, to, Len(to)) \in Replacing(B)
<1> DEFINE t == r.text
           at == FindFrom(t, from, r.start)
           l == Len(from)
           n == Len(t)
<1>1. t \in Seq(B) /\ r.start \in Nat \ {0} /\ l \in Nat /\ l >= 1 /\ n \in Nat /\ Len(to) \in Nat
  <2>1. t \in Seq(B) /\ r.start \in Nat \ {0}
    BY DEF Replacing
  <2> QED
    BY <2>1, LenProperties, EmptySeq
<1>2. CASE at = Npos
  BY <1>2 DEF Replaced
<1>3. CASE at # Npos
  <2>1. at \in r.start .. n - l + 1
    BY <1>1, <1>3, FindIs
  <2> DEFINE x == SubSeq(t, 1, at - 1)
             y == SubSeq(t, at + l, n)
             e == x \o y
             k == at - 1
             c == at + l
  <2> HIDE DEF at, t, n, l
  <2>2. at \in Nat \ {0} /\ k \in 1 - 1 .. n /\ c \in 1 .. n + 1 /\ n \in c - 1 .. n /\ 1 \in 1 .. n + 1
    BY <1>1, <2>1
  <2>3. x \in Seq(B) /\ Len(x) = k
    <3> HIDE DEF k
    <3>1. SubSeq(t, 1, k) \in Seq(B) /\ Len(SubSeq(t, 1, k)) = k - 1 + 1
      BY <1>1, <2>2, PartOf DEF n
    <3> QED
      BY <2>2, <3>1 DEF k
  <2>4. y \in Seq(B)
    <3> HIDE DEF c
    <3>1. SubSeq(t, c, n) \in Seq(B)
      BY <1>1, <2>2, PartOf DEF n
    <3> QED
      BY <3>1 DEF c
  <2>5. Erase(t, at, l) = e
    BY Zenon DEF Erase, n
  <2>6. e \in Seq(B) /\ SubSeq(e, 1, k) = x /\ SubSeq(e, at, Len(e)) = y
    <3>1. e = x \o y
      OBVIOUS
    <3> HIDE DEF x, y, e
    <3>2. /\ e \in Seq(B) /\ SubSeq(e, 1, Len(x)) = x /\ SubSeq(e, Len(x) + 1, Len(e)) = y
      BY <2>3, <2>4, <3>1, PartsOfConcat
    <3>3. Len(x) = k /\ Len(x) + 1 = at
      BY <2>2, <2>3
    <3> QED
      BY <3>2, <3>3
  <2>7. InsertInto(e, at, to) = (SubSeq(e, 1, k) \o to) \o SubSeq(e, at, Len(e))
    BY Zenon DEF InsertInto
  <2>8. InsertInto(e, at, to) \in Seq(B)
    <3> HIDE DEF x, y, e
    <3>1. (x \o to) \o y \in Seq(B)
      BY <2>3, <2>4, ConcatProperties
    <3> QED
      BY <2>6, <2>7, <3>1
  <2>9. Replaced(r, from, to, Len(to)) = [text |-> InsertInto(e, at, to), start |-> at + Len(to)]
    <3>1. Replaced(r, from, to, Len(to))
            = [text |-> InsertInto(Erase(t, at, l), at, to), start |-> at + Len(to)]
      BY <1>3 DEF Replaced, at, t, l
    <3> QED
      BY <2>5, <3>1
  <2> HIDE DEF e
  <2> QED
    BY <1>1, <2>2, <2>8, <2>9 DEF Replacing
<1> QED
  BY <1>2, <1>3

\* The turns of a replacement.
Turns(s, from, to, f) ==
  /\ ReplaceString(s, from, to) = f[Len(s)].text
  /\ f[0] = [text |-> s, start |-> 1]
  /\ \A k \in 1 .. Len(s) : f[k] = Replaced(f[k - 1], from, to, Len(to))

\* A replacement is its turns, one behind the other.
LEMMA ReplaceTurns ==
  ASSUME NEW B, NEW s \in Seq(B), NEW from \in Seq(B), from # <<>>, NEW to \in Seq(B)
  PROVE  \E f \in [0 .. Len(s) -> Replacing(B)] : Turns(s, from, to, f)
<1> DEFINE n == Len(s)
           A == Replacing(B)
           a == [text |-> s, start |-> 1]
           step == [c \in (1 .. n) \X A |-> Replaced(c[2], from, to, Len(to))]
<1>1. n \in Nat /\ a \in A
  BY LenProperties DEF Replacing
<1>2. \A r \in A : Replaced(r, from, to, Len(to)) \in A
  BY ReplacedTyped
<1> HIDE DEF n, a, A
<1>3. step \in [(1 .. n) \X A -> A]
  BY <1>2
<1>4. PICK f : f \in Recursion(n, A, a, step)
  <2> HIDE DEF step
  <2> QED
    BY <1>1, <1>3, IntervalRecursion
<1>5. f \in [0 .. n -> A] /\ f[0] = a /\ \A k \in 1 .. n : f[k] = step[<<k, f[k - 1]>>]
  BY <1>4 DEF Recursion
<1>6. ASSUME NEW k \in 1 .. n PROVE f[k] = Replaced(f[k - 1], from, to, Len(to))
  <2>1. f[k - 1] \in A
    <3>1. k - 1 \in 0 .. n
      BY <1>1
    <3> QED
      BY <1>5, <3>1
  <2> QED
    BY <1>5, <2>1
<1> DEFINE body(g) == [k \in 0 .. n |-> IF k = 0 THEN a ELSE Replaced(g[k - 1], from, to, Len(to))]
           h == CHOOSE g : g = body(g)
<1>7. f = body(f)
  <2>1. \A k \in 0 .. n : f[k] = IF k = 0 THEN a ELSE Replaced(f[k - 1], from, to, Len(to))
    BY <1>1, <1>5, <1>6
  <2> QED
    BY <1>5, <2>1
<1>8. h = body(h)
  <2> HIDE DEF body
  <2> QED
    BY <1>7, Zenon
<1>9. ReplaceString(s, from, to) = h[n].text
  BY DEF ReplaceString, h, body, a, n
<1> HIDE DEF h
<1>10. h[n] = f[n]
  <2> DEFINE S == {k \in 0 .. n : h[k] = f[k]}
  <2>1. 0 \in S
    <3>1. h[0] = a
      BY <1>1, <1>8
    <3> QED
      BY <1>1, <1>5, <3>1
  <2>2. ASSUME NEW k \in 0 .. (n - 1), k \in S PROVE k + 1 \in S
    <3>1. k + 1 \in 1 .. n /\ k + 1 \in 0 .. n /\ (k + 1) - 1 = k /\ k + 1 # 0
      BY <1>1
    <3>2. h[k + 1] = Replaced(h[k], from, to, Len(to))
      <4>1. h[k + 1] = IF k + 1 = 0 THEN a ELSE Replaced(h[(k + 1) - 1], from, to, Len(to))
        BY <1>8, <3>1
      <4> QED
        BY <3>1, <4>1
    <3>3. f[k + 1] = Replaced(f[k], from, to, Len(to))
      BY <1>6, <3>1
    <3> QED
      BY <2>2, <3>1, <3>2, <3>3
  <2> HIDE DEF S
  <2>3. \A k \in 0 .. n : k \in S
    BY <1>1, <2>1, <2>2, IntervalInduction
  <2> QED
    BY <1>1, <2>3 DEF S
<1>11. Turns(s, from, to, f)
  BY <1>5, <1>6, <1>9, <1>10 DEF Turns, a, n
<1> QED
  BY <1>5, <1>11 DEF n, A

\* A turn with a place to replace behind what is done.
Turned(s, from, to, done, p, r) ==
  /\ FindFrom(s, from, p) = Npos => Replaced(r, from, to, Len(to)) = r
  /\ FindFrom(s, from, p) # Npos =>
       LET mid == SubSeq(s, p, FindFrom(s, from, p) - 1)
           more == (done \o mid) \o to
       IN Replaced(r, from, to, Len(to))
          = [text |-> more \o SubSeq(s, FindFrom(s, from, p) + Len(from), Len(s)), start |-> Len(more) + 1]

\* A turn replaces the next text found behind what is done, or changes nothing more.
LEMMA TurnReplaces ==
  ASSUME NEW B, NEW s \in Seq(B), NEW from \in Seq(B), from # <<>>, NEW to \in Seq(B),
         NEW done \in Seq(B), NEW p \in 1 .. Len(s) + 1, NEW r,
         r = [text |-> done \o SubSeq(s, p, Len(s)), start |-> Len(done) + 1]
  PROVE  Turned(s, from, to, done, p, r)
<1> DEFINE n == Len(s)
           tail == SubSeq(s, p, n)
           t == done \o tail
           d == Len(done) + 1
           e == FindFrom(s, from, p)
           at == FindFrom(t, from, d)
           l == Len(from)
<1>1. n \in Nat /\ Len(done) \in Nat /\ Len(to) \in Nat /\ l \in Nat /\ n \in p - 1 .. n /\ p \in Int
  BY LenProperties
<1>2. tail \in Seq(B)
  BY <1>1, PartOf
<1>3. t \in Seq(B) /\ Len(t) = Len(done) + Len(tail) /\ SubSeq(t, d, Len(t)) = tail
  <2>1. t = done \o tail
    OBVIOUS
  <2> HIDE DEF tail, t
  <2> QED
    BY <1>2, <2>1, PartsOfConcat
<1>4. (at = Npos <=> e = Npos) /\ (e # Npos => at = e - p + d)
  <2>1. d \in 1 .. Len(t) + 1
    <3>1. Len(tail) \in Nat
      BY <1>2, LenProperties
    <3> HIDE DEF t, tail
    <3> QED
      BY <1>1, <1>3, <3>1
  <2>2. SubSeq(t, d, Len(t)) = SubSeq(s, p, Len(s))
    BY <1>3
  <2> HIDE DEF t, d, tail
  <2>3. FindFrom(t, from, d) = Npos <=> FindFrom(s, from, p) = Npos
    BY <1>3, <2>1, <2>2, FindBehindNone, ZenonT(40)
  <2>4. ASSUME FindFrom(s, from, p) # Npos PROVE FindFrom(t, from, d) = FindFrom(s, from, p) - p + d
    <3>1. FoundBehind(t, s, from, d, p)
      BY <1>3, <2>1, <2>2, <2>4, FindBehind
    <3> QED
      BY <3>1 DEF FoundBehind
  <2> QED
    BY <2>3, <2>4
<1>5. r.text = t /\ r.start = d
  OBVIOUS
<1>6. CASE e = Npos
  <2>1. at = Npos
    BY <1>4, <1>6
  <2>2. FindFrom(r.text, from, r.start) = Npos
    BY <1>5, <2>1
  <2>3. Replaced(r, from, to, Len(to)) = r
    BY <2>2 DEF Replaced
  <2> QED
    BY <1>6, <2>3 DEF Turned
<1>7. CASE e # Npos
  <2> DEFINE mid == SubSeq(s, p, e - 1)
             y == SubSeq(s, e + l, n)
             x == done \o mid
             more == x \o to
  <2>1. /\ e \in p .. n /\ mid \in Seq(B) /\ y \in Seq(B) /\ (mid \o from) \o y = tail
    BY <1>7, CutAt
  <2>2. Len(mid) = e - p
    <3> DEFINE k == e - 1
    <3>1. k \in p - 1 .. n
      <4>1. e \in p .. n
        BY <2>1
      <4> HIDE DEF e
      <4> QED
        BY <1>1, <4>1
    <3> HIDE DEF k, e
    <3>2. Len(SubSeq(s, p, k)) = k - p + 1
      BY <3>1, PartOf
    <3>3. k - p + 1 = e - p
      BY <1>1, <2>1 DEF k
    <3> QED
      BY <3>2, <3>3 DEF k
  <2>3. x \in Seq(B) /\ Len(x) = Len(done) + (e - p) /\ t = (x \o from) \o y
    <3> HIDE DEF mid, y, tail, e
    <3>1. mid \in Seq(B) /\ y \in Seq(B)
      BY <2>1
    <3>2. /\ done \o mid \in Seq(B) /\ Len(done \o mid) = Len(done) + Len(mid)
          /\ done \o ((mid \o from) \o y) = ((done \o mid) \o from) \o y
      <4>1. Regrouped(done, mid, from, y) /\ done \o mid \in Seq(B)
        BY <3>1, ConcatRegroup
      <4> QED
        BY <4>1, Zenon DEF Regrouped
    <3>3. t = done \o ((mid \o from) \o y)
      BY <2>1
    <3> QED
      BY <2>2, <3>2, <3>3
  <2>4. at = Len(x) + 1 /\ at # Npos
    <3> HIDE DEF at, e, x
    <3> QED
      BY <1>1, <1>4, <1>7, <2>1, <2>3
  <2>5. InsertInto(Erase(t, Len(x) + 1, l), Len(x) + 1, to) = (x \o to) \o y
    <3>1. x \in Seq(B) /\ y \in Seq(B) /\ t = (x \o from) \o y
      BY <2>1, <2>3
    <3> HIDE DEF x, y, t
    <3> QED
      <4>1. Between(x, from, y, to, t)
        BY <3>1, ReplacedBetween
      <4> QED
        BY <4>1, Zenon DEF Between
  <2>6. Len(more) + 1 = at + Len(to)
    <3> HIDE DEF x, at
    <3>1. Len(more) = Len(x) + Len(to)
      BY <2>3, ConcatProperties
    <3>2. Len(x) \in Nat
      BY <2>3, LenProperties
    <3> QED
      BY <1>1, <2>4, <3>1, <3>2
  <2>7. Replaced(r, from, to, Len(to)) = [text |-> InsertInto(Erase(t, at, l), at, to), start |-> at + Len(to)]
    <3>1. FindFrom(r.text, from, r.start) = at
      BY <1>5
    <3>2. at # Npos
      BY <2>4
    <3>3. r.text = t
      BY <1>5
    <3> HIDE DEF at, t
    <3> QED
      BY <3>1, <3>2, <3>3 DEF Replaced
  <2>8. InsertInto(Erase(t, at, l), at, to) = more \o y
    <3> HIDE DEF x, y, t, at
    <3> QED
      BY <2>4, <2>5
  <2>9. Replaced(r, from, to, Len(to)) = [text |-> more \o y, start |-> Len(more) + 1]
    <3> HIDE DEF more, y, at, t
    <3> QED
      BY <2>6, <2>7, <2>8
  <2> QED
    BY <1>7, <2>9 DEF Turned
<1> QED
  BY <1>6, <1>7

\* The parts of a text from a place on, joined with another text.
JoinsFrom(s, from, to, j) ==
  /\ s # <<>> => JoinString(SplitString(s, from, FALSE), to) = j[1]
  /\ \A i \in 1 .. Len(s) + 1 :
       /\ FindFrom(s, from, i) = Npos => j[i] = SubSeq(s, i, Len(s))
       /\ FindFrom(s, from, i) # Npos =>
            /\ FindFrom(s, from, i) + Len(from) \in i + 1 .. Len(s) + 1
            /\ j[i] = (SubSeq(s, i, FindFrom(s, from, i) - 1) \o to) \o j[FindFrom(s, from, i) + Len(from)]

\* A split and a join in one loop.
LEMMA SplitJoined ==
  ASSUME NEW B, NEW s \in Seq(B), NEW from \in Seq(B), from # <<>>, NEW to \in Seq(B)
  PROVE  \E j \in [1 .. Len(s) + 1 -> Seq(B)] : JoinsFrom(s, from, to, j)
<1> DEFINE n == Len(s)
           m == n + 1
           E(i) == FindFrom(s, from, i)
           l == Len(from)
<1>1. n \in Nat /\ m \in Nat
  BY LenProperties
<1>2. PICK g, h \in [1 .. m -> Seq(Seq(B))] : Splits(s, from, g, h)
  BY BothSplits
<1>3. /\ s # <<>> => SplitString(s, from, FALSE) = g[1]
      /\ \A i \in 1 .. m :
           /\ E(i) = Npos => g[i] = <<SubSeq(s, i, n)>>
           /\ E(i) # Npos =>
                /\ E(i) + l \in i + 1 .. m
                /\ g[i] = <<SubSeq(s, i, E(i) - 1)>> \o g[E(i) + l]
  BY <1>2 DEF Splits
<1> DEFINE j == [i \in 1 .. m |-> JoinString(g[i], to)]
<1>4. ASSUME NEW i \in 1 .. m PROVE j[i] \in Seq(B) /\ g[i] \in Seq(Seq(B)) /\ j[i] = JoinString(g[i], to)
  <2>1. g[i] \in Seq(Seq(B)) /\ to \in Seq(B)
    OBVIOUS
  <2>2. JoinString(g[i], to) \in Seq(B)
    BY <2>1, JoinOne
  <2> QED
    BY <2>1, <2>2
<1>5. ASSUME NEW i \in 1 .. m PROVE g[i] # <<>>
  <2>1. CASE E(i) = Npos
    <3> DEFINE x == SubSeq(s, i, n)
    <3>1. g[i] = <<x>>
      BY <1>3, <2>1
    <3> HIDE DEF x
    <3>2. <<x>> # <<>>
      OBVIOUS
    <3> QED
      BY <3>1, <3>2
  <2>2. CASE E(i) # Npos
    <3> DEFINE x == SubSeq(s, i, E(i) - 1)
               k == E(i) + l
               rest == g[k]
    <3>1. g[i] = <<x>> \o rest /\ k \in i + 1 .. m
      BY <1>3, <2>2
    <3> HIDE DEF k
    <3>2. k \in 1 .. m
      BY <1>1, <3>1
    <3>3. x \in Seq(B) /\ rest \in Seq(Seq(B))
      BY <1>4, <2>2, <3>2, CutAt
    <3> HIDE DEF x, rest
    <3>4. <<x>> \o rest # <<>>
      BY <3>3
    <3> QED
      BY <3>1, <3>4
  <2> QED
    BY <2>1, <2>2
<1>6. ASSUME NEW i \in 1 .. m, E(i) = Npos PROVE j[i] = SubSeq(s, i, n)
  <2> DEFINE x == SubSeq(s, i, n)
  <2>1. n \in i - 1 .. n
    BY <1>1
  <2>2. x \in Seq(B)
    BY <2>1, PartOf
  <2>3. g[i] = <<x>>
    BY <1>3, <1>6
  <2> HIDE DEF x
  <2>4. JoinString(<<x>>, to) = x
    <3>1. <<>> \in Seq(Seq(B))
      OBVIOUS
    <3> QED
      BY <2>2, <3>1, JoinOne, ZenonT(40)
  <2>5. j[i] = x
    BY <1>4, <2>3, <2>4
  <2> QED
    BY <2>5 DEF x
<1>7. ASSUME NEW i \in 1 .. m, E(i) # Npos
      PROVE  E(i) + l \in i + 1 .. m /\ j[i] = (SubSeq(s, i, E(i) - 1) \o to) \o j[E(i) + l]
  <2> DEFINE x == SubSeq(s, i, E(i) - 1)
             k == E(i) + l
             rest == g[k]
             all == g[i]
  <2>1. all = <<x>> \o rest /\ k \in i + 1 .. m
    BY <1>3, <1>7
  <2> HIDE DEF k
  <2>2. k \in 1 .. m
    BY <1>1, <2>1
  <2>3. x \in Seq(B) /\ rest \in Seq(Seq(B)) /\ rest # <<>>
    BY <1>4, <1>5, <1>7, <2>2, CutAt
  <2>4. j[k] = JoinString(rest, to) /\ j[i] = JoinString(all, to)
    BY <1>4, <2>2
  <2> HIDE DEF x, rest, all, j
  <2>5. JoinString(all, to) = (x \o to) \o JoinString(rest, to)
    BY <2>1, <2>3, JoinMore, ZenonT(40)
  <2>6. j[i] = (x \o to) \o j[k]
    BY <2>4, <2>5
  <2> QED
    BY <2>1, <2>6 DEF x, k
<1>8. JoinsFrom(s, from, to, j)
  <2>1. 1 \in 1 .. m
    BY <1>1
  <2>2. s # <<>> => JoinString(SplitString(s, from, FALSE), to) = j[1]
    BY <1>3, <2>1
  <2> HIDE DEF j
  <2> QED
    BY <1>6, <1>7, <2>2 DEF JoinsFrom
<1>9. j \in [1 .. m -> Seq(B)]
  BY <1>4
<1> QED
  BY <1>8, <1>9

\* How far a replacement is after some turns: what is done, and the place of the text it is at.
Stage(s, from, j, k, r, done, p) ==
  /\ r = [text |-> done \o SubSeq(s, p, Len(s)), start |-> Len(done) + 1]
  /\ j[1] = done \o j[p]
  /\ FindFrom(s, from, p) = Npos \/ p >= k + 1

\* A turn of a replacement brings it to a next stage of the joined split.
LEMMA NextStage ==
  ASSUME NEW B, NEW s \in Seq(B), NEW from \in Seq(B), from # <<>>, NEW to \in Seq(B),
         NEW j \in [1 .. Len(s) + 1 -> Seq(B)], JoinsFrom(s, from, to, j),
         NEW k \in Nat, NEW r, NEW done \in Seq(B), NEW p \in 1 .. Len(s) + 1,
         Stage(s, from, j, k, r, done, p)
  PROVE  \E more \in Seq(B), q \in 1 .. Len(s) + 1 :
            Stage(s, from, j, k + 1, Replaced(r, from, to, Len(to)), more, q)
<1> DEFINE n == Len(s)
           e == FindFrom(s, from, p)
           l == Len(from)
<1>1. n \in Nat
  BY LenProperties
<1>2. r = [text |-> done \o SubSeq(s, p, n), start |-> Len(done) + 1] /\ j[1] = done \o j[p]
      /\ (e = Npos \/ p >= k + 1)
  BY DEF Stage
<1>3. Turned(s, from, to, done, p, r)
  BY <1>2, TurnReplaces
<1>4. CASE e = Npos
  <2>1. Replaced(r, from, to, Len(to)) = r
    BY <1>4, <1>3 DEF Turned
  <2>2. Stage(s, from, j, k + 1, Replaced(r, from, to, Len(to)), done, p)
    BY <1>2, <1>4, <2>1 DEF Stage
  <2> QED
    BY <2>2
<1>5. CASE e # Npos
  <2> DEFINE mid == SubSeq(s, p, e - 1)
             more == (done \o mid) \o to
             q == e + l
  <2>1. Replaced(r, from, to, Len(to)) = [text |-> more \o SubSeq(s, q, n), start |-> Len(more) + 1]
    BY <1>5, <1>3 DEF Turned
  <2>2. q \in p + 1 .. n + 1 /\ j[p] = (mid \o to) \o j[q]
    BY <1>5 DEF JoinsFrom
  <2>3. mid \in Seq(B)
    BY <1>5, CutAt
  <2> HIDE DEF e, q, mid
  <2>4. q \in 1 .. n + 1 /\ q >= k + 1 + 1
    BY <1>1, <1>2, <1>5, <2>2
  <2>5. j[q] \in Seq(B)
    BY <2>4
  <2>6. j[1] = more \o j[q] /\ more \in Seq(B)
    <3> DEFINE y == j[q]
    <3> HIDE DEF y
    <3>1. y \in Seq(B)
      BY <2>5 DEF y
    <3>2. Regrouped(done, mid, to, y) /\ done \o mid \in Seq(B)
      BY <2>3, <3>1, ConcatRegroup
    <3>3. done \o ((mid \o to) \o y) = ((done \o mid) \o to) \o y
      BY <3>2, Zenon DEF Regrouped
    <3>4. more \in Seq(B)
      BY <3>2, ConcatProperties
    <3> HIDE DEF more
    <3> QED
      BY <1>2, <2>2, <3>3, <3>4 DEF y, more
  <2>7. Stage(s, from, j, k + 1, Replaced(r, from, to, Len(to)), more, q)
    <3> HIDE DEF more
    <3> QED
      BY <2>1, <2>4, <2>6 DEF Stage
  <2> HIDE DEF more
  <2> QED
    BY <2>4, <2>6, <2>7
<1> QED
  BY <1>4, <1>5

\* Replacing a text that is not empty is splitting at it and joining with the new one
\* (replace_string), whatever the text: what was inserted is never searched again.
THEOREM ReplacesOnce ==
  ASSUME NEW B, NEW s \in Seq(B), NEW from \in Seq(B), from # <<>>, NEW to \in Seq(B)
  PROVE  ReplaceIsSplitJoin(s, from, to)
<1> DEFINE n == Len(s)
           l == Len(from)
<1>1. n \in Nat /\ l \in Nat /\ l >= 1
  BY LenProperties, EmptySeq
<1>2. PICK f \in [0 .. n -> Replacing(B)] : Turns(s, from, to, f)
  BY ReplaceTurns
<1>3. PICK j \in [1 .. n + 1 -> Seq(B)] : JoinsFrom(s, from, to, j)
  BY SplitJoined
<1>4. /\ ReplaceString(s, from, to) = f[n].text /\ f[0] = [text |-> s, start |-> 1]
      /\ \A k \in 1 .. n : f[k] = Replaced(f[k - 1], from, to, Len(to))
  BY <1>2 DEF Turns
<1>5. CASE s = <<>>
  <2>1. n = 0 /\ SplitString(s, from, FALSE) = <<>>
    BY <1>5 DEF SplitString
  <2>2. JoinString(<<>>, to) = <<>>
    <3>1. [i \in DOMAIN <<>> |-> IF i < Len(<<>>) THEN <<>>[i] \o to ELSE <<>>[i]] = <<>>
      OBVIOUS
    <3>2. FlattenSeq(<<>>) = <<>>
      BY DEF FlattenSeq
    <3> QED
      BY <3>1, <3>2 DEF JoinString
  <2>3. ReplaceString(s, from, to) = <<>>
    BY <1>4, <1>5, <2>1
  <2> QED
    BY <2>1, <2>2, <2>3 DEF ReplaceIsSplitJoin
<1>6. CASE s # <<>>
  <2> DEFINE At(k) == \E done \in Seq(B), p \in 1 .. n + 1 : Stage(s, from, j, k, f[k], done, p)
             S == {k \in 0 .. n : At(k)}
  <2>1. 0 \in S
    <3>1. j[1] \in Seq(B) /\ 1 \in 1 .. n + 1
      BY <1>1
    <3>2. SubSeq(s, 1, n) = s
      BY SubSeqFull
    <3>3. <<>> \o s = s /\ <<>> \o j[1] = j[1] /\ <<>> \in Seq(B) /\ Len(<<>>) + 1 = 1
      BY <3>1, ConcatEmptySeq
    <3>4. Stage(s, from, j, 0, f[0], <<>>, 1)
      BY <1>4, <3>2, <3>3 DEF Stage
    <3>5. At(0) /\ 0 \in 0 .. n
      <4> DEFINE none == <<>>
      <4>1. none \in Seq(B) /\ 1 \in 1 .. n + 1 /\ Stage(s, from, j, 0, f[0], none, 1)
        BY <3>1, <3>3, <3>4
      <4> HIDE DEF none
      <4>2. At(0)
        BY <4>1
      <4> QED
        BY <1>1, <4>2
    <3> HIDE DEF At
    <3> QED
      BY <3>5
  <2>2. ASSUME NEW k \in 0 .. (n - 1), k \in S PROVE k + 1 \in S
    <3>1. PICK done \in Seq(B), p \in 1 .. n + 1 : Stage(s, from, j, k, f[k], done, p)
      BY <2>2
    <3>2. k \in Nat /\ k + 1 \in 1 .. n /\ (k + 1) - 1 = k /\ k + 1 \in 0 .. n
      BY <1>1
    <3>3. \E more \in Seq(B), q \in 1 .. n + 1 :
             Stage(s, from, j, k + 1, Replaced(f[k], from, to, Len(to)), more, q)
      BY <1>3, <3>1, <3>2, NextStage
    <3>4. f[k + 1] = Replaced(f[k], from, to, Len(to))
      BY <1>4, <3>2
    <3>5. At(k + 1)
      BY <3>3, <3>4
    <3> HIDE DEF At
    <3> QED
      BY <3>2, <3>5
  <2>3. At(n)
    <3>1. n \in S
      <4> HIDE DEF S
      <4>1. \A k \in 0 .. n : k \in S
        BY <1>1, <2>1, <2>2, IntervalInduction
      <4> QED
        BY <1>1, <4>1
    <3> QED
      BY <3>1
  <2>4. PICK done \in Seq(B), p \in 1 .. n + 1 : Stage(s, from, j, n, f[n], done, p)
    BY <2>3
  <2>5. FindFrom(s, from, p) = Npos
    <3>1. ASSUME FindFrom(s, from, p) # Npos PROVE FALSE
      <4>1. FindFrom(s, from, p) \in p .. n /\ p >= n + 1
        <5>1. FindFrom(s, from, p) \in p .. n
          BY <3>1, CutAt
        <5>2. p >= n + 1
          BY <2>4, <3>1 DEF Stage
        <5> QED
          BY <5>1, <5>2
      <4> DEFINE e == FindFrom(s, from, p)
      <4> HIDE DEF e
      <4>2. e \in p .. n /\ p >= n + 1
        BY <4>1 DEF e
      <4> QED
        BY <1>1, <4>2
    <3> QED
      BY <3>1
  <2>6. j[p] = SubSeq(s, p, n)
    BY <1>3, <2>5 DEF JoinsFrom
  <2>7. f[n].text = done \o SubSeq(s, p, n) /\ j[1] = done \o j[p]
    BY <2>4, SMTT(30) DEF Stage
  <2>8. JoinString(SplitString(s, from, FALSE), to) = j[1]
    BY <1>3, <1>6 DEF JoinsFrom
  <2> QED
    BY <1>4, <2>6, <2>7, <2>8 DEF ReplaceIsSplitJoin
<1> QED
  BY <1>5, <1>6

-----------------------------------------------------------------------------
(* Encodings, dumps and checksums *)

\* Text converted to the ANSI page is whole unless a character of it takes several bytes
\* (to_string_A), whatever the text and the code page.
THEOREM EncodesWhole ==
  ASSUME NEW C, NEW B, NEW s \in Seq(C), NEW Units \in [C -> Seq(B)]
  PROVE  AnsiWhole(s, Units)
<1> DEFINE n == Len(s)
           parts == [i \in DOMAIN s |-> Units[s[i]]]
           e == Encoded(s, Units)
           short == \A i \in DOMAIN s : ~ (Len(Units[s[i]]) > 1)
<1>1. n \in Nat /\ DOMAIN s = 1 .. n /\ \A i \in 1 .. n : s[i] \in C
  BY LenProperties, ElementOfSeq
<1>2. parts \in Seq(Seq(B)) /\ Len(parts) = n /\ \A i \in 1 .. n : parts[i] = Units[s[i]]
  <2>1. parts \in [1 .. n -> Seq(B)]
    BY <1>1
  <2>2. \A i \in 1 .. n : parts[i] = Units[s[i]]
    BY <1>1
  <2> HIDE DEF parts, n
  <2> QED
    BY <1>1, <2>1, <2>2
<1>3. e = FlattenSeq(parts)
  BY DEF Encoded
<1> HIDE DEF parts
<1>4. e \in Seq(B) /\ Len(e) \in Nat
  <2>1. FlattenSeq(parts) \in Seq(B)
    BY <1>2, FlattenPlaces
  <2> QED
    BY <1>3, <2>1, LenProperties
<1>5. short => Len(e) <= n
  <2> SUFFICES ASSUME short PROVE Len(FlattenSeq(parts)) <= n
    BY <1>3
  <2>1. \A i \in 1 .. Len(parts) : Len(parts[i]) <= 1
    <3> TAKE i \in 1 .. Len(parts)
    <3>1. i \in 1 .. n /\ parts[i] = Units[s[i]] /\ Units[s[i]] \in Seq(B)
      BY <1>1, <1>2
    <3>2. Len(Units[s[i]]) \in Nat
      BY <3>1, LenProperties
    <3>3. ~ (Len(Units[s[i]]) > 1)
      BY <1>1, <3>1
    <3> QED
      BY <3>1, <3>2, <3>3
  <2>2. Len(FlattenSeq(parts)) <= Len(parts)
    BY <1>2, <2>1, FlattenShort
  <2> QED
    BY <1>2, <2>2
<1> HIDE DEF e, short
<1>6. ASSUME Len(e) + 1 <= ToStringRoom(s)
      PROVE  ToStringA(s, Units, FALSE) = e
  BY <1>6 DEF ToStringA, e
<1>7. short => ToStringA(s, Units, FALSE) = e
  <2> DEFINE room == ToStringRoom(s)
  <2>1. room = n + 1
    BY DEF ToStringRoom
  <2> HIDE DEF room
  <2>2. short => Len(e) + 1 <= room
    BY <1>1, <1>4, <1>5, <2>1
  <2> USE DEF room
  <2> QED
    BY <1>6, <2>2
<1> QED
  BY <1>7 DEF AnsiWhole, short, e

\* How many rows of a width hold so many bytes.
LEMMA RowCount ==
  ASSUME NEW n \in Nat, NEW column \in Nat \ {0}, NEW rows, rows = (n + column - 1) \div column
  PROVE  /\ rows \in Nat /\ rows * column >= n
         /\ rows > 0 => (rows - 1) * column < n
<1> DEFINE a == n + column - 1
<1>1. a \in Nat
  OBVIOUS
<1>2. rows \in Nat /\ rows * column <= a /\ a < (rows + 1) * column
  <2> HIDE DEF a
  <2>1. rows = a \div column
    BY DEF a
  <2> QED
    BY <1>1, <2>1
<1>3. (rows + 1) * column = rows * column + column /\ (rows - 1) * column = rows * column - column
  BY <1>2
<1>4. rows * column \in Nat
  BY <1>2
<1> QED
  BY <1>2, <1>3, <1>4

\* A dump shows every byte once and in order, and its rows are full but the last
\* (hex_dump), whatever the data and the width.
THEOREM DumpsWhole ==
  ASSUME NEW B, NEW data \in Seq(B), NEW column \in Nat \ {0}
  PROVE  DumpWhole(data, column)
<1> DEFINE n == Len(data)
           m == (n + column - 1) \div column
           End(r) == IF r * column < n THEN r * column ELSE n
           Row(r) == SubSeq(data, (r - 1) * column + 1, End(r))
           rows == HexDump(data, column)
           parts == [r \in DOMAIN rows |-> rows[r].bytes]
<1>1. n \in Nat
  BY LenProperties
<1>2. m \in Nat /\ m * column >= n /\ (m > 0 => (m - 1) * column < n)
  <2> HIDE DEF n, m
  <2> QED
    BY <1>1, RowCount DEF m
<1>3. ASSUME NEW r \in 1 .. m
      PROVE  /\ (r - 1) * column \in 0 .. n /\ (r - 1) * column < n
             /\ r * column = (r - 1) * column + column
             /\ End(r) \in (r - 1) * column .. n
             /\ r < m => End(r) = r * column
  <2> HIDE DEF n, m
  <2>1. r \in Nat /\ r >= 1 /\ r <= m
    BY <1>2
  <2>2. \A x \in Nat : x <= m - 1 => x * column <= (m - 1) * column
    <3> TAKE x \in Nat
    <3> HAVE x <= m - 1
    <3>1. m - 1 - x \in Nat /\ (m - 1 - x) * column >= 0
      BY <1>2
    <3>2. (m - 1) * column = (m - 1 - x) * column + x * column
      BY <1>2
    <3>3. (m - 1) * column \in Int /\ (m - 1 - x) * column \in Int /\ x * column \in Int
      BY <1>2, <3>1
    <3> QED
      BY <3>1, <3>2, <3>3
  <2>3. (r - 1) * column \in Nat /\ r * column \in Nat /\ (m - 1) * column \in Int
    BY <1>2, <2>1
  <2>4. (r - 1) * column < n
    <3>1. (r - 1) * column <= (m - 1) * column
      BY <1>2, <2>1, <2>2
    <3> QED
      BY <1>1, <1>2, <2>1, <2>3, <3>1
  <2>5. r * column = (r - 1) * column + column
    BY <2>1
  <2>6. r < m => r * column < n
    <3>1. r < m => r * column <= (m - 1) * column
      BY <1>2, <2>1, <2>2
    <3> QED
      BY <1>1, <1>2, <2>1, <2>3, <3>1
  <2> QED
    BY <1>1, <2>3, <2>4, <2>5, <2>6
<1>4. /\ rows = [r \in 1 .. m |-> [offset |-> (r - 1) * column, bytes |-> Row(r), text |-> DumpText(Row(r))]]
      /\ DOMAIN rows = 1 .. m /\ Len(rows) = m
  <2>1. rows = [r \in 1 .. m |-> [offset |-> (r - 1) * column, bytes |-> Row(r), text |-> DumpText(Row(r))]]
    BY DEF HexDump
  <2>2. DOMAIN rows = 1 .. m
    BY <2>1
  <2> HIDE DEF m, rows
  <2>3. Len(rows) = m
    BY <1>2, <2>1
  <2> QED
    BY <2>1, <2>2, <2>3
<1>5. ASSUME NEW r \in 1 .. m
      PROVE  rows[r].bytes = Row(r) /\ Row(r) \in Seq(B) /\ Len(Row(r)) = End(r) - (r - 1) * column
  <2>1. rows[r].bytes = Row(r)
    <3> DEFINE x == Row(r)
               y == DumpText(Row(r))
               o == (r - 1) * column
    <3>1. rows[r] = [offset |-> o, bytes |-> x, text |-> y]
      BY <1>4, Zenon
    <3> HIDE DEF x, y, o, rows
    <3>2. rows[r].bytes = x
      BY <3>1
    <3> QED
      BY <3>2 DEF x
  <2> DEFINE a == (r - 1) * column + 1
             b == End(r)
  <2>2. a \in 1 .. n + 1 /\ b \in a - 1 .. n /\ b - a + 1 = b - (r - 1) * column
    <3> DEFINE c == (r - 1) * column
    <3>1. c \in 0 .. n /\ b \in c .. n
      BY <1>3
    <3> HIDE DEF c, b, n
    <3> QED
      BY <1>1, <3>1 DEF c
  <2> HIDE DEF a, b
  <2>3. SubSeq(data, a, b) \in Seq(B) /\ Len(SubSeq(data, a, b)) = b - a + 1
    BY <2>2, PartOf
  <2> QED
    BY <2>1, <2>2, <2>3 DEF a, b
<1>6. parts \in Seq(Seq(B)) /\ Len(parts) = m /\ \A r \in 1 .. m : parts[r] = Row(r)
  <2>1. \A r \in 1 .. m : parts[r] = Row(r) /\ Row(r) \in Seq(B)
    BY <1>4, <1>5
  <2>2. parts = [r \in 1 .. m |-> parts[r]]
    BY <1>4
  <2> HIDE DEF parts, m, Row
  <2>3. parts \in [1 .. m -> Seq(B)]
    BY <2>1, <2>2
  <2> QED
    BY <1>2, <2>1, <2>3
<1> DEFINE T == {r \in 0 .. m : FlattenSeq(SubSeq(parts, 1, r)) = SubSeq(data, 1, End(r))}
<1>7. 0 \in T
  <2>1. End(0) = 0
    BY <1>1
  <2>2. SubSeq(data, 1, 0) = <<>> /\ SubSeq(parts, 1, 0) = <<>>
    BY SubSeqEmpty
  <2>3. FlattenSeq(<<>>) = <<>>
    BY DEF FlattenSeq
  <2>4. FlattenSeq(SubSeq(parts, 1, 0)) = SubSeq(data, 1, End(0))
    <3> HIDE DEF parts, End
    <3> QED
      BY <2>1, <2>2, <2>3
  <2>5. 0 \in 0 .. m
    <3> HIDE DEF m
    <3> QED
      BY <1>2
  <2> HIDE DEF parts, End, m
  <2> QED
    BY <2>4, <2>5
<1>8. ASSUME NEW r \in 0 .. (m - 1), r \in T PROVE r + 1 \in T
  <2> DEFINE q == r + 1
             x == SubSeq(parts, 1, r)
             a == r * column
             b == End(q)
  <2>1. q \in 1 .. m /\ q - 1 = r /\ q \in 0 .. m /\ r \in 0 .. m
    <3> HIDE DEF m
    <3> QED
      BY <1>2
  <2>2. a \in 0 .. n /\ a < n /\ b \in a .. n /\ End(r) = a
    <3>1. (q - 1) * column \in 0 .. n /\ (q - 1) * column < n /\ End(q) \in (q - 1) * column .. n
      <4> HIDE DEF q
      <4> QED
        BY <1>3, <2>1
    <3> QED
      BY <2>1, <3>1
  <2>3. parts[q] = SubSeq(data, a + 1, b) /\ parts[q] \in Seq(B)
    <3>1. parts[q] = Row(q) /\ Row(q) \in Seq(B)
      <4> HIDE DEF q, parts, Row, m
      <4> QED
        BY <1>5, <1>6, <2>1
    <3>2. (q - 1) * column + 1 = a + 1
      BY <2>1
    <3>3. Row(q) = SubSeq(data, a + 1, b)
      <4> HIDE DEF q, a, End
      <4> QED
        BY <3>2
    <3> HIDE DEF parts, Row
    <3> QED
      BY <3>1, <3>3
  <2>4. x \in Seq(Seq(B)) /\ SubSeq(parts, 1, q) = Append(x, parts[q])
    <3> HIDE DEF parts, m
    <3>1. x \in Seq(Seq(B))
      <4>1. r \in 1 - 1 .. Len(parts) /\ 1 \in 1 .. Len(parts) + 1
        BY <1>2, <1>6, <2>1
      <4> QED
        BY <1>6, <4>1, PartOf
    <3>2. SubSeq(parts, 1, q) = SubSeq(parts, 1, q - 1) \o <<parts[q]>>
      <4>1. 1 \in 1 .. Len(parts) /\ q \in 1 .. Len(parts)
        BY <1>2, <1>6, <2>1
      <4> HIDE DEF q
      <4> QED
        BY <1>6, <4>1, SubSeqRecursiveSecond
    <3>3. Append(x, parts[q]) = x \o <<parts[q]>>
      <4> HIDE DEF x, q
      <4> QED
        BY <2>3, <3>1, AppendIsConcat
    <3> HIDE DEF q
    <3> QED
      BY <2>1, <3>1, <3>2, <3>3
  <2>5. FlattenSeq(Append(x, parts[q])) = FlattenSeq(x) \o parts[q]
    <3> DEFINE y == parts[q]
    <3> HIDE DEF x, y
    <3> QED
      BY <2>3, <2>4, FlattenAppend DEF y
  <2>6. SubSeq(data, 1, a) \o SubSeq(data, a + 1, b) = SubSeq(data, 1, b)
    <3>1. 1 \in 1 .. n + 1 /\ a \in 1 - 1 .. n /\ b \in a .. n
      <4> HIDE DEF a, b, n
      <4> QED
        BY <1>1, <2>2
    <3> HIDE DEF a, b
    <3> QED
      BY <3>1, ConcatAdjacentSubSeq
  <2>7. FlattenSeq(x) = SubSeq(data, 1, a)
    <3>1. FlattenSeq(x) = SubSeq(data, 1, End(r))
      BY <1>8
    <3> QED
      BY <2>2, <3>1
  <2>8. FlattenSeq(SubSeq(parts, 1, q)) = SubSeq(data, 1, End(q))
    <3> HIDE DEF x, a, parts, q
    <3> QED
      BY <2>3, <2>4, <2>5, <2>6, <2>7
  <2> HIDE DEF parts, m, End
  <2> QED
    BY <2>1, <2>8
<1>9. FlattenSeq(parts) = data
  <2>1. m \in T
    <3> HIDE DEF T, m
    <3>1. \A r \in 0 .. m : r \in T
      BY <1>2, <1>7, <1>8, IntervalInduction
    <3> QED
      BY <1>2, <3>1
  <2>2. End(m) = n
    <3> HIDE DEF m, n
    <3> QED
      BY <1>1, <1>2
  <2>3. FlattenSeq(SubSeq(parts, 1, m)) = SubSeq(data, 1, n)
    BY <2>1, <2>2
  <2>4. SubSeq(parts, 1, m) = parts /\ SubSeq(data, 1, n) = data
    <3> HIDE DEF parts, m
    <3>1. SubSeq(parts, 1, Len(parts)) = parts
      BY <1>6, SubSeqFull
    <3>2. SubSeq(data, 1, n) = data
      BY SubSeqFull
    <3> QED
      BY <1>6, <3>1, <3>2
  <2> QED
    BY <2>3, <2>4
<1>10. \A r \in DOMAIN rows : Len(rows[r].bytes) = column \/ r = Len(rows)
  <2> TAKE r \in DOMAIN rows
  <2>1. r \in 1 .. m
    BY <1>4
  <2>2. CASE r = m
    BY <1>4, <2>2
  <2>3. CASE r # m
    <3>1. Len(rows[r].bytes) = End(r) - (r - 1) * column
      BY <1>5, <2>1
    <3>2. End(r) = r * column /\ r * column = (r - 1) * column + column /\ (r - 1) * column \in 0 .. n
      <4>1. r < m
        <5> HIDE DEF m
        <5> QED
          BY <1>2, <2>1, <2>3
      <4> QED
        BY <1>3, <2>1, <4>1
    <3> DEFINE c == (r - 1) * column
    <3>3. c \in Int /\ Len(rows[r].bytes) = (c + column) - c
      BY <1>1, <3>1, <3>2
    <3> HIDE DEF c, rows
    <3> QED
      BY <3>3
  <2> QED
    BY <2>2, <2>3
<1> QED
  BY <1>9, <1>10 DEF DumpWhole

\* The checksum computed is the one asked for, whatever list of parameters.
THEOREM ChecksumsAsAsked ==
  ASSUME NEW list \in Seq([bits : {8, 16, 32, 64}, poly : Nat]), NEW wanted \in [bits : {8, 16, 32, 64}, poly : Nat]
  PROVE  ChecksumAsAsked(list, wanted)
<1> DEFINE same == {i \in DOMAIN list : list[i] = wanted}
           at == CrcOfParameters(list, wanted)
<1>1. at = IF same = {} THEN 0 ELSE Min(same)
  BY DEF CrcOfParameters
<1>2. same \in SUBSET Nat /\ \A i \in same : i # 0
  OBVIOUS
<1>3. same # {} => at \in same
  <2> HIDE DEF same, at
  <2> QED
    BY <1>1, <1>2, MinIsMember
<1>4. wanted \in ToSet(list) <=> same # {}
  BY DEF ToSet
<1>5. at # 0 <=> same # {}
  BY <1>1, <1>2, <1>3
<1>6. CrcOfWidth(wanted.bits) = <<wanted.bits>>
  BY DEF CrcOfWidth
<1> QED
  BY <1>3, <1>4, <1>5, <1>6 DEF ChecksumAsAsked

\* The digests of SHA are told apart by their length.
THEOREM DigestsTold == DigestsDiffer
<1> SUFFICES ASSUME NEW v \in 1 .. 3, NEW w \in 1 .. 3,
                    NEW a \in {160, 224, 256, 384, 512}, NEW b \in {160, 224, 256, 384, 512},
                    ShaDigest(v, a) # Thrown, ShaDigest(v, a) = ShaDigest(w, b)
             PROVE  v = w /\ a = b /\ ShaDigest(v, a)[3] * 8 = a
  BY DEF DigestsDiffer
<1>1. \A x, y : ShaDigest(x, y) # Thrown => ShaDigest(x, y) = <<x, y, y \div 8>>
  BY DEF ShaDigest
<1>2. ShaDigest(v, a) = <<v, a, a \div 8>> /\ ShaDigest(w, b) = <<w, b, b \div 8>>
  <2> DEFINE x == ShaDigest(v, a)
             y == ShaDigest(w, b)
  <2>1. x # Thrown /\ y # Thrown
    OBVIOUS
  <2>2. x # Thrown => x = <<v, a, a \div 8>>
    BY <1>1, ZenonT(40)
  <2>3. y # Thrown => y = <<w, b, b \div 8>>
    BY <1>1, ZenonT(40)
  <2> HIDE DEF x, y
  <2>4. x = <<v, a, a \div 8>> /\ y = <<w, b, b \div 8>>
    BY <2>1, <2>2, <2>3
  <2> QED
    BY <2>4 DEF x, y
<1>3. v = w /\ a = b
  <2>1. <<v, a, a \div 8>> = <<w, b, b \div 8>>
    BY <1>2, Zenon
  <2> DEFINE x == <<v, a, a \div 8>>
             y == <<w, b, b \div 8>>
  <2>2. x[1] = v /\ x[2] = a /\ y[1] = w /\ y[2] = b
    OBVIOUS
  <2>3. x = y
    BY <2>1
  <2> HIDE DEF x, y
  <2> QED
    BY <2>2, <2>3
<1>4. (a \div 8) * 8 = a
  OBVIOUS
<1> QED
  BY <1>2, <1>3, <1>4

-----------------------------------------------------------------------------
(* Settings *)

\* Settings are read as they are written, of any length but those the buffers cannot hold and
\* the one that is taken for an error.
THEOREM SettingsRead == \A len \in Nat : ValuesReadWhole(len)
<1> SUFFICES ASSUME NEW len \in Nat PROVE ValuesReadWhole(len)
  OBVIOUS
<1>1. len # EnvVarNotFound => GetEnv(len) = len
  BY DEF GetEnv, EnvResult, CopyOf, AtMost, MaxSize, EnvVarNotFound, Lost, Overrun
<1>2. len \notin {EnvVarNotFound} \union MaxSize .. 2 * MaxSize - 1 => GetEnvW(len) = len
  BY DEF GetEnvW, EnvResult, CopyOf, AtMost, MaxSize, EnvVarNotFound, Lost, Overrun
<1>3. /\ ReadString(len) = AtMost(len, MaxSize - 1)
      /\ len < MaxSize => ReadStringW(len) = len
  BY DEF ReadString, ReadStringW, CopyOf, AtMost, MaxSize, Overrun
<1> QED
  BY <1>1, <1>2, <1>3 DEF ValuesReadWhole

\* Section names are read whole or refused (read_section_names), whatever the names and the buffer.
THEOREM SectionNamesRead ==
  ASSUME NEW names \in Seq(Strs), \A i \in 1 .. Len(names) : names[i] # <<>>, NEW max \in Int
  PROVE  SectionNamesWhole(names, max)
<1> DEFINE cells == ListToMulti(names)
           l == Len(cells)
           read == ReadSectionNames(names, max)
<1>1. l \in Nat
  <2>1. cells \in Seq(Nat)
    BY MultiCells DEF WellEnded
  <2> HIDE DEF cells
  <2> QED
    BY <2>1, LenProperties
<1>2. MultiToList(cells) = names
  <2>1. PICK k \in 0 .. Len(names) :
          Carried(names) = SubSeq(names, 1, k) /\ (k < Len(names) => names[k + 1] = <<>>)
    BY CarriedIsPrefix
  <2>2. k = Len(names)
    <3>1. Len(names) \in Nat
      BY LenProperties
    <3>2. k < Len(names) => k + 1 \in 1 .. Len(names)
      BY <3>1
    <3> QED
      BY <2>1, <3>1, <3>2
  <2>3. Carried(names) = names
    BY <2>1, <2>2, SubSeqFull
  <2>4. MultiStringKeeps(names)
    BY MultiStringsKept
  <2> QED
    BY <2>3, <2>4 DEF MultiStringKeeps
<1> DEFINE p == ProfileNames(names, max)
<1>3. l <= max => p.cells = cells /\ p.returned = l - 1
  BY DEF ProfileNames
<1>4. ~ (l <= max) => p.returned = max - 2
  BY DEF ProfileNames
<1>5. read = IF p.returned = max - 2 THEN [ok |-> FALSE, list |-> <<>>]
             ELSE [ok |-> TRUE, list |-> MultiToList(p.cells)]
  BY DEF ReadSectionNames
<1> HIDE DEF p, l, read
<1>6. read.ok => read.list = names
  BY <1>2, <1>3, <1>4, <1>5
<1>7. ~ read.ok => l + 1 >= max
  <2>1. ASSUME ~ read.ok PROVE p.returned = max - 2
    BY <1>5, <2>1
  <2> QED
    BY <1>1, <1>3, <2>1
<1> QED
  BY <1>6, <1>7 DEF SectionNamesWhole, read, l

-----------------------------------------------------------------------------
(* Paths and directories *)

\* A directory is walked in order, and the narrow class stops where the callback says so.
THEOREM WalksInOrder ==
  ASSUME NEW A, NEW entries \in Seq(A), NEW Stops PROVE IteratesInOrder(entries, Stops)
<1> DEFINE at == {i \in DOMAIN entries : entries[i] \in Stops}
           seen == Iterate(entries, Stops)
           n == Len(entries)
<1>1. n \in Nat /\ DOMAIN entries = 1 .. n
  BY LenProperties
<1>2. IterateW(entries, Stops) = entries
  BY DEF IterateW
<1>3. seen = IF at = {} THEN entries ELSE SubSeq(entries, 1, Min(at))
  BY DEF Iterate
<1>4. at \in SUBSET Nat
  BY <1>1
<1>5. CASE at = {}
  <2>1. seen = entries
    BY <1>3, <1>5
  <2>2. IsPrefix(entries, entries)
    BY <1>1 DEF IsPrefix
  <2>3. \A i \in DOMAIN entries : entries[i] \notin Stops
    BY <1>5
  <2> QED
    BY <1>1, <1>2, <2>1, <2>2, <2>3 DEF IteratesInOrder
<1>6. CASE at # {}
  <2> DEFINE m == Min(at)
  <2>1. m \in at /\ \A i \in at : m <= i
    BY <1>4, <1>6, MinIsMember
  <2>2. m \in 1 .. n /\ entries[m] \in Stops /\ \A i \in 1 .. m - 1 : entries[i] \notin Stops
    <3>1. \A i \in 1 .. m - 1 : i \notin at /\ i \in 1 .. n
      <4> HIDE DEF m
      <4>1. m \in 1 .. n
        BY <1>1, <2>1
      <4> HIDE DEF at
      <4> QED
        BY <1>1, <2>1, <4>1
    <3> QED
      BY <1>1, <2>1, <3>1
  <2>3. seen = SubSeq(entries, 1, m)
    BY <1>3, <1>6
  <2> HIDE DEF m, at, seen
  <2>4. Len(seen) = m /\ DOMAIN seen = 1 .. m /\ \A i \in 1 .. m : seen[i] = entries[i]
    BY <1>1, <2>2, <2>3
  <2>5. IsPrefix(seen, entries)
    BY <1>1, <2>2, <2>3, <2>4 DEF IsPrefix
  <2>6. \A i \in DOMAIN seen : seen[i] \in Stops => i = Len(seen)
    BY <2>2, <2>4
  <2>7. seen # <<>> /\ Last(seen) \in Stops
    BY <2>2, <2>4 DEF Last
  <2> QED
    BY <1>2, <2>5, <2>6, <2>7 DEF IteratesInOrder, seen
<1> QED
  BY <1>5, <1>6

\* The last place of a character is 0 exactly when the text has none.
LEMMA LastOfIs ==
  ASSUME NEW B, NEW s \in Seq(B), NEW c
  PROVE  LastOf(s, c) = 0 <=> \A i \in 1 .. Len(s) : s[i] # c
<1> DEFINE at == {i \in DOMAIN s : s[i] = c}
           n == Len(s)
<1>1. n \in Nat /\ DOMAIN s = 1 .. n
  BY LenProperties
<1>2. at \union {0} \in SUBSET Int /\ at \union {0} # {} /\ \A i \in at \union {0} : i <= n
  BY <1>1
<1>3. LastOf(s, c) = Max(at \union {0})
  BY DEF LastOf
<1>4. LastOf(s, c) \in at \union {0} /\ \A i \in at \union {0} : i <= LastOf(s, c)
  <2> DEFINE S == at \union {0}
  <2> HIDE DEF S, n
  <2>1. Max(S) \in S /\ \A i \in S : i <= Max(S)
    <3>1. n \in Int
      BY <1>1
    <3> QED
      BY <1>2, <3>1, MaxIsMember DEF S
  <2> QED
    BY <1>3, <2>1 DEF S
<1>5. \A i \in at : i > 0
  BY <1>1
<1> HIDE DEF at
<1>6. LastOf(s, c) = 0 <=> at = {}
  <2>1. at = {} => LastOf(s, c) = 0
    BY <1>4
  <2>2. ASSUME NEW i \in at PROVE LastOf(s, c) # 0
    BY <1>1, <1>2, <1>4, <1>5
  <2> QED
    BY <2>1, <2>2
<1> QED
  BY <1>1, <1>6 DEF at

\* A corrected file name is valid and differs only where it has to, whatever the name.
THEOREM NamesCorrected ==
  ASSUME NEW B, NEW name \in Seq(B), NEW replacement \in B
  PROVE  CorrectionValid(name, replacement)
<1> DEFINE n == Len(name)
           new == CorrectFileName(name, replacement)
<1>1. n \in Nat /\ DOMAIN name = 1 .. n /\ \A i \in 1 .. n : name[i] \in B
  BY LenProperties, ElementOfSeq
<1>2. new = [i \in 1 .. n |-> IF name[i] \in Forbidden THEN replacement ELSE name[i]]
  BY <1>1 DEF CorrectFileName
<1> HIDE DEF n, new
<1>3. new \in Seq(B) /\ Len(new) = n
  <2>1. new \in [1 .. n -> B]
    BY <1>1, <1>2
  <2> QED
    BY <1>1, <2>1
<1>4. ASSUME NEW x \in Seq(B)
      PROVE  IsFileNameValid(x) <=> \A i \in 1 .. Len(x) : x[i] \notin Forbidden
  BY <1>4, LastOfIs DEF IsFileNameValid
<1>5. ASSUME replacement \notin Forbidden PROVE IsFileNameValid(new)
  <2>1. \A i \in 1 .. n : new[i] \notin Forbidden
    BY <1>2, <1>5
  <2> QED
    BY <1>3, <1>4, <2>1
<1>6. ASSUME IsFileNameValid(name) PROVE new = name
  <2>1. \A i \in 1 .. n : name[i] \notin Forbidden
    BY <1>4, <1>6 DEF n
  <2>2. \A i \in 1 .. Len(new) : new[i] = name[i]
    BY <1>2, <1>3, <2>1
  <2> QED
    BY <1>3, <2>2, SeqEqual DEF n
<1> QED
  BY <1>3, <1>5, <1>6 DEF CorrectionValid, n, new

\* A text that goes on with a character behind a part begins with the part and it.
LEMMA GoesOn ==
  ASSUME NEW A, NEW d \in Seq(A), NEW c \in A, NEW path \in Seq(A),
         IsPrefix(d, path), Len(path) > Len(d), path[Len(d) + 1] = c
  PROVE  StartsWith(path, Append(d, c))
<1> DEFINE w == Append(d, c)
           n == Len(d)
<1>1. n \in Nat /\ Len(path) \in Nat
  BY LenProperties
<1>2. w \in Seq(A) /\ Len(w) = n + 1 /\ w[n + 1] = c /\ \A k \in 1 .. n : w[k] = d[k]
  BY AppendProperties
<1>3. DOMAIN w = 1 .. n + 1
  BY <1>2, LenProperties
<1>4. \A k \in 1 .. n : path[k] = d[k]
  BY <1>1 DEF IsPrefix
<1> HIDE DEF w, n
<1>5. Len(path) > n /\ path[n + 1] = c
  BY DEF n
<1>6. \A k \in 1 .. n + 1 : path[k] = w[k]
  <2> TAKE k \in 1 .. n + 1
  <2>1. k \in 1 .. n \/ k = n + 1
    BY <1>1
  <2> QED
    BY <1>2, <1>4, <1>5, <2>1
<1>7. StartsWith(path, w)
  BY <1>1, <1>2, <1>3, <1>5, <1>6 DEF StartsWith
<1> QED
  BY <1>7 DEF w

\* The drive found is the one whose device a path begins with, whatever the path, the drives
\* and their devices (get_file_name_from_handle).
THEOREM DriveFound ==
  ASSUME NEW B, Backslash \in B, NEW path \in Seq(B), NEW D, NEW drives \in Seq(D),
         NEW device \in [D -> Seq(B)]
  PROVE  DriveOfDevice(path, drives, device)
<1> SUFFICES ASSUME NEW i \in DOMAIN drives,
                    IsPrefix(device[drives[i]], path), Len(path) > Len(device[drives[i]]),
                    path[Len(device[drives[i]]) + 1] = Backslash
             PROVE  \E j \in 1 .. i : FileNameFromHandle(path, drives, device)
                                      = <<drives[j], ":">> \o From(path, Len(device[drives[j]]) + 1)
  BY DEF DriveOfDevice
<1> DEFINE n == Len(drives)
           d == device[drives[i]]
           match == {k \in DOMAIN drives : StartsWith(path, Append(device[drives[k]], Backslash))}
           j == Min(match)
<1>1. n \in Nat /\ DOMAIN drives = 1 .. n
  BY LenProperties
<1>2. drives[i] \in D /\ d \in Seq(B)
  BY <1>1, ElementOfSeq
<1>3. StartsWith(path, Append(d, Backslash))
  BY <1>2, GoesOn
<1>4. i \in match
  BY <1>3, Zenon
<1>5. match \in SUBSET Nat
  BY <1>1
<1>6. j \in match /\ j <= i
  <2> HIDE DEF match
  <2> QED
    BY <1>4, <1>5, MinIsMember
<1>7. j \in 1 .. i
  <2>1. match \subseteq 1 .. n
    BY <1>1
  <2> HIDE DEF j, match
  <2> QED
    BY <1>1, <1>6, <2>1
<1>8. FileNameFromHandle(path, drives, device)
        = <<drives[j], ":">> \o From(path, Len(device[drives[j]]) + 1)
  <2>1. match # {}
    BY <1>4
  <2> QED
    BY <2>1, Zenon DEF FileNameFromHandle
<1> HIDE DEF j
<1> QED
  BY <1>7, <1>8, Zenon

-----------------------------------------------------------------------------
(* Texts mapped by a table *)

\* What a table makes of a character.
Image(M, c) == IF c \in DOMAIN M THEN M[c] ELSE c

\* A table that gives members of a set.
Gives(M, B) == \A c \in DOMAIN M : M[c] \in B

\* A text mapped by a table is the image of each character.
LEMMA MappedIs ==
  ASSUME NEW B, NEW s \in Seq(B), NEW M, Gives(M, B)
  PROVE  /\ LowerString(s, M) \in Seq(B) /\ Len(LowerString(s, M)) = Len(s)
         /\ \A i \in 1 .. Len(s) : LowerString(s, M)[i] = Image(M, s[i])
<1> DEFINE n == Len(s)
           w == LowerString(s, M)
<1>1. n \in Nat /\ DOMAIN s = 1 .. n /\ \A i \in 1 .. n : s[i] \in B
  BY LenProperties, ElementOfSeq
<1>2. \A c \in B : Image(M, c) \in B
  BY DEF Image, Gives
<1>3. w = [i \in 1 .. n |-> Image(M, s[i])]
  BY <1>1, Zenon DEF LowerString, Image
<1> HIDE DEF w, n
<1>4. w \in [1 .. n -> B]
  BY <1>1, <1>2, <1>3
<1>5. w \in Seq(B) /\ Len(w) = n
  BY <1>1, <1>4
<1> QED
  BY <1>3, <1>5 DEF w, n

\* Two texts one behind the other are mapped one behind the other.
MapsBoth(a, b, M) == LowerString(a \o b, M) = LowerString(a, M) \o LowerString(b, M)

\* Mapping two texts one behind the other.
LEMMA MappedConcat ==
  ASSUME NEW B, NEW a \in Seq(B), NEW b \in Seq(B), NEW M, Gives(M, B)
  PROVE  MapsBoth(a, b, M)
<1> DEFINE u == LowerString(a, M)
           v == LowerString(b, M)
           t == a \o b
           w == LowerString(t, M)
           z == u \o v
           n == Len(a)
           m == Len(b)
<1>1. n \in Nat /\ m \in Nat
  BY LenProperties
<1>2. t \in Seq(B) /\ Len(t) = n + m /\ \A i \in 1 .. n + m : t[i] = IF i <= n THEN a[i] ELSE b[i - n]
  BY ConcatProperties
<1>3. u \in Seq(B) /\ Len(u) = n /\ \A i \in 1 .. n : u[i] = Image(M, a[i])
  BY MappedIs
<1>4. v \in Seq(B) /\ Len(v) = m /\ \A i \in 1 .. m : v[i] = Image(M, b[i])
  BY MappedIs
<1> HIDE DEF u, v, t, n, m
<1>5. w \in Seq(B) /\ Len(w) = n + m /\ \A i \in 1 .. n + m : w[i] = Image(M, t[i])
  <2>1. w \in Seq(B) /\ Len(w) = Len(t) /\ \A i \in 1 .. Len(t) : w[i] = Image(M, t[i])
    BY <1>2, MappedIs
  <2> HIDE DEF w
  <2> QED
    BY <1>2, <2>1
<1>6. z \in Seq(B) /\ Len(z) = n + m /\ \A i \in 1 .. n + m : z[i] = IF i <= n THEN u[i] ELSE v[i - n]
  BY <1>3, <1>4, ConcatProperties
<1> HIDE DEF w, z
<1>7. \A i \in 1 .. n + m : w[i] = z[i]
  <2> TAKE i \in 1 .. n + m
  <2>1. CASE i <= n
    <3>1. i \in 1 .. n
      BY <1>1, <2>1
    <3> QED
      BY <1>2, <1>3, <1>5, <1>6, <2>1, <3>1
  <2>2. CASE ~ (i <= n)
    <3>1. i - n \in 1 .. m
      BY <1>1, <2>2
    <3> QED
      BY <1>2, <1>4, <1>5, <1>6, <2>2, <3>1
  <2> QED
    BY <2>1, <2>2
<1>8. w = z
  BY <1>5, <1>6, <1>7, SeqEqual
<1> QED
  BY <1>8 DEF MapsBoth, w, z, t, u, v

\* Mapping a part of a text.
LEMMA MappedPart ==
  ASSUME NEW B, NEW s \in Seq(B), NEW M, Gives(M, B),
         NEW i \in 1 .. Len(s) + 1, NEW j \in i - 1 .. Len(s)
  PROVE  LowerString(SubSeq(s, i, j), M) = SubSeq(LowerString(s, M), i, j)
<1> DEFINE x == SubSeq(s, i, j)
           w == LowerString(s, M)
           u == LowerString(x, M)
           v == SubSeq(w, i, j)
           n == Len(s)
           l == j - i + 1
<1>1. n \in Nat /\ l \in Nat /\ \A k \in 1 .. l : i + k - 1 \in 1 .. n
  BY LenProperties
<1>2. x \in Seq(B) /\ Len(x) = l /\ \A k \in 1 .. l : x[k] = s[i + k - 1]
  BY PartOf
<1>3. w \in Seq(B) /\ Len(w) = n /\ \A k \in 1 .. n : w[k] = Image(M, s[k])
  BY MappedIs
<1> HIDE DEF w, x
<1>4. v \in Seq(B) /\ Len(v) = l /\ \A k \in 1 .. l : v[k] = w[i + k - 1]
  <2>1. i \in 1 .. Len(w) + 1 /\ j \in i - 1 .. Len(w)
    BY <1>3
  <2>2. /\ SubSeq(w, i, j) \in Seq(B) /\ Len(SubSeq(w, i, j)) = j - i + 1
        /\ \A k \in 1 .. j - i + 1 : SubSeq(w, i, j)[k] = w[i + k - 1]
    BY <1>3, <2>1, PartOf, Zenon
  <2> QED
    BY <2>2, Zenon
<1>5. u \in Seq(B) /\ Len(u) = Len(x) /\ \A k \in 1 .. Len(x) : u[k] = Image(M, x[k])
  <2>1. x \in Seq(B)
    BY <1>2
  <2> HIDE DEF v, n, l, u
  <2>2. /\ LowerString(x, M) \in Seq(B) /\ Len(LowerString(x, M)) = Len(x)
        /\ \A k \in 1 .. Len(x) : LowerString(x, M)[k] = Image(M, x[k])
    BY <2>1, MappedIs
  <2> QED
    BY <2>2 DEF u
<1> HIDE DEF u, v, n, l
<1>6. \A k \in 1 .. l : u[k] = v[k]
  BY <1>1, <1>2, <1>3, <1>4, <1>5
<1>7. u = v
  BY <1>2, <1>4, <1>5, <1>6, SeqEqual
<1> QED
  BY <1>7 DEF u, v, w, x

\* A relation that a replacement cannot leave: it holds of a text without the old one, and
\* grows with a part, the old text on one side and the new one on the other.
Replaces(P, B, from, to) ==
  /\ \A x \in Seq(B) : FindFrom(x, from, 1) = Npos => <<x, x>> \in P
  /\ \A x, y, z \in Seq(B) :
       FindFrom(x, from, 1) = Npos /\ <<y, z>> \in P => <<(x \o from) \o y, (x \o to) \o z>> \in P

\* A text and what a replacement makes of it are in every such relation.
LEMMA ReplaceInduction ==
  ASSUME NEW B, NEW s \in Seq(B), NEW from \in Seq(B), from # <<>>, NEW to \in Seq(B),
         NEW P, Replaces(P, B, from, to)
  PROVE  <<s, ReplaceString(s, from, to)>> \in P /\ ReplaceString(s, from, to) \in Seq(B)
<1> DEFINE n == Len(s)
           m == n + 1
           l == Len(from)
           E(i) == FindFrom(s, from, i)
           r == ReplaceString(s, from, to)
<1>1. n \in Nat /\ m \in Nat /\ l \in Nat /\ l >= 1
  BY LenProperties, EmptySeq
<1>2. PICK j \in [1 .. m -> Seq(B)] : JoinsFrom(s, from, to, j)
  BY SplitJoined
<1>3. /\ s # <<>> => JoinString(SplitString(s, from, FALSE), to) = j[1]
      /\ \A i \in 1 .. m :
           /\ E(i) = Npos => j[i] = SubSeq(s, i, n)
           /\ E(i) # Npos =>
                /\ E(i) + l \in i + 1 .. m
                /\ j[i] = (SubSeq(s, i, E(i) - 1) \o to) \o j[E(i) + l]
  BY <1>2 DEF JoinsFrom
<1>4. SubSeq(s, 1, n) = s
  BY <1>1, SubSeqFull
<1>5. /\ \A x \in Seq(B) : FindFrom(x, from, 1) = Npos => <<x, x>> \in P
      /\ \A x, y, z \in Seq(B) :
           FindFrom(x, from, 1) = Npos /\ <<y, z>> \in P => <<(x \o from) \o y, (x \o to) \o z>> \in P
  BY DEF Replaces
<1> DEFINE S == {i \in 1 .. m : <<SubSeq(s, i, n), j[i]>> \in P}
<1>6. ASSUME NEW i \in 1 .. m, E(i) = Npos PROVE i \in S
  <2> DEFINE x == SubSeq(s, i, n)
  <2>1. n \in i - 1 .. n
    BY <1>1
  <2>2. x \in Seq(B)
    BY <2>1, PartOf
  <2>3. FindFrom(x, from, 1) = Npos
    <3>1. SubSeq(x, 1, Len(x)) = x /\ 1 \in 1 .. Len(x) + 1
      <4>1. Len(x) \in Nat
        BY <2>2, LenProperties
      <4> HIDE DEF x
      <4> QED
        BY <2>2, <4>1, SubSeqFull
    <3>2. SubSeq(x, 1, Len(x)) = SubSeq(s, i, Len(s))
      BY <3>1
    <3> HIDE DEF x
    <3> QED
      BY <1>6, <2>2, <3>1, <3>2, FindBehindNone
  <2>4. j[i] = x
    BY <1>3, <1>6
  <2> HIDE DEF x
  <2>5. <<x, x>> \in P
    BY <1>5, <2>2, <2>3
  <2> QED
    BY <2>4, <2>5 DEF x
<1>7. ASSUME NEW i \in 1 .. m, E(i) # Npos, \A k \in i + 1 .. m : k \in S PROVE i \in S
  <2> DEFINE e == E(i)
             x == SubSeq(s, i, e - 1)
             k == e + l
             y == SubSeq(s, k, n)
             z == j[k]
  <2>1. /\ e \in i .. n /\ k \in i + 1 .. m /\ x \in Seq(B) /\ y \in Seq(B)
        /\ (x \o from) \o y = SubSeq(s, i, n) /\ j[i] = (x \o to) \o z
    <3>1. /\ e \in i .. n /\ x \in Seq(B) /\ y \in Seq(B) /\ (x \o from) \o y = SubSeq(s, i, n)
      BY <1>7, CutAt, Zenon
    <3>2. k \in i + 1 .. m /\ j[i] = (x \o to) \o z
      BY <1>3, <1>7, Zenon
    <3> QED
      BY <3>1, <3>2
  <2>2. z \in Seq(B) /\ <<y, z>> \in P
    <3>1. k \in S
      BY <1>7, <2>1
    <3> QED
      BY <1>2, <3>1
  <2>3. \A q \in i .. e - 1 : SubSeq(s, q, q + l - 1) # from
    BY <1>7, FindIs
  <2>4. FindFrom(x, from, 1) = Npos
    <3> DEFINE f == FindFrom(x, from, 1)
               lx == e - 1 - i + 1
    <3>1. Len(x) = lx /\ lx = e - i
      <4> DEFINE d == e - 1
      <4> HIDE DEF e, n
      <4>1. d \in i - 1 .. n
        BY <1>1, <2>1
      <4> HIDE DEF d
      <4>2. Len(SubSeq(s, i, d)) = d - i + 1
        BY <4>1, PartOf DEF n
      <4>3. e \in Int
        BY <1>1, <2>1
      <4> QED
        BY <4>2, <4>3 DEF d
    <3>2. SUFFICES ASSUME f # Npos PROVE FALSE
      OBVIOUS
    <3>3. f \in 1 .. lx - l + 1 /\ SubSeq(x, f, f + l - 1) = from
      <4> HIDE DEF x, e, lx
      <4> QED
        BY <2>1, <3>1, <3>2, FindIs
    <3> HIDE DEF f, e, l, n
    <3> DEFINE q == i + f - 1
    <3>4. /\ q \in i .. e - 1 /\ i \in Int /\ e - 1 \in Int /\ f + l - 1 \in 1 .. e - 1 - i + 1
          /\ f \in 1 .. 1 + (e - 1) - i /\ f + l - 1 \in f .. 1 + (e - 1) - i /\ i + (f + l - 1) - 1 = q + l - 1
          /\ e - 1 \in 0 .. n /\ i \in 1 .. n + 1
      BY <1>1, <2>1, <3>1, <3>3
    <3>5. SubSeq(x, f, f + l - 1) = SubSeq(s, q, q + l - 1)
      <4> DEFINE d == e - 1
                 b == f + l - 1
      <4> HIDE DEF d, b, q, x
      <4>1. f \in 1 .. (1 + d) - i /\ b \in f .. (1 + d) - i
        BY <3>4 DEF d, b
      <4>2. SubSeq(SubSeq(s, i, d), f, b) = SubSeq(s, i + f - 1, i + b - 1)
        BY <4>1, <3>4, SubSeqOfSubSeq, SMTT(40) DEF n, d
      <4>3. i + b - 1 = q + l - 1
        BY <3>4 DEF b
      <4> QED
        BY <4>2, <4>3 DEF x, d, b, q
    <3> QED
      BY <2>3, <3>3, <3>4, <3>5
  <2> HIDE DEF e, x, y, z, k
  <2>5. <<(x \o from) \o y, (x \o to) \o z>> \in P
    BY <1>5, <2>1, <2>2, <2>4
  <2> QED
    BY <2>1, <2>5
<1>8. \A i \in 1 .. m : i \in S
  <2> HIDE DEF S, E
  <2>1. ASSUME NEW i \in 1 .. m, \A k \in i + 1 .. m : k \in S PROVE i \in S
    BY <1>6, <1>7, <2>1
  <2> HIDE DEF m
  <2> QED
    BY <1>1, <2>1, DownwardInduction
<1>9. 1 \in 1 .. m
  BY <1>1
<1>10. r = JoinString(SplitString(s, from, FALSE), to)
  <2>1. ReplaceIsSplitJoin(s, from, to)
    BY ReplacesOnce
  <2> QED
    BY <2>1 DEF ReplaceIsSplitJoin
<1>11. CASE s # <<>>
  <2>1. r = j[1] /\ <<SubSeq(s, 1, n), j[1]>> \in P /\ j[1] \in Seq(B)
    BY <1>2, <1>3, <1>8, <1>9, <1>10, <1>11
  <2> QED
    BY <1>4, <2>1
<1>12. CASE s = <<>>
  <2>1. SplitString(s, from, FALSE) = <<>>
    BY <1>12 DEF SplitString
  <2>2. JoinString(<<>>, to) = <<>>
    <3> DEFINE e == <<>>
               ends == [i \in DOMAIN e |-> IF i < Len(e) THEN e[i] \o to ELSE e[i]]
    <3>1. ends = <<>>
      OBVIOUS
    <3>2. JoinString(e, to) = FlattenSeq(ends)
      BY Zenon DEF JoinString
    <3> HIDE DEF ends
    <3>3. e \in Seq(Seq(B))
      OBVIOUS
    <3>4. FlattenSeq(<<>>) = <<>>
      BY <3>3, FlattenAppend
    <3> QED
      BY <3>1, <3>2, <3>4
  <2>3. E(1) = Npos
    <3>1. E(1) # Npos => E(1) \in 1 .. n
      BY <1>1, <1>9, CutAt
    <3>2. n = 0
      BY <1>12
    <3> QED
      BY <3>1, <3>2
  <2>4. r = s
    BY <1>10, <1>12, <2>1, <2>2
  <2> QED
    BY <1>5, <1>12, <2>3, <2>4
<1> QED
  BY <1>11, <1>12

\* The table that makes one character of several.
AllTo(S, d) == [c \in S |-> d]

\* What that table makes of a character.
LEMMA AllToIs ==
  ASSUME NEW B, NEW S, NEW d \in B
  PROVE  Gives(AllTo(S, d), B) /\ \A c : Image(AllTo(S, d), c) = IF c \in S THEN d ELSE c
BY DEF AllTo, Image, Gives

\* A mapped text is any text with the images in order.
LEMMA MappedAs ==
  ASSUME NEW B, NEW s \in Seq(B), NEW M, Gives(M, B), NEW w \in Seq(B), Len(w) = Len(s),
         \A i \in 1 .. Len(s) : w[i] = Image(M, s[i])
  PROVE  LowerString(s, M) = w
<1> DEFINE u == LowerString(s, M)
<1>1. u \in Seq(B) /\ Len(u) = Len(s) /\ \A i \in 1 .. Len(s) : u[i] = Image(M, s[i])
  BY MappedIs
<1> HIDE DEF u
<1>2. u = w
  BY <1>1, SeqEqual
<1> QED
  BY <1>2 DEF u

\* A character a search does not find is at no place, and is found when it is at one.
LEMMA FindChar ==
  ASSUME NEW B, NEW x \in Seq(B), NEW c \in B
  PROVE  FindFrom(x, <<c>>, 1) = Npos <=> \A i \in 1 .. Len(x) : x[i] # c
<1> DEFINE n == Len(x)
           t == <<c>>
           f == FindFrom(x, t, 1)
<1>1. n \in Nat /\ t \in Seq(B) /\ Len(t) = 1 /\ 1 \in Nat \ {0}
  BY LenProperties
<1>2. ASSUME NEW i \in 1 .. n PROVE SubSeq(x, i, i + 1 - 1) = <<x[i]>>
  <2> DEFINE u == SubSeq(x, i, i)
  <2>1. i \in 1 .. n + 1 /\ i \in i - 1 .. n /\ i - i + 1 = 1 /\ i + 1 - 1 = i /\ x[i] \in B
    BY <1>1, ElementOfSeq
  <2>2. u \in Seq(B) /\ Len(u) = i - i + 1 /\ \A k \in 1 .. i - i + 1 : u[k] = x[i + k - 1]
    BY <2>1, PartOf
  <2>3. u[1] = x[i] /\ Len(u) = 1
    BY <2>1, <2>2
  <2> HIDE DEF u
  <2>4. u = <<x[i]>>
    BY <2>2, <2>3
  <2> QED
    BY <2>1, <2>4 DEF u
<1>3. ASSUME f = Npos, NEW i \in 1 .. n PROVE x[i] # c
  <2>1. i \in 1 .. n - Len(t) + 1
    BY <1>1, <1>3
  <2>2. SubSeq(x, i, i + Len(t) - 1) # t
    <3> HIDE DEF t
    <3> QED
      BY <1>1, <1>3, <2>1, FindNone
  <2>3. <<x[i]>> # t
    BY <1>1, <1>2, <2>2
  <2> QED
    BY <2>3
<1>4. ASSUME f # Npos PROVE f \in 1 .. n /\ x[f] = c
  <2>1. f \in 1 .. n - Len(t) + 1 /\ SubSeq(x, f, f + Len(t) - 1) = t
    <3> USE DEF f, n
    <3> HIDE DEF t
    <3>1. FindFrom(x, t, 1) # Npos /\ t \in Seq(B)
      BY <1>1, <1>4
    <3> DEFINE one == 1
    <3>2. one \in Nat \ {0} /\ FindFrom(x, t, one) # Npos
      BY <3>1
    <3> HIDE DEF one
    <3>3. /\ FindFrom(x, t, one) \in one .. Len(x) - Len(t) + 1
          /\ SubSeq(x, FindFrom(x, t, one), FindFrom(x, t, one) + Len(t) - 1) = t
      BY <3>1, <3>2, FindIs
    <3> QED
      BY <3>3 DEF one
  <2> HIDE DEF f
  <2>2. f \in 1 .. n
    BY <1>1, <2>1
  <2>3. <<x[f]>> = t
    BY <1>1, <1>2, <2>1, <2>2
  <2> QED
    BY <2>2, <2>3
<1> QED
  BY <1>3, <1>4

\* Replacing a character by a character maps every one.
LEMMA CharReplaced ==
  ASSUME NEW B, NEW s \in Seq(B), NEW c \in B, NEW d \in B
  PROVE  ReplaceString(s, <<c>>, <<d>>) = LowerString(s, AllTo({c}, d))
<1> DEFINE M == AllTo({c}, d)
           P == {q \in Seq(B) \X Seq(B) : q[2] = LowerString(q[1], M)}
           from == <<c>>
           to == <<d>>
<1>1. Gives(M, B) /\ \A e : Image(M, e) = IF e = c THEN d ELSE e
  <2>1. Gives(AllTo({c}, d), B) /\ \A e : Image(AllTo({c}, d), e) = IF e \in {c} THEN d ELSE e
    BY AllToIs, ZenonT(60)
  <2> QED
    BY <2>1
<1>1a. from \in Seq(B) /\ to \in Seq(B) /\ from # <<>>
  OBVIOUS
<1> HIDE DEF M
<1>2. LowerString(from, M) = to
  <2>1. Len(to) = Len(from) /\ \A i \in 1 .. Len(from) : to[i] = Image(M, from[i])
    BY <1>1
  <2> HIDE DEF from, to
  <2>2. Gives(M, B)
    BY <1>1
  <2> QED
    BY <1>1a, <2>1, <2>2, MappedAs, Zenon
<1> HIDE DEF to
<1>3. ASSUME NEW x \in Seq(B), FindFrom(x, from, 1) = Npos PROVE LowerString(x, M) = x
  <2>1. \A i \in 1 .. Len(x) : x[i] # c
    BY <1>3, FindChar
  <2>2. \A i \in 1 .. Len(x) : x[i] = Image(M, x[i])
    BY <1>1, <2>1
  <2>3. Gives(M, B)
    BY <1>1
  <2> QED
    BY <2>2, <2>3, MappedAs, Zenon
<1> HIDE DEF from
<1>4. ASSUME NEW x \in Seq(B), NEW y \in Seq(B), FindFrom(x, from, 1) = Npos
      PROVE  LowerString((x \o from) \o y, M) = (x \o to) \o LowerString(y, M)
  <2>1. x \o from \in Seq(B) /\ from \in Seq(B) /\ Gives(M, B)
    BY <1>1, <1>1a
  <2>2. LowerString((x \o from) \o y, M) = LowerString(x \o from, M) \o LowerString(y, M)
    <3>1. MapsBoth(x \o from, y, M)
      BY <2>1, MappedConcat
    <3> QED
      BY <3>1 DEF MapsBoth
  <2>3. LowerString(x \o from, M) = LowerString(x, M) \o LowerString(from, M)
    <3>1. MapsBoth(x, from, M)
      BY <2>1, MappedConcat
    <3> QED
      BY <3>1 DEF MapsBoth
  <2> QED
    BY <1>2, <1>3, <1>4, <2>2, <2>3
<1>5. \A x, y \in Seq(B) : (x \o from) \o y \in Seq(B) /\ (x \o to) \o LowerString(y, M) \in Seq(B)
  <2> TAKE x, y \in Seq(B)
  <2>1. LowerString(y, M) \in Seq(B)
    BY <1>1, MappedIs
  <2> QED
    BY <1>1a, <2>1
<1>6. Replaces(P, B, from, to)
  <2>1. \A x \in Seq(B) : FindFrom(x, from, 1) = Npos => <<x, x>> \in P
    BY <1>3
  <2>2. ASSUME NEW x \in Seq(B), NEW y \in Seq(B), NEW z \in Seq(B),
               FindFrom(x, from, 1) = Npos, <<y, z>> \in P
        PROVE  <<(x \o from) \o y, (x \o to) \o z>> \in P
    <3>1. z = LowerString(y, M)
      BY <2>2
    <3>2. LowerString((x \o from) \o y, M) = (x \o to) \o z
      BY <1>4, <2>2, <3>1
    <3>3. (x \o from) \o y \in Seq(B) /\ (x \o to) \o z \in Seq(B)
      BY <1>5, <3>1
    <3> QED
      BY <3>2, <3>3
  <2> HIDE DEF P
  <2> QED
    BY <2>1, <2>2 DEF Replaces
<1>7. <<s, ReplaceString(s, from, to)>> \in P
  <2> HIDE DEF P
  <2> QED
    BY <1>1a, <1>6, ReplaceInduction
<1> QED
  BY <1>7 DEF from, to, M

\* A path with one kind of separator: what normalizing makes of it once the doubled
\* backslashes are single.
LEMMA NormalizedIs ==
  ASSUME NEW B, NEW p \in Seq(B), Separators \subseteq B, NEW sep \in Separators
  PROVE  LET once == ReplaceString(p, <<Backslash, Backslash>>, <<sep>>)
         IN  once \in Seq(B) /\ NormalizePath(p, sep) = LowerString(once, AllTo(Separators, sep))
<1> DEFINE from == <<Backslash, Backslash>>
           to == <<sep>>
           once == ReplaceString(p, from, to)
           M1 == AllTo({Backslash}, sep)
           M2 == AllTo({Slash}, sep)
           M == AllTo(Separators, sep)
<1>1. Backslash \in B /\ Slash \in B /\ sep \in B /\ (sep = Backslash \/ sep = Slash)
  BY DEF Separators
<1>2. from \in Seq(B) /\ from # <<>> /\ to \in Seq(B)
  BY <1>1
<1>3. once \in Seq(B)
  <2> DEFINE P == Seq(B) \X Seq(B)
  <2>1. Replaces(P, B, from, to)
    <3> HIDE DEF from, to
    <3>1. \A x, y, z \in Seq(B) : (x \o from) \o y \in Seq(B) /\ (x \o to) \o z \in Seq(B)
      BY <1>2
    <3>2. \A x, y, z \in Seq(B) : <<(x \o from) \o y, (x \o to) \o z>> \in P
      BY <3>1
    <3>3. \A x \in Seq(B) : <<x, x>> \in P
      OBVIOUS
    <3>4. \A x, y, z \in Seq(B) :
            FindFrom(x, from, 1) = Npos /\ <<y, z>> \in P => <<(x \o from) \o y, (x \o to) \o z>> \in P
      BY <3>2
    <3> HIDE DEF P
    <3> QED
      BY <3>3, <3>4 DEF Replaces
  <2> HIDE DEF from, to, P
  <2> QED
    BY <1>2, <2>1, ReplaceInduction
<1>4. /\ Gives(M1, B) /\ Gives(M2, B) /\ Gives(M, B)
      /\ \A c : Image(M1, c) = IF c = Backslash THEN sep ELSE c
      /\ \A c : Image(M2, c) = IF c = Slash THEN sep ELSE c
      /\ \A c : Image(M, c) = IF c \in Separators THEN sep ELSE c
  <2>1. \A S : Gives(AllTo(S, sep), B) /\ \A c : Image(AllTo(S, sep), c) = IF c \in S THEN sep ELSE c
    BY <1>1, AllToIs, ZenonT(60)
  <2> QED
    BY <2>1
<1>5. NormalizePath(p, sep) = ReplaceString(ReplaceString(once, <<Backslash>>, <<sep>>), <<Slash>>, <<sep>>)
  BY Zenon DEF NormalizePath
<1> HIDE DEF once, M1, M2, M
<1> DEFINE win == LowerString(once, M1)
<1>5a. Gives(M1, B) /\ Gives(M2, B) /\ Gives(M, B)
  BY <1>4
<1>6. win \in Seq(B) /\ Len(win) = Len(once) /\ \A i \in 1 .. Len(once) : win[i] = Image(M1, once[i])
  BY <1>3, <1>5a, MappedIs, Zenon
<1>6a. win \in Seq(B)
  BY <1>6
<1>7. ReplaceString(once, <<Backslash>>, <<sep>>) = win
  BY <1>1, <1>3, CharReplaced, Zenon DEF M1
<1> HIDE DEF win
<1> DEFINE last == LowerString(win, M2)
<1>8. ReplaceString(win, <<Slash>>, <<sep>>) = last
  BY <1>1, <1>6a, CharReplaced, Zenon DEF M2
<1>9. last \in Seq(B) /\ Len(last) = Len(win) /\ \A i \in 1 .. Len(win) : last[i] = Image(M2, win[i])
  BY <1>5a, <1>6a, MappedIs, Zenon
<1> HIDE DEF last
<1>10. \A c : Image(M, c) = Image(M2, Image(M1, c))
  BY <1>1, <1>4 DEF Separators
<1>11. LowerString(once, M) = last
  <2>1. \A i \in 1 .. Len(once) : last[i] = Image(M, once[i])
    BY <1>6, <1>9, <1>10
  <2> QED
    BY <1>3, <1>5a, <1>6, <1>9, <2>1, MappedAs
<1> QED
  BY <1>3, <1>5, <1>7, <1>8, <1>11 DEF once, M

\* A part of a text behind another one.
LEMMA PartBehind ==
  ASSUME NEW B, NEW a \in Seq(B), NEW r \in Seq(B), NEW t, t = a \o r,
         NEW i \in 1 .. Len(r) + 1, NEW j \in i - 1 .. Len(r)
  PROVE  SubSeq(t, Len(a) + i, Len(a) + j) = SubSeq(r, i, j)
<1> DEFINE n == Len(a)
           m == Len(r)
           c == n + i
           d == n + j
           u == SubSeq(t, c, d)
           v == SubSeq(r, i, j)
<1>1. n \in Nat /\ m \in Nat /\ t \in Seq(B) /\ Len(t) = n + m
      /\ \A k \in 1 .. n + m : t[k] = IF k <= n THEN a[k] ELSE r[k - n]
  BY LenProperties, ConcatProperties
<1>2. v \in Seq(B) /\ Len(v) = j - i + 1 /\ \A k \in 1 .. j - i + 1 : v[k] = r[i + k - 1]
  BY PartOf
<1> HIDE DEF v
<1>3. c \in 1 .. Len(t) + 1 /\ d \in c - 1 .. Len(t) /\ d - c + 1 = j - i + 1
  <2> HIDE DEF n
  <2> QED
    BY <1>1
<1>4. u \in Seq(B) /\ Len(u) = d - c + 1 /\ \A k \in 1 .. d - c + 1 : u[k] = t[c + k - 1]
  <2> HIDE DEF c, d
  <2> QED
    BY <1>1, <1>3, PartOf
<1> HIDE DEF u
<1>5. ASSUME NEW k \in 1 .. j - i + 1 PROVE u[k] = v[k]
  <2>1. u[k] = t[c + k - 1]
    <3> HIDE DEF c, d
    <3> QED
      BY <1>3, <1>4
  <2>2. c + k - 1 \in 1 .. n + m /\ ~ (c + k - 1 <= n) /\ (c + k - 1) - n = i + k - 1
    <3> HIDE DEF n
    <3> QED
      BY <1>1
  <2> HIDE DEF c
  <2> QED
    BY <1>1, <1>2, <2>1, <2>2
<1>6. u = v
  <2> HIDE DEF c, d
  <2> QED
    BY <1>2, <1>3, <1>4, <1>5, SeqEqual
<1> QED
  BY <1>6 DEF u, v

-----------------------------------------------------------------------------
(* The parts of a path *)

\* The parts of a text that are not empty.
Parts(s, sep) == SplitString(s, sep, TRUE)

\* A text is split into the part before the first separator and the parts behind it.
CutFirst(x, sep, r) == Parts((x \o sep) \o r, sep) = IfAny(x) \o Parts(r, sep)

\* The parts of a text without a separator are the text itself, unless it is empty.
LEMMA PartsOfOne ==
  ASSUME NEW B, NEW s \in Seq(B), NEW sep \in Seq(B), sep # <<>>, FindFrom(s, sep, 1) = Npos
  PROVE  Parts(s, sep) = IfAny(s)
<1>1. PICK h \in [1 .. Len(s) + 1 -> Seq(Seq(B))] : SplitLoop(s, sep, TRUE, h)
  BY SplitReads, Zenon
<1>2. SubSeq(s, 1, Len(s)) = s
  BY SubSeqFull
<1>3. 1 \in 1 .. Len(s) + 1
  BY LenProperties
<1>4. h[1] = PartKept(SubSeq(s, 1, Len(s)), TRUE)
  BY <1>1, <1>3 DEF SplitLoop
<1>5. h[1] = IfAny(s)
  BY <1>2, <1>4 DEF PartKept, IfAny
<1>6. CASE s # <<>>
  BY <1>1, <1>5, <1>6 DEF SplitLoop, Parts
<1>7. CASE s = <<>>
  BY <1>7 DEF Parts, SplitString, IfAny
<1> QED
  BY <1>6, <1>7

\* The parts of any text, as the loop reads them.
LEMMA PartsRead ==
  ASSUME NEW B, NEW s \in Seq(B), NEW sep \in Seq(B), sep # <<>>
  PROVE  \E h \in [1 .. Len(s) + 1 -> Seq(Seq(B))] :
            SplitLoop(s, sep, TRUE, h) /\ Parts(s, sep) = h[1]
<1>1. PICK h \in [1 .. Len(s) + 1 -> Seq(Seq(B))] : SplitLoop(s, sep, TRUE, h)
  BY SplitReads, Zenon
<1>2. Len(s) \in Nat /\ 1 \in 1 .. Len(s) + 1
  BY LenProperties
<1>3. h[1] \in Seq(Seq(B))
  BY <1>2
<1>4. CASE s # <<>>
  <2>1. Parts(s, sep) = h[1]
    BY <1>1, <1>4 DEF SplitLoop, Parts
  <2> QED
    BY <1>1, <1>3, <2>1
<1>5. CASE s = <<>>
  <2>1. FindFrom(s, sep, 1) = Npos
    <3> DEFINE e == FindFrom(s, sep, 1)
    <3>1. e # Npos => e + Len(sep) \in 1 + 1 .. Len(s) + 1
      BY <1>1, <1>2 DEF SplitLoop
    <3>2. e # Npos => e \in 1 .. Len(s)
      BY <1>2, CutAt, Zenon
    <3>3. Len(s) = 0
      BY <1>5
    <3> HIDE DEF e
    <3>4. e = Npos
      BY <3>2, <3>3
    <3> QED
      BY <3>4 DEF e
  <2>2. h[1] = PartKept(SubSeq(s, 1, Len(s)), TRUE)
    BY <1>1, <1>2, <2>1 DEF SplitLoop
  <2>3. SubSeq(s, 1, Len(s)) = s
    BY SubSeqFull
  <2>4. Parts(s, sep) = h[1]
    BY <1>5, <2>2, <2>3 DEF PartKept, Parts, SplitString
  <2> QED
    BY <1>1, <1>3, <2>4
<1> QED
  BY <1>4, <1>5

\* The parts are texts.
LEMMA PartsTyped ==
  ASSUME NEW B, NEW s \in Seq(B), NEW sep \in Seq(B), sep # <<>>
  PROVE  Parts(s, sep) \in Seq(Seq(B)) /\ IfAny(s) \in Seq(Seq(B))
<1>1. PICK h \in [1 .. Len(s) + 1 -> Seq(Seq(B))] : SplitLoop(s, sep, TRUE, h) /\ Parts(s, sep) = h[1]
  BY PartsRead, Zenon
<1>2. 1 \in 1 .. Len(s) + 1
  BY LenProperties
<1> QED
  BY <1>1, <1>2 DEF IfAny

\* Behind its first separator a text is split as if nothing were before.
LEMMA PartsCut ==
  ASSUME NEW B, NEW x \in Seq(B), NEW sep \in Seq(B), sep # <<>>, NEW r \in Seq(B),
         FindFrom((x \o sep) \o r, sep, 1) = Len(x) + 1
  PROVE  CutFirst(x, sep, r)
<1> DEFINE a == x \o sep
           t == a \o r
           k == Len(a)
           m == Len(r) + 1
           l == Len(sep)
           w == Len(x)
<1>1. a \in Seq(B) /\ t \in Seq(B) /\ k = w + l /\ Len(t) = k + Len(r)
      /\ w \in Nat /\ Len(r) \in Nat /\ l \in Nat /\ l >= 1
  <2>1. a \in Seq(B) /\ Len(a) = Len(x) + Len(sep)
    BY ConcatProperties
  <2> HIDE DEF a
  <2>2. t \in Seq(B) /\ Len(t) = Len(a) + Len(r)
    BY <2>1, ConcatProperties
  <2> QED
    BY <2>1, <2>2, LenProperties, EmptySeq
<1>2. SubSeq(a, 1, w) = x
  BY PartsOfConcat
<1>3. SubSeq(t, 1, w) = x
  <2>1. SubSeq(t, 1, k) = a
    <3> HIDE DEF a
    <3> QED
      BY <1>1, PartsOfConcat
  <2>2. t = x \o (sep \o r)
    BY ConcatAssociative
  <2>3. sep \o r \in Seq(B)
    BY ConcatProperties
  <2> DEFINE y == sep \o r
  <2> HIDE DEF t, y
  <2> QED
    BY <2>2, <2>3, PartsOfConcat DEF y
<1>4. FindFrom(t, sep, 1) = w + 1
  OBVIOUS
<1> HIDE DEF a, t
<1>1a. a \in Seq(B) /\ t \in Seq(B)
  BY <1>1
<1>5. PICK g \in [1 .. Len(t) + 1 -> Seq(Seq(B))] : SplitLoop(t, sep, TRUE, g) /\ Parts(t, sep) = g[1]
  BY <1>1a, PartsRead, Zenon
<1>6. PICK h \in [1 .. m -> Seq(Seq(B))] : SplitLoop(r, sep, TRUE, h) /\ Parts(r, sep) = h[1]
  BY PartsRead, Zenon
<1> HIDE DEF k, l, w
<1>7. g[1] = IfAny(x) \o g[k + 1]
  <2>1. 1 \in 1 .. Len(t) + 1 /\ w + 1 # Npos /\ (w + 1) + l = k + 1 /\ (w + 1) - 1 = w
    BY <1>1 DEF Npos
  <2>2. g[1] = PartKept(SubSeq(t, 1, FindFrom(t, sep, 1) - 1), TRUE) \o g[FindFrom(t, sep, 1) + Len(sep)]
    BY <1>4, <1>5, <2>1 DEF SplitLoop
  <2>3. FindFrom(t, sep, 1) - 1 = w /\ FindFrom(t, sep, 1) + Len(sep) = k + 1
    BY <1>4, <2>1 DEF l
  <2>4. PartKept(x, TRUE) = IfAny(x)
    BY DEF PartKept, IfAny
  <2> QED
    BY <1>3, <2>2, <2>3, <2>4
<1> DEFINE S == {i \in 1 .. m : g[k + i] = h[i]}
<1>8. ASSUME NEW i \in 1 .. m, \A j \in i + 1 .. m : j \in S PROVE i \in S
  <2> DEFINE p == k + i
             e == FindFrom(r, sep, i)
             f == FindFrom(t, sep, p)
  <2>1. p \in 1 .. Len(t) + 1 /\ i \in 1 .. Len(r) + 1 /\ k + Len(r) = Len(t) /\ Len(r) \in i - 1 .. Len(r)
        /\ p \in Nat \ {0} /\ i \in Nat \ {0} /\ k \in Nat
    BY <1>1
  <2>2. \A j \in i - 1 .. Len(r) : SubSeq(t, k + i, k + j) = SubSeq(r, i, j)
    <3> TAKE j \in i - 1 .. Len(r)
    <3>1. t = a \o r
      BY DEF t
    <3>2. a \in Seq(B) /\ r \in Seq(B) /\ i \in 1 .. Len(r) + 1 /\ j \in i - 1 .. Len(r) /\ k = Len(a)
      BY <1>1, <2>1 DEF k
    <3>3. SubSeq(t, Len(a) + i, Len(a) + j) = SubSeq(r, i, j)
      BY <3>1, <3>2, PartBehind, ZenonT(60)
    <3> QED
      BY <3>2, <3>3, Zenon
  <2>3. SubSeq(t, p, Len(t)) = SubSeq(r, i, Len(r))
    BY <2>1, <2>2
  <2> HIDE DEF p
  <2>4. f = Npos <=> e = Npos
    <3>1. p \in 1 .. Len(t) + 1 /\ i \in 1 .. Len(r) + 1
      BY <2>1
    <3>2. f # Npos => e # Npos
      BY <1>1a, <2>3, <3>1, FindNotLater, Zenon
    <3>3. e # Npos => f # Npos
      BY <1>1a, <2>3, <3>1, FindNotLater, Zenon
    <3> QED
      BY <3>2, <3>3, Zenon
  <2>5. CASE e = Npos
    <3>1. g[p] = PartKept(SubSeq(t, p, Len(t)), TRUE)
      BY <1>5, <2>1, <2>4, <2>5 DEF SplitLoop
    <3>2. h[i] = PartKept(SubSeq(r, i, Len(r)), TRUE)
      BY <1>6, <2>1, <2>5 DEF SplitLoop
    <3> QED
      BY <2>3, <3>1, <3>2 DEF p
  <2>6. CASE e # Npos
    <3>1. FoundBehind(t, r, sep, p, i)
      <4>1. p \in 1 .. Len(t) + 1 /\ i \in 1 .. Len(r) + 1
        BY <2>1
      <4> QED
        BY <1>1a, <2>3, <2>6, <4>1, FindBehind, Zenon
    <3>2. f = e - i + p
      BY <3>1 DEF FoundBehind
    <3>3. /\ f + l \in p + 1 .. Len(t) + 1
          /\ g[p] = PartKept(SubSeq(t, p, f - 1), TRUE) \o g[f + l]
      BY <1>5, <2>1, <2>4, <2>6 DEF SplitLoop, l
    <3>4. /\ e + l \in i + 1 .. Len(r) + 1
          /\ h[i] = PartKept(SubSeq(r, i, e - 1), TRUE) \o h[e + l]
      BY <1>6, <2>1, <2>6 DEF SplitLoop, l
    <3>5. e \in i .. Len(r)
      BY <2>1, <2>6, CutAt, Zenon
    <3> HIDE DEF e, f
    <3>6. f - 1 = k + (e - 1) /\ f + l = k + (e + l) /\ e - 1 \in i - 1 .. Len(r) /\ e + l \in i + 1 .. m
      BY <1>1, <2>1, <3>2, <3>4, <3>5 DEF p
    <3>7. SubSeq(t, p, f - 1) = SubSeq(r, i, e - 1)
      BY <2>2, <3>6 DEF p
    <3>8. g[k + (e + l)] = h[e + l]
      BY <1>8, <3>6
    <3>9. g[p] = h[i]
      BY <3>3, <3>4, <3>6, <3>7, <3>8
    <3> QED
      BY <3>9 DEF p
  <2> QED
    BY <2>5, <2>6
<1>9. g[k + 1] = h[1]
  <2> HIDE DEF S
  <2>1. m \in Nat /\ 1 \in 1 .. m
    BY <1>1
  <2> HIDE DEF m
  <2>2. 1 \in S
    BY <1>8, <2>1, DownwardInduction
  <2> QED
    BY <2>2 DEF S
<1> QED
  BY <1>5, <1>6, <1>7, <1>9 DEF CutFirst, t, a

\* Parts of one text behind those of another.
JoinedParts(a, c, b) == Parts((a \o <<c>>) \o b, <<c>>) = Parts(a, <<c>>) \o Parts(b, <<c>>)

\* The first place of a text.
Finds(s, t, from, e) ==
  /\ e \in from .. Len(s) - Len(t) + 1 /\ SubSeq(s, e, e + Len(t) - 1) = t
  /\ \A i \in from .. e - 1 : SubSeq(s, i, i + Len(t) - 1) # t

\* What is found is the first place.
LEMMA FoundFirst ==
  ASSUME NEW B, NEW s \in Seq(B), NEW t \in Seq(B), NEW from \in Nat \ {0}, FindFrom(s, t, from) # Npos
  PROVE  Finds(s, t, from, FindFrom(s, t, from))
BY FindIs DEF Finds

\* A first part without the character.
LEMMA CharCut ==
  ASSUME NEW B, NEW x \in Seq(B), NEW c \in B, NEW r \in Seq(B), FindFrom(x, <<c>>, 1) = Npos
  PROVE  CutFirst(x, <<c>>, r)
<1> DEFINE sep == <<c>>
           t == (x \o sep) \o r
           w == Len(x)
           f == FindFrom(t, sep, 1)
<1>1. sep \in Seq(B) /\ sep # <<>> /\ Len(sep) = 1 /\ w \in Nat /\ Len(r) \in Nat
  BY LenProperties
<1>2. \A i \in 1 .. w : x[i] # c
  BY FindChar
<1>3. t \in Seq(B) /\ Len(t) = w + 1 + Len(r) /\ t[w + 1] = c /\ \A i \in 1 .. w : t[i] = x[i]
  <2> DEFINE a == x \o sep
  <2>1. a \in Seq(B) /\ Len(a) = w + 1 /\ \A i \in 1 .. w + 1 : a[i] = IF i <= w THEN x[i] ELSE sep[i - w]
    BY <1>1, ConcatProperties
  <2>2. a[w + 1] = c /\ \A i \in 1 .. w : a[i] = x[i]
    BY <1>1, <2>1
  <2> HIDE DEF a, w
  <2>3. t \in Seq(B) /\ Len(t) = Len(a) + Len(r)
        /\ \A i \in 1 .. Len(a) + Len(r) : t[i] = IF i <= Len(a) THEN a[i] ELSE r[i - Len(a)]
    BY <2>1, ConcatProperties DEF a
  <2> HIDE DEF t
  <2> QED
    BY <1>1, <2>1, <2>2, <2>3
<1> HIDE DEF t, w
<1>4. f # Npos
  <2>1. w + 1 \in 1 .. Len(t)
    BY <1>1, <1>3
  <2> QED
    BY <1>3, <2>1, FindChar
<1>5. f \in 1 .. Len(t) /\ t[f] = c /\ \A i \in 1 .. f - 1 : t[i] # c
  <2> DEFINE one == 1
             e == FindFrom(t, sep, one)
  <2>1. one \in Nat \ {0} /\ e # Npos
    BY <1>4
  <2>2. Len(t) \in Nat
    BY <1>1, <1>3
  <2> HIDE DEF one, sep
  <2>3. /\ e \in one .. Len(t) - Len(sep) + 1 /\ SubSeq(t, e, e + Len(sep) - 1) = sep
        /\ \A i \in one .. e - 1 : SubSeq(t, i, i + Len(sep) - 1) # sep
    <3>1. t \in Seq(B) /\ sep \in Seq(B)
      BY <1>1, <1>3
    <3>2. Finds(t, sep, one, e)
      BY <2>1, <3>1, FoundFirst
    <3> HIDE DEF e
    <3> QED
      BY <3>2 DEF Finds
  <2> HIDE DEF e
  <2>4. e \in 1 .. Len(t)
    BY <1>1, <2>2, <2>3 DEF one
  <2>5. \A i \in 1 .. Len(t) : SubSeq(t, i, i + 1 - 1) = <<t[i]>>
    <3> TAKE i \in 1 .. Len(t)
    <3> DEFINE u == SubSeq(t, i, i)
    <3>1. i \in 1 .. Len(t) + 1 /\ i \in i - 1 .. Len(t) /\ i - i + 1 = 1 /\ i + 1 - 1 = i /\ t[i] \in B
      BY <1>3, <2>2, ElementOfSeq
    <3>2. u \in Seq(B) /\ Len(u) = i - i + 1 /\ \A k \in 1 .. i - i + 1 : u[k] = t[i + k - 1]
      BY <1>3, <3>1, PartOf
    <3>3. u[1] = t[i] /\ Len(u) = 1
      BY <3>1, <3>2
    <3> HIDE DEF u
    <3>4. u = <<t[i]>>
      BY <3>2, <3>3
    <3> QED
      BY <3>1, <3>4 DEF u
  <2>6. <<t[e]>> = <<c>> /\ \A i \in 1 .. e - 1 : <<t[i]>> # <<c>>
    BY <1>1, <2>2, <2>3, <2>4, <2>5 DEF one, sep
  <2>7. t[e] = c /\ \A i \in 1 .. e - 1 : t[i] # c
    BY <2>6
  <2> QED
    BY <2>4, <2>7 DEF e, one, sep
<1>6. f = w + 1
  <2> HIDE DEF f
  <2>1. f > w
    BY <1>1, <1>2, <1>3, <1>5
  <2>2. ~ (f > w + 1)
    <3>1. f > w + 1 => w + 1 \in 1 .. f - 1
      BY <1>1, <1>3, <1>5
    <3> QED
      BY <1>3, <1>5, <3>1
  <2> QED
    BY <1>1, <1>3, <1>5, <2>1, <2>2
<1>7. FindFrom((x \o sep) \o r, sep, 1) = Len(x) + 1
  BY <1>6 DEF t, w
<1> HIDE DEF sep
<1>8. CutFirst(x, sep, r)
  BY <1>1, <1>7, PartsCut
<1> QED
  BY <1>8 DEF sep

\* The parts of two texts with the character between them are those of both.
LEMMA PartsJoined ==
  ASSUME NEW B, NEW a \in Seq(B), NEW c \in B, NEW b \in Seq(B)
  PROVE  JoinedParts(a, c, b)
<1> DEFINE sep == <<c>>
           P == {q \in Seq(B) \X Seq(B) : Parts((q[1] \o sep) \o b, sep) = Parts(q[1], sep) \o Parts(b, sep)}
<1>1. sep \in Seq(B) /\ sep # <<>>
  OBVIOUS
<1>2. \A x, r \in Seq(B) : FindFrom(x, sep, 1) = Npos => CutFirst(x, sep, r)
  BY CharCut
<1> HIDE DEF sep
<1>3. \A x \in Seq(B) : Parts(x, sep) \in Seq(Seq(B)) /\ IfAny(x) \in Seq(Seq(B))
  BY <1>1, PartsTyped
<1>4. ASSUME NEW x \in Seq(B), FindFrom(x, sep, 1) = Npos PROVE <<x, x>> \in P
  <2>1. Parts((x \o sep) \o b, sep) = IfAny(x) \o Parts(b, sep)
    BY <1>2, <1>4 DEF CutFirst
  <2>2. Parts(x, sep) = IfAny(x)
    BY <1>1, <1>4, PartsOfOne
  <2> QED
    BY <2>1, <2>2
<1>5. ASSUME NEW x \in Seq(B), NEW y \in Seq(B), NEW z \in Seq(B),
             FindFrom(x, sep, 1) = Npos, <<y, z>> \in P
      PROVE  <<(x \o sep) \o y, (x \o sep) \o z>> \in P
  <2> DEFINE v == (x \o sep) \o y
             u == (y \o sep) \o b
  <2>1. Parts(u, sep) = Parts(y, sep) \o Parts(b, sep)
    BY <1>5
  <2>2. (v \o sep) \o b = (x \o sep) \o u
    <3> DEFINE xs == x \o sep
    <3>1. xs \in Seq(B) /\ v = xs \o y
      BY <1>1
    <3> HIDE DEF xs, v
    <3>2. Regrouped(xs, y, sep, b)
      BY <1>1, <3>1, ConcatRegroup
    <3>3. xs \o u = (v \o sep) \o b
      BY <3>1, <3>2 DEF Regrouped
    <3> QED
      BY <3>3 DEF xs
  <2>3. u \in Seq(B) /\ v \in Seq(B) /\ (x \o sep) \o z \in Seq(B)
    BY <1>1
  <2>4. Parts(v, sep) = IfAny(x) \o Parts(y, sep)
    BY <1>2, <1>5 DEF CutFirst
  <2> HIDE DEF u
  <2>5. Parts((x \o sep) \o u, sep) = IfAny(x) \o Parts(u, sep)
    BY <1>2, <1>5, <2>3 DEF CutFirst
  <2> HIDE DEF v
  <2>6. IfAny(x) \o (Parts(y, sep) \o Parts(b, sep)) = (IfAny(x) \o Parts(y, sep)) \o Parts(b, sep)
    <3> DEFINE A == Seq(B)
               i == IfAny(x)
               j == Parts(y, sep)
               k == Parts(b, sep)
    <3>1. i \in Seq(A) /\ j \in Seq(A) /\ k \in Seq(A)
      BY <1>3
    <3> HIDE DEF A, i, j, k
    <3>2. (i \o j) \o k = i \o (j \o k)
      BY <3>1, ConcatAssociative, SMTT(30)
    <3> QED
      BY <3>2 DEF i, j, k
  <2>7. Parts((v \o sep) \o b, sep) = Parts(v, sep) \o Parts(b, sep)
    <3>1. Parts((v \o sep) \o b, sep) = Parts((x \o sep) \o u, sep)
      BY <2>2, Zenon
    <3>2. Parts((v \o sep) \o b, sep) = IfAny(x) \o (Parts(y, sep) \o Parts(b, sep))
      BY <2>1, <2>5, <3>1, Zenon
    <3> QED
      BY <2>4, <2>6, <3>2, Zenon
  <2> QED
    BY <2>3, <2>7 DEF v
<1>6. Replaces(P, B, sep, sep)
  <2> HIDE DEF P
  <2> QED
    BY <1>4, <1>5 DEF Replaces
<1>7. <<a, ReplaceString(a, sep, sep)>> \in P
  <2> HIDE DEF P
  <2> QED
    BY <1>1, <1>6, ReplaceInduction
<1> QED
  BY <1>7 DEF JoinedParts, sep

\* A path with its separators made slashes.
Slashed(path, seps) == LowerString(path, AllTo(seps, Slash))

\* The names in a path are the parts between slashes once every separator is one.
LEMMA NamesAre ==
  ASSUME NEW path, NEW seps
  PROVE  NamesIn(path, seps) = Parts(Slashed(path, seps), <<Slash>>)
<1>1. Slashed(path, seps) = [i \in DOMAIN path |-> IF path[i] \in seps THEN Slash ELSE path[i]]
  BY DEF Slashed, LowerString, AllTo
<1>2. NamesIn(path, seps) = SplitString([i \in DOMAIN path |-> IF path[i] \in seps THEN Slash ELSE path[i]], <<Slash>>, TRUE)
  BY Zenon DEF NamesIn
<1> QED
  BY <1>1, <1>2 DEF Parts

\* A path with slashes is a path.
LEMMA SlashedTyped ==
  ASSUME NEW B, Slash \in B, NEW path \in Seq(B), NEW seps
  PROVE  Slashed(path, seps) \in Seq(B)
<1>1. Gives(AllTo(seps, Slash), B)
  BY AllToIs, Zenon
<1> QED
  BY <1>1, MappedIs, Zenon DEF Slashed

\* The names of two paths with a separator between them are those of both.
NamesBoth(a, c, b, seps) == NamesIn((a \o <<c>>) \o b, seps) = NamesIn(a, seps) \o NamesIn(b, seps)

LEMMA NamesJoined ==
  ASSUME NEW B, Slash \in B, NEW a \in Seq(B), NEW b \in Seq(B), NEW seps, NEW c \in seps, c \in B
  PROVE  NamesBoth(a, c, b, seps)
<1> DEFINE M == AllTo(seps, Slash)
           ac == a \o <<c>>
           sep == <<Slash>>
           one == <<c>>
           u == Slashed(a, seps)
           v == Slashed(b, seps)
<1>1. Gives(M, B) /\ Image(M, c) = Slash
  <2>1. Gives(AllTo(seps, Slash), B) /\ \A e : Image(AllTo(seps, Slash), e) = IF e \in seps THEN Slash ELSE e
    BY AllToIs, Zenon
  <2> QED
    BY <2>1
<1>2. ac \in Seq(B) /\ one \in Seq(B) /\ sep \in Seq(B)
  OBVIOUS
<1> HIDE DEF M
<1>3. LowerString(one, M) = sep
  <2>1. Len(sep) = Len(one) /\ \A i \in 1 .. Len(one) : sep[i] = Image(M, one[i])
    BY <1>1
  <2>2. Gives(M, B)
    BY <1>1
  <2> HIDE DEF one, sep
  <2> QED
    BY <1>2, <2>1, <2>2, MappedAs, Zenon
<1>4. LowerString(ac, M) = LowerString(a, M) \o sep
  <2>1. Gives(M, B)
    BY <1>1
  <2>2. MapsBoth(a, one, M)
    BY <1>2, <2>1, MappedConcat, Zenon
  <2> HIDE DEF sep
  <2> QED
    BY <1>3, <2>2 DEF MapsBoth
<1>5. LowerString(ac \o b, M) = LowerString(ac, M) \o LowerString(b, M)
  <2>1. Gives(M, B)
    BY <1>1
  <2> HIDE DEF ac
  <2>2. MapsBoth(ac, b, M)
    BY <1>2, <2>1, MappedConcat, Zenon
  <2> QED
    BY <2>2 DEF MapsBoth
<1>6. Slashed(ac \o b, seps) = (u \o sep) \o v
  BY <1>4, <1>5 DEF Slashed, M
<1>7. u \in Seq(B) /\ v \in Seq(B)
  BY SlashedTyped
<1> HIDE DEF u, v
<1>8. JoinedParts(u, Slash, v)
  BY <1>7, PartsJoined
<1>9. NamesIn(ac \o b, seps) = Parts(u, sep) \o Parts(v, sep)
  BY <1>6, <1>8, NamesAre DEF JoinedParts
<1> QED
  BY <1>9, NamesAre DEF NamesBoth, u, v

\* An empty path has no names, and the names of any are texts.
LEMMA NamesTyped ==
  ASSUME NEW B, Slash \in B, NEW path \in Seq(B), NEW seps
  PROVE  NamesIn(path, seps) \in Seq(Seq(B)) /\ NamesIn(<<>>, seps) = <<>>
<1> DEFINE sep == <<Slash>>
           u == Slashed(path, seps)
<1>1. u \in Seq(B) /\ sep \in Seq(B) /\ sep # <<>>
  BY SlashedTyped
<1>2. NamesIn(path, seps) \in Seq(Seq(B))
  <2> HIDE DEF u, sep
  <2>1. Parts(u, sep) \in Seq(Seq(B))
    BY <1>1, PartsTyped
  <2> QED
    BY <2>1, NamesAre DEF u, sep
<1>3. NamesIn(<<>>, seps) = <<>>
  <2>1. Slashed(<<>>, seps) = <<>>
    BY DEF Slashed, LowerString
  <2>2. Parts(<<>>, sep) = <<>>
    BY DEF Parts, SplitString
  <2> QED
    BY <2>1, <2>2, NamesAre
<1> QED
  BY <1>2, <1>3

\* A separator before or behind a path adds no name.
LEMMA NamesEnds ==
  ASSUME NEW B, Slash \in B, NEW path \in Seq(B), NEW seps, NEW c \in seps, c \in B
  PROVE  /\ NamesIn(path \o <<c>>, seps) = NamesIn(path, seps)
         /\ NamesIn(<<c>> \o path, seps) = NamesIn(path, seps)
<1> DEFINE none == <<>>
<1>1. none \in Seq(B) /\ none \o <<c>> = <<c>> /\ (path \o <<c>>) \o none = path \o <<c>>
  OBVIOUS
<1>2. NamesIn(path, seps) \in Seq(Seq(B)) /\ NamesIn(none, seps) = <<>>
  BY NamesTyped
<1>3. NamesIn(path, seps) \o <<>> = NamesIn(path, seps) /\ <<>> \o NamesIn(path, seps) = NamesIn(path, seps)
  BY <1>2
<1> HIDE DEF none
<1>4. NamesBoth(path, c, none, seps) /\ NamesBoth(none, c, path, seps)
  BY <1>1, NamesJoined
<1>5. NamesIn(path \o <<c>>, seps) = NamesIn(path, seps)
  BY <1>1, <1>2, <1>3, <1>4 DEF NamesBoth
<1>6. NamesIn(<<c>> \o path, seps) = NamesIn(path, seps)
  BY <1>1, <1>2, <1>3, <1>4 DEF NamesBoth
<1> QED
  BY <1>5, <1>6

\* A text that is not empty is its first character and the rest, or the rest and the last.
LEMMA FirstAndRest ==
  ASSUME NEW B, NEW s \in Seq(B), s # <<>>
  PROVE  /\ Len(s) >= 1 /\ s[1] \in B /\ From(s, 2) \in Seq(B) /\ s = <<s[1]>> \o From(s, 2) /\ Len(From(s, 2)) = Len(s) - 1
         /\ s[Len(s)] \in B /\ \E a \in Seq(B) : s = a \o <<s[Len(s)]>>
<1> DEFINE n == Len(s)
           r == SubSeq(s, 2, n)
<1>1. n \in Nat /\ n >= 1
  BY LenProperties, EmptySeq
<1>2. s[1] \in B /\ s[n] \in B
  BY <1>1, ElementOfSeq
<1>3. r \in Seq(B) /\ Len(r) = n - 1 /\ \A k \in 1 .. n - 1 : r[k] = s[k + 1]
  <2> DEFINE two == 2
  <2>1. two \in 1 .. n + 1 /\ n \in two - 1 .. n /\ n - two + 1 = n - 1 /\ \A k \in 1 .. n - 1 : two + k - 1 = k + 1
    BY <1>1
  <2> HIDE DEF two
  <2>2. SubSeq(s, two, n) \in Seq(B) /\ Len(SubSeq(s, two, n)) = n - two + 1
        /\ \A k \in 1 .. n - two + 1 : SubSeq(s, two, n)[k] = s[two + k - 1]
    BY <2>1, PartOf
  <2> QED
    BY <2>1, <2>2 DEF two
<1>4. s = <<s[1]>> \o r
  <2> HIDE DEF r
  <2>1. Len(s) = Len(r) + 1 /\ \A k \in 1 .. Len(r) : s[k + 1] = r[k]
    BY <1>1, <1>3
  <2> QED
    BY <1>2, <1>3, <2>1, FirstThenIs
<1>5. \E a \in Seq(B) : s = a \o <<s[n]>>
  <2> DEFINE a == SubSeq(s, 1, n - 1)
             b == <<s[n]>>
             z == a \o b
             m == n - 1
  <2>1. m \in 1 - 1 .. n /\ 1 \in 1 .. n + 1 /\ m - 1 + 1 = m
    BY <1>1
  <2>2. a \in Seq(B) /\ Len(a) = m /\ \A k \in 1 .. m : a[k] = s[1 + k - 1]
    <3> HIDE DEF m
    <3>1. SubSeq(s, 1, m) \in Seq(B) /\ Len(SubSeq(s, 1, m)) = m - 1 + 1
          /\ \A k \in 1 .. m - 1 + 1 : SubSeq(s, 1, m)[k] = s[1 + k - 1]
      BY <2>1, PartOf
    <3> QED
      BY <2>1, <3>1 DEF m
  <2> HIDE DEF a
  <2>3. b \in Seq(B) /\ Len(b) = 1 /\ b[1] = s[n]
    BY <1>2
  <2> HIDE DEF b
  <2> HIDE DEF m
  <2>4. z \in Seq(B) /\ Len(z) = m + 1 /\ \A k \in 1 .. m + 1 : z[k] = IF k <= m THEN a[k] ELSE b[k - m]
    <3>1. a \in Seq(B) /\ b \in Seq(B)
      BY <2>2, <2>3
    <3>2. /\ z \in Seq(B) /\ Len(z) = Len(a) + Len(b)
          /\ \A k \in 1 .. Len(a) + Len(b) : z[k] = IF k <= Len(a) THEN a[k] ELSE b[k - Len(a)]
      BY <3>1, ConcatProperties, Zenon
    <3> HIDE DEF z
    <3>3. Len(a) = m /\ Len(b) = 1
      BY <2>2, <2>3
    <3> QED
      BY <3>2, <3>3
  <2> USE DEF m
  <2> HIDE DEF z
  <2>5. \A k \in 1 .. n : z[k] = s[k]
    BY <1>1, <2>2, <2>3, <2>4
  <2>6. Len(z) = n
    BY <1>1, <2>4
  <2>7. z = s
    BY <2>4, <2>5, <2>6, SeqEqual
  <2> QED
    BY <2>2, <2>7 DEF z, b
<1> QED
  BY <1>1, <1>2, <1>3, <1>4, <1>5 DEF From

\* Joining two paths keeps the names of both and never doubles a separator at the seam.
LEMMA JoinKeeps ==
  ASSUME NEW B, Slash \in B, NEW left \in Seq(B), NEW right \in Seq(B), NEW sep \in B
  PROVE  /\ NamesIn(JoinPath(left, right, sep), {sep}) = NamesIn(left, {sep}) \o NamesIn(right, {sep})
         /\ Len(JoinPath(left, right, sep)) <= Len(left) + Len(right) + 1
<1> DEFINE seps == {sep}
           one == <<sep>>
           j == JoinPath(left, right, sep)
           N(p) == NamesIn(p, seps)
           Good == N(j) = N(left) \o N(right) /\ Len(j) <= Len(left) + Len(right) + 1
<1>0. SUFFICES Good
  BY Zenon
<1>1. one \in Seq(B) /\ Len(one) = 1 /\ sep \in seps /\ Len(left) \in Nat /\ Len(right) \in Nat
  BY LenProperties
<1>2. \A p \in Seq(B) : N(p) \in Seq(Seq(B))
  BY NamesTyped
<1>3. \A a, b \in Seq(B) : N((a \o one) \o b) = N(a) \o N(b)
  <2> TAKE a, b \in Seq(B)
  <2>1. NamesBoth(a, sep, b, seps)
    BY <1>1, NamesJoined
  <2> QED
    BY <2>1 DEF NamesBoth
<1>4. \A a \in Seq(B) : N(a \o one) = N(a) /\ N(one \o a) = N(a)
  BY <1>1, NamesEnds
<1>5. StartsWith(right, one) <=> right # <<>> /\ right[1] = sep
  <2>1. right = <<>> <=> Len(right) = 0
    BY EmptySeq
  <2>2. DOMAIN one = 1 .. 1 /\ one[1] = sep
    OBVIOUS
  <2>3. Len(right) >= 1 <=> Len(right) # 0
    BY <1>1
  <2> QED
    BY <1>1, <2>1, <2>2, <2>3 DEF StartsWith
<1>6. CASE left = <<>>
  <2>1. j = right /\ N(left) = <<>>
    BY <1>6, NamesTyped DEF JoinPath
  <2>2. <<>> \o N(right) = N(right)
    BY <1>2
  <2>3. Len(j) <= Len(left) + Len(right) + 1
    BY <1>1, <2>1
  <2>4. N(j) = N(left) \o N(right)
    BY <2>1, <2>2, Zenon
  <2> HIDE DEF N, j
  <2> QED
    BY <2>3, <2>4
<1>7. CASE left # <<>> /\ left[Len(left)] = sep
  <2>1. PICK a \in Seq(B) : left = a \o one
    BY <1>7, FirstAndRest
  <2>2. N(left) = N(a) /\ Len(left) = Len(a) + 1 /\ Len(a) \in Nat
    BY <1>1, <1>4, <2>1, LenProperties, ConcatProperties
  <2>3. CASE StartsWith(right, one)
    <3> DEFINE r == From(right, 2)
    <3>1. r \in Seq(B) /\ right = one \o r /\ Len(r) = Len(right) - 1
      BY <1>5, <2>3, FirstAndRest
    <3> HIDE DEF r
    <3>2. j = left \o r
      BY <1>7, <2>3 DEF JoinPath, r
    <3>3. N(right) = N(r)
      BY <1>4, <3>1
    <3> HIDE DEF one, j, N
    <3>4. Len(j) = Len(left) + Len(r)
      BY <3>1, <3>2, ConcatProperties
    <3>5. N(j) = N(left) \o N(right)
      <4>1. N((a \o one) \o r) = N(a) \o N(r)
        BY <1>3, <3>1
      <4> QED
        BY <2>1, <2>2, <3>2, <3>3, <4>1
    <3>6. Len(j) <= Len(left) + Len(right) + 1
      BY <1>1, <3>1, <3>4
    <3> QED
      BY <3>5, <3>6
  <2>4. CASE ~ StartsWith(right, one)
    <3>1. j = left \o right
      BY <1>7, <2>4 DEF JoinPath
    <3> HIDE DEF one, j, N
    <3>2. Len(j) = Len(left) + Len(right)
      BY <3>1, ConcatProperties
    <3>3. N(j) = N(left) \o N(right)
      <4>1. N((a \o one) \o right) = N(a) \o N(right)
        BY <1>3
      <4> QED
        BY <2>1, <2>2, <3>1, <4>1
    <3>4. Len(j) <= Len(left) + Len(right) + 1
      BY <1>1, <3>2
    <3> QED
      BY <3>3, <3>4
  <2> QED
    BY <2>3, <2>4
<1>8. CASE left # <<>> /\ left[Len(left)] # sep
  <2>1. CASE StartsWith(right, one)
    <3> DEFINE r == From(right, 2)
    <3>1. r \in Seq(B) /\ right = one \o r
      BY <1>5, <2>1, FirstAndRest
    <3> HIDE DEF r
    <3>2. j = left \o right
      BY <1>8, <2>1 DEF JoinPath
    <3>3. N(right) = N(r)
      BY <1>4, <3>1
    <3> HIDE DEF one, j, N
    <3>4. Len(j) = Len(left) + Len(right)
      BY <3>2, ConcatProperties
    <3>5. left \o (one \o r) = (left \o one) \o r
      BY <1>1, <3>1, ConcatAssociative, SMTT(30)
    <3>6. N(j) = N(left) \o N(right)
      BY <1>3, <3>1, <3>2, <3>3, <3>5
    <3>7. Len(j) <= Len(left) + Len(right) + 1
      BY <1>1, <3>4
    <3> QED
      BY <3>6, <3>7
  <2>2. CASE ~ StartsWith(right, one)
    <3>1. j = (left \o one) \o right
      BY <1>8, <2>2 DEF JoinPath
    <3> DEFINE l == left \o one
    <3>2. l \in Seq(B) /\ Len(l) = Len(left) + 1
      BY <1>1, ConcatProperties
    <3>3. N(j) = N(left) \o N(right)
      <4> HIDE DEF one, j, N
      <4> QED
        BY <1>3, <3>1
    <3>4. Len(j) = Len(l) + Len(right)
      <4> HIDE DEF l, j
      <4>1. j = l \o right
        BY <3>1 DEF l
      <4> QED
        BY <3>2, <4>1, ConcatProperties
    <3> HIDE DEF l, j, N
    <3>5. Len(j) <= Len(left) + Len(right) + 1
      BY <1>1, <3>2, <3>4
    <3> QED
      BY <3>3, <3>5
  <2> QED
    BY <2>1, <2>2
<1> QED
  BY <1>6, <1>7, <1>8

\* Normalizing a path keeps its names.
LEMMA NormalizeKeeps ==
  ASSUME NEW B, Separators \subseteq B, NEW p \in Seq(B), NEW sep \in Separators
  PROVE  /\ NormalizePath(p, sep) \in Seq(B)
         /\ NamesIn(NormalizePath(p, sep), {sep}) = NamesIn(p, Separators)
         /\ \A i \in 1 .. Len(NormalizePath(p, sep)) :
              NormalizePath(p, sep)[i] \in Separators => NormalizePath(p, sep)[i] = sep
<1> DEFINE bb == <<Backslash, Backslash>>
           to == <<sep>>
           once == ReplaceString(p, bb, to)
           M == AllTo(Separators, sep)
           w == NormalizePath(p, sep)
           N(x) == NamesIn(x, Separators)
<1>1. Slash \in B /\ Backslash \in B /\ sep \in B /\ Backslash \in Separators
  BY DEF Separators
<1>2. once \in Seq(B) /\ w = LowerString(once, M)
  BY NormalizedIs
<1>3. Gives(M, B) /\ \A c : Image(M, c) = IF c \in Separators THEN sep ELSE c
  <2>1. \A S : Gives(AllTo(S, sep), B) /\ \A c : Image(AllTo(S, sep), c) = IF c \in S THEN sep ELSE c
    BY <1>1, AllToIs, ZenonT(60)
  <2> QED
    BY <2>1
<1> HIDE DEF M, w, once
<1>4. w \in Seq(B) /\ Len(w) = Len(once) /\ \A i \in 1 .. Len(once) : w[i] = Image(M, once[i])
  <2>1. Gives(M, B) /\ once \in Seq(B)
    BY <1>2, <1>3
  <2> QED
    BY <1>2, <2>1, MappedIs
<1>5. NamesIn(w, {sep}) = N(once)
  <2> DEFINE T == AllTo({sep}, Slash)
             U == AllTo(Separators, Slash)
             a == Slashed(w, {sep})
             b == Slashed(once, Separators)
  <2>1. /\ Gives(T, B) /\ \A c : Image(T, c) = IF c \in {sep} THEN Slash ELSE c
        /\ Gives(U, B) /\ \A c : Image(U, c) = IF c \in Separators THEN Slash ELSE c
    <3>0. Slash \in B
      BY <1>1
    <3>1. \A S : Gives(AllTo(S, Slash), B) /\ \A c : Image(AllTo(S, Slash), c) = IF c \in S THEN Slash ELSE c
      BY <3>0, AllToIs, ZenonT(60)
    <3> QED
      BY <3>1
  <2> HIDE DEF T, U
  <2>2. \A c : Image(T, Image(M, c)) = Image(U, c)
    BY <1>3, <2>1 DEF Separators
  <2>3. Gives(T, B) /\ Gives(U, B) /\ w \in Seq(B)
    BY <1>4, <2>1
  <2>4. a \in Seq(B) /\ Len(a) = Len(w) /\ \A i \in 1 .. Len(w) : a[i] = Image(T, w[i])
    BY <2>3, MappedIs, Zenon DEF Slashed, T
  <2>5. b \in Seq(B) /\ Len(b) = Len(once) /\ \A i \in 1 .. Len(once) : b[i] = Image(U, once[i])
    BY <1>2, <2>3, MappedIs, Zenon DEF Slashed, U
  <2> HIDE DEF a, b
  <2>6. \A i \in 1 .. Len(once) : a[i] = b[i]
    BY <1>4, <2>2, <2>4, <2>5
  <2>7. a = b
    BY <1>4, <2>4, <2>5, <2>6, SeqEqual
  <2> QED
    BY <2>7, NamesAre DEF a, b
<1>6. N(once) = N(p)
  <2> DEFINE P == {q \in Seq(B) \X Seq(B) : N(q[2]) = N(q[1])}
             one == <<Backslash>>
  <2>1. bb \in Seq(B) /\ to \in Seq(B) /\ bb # <<>> /\ one \in Seq(B) /\ bb = one \o one
    BY <1>1
  <2>2. \A x, y \in Seq(B) : N((x \o one) \o y) = N(x) \o N(y) /\ N((x \o to) \o y) = N(x) \o N(y)
    <3> TAKE x, y \in Seq(B)
    <3>1. NamesBoth(x, Backslash, y, Separators) /\ NamesBoth(x, sep, y, Separators)
      BY <1>1, NamesJoined
    <3> QED
      BY <3>1 DEF NamesBoth
  <2>3. \A x \in Seq(B) : N(x \o one) = N(x)
    BY <1>1, NamesEnds
  <2> HIDE DEF bb, to, one, N
  <2>4. ASSUME NEW x \in Seq(B), NEW y \in Seq(B), NEW z \in Seq(B), <<y, z>> \in P
        PROVE  <<(x \o bb) \o y, (x \o to) \o z>> \in P
    <3> DEFINE xo == x \o one
    <3>1. xo \in Seq(B) /\ x \o bb = xo \o one
      <4>1. (x \o one) \o one = x \o (one \o one)
        <5>1. one \in Seq(B)
          BY <2>1
        <5> QED
          BY <5>1, ConcatAssociative, SMTT(30)
      <4> QED
        BY <2>1, <4>1
    <3>2. N((x \o bb) \o y) = N(xo) \o N(y)
      <4> HIDE DEF xo
      <4> QED
        BY <2>2, <3>1
    <3>3. N(xo) = N(x) /\ N((x \o to) \o z) = N(x) \o N(z)
      BY <2>2, <2>3
    <3>4. N(z) = N(y)
      BY <2>4
    <3>5. (x \o bb) \o y \in Seq(B) /\ (x \o to) \o z \in Seq(B)
      BY <2>1
    <3> QED
      BY <3>2, <3>3, <3>4, <3>5
  <2>5. \A x \in Seq(B) : <<x, x>> \in P
    OBVIOUS
  <2>6. Replaces(P, B, bb, to)
    <3> HIDE DEF P
    <3> QED
      BY <2>4, <2>5 DEF Replaces
  <2>7. <<p, once>> \in P
    <3> HIDE DEF P
    <3> QED
      BY <2>1, <2>6, ReplaceInduction DEF once
  <2> QED
    BY <2>7
<1>7. \A i \in 1 .. Len(w) : w[i] \in Separators => w[i] = sep
  BY <1>3, <1>4
<1> QED
  BY <1>4, <1>5, <1>6, <1>7 DEF w

\* Joining and normalizing keep the names of a path and their order (JoinPath and
\* PathA::normalize), for paths of any length.
THEOREM NamesStay ==
  ASSUME NEW B, Separators \subseteq B, NEW left \in Seq(B), NEW right \in Seq(B), NEW sep \in Separators
  PROVE  NamesKept(left, right, sep)
<1>1. Slash \in B /\ sep \in B
  BY DEF Separators
<1>2. /\ NamesIn(JoinPath(left, right, sep), {sep}) = NamesIn(left, {sep}) \o NamesIn(right, {sep})
      /\ Len(JoinPath(left, right, sep)) <= Len(left) + Len(right) + 1
  BY <1>1, JoinKeeps
<1> DEFINE w == NormalizePath(left, sep)
<1>3. /\ w \in Seq(B) /\ NamesIn(w, {sep}) = NamesIn(left, Separators)
      /\ \A i \in 1 .. Len(w) : w[i] \in Separators => w[i] = sep
  BY NormalizeKeeps
<1> HIDE DEF w
<1>4. ToSet(w) \intersect Separators \subseteq {sep}
  <2>1. DOMAIN w = 1 .. Len(w)
    BY <1>3, LenProperties
  <2> QED
    BY <1>3, <2>1 DEF ToSet
<1> QED
  BY <1>2, <1>3, <1>4, Zenon DEF NamesKept, w

-----------------------------------------------------------------------------
(* Paths taken apart *)

\* The last place of a character, 0 of one that is nowhere.
IsLast(s, c, m) == m \in 0 .. Len(s) /\ (m > 0 => s[m] = c) /\ \A i \in m + 1 .. Len(s) : s[i] # c

LEMMA LastPlace ==
  ASSUME NEW B, NEW s \in Seq(B), NEW c
  PROVE  IsLast(s, c, LastOf(s, c))
<1> DEFINE at == {i \in DOMAIN s : s[i] = c}
           n == Len(s)
           S == at \union {0}
           m == Max(S)
<1>1. n \in Nat /\ DOMAIN s = 1 .. n
  BY LenProperties
<1>2. S \in SUBSET Int /\ S # {} /\ \A i \in S : i <= n
  BY <1>1
<1>3. LastOf(s, c) = m
  BY DEF LastOf
<1>4. m \in S /\ \A i \in S : i <= m
  <2> HIDE DEF S, n
  <2>1. n \in Int
    BY <1>1
  <2> QED
    BY <1>2, <2>1, MaxIsMember
<1> HIDE DEF m
<1>5. m \in 0 .. n /\ (m > 0 => s[m] = c)
  BY <1>1, <1>4
<1>6. ASSUME NEW i \in m + 1 .. n PROVE s[i] # c
  <2>1. i \in DOMAIN s /\ ~ (i <= m)
    BY <1>1, <1>5
  <2> QED
    BY <1>4, <2>1
<1> QED
  BY <1>3, <1>5, <1>6 DEF IsLast

\* The last place of a character is the only one with none behind it.
LEMMA LastPlaceIs ==
  ASSUME NEW B, NEW s \in Seq(B), NEW c, NEW k \in 1 .. Len(s), s[k] = c, \A i \in k + 1 .. Len(s) : s[i] # c
  PROVE  LastOf(s, c) = k
<1> DEFINE m == LastOf(s, c)
<1>1. m \in 0 .. Len(s) /\ (m > 0 => s[m] = c) /\ \A i \in m + 1 .. Len(s) : s[i] # c
  BY LastPlace DEF IsLast
<1>2. Len(s) \in Nat
  BY LenProperties
<1> HIDE DEF m
<1>3. ~ (k > m)
  <2>1. k > m => k \in m + 1 .. Len(s)
    BY <1>1, <1>2
  <2> QED
    BY <1>1, <2>1
<1>4. ~ (m > k)
  <2>1. m > k => m \in k + 1 .. Len(s) /\ m > 0
    BY <1>1, <1>2
  <2> QED
    BY <1>1, <2>1
<1>5. m = k
  BY <1>1, <1>2, <1>3, <1>4
<1> QED
  BY <1>5 DEF m

\* A path cut behind its last backslash.
CutAtLast(path) ==
  /\ ExtractFileDirectory(path, TRUE) = SubSeq(path, 1, LastOf(path, Backslash))
  /\ ExtractFileName(path, TRUE) = SubSeq(path, LastOf(path, Backslash) + 1, Len(path))

LEMMA PathCut == \A path : CutAtLast(path)
BY DEF CutAtLast, ExtractFileDirectory, ExtractFileName, From

\* A path is its directory and its name, and a name has no backslash.
LEMMA DirectoryAndName ==
  ASSUME NEW B, NEW path \in Seq(B)
  PROVE  /\ ExtractFileDirectory(path, TRUE) \o ExtractFileName(path, TRUE) = path
         /\ ExtractFileDirectory(path, TRUE) \in Seq(B) /\ ExtractFileName(path, TRUE) \in Seq(B)
         /\ \A i \in 1 .. Len(ExtractFileName(path, TRUE)) : ExtractFileName(path, TRUE)[i] # Backslash
<1> DEFINE m == LastOf(path, Backslash)
           n == Len(path)
           k == m + 1
           d == SubSeq(path, 1, m)
           x == SubSeq(path, k, n)
<1>0. IsLast(path, Backslash, m) /\ n \in Nat
  BY LenProperties, LastPlace
<1>1. n \in Nat /\ m \in 0 .. n /\ \A i \in m + 1 .. n : path[i] # Backslash
  BY <1>0 DEF IsLast
<1>2. ExtractFileDirectory(path, TRUE) = d /\ ExtractFileName(path, TRUE) = x
  BY PathCut DEF CutAtLast
<1> HIDE DEF m
<1>3. m \in 1 - 1 .. n /\ n \in m .. n /\ k \in 1 .. n + 1 /\ n \in k - 1 .. n /\ 1 \in 1 .. n + 1
  BY <1>1
<1>4. d \o x = SubSeq(path, 1, n)
  BY <1>3, ConcatAdjacentSubSeq
<1>5. SubSeq(path, 1, n) = path
  BY SubSeqFull
<1>6. d \in Seq(B)
  BY <1>3, PartOf
<1>7. x \in Seq(B) /\ Len(x) = n - k + 1 /\ \A i \in 1 .. n - k + 1 : x[i] = path[k + i - 1]
  <2> HIDE DEF k
  <2> QED
    BY <1>3, PartOf
<1> HIDE DEF x, d
<1>8. \A i \in 1 .. Len(x) : x[i] # Backslash
  BY <1>1, <1>7, SMTT(40)
<1> QED
  BY <1>2, <1>4, <1>5, <1>6, <1>7, <1>8

\* A name is its stem and its extension, unless the only dot is in a directory.
LEMMA StemAndExtension ==
  ASSUME NEW B, NEW path \in Seq(B), LastOf(path, Dot) > LastOf(path, Backslash)
  PROVE  ExtractFileName(path, FALSE) \o ExtractFileExtension(path, TRUE) = ExtractFileName(path, TRUE)
<1> DEFINE m == LastOf(path, Backslash)
           d == LastOf(path, Dot)
           n == Len(path)
           k == m + 1
           x == SubSeq(path, k, n)
           e == d - m
<1>1. n \in Nat /\ m \in 0 .. n /\ d \in 0 .. n /\ d > m /\ (d > 0 => path[d] = Dot)
      /\ \A i \in d + 1 .. n : path[i] # Dot
  <2>1. IsLast(path, Backslash, m) /\ IsLast(path, Dot, d) /\ n \in Nat
    BY LenProperties, LastPlace
  <2> QED
    BY <2>1 DEF IsLast
<1>2. /\ ExtractFileName(path, TRUE) = x
      /\ ExtractFileName(path, FALSE) = IF LastOf(x, Dot) = 0 THEN x ELSE SubSeq(x, 1, LastOf(x, Dot) - 1)
      /\ ExtractFileExtension(path, TRUE) = IF d = 0 THEN <<>> ELSE SubSeq(path, d, n)
  BY DEF ExtractFileName, ExtractFileExtension, From
<1> HIDE DEF m, d
<1>3. k \in 1 .. n + 1 /\ n \in k - 1 .. n /\ e \in 1 .. n - k + 1 /\ k \in 1 .. n /\ n \in 1 .. n
      /\ d - 1 \in k - 1 .. n /\ d \in Int /\ k \in Int /\ n \in d - 1 .. n /\ (d - 1) + 1 = d /\ d # 0
  BY <1>1
<1>4. x \in Seq(B) /\ Len(x) = n - k + 1 /\ \A i \in 1 .. n - k + 1 : x[i] = path[k + i - 1]
  <2> HIDE DEF k
  <2> QED
    BY <1>3, PartOf
<1> HIDE DEF x
<1>5. LastOf(x, Dot) = e
  <2>1. e \in 1 .. Len(x) /\ x[e] = Dot
    <3>1. k + e - 1 = d
      BY <1>1
    <3> HIDE DEF e, k
    <3> QED
      BY <1>1, <1>3, <1>4, <3>1
  <2>2. \A i \in e + 1 .. Len(x) : x[i] # Dot
    <3> TAKE i \in e + 1 .. Len(x)
    <3>1. i \in 1 .. n - k + 1 /\ k + i - 1 \in d + 1 .. n
      BY <1>1, <1>4
    <3> QED
      BY <1>1, <1>4, <3>1
  <2> HIDE DEF e
  <2> QED
    BY <1>4, <2>1, <2>2, LastPlaceIs
<1>6. SubSeq(x, 1, e - 1) = SubSeq(path, k, d - 1)
  <2> DEFINE u == SubSeq(x, 1, e - 1)
             v == SubSeq(path, k, d - 1)
             f == e - 1
             g == d - 1
  <2>1. f \in 1 - 1 .. Len(x) /\ 1 \in 1 .. Len(x) + 1 /\ f - 1 + 1 = f /\ g - k + 1 = f
        /\ f \in Nat /\ g \in k - 1 .. n /\ f <= n - k + 1
    BY <1>1, <1>3, <1>4
  <2>2. u \in Seq(B) /\ Len(u) = f /\ \A i \in 1 .. f : u[i] = x[1 + i - 1]
    <3> HIDE DEF f
    <3>1. SubSeq(x, 1, f) \in Seq(B) /\ Len(SubSeq(x, 1, f)) = f - 1 + 1
          /\ \A i \in 1 .. f - 1 + 1 : SubSeq(x, 1, f)[i] = x[1 + i - 1]
      BY <1>4, <2>1, PartOf
    <3> QED
      BY <2>1, <3>1 DEF f
  <2>3. v \in Seq(B) /\ Len(v) = f /\ \A i \in 1 .. f : v[i] = path[k + i - 1]
    <3> HIDE DEF f, g, k
    <3>1. SubSeq(path, k, g) \in Seq(B) /\ Len(SubSeq(path, k, g)) = g - k + 1
          /\ \A i \in 1 .. g - k + 1 : SubSeq(path, k, g)[i] = path[k + i - 1]
      BY <1>3, <2>1, PartOf
    <3> QED
      BY <2>1, <3>1 DEF g
  <2> HIDE DEF u, v, f, e
  <2>4. \A i \in 1 .. f : u[i] = v[i]
    <3> TAKE i \in 1 .. f
    <3>1. i \in 1 .. n - k + 1 /\ 1 + i - 1 = i
      BY <1>3, <2>1
    <3>2. u[i] = x[i] /\ v[i] = path[k + i - 1]
      BY <2>2, <2>3, <3>1
    <3> QED
      BY <1>4, <3>1, <3>2
  <2>5. u = v
    BY <2>2, <2>3, <2>4, SeqEqual
  <2> QED
    BY <2>5 DEF u, v
<1>7. SubSeq(path, k, d - 1) \o SubSeq(path, d, n) = x
  <2> DEFINE g == d - 1
  <2> HIDE DEF g, k
  <2>1. k \in 1 .. Len(path) + 1 /\ g \in k - 1 .. Len(path) /\ Len(path) \in g .. Len(path) /\ g + 1 = d
    BY <1>3 DEF g
  <2>2. SubSeq(path, k, g) \o SubSeq(path, g + 1, n) = SubSeq(path, k, n)
    BY <2>1, ConcatAdjacentSubSeq
  <2> QED
    BY <2>1, <2>2 DEF g, x
<1>8. ExtractFileName(path, FALSE) = SubSeq(x, 1, e - 1)
  <2>1. e # 0
    BY <1>1
  <2> HIDE DEF e
  <2> QED
    BY <1>2, <1>5, <2>1
<1>9. ExtractFileExtension(path, TRUE) = SubSeq(path, d, n)
  BY <1>2, <1>3
<1> HIDE DEF n, k, e
<1> QED
  BY <1>2, <1>6, <1>7, <1>8, <1>9

\* A trimmed text is a text.
LEMMA TrimTyped ==
  ASSUME NEW B, NEW s \in Seq(B), NEW chars
  PROVE  TrimLeft(s, chars) \in Seq(B) /\ TrimRight(s, chars) \in Seq(B) /\ TrimString(s, "both", chars) \in Seq(B)
<1>1. ASSUME NEW x \in Seq(B) PROVE TrimLeft(x, chars) \in Seq(B) /\ TrimRight(x, chars) \in Seq(B)
  <2>0. /\ (\A i \in 1 .. Len(x) : x[i] \in chars) =>
              TrimLeft(x, chars) = <<>> /\ TrimRight(x, chars) = <<>>
        /\ (\E i \in 1 .. Len(x) : x[i] \notin chars) =>
              \E lo, hi \in 1 .. Len(x) :
                /\ lo <= hi /\ x[lo] \notin chars /\ x[hi] \notin chars
                /\ \A i \in 1 .. lo - 1 \union hi + 1 .. Len(x) : x[i] \in chars
                /\ TrimLeft(x, chars) = SubSeq(x, lo, Len(x)) /\ TrimRight(x, chars) = SubSeq(x, 1, hi)
    BY TrimmedPart, Zenon
  <2>1. CASE \A i \in 1 .. Len(x) : x[i] \in chars
    <3>1. <<>> \in Seq(B)
      OBVIOUS
    <3>2. TrimLeft(x, chars) = <<>> /\ TrimRight(x, chars) = <<>>
      BY <2>0, <2>1, Zenon
    <3> QED
      BY <3>1, <3>2
  <2>2. CASE \E i \in 1 .. Len(x) : x[i] \notin chars
    <3>1. PICK lo, hi \in 1 .. Len(x) : TrimLeft(x, chars) = SubSeq(x, lo, Len(x)) /\ TrimRight(x, chars) = SubSeq(x, 1, hi)
      BY <2>0, <2>2, Zenon
    <3>2. Len(x) \in Nat
      BY LenProperties
    <3>3. lo \in 1 .. Len(x) + 1 /\ Len(x) \in lo - 1 .. Len(x) /\ hi \in 1 - 1 .. Len(x) /\ 1 \in 1 .. Len(x) + 1
      BY <3>2
    <3>4. SubSeq(x, lo, Len(x)) \in Seq(B)
      BY <3>3, PartOf
    <3>5. SubSeq(x, 1, hi) \in Seq(B)
      BY <3>3, PartOf
    <3> QED
      BY <3>1, <3>4, <3>5
  <2> QED
    BY <2>1, <2>2
<1>2. TrimString(s, "both", chars) = TrimRight(TrimLeft(s, chars), chars)
  BY DEF TrimString
<1> QED
  BY <1>1, <1>2

\* The finalized path of an object: a text with the separator as its only one.
LEMMA Finalized ==
  ASSUME NEW B, Separators \subseteq B, NEW path \in Seq(B), NEW sep \in Separators
  PROVE  /\ FinalizePath(path, sep) \in Seq(B)
         /\ \A i \in 1 .. Len(FinalizePath(path, sep)) :
              FinalizePath(path, sep)[i] \in Separators => FinalizePath(path, sep)[i] = sep
<1> DEFINE t == TrimString(path, "both", {Space})
<1>1. t \in Seq(B)
  BY TrimTyped
<1> HIDE DEF t
<1>2. FinalizePath(path, sep) = NormalizePath(t, sep)
  BY DEF FinalizePath, t
<1>3. \A p \in Seq(B) :
        /\ NormalizePath(p, sep) \in Seq(B)
        /\ \A i \in 1 .. Len(NormalizePath(p, sep)) :
             NormalizePath(p, sep)[i] \in Separators => NormalizePath(p, sep)[i] = sep
  BY NormalizeKeeps, ZenonT(30)
<1> QED
  BY <1>1, <1>2, <1>3

\* A path without separators is its only name.
LEMMA OneName ==
  ASSUME NEW B, Slash \in B, NEW x \in Seq(B), \A i \in 1 .. Len(x) : x[i] \notin Separators, x # <<>>
  PROVE  NamesIn(x, Separators) = <<x>>
<1> DEFINE U == AllTo(Separators, Slash)
           sep == <<Slash>>
<1>1. Gives(U, B) /\ \A c : Image(U, c) = IF c \in Separators THEN Slash ELSE c
  BY AllToIs, ZenonT(40)
<1> HIDE DEF U
<1>2. LowerString(x, U) = x
  <2>1. \A i \in 1 .. Len(x) : x[i] = Image(U, x[i])
    BY <1>1
  <2>2. Gives(U, B)
    BY <1>1
  <2> QED
    BY <2>1, <2>2, MappedAs, Zenon
<1>3. Slashed(x, Separators) = x
  BY <1>2 DEF Slashed, U
<1>4. FindFrom(x, sep, 1) = Npos
  <2>1. \A i \in 1 .. Len(x) : x[i] # Slash
    BY DEF Separators
  <2> QED
    BY <2>1, FindChar
<1>5. sep \in Seq(B) /\ sep # <<>>
  OBVIOUS
<1> HIDE DEF sep
<1>6. Parts(x, sep) = IfAny(x)
  BY <1>4, <1>5, PartsOfOne
<1> QED
  BY <1>3, <1>6, NamesAre DEF IfAny, sep

\* The name of a finalized path is the last of its names.
LEMMA LastName ==
  ASSUME NEW B, Separators \subseteq B, NEW F \in Seq(B),
         \A i \in 1 .. Len(F) : F[i] \in Separators => F[i] = Backslash,
         ExtractFileName(F, TRUE) # <<>>
  PROVE  ExtractFileName(F, TRUE) = Last(NamesIn(F, Separators))
<1> DEFINE m == LastOf(F, Backslash)
           n == Len(F)
           x == ExtractFileName(F, TRUE)
           N(p) == NamesIn(p, Separators)
<1>0. IsLast(F, Backslash, m) /\ n \in Nat
  BY LenProperties, LastPlace
<1>1. n \in Nat /\ m \in 0 .. n /\ (m > 0 => F[m] = Backslash)
  BY <1>0 DEF IsLast
<1>2. x = SubSeq(F, m + 1, n)
  BY PathCut DEF CutAtLast
<1>3. x \in Seq(B) /\ (\A i \in 1 .. Len(x) : x[i] # Backslash) /\ Slash \in B /\ Backslash \in B
      /\ Backslash \in Separators
  BY DirectoryAndName DEF Separators
<1> HIDE DEF x, m
<1>4. \A i \in 1 .. Len(x) : x[i] \notin Separators
  <2> DEFINE k == m + 1
  <2>1. k \in 1 .. n + 1 /\ n \in k - 1 .. n /\ \A i \in 1 .. n - k + 1 : k + i - 1 \in 1 .. n
    BY <1>1
  <2> HIDE DEF k
  <2>2. Len(SubSeq(F, k, n)) = n - k + 1 /\ \A i \in 1 .. n - k + 1 : SubSeq(F, k, n)[i] = F[k + i - 1]
    BY <2>1, PartOf
  <2>3. x = SubSeq(F, k, n)
    BY <1>2 DEF k
  <2> QED
    BY <1>3, <2>1, <2>2, <2>3
<1>5. N(x) = <<x>>
  BY <1>3, <1>4, OneName DEF x
<1>6. CASE m = 0
  <2>1. x = F
    BY <1>2, <1>6, SubSeqFull
  <2>2. Last(<<x>>) = x
    BY <1>3 DEF Last
  <2> QED
    BY <1>5, <2>1, <2>2 DEF x
<1>7. CASE m > 0
  <2> DEFINE a == SubSeq(F, 1, m - 1)
             g == m - 1
             one == <<Backslash>>
  <2>1. g \in 1 - 1 .. n /\ 1 \in 1 .. n + 1 /\ m \in 1 .. n /\ m \in 1 - 1 .. n /\ n \in m .. n /\ g + 1 = m
        /\ m \in g .. n
    BY <1>1, <1>7
  <2>2. a \in Seq(B)
    <3> HIDE DEF g
    <3>1. SubSeq(F, 1, g) \in Seq(B)
      BY <2>1, PartOf
    <3> QED
      BY <3>1 DEF g
  <2>3. SubSeq(F, 1, g) \o SubSeq(F, g + 1, m) = SubSeq(F, 1, m)
    <3> HIDE DEF g
    <3> QED
      BY <2>1, ConcatAdjacentSubSeq
  <2>4. SubSeq(F, 1, m) \o SubSeq(F, m + 1, n) = SubSeq(F, 1, n)
    BY <2>1, ConcatAdjacentSubSeq
  <2>5. SubSeq(F, m, m) = one
    <3>1. m \in 1 .. n + 1 /\ m \in m - 1 .. n /\ m - m + 1 = 1 /\ m + 1 - 1 = m
      BY <2>1
    <3>2. SubSeq(F, m, m) \in Seq(B) /\ Len(SubSeq(F, m, m)) = m - m + 1
          /\ \A i \in 1 .. m - m + 1 : SubSeq(F, m, m)[i] = F[m + i - 1]
      BY <3>1, PartOf
    <3> DEFINE u == SubSeq(F, m, m)
    <3>3. u \in Seq(B) /\ Len(u) = 1 /\ u[1] = Backslash
      BY <1>1, <1>7, <3>1, <3>2
    <3> HIDE DEF u
    <3>4. u = one
      BY <3>3
    <3> QED
      BY <3>4 DEF u
  <2>6. F = (a \o one) \o x
    <3>1. SubSeq(F, 1, n) = F
      BY SubSeqFull
    <3>2. a \o SubSeq(F, m, m) = SubSeq(F, 1, m)
      BY <2>1, <2>3
    <3> QED
      BY <1>2, <2>4, <2>5, <3>1, <3>2
  <2> HIDE DEF a, one
  <2>7. NamesBoth(a, Backslash, x, Separators)
    BY <1>3, <2>2, NamesJoined
  <2>8. N(F) = N(a) \o <<x>>
    <3>1. N((a \o one) \o x) = N(a) \o N(x)
      BY <2>7 DEF NamesBoth, one
    <3> HIDE DEF N
    <3> QED
      BY <1>5, <2>6, <3>1
  <2>9. N(a) \in Seq(Seq(B))
    BY <1>3, <2>2, NamesTyped
  <2> HIDE DEF N
  <2>10. Last(N(a) \o <<x>>) = x
    <3> DEFINE u == N(a)
               A == Seq(B)
    <3>1. u \in Seq(A) /\ x \in A
      BY <1>3, <2>9
    <3> HIDE DEF u, A
    <3>2. Last(u \o <<x>>) = x
      BY <3>1 DEF Last
    <3> QED
      BY <3>2 DEF u
  <2> QED
    BY <2>8, <2>10 DEF N, x
<1>8. m = 0 \/ m > 0
  BY <1>1
<1> HIDE DEF N
<1> QED
  BY <1>6, <1>7, <1>8

\* A path is its directory and its name, a name its stem and its extension, and the name of
\* an object the last of its names (ExtractFileDirectory, ExtractFileName, PathA), for paths of
\* any length.
THEOREM PathsTakenApart ==
  ASSUME NEW B, Separators \subseteq B, NEW path \in Seq(B)
  PROVE  PartsMakePath(path)
<1> DEFINE F == FinalizePath(path, Backslash)
           G == FinalizePath(path, Slash)
<1>1. Backslash \in Separators /\ Slash \in Separators /\ Backslash # Slash /\ Backslash \in B
  BY DEF Separators, Backslash, Slash
<1>2. F \in Seq(B) /\ \A i \in 1 .. Len(F) : F[i] \in Separators => F[i] = Backslash
  BY <1>1, Finalized
<1>3. G \in Seq(B) /\ \A i \in 1 .. Len(G) : G[i] \in Separators => G[i] = Slash
  BY <1>1, Finalized
<1> HIDE DEF F, G
<1>4. /\ ExtractFileDirectory(path, TRUE) \o ExtractFileName(path, TRUE) = path
      /\ ~ Contains(ExtractFileName(path, TRUE), Backslash)
  BY DirectoryAndName DEF Contains
<1>5. LastOf(path, Dot) > LastOf(path, Backslash) =>
        ExtractFileName(path, FALSE) \o ExtractFileExtension(path, TRUE) = ExtractFileName(path, TRUE)
  BY StemAndExtension
<1>6. ExtractFileName(F, TRUE) = <<>> \/ ExtractFileName(F, TRUE) = Last(NamesIn(F, Separators))
  BY <1>2, LastName
<1>7. ExtractFileDirectory(F, TRUE) \o ExtractFileName(F, TRUE) = F
  BY <1>2, DirectoryAndName
<1>8. ExtractFileDirectory(G, TRUE) = <<>>
  <2>1. \A i \in 1 .. Len(G) : G[i] # Backslash
    BY <1>1, <1>3
  <2>2. LastOf(G, Backslash) = 0
    BY <1>3, <2>1, LastOfIs
  <2>3. ExtractFileDirectory(G, TRUE) = SubSeq(G, 1, 0)
    BY <2>2, PathCut DEF CutAtLast
  <2>4. SubSeq(G, 1, 0) = <<>>
    <3> DEFINE e == 0
    <3>1. e \in 1 - 1 .. Len(G) /\ 1 \in 1 .. Len(G) + 1 /\ e - 1 + 1 = 0
      BY <1>3, LenProperties
    <3> HIDE DEF e
    <3>2. SubSeq(G, 1, e) \in Seq(B) /\ Len(SubSeq(G, 1, e)) = 0
      BY <1>3, <3>1, PartOf
    <3>3. SubSeq(G, 1, e) = <<>>
      BY <3>2, EmptySeq
    <3> QED
      BY <3>3 DEF e
  <2> QED
    BY <2>3, <2>4
<1>9. path # <<>> => Append(CurrentDirectory(path, FALSE), Backslash) = CurrentDirectory(path, TRUE)
  <2> SUFFICES ASSUME path # <<>>
               PROVE  Append(CurrentDirectory(path, FALSE), Backslash) = CurrentDirectory(path, TRUE)
    OBVIOUS
  <2>1. CASE Last(path) # Backslash
    BY <2>1 DEF CurrentDirectory
  <2>2. CASE Last(path) = Backslash
    <3>1. PICK a \in Seq(B) : path = a \o <<path[Len(path)]>>
      BY FirstAndRest
    <3>2. path = Append(a, Backslash)
      BY <1>1, <2>2, <3>1 DEF Last
    <3>3. Front(path) = a
      BY <1>1, <3>2 DEF Front
    <3> QED
      BY <2>2, <3>2, <3>3 DEF CurrentDirectory
  <2> QED
    BY <2>1, <2>2
<1>10. /\ ExtractName(path, Backslash, TRUE) = ExtractFileName(F, TRUE)
       /\ ExtractDirectory(path, Backslash, TRUE) = ExtractFileDirectory(F, TRUE)
       /\ ExtractDirectory(path, Slash, TRUE) = ExtractFileDirectory(G, TRUE)
  BY DEF ExtractName, ExtractDirectory, F, G
<1>11. F = FinalizePath(path, Backslash)
  BY DEF F
<1> QED
  BY <1>4, <1>5, <1>6, <1>7, <1>8, <1>9, <1>10, <1>11, Zenon DEF PartsMakePath

-----------------------------------------------------------------------------
(* Paths compared without their case *)

\* A table that neither moves a character nor makes another one of it.
Keeps(M, c) == \A d : Image(M, d) = c <=> d = c

\* A table keeps every character of a text.
KeepsAll(M, t) == \A k \in 1 .. Len(t) : Keeps(M, t[k])

\* Such a text is its own image, and the only text it is the image of.
LEMMA KeptText ==
  ASSUME NEW B, NEW t \in Seq(B), NEW M, Gives(M, B), KeepsAll(M, t), NEW x \in Seq(B)
  PROVE  LowerString(x, M) = t <=> x = t
<1> DEFINE w == LowerString(x, M)
<1>1. w \in Seq(B) /\ Len(w) = Len(x) /\ \A i \in 1 .. Len(x) : w[i] = Image(M, x[i])
  BY MappedIs
<1>2. \A i \in 1 .. Len(t) : \A d : Image(M, d) = t[i] <=> d = t[i]
  BY DEF KeepsAll, Keeps
<1> HIDE DEF w
<1>3. ASSUME w = t PROVE x = t
  <2>1. Len(x) = Len(t) /\ \A i \in 1 .. Len(x) : x[i] = t[i]
    BY <1>1, <1>2, <1>3
  <2> QED
    BY <2>1, SeqEqual
<1>4. ASSUME x = t PROVE w = t
  <2>1. Len(w) = Len(t) /\ \A i \in 1 .. Len(w) : w[i] = t[i]
    BY <1>1, <1>2, <1>4
  <2> QED
    BY <1>1, <2>1, SeqEqual
<1>5. w = t <=> x = t
  BY <1>3, <1>4
<1> QED
  BY <1>5 DEF w

\* A kept text is found where it was.
LEMMA MappedFind ==
  ASSUME NEW B, NEW s \in Seq(B), NEW t \in Seq(B), NEW M, Gives(M, B), KeepsAll(M, t), NEW from \in Nat \ {0}
  PROVE  FindFrom(LowerString(s, M), t, from) = FindFrom(s, t, from)
<1> DEFINE w == LowerString(s, M)
           n == Len(s)
           l == Len(t)
           at == {i \in from .. n - l + 1 : SubSeq(s, i, i + l - 1) = t}
           there == {i \in from .. Len(w) - l + 1 : SubSeq(w, i, i + l - 1) = t}
<1>1. n \in Nat /\ l \in Nat
  BY LenProperties
<1>2. Len(w) = n
  BY MappedIs
<1>3. \A i \in from .. n - l + 1 : SubSeq(w, i, i + l - 1) = t <=> SubSeq(s, i, i + l - 1) = t
  <2> TAKE i \in from .. n - l + 1
  <2> DEFINE j == i + l - 1
             x == SubSeq(s, i, j)
  <2>1. i \in 1 .. n + 1 /\ j \in i - 1 .. n
    BY <1>1
  <2> HIDE DEF j
  <2>2. LowerString(x, M) = SubSeq(w, i, j)
    BY <2>1, MappedPart
  <2>3. x \in Seq(B)
    BY <2>1, PartOf
  <2> HIDE DEF x, w
  <2>4. LowerString(x, M) = t <=> x = t
    BY <2>3, KeptText
  <2> QED
    BY <2>2, <2>4 DEF x, j
<1> HIDE DEF w
<1>4. there = at
  BY <1>2, <1>3
<1>5. FindFrom(w, t, from) = IF there = {} THEN Npos ELSE Min(there)
  BY DEF FindFrom
<1>6. FindFrom(s, t, from) = IF at = {} THEN Npos ELSE Min(at)
  BY DEF FindFrom
<1> HIDE DEF at, there
<1> QED
  BY <1>4, <1>5, <1>6 DEF w

\* There is nothing to replace in an empty text.
LEMMA EmptyReplaced ==
  ASSUME NEW B, NEW from \in Seq(B), from # <<>>, NEW to \in Seq(B)
  PROVE  ReplaceString(<<>>, from, to) = <<>>
<1> DEFINE e == <<>>
           ends == [i \in DOMAIN e |-> IF i < Len(e) THEN e[i] \o to ELSE e[i]]
<1>1. ends = <<>> /\ e \in Seq(Seq(B)) /\ e \in Seq(B)
  OBVIOUS
<1>2. SplitString(e, from, FALSE) = <<>>
  BY DEF SplitString
<1>3. JoinString(e, to) = FlattenSeq(ends)
  BY Zenon DEF JoinString
<1> HIDE DEF ends
<1>4. FlattenSeq(<<>>) = <<>>
  BY <1>1, FlattenAppend
<1>5. ReplaceString(e, from, to) = JoinString(SplitString(e, from, FALSE), to)
  <2>1. ReplaceIsSplitJoin(e, from, to)
    BY <1>1, ReplacesOnce
  <2> QED
    BY <2>1 DEF ReplaceIsSplitJoin
<1> QED
  BY <1>1, <1>2, <1>3, <1>4, <1>5

\* Replacing one kept text by another and mapping go in either order.
LEMMA MappedReplace ==
  ASSUME NEW B, NEW s \in Seq(B), NEW from \in Seq(B), from # <<>>, NEW to \in Seq(B),
         NEW M, Gives(M, B), KeepsAll(M, from), KeepsAll(M, to)
  PROVE  /\ ReplaceString(LowerString(s, M), from, to) = LowerString(ReplaceString(s, from, to), M)
         /\ ReplaceString(s, from, to) \in Seq(B)
<1> DEFINE w == LowerString(s, M)
           n == Len(s)
           m == n + 1
           l == Len(from)
           L(x) == LowerString(x, M)
<1>1. n \in Nat /\ m \in Nat /\ l \in Nat /\ l >= 1
  BY LenProperties, EmptySeq
<1>2. w \in Seq(B) /\ Len(w) = n
  BY MappedIs
<1>3. \A i \in 1 .. m : FindFrom(w, from, i) = FindFrom(s, from, i)
  <2> TAKE i \in 1 .. m
  <2>1. i \in Nat \ {0}
    BY <1>1
  <2> QED
    BY <2>1, MappedFind
<1>4. \A i \in 1 .. n + 1, k \in Int : k \in i - 1 .. n => SubSeq(w, i, k) = L(SubSeq(s, i, k)) /\ SubSeq(s, i, k) \in Seq(B)
  <2> TAKE i \in 1 .. n + 1, k \in Int
  <2> HAVE k \in i - 1 .. n
  <2> QED
    BY MappedPart, PartOf
<1>5. L(to) = to
  BY KeptText
<1>6. PICK j \in [1 .. m -> Seq(B)] : JoinsFrom(s, from, to, j)
  BY SplitJoined
<1> HIDE DEF w, L
<1>7. PICK k \in [1 .. m -> Seq(B)] : JoinsFrom(w, from, to, k)
  <2>1. \E k \in [1 .. Len(w) + 1 -> Seq(B)] : JoinsFrom(w, from, to, k)
    BY <1>2, SplitJoined
  <2> QED
    BY <1>2, <2>1
<1> DEFINE S == {i \in 1 .. m : k[i] = L(j[i])}
<1>8. ASSUME NEW i \in 1 .. m, \A q \in i + 1 .. m : q \in S PROVE i \in S
  <2> DEFINE e == FindFrom(s, from, i)
  <2>1. FindFrom(w, from, i) = e /\ n \in i - 1 .. n /\ n \in Int /\ i \in 1 .. n + 1 /\ i \in 1 .. Len(w) + 1
    BY <1>1, <1>2, <1>3
  <2>2. CASE e = Npos
    <3>1. j[i] = SubSeq(s, i, n)
      BY <1>6, <2>1, <2>2 DEF JoinsFrom
    <3>2. k[i] = SubSeq(w, i, n)
      BY <1>2, <1>7, <2>1, <2>2 DEF JoinsFrom
    <3>3. SubSeq(w, i, n) = L(SubSeq(s, i, n))
      BY <1>4, <2>1
    <3> QED
      BY <3>1, <3>2, <3>3
  <2>3. CASE e # Npos
    <3> DEFINE x == SubSeq(s, i, e - 1)
               y == SubSeq(w, i, e - 1)
               d == e + l
    <3>1. d \in i + 1 .. m /\ j[i] = (x \o to) \o j[d]
      BY <1>6, <2>1, <2>3 DEF JoinsFrom
    <3>2. k[i] = (y \o to) \o k[d]
      BY <1>2, <1>7, <2>1, <2>3 DEF JoinsFrom
    <3>3. y = L(x) /\ x \in Seq(B)
      <4>1. e \in i .. n
        BY <2>1, <2>3, CutAt, Zenon
      <4> HIDE DEF e
      <4>2. e - 1 \in i - 1 .. n /\ e - 1 \in Int
        BY <1>1, <2>1, <4>1
      <4> QED
        BY <1>4, <2>1, <4>2
    <3> HIDE DEF x, y, d, e
    <3>4. k[d] = L(j[d]) /\ j[d] \in Seq(B)
      <4>1. d \in S /\ d \in 1 .. m
        BY <1>1, <1>8, <2>1, <3>1
      <4> QED
        BY <1>6, <4>1
    <3>5. L(x \o to) = L(x) \o L(to)
      <4>1. MapsBoth(x, to, M)
        BY <3>3, MappedConcat
      <4> QED
        BY <4>1 DEF MapsBoth, L
    <3>6. L((x \o to) \o j[d]) = L(x \o to) \o L(j[d])
      <4> DEFINE xt == x \o to
                 jd == j[d]
      <4>1. xt \in Seq(B) /\ jd \in Seq(B)
        BY <3>3, <3>4
      <4> HIDE DEF xt, jd
      <4>2. MapsBoth(xt, jd, M)
        BY <4>1, MappedConcat
      <4> QED
        BY <4>2 DEF MapsBoth, L, xt, jd
    <3>7. k[i] = L(j[i])
      BY <1>5, <3>1, <3>2, <3>3, <3>4, <3>5, <3>6
    <3> QED
      BY <3>7
  <2> QED
    BY <2>2, <2>3
<1>9. 1 \in S
  <2> HIDE DEF S
  <2>1. m \in Nat /\ 1 \in 1 .. m
    BY <1>1
  <2> HIDE DEF m
  <2>2. \A i \in 1 .. m : i \in S
    BY <1>8, <2>1, DownwardInduction
  <2> QED
    BY <2>1, <2>2
<1>10. \A x \in Seq(B) : ReplaceString(x, from, to) = JoinString(SplitString(x, from, FALSE), to)
  <2> TAKE x \in Seq(B)
  <2>1. ReplaceIsSplitJoin(x, from, to)
    BY ReplacesOnce
  <2> QED
    BY <2>1 DEF ReplaceIsSplitJoin
<1>11. w = <<>> <=> s = <<>>
  BY <1>2, EmptySeq
<1>12. CASE s # <<>>
  <2>1. ReplaceString(s, from, to) = j[1] /\ ReplaceString(w, from, to) = k[1]
    BY <1>2, <1>6, <1>7, <1>10, <1>11, <1>12 DEF JoinsFrom
  <2>2. k[1] = L(j[1]) /\ j[1] \in Seq(B)
    BY <1>6, <1>9
  <2> QED
    BY <2>1, <2>2 DEF L, w
<1>13. CASE s = <<>>
  <2>1. ReplaceString(s, from, to) = s
    BY <1>13, EmptyReplaced
  <2>2. w = s
    BY <1>11, <1>13
  <2> QED
    BY <2>1, <2>2 DEF L, w
<1> QED
  BY <1>12, <1>13

\* Trimming a character and mapping go in either order.
TrimsMapped(s, c, M) ==
  /\ TrimLeft(LowerString(s, M), {c}) = LowerString(TrimLeft(s, {c}), M)
  /\ TrimRight(LowerString(s, M), {c}) = LowerString(TrimRight(s, {c}), M)

LEMMA MappedTrim ==
  ASSUME NEW B, NEW s \in Seq(B), NEW c, NEW M, Gives(M, B), Keeps(M, c)
  PROVE  TrimsMapped(s, c, M)
<1> DEFINE w == LowerString(s, M)
           n == Len(s)
           keep == {i \in DOMAIN s : s[i] \notin {c}}
           held == {i \in DOMAIN w : w[i] \notin {c}}
           lo == Min(keep)
           hi == Max(keep)
<1>1. n \in Nat /\ DOMAIN s = 1 .. n
  BY LenProperties
<1>2. w \in Seq(B) /\ Len(w) = n /\ \A i \in 1 .. n : w[i] = Image(M, s[i])
  BY MappedIs
<1> HIDE DEF w
<1>3. held = keep
  <2>1. DOMAIN w = 1 .. n
    BY <1>2, LenProperties
  <2>2. \A i \in 1 .. n : w[i] = c <=> s[i] = c
    BY <1>2 DEF Keeps
  <2> QED
    BY <1>1, <2>1, <2>2
<1>4. /\ TrimLeft(s, {c}) = IF keep = {} THEN <<>> ELSE SubSeq(s, lo, n)
      /\ TrimRight(s, {c}) = IF keep = {} THEN <<>> ELSE SubSeq(s, 1, hi)
  BY Zenon DEF TrimLeft, TrimRight
<1>5. /\ TrimLeft(w, {c}) = IF held = {} THEN <<>> ELSE SubSeq(w, Min(held), Len(w))
      /\ TrimRight(w, {c}) = IF held = {} THEN <<>> ELSE SubSeq(w, 1, Max(held))
  BY Zenon DEF TrimLeft, TrimRight
<1> HIDE DEF held
<1>6. CASE keep = {}
  <2>1. LowerString(<<>>, M) = <<>>
    BY DEF LowerString
  <2> HIDE DEF keep
  <2> QED
    BY <1>3, <1>4, <1>5, <1>6, <2>1 DEF TrimsMapped, w
<1>7. CASE keep # {}
  <2>1. keep \in SUBSET Nat /\ keep \in SUBSET Int /\ (\A x \in keep : x <= n) /\ n \in Int
    BY <1>1
  <2>2. lo \in keep /\ hi \in keep
    <3> HIDE DEF keep
    <3> QED
      BY <1>7, <2>1, MinIsMember, MaxIsMember
  <2>3. lo \in 1 .. n + 1 /\ n \in lo - 1 .. n /\ 1 \in 1 .. n + 1 /\ hi \in 1 - 1 .. n
    <3> HIDE DEF lo, hi
    <3> QED
      BY <1>1, <2>2
  <2> HIDE DEF keep, lo, hi
  <2>4. LowerString(SubSeq(s, lo, n), M) = SubSeq(w, lo, n)
    BY <2>3, MappedPart DEF w
  <2>5. LowerString(SubSeq(s, 1, hi), M) = SubSeq(w, 1, hi)
    BY <2>3, MappedPart DEF w
  <2> QED
    BY <1>2, <1>3, <1>4, <1>5, <1>7, <2>4, <2>5 DEF TrimsMapped, w, lo, hi
<1> QED
  BY <1>6, <1>7

\* Trimming both ends of a kept character and mapping.
LEMMA MappedTrimBoth ==
  ASSUME NEW B, NEW s \in Seq(B), NEW c, NEW M, Gives(M, B), Keeps(M, c)
  PROVE  TrimString(LowerString(s, M), "both", {c}) = LowerString(TrimString(s, "both", {c}), M)
<1> DEFINE y == TrimLeft(s, {c})
           z == TrimRight(y, {c})
<1>1. \A x : TrimString(x, "both", {c}) = TrimRight(TrimLeft(x, {c}), {c})
  BY DEF TrimString
<1>2. y \in Seq(B)
  BY TrimTyped
<1>3. TrimsMapped(s, c, M)
  BY MappedTrim
<1> HIDE DEF y
<1>4. TrimsMapped(y, c, M)
  BY <1>2, MappedTrim
<1>5. TrimRight(LowerString(y, M), {c}) = LowerString(z, M)
  BY <1>4 DEF TrimsMapped
<1> QED
  BY <1>1, <1>3, <1>5 DEF TrimsMapped, y

\* The text and its lower one have the same finalized path but for the case.
LEMMA MappedFinalized ==
  ASSUME NEW B, Separators \subseteq B, NEW path \in Seq(B), NEW M, Gives(M, B),
         Keeps(M, Space), Keeps(M, Backslash), Keeps(M, Slash)
  PROVE  /\ FinalizePath(LowerString(path, M), Backslash) = LowerString(FinalizePath(path, Backslash), M)
         /\ FinalizePath(path, Backslash) \in Seq(B)
<1> DEFINE L(x) == LowerString(x, M)
           T(x) == TrimString(x, "both", {Space})
           b == <<Backslash>>
           bb == <<Backslash, Backslash>>
           u == <<Slash>>
           R(x, from) == ReplaceString(x, from, b)
           N(x) == NormalizePath(x, Backslash)
<1>1. Backslash \in B /\ Slash \in B /\ Backslash \in Separators
  BY DEF Separators
<1>2. b \in Seq(B) /\ bb \in Seq(B) /\ u \in Seq(B) /\ b # <<>> /\ bb # <<>> /\ u # <<>>
  BY <1>1
<1>3. KeepsAll(M, b) /\ KeepsAll(M, bb) /\ KeepsAll(M, u)
  BY DEF KeepsAll
<1>4. \A x : N(x) = R(R(R(x, bb), b), u)
  BY DEF NormalizePath
<1>5. \A x \in Seq(B) : T(L(x)) = L(T(x)) /\ T(x) \in Seq(B)
  <2> TAKE x \in Seq(B)
  <2>1. T(x) \in Seq(B)
    BY TrimTyped
  <2>2. T(L(x)) = L(T(x))
    BY MappedTrimBoth
  <2> QED
    BY <2>1, <2>2
<1> HIDE DEF b, bb, u
<1>6. \A x \in Seq(B) : /\ R(L(x), bb) = L(R(x, bb)) /\ R(x, bb) \in Seq(B)
                       /\ R(L(x), b) = L(R(x, b)) /\ R(x, b) \in Seq(B)
                       /\ R(L(x), u) = L(R(x, u)) /\ R(x, u) \in Seq(B)
  <2> TAKE x \in Seq(B)
  <2> QED
    BY <1>2, <1>3, MappedReplace
<1>7. \A x : FinalizePath(x, Backslash) = N(T(x))
  BY DEF FinalizePath
<1> HIDE DEF N, R, L, T
<1>8. \A x \in Seq(B) : N(L(x)) = L(N(x)) /\ N(x) \in Seq(B)
  <2> TAKE x \in Seq(B)
  <2>1. R(x, bb) \in Seq(B) /\ R(R(x, bb), b) \in Seq(B)
    BY <1>6
  <2> QED
    BY <1>4, <1>6, <2>1
<1>9. FinalizePath(L(path), Backslash) = L(FinalizePath(path, Backslash)) /\ FinalizePath(path, Backslash) \in Seq(B)
  BY <1>5, <1>7, <1>8
<1> QED
  BY <1>9 DEF L

\* The name of a lower path is the lower name.
LEMMA MappedName ==
  ASSUME NEW B, Separators \subseteq B, NEW path \in Seq(B), NEW M, Gives(M, B),
         Keeps(M, Space), Keeps(M, Backslash), Keeps(M, Slash)
  PROVE  ExtractName(LowerString(path, M), Backslash, TRUE) = LowerString(ExtractName(path, Backslash, TRUE), M)
<1> DEFINE F == FinalizePath(path, Backslash)
           w == LowerString(F, M)
           n == Len(F)
           k == LastOf(F, Backslash) + 1
<1>1. FinalizePath(LowerString(path, M), Backslash) = w /\ F \in Seq(B)
  BY MappedFinalized
<1> HIDE DEF F
<1>2. w \in Seq(B) /\ Len(w) = n /\ n \in Nat /\ \A i \in 1 .. n : w[i] = Image(M, F[i])
  BY <1>1, MappedIs, LenProperties
<1> HIDE DEF w
<1>3. LastOf(w, Backslash) = LastOf(F, Backslash)
  <2> DEFINE at == {i \in DOMAIN F : F[i] = Backslash}
             there == {i \in DOMAIN w : w[i] = Backslash}
  <2>1. DOMAIN F = 1 .. n /\ DOMAIN w = 1 .. n
    BY <1>1, <1>2, LenProperties
  <2>2. at = there
    BY <1>2, <2>1 DEF Keeps
  <2>3. LastOf(w, Backslash) = Max(there \union {0}) /\ LastOf(F, Backslash) = Max(at \union {0})
    BY DEF LastOf
  <2> HIDE DEF at, there
  <2> QED
    BY <2>2, <2>3
<1>4. k \in 1 .. n + 1 /\ n \in k - 1 .. n
  <2> DEFINE m == LastOf(F, Backslash)
  <2>1. IsLast(F, Backslash, m)
    BY <1>1, LastPlace
  <2>2. m \in 0 .. n
    BY <2>1 DEF IsLast
  <2> HIDE DEF m, n
  <2>3. m + 1 \in 1 .. n + 1 /\ n \in (m + 1) - 1 .. n
    BY <1>2, <2>2
  <2> QED
    BY <2>3 DEF m
<1>5. ExtractFileName(w, TRUE) = SubSeq(w, k, n) /\ ExtractFileName(F, TRUE) = SubSeq(F, k, n)
  BY <1>2, <1>3, PathCut DEF CutAtLast
<1>6. \A x : ExtractName(x, Backslash, TRUE) = ExtractFileName(FinalizePath(x, Backslash), TRUE)
  BY DEF ExtractName
<1> HIDE DEF k, n
<1>7. LowerString(SubSeq(F, k, n), M) = SubSeq(w, k, n)
  BY <1>1, <1>4, MappedPart DEF n, w
<1>8. ExtractName(path, Backslash, TRUE) = SubSeq(F, k, n)
  BY <1>5, <1>6 DEF F
<1>9. ExtractName(LowerString(path, M), Backslash, TRUE) = SubSeq(w, k, n)
  BY <1>1, <1>5, <1>6
<1> QED
  BY <1>7, <1>8, <1>9

\* Paths compare as the system of their separator does, and equal paths have equal names
\* (PathA, operator==), for paths of any length and any table of lower characters that keeps
\* the space and the separators.
THEOREM EqualPathsNamed ==
  ASSUME NEW B, Separators \subseteq B, NEW left \in Seq(B), NEW right \in Seq(B), NEW Lower, Gives(Lower, B),
         Keeps(Lower, Space), Keeps(Lower, Backslash), Keeps(Lower, Slash)
  PROVE  EqualPathsAgree(left, right, Lower)
<1> DEFINE ll == LowerString(left, Lower)
           lr == LowerString(right, Lower)
           nl == ExtractName(left, Backslash, TRUE)
           nr == ExtractName(right, Backslash, TRUE)
<1>1. Slash # Backslash
  BY DEF Slash, Backslash
<1>2. /\ PathEquals(left, Slash, right, Slash, Lower) <=> left = right
      /\ PathEquals(left, Backslash, right, Backslash, Lower) <=> ll = lr
      /\ ~ PathEquals(left, Slash, right, Backslash, Lower)
      /\ PathEquals(nl, Backslash, nr, Backslash, Lower) <=> LowerString(nl, Lower) = LowerString(nr, Lower)
  BY <1>1 DEF PathEquals
<1>3. /\ ExtractName(ll, Backslash, TRUE) = LowerString(nl, Lower)
      /\ ExtractName(lr, Backslash, TRUE) = LowerString(nr, Lower)
  BY MappedName
<1>4. left = right => ll = lr /\ nl = nr
  OBVIOUS
<1> HIDE DEF ll, lr
<1>5. ll = lr => LowerString(nl, Lower) = LowerString(nr, Lower)
  BY <1>3
<1>6. EqualPathsAgree(left, right, Lower) <=>
        /\ PathEquals(left, Slash, right, Slash, Lower) => PathEquals(left, Backslash, right, Backslash, Lower)
        /\ ~ PathEquals(left, Slash, right, Backslash, Lower)
        /\ PathEquals(left, Slash, right, Slash, Lower) => nl = nr
        /\ PathEquals(left, Backslash, right, Backslash, Lower) => PathEquals(nl, Backslash, nr, Backslash, Lower)
  BY DEF EqualPathsAgree
<1> HIDE DEF nl, nr
<1> QED
  BY <1>2, <1>4, <1>5, <1>6
=============================================================================
