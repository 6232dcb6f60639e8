---- MODULE MemoryBuffer ----
(* vu::Buffer: a block of the heap and its size. Every operation goes through   *)
(* create(), which frees, allocates or reallocates the block; what is read of a  *)
(* freed block or of one not written yet is Unknown. Beside the cells, "meant"   *)
(* has the sequence of bytes that the calls promise.                             *)
EXTENDS Integers, Sequences, FiniteSets, FiniteSetsExt, SequencesExt

CONSTANTS Buffers, Bytes,   \* the objects; the values of a byte, 0 among them
          Unknown,          \* a byte that was never written, or of a freed block
          MaxBytes          \* bound on the size of a buffer

ASSUME BufferAssumption == 0 \in Bytes /\ Unknown \notin Bytes /\ MaxBytes \in Nat

VARIABLES cells,     \* buffer -> its bytes; m_ptr is null exactly when there are none
          meant,     \* buffer -> the bytes promised
          exposed    \* buffers made longer by resize, or given themselves as a source

bufferVars == <<cells, meant, exposed>>

BufferInit ==
  /\ cells = [b \in Buffers |-> <<>>]
  /\ meant = [b \in Buffers |-> <<>>]
  /\ exposed = {}

Zeros(n) == [i \in 1..n |-> 0]
Unknowns(n) == [i \in 1..n |-> Unknown]
Sources == UNION {[1..n -> Bytes] : n \in 1..MaxBytes}

\* create with clean: the old block is freed, the new one is all zeros, or a copy.
CreateClean(source, size) == IF source = <<>> THEN Zeros(size) ELSE SubSeq(source, 1, size)
\* create without clean, on the block there is: realloc keeps the first bytes; a null one
\* is zeroed, a longer one is not.
Recreate(old, size) ==
  IF size = 0 THEN <<>>
  ELSE IF old = <<>> THEN Zeros(size)
  ELSE SubSeq(old, 1, Min({size, Len(old)})) \o Unknowns(size - Len(old))

Becomes(b, now, promised, isExposed) ==
  /\ cells' = [cells EXCEPT ![b] = now]
  /\ meant' = [meant EXCEPT ![b] = promised]
  /\ exposed' = IF isExposed THEN exposed \union {b} ELSE exposed \ {b}

ConstructBuffer(b, size) == Becomes(b, CreateClean(<<>>, size), Zeros(size), FALSE)

\* replace: the block is freed before the source is read.
Replace(b, source) == Becomes(b, source, source, FALSE)
ReplaceByBuffer(b, r) ==
  IF r = b THEN Becomes(b, Unknowns(Len(cells[b])), meant[b], cells[b] # <<>>)
  ELSE Becomes(b, cells[r], meant[r], r \in exposed)

\* operator=: equal contents are left alone, which spares an assignment to itself.
Assign(b, r) ==
  IF cells[b] = cells[r] THEN Becomes(b, cells[b], meant[r], r \in exposed)
  ELSE Becomes(b, CreateClean(cells[r], Len(cells[r])), meant[r], r \in exposed)

Resize(b, size) ==
  Becomes(b, IF size = Len(cells[b]) THEN cells[b] ELSE Recreate(cells[b], size),
          IF size <= Len(cells[b]) THEN SubSeq(meant[b], 1, size)
          ELSE meant[b] \o Zeros(size - Len(meant[b])),
          b \in exposed \/ (cells[b] # <<>> /\ size > Len(cells[b])))

CopyAt(old, at, source) == SubSeq(old, 1, at) \o source \o SubSeq(old, at + Len(source) + 1, Len(old))

\* An append that copies to the size asked after the resize.
AppendPastEnd(b, source) ==
  LET longer == Recreate(cells[b], Len(cells[b]) + Len(source))
  IN /\ Len(cells[b]) + Len(source) <= MaxBytes
     /\ Becomes(b, SubSeq(CopyAt(longer, Len(longer), source), 1, Len(longer)), meant[b] \o source, b \in exposed)

Append_(b, source) ==
  LET longer == Recreate(cells[b], Len(cells[b]) + Len(source))
  IN /\ Len(cells[b]) + Len(source) <= MaxBytes
     /\ Becomes(b, CopyAt(longer, Len(cells[b]), source), meant[b] \o source, b \in exposed)

\* append of the buffer itself: realloc may move the block before it is copied.
AppendSelf(b) ==
  LET n == Len(cells[b])
      longer == Recreate(cells[b], 2 * n)
  IN /\ n > 0 /\ 2 * n <= MaxBytes
     /\ \E source \in {Unknowns(n), cells[b]} :
          Becomes(b, CopyAt(longer, n, source), meant[b] \o meant[b], TRUE)

Fill(b, v) == Becomes(b, [i \in DOMAIN cells[b] |-> v], [i \in DOMAIN meant[b] |-> v], FALSE)
Reset(b) == Becomes(b, <<>>, <<>>, FALSE)

\* slice: places from the end are negative; anything out of range, or empty, is null.
FromEnd(n, i) == IF i < 0 THEN n + i ELSE i
Slice(s, first, end) ==
  LET n == Len(s)
      i == FromEnd(n, first)
      j == FromEnd(n, end)
  IN IF n = 0 \/ i < 0 \/ j < 0 \/ i > n \/ j > n \/ i >= j THEN <<>>
     ELSE SubSeq(s, i + 1, j)
TakeSlice(b, r, first, end) ==
  /\ Slice(cells[b], first, end) # <<>>
  /\ Becomes(r, Slice(cells[b], first, end),
             [k \in 1..Len(Slice(cells[b], first, end)) |->
               meant[b][(first % Len(meant[b])) + k]], b \in exposed)

\* find: offsets from 0; -1 when there is none.
Find(s, t) ==
  LET at == {i \in 0..Len(s) - Len(t) : SubSeq(s, i + 1, i + Len(t)) = t}
  IN IF s = <<>> \/ t = <<>> \/ at = {} THEN -1 ELSE Min(at)

\* till: what is before the text; null when nothing is. A text that is not there makes
\* an allocation of size -1, whose failure is thrown: not a step of the buffers.
Till(b, r, t) ==
  /\ Find(cells[b], t) > 0
  /\ Becomes(r, SubSeq(cells[b], 1, Find(cells[b], t)),
             SubSeq(meant[b], 1, Find(cells[b], t)), b \in exposed)

BufferNext == \E b \in Buffers :
  \/ \E size \in 0..MaxBytes : ConstructBuffer(b, size) \/ Resize(b, size)
  \/ \E source \in Sources : Replace(b, source) \/ Append_(b, source)
  \/ \E r \in Buffers : ReplaceByBuffer(b, r) \/ Assign(b, r)
  \/ \E r \in Buffers, first, end \in -MaxBytes..MaxBytes : TakeSlice(b, r, first, end)
  \/ \E r \in Buffers, v \in Bytes : Till(b, r, <<v>>)
  \/ \E v \in Bytes : Fill(b, v)
  \/ AppendSelf(b) \/ Reset(b)

BufferSpec == BufferInit /\ [][BufferNext]_bufferVars

BufferTypeOK ==
  /\ cells \in [Buffers -> UNION {[1..n -> Bytes \union {Unknown}] : n \in 0..MaxBytes}]
  /\ meant \in [Buffers -> UNION {[1..n -> Bytes] : n \in 0..MaxBytes}]
  /\ exposed \subseteq Buffers

\* Whatever calls came before, a buffer has as many bytes as promised and each of them is
\* the promised one; only one that was made longer by resize, or was given itself as a
\* source, or was copied from such a one, has bytes nobody wrote.
BufferAsMeant ==
  \A b \in Buffers :
    /\ Len(cells[b]) = Len(meant[b])
    /\ \A i \in DOMAIN cells[b] : cells[b][i] \in {meant[b][i], Unknown}
    /\ b \notin exposed => cells[b] = meant[b]
====
