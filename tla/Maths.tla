---- MODULE Maths ----
(* The arithmetic of math.cpp and the sizes of Base64 text of crypt.cpp. A size_t  *)
(* has Word values here: large enough for what is checked, and it wraps.          *)
EXTENDS Strings

NoIndex(Word) == Word - 1       \* size_t(-1)

Product(a) ==
  LET product[k \in 0..Len(a)] == IF k = 0 THEN 1 ELSE product[k - 1] * a[k]
  IN product[Len(a)]
Least(a) == Min(ToSet(a))

\* gcd: from the least number up to the product, the first that all of them divide.
Gcd(a) ==
  LET common == {i \in Least(a)..Product(a) : \A j \in DOMAIN a : i % a[j] = 0}
  IN IF Product(a) = 0 \/ common = {} THEN 0 ELSE Min(common)
\* lcm: from below the least number down to 2, the first that divides all of them.
Lcm(a) ==
  LET common == {i \in 2..Least(a) - 1 : \A j \in DOMAIN a : a[j] % i = 0}
  IN IF common = {} THEN 0 ELSE Max(common)

\* divide_items_into_pieces: num_items / num_pieces rounded to the nearest, at least 1.
ItemsPerPiece(items, pieces) == Max({1, (2 * items + pieces) \div (2 * pieces)})
PieceWithoutRest(items, pieces, idx, Word) ==
  LET beg == idx * ItemsPerPiece(items, pieces)
      end == (idx + 1) * ItemsPerPiece(items, pieces)
  IN [idx |-> idx, beg |-> IF idx < items THEN beg ELSE NoIndex(Word),
      end |-> IF idx < items THEN (end - 1) % Word ELSE NoIndex(Word),
      num |-> IF idx < items THEN (end - beg) % Word ELSE 0]
Piece(items, pieces, idx, Word) ==
  LET beg == idx * ItemsPerPiece(items, pieces)
      end == IF idx = pieces - 1 THEN items ELSE (idx + 1) * ItemsPerPiece(items, pieces)
  IN [idx |-> idx, beg |-> IF idx < items THEN beg ELSE NoIndex(Word),
      end |-> IF idx < items THEN (end - 1) % Word ELSE NoIndex(Word),
      num |-> IF idx < items THEN (end - beg) % Word ELSE 0]
DivideItemsIntoPieces(items, pieces, Word) ==
  [i \in 1..pieces |-> Piece(items, pieces, i - 1, Word)]

\* divide_items_into_num_items_per_piece: a piece ends when it is full or the items do.
DivideItemsIntoNumItemsPerPiece(items, per) ==
  LET ends == Picked([j \in 1..items |-> j], {j \in 1..items : j % per = 0 \/ j = items})
      beg(k) == IF k = 1 THEN 0 ELSE ends[k - 1]
  IN [k \in DOMAIN ends |-> [idx |-> k - 1, beg |-> beg(k), end |-> ends[k] - 1, num |-> ends[k] - beg(k)]]

\* b64_calc_encode_size: 4 * n / 3 up to a multiple of 4, in 32 bits.
EncodeSize(n, Word) == ((((4 * n) % Word) \div 3 + 3) \div 4) * 4
\* b64_calc_decode_size of a text of n characters that ends in so many '='.
DecodeSize(n, padding) == IF n < 2 \/ n % 4 # 0 THEN 0 ELSE (n \div 4) * 3 - padding
Padding(n) == (3 - (n % 3)) % 3

\* Every item is in one piece, in order.
Partitions(pieces, items) ==
  LET used == Picked(pieces, {k \in DOMAIN pieces : pieces[k].num # 0})
      beg(k) == IF k = 1 THEN 0 ELSE used[k - 1].end + 1
  IN /\ \A k \in DOMAIN used : used[k].beg = beg(k) /\ used[k].end = beg(k) + used[k].num - 1
     /\ used # <<>> => used[Len(used)].end = items - 1
     /\ used = <<>> => items = 0

\* Dividing a set into a number of pieces gives each item to one piece, in order, whenever the
\* rounded size leaves the last piece a place to begin. (Whether it does not is what
\* DocumentedResults is about.) Dividing by the size of a piece always does, and only the
\* last piece is short.
Fits(items, n) == n > items \/ (n - 1) * ItemsPerPiece(items, n) <= items
PiecesPartition(items, n, Word) ==
  LET sized == DivideItemsIntoNumItemsPerPiece(items, n)
  IN /\ Fits(items, n) => Partitions(DivideItemsIntoPieces(items, n, Word), items)
     /\ Partitions(sized, items)
     /\ \A k \in 1..Len(sized) - 1 : sized[k].num = n

\* What the names promise of some numbers.
DividesAll(d, a) == \A j \in DOMAIN a : a[j] % d = 0
MultipleOfAll(m, a) == \A j \in DOMAIN a : m % a[j] = 0
GreatestDivisor(d, a) ==
  d > 0 /\ DividesAll(d, a) /\ \A c \in d + 1..Least(a) : ~DividesAll(c, a)
LeastMultiple(m, a) == m > 0 /\ MultipleOfAll(m, a) /\ \A c \in 1..m - 1 : ~MultipleOfAll(c, a)

\* Base64 text of n bytes has room for all of them and decodes into n bytes again, up to
\* the length at which 4 * n no longer fits the word.
Base64SizesFit(n, Word) ==
  4 * n < Word =>
    /\ EncodeSize(n, Word) = 4 * ((n + 2) \div 3)
    /\ n > 0 => DecodeSize(EncodeSize(n, Word), Padding(n)) = n
====
