---- MODULE Strings ----
(* The string functions of string.cpp on sequences of characters, and what each *)
(* of them promises. A search string is never empty: split and replace find the *)
(* empty one at every place, forever.                                            *)
EXTENDS Integers, Sequences, FiniteSets, FiniteSetsExt, SequencesExt

Nul == 0
Npos == 0    \* find's "not found"; places count from 1 here

\* std::basic_string::find from a place on.
FindFrom(s, t, from) ==
  LET at == {i \in from..Len(s) - Len(t) + 1 : SubSeq(s, i, i + Len(t) - 1) = t}
  IN IF at = {} THEN Npos ELSE Min(at)
Erase(s, from, n) == SubSeq(s, 1, from - 1) \o SubSeq(s, from + n, Len(s))
InsertInto(s, at, t) == SubSeq(s, 1, at - 1) \o t \o SubSeq(s, at, Len(s))

\* The members of a sequence at some of its places, in order.
Picked(s, places) == FlattenSeq([i \in DOMAIN s |-> IF i \in places THEN <<s[i]>> ELSE <<>>])

LowerString(s, Lower) == [i \in DOMAIN s |-> IF s[i] \in DOMAIN Lower THEN Lower[s[i]] ELSE s[i]]

\* The loop of a split: the part from a place up to the next separator, and the parts behind.
SplitString(s, sep, remove_empty) ==
  LET parts[start \in 1..Len(s) + 1] ==
        LET end == FindFrom(s, sep, start)
            sub == IF end = Npos THEN SubSeq(s, start, Len(s)) ELSE SubSeq(s, start, end - 1)
            kept == IF sub # <<>> \/ ~remove_empty THEN <<sub>> ELSE <<>>
        IN IF end = Npos THEN kept ELSE kept \o parts[end + Len(sep)]
  IN IF s = <<>> THEN <<>> ELSE parts[1]

JoinString(parts, sep) ==
  FlattenSeq([i \in DOMAIN parts |-> IF i < Len(parts) THEN parts[i] \o sep ELSE parts[i]])

\* The text after a turn of the loop of a replacement, and where the next turn starts: there
\* is a turn for every place found, at most one for each character.
Replaced(s, from, to, passed) ==
  LET at == FindFrom(s.text, from, s.start)
  IN IF at = Npos THEN s
     ELSE [text |-> InsertInto(Erase(s.text, at, Len(from)), at, to), start |-> at + passed]
\* A replacement that looks again where it has just inserted.
ReplaceStringAgain(s, from, to) ==
  LET turns[k \in 0..Len(s)] ==
        IF k = 0 THEN [text |-> s, start |-> 1] ELSE Replaced(turns[k - 1], from, to, 1)
  IN turns[Len(s)].text
ReplaceString(s, from, to) ==
  LET turns[k \in 0..Len(s)] ==
        IF k = 0 THEN [text |-> s, start |-> 1] ELSE Replaced(turns[k - 1], from, to, Len(to))
  IN turns[Len(s)].text

\* find_first_not_of, find_last_not_of: npos erases all, npos + 1 is 0.
TrimLeft(s, chars) ==
  LET keep == {i \in DOMAIN s : s[i] \notin chars}
  IN IF keep = {} THEN <<>> ELSE SubSeq(s, Min(keep), Len(s))
TrimRight(s, chars) ==
  LET keep == {i \in DOMAIN s : s[i] \notin chars}
  IN IF keep = {} THEN <<>> ELSE SubSeq(s, 1, Max(keep))
TrimString(s, type, chars) ==
  CASE type = "left"  -> TrimLeft(s, chars)
    [] type = "right" -> TrimRight(s, chars)
    [] type = "both"  -> TrimRight(TrimLeft(s, chars), chars)

StartsWith(s, with) ==
  Len(s) >= Len(with) /\ \A i \in DOMAIN with : s[i] = with[i]
EndsWith(s, with) ==
  Len(s) >= Len(with) /\ \A i \in DOMAIN with : s[Len(s) - Len(with) + i] = with[i]
\* What two texts are compared as.
Cased(s, ignore_case, Lower) == IF ignore_case THEN LowerString(s, Lower) ELSE s
ContainsString(s, test, ignore_case, Lower) ==
  FindFrom(Cased(s, ignore_case, Lower), Cased(test, ignore_case, Lower), 1) # Npos

\* The table of find_closest_string: lengths of the common parts that end at i and j.
CommonLength(a, b) ==
  LET table[i \in 0..Len(a), j \in 0..Len(b)] ==
        IF i = 0 \/ j = 0 THEN 0 ELSE IF a[i] = b[j] THEN table[i - 1, j - 1] + 1 ELSE 0
  IN Max({table[i, j] : i \in 0..Len(a), j \in 0..Len(b)})
\* The first of the best; the first of all when nothing is in common.
FindClosest(s, list) ==
  IF list = <<>> THEN <<>>
  ELSE LET best == Max({CommonLength(list[i], s) : i \in DOMAIN list})
       IN list[Min({i \in DOMAIN list : CommonLength(list[i], s) = best})]

\* A buffer of zeros with every string copied behind the one before, one zero ends all.
ListToMulti(list) == FlattenSeq([i \in DOMAIN list |-> Append(list[i], Nul)]) \o <<Nul>>
StringEnd(cells, at) == Min({i \in at..Len(cells) : cells[i] = Nul})
StringLength(cells) == StringEnd(cells, 1) - 1
MultiToList(cells) ==
  LET list[at \in DOMAIN cells] ==
        LET end == StringEnd(cells, at)
        IN IF end = at THEN <<>> ELSE <<SubSeq(cells, at, end - 1)>> \o list[end + 1]
  IN list[1]

\* to_string_A. The conversion to UTF-8 is asked for with WC_COMPOSITECHECK, which the system
\* refuses for that page: nobody looks, and the buffer of zeros is an empty text. One to the
\* ANSI page fills a buffer of one byte for each unit, and a zero, as far as it goes.
Encoded(s, Units) == FlattenSeq([i \in DOMAIN s |-> Units[s[i]]])
ToStringRoom(s) == Len(s) + 1
ToStringA(s, Units, utf8) ==
  IF utf8 THEN <<>>
  ELSE IF Len(Encoded(s, Units)) + 1 <= ToStringRoom(s) THEN Encoded(s, Units)
  ELSE SubSeq(Encoded(s, Units), 1, ToStringRoom(s))

\* Splitting at a separator and joining with it gives the text back; dropping the empty
\* parts drops nothing else.
SplitJoins(s, sep) ==
  LET parts == SplitString(s, sep, FALSE)
  IN /\ JoinString(parts, sep) = s
     /\ SplitString(s, sep, TRUE) = Picked(parts, {i \in DOMAIN parts : parts[i] # <<>>})

\* Replacing is splitting at the old text and joining with the new one: what is inserted
\* is never searched, and neither is a part that overlaps a replaced one.
ReplaceIsSplitJoin(s, from, to) ==
  ReplaceString(s, from, to) = JoinString(SplitString(s, from, FALSE), to)

\* A trim takes the longest run of trimmed characters at either end, and leaves an all-trim
\* text empty.
TrimLongest(s, chars) ==
  LET t == TrimString(s, "both", chars)
  IN /\ \E i, j \in 0..Len(s) : /\ i + Len(t) + j = Len(s) /\ SubSeq(s, i + 1, i + Len(t)) = t
                                /\ \A k \in 1..i \union Len(s) - j + 1..Len(s) : s[k] \in chars
     /\ t # <<>> => t[1] \notin chars /\ t[Len(t)] \notin chars
     /\ TrimString(TrimString(s, "right", chars), "left", chars) = t

\* The table finds the longest text that is a part of both.
ClosestLongest(s, a, b) ==
  /\ \A c \in {a, b} : CommonLength(c, s) =
       Max({Len(t) : t \in SubSeqs(c) \intersect SubSeqs(s)})
  /\ FindClosest(s, <<a, b>>) \in {a, b}
  /\ CommonLength(FindClosest(s, <<a, b>>), s) >= CommonLength(a, s)

\* A list in a multi-string comes back up to its first empty string, which ends it.
Carried(list) ==
  LET empty == {i \in DOMAIN list : list[i] = <<>>}
  IN SubSeq(list, 1, IF empty = {} THEN Len(list) ELSE Min(empty) - 1)
MultiStringKeeps(list) == MultiToList(ListToMulti(list)) = Carried(list)

\* Text converted to the ANSI page is whole unless a character of it takes several bytes.
AnsiWhole(s, Units) ==
  ToStringA(s, Units, FALSE) # Encoded(s, Units) => \E i \in DOMAIN s : Len(Units[s[i]]) > 1

\* What starts or ends with a text contains it, and the case is ignored on both sides.
AffixesAgree(s, t, Lower) ==
  /\ StartsWith(s, t) <=> IsPrefix(t, s)
  /\ EndsWith(s, t) <=> StartsWith(Reverse(s), Reverse(t))
  /\ StartsWith(s, t) \/ EndsWith(s, t) => ContainsString(s, t, FALSE, Lower)
  /\ ContainsString(s, t, TRUE, Lower) <=> \E u \in SubSeqs(s) : LowerString(u, Lower) = LowerString(t, Lower)
====
