---- MODULE Variant ----
(* vu::VariantT, a value kept as the text of a string stream: numbers and words   *)
(* are written to it, and to_int() and the like read it, which moves the stream   *)
(* although the methods are const. A text is a sequence of digits and letters.    *)
EXTENDS Integers, Sequences, SequencesExt

CONSTANTS Variants,
          Digits, Letters,   \* disjoint sets of characters
          MaxText            \* bound on the length of a text

ASSUME VariantAssumption == MaxText \in Nat

VARIABLES variants,   \* object -> text, place of the next character read, fail and eof bits
          everWritten,    \* object -> all that was written to it
          lastRead    \* object -> the digits its last read returned; <<>> is 0

variantVars == <<variants, everWritten, lastRead>>

EmptyVariant == [text |-> <<>>, next |-> 1, good |-> TRUE]

VariantInit ==
  /\ variants = [v \in Variants |-> EmptyVariant]
  /\ everWritten = [v \in Variants |-> <<>>]
  /\ lastRead = [v \in Variants |-> <<>>]

\* operator<<: a stream that is not good takes nothing.
WriteText(v, s) ==
  /\ Len(everWritten[v]) + Len(s) <= MaxText
  /\ variants' = IF variants[v].good THEN [variants EXCEPT ![v].text = @ \o s] ELSE variants
  /\ everWritten' = [everWritten EXCEPT ![v] = @ \o s]
  /\ UNCHANGED lastRead

\* The digits from a place on.
NumberFrom(text, from) ==
  LET rest == SubSeq(text, from, Len(text))
      others == {i \in DOMAIN rest : rest[i] \notin Digits}
  IN SubSeq(rest, 1, IF others = {} THEN Len(rest) ELSE (CHOOSE i \in others : \A j \in others : i <= j) - 1)

\* to_int and the like: the number that comes next; reaching the end sets eof, and no
\* number fail, after which every read is 0.
ReadNumber(v) ==
  LET x == variants[v]
      digits == IF x.good THEN NumberFrom(x.text, x.next) ELSE <<>>
      next == x.next + Len(digits)
  IN /\ variants' = [variants EXCEPT ![v].next = next,
                                     ![v].good = x.good /\ digits # <<>> /\ next <= Len(x.text)]
     /\ lastRead' = [lastRead EXCEPT ![v] = digits]
     /\ UNCHANGED everWritten

\* A copy that takes the position of the stream it copies.
CopyWithPosition(v, right) ==
  /\ variants' = [variants EXCEPT ![v] = variants[right]]
  /\ everWritten' = [everWritten EXCEPT ![v] = variants[right].text]
  /\ UNCHANGED lastRead

\* The copy constructor and operator=: a stream with the text, from its beginning.
CopyVariant(v, right) ==
  /\ variants' = IF v = right THEN variants
                 ELSE [variants EXCEPT ![v] = [EmptyVariant EXCEPT !.text = variants[right].text]]
  /\ everWritten' = IF v = right THEN everWritten ELSE [everWritten EXCEPT ![v] = variants[right].text]
  /\ UNCHANGED lastRead

VariantNext ==
  \E v \in Variants :
    \/ \E c \in Digits \union Letters : WriteText(v, <<c>>)
    \/ ReadNumber(v)
    \/ \E right \in Variants : CopyVariant(v, right)

VariantSpec == VariantInit /\ [][VariantNext]_variantVars

VariantTypeOK ==
  \A v \in Variants :
    /\ variants[v].text \in Seq(Digits \union Letters)
    /\ variants[v].next \in 1..MaxText + 1
    /\ variants[v].good \in BOOLEAN

\* What is written to a variant is lost only after a read that used its text up, and the
\* first read of a variant, or of a copy of one, whatever was read of the original,
\* returns the number its text begins with.
VariantReadsOnce ==
  [][\A v \in Variants :
       /\ variants'[v].good => everWritten'[v] = variants'[v].text
       /\ ReadNumber(v) /\ variants[v].next = 1 /\ variants[v].good =>
            lastRead'[v] = NumberFrom(variants[v].text, 1)
       /\ \A right \in Variants \ {v} : CopyVariant(v, right) =>
            NumberFrom(variants'[v].text, variants'[v].next) = NumberFrom(variants[right].text, 1)]_variantVars
====
