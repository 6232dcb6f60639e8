---- MODULE RegistryValue ----
(* The values vu::RegistryA and RegistryW write and read. The registry keeps     *)
(* text, which the A and the W functions pass with sizes in bytes of their own   *)
(* characters; a read of variable size asks for the size, allocates and reads,   *)
(* while another program may write or delete the value in between.               *)
EXTENDS Strings

CONSTANTS ValueTexts,   \* the strings written; no character of them is 0
          ValueLists,   \* the lists of such strings written
          ValueBytes,   \* the binary data written
          Absent        \* no value; the default a read returns

Characters == Nat \ {Nul}

ASSUME ValueAssumption ==
  /\ ValueTexts \subseteq Seq(Characters) /\ ValueLists \subseteq Seq(Seq(Characters))
  /\ ValueBytes \subseteq Seq(Nat)
  /\ Absent \notin Seq(Nat) /\ Absent \notin Seq(Seq(Characters))

VARIABLES valueKind,   \* what the value is: "string" (and expand), "multi", "binary", "fixed"
          value,       \* what the registry has of it: cells, or Absent
          written,     \* the text, list or data last written
          reader,      \* at: "idle" or "sized"; wide; room: cells allocated; stale: written since
          readResult

valueVars == <<valueKind, value, written, reader, readResult>>

Sizes == {1, 4}          \* bool; int and float
CharSize(wide) == IF wide THEN 2 ELSE 1
IsText == valueKind \in {"string", "multi"}
\* Bytes of a cell as the functions of one width count them: data are bytes for both.
CellSize(wide) == IF IsText THEN CharSize(wide) ELSE 1

ValueInit ==
  /\ valueKind \in {"string", "multi", "binary", "fixed"}
  /\ value = Absent /\ written = Absent /\ readResult = Absent
  /\ reader = [at |-> "idle", wide |-> FALSE, room |-> 0, stale |-> FALSE]

\* RegSetValueEx: as many cells as the size covers.
Store(cells, size, wide) ==
  /\ value' = SubSeq(cells, 1, size \div CellSize(wide))
  /\ reader' = [reader EXCEPT !.stale = TRUE]

\* set_size_of_multi_string, in characters and in bytes: the strings with their terminators.
SizeOfMultiA(cells) == Len(ListToMulti(MultiToList(cells))) - 1
SizeOfMultiW(cells) == 2 * (Len(ListToMulti(MultiToList(cells))) - 1)

Inputs ==
  CASE valueKind = "string" -> ValueTexts
    [] valueKind = "multi"  -> ValueLists
    [] valueKind = "binary" -> ValueBytes
    [] valueKind = "fixed"  -> {[i \in 1..n |-> n] : n \in Sizes}

WriteA(v) ==
  /\ v \in Inputs /\ written' = v
  /\ CASE valueKind = "string" -> Store(Append(v, Nul), Len(v) + 1, FALSE)
       [] valueKind = "multi"  -> Store(ListToMulti(v), SizeOfMultiA(ListToMulti(v)) + 1, FALSE)
       [] OTHER                -> Store(v, Len(v), FALSE)
  /\ UNCHANGED <<valueKind, readResult>>

WriteW(v) ==
  /\ v \in Inputs /\ written' = v
  /\ CASE valueKind = "string" -> Store(Append(v, Nul), 2 * (Len(v) + 1), TRUE)
       [] valueKind = "multi"  -> Store(ListToMulti(v), SizeOfMultiW(ListToMulti(v)) + 2, TRUE)
       [] OTHER                -> Store(v, Len(v), TRUE)
  /\ UNCHANGED <<valueKind, readResult>>

DeleteValue ==
  /\ value # Absent
  /\ value' = Absent /\ written' = Absent
  /\ reader' = [reader EXCEPT !.stale = TRUE]
  /\ UNCHANGED <<valueKind, readResult>>

\* read_integer, read_float, read_bool: one query into a variable of a size; the stored
\* size must not be larger, and what a smaller one leaves is zero.
ReadFixed(size) ==
  /\ valueKind = "fixed" /\ reader.at = "idle"
  /\ readResult' = IF value = Absent \/ Len(value) > size THEN Absent
                   ELSE value \o [i \in 1..size - Len(value) |-> 0]
  /\ reader' = [reader EXCEPT !.stale = FALSE]
  /\ UNCHANGED <<valueKind, value, written>>

\* get_data_size, in bytes; a size of 0, stored or not known, gives the default. The
\* allocation has a character more, which stays zero.
GetDataSize(wide) ==
  /\ valueKind # "fixed" /\ reader.at = "idle"
  /\ IF value = Absent \/ value = <<>>
     THEN /\ readResult' = Absent
          /\ reader' = [reader EXCEPT !.stale = FALSE]
     ELSE /\ reader' = [at |-> "sized", wide |-> wide, stale |-> FALSE,
                        room |-> (Len(value) * CellSize(wide) + CharSize(wide)) \div CellSize(wide)]
          /\ UNCHANGED readResult
  /\ UNCHANGED <<valueKind, value, written>>

Zeroed(cells, room) == cells \o [i \in 1..room - Len(cells) |-> Nul]
Decode(cells) ==
  CASE valueKind = "string" -> SubSeq(cells, 1, StringLength(cells))
    [] valueKind = "multi"  -> MultiToList(cells)
    [] valueKind = "binary" -> cells

\* A second query whose error is not looked at: the buffer is taken for the value.
ReadSizedUnchecked ==
  /\ reader.at = "sized"
  /\ readResult' = IF value = Absent THEN Decode(Zeroed(<<>>, reader.room))
                   ELSE Decode(Zeroed(IF Len(value) > reader.room THEN <<>> ELSE value, reader.room))
  /\ reader' = [reader EXCEPT !.at = "idle"]
  /\ UNCHANGED <<valueKind, value, written>>

\* The second query: an error, or a value that has grown past the buffer, gives the default.
ReadSized ==
  /\ reader.at = "sized"
  /\ readResult' = IF value = Absent \/ Len(value) > reader.room THEN Absent
                   ELSE Decode(Zeroed(value, reader.room))
  /\ reader' = [reader EXCEPT !.at = "idle"]
  /\ UNCHANGED <<valueKind, value, written>>

ValueNext ==
  \/ \E v \in Inputs : WriteA(v) \/ WriteW(v)
  \/ DeleteValue
  \/ \E size \in Sizes : ReadFixed(size)
  \/ \E wide \in BOOLEAN : GetDataSize(wide)
  \/ ReadSized

ValueSpec == ValueInit /\ [][ValueNext]_valueVars

ValueTypeOK ==
  /\ valueKind \in {"string", "multi", "binary", "fixed"}
  /\ (value = Absent) <=> (written = Absent)
  /\ reader.at \in {"idle", "sized"} /\ reader.room \in Nat
  /\ reader.at = "idle" \/ valueKind # "fixed"

\* The read that ends now gives the value that is there now, whole, whatever was written or
\* deleted since its size was asked, a list up to its first empty string; the default only
\* when the value is gone or was written meanwhile. Data have the zero padding of the
\* allocation behind.
ReadsWhole ==
  [][ (reader.at = "sized" /\ reader'.at = "idle") =>
        IF readResult' = Absent THEN written = Absent \/ reader.stale
        ELSE CASE valueKind = "string" -> readResult' = written
               [] valueKind = "multi"  -> readResult' = Carried(written)
               [] valueKind = "binary" -> IsPrefix(written, readResult')
    ]_valueVars
====
