---- MODULE TextFiles ----
(* Reading a text file whole (read_as_text of FileSystemA and W) and walking a    *)
(* directory (iterate). A file is its bytes; a wide text its code units, an 8-bit *)
(* one UTF-8.                                                                     *)
EXTENDS Strings

NoText == <<-1>>     \* nullptr
Utf16Le == <<255, 254>>
Utf16Be == <<254, 255>>
Utf8 == <<239, 187, 191>>

\* The detector's names for what it finds, and what detect_text_encoding makes of them;
\* a name that is not in its table is inserted with the value 0, TE_UTF8.
Mapped == {"NONE", "ANSI", "ASCII", "UTF8_BOM", "UTF16_LE", "UTF16_BE", "UTF16_LE_BOM", "UTF16_BE_BOM"}
DetectTextEncoding(detected, filled) ==
  IF detected \notin filled \/ detected \in {"ANSI", "ASCII"} THEN "UTF8" ELSE detected

HighByte(unit) == unit \div 256
LowByte(unit) == unit % 256
Swapped(text) == [i \in DOMAIN text |-> LowByte(text[i]) * 256 + HighByte(text[i])]
\* The bytes read as code units of this machine; an odd one at the end is dropped.
UnitsOf(bytes) == [i \in 1..Len(bytes) \div 2 |-> bytes[2 * i - 1] + 256 * bytes[2 * i]]
Behind(bytes, bom) == SubSeq(bytes, Len(bom) + 1, Len(bytes))

\* MultiByteToWideChar of text that is UTF-8; Bytes maps units to their bytes.
Decoded(bytes, Bytes) ==
  LET units[at \in 1..Len(bytes) + 1] ==
        LET starts == {u \in DOMAIN Bytes : IsPrefix(Bytes[u], SubSeq(bytes, at, Len(bytes)))}
            u == CHOOSE v \in starts : TRUE
        IN IF at > Len(bytes) \/ starts = {} THEN <<>> ELSE <<u>> \o units[at + Len(Bytes[u])]
  IN units[1]

\* The UTF-16 half of read_as_text: what it takes for a wide text, before any conversion.
WideTextUnswapped(bytes, encoding) ==
  UnitsOf(IF encoding \in {"UTF16_LE_BOM", "UTF16_BE_BOM"} THEN Behind(bytes, Utf16Le) ELSE bytes)
WideText(bytes, encoding) ==
  LET units == UnitsOf(IF encoding \in {"UTF16_LE_BOM", "UTF16_BE_BOM"} THEN Behind(bytes, Utf16Le) ELSE bytes)
  IN IF encoding \in {"UTF16_BE", "UTF16_BE_BOM"} THEN Swapped(units) ELSE units
ByteText(bytes, encoding) == IF encoding = "UTF8_BOM" THEN Behind(bytes, Utf8) ELSE bytes

ReadAsTextA(bytes, encoding, Bytes) ==
  IF bytes = <<>> \/ encoding = "NONE" THEN NoText
  ELSE IF encoding \in {"UTF8", "UTF8_BOM"} THEN ByteText(bytes, encoding)
  ELSE ToStringA(WideText(bytes, encoding), Bytes, TRUE)
ReadAsTextW(bytes, encoding, Bytes) ==
  IF bytes = <<>> \/ encoding = "NONE" THEN NoText
  ELSE IF encoding \in {"UTF8", "UTF8_BOM"} THEN Decoded(ByteText(bytes, encoding), Bytes)
  ELSE WideText(bytes, encoding)

\* iterate: the entries the callback is called with; Stops are those it says no to.
Iterate(entries, Stops) ==
  LET at == {i \in DOMAIN entries : entries[i] \in Stops}
  IN IF at = {} THEN entries ELSE SubSeq(entries, 1, Min(at))
IterateW(entries, Stops) == entries

\* What an editor saves of a text under an encoding.
Saved(text, encoding, Bytes) ==
  LET pair(u) == IF encoding \in {"UTF16_BE", "UTF16_BE_BOM"} THEN <<HighByte(u), LowByte(u)>>
                 ELSE <<LowByte(u), HighByte(u)>>
      bom == CASE encoding = "UTF16_LE_BOM" -> Utf16Le
               [] encoding = "UTF16_BE_BOM" -> Utf16Be
               [] encoding = "UTF8_BOM"     -> Utf8
               [] OTHER                     -> <<>>
  IN bom \o FlattenSeq([i \in DOMAIN text |->
              IF encoding \in {"UTF16_LE", "UTF16_BE", "UTF16_LE_BOM", "UTF16_BE_BOM"} THEN pair(text[i])
              ELSE Bytes[text[i]]])

\* A text the wide class reads from a file is the text that was saved in it, whatever the
\* encoding, once the table of encodings is filled; the narrow class gives the bytes of a text
\* in UTF-8. (Of one in UTF-16 it gives nothing: DocumentedResults.) An empty file has no
\* text. Reading before another thread has filled the table takes UTF-16 for UTF-8.
TextRoundTrip(text, detected, Bytes) ==
  LET encoding == DetectTextEncoding(detected, Mapped)
      bytes == Saved(text, encoding, Bytes)
  IN /\ encoding # "NONE" /\ bytes # <<>> => ReadAsTextW(bytes, encoding, Bytes) = text
     /\ encoding \in {"UTF8", "UTF8_BOM"} /\ bytes # <<>> =>
          ReadAsTextA(bytes, encoding, Bytes) = Encoded(text, Bytes)
     /\ bytes = <<>> => NoText = ReadAsTextW(bytes, encoding, Bytes) /\ NoText = ReadAsTextA(bytes, encoding, Bytes)
     /\ DetectTextEncoding(detected, {}) = "UTF8"

\* The callback sees the entries of a directory in order, and of the narrow class none
\* behind the first it says no to; the wide class goes on.
IteratesInOrder(entries, Stops) ==
  LET seen == Iterate(entries, Stops)
  IN /\ IsPrefix(seen, IterateW(entries, Stops)) /\ IterateW(entries, Stops) = entries
     /\ \A i \in DOMAIN seen : seen[i] \in Stops => i = Len(seen)
     /\ Len(seen) < Len(entries) => seen # <<>> /\ Last(seen) \in Stops
====
