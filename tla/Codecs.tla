---- MODULE Codecs ----
(* The conversions of strfmt.cpp and the choices of crypt.cpp: hexadecimal text,   *)
(* URL encoding, hex dumps, sizes of bytes, and which digest is computed. A text  *)
(* is a sequence of character codes.                                              *)
EXTENDS Strings

Blank == 32
Percent == 37
Plus == 43
Point == 46
Thrown == <<-1>>      \* the exception
Digit(d) == IF d < 10 THEN 48 + d ELSE 87 + d
IsHexDigit(c) == c \in 48..57 \/ c \in 97..102 \/ c \in 65..70
DigitValue(c) == IF c <= 57 THEN c - 48 ELSE IF c >= 97 THEN c - 87 ELSE c - 55

\* to_hex_string: two digits for each byte.
ToHexStringUnfilled(bytes) ==
  FlattenSeq([i \in DOMAIN bytes |->
    (IF bytes[i] < 16 THEN <<>> ELSE <<Digit(bytes[i] \div 16)>>) \o <<Digit(bytes[i] % 16)>>])
ToHexString(bytes) ==
  FlattenSeq([i \in DOMAIN bytes |-> <<Digit(bytes[i] \div 16), Digit(bytes[i] % 16)>>])

\* to_hex_bytes: the blanks go, and what is left must be pairs of digits.
ToHexBytes(text) ==
  LET s == SelectSeq(text, LAMBDA c : c # Blank)
  IN IF Len(s) % 2 # 0 \/ \E i \in DOMAIN s : ~IsHexDigit(s[i]) THEN Thrown
     ELSE [i \in 1..Len(s) \div 2 |-> 16 * DigitValue(s[2 * i - 1]) + DigitValue(s[2 * i])]

Kept(c) == c \in 48..57 \union 65..90 \union 97..122 \union {45, 95, 46, 126}
Hexadecimal(c) ==
  IF c < 16 THEN <<Digit(c)>>
  ELSE IF c < 256 THEN <<Digit(c \div 16), Digit(c % 16)>>
  ELSE IF c < 4096 THEN <<Digit(c \div 256), Digit((c \div 16) % 16), Digit(c % 16)>>
  ELSE <<Digit(c \div 4096), Digit((c \div 256) % 16), Digit((c \div 16) % 16), Digit(c % 16)>>

\* url_encode_W: the number of digits is not fixed.
UrlEncode(text) ==
  FlattenSeq([i \in DOMAIN text |->
    IF Kept(text[i]) THEN <<text[i]>>
    ELSE <<Percent>> \o (IF text[i] < 16 THEN <<Digit(0)>> ELSE <<>>) \o Hexadecimal(text[i])])

\* swscanf "%x" of the two characters behind a percent sign.
ScannedHex(s) ==
  IF s = <<>> \/ ~IsHexDigit(s[1]) THEN 0
  ELSE IF Len(s) = 1 \/ ~IsHexDigit(s[2]) THEN DigitValue(s[1])
  ELSE 16 * DigitValue(s[1]) + DigitValue(s[2])
\* url_decode_W: after a percent sign two characters are passed over, whatever they are.
UrlDecode(text) ==
  LET result[i \in 1..Len(text) + 3] ==
        IF i > Len(text) THEN <<>>
        ELSE IF text[i] # Percent THEN <<IF text[i] = Plus THEN Blank ELSE text[i]>> \o result[i + 1]
        ELSE <<ScannedHex(SubSeq(text, i + 1, IF i + 2 < Len(text) THEN i + 2 ELSE Len(text)))>> \o result[i + 3]
  IN result[1]

\* hex_dump: rows of `column` bytes (16 in the code) with their text. The variable that would
\* pad the last row is not the one that counted, so it is never padded. Without data the row
\* printed is one nobody wrote: that outcome is left out, and so is the empty input.
DumpText(bytes) == [i \in DOMAIN bytes |-> IF bytes[i] < 32 \/ bytes[i] > 126 THEN Point ELSE bytes[i]]
HexDump(data, column) ==
  [r \in 1..(Len(data) + column - 1) \div column |->
     LET row == SubSeq(data, (r - 1) * column + 1, IF r * column < Len(data) THEN r * column ELSE Len(data))
     IN [offset |-> (r - 1) * column, bytes |-> row, text |-> DumpText(row)]]

\* format_bytes: the power of the unit and the names of units, which stay those of the first
\* call that got as far as choosing them. The power is a quotient of logarithms: whether it
\* reaches an exact power beyond the first is up to their rounding, taken as exact here.
UnitIndex(bytes, unit) ==
  LET left[i \in 0..6] == IF i = 0 THEN bytes ELSE left[i - 1] \div unit
  IN Max({i \in 0..6 : left[i] > 0})
FormatBytes(calls) ==
  LET valid == {i \in DOMAIN calls : calls[i].bytes >= 0}
  IN [i \in DOMAIN calls |->
        IF calls[i].bytes <= 0 THEN <<>>
        ELSE <<UnitIndex(calls[i].bytes, calls[i].unit), calls[Min(valid)].unit>>]

\* crypt_sha_buffer: the digests there are, of so many bytes.
ShaDigest(version, bits) ==
  IF (version = 1 /\ bits = 160) \/ (version \in {2, 3} /\ bits \in {224, 256, 384, 512})
  THEN <<version, bits, bits \div 8>> ELSE Thrown
\* crypt_crc_buffer: by width, or the first of the list with all parameters equal, else 0.
CrcOfWidth(bits) == IF bits \in {8, 16, 32, 64} THEN <<bits>> ELSE Thrown
CrcOfParameters(list, wanted) ==
  LET same == {i \in DOMAIN list : list[i] = wanted} IN IF same = {} THEN 0 ELSE Min(same)

\* Bytes written as hexadecimal text are read back whatever blanks were put in, and a
\* text with half a byte is refused.
HexRoundTrip(bytes, at) ==
  LET text == ToHexString(bytes)
  IN /\ ToHexBytes(text) = bytes
     /\ at <= Len(text) => ToHexBytes(SubSeq(text, 1, at) \o <<Blank>> \o SubSeq(text, at + 1, Len(text))) = bytes
     /\ at \in DOMAIN text => ToHexBytes(SubSeq(text, 1, at - 1) \o SubSeq(text, at + 1, Len(text))) = Thrown

\* A URL-encoded text decodes into itself exactly when no character that is encoded
\* needs more than the two digits the decoder reads; and a dump shows every byte once.
UrlRoundTrip(text) ==
  /\ UrlDecode(UrlEncode(text)) = text <=> \A i \in DOMAIN text : text[i] < 256 \/ Kept(text[i])
  /\ \A i \in DOMAIN UrlEncode(text) : UrlEncode(text)[i] = Percent \/ Kept(UrlEncode(text)[i])

DumpWhole(data, column) ==
  LET rows == HexDump(data, column)
  IN /\ FlattenSeq([r \in DOMAIN rows |-> rows[r].bytes]) = data
     /\ \A r \in DOMAIN rows : Len(rows[r].bytes) = column \/ r = Len(rows)

\* A size is shown in the largest unit it fills; the names of units are those of its own
\* call exactly when the first size ever formatted asked for the same kind.
UnitsOfFirst(calls) ==
  LET shown == FormatBytes(calls) valid == {i \in DOMAIN calls : calls[i].bytes >= 0}
  IN \A i \in DOMAIN calls : shown[i] # <<>> =>
       /\ calls[i].bytes \div calls[i].unit ^ shown[i][1] \in 1..calls[i].unit - 1
       /\ (shown[i][2] = calls[i].unit) <=> (calls[Min(valid)].unit = calls[i].unit)

\* The CRC computed for a list of parameters is of the entry asked for, wherever it stands;
\* the digests of a version are told apart by their length.
ChecksumAsAsked(list, wanted) ==
  LET at == CrcOfParameters(list, wanted)
  IN /\ at # 0 <=> wanted \in ToSet(list)
     /\ at # 0 => list[at] = wanted /\ CrcOfWidth(wanted.bits) = <<wanted.bits>>
DigestsDiffer ==
  \A v, w \in 1..3, a, b \in {160, 224, 256, 384, 512} :
    ShaDigest(v, a) # Thrown /\ ShaDigest(v, a) = ShaDigest(w, b) => v = w /\ a = b /\ ShaDigest(v, a)[3] * 8 = a
====
