---- MODULE DocumentedResults ----
(* Three results the repository documents and the code does not give: the text of *)
(* a UTF-16 file for the narrow class, the greatest common divisor, and a set     *)
(* divided into pieces. A state is one call of each, so a state in which none is  *)
(* as documented refutes all three at once.                                       *)
EXTENDS TextFiles, Maths

\* ---- the samples
Bytes == [c \in {65, 233, 8364} |->
            IF c = 65 THEN <<65>> ELSE IF c = 233 THEN <<195, 169>> ELSE <<226, 130, 172>>]
SampleTexts == BoundedSeq(DOMAIN Bytes, 2) \ {<<>>}
SampleEncodings == {"UTF8", "UTF8_BOM", "UTF16_LE", "UTF16_BE", "UTF16_LE_BOM", "UTF16_BE_BOM"}
SampleNumbers == {<<9, 27, 81>>, <<4, 4>>, <<4, 6>>}
SampleDivisions == {4} \X (1..5) \union {9} \X (1..9)
Word == 65536

VARIABLES
  sampleText, sampleEncoding, numbers, division

sampleVars == <<sampleText, sampleEncoding, numbers, division>>

SampleInit ==
  /\ sampleText \in SampleTexts /\ sampleEncoding \in SampleEncodings
  /\ numbers \in SampleNumbers /\ division \in SampleDivisions

SampleSpec == SampleInit /\ [][UNCHANGED sampleVars]_sampleVars

\* Sample.String.h:79-91 reads a file that has a text once with the narrow class, once with
\* the wide class and to_string_A, and asserts that neither text is empty.
TextFound ==
  LET file == Saved(sampleText, sampleEncoding, Bytes)
  IN /\ ReadAsTextA(file, sampleEncoding, Bytes) # <<>>
     /\ ToStringA(ReadAsTextW(file, sampleEncoding, Bytes), Bytes, TRUE) # <<>>

\* math.cpp:19: gcd gives the "Greatest Common Divisor" (UCLN, the same, in Vutils.h:233).
GcdNamed == GreatestDivisor(Gcd(numbers), numbers)

\* math.cpp:132: "Divides a set of items into a specified number of pieces", an item in one.
SetDivided == Partitions(DivideItemsIntoPieces(division[1], division[2], Word), division[1])

\* Whatever the text, the numbers and the set, one of the three results is as documented: the
\* weakest statement that is false only where each of them is.
SomeResultDocumented == TextFound \/ GcdNamed \/ SetDivided
====
