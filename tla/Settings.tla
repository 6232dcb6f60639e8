---- MODULE Settings ----
(* Values the program reads into buffers of a fixed size: INI strings and section *)
(* names, and environment variables. A value is its length in characters; what a  *)
(* read returns is the length it kept, or Overrun when the call was told of more  *)
(* room than there is and wrote behind the buffer.                                *)
EXTENDS Strings

MaxSize == 255          \* MAX_SIZE
EnvVarNotFound == 203   \* ERROR_ENVVAR_NOT_FOUND
Lost == 0               \* the empty string
Overrun == -1

AtMost(a, b) == IF a <= b THEN a ELSE b

\* A profile or environment call told of `claimed` characters, given `room` of them.
CopyOf(len, claimed, room) == IF AtMost(len, claimed - 1) + 1 > room THEN Overrun ELSE AtMost(len, claimed - 1)

ReadString(len) == CopyOf(len, MaxSize, MaxSize)
ReadStringW(len) == CopyOf(len, 2 * MaxSize, MaxSize)

\* GetEnvironmentVariable: the length, or the room needed when it does not fit.
EnvResult(len, claimed) == IF len + 1 <= claimed THEN len ELSE len + 1

\* A first call, and a second one with a buffer of the size the first one asked for.
GetEnv(len) ==
  LET first == EnvResult(len, MaxSize)
      second == CopyOf(len, first + 1, first + 1)
  IN IF first \in {EnvVarNotFound, 0} THEN Lost
     ELSE IF first > MaxSize THEN second
     ELSE CopyOf(len, MaxSize, MaxSize)
\* get_env_W tells the calls of the bytes of its buffers.
GetEnvW(len) ==
  LET first == EnvResult(len, 2 * MaxSize)
  IN IF first \in {EnvVarNotFound, 0} THEN Lost
     ELSE IF len + 1 <= 2 * MaxSize /\ len + 1 > MaxSize THEN Overrun
     ELSE IF first > MaxSize THEN CopyOf(len, 2 * (first + 1), first + 1)
     ELSE len

\* GetPrivateProfileSectionNames: the cells it fills of max, and the count it returns.
ProfileNames(names, max) ==
  LET cells == ListToMulti(names)
  IN IF Len(cells) <= max THEN [cells |-> cells, returned |-> Len(cells) - 1]
     ELSE [cells |-> SubSeq(cells, 1, max - 2) \o <<Nul, Nul>>, returned |-> max - 2]

SectionNamesUnchecked(names, max) == [ok |-> TRUE, list |-> MultiToList(ProfileNames(names, max).cells)]

\* read_section_names: a count that may mean a list cut short is refused.
ReadSectionNames(names, max) ==
  IF ProfileNames(names, max).returned = max - 2 THEN [ok |-> FALSE, list |-> <<>>]
  ELSE [ok |-> TRUE, list |-> MultiToList(ProfileNames(names, max).cells)]

\* The section names a program is given are all of them, whole and in order; they are
\* refused only when at most one more character would fit.
SectionNamesWhole(names, max) ==
  LET read == ReadSectionNames(names, max)
  IN /\ read.ok => read.list = names
     /\ ~read.ok => Len(ListToMulti(names)) + 1 >= max

\* An environment variable is read whole, unless its length is the one the code takes for an
\* error or, in get_env_W, one that fits the bytes of the first buffer and not its characters.
\* An INI string keeps what fits, and the wide class reads those that fit whole. (What does not
\* fit the wide buffers is written behind them: nothing is promised of it.)
ValuesReadWhole(len) ==
  /\ len # EnvVarNotFound => GetEnv(len) = len
  /\ len \notin {EnvVarNotFound} \union MaxSize..2 * MaxSize - 1 => GetEnvW(len) = len
  /\ ReadString(len) = AtMost(len, MaxSize - 1)
  /\ len < MaxSize => ReadStringW(len) = len
====
