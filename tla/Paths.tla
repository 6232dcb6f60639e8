---- MODULE Paths ----
(* The path functions of filedir.cpp and the class PathA, on sequences of        *)
(* characters; the W versions do the same on wide ones.                          *)
EXTENDS Strings

Backslash == "\\"
Slash == "/"
Dot == "."
Space == " "
Forbidden == {Backslash, Slash, ":", "?", "\"", "<", ">", "|"}
Separators == {Backslash, Slash}

\* rfind: the last place of a character; 0 when there is none.
LastOf(s, c) == Max({i \in DOMAIN s : s[i] = c} \union {0})
From(s, i) == SubSeq(s, i, Len(s))

IsFileNameValid(name) == \A c \in Forbidden : LastOf(name, c) = 0
CorrectFileName(name, replacement) ==
  [i \in DOMAIN name |-> IF name[i] \in Forbidden THEN replacement ELSE name[i]]

ExtractFileDirectory(path, last_slash) ==
  LET slash == LastOf(path, Backslash)
  IN SubSeq(path, 1, IF slash = 0 \/ last_slash THEN slash ELSE slash - 1)

\* The last dot is looked for in the whole path, whichever part it is in.
ExtractFileExtension(path, dot) ==
  LET at == LastOf(path, Dot)
  IN IF at = 0 THEN <<>> ELSE From(path, IF dot THEN at ELSE at + 1)

ExtractFileName(path, extension) ==
  LET name == From(path, LastOf(path, Backslash) + 1)
      dot == LastOf(name, Dot)
  IN IF extension \/ dot = 0 THEN name ELSE SubSeq(name, 1, dot - 1)

\* A join that looks at the left side only.
JoinPathLeftOnly(left, right, sep) ==
  IF left = <<>> THEN right
  ELSE IF left[Len(left)] = sep THEN left \o From(right, 2) ELSE left \o <<sep>> \o right

JoinPath(left, right, sep) ==
  LET ends == left[Len(left)] = sep
      begins == StartsWith(right, <<sep>>)
  IN IF left = <<>> THEN right
     ELSE IF ends /\ begins THEN left \o From(right, 2)
     ELSE IF ends \/ begins THEN left \o right
     ELSE left \o <<sep>> \o right

NormalizePath(path, sep) ==
  LET once == ReplaceString(path, <<Backslash, Backslash>>, <<sep>>)
      win == ReplaceString(once, <<Backslash>>, <<sep>>)
  IN ReplaceString(win, <<Slash>>, <<sep>>)

\* PathA::finalize, and the parts of a path that are taken of the finalized one.
FinalizePath(path, sep) == NormalizePath(TrimString(path, "both", {Space}), sep)
ExtractName(path, sep, extension) == ExtractFileName(FinalizePath(path, sep), extension)
ExtractDirectory(path, sep, with_slash) == ExtractFileDirectory(FinalizePath(path, sep), with_slash)
PathEquals(left, lsep, right, rsep, Lower) ==
  lsep = rsep /\ IF lsep = Backslash THEN LowerString(left, Lower) = LowerString(right, Lower) ELSE left = right

\* get_current_directory of what the system says, which is never empty.
CurrentDirectory(s, last_slash) ==
  IF last_slash THEN IF Last(s) # Backslash THEN Append(s, Backslash) ELSE s
  ELSE IF Last(s) = Backslash THEN Front(s) ELSE s

\* get_file_name_from_handle: the first drive whose device the path goes on after, behind a
\* backslash; the path of the device when no drive has it.
FileNameFromHandle(path, drives, device) ==
  LET match == {i \in DOMAIN drives : StartsWith(path, Append(device[drives[i]], Backslash))}
  IN IF match = {} THEN path
     ELSE LET drive == drives[Min(match)]
          IN <<drive, ":">> \o From(path, Len(device[drive]) + 1)

\* The names between the separators of a path.
NamesIn(path, seps) ==
  SplitString([i \in DOMAIN path |-> IF path[i] \in seps THEN Slash ELSE path[i]], <<Slash>>, TRUE)

\* A path is its directory and its name, and a name is its stem and its extension, unless
\* the only dot is in a directory. A path object with the other separator has no directory:
\* the parts are looked for by the backslash that finalizing has replaced.
PartsMakePath(path) ==
  /\ ExtractFileDirectory(path, TRUE) \o ExtractFileName(path, TRUE) = path
  /\ ~Contains(ExtractFileName(path, TRUE), Backslash)
  /\ LastOf(path, Dot) > LastOf(path, Backslash) =>
       ExtractFileName(path, FALSE) \o ExtractFileExtension(path, TRUE) = ExtractFileName(path, TRUE)
  /\ ExtractName(path, Backslash, TRUE) = <<>> \/ ExtractName(path, Backslash, TRUE) = Last(NamesIn(FinalizePath(path, Backslash), Separators))
  /\ ExtractDirectory(path, Backslash, TRUE) \o ExtractName(path, Backslash, TRUE) = FinalizePath(path, Backslash)
  /\ ExtractDirectory(path, Slash, TRUE) = <<>>
  /\ path # <<>> => Append(CurrentDirectory(path, FALSE), Backslash) = CurrentDirectory(path, TRUE)

\* Joining and normalizing keep the names of a path and their order; joining never doubles a
\* separator at the seam, and a normalized path has one kind of separator.
NamesKept(left, right, sep) ==
  /\ NamesIn(JoinPath(left, right, sep), {sep}) = NamesIn(left, {sep}) \o NamesIn(right, {sep})
  /\ Len(JoinPath(left, right, sep)) <= Len(left) + Len(right) + 1
  /\ NamesIn(NormalizePath(left, sep), {sep}) = NamesIn(left, Separators)
  /\ ToSet(NormalizePath(left, sep)) \intersect Separators \subseteq {sep}

\* A corrected name is valid and differs only where it has to.
CorrectionValid(name, replacement) ==
  LET new == CorrectFileName(name, replacement)
  IN /\ replacement \notin Forbidden => IsFileNameValid(new)
     /\ Len(new) = Len(name) /\ IsFileNameValid(name) => new = name

\* Paths compare as the system of their separator does: one compares without case, the
\* other with it, and two separators never; and equal paths have equal names.
EqualPathsAgree(left, right, Lower) ==
  /\ PathEquals(left, Slash, right, Slash, Lower) => PathEquals(left, Backslash, right, Backslash, Lower)
  /\ ~PathEquals(left, Slash, right, Backslash, Lower)
  /\ PathEquals(left, Slash, right, Slash, Lower) =>
       ExtractName(left, Backslash, TRUE) = ExtractName(right, Backslash, TRUE)
  /\ PathEquals(left, Backslash, right, Backslash, Lower) =>
       PathEquals(ExtractName(left, Backslash, TRUE), Backslash, ExtractName(right, Backslash, TRUE), Backslash, Lower)

\* The drive found is the one whose device is the first part of the path, not one whose
\* device's name only begins like it.
DriveOfDevice(path, drives, device) ==
  \A i \in DOMAIN drives :
    LET d == device[drives[i]]
    IN (IsPrefix(d, path) /\ Len(path) > Len(d) /\ path[Len(d) + 1] = Backslash)
         => \E j \in 1..i : FileNameFromHandle(path, drives, device)
                            = <<drives[j], ":">> \o From(path, Len(device[drives[j]]) + 1)
====
