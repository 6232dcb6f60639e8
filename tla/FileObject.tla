---- MODULE FileObject ----
(* vu::FileSystemX on one file: objects that open it with an access and a share  *)
(* mode, seek, read, write and close, the whole-file reads of read_as_buffer and  *)
(* quick_read_as_buffer, and Buffer::save_to_file. A crash ends a program with    *)
(* what it has written so far.                                                    *)
EXTENDS Integers, Sequences, FiniteSets, FiniteSetsExt, SequencesExt

CONSTANTS FileObjects,
          FileBytes,    \* values of a byte other than 0
          MaxFile       \* bound on the length of the file and on offsets

\* A saved buffer, of two bytes, is within the bound.
ASSUME FileAssumption == FileBytes \subseteq 1..255 /\ MaxFile \in Nat \ {0, 1}

VARIABLES file,         \* the bytes of the file, or NoFile
          fileObjects,  \* object -> its handle, and what it is in the middle of
          quickGot      \* object -> what its last quick read returned

fileVars == <<file, fileObjects, quickGot>>

NoFile == <<-1>>
NoBuffer == <<-1>>      \* nullptr
Read == "r"
Write == "w"
ClosedFile == [access |-> {}, share |-> {}, pos |-> 0, at |-> "idle", size |-> 0, seen |-> NoFile, save |-> <<>>]

FileInit ==
  /\ file = NoFile
  /\ fileObjects = [o \in FileObjects |-> ClosedFile]
  /\ quickGot = [o \in FileObjects |-> NoBuffer]

Ready(o) == fileObjects[o].access # {}
Idle(o) == fileObjects[o].at = "idle"
SetHandle(o, handle) == fileObjects' = [fileObjects EXCEPT ![o] = handle]

\* CreateFile: what is open allows the access asked, and the share mode what is open.
SharesFile(o, access, share) ==
  \A p \in FileObjects \ {o} : access \subseteq fileObjects[p].share \union (IF Ready(p) THEN {} ELSE access)
                               /\ fileObjects[p].access \subseteq share
Content(mode) ==
  CASE mode = "create_always" -> {<<>>}
    [] mode = "create_new"    -> IF file = NoFile THEN {<<>>} ELSE {}
    [] mode = "open_existing" -> {file} \ {NoFile}
    [] mode = "open_always"   -> {IF file = NoFile THEN <<>> ELSE file}
    [] mode = "truncate"      -> IF file = NoFile THEN {} ELSE {<<>>}
\* To empty a file is to write it.
Needs(mode) == IF mode \in {"create_always", "truncate"} THEN {Write} ELSE {}
Modes == {"create_always", "create_new", "open_existing", "open_always", "truncate"}

\* initialize, by a program that has the object closed; an error leaves it closed.
OpenAs(o, mode, access, share, at, save) ==
  /\ ~Ready(o) /\ Idle(o)
  /\ IF SharesFile(o, access \union Needs(mode), share) /\ Content(mode) # {}
     THEN \E content \in Content(mode) :
            /\ file' = content
            /\ SetHandle(o, [ClosedFile EXCEPT !.access = access, !.share = share, !.at = at, !.save = save,
                                         !.seen = IF at = "quick" THEN content ELSE NoFile])
     ELSE UNCHANGED <<file, fileObjects>>

InitializeFile(o) ==
  /\ \E mode \in Modes, access, share \in {{Read}, {Read, Write}} : OpenAs(o, mode, access, share, "idle", <<>>)
  /\ UNCHANGED quickGot

\* seek: from the beginning, the current place or the end; never before the beginning.
SeekTo(o, offset, from) ==
  CASE from = "begin"   -> offset
    [] from = "current" -> fileObjects[o].pos + offset
    [] from = "end"     -> Len(file) + offset
Seek(o, offset, from) ==
  /\ Ready(o) /\ Idle(o)
  /\ SeekTo(o, offset, from) \in 0..MaxFile
  /\ SetHandle(o, [fileObjects[o] EXCEPT !.pos = SeekTo(o, offset, from)])
  /\ UNCHANGED <<file, quickGot>>

\* read: as many bytes as there are from the place on; fewer than asked are a success too.
BytesLeft(place, size) == Max({0, Min({size, Len(file) - place})})
ReadSome(o, size) ==
  /\ Ready(o) /\ Idle(o) /\ Read \in fileObjects[o].access
  /\ SetHandle(o, [fileObjects[o] EXCEPT !.pos = @ + BytesLeft(@, size)])
  /\ UNCHANGED <<file, quickGot>>

\* WriteFile: a place past the end fills the file with zeros up to it.
Written(place, bytes) ==
  LET n == Max({Len(file), place + Len(bytes)})
  IN [i \in 1..n |-> IF i \in place + 1..place + Len(bytes) THEN bytes[i - place]
                     ELSE IF i <= Len(file) THEN file[i] ELSE 0]
WriteSome(o, bytes) ==
  /\ Ready(o) /\ Idle(o) /\ Write \in fileObjects[o].access
  /\ fileObjects[o].pos + Len(bytes) <= MaxFile
  /\ file' = Written(fileObjects[o].pos, bytes)
  /\ SetHandle(o, [fileObjects[o] EXCEPT !.pos = @ + Len(bytes)])
  /\ UNCHANGED quickGot

CloseFile(o) ==
  /\ Ready(o) /\ Idle(o)
  /\ SetHandle(o, ClosedFile)
  /\ UNCHANGED <<file, quickGot>>

\* quick_read_as_buffer with the share mode of the other constructors.
QuickOpenShared(o) ==
  /\ OpenAs(o, "open_existing", {Read}, {Read, Write}, "quick", <<>>)
  /\ quickGot' = [quickGot EXCEPT ![o] = NoBuffer]

\* quick_read_as_buffer opens for reading and shares reading only.
QuickOpen(o) ==
  /\ OpenAs(o, "open_existing", {Read}, {Read}, "quick", <<>>)
  /\ quickGot' = [quickGot EXCEPT ![o] = NoBuffer]

\* read_as_buffer: the size, and nothing to read when it is 0 ...
AskSize(o) ==
  /\ fileObjects[o].at = "quick"
  /\ IF file = <<>> THEN /\ SetHandle(o, ClosedFile)
                         /\ quickGot' = [quickGot EXCEPT ![o] = NoBuffer]
     ELSE /\ SetHandle(o, [fileObjects[o] EXCEPT !.at = "sized", !.size = Len(file)])
          /\ UNCHANGED quickGot
  /\ UNCHANGED file

\* ... then a zeroed buffer of that size, read from the beginning, its result not looked at.
ReadAll(o) ==
  /\ fileObjects[o].at = "sized"
  /\ LET n == fileObjects[o].size
         got == [i \in 1..n |-> IF i <= Len(file) THEN file[i] ELSE 0]
     IN quickGot' = [quickGot EXCEPT ![o] = got]
  /\ SetHandle(o, ClosedFile)
  /\ UNCHANGED file

\* save_to_file: create, write, close; others may come between where the share mode lets them.
SaveOpen(o, bytes) ==
  /\ OpenAs(o, "create_always", {Read, Write}, {Read, Write}, "save", bytes)
  /\ UNCHANGED quickGot
SaveWrite(o) ==
  /\ fileObjects[o].at = "save"
  /\ file' = Written(0, fileObjects[o].save)
  /\ SetHandle(o, [fileObjects[o] EXCEPT !.at = "saved"])
  /\ UNCHANGED quickGot
SaveClose(o) ==
  /\ fileObjects[o].at = "saved"
  /\ SetHandle(o, ClosedFile)
  /\ UNCHANGED <<file, quickGot>>

\* The end of the program, which closes its handles.
CrashProgram(o) ==
  /\ fileObjects[o].at # "idle"
  /\ SetHandle(o, ClosedFile)
  /\ UNCHANGED <<file, quickGot>>

FileNext == \E o \in FileObjects :
  \/ InitializeFile(o) \/ CloseFile(o) \/ QuickOpen(o) \/ AskSize(o) \/ ReadAll(o)
  \/ \E offset \in -1..MaxFile, from \in {"begin", "current", "end"} : Seek(o, offset, from)
  \/ \E size \in 1..MaxFile : ReadSome(o, size)
  \/ \E b \in FileBytes : WriteSome(o, <<b>>) \/ SaveOpen(o, <<b, b>>)
  \/ SaveWrite(o) \/ SaveClose(o) \/ CrashProgram(o)

FileSpec == FileInit /\ [][FileNext]_fileVars

FileTypeOK ==
  /\ file = NoFile \/ file \in UNION {[1..n -> FileBytes \union {0}] : n \in 0..MaxFile}
  /\ \A o \in FileObjects :
       /\ fileObjects[o].access \subseteq fileObjects[o].share \union {Read, Write}
       /\ fileObjects[o].pos \in 0..MaxFile
       /\ fileObjects[o].at \in {"idle", "quick", "sized", "save", "saved"}

\* A quick read returns the file as it was when it was opened, whole, although size and bytes
\* are two calls and other programs save, write and crash: never a half-saved file, a mix of
\* two, or bytes of neither.
QuickReadWhole ==
  [][\A o \in FileObjects :
       quickGot[o] = NoBuffer /\ quickGot'[o] # NoBuffer => quickGot'[o] = fileObjects[o].seen]_fileVars
====
