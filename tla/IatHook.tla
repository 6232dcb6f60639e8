------------------------------ MODULE IatHook ------------------------------
(***************************************************************************)
(* IATHooking (src/details/apihookiat.cpp): the entries of the hooks that  *)
(* are installed, and the import table of the module they are in.  install *)
(* writes the address of a replacement over the entry of an imported       *)
(* function, uninstall writes the original back.  Several hooks may share  *)
(* a replacement; a function that the module does not import is hooked     *)
(* without error.                                                          *)
(***************************************************************************)
EXTENDS Sequences, SequencesExt, Naturals

CONSTANTS
  Imports,        \* functions the module imports
  NotImported,    \* functions it does not
  Replacements,   \* addresses of hook functions
  Null,
  MaxInstalls     \* bound: calls of install

ASSUME IatAssumption == Null \notin Imports \cup Replacements /\ MaxInstalls \in Nat

IatFunctions == Imports \cup NotImported

VARIABLES
  table,          \* imported function -> address in its entry of the table
  entries,        \* m_iat_entry_list: sequence of [fun, original, replacement]
  installs

iatVars == <<table, entries, installs>>

\* A function's own address is named by the function.
IatInit ==
  /\ table = [f \in Imports |-> f] /\ entries = <<>> /\ installs = 0

IatFind(f) == {i \in DOMAIN entries : entries[i].fun = f}

\* iterate finds the entry of an imported function, and no other; its failure to
\* find one is not reported.
IatWrite(f, address) ==
  table' = IF f \in Imports /\ address # Null THEN [table EXCEPT ![f] = address] ELSE table

\* Mutant of Install: no test whether the function has an entry.
InstallAgain(f, r) ==
  /\ installs < MaxInstalls /\ installs' = installs + 1
  /\ IatWrite(f, r)
  /\ entries' = Append(entries,
       [fun |-> f, replacement |-> r, original |-> IF f \in Imports THEN table[f] ELSE Null])

Install(f, r) ==
  /\ installs < MaxInstalls /\ installs' = installs + 1
  /\ IF IatFind(f) # {}
     THEN UNCHANGED <<table, entries>>
     ELSE /\ IatWrite(f, r)
          /\ entries' = Append(entries,
               [fun |-> f, replacement |-> r, original |-> IF f \in Imports THEN table[f] ELSE Null])

\* The first entry of the function.
Uninstall(f) ==
  /\ IatFind(f) # {}
  /\ LET i == Min(IatFind(f)) IN
       /\ IatWrite(f, entries[i].original)
       /\ entries' = RemoveAt(entries, i)
  /\ UNCHANGED installs

IatNext ==
  \E f \in IatFunctions :
    \/ \E r \in Replacements \cup {Null} : Install(f, r)
    \/ Uninstall(f)

-----------------------------------------------------------------------------
(* Properties. *)

IatTypeOK ==
  /\ table \in [Imports -> Imports \cup Replacements]
  /\ \A i \in DOMAIN entries :
       entries[i] \in [fun : IatFunctions, original : Imports \cup Replacements \cup {Null},
                       replacement : Replacements \cup {Null}]
  /\ Len(entries) <= installs /\ installs \in 0 .. MaxInstalls

\* The table and the list agree: a function that has an entry leads to its
\* replacement and the entry remembers the function itself, and all others are
\* untouched, however often install and uninstall were called for it.
TableMatchesList ==
  \A f \in Imports :
    LET its == {entries[i] : i \in IatFind(f)} IN
    IF its = {} THEN table[f] = f
    ELSE \A e \in its : e.original = f /\ table[f] \in {f, e.replacement}
                     /\ (e.replacement # Null => table[f] = e.replacement)
=============================================================================
