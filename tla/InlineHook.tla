---------------------------- MODULE InlineHook ----------------------------
(***************************************************************************)
(* INLHooking (src/details/apihookinl.cpp), 64-bit: attach copies the      *)
(* first instructions of a function into a trampoline, relocates their     *)
(* RIP-relative displacements, and writes a jump to the hook over them;    *)
(* detach copies them back.  A byte is a token that says where it belongs. *)
(* The program hooks a function once at a time, detaches what it attached, *)
(* and no thread runs the patched bytes meanwhile.                         *)
(***************************************************************************)
EXTENDS Integers, Sequences, FiniteSetsExt

CONSTANTS
  Layout,       \* function -> its instructions [len, disp]: disp is the place of
                \* a RIP-relative displacement in it, or 0; len 0 is undecodable
  Uses,         \* <<object, function>>: the functions the program hooks with an object
  TrampolineSlots, NoSlot,
  MaxAttach     \* bound: calls of attach

HookFunctions == DOMAIN Layout
HookObjects == {u[1] : u \in Uses}

MinHookSize == 14       \* MIN_HOOK_SIZE
JmpSize == 14           \* sizeof(RedirectInstruction), packed
DispSize == 4           \* a displacement is a ulong ...
WriteSize == 8          \* ... but is written as a ulongptr

VARIABLES code, slots, old, by, hooked, relocs, attaches

inlineVars == <<code, slots, old, by, hooked, relocs, attaches>>

-----------------------------------------------------------------------------
(* The instructions of a function. *)

Offset(f) ==
  LET at[k \in 1 .. Len(Layout[f]) + 1] == IF k = 1 THEN 0 ELSE at[k - 1] + Layout[f][k - 1].len
  IN  at

CodeSize(f) == Offset(f)[Len(Layout[f]) + 1]

\* The do-while stops after the first instruction that reaches MinHookSize.
TrampolineSize(f) ==
  Min({Offset(f)[k] : k \in {j \in DOMAIN Offset(f) : Offset(f)[j] >= MinHookSize}})

\* It ends before that at an instruction it does not know.
Decoded(f) ==
  {k \in DOMAIN Layout[f] :
     Offset(f)[k] < MinHookSize /\ \A j \in 1 .. k - 1 : Layout[f][j].len > 0}

Decodable(f) == \A k \in Decoded(f) : Layout[f][k].len > 0

HasDisp(f) == {k \in Decoded(f) : Layout[f][k].disp > 0}
Place(f, k) == [at |-> Offset(f)[k] + Layout[f][k].disp, of |-> f]

\* The places of the displacements of a function.
Relative(f) == {Place(f, k) : k \in HasDisp(f)}

\* get_assemble_instruction pushes them as it decodes.
Pushed(f) ==
  LET upTo[k \in 0 .. Len(Layout[f])] ==
        IF k = 0 THEN <<>>
        ELSE IF k \in HasDisp(f) THEN Append(upTo[k - 1], Place(f, k)) ELSE upTo[k - 1]
  IN  upTo[Len(Layout[f])]

Original(f) == [i \in 0 .. CodeSize(f) - 1 |-> <<f, i>>]

\* A function that is decoded to the end is as long as what is overwritten.
ASSUME InlineAssumption ==
  /\ \A f \in HookFunctions :
       /\ Layout[f] \in Seq([len : Nat, disp : Nat])
       /\ Decodable(f) => CodeSize(f) >= MinHookSize
  /\ Uses \subseteq HookObjects \X HookFunctions
  /\ NoSlot \notin TrampolineSlots /\ MaxAttach \in Nat

-----------------------------------------------------------------------------
InlineInit ==
  /\ code = [f \in HookFunctions |-> Original(f)]
  /\ slots = [s \in TrampolineSlots |-> <<>>]
  /\ old = [f \in HookFunctions |-> NoSlot] /\ by = [f \in HookFunctions |-> 0]
  /\ hooked = [o \in HookObjects |-> FALSE]
  /\ relocs = [o \in HookObjects |-> <<>>]
  /\ attaches = 0

\* The bytes after each place in the list was written, in its order: WriteSize
\* bytes, of which the first DispSize are the displacement.
Patched(bytes, list, low, high) ==
  [i \in DOMAIN bytes |->
     LET over == {k \in DOMAIN list : list[k].at <= i /\ i < list[k].at + WriteSize} IN
     IF over = {} THEN bytes[i]
     ELSE LET e == list[Max(over)] IN IF i < e.at + DispSize THEN <<low, e.of, i>> ELSE <<high>>]

\* Mutant of Known: get_assemble_instruction forgets to push what it found.
KnownNotPushed(o, f) == relocs[o]

\* m_memory_instructions after another function was decoded; it is never cleared.
Known(o, f) == relocs[o] \o Pushed(f)

\* A function that cannot be decoded, or no memory for the trampoline: false,
\* but the list has grown.
AttachFails(o, f) ==
  /\ <<o, f>> \in Uses /\ old[f] = NoSlot /\ attaches < MaxAttach
  /\ Decodable(f) => \A s \in TrampolineSlots : slots[s] # <<>>
  /\ attaches' = attaches + 1
  /\ relocs' = [relocs EXCEPT ![o] = Known(o, f)]
  /\ UNCHANGED <<code, slots, old, by, hooked>>

Attach(o, f, s) ==
  /\ <<o, f>> \in Uses /\ old[f] = NoSlot /\ attaches < MaxAttach
  /\ Decodable(f) /\ slots[s] = <<>>
  /\ LET size == TrampolineSize(f)
         head == [i \in 0 .. size - 1 |-> code[f][i]]
         body == Patched(head, Known(o, f), "rel", "over")
     IN slots' = [slots EXCEPT ![s] =
          [i \in 0 .. size + JmpSize - 1 |-> IF i < size THEN body[i] ELSE <<"jmp", f, i - size>>]]
  /\ code' = [code EXCEPT ![f] = [i \in DOMAIN @ |-> IF i < JmpSize THEN <<"hook", o, i>> ELSE @[i]]]
  /\ old' = [old EXCEPT ![f] = s] /\ by' = [by EXCEPT ![f] = o]
  /\ hooked' = [hooked EXCEPT ![o] = TRUE]
  /\ relocs' = [relocs EXCEPT ![o] = Known(o, f)]
  /\ attaches' = attaches + 1

\* Mutant of Detach: the displacements are not put back before the copy.
DetachNoFix(o, f) ==
  /\ hooked[o] /\ old[f] # NoSlot /\ by[f] = o
  /\ code' = [code EXCEPT ![f] =
       [i \in DOMAIN @ |-> IF i >= MinHookSize THEN @[i] ELSE slots[old[f]][i]]]
  /\ slots' = [slots EXCEPT ![old[f]] = <<>>]
  /\ old' = [old EXCEPT ![f] = NoSlot] /\ by' = [by EXCEPT ![f] = 0]
  /\ UNCHANGED <<hooked, relocs, attaches>>

\* Neither m_hooked nor the list is reset.
Detach(o, f) ==
  /\ hooked[o] /\ old[f] # NoSlot /\ by[f] = o
  /\ LET back == Patched(slots[old[f]], relocs[o], "disp", "zero")
     IN code' = [code EXCEPT ![f] =
          [i \in DOMAIN @ |->
             IF i >= MinHookSize THEN @[i]
             ELSE IF back[i] = <<"disp", f, i>> THEN <<f, i>> ELSE back[i]]]
  /\ slots' = [slots EXCEPT ![old[f]] = <<>>]
  /\ old' = [old EXCEPT ![f] = NoSlot] /\ by' = [by EXCEPT ![f] = 0]
  /\ UNCHANGED <<hooked, relocs, attaches>>

InlineNext ==
  \E o \in HookObjects, f \in HookFunctions :
    \/ AttachFails(o, f) \/ Detach(o, f)
    \/ \E s \in TrampolineSlots : Attach(o, f, s)

-----------------------------------------------------------------------------
(* Properties. *)

InlineTypeOK ==
  /\ old \in [HookFunctions -> TrampolineSlots \cup {NoSlot}]
  /\ by \in [HookFunctions -> HookObjects \cup {0}]
  /\ hooked \in [HookObjects -> BOOLEAN]
  /\ attaches \in 0 .. MaxAttach

\* Each byte of the trampoline: as in the function, except that displacements
\* are relocated, and then the jump back.
Relocated(f, i) ==
  IF i >= TrampolineSize(f) THEN <<"jmp", f, i - TrampolineSize(f)>>
  ELSE IF \E r \in Relative(f) : r.at <= i /\ i < r.at + DispSize THEN <<"rel", f, i>>
  ELSE <<f, i>>

\* "fix memory instruction" (apihookinl.cpp:232): whoever calls the old function
\* through its trampoline executes the instructions the function began with, and
\* goes on in the function behind the bytes that were overwritten.
TrampolineFaithful ==
  \A f \in HookFunctions : old[f] # NoSlot =>
    /\ \A i \in DOMAIN slots[old[f]] : slots[old[f]][i] = Relocated(f, i)
    /\ \A i \in TrampolineSize(f) .. CodeSize(f) - 1 : code[f][i] = <<f, i>>

\* When a function has no hook (never had one, or was detached), it is what it
\* was, to the last byte.
Unhooked == \A f \in HookFunctions : old[f] = NoSlot => code[f] = Original(f)
=============================================================================
