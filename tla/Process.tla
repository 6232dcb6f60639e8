---- MODULE Process ----
(* vu::ProcessX, ProcessA and ProcessW: objects that keep a handle of a process *)
(* opened by pid, given by the program or made by create(). A handle value is   *)
(* free again once closed, so a stale one may come to name another process.     *)
EXTENDS Integers

CONSTANTS Pids, OwnPid,   \* processes, and the one the program is
          Wow64Pids,      \* 32-bit processes on the 64-bit system
          NoPid,          \* INVALID_PID_VALUE
          ProcessObjects,
          MaxHandles      \* bound on handles open at once

ASSUME ProcessAssumption ==
  OwnPid \in Pids /\ Wow64Pids \subseteq Pids /\ NoPid \notin Pids /\ MaxHandles \in Nat \ {0}

VARIABLES handles,      \* open handle -> what it names
          callerOwns,   \* handles the program holds and closes itself
          objects       \* object -> its fields, or Gone

processVars == <<handles, callerOwns, objects>>

NullHandle == 0
PseudoHandle == -1        \* INVALID_HANDLE_VALUE, which is also GetCurrentProcess()
Gone == [pid |-> NoPid, handle |-> NullHandle, bit |-> "x86", attached |-> FALSE, alive |-> FALSE]
Fresh == [Gone EXCEPT !.alive = TRUE]

Names(kind, p) == [kind |-> kind, pid |-> p]
FreeHandles == 1..MaxHandles \ DOMAIN handles
NewHandle == CHOOSE h \in FreeHandles : TRUE
With(open, h, what) == [g \in DOMAIN open \union {h} |-> IF g = h THEN what ELSE open[g]]
Without(open, h) == [g \in DOMAIN open \ {h} |-> open[g]]

\* GetProcessId, which the code compares with the pid that never comes back (-1, not 0).
PidOf(open, h) == IF h = PseudoHandle THEN OwnPid ELSE open[h].pid

\* parse: is_wow64 of the handle, on a 64-bit system.
Bit(p) == IF p \in Wow64Pids THEN "x86" ELSE "x64"

ProcessInit ==
  /\ handles = [h \in {} |-> Names("process", OwnPid)]
  /\ callerOwns = {}
  /\ objects = [o \in ProcessObjects |-> Gone]

Alive(o) == objects[o].alive

ConstructProcess(o) ==
  /\ ~Alive(o)
  /\ objects' = [objects EXCEPT ![o] = Fresh]
  /\ UNCHANGED <<handles, callerOwns>>

\* attach(handle) and parse(): the handle held before is forgotten, not closed.
Attached(o, open, h) ==
  objects' = [objects EXCEPT ![o] =
    [@ EXCEPT !.pid = PidOf(open, h), !.handle = h, !.attached = TRUE, !.bit = Bit(PidOf(open, h))]]

AttachHandle(o, h) ==
  /\ Alive(o) /\ h \in callerOwns \union {PseudoHandle}
  /\ h \in callerOwns => handles[h].kind = "process"
  /\ Attached(o, handles, h)
  /\ UNCHANGED <<handles, callerOwns>>

\* attach(pid): open() takes a handle, when the system has one to give.
AttachPid(o, p) ==
  /\ Alive(o) /\ FreeHandles # {}
  /\ handles' = With(handles, NewHandle, Names("process", p))
  /\ Attached(o, handles', NewHandle)
  /\ UNCHANGED callerOwns

\* create: CreateProcess gives a process and a thread handle, and hands both to a
\* program that asked for them; otherwise nobody closes the thread's.
CreateProcess(o, p, asked) ==
  /\ Alive(o) /\ FreeHandles # {} /\ FreeHandles \ {NewHandle} # {}
  /\ LET h == NewHandle t == CHOOSE g \in FreeHandles \ {h} : TRUE IN
     /\ handles' = With(With(handles, h, Names("process", p)), t, Names("thread", p))
     /\ callerOwns' = IF asked THEN callerOwns \union {h, t} ELSE callerOwns
     /\ Attached(o, handles', h)

\* execute_code_at throws without a process; the handle of the thread is never closed.
ExecuteCodeAt(o) ==
  /\ Alive(o) /\ objects[o].attached /\ FreeHandles # {}
  /\ handles' = With(handles, NewHandle, Names("thread", objects[o].pid))
  /\ UNCHANGED <<callerOwns, objects>>

\* detach: m_bit stays, and the handle becomes the pseudo handle, not null.
Detached(fields) == [fields EXCEPT !.attached = FALSE, !.pid = NoPid, !.handle = PseudoHandle]

DetachProcess(o) ==
  /\ Alive(o)
  /\ objects' = [objects EXCEPT ![o] = Detached(@)]
  /\ UNCHANGED <<handles, callerOwns>>

\* operator=: both objects hold the one handle from then on.
CopyProcess(o, right) ==
  /\ Alive(right)
  /\ objects' = [objects EXCEPT ![o] = objects[right]]
  /\ UNCHANGED <<handles, callerOwns>>

\* close(hp): CloseHandle of a pseudo handle does nothing, of a null one is not called.
HandlesWithout(open, h) == IF h \in DOMAIN open THEN Without(open, h) ELSE open

\* A destructor that closes whatever handle the object has.
DestroyCloses(o) ==
  /\ Alive(o)
  /\ handles' = HandlesWithout(handles, objects[o].handle)
  /\ callerOwns' = callerOwns \ {objects[o].handle}
  /\ objects' = [objects EXCEPT ![o] = Gone]

\* The destructor detaches an attached object, and closes the handle of one that is
\* not attached, which by then is null or the pseudo handle.
DestroyProcess(o) ==
  /\ Alive(o)
  /\ handles' = IF objects[o].attached THEN handles ELSE HandlesWithout(handles, objects[o].handle)
  /\ objects' = [objects EXCEPT ![o] = Gone]
  /\ UNCHANGED callerOwns

\* is_64bits(pid): a local object attaches, and is destroyed with the handle still open.
Is64Bits(p) ==
  /\ FreeHandles # {}
  /\ handles' = With(handles, NewHandle, Names("process", p))
  /\ UNCHANGED <<callerOwns, objects>>

\* The program opens a process itself, and closes only what no object of it uses.
CallerOpens(p) ==
  /\ FreeHandles # {}
  /\ handles' = With(handles, NewHandle, Names("process", p))
  /\ callerOwns' = callerOwns \union {NewHandle}
  /\ UNCHANGED objects

CallerCloses(h) ==
  /\ h \in callerOwns
  /\ \A o \in ProcessObjects : objects[o].handle # h
  /\ handles' = HandlesWithout(handles, h)
  /\ callerOwns' = callerOwns \ {h}
  /\ UNCHANGED objects

ProcessNext ==
  \/ \E o \in ProcessObjects :
       \/ ConstructProcess(o) \/ ExecuteCodeAt(o) \/ DetachProcess(o) \/ DestroyProcess(o)
       \/ \E h \in 1..MaxHandles \union {PseudoHandle} : AttachHandle(o, h)
       \/ \E p \in Pids : \/ AttachPid(o, p)
                          \/ \E asked \in BOOLEAN : CreateProcess(o, p, asked)
       \/ \E right \in ProcessObjects : CopyProcess(o, right)
  \/ \E p \in Pids : Is64Bits(p) \/ CallerOpens(p)
  \/ \E h \in 1..MaxHandles : CallerCloses(h)

ProcessSpec == ProcessInit /\ [][ProcessNext]_processVars

ProcessTypeOK ==
  /\ DOMAIN handles \subseteq 1..MaxHandles
  /\ \A h \in DOMAIN handles : handles[h] \in [kind : {"process", "thread"}, pid : Pids]
  /\ callerOwns \subseteq DOMAIN handles
  /\ objects \in [ProcessObjects -> [pid : Pids \union {NoPid}, bit : {"x86", "x64"},
                                     handle : -1..MaxHandles, attached : BOOLEAN, alive : BOOLEAN]]

\* What an attached object works on is the process it says: its handle is open and of
\* its pid, through copies that share the handle, destruction of any of them, handle values that
\* are reused once closed, and whoever opened the handle; its word size is the
\* process's.
AttachedHandleLive ==
  \A o \in ProcessObjects : objects[o].attached =>
    LET h == objects[o].handle IN
    /\ h # PseudoHandle => h \in DOMAIN handles /\ handles[h].kind = "process"
    /\ PidOf(handles, h) = objects[o].pid
    /\ objects[o].bit = Bit(objects[o].pid)
====
