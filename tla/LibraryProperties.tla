---- MODULE LibraryProperties ----
(* Properties of the wrappers that are about several of them, which share no state *)
(* but are used together by a program.                                             *)
EXTENDS GlobalLock, Singleton, RemoteMemory, DllInjection, MessageHooks, FileMapping, ScopedHandle

\* What is made on first use, a lock of an id or the object of a singleton, is made once
\* and is the same for every thread, unless threads used it for the first time together.
MadeOnceUnlessRaced == ExclusiveUnlessFirstsMeet /\ OneInstanceUnlessRaced

\* What is done to another process is undone: the protection of its pages after a forced
\* access, and the memory given to a loader thread, which is not freed while it reads.
RemoteRestored == ProtectionRestored /\ InjectionClean

\* An object or a table that holds system handles holds the ones it made: a mapping its own
\* file, map and view, the table of message hooks the hooks that are installed, and a scoped
\* handle the handle it was given unless that was copied.
HeldByItsOwn == MappingHoldsItsOwn /\ HooksTracked /\ ScopedHoldsItsOwn
====
