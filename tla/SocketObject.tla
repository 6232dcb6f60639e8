---- MODULE SocketObject ----
(* vu::Socket: each object opens a descriptor and counts on Winsock being up;   *)
(* an attached one works on a descriptor of somebody else. Objects are passed   *)
(* by reference, as everywhere in the library; they are not copied.             *)
EXTENDS Integers, FiniteSets, FiniteSetsExt

CONSTANTS SocketObjects,
          Descriptors,      \* a set of numbers: the descriptors the system can give
          MaxSocketObjects  \* bound on the objects constructed in a behaviour

ASSUME SocketAssumption == Descriptors \subseteq Nat \ {0} /\ MaxSocketObjects \in Nat

VARIABLES winsockUps,   \* WSAStartup calls not yet answered by a WSACleanup
          constructed,
          descriptor,   \* open descriptor -> "fresh", "bound", "listening" or "connected"
          callerHas,    \* descriptors accept handed to the program, and it has not closed
          dropped,      \* descriptors whose last object forgot them without closing
          socketOf      \* object -> m_socket, m_attached, m_side, whether it lives

socketVars == <<winsockUps, constructed, descriptor, callerHas, dropped, socketOf>>

NoDescriptor == 0           \* INVALID_SOCKET
NoSocketObject == [alive |-> FALSE, socket |-> NoDescriptor, attached |-> FALSE, side |-> "undefined"]

SocketInit ==
  /\ winsockUps = 0
  /\ constructed = 0
  /\ descriptor = [d \in {} |-> "fresh"]
  /\ callerHas = {}
  /\ dropped = {}
  /\ socketOf = [o \in SocketObjects |-> NoSocketObject]

IsOpen(d) == d \in DOMAIN descriptor
WithDescriptor(table, d, state) == [e \in DOMAIN table \union {d} |-> IF e = d THEN state ELSE table[e]]
CanOpen == \E d \in Descriptors : ~IsOpen(d)
NextDescriptor == Min(Descriptors \ DOMAIN descriptor)
Available(o) == socketOf[o].alive /\ socketOf[o].socket # NoDescriptor
SetObject(o, fields) == socketOf' = [socketOf EXCEPT ![o] = fields]

\* The constructor: Winsock first, then a descriptor, or none when there is no more.
ConstructSocket(o) ==
  /\ ~socketOf[o].alive /\ constructed < MaxSocketObjects
  /\ constructed' = constructed + 1
  /\ winsockUps' = winsockUps + 1
  /\ \/ /\ CanOpen
        /\ descriptor' = WithDescriptor(descriptor, NextDescriptor, "fresh")
        /\ SetObject(o, [NoSocketObject EXCEPT !.alive = TRUE, !.socket = NextDescriptor])
     \/ /\ ~CanOpen
        /\ SetObject(o, [NoSocketObject EXCEPT !.alive = TRUE])
        /\ UNCHANGED descriptor
  /\ UNCHANGED <<callerHas, dropped>>

\* bind: the side is set once it worked; connect sets it whether it worked or not.
BindSocket(o) ==
  /\ Available(o)
  /\ \/ /\ IsOpen(socketOf[o].socket) /\ descriptor[socketOf[o].socket] = "fresh"
        /\ descriptor' = WithDescriptor(descriptor, socketOf[o].socket, "bound")
        /\ SetObject(o, [socketOf[o] EXCEPT !.side = "server"])
     \/ UNCHANGED <<descriptor, socketOf>>
  /\ UNCHANGED <<winsockUps, constructed, callerHas, dropped>>

ListenSocket(o) ==
  /\ Available(o) /\ IsOpen(socketOf[o].socket) /\ descriptor[socketOf[o].socket] = "bound"
  /\ descriptor' = WithDescriptor(descriptor, socketOf[o].socket, "listening")
  /\ UNCHANGED <<winsockUps, constructed, callerHas, dropped, socketOf>>

ConnectSocket(o) ==
  /\ socketOf[o].alive
  /\ SetObject(o, [socketOf[o] EXCEPT !.side = "client"])
  /\ \/ /\ IsOpen(socketOf[o].socket) /\ descriptor[socketOf[o].socket] = "fresh"
        /\ descriptor' = WithDescriptor(descriptor, socketOf[o].socket, "connected")
     \/ UNCHANGED descriptor
  /\ UNCHANGED <<winsockUps, constructed, callerHas, dropped>>

\* accept: the descriptor is the program's, no object holds it yet.
AcceptSocket(o) ==
  /\ Available(o) /\ IsOpen(socketOf[o].socket) /\ descriptor[socketOf[o].socket] = "listening"
  /\ CanOpen
  /\ descriptor' = WithDescriptor(descriptor, NextDescriptor, "connected")
  /\ callerHas' = callerHas \union {NextDescriptor}
  /\ UNCHANGED <<winsockUps, constructed, dropped, socketOf>>

\* An object that forgets its descriptor: a loss when no other object and not the program has it.
Forgotten(o) ==
  LET d == socketOf[o].socket IN
  IF IsOpen(d) /\ d \notin callerHas /\ \A p \in SocketObjects \ {o} : socketOf[p].socket # d
    THEN {d} ELSE {}

\* An attach that does not note that the descriptor is somebody else's.
AttachSocketUnmarked(o, d) ==
  /\ socketOf[o].alive /\ d \in callerHas
  /\ \A p \in SocketObjects \ {o} : socketOf[p].socket # d
  /\ SetObject(o, [socketOf[o] EXCEPT !.socket = d])
  /\ dropped' = dropped \union Forgotten(o)
  /\ UNCHANGED <<winsockUps, constructed, descriptor, callerHas>>

\* attach overwrites the descriptor the constructor opened. The program attaches one
\* object at a time: with two, one would close what the other still holds.
AttachSocket(o, d) ==
  /\ socketOf[o].alive /\ d \in callerHas
  /\ \A p \in SocketObjects \ {o} : socketOf[p].socket # d
  /\ SetObject(o, [socketOf[o] EXCEPT !.socket = d, !.attached = TRUE])
  /\ dropped' = dropped \union Forgotten(o)
  /\ UNCHANGED <<winsockUps, constructed, descriptor, callerHas>>

\* detach: m_attached stays up.
DetachSocket(o) ==
  /\ socketOf[o].alive
  /\ SetObject(o, [socketOf[o] EXCEPT !.socket = NoDescriptor])
  /\ dropped' = dropped \union Forgotten(o)
  /\ UNCHANGED <<winsockUps, constructed, descriptor, callerHas>>

ClosedTable(d) == [e \in DOMAIN descriptor \ {d} |-> descriptor[e]]

\* close and disconnect: a descriptor somebody else closed before stays in the object.
CloseSocketObject(o) ==
  LET d == socketOf[o].socket IN
  /\ Available(o) /\ IsOpen(d)
  /\ descriptor' = ClosedTable(d)
  /\ callerHas' = callerHas \ {d}
  /\ dropped' = dropped \ {d}
  /\ SetObject(o, [socketOf[o] EXCEPT !.socket = NoDescriptor])
  /\ UNCHANGED <<winsockUps, constructed>>

\* The destructor closes and gives Winsock back, and does neither once attached.
DestroySocket(o) ==
  LET d == socketOf[o].socket IN
  /\ socketOf[o].alive
  /\ SetObject(o, NoSocketObject)
  /\ \/ /\ socketOf[o].attached
        /\ dropped' = dropped \union Forgotten(o)
        /\ UNCHANGED <<winsockUps, descriptor, callerHas>>
     \/ /\ ~socketOf[o].attached
        /\ winsockUps' = winsockUps - 1
        /\ descriptor' = IF IsOpen(d) THEN ClosedTable(d) ELSE descriptor
        /\ UNCHANGED <<callerHas, dropped>>
  /\ UNCHANGED constructed

SocketNext == \E o \in SocketObjects :
  \/ ConstructSocket(o) \/ BindSocket(o) \/ ListenSocket(o) \/ ConnectSocket(o) \/ AcceptSocket(o)
  \/ DetachSocket(o) \/ CloseSocketObject(o) \/ DestroySocket(o)
  \/ \E d \in Descriptors : AttachSocket(o, d)

SocketSpec == SocketInit /\ [][SocketNext]_socketVars

SocketTypeOK ==
  /\ winsockUps \in 0..MaxSocketObjects /\ constructed \in 0..MaxSocketObjects
  /\ DOMAIN descriptor \subseteq Descriptors
  /\ \A d \in DOMAIN descriptor : descriptor[d] \in {"fresh", "bound", "listening", "connected"}
  /\ callerHas \subseteq DOMAIN descriptor /\ dropped \subseteq DOMAIN descriptor
  /\ socketOf \in [SocketObjects -> [alive : BOOLEAN, socket : Descriptors \union {NoDescriptor},
                                     attached : BOOLEAN, side : {"undefined", "server", "client"}]]

\* Winsock stays up as long as an object lives. An object that was never attached has a
\* descriptor of its own, open, which no destructor or close of another object can take
\* away; and a descriptor nobody can close any more was overwritten by an attach or
\* forgotten by a detach (one for every object that attaches after its constructor).
SocketsAccountedFor ==
  /\ winsockUps >= Cardinality({o \in SocketObjects : socketOf[o].alive})
  /\ \A o \in SocketObjects : Available(o) /\ ~socketOf[o].attached =>
       /\ IsOpen(socketOf[o].socket) /\ socketOf[o].socket \notin callerHas \union dropped
       /\ \A p \in SocketObjects \ {o} : socketOf[p].socket # socketOf[o].socket
  /\ DOMAIN descriptor = callerHas \union dropped
       \union {socketOf[o].socket : o \in {p \in SocketObjects : Available(p) /\ IsOpen(socketOf[p].socket)}}
====
