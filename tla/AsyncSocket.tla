---------------------------- MODULE AsyncSocket ----------------------------
(***************************************************************************)
(* vu::AsyncSocket (src/details/asyncsocket.cpp): the table of sockets and *)
(* event objects, the loop that polls it from a thread of its own, and the *)
(* thread that calls listen / connect, run, disconnect_connections, stop.  *)
(*                                                                         *)
(* Winsock is the environment: it records network events per socket, an    *)
(* event object is signalled while the socket it was selected for has      *)
(* something recorded, and enumerating the events takes them.  A handle    *)
(* that was closed may be handed out again by accept.  Handlers return and *)
(* touch nothing; what travels over a connection is left out.  The table   *)
(* m_connections lies right before m_events (Vutils.h:1461), so a write    *)
(* one slot past its end lands in m_events[0].                             *)
(***************************************************************************)
EXTENDS Naturals, FiniteSets, Sequences

CONSTANTS
  Sides,            \* the programs considered: TRUE binds and listens, FALSE connects
  MaxEvents,        \* WSA_MAXIMUM_WAIT_EVENTS
  Handles,          \* the socket handles accept can return
  Own,              \* the handle of m_socket
  NoSocket,         \* INVALID_SOCKET
  Events,           \* event objects
  NoEvent,          \* a null event
  MaxPeers,         \* bound: connections peers ask for
  MaxSends,         \* bound: times a peer sends
  MaxRuns,          \* bound: calls of run, each with a thread of its own
  MayFail,          \* network errors and connections given up before accept happen
  StopWhenRunning   \* the program calls stop only once running() was true

ASSUME AsyncSocketAssumption ==
  /\ MaxEvents \in Nat \ {0} /\ MaxPeers \in Nat /\ MaxSends \in Nat /\ MaxRuns \in Nat
  /\ Own \notin Handles /\ NoSocket \notin Handles \cup {Own} /\ NoEvent \notin Events
  /\ Sides \subseteq BOOLEAN /\ {MayFail, StopWhenRunning} \subseteq BOOLEAN
  /\ FALSE \in Sides => MaxRuns <= 1   \* a client is not opened again once closed

Sockets == Handles \cup {Own}
Slots == 0 .. MaxEvents - 1
Loops == 1 .. MaxRuns

VARIABLES
  server,                         \* m_socket.side() is SERVER
  running, n, conn, evt,          \* m_running, m_n_events, m_connections, m_events
  overrun,                        \* a slot past the end of the arrays was written
  mpc, pos, found, runs,          \* the controlling thread
  lpc, idx, cur, todo, kept,      \* the loop threads
  sock, assoc, rec, evOpen,       \* Winsock: sockets, their event object and record
  backlog, asked, sends, gone,    \* peers: waiting, bounds, closed by the peer
  cb                              \* history: callbacks seen by the connection on a handle

object == <<running, n, conn, evt, overrun>>
control == <<mpc, pos, found, runs>>
loops == <<lpc, idx, cur, todo, kept>>
winsock == <<sock, assoc, rec, evOpen>>
peers == <<backlog, asked, sends, gone>>
vars == <<server, object, control, loops, winsock, peers, cb>>

EmptyConn == [i \in Slots |-> NoSocket]
EmptyEvt == [i \in Slots |-> NoEvent]

Signalled(e) == \E s \in Sockets : sock[s] # "free" /\ assoc[s] = e /\ rec[s] # {}

Init ==
  /\ server \in Sides
  /\ running = FALSE /\ n = 0 /\ conn = EmptyConn /\ evt = EmptyEvt /\ overrun = FALSE
  /\ mpc = "new" /\ pos = 0 /\ found = {} /\ runs = 0
  /\ lpc = [l \in Loops |-> "off"] /\ idx = [l \in Loops |-> 0]
  /\ cur = [l \in Loops |-> NoSocket] /\ todo = [l \in Loops |-> {}]
  /\ kept = [l \in Loops |-> <<>>]
  /\ sock = [s \in Sockets |-> IF s = Own THEN "open" ELSE "free"]
  /\ assoc = [s \in Sockets |-> NoEvent] /\ rec = [s \in Sockets |-> {}]
  /\ evOpen = {}
  /\ backlog = 0 /\ asked = 0 /\ sends = 0 /\ gone = {}
  /\ cb = [s \in Sockets |-> "none"]

-----------------------------------------------------------------------------
(* Peers (environment). *)

PeerConnects ==
  /\ server /\ assoc[Own] # NoEvent /\ asked < MaxPeers
  /\ asked' = asked + 1 /\ backlog' = backlog + 1
  /\ rec' = [rec EXCEPT ![Own] = @ \cup {"ACCEPT"}]
  /\ UNCHANGED <<server, object, control, loops, sock, assoc, evOpen, sends, gone, cb>>

\* A peer gives up before accept: what was recorded stays.
PeerAborts ==
  /\ MayFail /\ backlog > 0
  /\ backlog' = backlog - 1
  /\ UNCHANGED <<server, object, control, loops, winsock, asked, sends, gone, cb>>

Connected(s) == sock[s] = "open" /\ (s = Own => ~server /\ assoc[Own] # NoEvent)

PeerSends(s) ==
  /\ Connected(s) /\ s \notin gone /\ sends < MaxSends
  /\ sends' = sends + 1
  /\ rec' = [rec EXCEPT ![s] = @ \cup {"READ"}]
  /\ UNCHANGED <<server, object, control, loops, sock, assoc, evOpen, backlog, asked, gone, cb>>

PeerCloses(s) ==
  /\ Connected(s) /\ s \notin gone
  /\ gone' = gone \cup {s}
  /\ rec' = [rec EXCEPT ![s] = @ \cup {"CLOSE"}]
  /\ UNCHANGED <<server, object, control, loops, sock, assoc, evOpen, backlog, asked, sends, cb>>

-----------------------------------------------------------------------------
(* The controlling thread. *)

\* listen, connect: initialze, then the own socket takes slot 0.
Open(e) ==
  /\ mpc = "new" /\ runs < MaxRuns /\ e \in Events \ evOpen
  /\ running' = FALSE
  /\ conn' = [EmptyConn EXCEPT ![0] = Own]
  /\ evt' = [EmptyEvt EXCEPT ![0] = e]
  /\ n' = 1
  /\ evOpen' = evOpen \cup {e}
  /\ assoc' = [assoc EXCEPT ![Own] = e]
  /\ rec' = [rec EXCEPT ![Own] = IF server THEN (IF backlog > 0 THEN {"ACCEPT"} ELSE {})
                                 ELSE {"CONNECT", "WRITE"}]
  /\ mpc' = "opened"
  /\ UNCHANGED <<server, overrun, pos, found, runs, loops, sock, peers, cb>>

\* connect refused by the other side: the table stays empty, the event is lost.
OpenRefused(e) ==
  /\ MayFail /\ ~server
  /\ mpc = "new" /\ runs < MaxRuns /\ e \in Events \ evOpen
  /\ running' = FALSE /\ conn' = EmptyConn /\ evt' = EmptyEvt /\ n' = 0
  /\ evOpen' = evOpen \cup {e}
  /\ UNCHANGED <<server, overrun, control, loops, sock, assoc, rec, peers, cb>>

\* run(true): CreateThread.
Run ==
  /\ mpc = "opened"
  /\ runs' = runs + 1
  /\ lpc' = [lpc EXCEPT ![runs + 1] = "enter"]
  /\ mpc' = "up"
  /\ UNCHANGED <<server, object, pos, found, idx, cur, todo, kept, winsock, peers, cb>>

\* stop: lower the flag, then disconnect_connections, which a program may also
\* call by itself.
Stop ==
  /\ mpc = "up" /\ (StopWhenRunning => running)
  /\ running' = FALSE
  /\ mpc' = "stopping" /\ pos' = 0 /\ found' = {}
  /\ UNCHANGED <<server, n, conn, evt, overrun, runs, loops, winsock, peers, cb>>

DisconnectConnections ==
  /\ mpc = "up"
  /\ mpc' = "dropping" /\ pos' = 0 /\ found' = {}
  /\ UNCHANGED <<server, object, runs, loops, winsock, peers, cb>>

\* get_connections reads the table slot by slot while a loop may be writing it.
ReadSlot ==
  /\ mpc \in {"stopping", "dropping"} /\ pos < MaxEvents
  /\ found' = IF conn[pos] = NoSocket \/ (server /\ conn[pos] = Own) THEN found
              ELSE found \cup {conn[pos]}
  /\ pos' = pos + 1
  /\ UNCHANGED <<server, object, mpc, runs, loops, winsock, peers, cb>>

CloseSocket(s) ==
  /\ sock' = [sock EXCEPT ![s] = "free"]
  /\ rec' = [rec EXCEPT ![s] = {}]
  /\ assoc' = [assoc EXCEPT ![s] = NoEvent]
  /\ gone' = gone \ {s}

\* Socket::disconnect on a handle found in the table; no callback, and the
\* entry stays in the table.
DisconnectFound(s) ==
  /\ mpc \in {"stopping", "dropping"} /\ pos = MaxEvents /\ s \in found
  /\ found' = found \ {s}
  /\ CloseSocket(s)
  /\ cb' = [cb EXCEPT ![s] = "cut"]
  /\ UNCHANGED <<server, object, mpc, pos, runs, loops, evOpen, backlog, asked, sends>>

ControlDone ==
  /\ mpc \in {"stopping", "dropping"} /\ pos = MaxEvents /\ found = {}
  /\ mpc' = IF mpc = "dropping" THEN "up" ELSE IF runs < MaxRuns THEN "new" ELSE "stopped"
  /\ pos' = 0
  /\ UNCHANGED <<server, object, found, runs, loops, winsock, peers, cb>>

-----------------------------------------------------------------------------
(* A loop thread: run_loop, loop and the handlers do_*. *)

Goto(l, p) == lpc' = [lpc EXCEPT ![l] = p]

\* if (m_running) return; the test and the assignment are two steps.
Enter(l) ==
  /\ lpc[l] = "enter"
  /\ Goto(l, IF running THEN "off" ELSE "raise")
  /\ UNCHANGED <<server, object, control, idx, cur, todo, kept, winsock, peers, cb>>

Raise(l) ==
  /\ lpc[l] = "raise"
  /\ running' = TRUE
  /\ Goto(l, "test")
  /\ UNCHANGED <<server, n, conn, evt, overrun, control, idx, cur, todo, kept, winsock, peers, cb>>

TestRunning(l) ==
  /\ lpc[l] = "test"
  /\ Goto(l, IF running THEN "wait" ELSE "off")
  /\ UNCHANGED <<server, object, control, idx, cur, todo, kept, winsock, peers, cb>>

\* WSAWaitForMultipleEvents over the first n events: it fails when there are
\* none or more than MaxEvents or one of them is no event, times out when none
\* is signalled, and else returns the lowest signalled slot.
Waitable == n \in 1 .. MaxEvents /\ \A i \in 0 .. n - 1 : evt[i] \in evOpen

Ready == {i \in 0 .. n - 1 : Waitable /\ Signalled(evt[i])}

WaitAny(l) ==
  /\ lpc[l] = "wait"
  /\ \/ Ready = {} /\ Goto(l, "test") /\ UNCHANGED idx
     \/ \E i \in Ready : /\ \A j \in Ready : i <= j
                         /\ Goto(l, "scan") /\ idx' = [idx EXCEPT ![l] = i]
  /\ UNCHANGED <<server, object, control, cur, todo, kept, winsock, peers, cb>>

\* The body of the for: skip a slot that is not signalled (or past the end of
\* the arrays), or enumerate and thereby take what is recorded for its socket.
Due(i) == i < MaxEvents /\ Signalled(evt[i])

SkipSlot(l) ==
  /\ lpc[l] = "scan" /\ idx[l] < n /\ ~Due(idx[l])
  /\ idx' = [idx EXCEPT ![l] = @ + 1]
  /\ UNCHANGED <<server, object, control, lpc, cur, todo, kept, winsock, peers, cb>>

TakeEvents(l) ==
  /\ lpc[l] = "scan" /\ idx[l] < n /\ Due(idx[l])
  /\ LET s == conn[idx[l]] IN
       /\ cur' = [cur EXCEPT ![l] = s]
       /\ todo' = [todo EXCEPT ![l] = IF s \in Sockets THEN rec[s] ELSE {}]
       /\ rec' = [x \in Sockets |-> IF x = s THEN {} ELSE rec[x]]
  /\ Goto(l, "dispatch")
  /\ UNCHANGED <<server, object, control, idx, kept, sock, assoc, evOpen, peers, cb>>

ScanDone(l) ==
  /\ lpc[l] = "scan" /\ idx[l] >= n
  /\ Goto(l, "test")
  /\ UNCHANGED <<server, object, control, idx, cur, todo, kept, winsock, peers, cb>>

NextSlot(l) ==
  /\ lpc[l] = "dispatch" /\ todo[l] = {}
  /\ idx' = [idx EXCEPT ![l] = @ + 1]
  /\ Goto(l, "scan")
  /\ UNCHANGED <<server, object, control, cur, todo, kept, winsock, peers, cb>>

\* Mutant of Rank: the close is handled before the data.
RankCloseFirst == [CLOSE |-> 1, CONNECT |-> 2, ACCEPT |-> 3, READ |-> 4, WRITE |-> 5]

\* The order in which loop tests the events of one socket.
Rank == [CONNECT |-> 1, ACCEPT |-> 2, READ |-> 3, WRITE |-> 4, CLOSE |-> 5]

Turn(l, f) ==
  /\ lpc[l] = "dispatch" /\ f \in todo[l]
  /\ \A g \in todo[l] : Rank[f] <= Rank[g]

\* Mutant of Handled: an else-if chain, one event of those taken is handled.
HandledOnly(l, f) == todo' = [todo EXCEPT ![l] = {}]

Handled(l, f) == todo' = [todo EXCEPT ![l] = @ \ {f}]

\* The error code of an event other than FD_CLOSE is set: the handler returns
\* it, loop breaks off, and run_loop ends without lowering m_running.
EventFails(l, f) ==
  /\ MayFail /\ Turn(l, f) /\ f # "CLOSE"
  /\ todo' = [todo EXCEPT ![l] = {}]
  /\ Goto(l, "off")
  /\ UNCHANGED <<server, object, control, idx, cur, kept, winsock, peers, cb>>

\* do_connect, do_recv, do_send: the callback, and nothing else.
CallBack(l, f) ==
  /\ f \in {"CONNECT", "READ", "WRITE"} /\ Turn(l, f) /\ Handled(l, f)
  /\ cb' = [cb EXCEPT ![cur[l]] = IF f = "CONNECT" THEN "live" ELSE @]
  /\ UNCHANGED <<server, object, control, lpc, idx, cur, kept, winsock, peers>>

TableFull == n > MaxEvents

\* The next slot takes a connection and its event.
Put(s, e) ==
  /\ conn' = IF n < MaxEvents THEN [conn EXCEPT ![n] = s] ELSE conn
  /\ evt' = IF n < MaxEvents THEN [evt EXCEPT ![n] = e] ELSE [evt EXCEPT ![0] = s]
  /\ overrun' = (overrun \/ n >= MaxEvents)
  /\ n' = n + 1

\* do_open on a connection that accept returns.
Accept(l, h, e) ==
  /\ backlog > 0 /\ sock[h] = "free" /\ Handled(l, "ACCEPT")
  /\ backlog' = backlog - 1
  /\ sock' = [sock EXCEPT ![h] = "open"]
  /\ assoc' = [assoc EXCEPT ![h] = e]
  /\ evOpen' = evOpen \cup {e}
  /\ rec' = [rec EXCEPT ![h] = {"WRITE"}, ![Own] = IF backlog > 1 THEN @ \cup {"ACCEPT"} ELSE @]
  /\ Put(h, e)
  /\ cb' = [cb EXCEPT ![h] = "live"]
  /\ UNCHANGED <<server, running, control, lpc, idx, cur, kept, asked, sends, gone>>

\* do_open when the peer has given up: accept returns INVALID_SOCKET, which is
\* entered in the table like any other.
AcceptNothing(l, e) ==
  /\ backlog = 0 /\ Handled(l, "ACCEPT")
  /\ evOpen' = evOpen \cup {e}
  /\ Put(NoSocket, e)
  /\ UNCHANGED <<server, running, control, lpc, idx, cur, kept, sock, assoc, rec, peers, cb>>

\* do_open with the table full: the connection is closed and the loop ends.
Refuse(l) ==
  /\ backlog' = IF backlog > 0 THEN backlog - 1 ELSE 0
  /\ todo' = [todo EXCEPT ![l] = {}]
  /\ Goto(l, "off")
  /\ UNCHANGED <<server, object, control, idx, cur, kept, winsock, asked, sends, gone, cb>>

DoOpen(l) ==
  /\ Turn(l, "ACCEPT")
  /\ IF TableFull THEN Refuse(l)
     ELSE \E e \in Events \ evOpen : AcceptNothing(l, e) \/ \E h \in Handles : Accept(l, h, e)

\* The pairs of the first slots, in order, without the empty ones and those of s.
KeptOf(s) ==
  LET keeps[i \in 0 .. MaxEvents] ==
        IF i = 0 THEN <<>>
        ELSE IF conn[i - 1] \in {NoSocket, s} THEN keeps[i - 1]
        ELSE Append(keeps[i - 1], <<conn[i - 1], evt[i - 1]>>)
  IN keeps

\* Mutants of Keeps: the first, the last slot is passed over.
KeepsAfterFirst(s) ==
  SubSeq(KeptOf(s)[MaxEvents], Len(KeptOf(s)[1]) + 1, Len(KeptOf(s)[MaxEvents]))
KeepsButLast(s) == KeptOf(s)[MaxEvents - 1]

\* do_close, first part: close the event of every slot that holds the handle,
\* keep the others aside in order, and clear the table.
Keeps(s) == KeptOf(s)[MaxEvents]

\* Mutant of BeginClose: m_n_events is not reset.
BeginCloseKeepsCount(l) ==
  /\ Turn(l, "CLOSE") /\ Handled(l, "CLOSE")
  /\ kept' = [kept EXCEPT ![l] = Keeps(cur[l])]
  /\ evOpen' = evOpen \ {evt[i] : i \in {j \in Slots : conn[j] = cur[l]}}
  /\ conn' = EmptyConn /\ evt' = EmptyEvt
  /\ Goto(l, "refill")
  /\ UNCHANGED <<server, running, n, overrun, control, idx, cur, sock, assoc, rec, peers, cb>>

BeginClose(l) ==
  /\ Turn(l, "CLOSE") /\ Handled(l, "CLOSE")
  /\ kept' = [kept EXCEPT ![l] = Keeps(cur[l])]
  /\ evOpen' = evOpen \ {evt[i] : i \in {j \in Slots : conn[j] = cur[l]}}
  /\ conn' = EmptyConn /\ evt' = EmptyEvt /\ n' = 0
  /\ Goto(l, "refill")
  /\ UNCHANGED <<server, running, overrun, control, idx, cur, sock, assoc, rec, peers, cb>>

\* Second part: put one kept pair back.
Refill(l) ==
  /\ lpc[l] = "refill" /\ kept[l] # <<>>
  /\ conn' = [conn EXCEPT ![n] = Head(kept[l])[1]]
  /\ evt' = [evt EXCEPT ![n] = Head(kept[l])[2]]
  /\ n' = n + 1
  /\ kept' = [kept EXCEPT ![l] = Tail(@)]
  /\ UNCHANGED <<server, running, overrun, control, lpc, idx, cur, todo, winsock, peers, cb>>

\* Third part: on_close, then the handle is closed.
EndClose(l) ==
  /\ lpc[l] = "refill" /\ kept[l] = <<>>
  /\ CloseSocket(cur[l])
  /\ cb' = [cb EXCEPT ![cur[l]] = "none"]
  /\ Goto(l, "dispatch")
  /\ UNCHANGED <<server, object, control, idx, cur, todo, kept, evOpen, backlog, asked, sends>>

-----------------------------------------------------------------------------
Deliver(l) ==
  \/ \E f \in DOMAIN Rank : EventFails(l, f) \/ CallBack(l, f)
  \/ DoOpen(l) \/ BeginClose(l) \/ Refill(l) \/ EndClose(l)

LoopStep(l) ==
  \/ Enter(l) \/ Raise(l) \/ TestRunning(l) \/ WaitAny(l)
  \/ SkipSlot(l) \/ TakeEvents(l) \/ ScanDone(l) \/ NextSlot(l)
  \/ Deliver(l)

ControlStep == ReadSlot \/ (\E s \in Sockets : DisconnectFound(s)) \/ ControlDone

Next ==
  \/ PeerConnects \/ PeerAborts \/ \E s \in Sockets : PeerSends(s) \/ PeerCloses(s)
  \/ \E e \in Events : Open(e) \/ OpenRefused(e)
  \/ Run \/ Stop \/ DisconnectConnections \/ ControlStep
  \/ \E l \in Loops : LoopStep(l)

Spec == Init /\ [][Next]_vars

\* Threads are scheduled; a call of stop or disconnect_connections goes on.
Fairness == WF_vars(ControlStep) /\ \A l \in Loops : WF_vars(LoopStep(l))

FairSpec == Spec /\ Fairness

-----------------------------------------------------------------------------
(* Properties. *)

Flags == DOMAIN Rank

\* Every variable has its type; the table fits its arrays.
TypeOK ==
  /\ server \in BOOLEAN
  /\ running \in BOOLEAN /\ overrun \in BOOLEAN /\ n \in 0 .. MaxEvents + 1
  /\ conn \in [Slots -> Sockets \cup {NoSocket}]
  /\ evt \in [Slots -> Events \cup {NoEvent} \cup Handles \cup {NoSocket}]
  /\ mpc \in {"new", "opened", "up", "stopping", "dropping", "stopped"}
  /\ pos \in 0 .. MaxEvents /\ found \subseteq Sockets /\ runs \in 0 .. MaxRuns
  /\ lpc \in [Loops -> {"off", "enter", "raise", "test", "wait", "scan", "dispatch", "refill"}]
  /\ idx \in [Loops -> 0 .. MaxEvents + 1]
  /\ cur \in [Loops -> Sockets \cup {NoSocket}]
  /\ todo \in [Loops -> SUBSET Flags]
  /\ kept \in [Loops -> Seq(Sockets \X Events)]
  /\ sock \in [Sockets -> {"free", "open"}]
  /\ assoc \in [Sockets -> Events \cup {NoEvent}]
  /\ rec \in [Sockets -> SUBSET Flags] /\ evOpen \subseteq Events
  /\ backlog \in 0 .. MaxPeers /\ asked \in 0 .. MaxPeers /\ sends \in 0 .. MaxSends
  /\ gone \subseteq Sockets
  /\ cb \in [Sockets -> {"none", "live", "cut"}]

\* The pairs in the table, and those set aside while do_close rebuilds it.
Listed == {<<conn[i], evt[i]>> : i \in {j \in Slots : j < n}}
            \cup UNION {{kept[l][i] : i \in DOMAIN kept[l]} : l \in Loops}

\* No connection falls out of the table, and sockets and events never get out
\* of step: each open connection is listed with the event that was selected
\* for it, and that event object is open -- or it is the one being closed.
LiveListed ==
  \A h \in Handles : sock[h] = "open" =>
    \/ <<h, assoc[h]>> \in Listed /\ assoc[h] \in evOpen
    \/ \E l \in Loops : lpc[l] = "refill" /\ cur[l] = h

\* The own socket keeps slot 0 for as long as the table is not being rebuilt:
\* a server stays reachable whatever its connections do.
ServerKeepsSlotZero ==
  server /\ mpc \in {"up", "stopping", "dropping"} /\ (\A l \in Loops : lpc[l] # "refill")
     => conn[0] = Own /\ evt[0] = assoc[Own] /\ evt[0] \in evOpen

\* Callbacks of one connection come in order: data and close are delivered only
\* after on_connect or on_open, and nothing after on_close, however often its
\* handle is used again (a connection the program closed under the loop, by stop
\* or disconnect_connections, may still see what had been taken for it).
CallbackOrder ==
  [][\A l \in Loops : \A f \in todo[l] \ todo'[l] :
       lpc'[l] # "off" /\ f \in {"READ", "WRITE", "CLOSE"} => cb[cur[l]] # "none"]_vars

\* Somebody is serving the table: the flag is up, and the loop has not ended on
\* a network error.
Serving == running /\ \E l \in Loops : lpc[l] # "off"

\* A peer that closes is noticed, whatever else the loop has to do: the handle is
\* closed, as long as the loop is served.
CloseNoticed ==
  \A h \in Handles : (sock[h] = "open" /\ h \in gone) ~> (sock[h] = "free" \/ ~Serving)

\* Every connection asked for is accepted, as long as the loop is served.
PeerAccepted == (Serving /\ backlog > 0) ~> (backlog = 0 \/ ~Serving)

\* "the thread will be closed after set `m_running = false` to exit looping"
\* (asyncsocket.cpp:115): a loop thread that was started before stop returned ends.
StopEndsLoop ==
  \A l \in Loops : (mpc \in {"new", "stopped"} /\ runs >= l) ~> (lpc[l] = "off")

\* "Too many connections" (asyncsocket.cpp:352): a connection that does not fit
\* is refused, and no slot past the arrays is written.
TableFits == ~overrun
=============================================================================
