-------------------------- MODULE AsyncSocketProofs --------------------------
(***************************************************************************)
(* Theorems about AsyncSocket, for any number of slots, handles, events,   *)
(* peers and sends, with network errors and stops at any moment.  They     *)
(* hold for as long as the object serves its first run and has not been    *)
(* overrun; with fewer connections than slots it never is.                 *)
(***************************************************************************)
EXTENDS AsyncSocket, InductionLemmas

-----------------------------------------------------------------------------
(* The inductive invariant, in named parts. *)

\* The object is in its first run: listen or connect has not been called again.
FirstLife == runs = 0 \/ (runs = 1 /\ mpc # "opened")

\* Only the thread of that run is in the loop.
OneLoop ==
  /\ server \in Sides
  /\ mpc = "new" /\ runs = 0 => n = 0
  /\ mpc = "opened" => runs = 0 /\ runs < MaxRuns
  /\ mpc \in {"up", "stopping", "dropping", "stopped"} => runs # 0
  /\ \A l \in Loops : lpc[l] # "off" => l = 1 /\ runs # 0

\* While a loop is inside the body of its for, its index is a slot; the table is
\* set aside only while it is being rebuilt, and fits when it is put back.
CursorOf(l) ==
  /\ idx[l] <= MaxEvents
  /\ lpc[l] \in {"dispatch", "refill"} => idx[l] < MaxEvents
  /\ lpc[l] # "refill" => kept[l] = <<>>
  /\ lpc[l] = "refill" => cur[l] \in Sockets
  /\ todo[l] # {} => cur[l] \in Sockets
  /\ n + Len(kept[l]) <= MaxEvents
Cursor == n <= MaxEvents /\ backlog <= asked /\ \A l \in Loops : CursorOf(l)

\* Every slot in use has an open event of its own, in the table or set aside.
SlotsOwn ==
  /\ \A i \in Slots : i >= n => conn[i] = NoSocket
  /\ \A i \in Slots : i < n => evt[i] \in evOpen
  /\ \A i, j \in Slots : i < n /\ j < n /\ evt[i] = evt[j] => i = j
KeptOwn(q) ==
  \A k \in 1 .. Len(q) :
    /\ q[k] \in Sockets \X evOpen
    /\ \A i \in Slots : i < n => evt[i] # q[k][2]
    /\ \A m \in 1 .. Len(q) : q[k][2] = q[m][2] => k = m
EventsOwn == SlotsOwn /\ \A l \in Loops : KeptOwn(kept[l])

InTable(h) == \E i \in Slots : i < n /\ conn[i] = h /\ evt[i] = assoc[h]
SetAside(h) ==
  \E l \in Loops : \E k \in 1 .. Len(kept[l]) : kept[l][k] = <<h, assoc[h]>>
BeingClosed(h) == \E l \in Loops : lpc[l] = "refill" /\ cur[l] = h

\* Every open connection has its place, or is the one being closed.
Placed ==
  \A h \in Handles : sock[h] = "open" => InTable(h) \/ SetAside(h) \/ BeingClosed(h)

\* A server's own socket is first, and nothing it is told can close it.
OwnPlace ==
  runs # 0 \/ mpc = "opened" =>
    /\ n > 0 => conn[0] = Own /\ evt[0] = assoc[Own]
    /\ n = 0 => \E l \in Loops : Len(kept[l]) > 0 /\ kept[l][1] = <<Own, assoc[Own]>>
OwnTold ==
  /\ rec[Own] \subseteq {"ACCEPT"} /\ Own \notin found
  /\ \A l \in Loops : cur[l] = Own => todo[l] \subseteq {"ACCEPT"} /\ lpc[l] # "refill"
OwnFirst == server => OwnPlace /\ OwnTold

Sound == TypeOK /\ OneLoop /\ Cursor /\ EventsOwn /\ Placed /\ OwnFirst

SoundInFirstLife == FirstLife /\ ~overrun => Sound

-----------------------------------------------------------------------------
(* Why fewer connections than slots always fit. *)

Told(b) == IF b THEN 1 ELSE 0
Tokens(l) == Told("ACCEPT" \in rec[Own]) + Told("ACCEPT" \in todo[l])

\* Only the own socket is told of a connection, and no more often than peers
\* asked for one.
WithinAsked(l) ==
  /\ n + Len(kept[l]) + Tokens(l) <= asked + 1
  /\ n + Len(kept[l]) + backlog <= asked + 1
AcceptsBounded ==
  /\ \A h \in Handles : "ACCEPT" \notin rec[h]
  /\ \A l \in Loops : "ACCEPT" \in todo[l] => lpc[l] = "dispatch"
  /\ \A l \in Loops : WithinAsked(l)
FitsInFirstLife == MaxPeers < MaxEvents /\ FirstLife => ~overrun /\ AcceptsBounded

-----------------------------------------------------------------------------
(* Callbacks. *)
LoopOver == runs # 0 /\ \A l \in Loops : lpc[l] = "off"
Later == {"READ", "WRITE", "CLOSE"}

Announced(s) ==
  \/ cb[s] # "none" \/ "CONNECT" \in rec[s]
  \/ \E l \in Loops : lpc[l] = "dispatch" /\ cur[l] = s /\ "CONNECT" \in todo[l]
  \/ LoopOver

\* Events are taken for a connection that has been announced, or is about to be;
\* a closed handle and a socket that was not selected for events are told nothing.
OpenIsLive == \A h \in Handles : sock[h] = "open" => cb[h] = "live"
ClientAnnounced == ~server /\ assoc[Own] # NoEvent => Announced(Own)
OwnOpen == server \/ runs = 0 => sock[Own] = "open"
OpenIsTold ==
  \A s \in Sockets : rec[s] # {} => sock[s] = "open" /\ (s = Own => assoc[Own] # NoEvent)
AcceptsServed ==
  /\ \A s \in Sockets : "ACCEPT" \in rec[s] => server
  /\ \A l \in Loops : "ACCEPT" \in todo[l] => server
TakenAnnounced ==
  \A l \in Loops :
    /\ todo[l] # {} => lpc[l] = "dispatch"
    /\ todo[l] \cap Later # {} => cb[cur[l]] # "none" \/ "CONNECT" \in todo[l]
CallbacksReady ==
  OpenIsLive /\ ClientAnnounced /\ OwnOpen /\ OpenIsTold /\ AcceptsServed /\ TakenAnnounced
ReadyInFirstLife == FirstLife /\ ~overrun => CallbacksReady

-----------------------------------------------------------------------------
(* What do_close keeps aside. *)

Pairs == Sockets \X (Events \cup {NoEvent} \cup Handles \cup {NoSocket})

LEMMA KeptOfRecursive ==
  ASSUME TypeOK, NEW s
  PROVE  /\ KeptOf(s) \in [0 .. MaxEvents -> Seq(Pairs)]
         /\ KeptOf(s)[0] = <<>>
         /\ \A i \in 1 .. MaxEvents :
              KeptOf(s)[i] = IF conn[i - 1] \in {NoSocket, s} THEN KeptOf(s)[i - 1]
                             ELSE Append(KeptOf(s)[i - 1], <<conn[i - 1], evt[i - 1]>>)
<1> DEFINE A == Seq(Pairs)
           none == <<>>
           Turn1(i, q) == IF conn[i - 1] \in {NoSocket, s} THEN q
                          ELSE Append(q, <<conn[i - 1], evt[i - 1]>>)
           step == [p \in (1 .. MaxEvents) \X A |-> Turn1(p[1], p[2])]
           body(f) == [i \in 0 .. MaxEvents |-> IF i = 0 THEN none ELSE Turn1(i, f[i - 1])]
           k == KeptOf(s)
<1>1. MaxEvents \in Nat /\ none \in A
  BY AsyncSocketAssumption
<1>2. \A i \in 1 .. MaxEvents, q \in A : Turn1(i, q) \in A
  <2> TAKE i \in 1 .. MaxEvents, q \in A
  <2>1. CASE conn[i - 1] \in {NoSocket, s}
    BY <2>1
  <2>2. CASE conn[i - 1] \notin {NoSocket, s}
    <3>1. <<conn[i - 1], evt[i - 1]>> \in Pairs
      BY <2>2, AsyncSocketAssumption DEF TypeOK, Pairs, Slots
    <3> QED
      BY <2>2, <3>1
  <2> QED
    BY <2>1, <2>2
<1>3. (\E g : g = body(g)) => k = body(k)
  BY Zenon DEF KeptOf
<1>4. \A q : \A i \in 1 .. MaxEvents :
        Turn1(i, q) = IF conn[i - 1] \in {NoSocket, s} THEN q
                      ELSE Append(q, <<conn[i - 1], evt[i - 1]>>)
  BY Zenon
<1> HIDE DEF A, none, Turn1, k
<1>5. step \in [(1 .. MaxEvents) \X A -> A]
  BY <1>2
<1>6. PICK f \in [0 .. MaxEvents -> A] :
        f[0] = none /\ \A i \in 1 .. MaxEvents : f[i] = step[<<i, f[i - 1]>>]
  <2> HIDE DEF step
  <2>1. \E f : f \in Recursion(MaxEvents, A, none, step)
    BY <1>1, <1>5, IntervalRecursion
  <2> QED
    BY <2>1, Zenon DEF Recursion
<1>7. \A i \in 1 .. MaxEvents : f[i] = Turn1(i, f[i - 1])
  <2> TAKE i \in 1 .. MaxEvents
  <2>1. f[i - 1] \in A
    BY <1>1
  <2> QED
    BY <1>6, <2>1
<1>8. f = body(f)
  BY <1>1, <1>6, <1>7
<1>9. k = body(k)
  <2>1. \E g : g = body(g)
    BY <1>8, Zenon
  <2> QED
    BY <1>3, <2>1, Zenon
<1>10. k[0] = none /\ \A i \in 1 .. MaxEvents : k[i] = Turn1(i, k[i - 1])
  BY <1>1, <1>9
<1> DEFINE T == {i \in 0 .. MaxEvents : k[i] \in A}
<1>11. 0 \in T
  BY <1>1, <1>10
<1>12. ASSUME NEW i \in 0 .. (MaxEvents - 1), i \in T
       PROVE  i + 1 \in T
  <2>1. i + 1 \in 1 .. MaxEvents /\ (i + 1) - 1 = i
    BY <1>1
  <2> QED
    BY <1>2, <1>10, <1>12, <2>1
<1>13. \A i \in 0 .. MaxEvents : i \in T
  <2> HIDE DEF T
  <2>1. MaxEvents \in Nat
    BY <1>1
  <2> QED
    BY <1>11, <1>12, <2>1, IntervalInduction
<1>14. k \in [0 .. MaxEvents -> A]
  BY <1>9, <1>13
<1>15. \A i \in 1 .. MaxEvents :
         k[i] = IF conn[i - 1] \in {NoSocket, s} THEN k[i - 1]
                ELSE Append(k[i - 1], <<conn[i - 1], evt[i - 1]>>)
  BY <1>4, <1>10, Zenon
<1> QED
  BY <1>10, <1>14, <1>15 DEF k, A, none

Used(s, j) == conn[j] \notin {NoSocket, s}

\* What q, kept from the slots before i, says of them.
KeptBefore(s, i, q) ==
  /\ Len(q) <= i /\ Len(q) <= n
  /\ \A k \in 1 .. Len(q) : \E j \in 0 .. i - 1 : Used(s, j) /\ q[k] = <<conn[j], evt[j]>>
  /\ \A j \in 0 .. i - 1 : Used(s, j) => \E k \in 1 .. Len(q) : q[k] = <<conn[j], evt[j]>>
  /\ \A k, m \in 1 .. Len(q) : q[k][2] = q[m][2] => k = m
  /\ i > 0 /\ Used(s, 0) => Len(q) > 0 /\ q[1] = <<conn[0], evt[0]>>

\* The pairs kept are those of the slots in use by others, each once, the first
\* first.
LEMMA KeepsTheOthers ==
  ASSUME TypeOK, EventsOwn, NEW s
  PROVE  Keeps(s) \in Seq(Pairs) /\ KeptBefore(s, MaxEvents, Keeps(s))
<1> DEFINE q(i) == KeptOf(s)[i]
           T == {i \in 0 .. MaxEvents : KeptBefore(s, i, q(i))}
<1>1. MaxEvents \in Nat /\ n \in Nat
  BY AsyncSocketAssumption DEF TypeOK
<1>2. /\ \A i \in 0 .. MaxEvents : q(i) \in Seq(Pairs)
      /\ q(0) = <<>>
      /\ \A i \in 1 .. MaxEvents :
           q(i) = IF conn[i - 1] \in {NoSocket, s} THEN q(i - 1)
                  ELSE Append(q(i - 1), <<conn[i - 1], evt[i - 1]>>)
  <2>1. KeptOf(s) \in [0 .. MaxEvents -> Seq(Pairs)]
    BY KeptOfRecursive, Zenon
  <2>2. \A i \in 0 .. MaxEvents : q(i) \in Seq(Pairs)
    BY <2>1
  <2> QED
    BY <2>2, KeptOfRecursive, Zenon
<1>3. \A j \in Slots : conn[j] # NoSocket => j < n
  BY DEF EventsOwn, SlotsOwn, TypeOK, Slots
<1>4. 0 \in T
  BY <1>1, <1>2 DEF KeptBefore
<1>5. ASSUME NEW i \in 0 .. (MaxEvents - 1), i \in T
      PROVE  i + 1 \in T
  <2>1. i + 1 \in 1 .. MaxEvents /\ (i + 1) - 1 = i /\ i \in Slots /\ i \in Nat
    BY <1>1 DEF Slots
  <2>2. /\ KeptBefore(s, i, q(i)) /\ q(i) \in Seq(Pairs)
        /\ q(i + 1) = IF conn[i] \in {NoSocket, s} THEN q(i)
                      ELSE Append(q(i), <<conn[i], evt[i]>>)
    BY <1>2, <1>5, <2>1
  <2> HIDE DEF q
  <2>3. CASE conn[i] \in {NoSocket, s}
    <3>1. q(i + 1) = q(i) /\ ~Used(s, i)
      BY <2>2, <2>3 DEF Used
    <3>2. Len(q(i)) <= i + 1 /\ Len(q(i)) <= n
      BY <2>1, <2>2 DEF KeptBefore
    <3>3. \A k \in 1 .. Len(q(i)) :
            \E j \in 0 .. i : Used(s, j) /\ q(i)[k] = <<conn[j], evt[j]>>
      <4> TAKE k \in 1 .. Len(q(i))
      <4>1. PICK j \in 0 .. i - 1 : Used(s, j) /\ q(i)[k] = <<conn[j], evt[j]>>
        BY <2>2 DEF KeptBefore
      <4> QED
        BY <2>1, <4>1
    <3>4. \A j \in 0 .. i : Used(s, j) =>
            j \in 0 .. i - 1 /\ \E k \in 1 .. Len(q(i)) : q(i)[k] = <<conn[j], evt[j]>>
      <4> TAKE j \in 0 .. i
      <4> HAVE Used(s, j)
      <4>1. j \in 0 .. i - 1
        BY <2>1, <3>1
      <4> QED
        BY <2>2, <4>1 DEF KeptBefore
    <3>5. Used(s, 0) => Len(q(i)) > 0 /\ q(i)[1] = <<conn[0], evt[0]>>
      <4>1. Used(s, 0) => i > 0
        BY <2>1, <3>1
      <4> QED
        BY <2>2, <4>1 DEF KeptBefore
    <3>6. KeptBefore(s, i + 1, q(i))
      <4>1. \A k, m \in 1 .. Len(q(i)) : q(i)[k][2] = q(i)[m][2] => k = m
        BY <2>2 DEF KeptBefore
      <4> QED
        BY <2>1, <3>2, <3>3, <3>4, <3>5, <4>1 DEF KeptBefore
    <3> QED
      BY <2>1, <3>1, <3>6
  <2>4. CASE conn[i] \notin {NoSocket, s}
    <3> DEFINE e == <<conn[i], evt[i]>>
               r == Append(q(i), e)
    <3>1. /\ q(i + 1) = r /\ Len(r) = Len(q(i)) + 1 /\ r[Len(q(i)) + 1] = e
          /\ Len(q(i)) \in Nat
          /\ \A k \in 1 .. Len(q(i)) : r[k] = q(i)[k]
      BY <2>2, <2>4
    <3>2. i < n /\ Used(s, i)
      BY <1>3, <2>1, <2>4 DEF Used
    <3> HIDE DEF r
    <3>3. Len(r) <= i + 1 /\ Len(r) <= n
      BY <1>1, <2>1, <2>2, <3>1, <3>2 DEF KeptBefore
    <3>4. \A k \in 1 .. Len(r) :
            \E j \in 0 .. i : Used(s, j) /\ r[k] = <<conn[j], evt[j]>>
      <4> TAKE k \in 1 .. Len(r)
      <4>1. CASE k = Len(q(i)) + 1
        BY <2>1, <3>1, <3>2, <4>1
      <4>2. CASE k \in 1 .. Len(q(i))
        <5>1. PICK j \in 0 .. i - 1 : Used(s, j) /\ q(i)[k] = <<conn[j], evt[j]>>
          BY <2>2, <4>2 DEF KeptBefore
        <5> QED
          BY <2>1, <3>1, <4>2, <5>1
      <4> QED
        BY <3>1, <4>1, <4>2
    <3>5. \A j \in 0 .. i : Used(s, j) => \E k \in 1 .. Len(r) : r[k] = <<conn[j], evt[j]>>
      <4> TAKE j \in 0 .. i
      <4> HAVE Used(s, j)
      <4>1. CASE j = i
        BY <3>1, <4>1
      <4>2. CASE j \in 0 .. i - 1
        <5>1. PICK k \in 1 .. Len(q(i)) : q(i)[k] = <<conn[j], evt[j]>>
          BY <2>2, <4>2 DEF KeptBefore
        <5> QED
          BY <3>1, <5>1
      <4> QED
        BY <2>1, <4>1, <4>2
    <3>6. \A k \in 1 .. Len(q(i)) : q(i)[k][2] # evt[i]
      <4> TAKE k \in 1 .. Len(q(i))
      <4>1. PICK j \in 0 .. i - 1 : Used(s, j) /\ q(i)[k] = <<conn[j], evt[j]>>
        BY <2>2 DEF KeptBefore
      <4>2. j \in Slots /\ j < n /\ j # i
        BY <1>1, <1>3, <2>1, <4>1 DEF Used, Slots
      <4> QED
        BY <2>1, <3>2, <4>1, <4>2 DEF EventsOwn, SlotsOwn
    <3>7. \A k, m \in 1 .. Len(r) : r[k][2] = r[m][2] => k = m
      <4> TAKE k, m \in 1 .. Len(r)
      <4> HAVE r[k][2] = r[m][2]
      <4>1. CASE k \in 1 .. Len(q(i)) /\ m \in 1 .. Len(q(i))
        BY <2>2, <3>1, <4>1 DEF KeptBefore
      <4>2. CASE k = Len(q(i)) + 1 /\ m \in 1 .. Len(q(i))
        BY <3>1, <3>6, <4>2
      <4>3. CASE m = Len(q(i)) + 1 /\ k \in 1 .. Len(q(i))
        BY <3>1, <3>6, <4>3
      <4>4. CASE k = m
        BY <4>4
      <4> QED
        BY <3>1, <4>1, <4>2, <4>3, <4>4
    <3>8. Used(s, 0) => Len(r) > 0 /\ r[1] = <<conn[0], evt[0]>>
      <4>1. CASE i = 0
        <5>1. Len(q(i)) = 0
          BY <2>2, <3>1, <4>1 DEF KeptBefore
        <5> QED
          BY <3>1, <4>1, <5>1
      <4>2. CASE i > 0
        <5>1. Used(s, 0) => Len(q(i)) > 0 /\ q(i)[1] = <<conn[0], evt[0]>>
          BY <2>2, <4>2 DEF KeptBefore
        <5> QED
          BY <3>1, <5>1
      <4> QED
        BY <2>1, <4>1, <4>2
    <3>9. KeptBefore(s, i + 1, r)
      BY <2>1, <3>3, <3>4, <3>5, <3>7, <3>8 DEF KeptBefore
    <3> QED
      BY <2>1, <3>1, <3>9
  <2> QED
    BY <2>3, <2>4
<1>6. \A i \in 0 .. MaxEvents : i \in T
  <2> HIDE DEF T
  <2>1. MaxEvents \in Nat
    BY <1>1
  <2> QED
    BY <1>4, <1>5, <2>1, IntervalInduction
<1>7. MaxEvents \in 0 .. MaxEvents
  BY <1>1
<1> QED
  BY <1>2, <1>6, <1>7 DEF Keeps

-----------------------------------------------------------------------------
(* The invariant is kept by every step that stays in the first run. *)

FirstStep == FirstLife /\ FirstLife' /\ ~overrun /\ ~overrun'

\* While one loop is at work, nothing is set aside by another.
LEMMA Alone ==
  ASSUME Sound, NEW l \in Loops, lpc[l] # "off"
  PROVE  /\ l = 1 /\ runs # 0
         /\ \A m \in Loops : m # l => lpc[m] = "off" /\ kept[m] = <<>>
         /\ lpc[l] # "refill" => \A m \in Loops : kept[m] = <<>>
  BY DEF Sound, OneLoop, Cursor, CursorOf

\* What is set aside are sockets with event objects.
LEMMA KeptPairs ==
  ASSUME TypeOK, EventsOwn, NEW s
  PROVE  Keeps(s) \in Seq(Sockets \X Events)
<1> DEFINE q == Keeps(s)
<1>1. q \in Seq(Pairs) /\ KeptBefore(s, MaxEvents, q)
  BY KeepsTheOthers
<1> HIDE DEF q
<1>2. ASSUME NEW k \in 1 .. Len(q) PROVE q[k] \in Sockets \X Events
  <2>1. PICK j \in 0 .. MaxEvents - 1 : Used(s, j) /\ q[k] = <<conn[j], evt[j]>>
    BY <1>1, <1>2 DEF KeptBefore
  <2>2. j \in Slots /\ conn[j] \in Sockets /\ j < n
    BY <2>1, AsyncSocketAssumption DEF Used, Slots, TypeOK, EventsOwn, SlotsOwn
  <2>3. evt[j] \in Events
    BY <2>2 DEF EventsOwn, SlotsOwn, TypeOK
  <2> QED
    BY <2>1, <2>2, <2>3
<1>3. q \in [1 .. Len(q) -> Sockets \X Events] /\ Len(q) \in Nat
  BY <1>1, <1>2
<1> QED
  BY <1>3 DEF q

\* The type invariant, by the groups of variables that steps leave alone.
ObjectTypes ==
  /\ running \in BOOLEAN /\ overrun \in BOOLEAN /\ n \in 0 .. MaxEvents + 1
  /\ conn \in [Slots -> Sockets \cup {NoSocket}]
  /\ evt \in [Slots -> Events \cup {NoEvent} \cup Handles \cup {NoSocket}]
ControlTypes ==
  /\ mpc \in {"new", "opened", "up", "stopping", "dropping", "stopped"}
  /\ pos \in 0 .. MaxEvents /\ found \subseteq Sockets /\ runs \in 0 .. MaxRuns
LoopTypes ==
  /\ lpc \in [Loops -> {"off", "enter", "raise", "test", "wait", "scan", "dispatch", "refill"}]
  /\ idx \in [Loops -> 0 .. MaxEvents + 1]
  /\ cur \in [Loops -> Sockets \cup {NoSocket}]
  /\ todo \in [Loops -> SUBSET Flags]
  /\ kept \in [Loops -> Seq(Sockets \X Events)]
WinsockTypes ==
  /\ sock \in [Sockets -> {"free", "open"}]
  /\ assoc \in [Sockets -> Events \cup {NoEvent}]
  /\ rec \in [Sockets -> SUBSET Flags] /\ evOpen \subseteq Events
PeerTypes ==
  /\ backlog \in 0 .. MaxPeers /\ asked \in 0 .. MaxPeers /\ sends \in 0 .. MaxSends
  /\ gone \subseteq Sockets
CallbackTypes == cb \in [Sockets -> {"none", "live", "cut"}]

LEMMA TypeParts ==
  TypeOK <=> /\ server \in BOOLEAN
             /\ ObjectTypes /\ ControlTypes /\ LoopTypes /\ WinsockTypes /\ PeerTypes
             /\ CallbackTypes
  BY Zenon DEF TypeOK, ObjectTypes, ControlTypes, LoopTypes, WinsockTypes, PeerTypes, CallbackTypes

LEMMA TypePartsNext ==
  /\ server' \in BOOLEAN
  /\ ObjectTypes' /\ ControlTypes' /\ LoopTypes' /\ WinsockTypes' /\ PeerTypes'
  /\ CallbackTypes'
  => TypeOK'
  BY Zenon DEF TypeOK, ObjectTypes, ControlTypes, LoopTypes, WinsockTypes, PeerTypes, CallbackTypes

LEMMA SameTypes ==
  /\ server \in BOOLEAN /\ UNCHANGED server => server' \in BOOLEAN
  /\ ObjectTypes /\ UNCHANGED object => ObjectTypes'
  /\ ControlTypes /\ UNCHANGED control => ControlTypes'
  /\ LoopTypes /\ UNCHANGED loops => LoopTypes'
  /\ WinsockTypes /\ UNCHANGED winsock => WinsockTypes'
  /\ PeerTypes /\ UNCHANGED peers => PeerTypes'
  /\ CallbackTypes /\ UNCHANGED cb => CallbackTypes'
  BY DEF object, control, loops, winsock, peers, ObjectTypes, ControlTypes, LoopTypes,
         WinsockTypes, PeerTypes, CallbackTypes

LEMMA TypeStep ==
  ASSUME Sound, FirstStep, [Next]_vars
  PROVE  TypeOK'
<1> USE AsyncSocketAssumption DEF Sockets, Slots, Loops, Flags, Rank
<1>0. /\ server \in BOOLEAN /\ CallbackTypes
      /\ ObjectTypes /\ ControlTypes /\ LoopTypes /\ WinsockTypes /\ PeerTypes
  BY TypeParts DEF Sound
<1>1. CASE PeerConnects
  <2>1. WinsockTypes'
    BY <1>1, <1>0 DEF PeerConnects, WinsockTypes
  <2>2. PeerTypes'
    BY <1>1, <1>0 DEF PeerConnects, PeerTypes, Sound, Cursor
  <2> QED
    BY <1>1, <2>1, <2>2, <1>0, SameTypes, TypePartsNext DEF PeerConnects
<1>2. CASE PeerAborts
  <2>1. PeerTypes'
    BY <1>2, <1>0 DEF PeerAborts, PeerTypes
  <2> QED
    BY <1>2, <2>1, <1>0, SameTypes, TypePartsNext DEF PeerAborts
<1>3. ASSUME NEW s \in Sockets, PeerSends(s) PROVE TypeOK'
  <2>1. WinsockTypes'
    BY <1>3, <1>0 DEF PeerSends, WinsockTypes
  <2>2. PeerTypes'
    BY <1>3, <1>0 DEF PeerSends, PeerTypes
  <2> QED
    BY <1>3, <2>1, <2>2, <1>0, SameTypes, TypePartsNext DEF PeerSends
<1>4. ASSUME NEW s \in Sockets, PeerCloses(s) PROVE TypeOK'
  <2>1. WinsockTypes'
    BY <1>4, <1>0 DEF PeerCloses, WinsockTypes
  <2>2. PeerTypes'
    BY <1>4, <1>0 DEF PeerCloses, PeerTypes
  <2> QED
    BY <1>4, <2>1, <2>2, <1>0, SameTypes, TypePartsNext DEF PeerCloses
<1>5. ASSUME NEW e \in Events, Open(e) PROVE TypeOK'
  <2>1. conn' \in [Slots -> Sockets \cup {NoSocket}]
    <3>1. 0 \in Slots
      OBVIOUS
    <3> QED
      BY <1>5, <3>1, Zenon DEF Open, EmptyConn
  <2>2. evt' \in [Slots -> Events \cup {NoEvent} \cup Handles \cup {NoSocket}]
    BY <1>5 DEF Open, EmptyEvt
  <2>3. ControlTypes'
    BY <1>5, <1>0 DEF Open, ControlTypes
  <2>4. ObjectTypes'
    <3>1. n' \in 0 .. MaxEvents + 1 /\ running' \in BOOLEAN /\ overrun' \in BOOLEAN
      <4>1. n' \in {0, 1} /\ running' = FALSE /\ overrun' = overrun
        BY <1>5 DEF Open
      <4>2. overrun \in BOOLEAN
        BY <1>0 DEF ObjectTypes
      <4>3. n' \in 0 .. MaxEvents + 1
        BY <4>1
      <4> QED
        BY <4>1, <4>2, <4>3, Zenon
    <3> QED
      BY <2>1, <2>2, <3>1 DEF ObjectTypes
  <2>5. WinsockTypes'
    BY <1>5, <1>0 DEF Open, WinsockTypes
  <2> QED
    BY <1>5, <2>3, <2>4, <2>5, <1>0, SameTypes, TypePartsNext DEF Open
<1>6. ASSUME NEW e \in Events, OpenRefused(e) PROVE TypeOK'
  <2>1. ObjectTypes'
    <3>1. n' \in 0 .. MaxEvents + 1 /\ running' \in BOOLEAN /\ overrun' \in BOOLEAN
      <4>1. n' \in {0, 1} /\ running' = FALSE /\ overrun' = overrun
        BY <1>6 DEF OpenRefused
      <4>2. overrun \in BOOLEAN
        BY <1>0 DEF ObjectTypes
      <4>3. n' \in 0 .. MaxEvents + 1
        BY <4>1
      <4> QED
        BY <4>1, <4>2, <4>3, Zenon
    <3>2. conn' \in [Slots -> Sockets \cup {NoSocket}]
      BY <1>6, Zenon DEF OpenRefused, EmptyConn
    <3>3. evt' \in [Slots -> Events \cup {NoEvent} \cup Handles \cup {NoSocket}]
      BY <1>6, Zenon DEF OpenRefused, EmptyEvt
    <3> QED
      BY <3>1, <3>2, <3>3 DEF ObjectTypes
  <2>2. WinsockTypes'
    BY <1>6, <1>0 DEF OpenRefused, WinsockTypes
  <2> QED
    BY <1>6, <2>1, <2>2, <1>0, SameTypes, TypePartsNext DEF OpenRefused
<1>7. CASE Run
  <2>1. runs = 0 /\ runs' = 1 /\ 1 \in 0 .. MaxRuns
    BY <1>7 DEF Run, FirstLife, FirstStep, OneLoop, Sound
  <2>2. ControlTypes'
    BY <1>7, <1>0, <2>1 DEF Run, ControlTypes
  <2>3. LoopTypes'
    BY <1>7, <1>0, <2>1 DEF Run, LoopTypes
  <2> QED
    BY <1>7, <2>2, <2>3, <1>0, SameTypes, TypePartsNext DEF Run
<1>8. CASE Stop
  <2>1. ObjectTypes'
    BY <1>8, <1>0 DEF Stop, ObjectTypes
  <2>2. ControlTypes'
    BY <1>8, <1>0 DEF Stop, ControlTypes
  <2> QED
    BY <1>8, <2>1, <2>2, <1>0, SameTypes, TypePartsNext DEF Stop
<1>9. CASE DisconnectConnections
  <2>1. ControlTypes'
    BY <1>9, <1>0 DEF DisconnectConnections, ControlTypes
  <2> QED
    BY <1>9, <2>1, <1>0, SameTypes, TypePartsNext DEF DisconnectConnections
<1>10. CASE ReadSlot
  <2>1. pos \in Slots /\ conn[pos] \in Sockets \cup {NoSocket}
    BY <1>0, <1>10 DEF ReadSlot, ControlTypes, ObjectTypes
  <2>2. ControlTypes'
    BY <1>10, <1>0, <2>1 DEF ReadSlot, ControlTypes
  <2> QED
    BY <1>10, <2>2, <1>0, SameTypes, TypePartsNext DEF ReadSlot
<1>11. ASSUME NEW s \in Sockets, DisconnectFound(s) PROVE TypeOK'
  <2>1. ControlTypes'
    BY <1>11, <1>0 DEF DisconnectFound, ControlTypes
  <2>2. WinsockTypes'
    BY <1>11, <1>0 DEF DisconnectFound, WinsockTypes, CloseSocket
  <2>3. PeerTypes'
    BY <1>11, <1>0 DEF DisconnectFound, PeerTypes, CloseSocket
  <2>4. CallbackTypes'
    BY <1>11, <1>0 DEF DisconnectFound, CallbackTypes
  <2> QED
    BY <1>11, <2>1, <2>2, <2>3, <2>4, <1>0, SameTypes, TypePartsNext DEF DisconnectFound
<1>12. CASE ControlDone
  <2>1. ControlTypes'
    BY <1>12, <1>0 DEF ControlDone, ControlTypes
  <2> QED
    BY <1>12, <2>1, <1>0, SameTypes, TypePartsNext DEF ControlDone
<1>13. ASSUME NEW l \in Loops, Enter(l) PROVE TypeOK'
  <2>1. LoopTypes'
    BY <1>13, <1>0 DEF Enter, LoopTypes, Goto
  <2> QED
    BY <1>13, <2>1, <1>0, SameTypes, TypePartsNext DEF Enter
<1>14. ASSUME NEW l \in Loops, TestRunning(l) PROVE TypeOK'
  <2>1. LoopTypes'
    BY <1>14, <1>0 DEF TestRunning, LoopTypes, Goto
  <2> QED
    BY <1>14, <2>1, <1>0, SameTypes, TypePartsNext DEF TestRunning
<1>15. ASSUME NEW l \in Loops, WaitAny(l) PROVE TypeOK'
  <2>1. LoopTypes'
    <3>1. PICK i \in 0 .. MaxEvents + 1 : idx' = [idx EXCEPT ![l] = i] \/ UNCHANGED idx
      BY <1>15, <1>0 DEF WaitAny, Ready, ObjectTypes
    <3>2. PICK p \in {"test", "scan"} : lpc' = [lpc EXCEPT ![l] = p]
      BY <1>15 DEF WaitAny, Goto
    <3> QED
      <4>1. idx' \in [Loops -> 0 .. MaxEvents + 1]
        BY <1>0, <3>1 DEF LoopTypes
      <4>2. lpc' \in [Loops -> {"off", "enter", "raise", "test", "wait", "scan", "dispatch", "refill"}]
        BY <1>0, <3>2 DEF LoopTypes
      <4> QED
        BY <1>15, <1>0, <4>1, <4>2 DEF WaitAny, LoopTypes
  <2> QED
    BY <1>15, <2>1, <1>0, SameTypes, TypePartsNext DEF WaitAny
<1>16. ASSUME NEW l \in Loops, SkipSlot(l) PROVE TypeOK'
  <2>1. LoopTypes'
    BY <1>16, <1>0 DEF SkipSlot, LoopTypes, ObjectTypes
  <2> QED
    BY <1>16, <2>1, <1>0, SameTypes, TypePartsNext DEF SkipSlot
<1>17. ASSUME NEW l \in Loops, ScanDone(l) PROVE TypeOK'
  <2>1. LoopTypes'
    BY <1>17, <1>0 DEF ScanDone, LoopTypes, Goto
  <2> QED
    BY <1>17, <2>1, <1>0, SameTypes, TypePartsNext DEF ScanDone
<1>18. ASSUME NEW l \in Loops, NextSlot(l) PROVE TypeOK'
  <2>1. LoopTypes'
    BY <1>18, <1>0 DEF NextSlot, LoopTypes, Goto, Cursor, CursorOf, Sound
  <2> QED
    BY <1>18, <2>1, <1>0, SameTypes, TypePartsNext DEF NextSlot
<1>19. ASSUME NEW l \in Loops, Raise(l) PROVE TypeOK'
  <2>1. ObjectTypes'
    BY <1>19, <1>0 DEF Raise, ObjectTypes
  <2>2. LoopTypes'
    BY <1>19, <1>0 DEF Raise, LoopTypes, Goto
  <2> QED
    BY <1>19, <2>1, <2>2, <1>0, SameTypes, TypePartsNext DEF Raise
<1>20. ASSUME NEW l \in Loops, TakeEvents(l) PROVE TypeOK'
  <2>1. conn[idx[l]] \in Sockets \cup {NoSocket}
    BY <1>0, <1>20 DEF TakeEvents, Due, ObjectTypes, LoopTypes
  <2>2. (IF conn[idx[l]] \in Sockets THEN rec[conn[idx[l]]] ELSE {}) \in SUBSET Flags
    BY <1>0 DEF WinsockTypes
  <2>3. LoopTypes'
    BY <1>20, <1>0, <2>1, <2>2 DEF TakeEvents, LoopTypes, Due, Goto
  <2>4. WinsockTypes'
    BY <1>20, <1>0 DEF TakeEvents, WinsockTypes
  <2> QED
    BY <1>20, <2>3, <2>4, <1>0, SameTypes, TypePartsNext DEF TakeEvents
<1>21. ASSUME NEW l \in Loops, NEW f \in DOMAIN Rank, EventFails(l, f) PROVE TypeOK'
  <2>1. LoopTypes'
    BY <1>21, <1>0 DEF EventFails, LoopTypes, Goto
  <2> QED
    BY <1>21, <2>1, <1>0, SameTypes, TypePartsNext DEF EventFails
<1>22. ASSUME NEW l \in Loops, NEW f \in DOMAIN Rank, CallBack(l, f) PROVE TypeOK'
  <2>1. cur[l] \in Sockets
    BY <1>22 DEF CallBack, Turn, Cursor, CursorOf, Sound
  <2>2. LoopTypes'
    BY <1>22, <1>0 DEF CallBack, LoopTypes, Handled
  <2>3. CallbackTypes'
    BY <1>22, <1>0, <2>1 DEF CallBack, CallbackTypes
  <2> QED
    BY <1>22, <2>2, <2>3, <1>0, SameTypes, TypePartsNext DEF CallBack
<1>23. ASSUME NEW l \in Loops, DoOpen(l) PROVE TypeOK'
  <2>1. PICK e \in Events \ evOpen : AcceptNothing(l, e) \/ \E h \in Handles : Accept(l, h, e)
    <3>1. ~TableFull
      BY <1>0 DEF TableFull, Cursor, Sound, ObjectTypes
    <3> QED
      BY <1>23, <3>1, Zenon DEF DoOpen
  <2>2. n < MaxEvents /\ n \in Nat
    <3>1. n \in Nat /\ MaxEvents \in Nat
      BY <1>0 DEF ObjectTypes
    <3>2. overrun' = (overrun \/ n >= MaxEvents)
      BY <2>1 DEF AcceptNothing, Accept, Put
    <3>3. ~ (n >= MaxEvents)
      BY <3>2, Zenon DEF FirstStep
    <3> QED
      BY <3>1, <3>3
  <2>3. ASSUME NEW s \in Handles \cup {NoSocket}, Put(s, e), UNCHANGED running
        PROVE  ObjectTypes'
    BY <1>0, <2>2, <2>3 DEF Put, ObjectTypes
  <2>4. CASE AcceptNothing(l, e)
    <3>1. LoopTypes'
      BY <1>0, <2>4 DEF AcceptNothing, Handled, LoopTypes
    <3>2. ObjectTypes'
      BY <2>3, <2>4 DEF AcceptNothing
    <3>3. WinsockTypes'
      BY <1>0, <2>4 DEF AcceptNothing, WinsockTypes
    <3> QED
      BY <1>0, <2>4, <3>1, <3>2, <3>3, SameTypes, TypePartsNext DEF AcceptNothing
  <2>5. ASSUME NEW h \in Handles, Accept(l, h, e) PROVE TypeOK'
    <3>1. LoopTypes'
      BY <1>0, <2>5 DEF Accept, Handled, LoopTypes
    <3>2. ObjectTypes'
      BY <2>3, <2>5 DEF Accept
    <3>3. WinsockTypes'
      BY <1>0, <2>5 DEF Accept, WinsockTypes
    <3>4. PeerTypes' /\ CallbackTypes'
      BY <1>0, <2>5 DEF Accept, PeerTypes, CallbackTypes
    <3> QED
      BY <1>0, <2>5, <3>1, <3>2, <3>3, <3>4, SameTypes, TypePartsNext DEF Accept
  <2> QED
    BY <2>1, <2>4, <2>5
<1>24. ASSUME NEW l \in Loops, BeginClose(l) PROVE TypeOK'
  <2>1. Keeps(cur[l]) \in Seq(Sockets \X Events)
    BY KeptPairs DEF Sound
  <2>2. kept' \in [Loops -> Seq(Sockets \X Events)]
    BY <1>0, <1>24, <2>1 DEF BeginClose, LoopTypes
  <2>3. LoopTypes'
    BY <1>0, <1>24, <2>2 DEF BeginClose, Handled, Goto, LoopTypes
  <2>4. ObjectTypes'
    BY <1>0, <1>24 DEF BeginClose, EmptyConn, EmptyEvt, ObjectTypes
  <2>5. WinsockTypes'
    BY <1>0, <1>24 DEF BeginClose, WinsockTypes
  <2> QED
    BY <1>0, <1>24, <2>3, <2>4, <2>5, SameTypes, TypePartsNext DEF BeginClose
<1>25. ASSUME NEW l \in Loops, Refill(l) PROVE TypeOK'
  <2>1. /\ Head(kept[l]) \in Sockets \X Events /\ Tail(kept[l]) \in Seq(Sockets \X Events)
        /\ Len(kept[l]) > 0
    BY <1>0, <1>25 DEF Refill, LoopTypes
  <2>2. n \in Slots
    BY <1>0, <2>1 DEF Cursor, CursorOf, Sound, ObjectTypes
  <2>3. ObjectTypes'
    BY <1>0, <1>25, <2>1, <2>2 DEF Refill, ObjectTypes
  <2>4. LoopTypes'
    BY <1>0, <1>25, <2>1 DEF Refill, LoopTypes
  <2> QED
    BY <1>0, <1>25, <2>3, <2>4, SameTypes, TypePartsNext DEF Refill
<1>26. ASSUME NEW l \in Loops, EndClose(l) PROVE TypeOK'
  <2>1. LoopTypes'
    BY <1>26, <1>0 DEF EndClose, LoopTypes, Goto
  <2>2. WinsockTypes'
    BY <1>26, <1>0 DEF EndClose, WinsockTypes, CloseSocket
  <2>3. PeerTypes'
    BY <1>26, <1>0 DEF EndClose, PeerTypes, CloseSocket
  <2>4. CallbackTypes'
    BY <1>26, <1>0 DEF EndClose, CallbackTypes
  <2> QED
    BY <1>26, <2>1, <2>2, <2>3, <2>4, <1>0, SameTypes, TypePartsNext DEF EndClose
<1>27. CASE UNCHANGED vars
  BY <1>0, <1>27, SameTypes, TypePartsNext DEF vars
<1> QED
  BY <1>1, <1>2, <1>3, <1>4, <1>5, <1>6, <1>7, <1>8, <1>9, <1>10, <1>11, <1>12, <1>13, <1>14, <1>15, <1>16, <1>17, <1>18, <1>19, <1>20, <1>21, <1>22, <1>23, <1>24, <1>25, <1>26, <1>27, Zenon
     DEF Next, ControlStep, LoopStep, Deliver

LEMMA OneLoopStep ==
  ASSUME Sound, FirstStep, [Next]_vars
  PROVE  OneLoop'
<1> USE DEF Sound
<1>1. ASSUME UNCHANGED <<server, mpc, runs, lpc>>, n' = n \/ mpc # "new" \/ runs # 0
      PROVE  OneLoop'
  BY <1>1 DEF OneLoop, Loops
<1>2. ASSUME NEW l \in Loops, LoopStep(l)
      PROVE  OneLoop'
  <2>1. lpc[l] # "off"
    BY <1>2 DEF LoopStep, Deliver, DoOpen, EventFails, CallBack, BeginClose, Refill, EndClose,
       Enter, Raise, TestRunning, WaitAny, SkipSlot, TakeEvents, ScanDone, NextSlot, Turn
  <2>2. UNCHANGED <<server, mpc, runs>>
    BY <1>2 DEF LoopStep, Deliver, DoOpen, EventFails, CallBack, BeginClose, Refill, EndClose,
       Enter, Raise, TestRunning, WaitAny, SkipSlot, TakeEvents, ScanDone, NextSlot, control,
       Refuse, AcceptNothing, Accept
  <2>3. lpc' = lpc \/ \E p : lpc' = [lpc EXCEPT ![l] = p]
    BY <1>2, Zenon DEF LoopStep, Deliver, DoOpen, EventFails, CallBack, BeginClose, Refill, EndClose,
       Enter, Raise, TestRunning, WaitAny, SkipSlot, TakeEvents, ScanDone, NextSlot, Goto,
       Refuse, AcceptNothing, Accept
  <2>4. l = 1 /\ runs # 0
    BY <2>1 DEF OneLoop
  <2>5. \A m \in Loops : m # l => lpc'[m] = lpc[m]
    BY <2>3 DEF TypeOK
  <2>6. \A m \in Loops : lpc'[m] # "off" => m = 1
    BY <2>4, <2>5 DEF OneLoop
  <2> QED
    BY <2>2, <2>4, <2>6 DEF OneLoop, Loops
<1>3. CASE PeerConnects \/ PeerAborts \/ \E s \in Sockets : PeerSends(s) \/ PeerCloses(s)
  BY <1>1, <1>3 DEF PeerConnects, PeerAborts, PeerSends, PeerCloses, control, loops, object
<1>4. ASSUME NEW e \in Events, Open(e) PROVE OneLoop'
  <2>1. mpc = "new" /\ mpc' = "opened" /\ runs < MaxRuns /\ UNCHANGED <<server, runs, lpc>>
    BY <1>4 DEF Open, loops
  <2>2. runs' = 0
    BY <2>1 DEF FirstStep, FirstLife
  <2> QED
    BY <2>1, <2>2 DEF OneLoop, Loops
<1>5. ASSUME NEW e \in Events, OpenRefused(e) PROVE OneLoop'
  BY <1>5 DEF OpenRefused, OneLoop, control, loops, Loops
<1>6. CASE Run
  <2>1. /\ mpc = "opened" /\ mpc' = "up" /\ runs = 0 /\ runs' = 1 /\ UNCHANGED server
        /\ lpc' = [lpc EXCEPT ![1] = "enter"]
    BY <1>6 DEF Run, OneLoop
  <2>2. \A m \in Loops : m # 1 => lpc'[m] = lpc[m]
    BY <2>1 DEF TypeOK
  <2> QED
    BY <2>1, <2>2 DEF OneLoop, Loops
<1>7. CASE Stop \/ DisconnectConnections
  BY <1>7 DEF Stop, DisconnectConnections, OneLoop, object, loops, Loops
<1>8. CASE ReadSlot \/ \E s \in Sockets : DisconnectFound(s)
  BY <1>1, <1>8 DEF ReadSlot, DisconnectFound, object, loops
<1>9. CASE ControlDone
  BY <1>9 DEF ControlDone, OneLoop, object, loops, Loops
<1>10. CASE UNCHANGED vars
  BY <1>1, <1>10 DEF vars, object, control, loops
<1> QED
  BY <1>2, <1>3, <1>4, <1>5, <1>6, <1>7, <1>8, <1>9, <1>10, Zenon DEF Next, ControlStep

\* listen and connect find an object that nothing uses.
LEMMA Opening ==
  ASSUME Sound, FirstStep, NEW e, Open(e) \/ OpenRefused(e)
  PROVE  mpc = "new" /\ runs = 0 /\ n = 0 /\ \A l \in Loops : lpc[l] = "off" /\ kept[l] = <<>>
<1> USE AsyncSocketAssumption DEF Sound
<1>1. mpc = "new" /\ runs < MaxRuns
  BY DEF Open, OpenRefused
<1>2. runs \in Nat
  BY DEF TypeOK
<1>3. CASE Open(e)
  <2>1. runs = 0
    BY <1>1, <1>3 DEF Open, FirstStep, FirstLife
  <2> QED
    BY <1>1, <2>1 DEF OneLoop, Cursor, CursorOf
<1>4. CASE OpenRefused(e)
  <2>1. server = FALSE
    BY <1>4, Zenon DEF OpenRefused, TypeOK
  <2>2. MaxRuns <= 1
    BY <2>1 DEF OneLoop
  <2>3. runs = 0
    BY <1>1, <1>2, <2>2
  <2> QED
    BY <1>1, <2>3 DEF OneLoop, Cursor, CursorOf
<1> QED
  BY <1>3, <1>4

LEMMA CursorStep ==
  ASSUME Sound, FirstStep, [Next]_vars
  PROVE  Cursor'
<1> USE AsyncSocketAssumption DEF Sound, TypeOK, Cursor, CursorOf, Loops, Slots
<1>1. ASSUME UNCHANGED <<n, idx, lpc, kept, cur, todo, backlog, asked>>
      PROVE  Cursor'
  <2>1. \A l \in Loops : CursorOf(l)
    OBVIOUS
  <2>2. \A l \in Loops : CursorOf(l)'
    BY <1>1, <2>1, Zenon
  <2> HIDE DEF CursorOf, TypeOK, Loops
  <2> QED
    BY <1>1, <2>2
<1>2. CASE PeerConnects \/ PeerAborts \/ \E s \in Sockets : PeerSends(s) \/ PeerCloses(s)
  <2>1. UNCHANGED <<object, loops>>
    BY <1>2 DEF PeerConnects, PeerAborts, PeerSends, PeerCloses
  <2>2. UNCHANGED <<n, idx, lpc, kept, cur, todo>>
    BY <2>1 DEF object, loops
  <2>3. backlog' <= asked'
    BY <1>2 DEF PeerConnects, PeerAborts, PeerSends, PeerCloses
  <2>4. \A l \in Loops : CursorOf(l)
    OBVIOUS
  <2>5. \A l \in Loops : CursorOf(l)'
    BY <2>2, <2>4, Zenon
  <2> HIDE DEF CursorOf, TypeOK, Loops
  <2> QED
    BY <2>2, <2>3, <2>5
<1>3. ASSUME NEW e \in Events, Open(e) \/ OpenRefused(e) PROVE Cursor'
  <2>1. mpc = "new" /\ n' \in {0, 1} /\ UNCHANGED <<loops, peers>>
    BY <1>3 DEF Open, OpenRefused
  <2>2. \A l \in Loops : kept[l] = <<>>
    BY <1>3, Opening
  <2>3. Cursor => \A l \in Loops : CursorOf(l)'
    <3> HIDE DEF TypeOK, Loops
    <3> QED
      BY <2>1, <2>2 DEF loops
  <2> HIDE DEF CursorOf
  <2> QED
    BY <2>1, <2>3 DEF peers
<1>4. CASE Run
  <2>1. lpc' = [lpc EXCEPT ![1] = "enter"] /\ lpc[1] = "off" /\ 1 \in Loops
    BY <1>4 DEF Run, OneLoop
  <2> QED
    BY <1>4, <2>1 DEF Run, object, peers
<1>5. CASE Stop \/ DisconnectConnections \/ ReadSlot \/ ControlDone
        \/ \E s \in Sockets : DisconnectFound(s)
  BY <1>1, <1>5 DEF Stop, DisconnectConnections, ReadSlot, ControlDone, DisconnectFound, object,
     loops, peers
<1>6. ASSUME NEW l \in Loops,
             Enter(l) \/ Raise(l) \/ TestRunning(l) \/ WaitAny(l) \/ ScanDone(l)
      PROVE  Cursor'
  <2>1. PICK p \in {"off", "raise", "test", "wait", "scan"} : lpc' = [lpc EXCEPT ![l] = p]
    BY <1>6 DEF Enter, Raise, TestRunning, WaitAny, ScanDone, Goto
  <2>2. lpc[l] # "refill"
    BY <1>6 DEF Enter, Raise, TestRunning, WaitAny, ScanDone
  <2>3. idx' = idx \/ \E i \in 0 .. n - 1 : idx' = [idx EXCEPT ![l] = i]
    BY <1>6 DEF Enter, Raise, TestRunning, WaitAny, ScanDone, Ready
  <2>4. UNCHANGED <<n, kept, cur, todo, backlog, asked>>
    BY <1>6 DEF Enter, Raise, TestRunning, WaitAny, ScanDone, object, peers
  <2>5. idx'[l] <= MaxEvents /\ \A m \in Loops : m # l => idx'[m] = idx[m] /\ lpc'[m] = lpc[m]
    <3>1. n \in Nat /\ n <= MaxEvents /\ idx[l] <= MaxEvents /\ MaxEvents \in Nat
      OBVIOUS
    <3>2. l \in DOMAIN idx /\ l \in DOMAIN lpc /\ DOMAIN lpc = Loops /\ DOMAIN idx = Loops
      OBVIOUS
    <3> HIDE DEF TypeOK, Loops, Cursor, CursorOf
    <3>3. idx'[l] <= MaxEvents
      BY <2>3, <3>1, <3>2
    <3> QED
      BY <2>1, <2>3, <3>2, <3>3
  <2>6. lpc'[l] \notin {"dispatch", "refill"}
    BY <2>1
  <2> HIDE DEF TypeOK, Loops
  <2>7. \A m \in Loops : CursorOf(m)'
    BY <2>2, <2>4, <2>5, <2>6
  <2> HIDE DEF CursorOf
  <2> QED
    BY <2>4, <2>7
<1>7. ASSUME NEW l \in Loops, SkipSlot(l) PROVE Cursor'
  <2>1. /\ idx' = [idx EXCEPT ![l] = @ + 1] /\ idx[l] < n /\ lpc[l] = "scan"
        /\ UNCHANGED <<n, lpc, kept, cur, todo, backlog, asked>>
    BY <1>7 DEF SkipSlot, object, peers
  <2>2. idx'[l] <= MaxEvents /\ \A m \in Loops : m # l => idx'[m] = idx[m]
    BY <2>1
  <2> HIDE DEF TypeOK, Loops
  <2>3. \A m \in Loops : CursorOf(m)'
    BY <2>1, <2>2
  <2> HIDE DEF CursorOf
  <2> QED
    BY <2>1, <2>3
<1>8. ASSUME NEW l \in Loops, TakeEvents(l) PROVE Cursor'
  <2>1. /\ lpc[l] = "scan" /\ idx[l] < MaxEvents /\ lpc' = [lpc EXCEPT ![l] = "dispatch"]
        /\ UNCHANGED <<n, idx, kept, backlog, asked>>
    BY <1>8 DEF TakeEvents, Due, Goto, object, peers
  <2>2. /\ \A m \in Loops : m # l => cur'[m] = cur[m] /\ todo'[m] = todo[m]
        /\ todo'[l] # {} => cur'[l] \in Sockets
    BY <1>8 DEF TakeEvents
  <2> QED
    BY <2>1, <2>2
<1>9. ASSUME NEW l \in Loops, NextSlot(l) PROVE Cursor'
  BY <1>9 DEF NextSlot, Goto, object, peers
<1>10. ASSUME NEW l \in Loops, NEW f \in DOMAIN Rank, EventFails(l, f) \/ CallBack(l, f)
       PROVE  Cursor'
  <2>1. lpc' = lpc \/ lpc' = [lpc EXCEPT ![l] = "off"]
    BY <1>10 DEF EventFails, CallBack, Goto
  <2>2. lpc[l] = "dispatch" /\ todo[l] # {}
    BY <1>10 DEF EventFails, CallBack, Turn
  <2>3. UNCHANGED <<n, idx, kept, cur, backlog, asked>>
    BY <1>10 DEF EventFails, CallBack, object, peers
  <2>4. \A m \in Loops : todo'[m] # {} => todo[m] # {}
    BY <1>10, <2>2 DEF EventFails, CallBack, Handled
  <2> QED
    BY <2>1, <2>2, <2>3, <2>4
<1>11. ASSUME NEW l \in Loops, DoOpen(l) PROVE Cursor'
  <2>1. lpc[l] = "dispatch" /\ "ACCEPT" \in todo[l] /\ ~TableFull
    BY <1>11 DEF DoOpen, Turn, TableFull
  <2>2. PICK e \in Events \ evOpen : AcceptNothing(l, e) \/ \E h \in Handles : Accept(l, h, e)
    BY <1>11, <2>1, Zenon DEF DoOpen
  <2>3. /\ n' = n + 1 /\ overrun' = (overrun \/ n >= MaxEvents)
        /\ UNCHANGED <<lpc, idx, kept, cur>>
        /\ Handled(l, "ACCEPT")
    BY <2>2 DEF AcceptNothing, Accept, Put
  <2>4. n < MaxEvents
    <3>1. ~ (n >= MaxEvents)
      BY <2>3, Zenon DEF FirstStep
    <3> QED
      BY <3>1
  <2>5. \A m \in Loops : kept[m] = <<>>
    BY <2>1, Alone
  <2>6. \A m \in Loops : todo'[m] # {} => todo[m] # {}
    BY <2>1, <2>3 DEF Handled
  <2>7. backlog' <= asked'
    BY <2>2 DEF AcceptNothing, Accept, peers
  <2> QED
    <3>1. n \in Nat /\ MaxEvents \in Nat
      OBVIOUS
    <3> HIDE DEF TypeOK, Loops
    <3>2. ASSUME NEW m \in Loops PROVE CursorOf(m)'
      <4>1. Cursor /\ CursorOf(m) /\ kept'[m] = <<>>
        BY <2>3, <2>5
      <4>2. n' + Len(kept'[m]) <= MaxEvents
        BY <2>3, <2>4, <3>1, <4>1
      <4> QED
        BY <2>3, <2>6, <4>1, <4>2
    <3> HIDE DEF CursorOf
    <3> QED
      BY <2>3, <2>4, <2>7, <3>1, <3>2
<1>12. ASSUME NEW l \in Loops, BeginClose(l) PROVE Cursor'
  <2>1. lpc[l] = "dispatch" /\ "CLOSE" \in todo[l]
    BY <1>12 DEF BeginClose, Turn
  <2>2. /\ n' = 0 /\ lpc' = [lpc EXCEPT ![l] = "refill"] /\ UNCHANGED <<idx, cur, backlog, asked>>
        /\ Handled(l, "CLOSE")
    BY <1>12 DEF BeginClose, Goto, peers
  <2>3. \A m \in Loops : todo'[m] # {} => todo[m] # {}
    BY <2>1, <2>2 DEF Handled
  <2>4. \A m \in Loops : m # l => kept'[m] = kept[m]
    BY <1>12 DEF BeginClose
  <2>5. Len(kept'[l]) <= MaxEvents
    <3>1. KeptBefore(cur[l], MaxEvents, Keeps(cur[l]))
      BY KeepsTheOthers
    <3>2. kept'[l] = Keeps(cur[l])
      BY <1>12 DEF BeginClose
    <3> QED
      BY <3>1, <3>2 DEF KeptBefore
  <2>6. n + Len(kept[l]) <= MaxEvents
    OBVIOUS
  <2>7. \A m \in Loops : m # l => kept[m] = <<>>
    BY <2>1, Alone
  <2> QED
    <3>1. MaxEvents \in Nat /\ Len(kept'[l]) \in Nat
      <4>1. kept' \in [Loops -> Seq(Sockets \X Events)]
        BY TypeStep, Zenon DEF TypeOK
      <4> HIDE DEF TypeOK
      <4> QED
        BY <4>1
    <3>2. lpc'[l] = "refill" /\ \A m \in Loops : m # l => lpc'[m] = lpc[m]
      BY <2>2
    <3>3. cur[l] \in Sockets
      BY <2>1
    <3> HIDE DEF TypeOK, Loops
    <3>4. CursorOf(l)'
      BY <2>1, <2>2, <2>3, <2>5, <3>1, <3>2, <3>3
    <3>5. \A m \in Loops : m # l => CursorOf(m)'
      BY <2>2, <2>3, <2>4, <2>7, <3>1, <3>2
    <3> HIDE DEF CursorOf
    <3> QED
      BY <2>2, <3>1, <3>4, <3>5
<1>13. ASSUME NEW l \in Loops, Refill(l) PROVE Cursor'
  <2>1. /\ lpc[l] = "refill" /\ kept[l] # <<>> /\ n' = n + 1
        /\ kept' = [kept EXCEPT ![l] = Tail(@)]
        /\ UNCHANGED <<idx, lpc, cur, todo, backlog, asked>>
    BY <1>13 DEF Refill, peers
  <2>2. Len(kept'[l]) = Len(kept[l]) - 1 /\ Len(kept[l]) > 0 /\ Len(kept[l]) \in Nat
    BY <2>1
  <2>3. \A m \in Loops : m # l => kept'[m] = <<>> /\ kept[m] = <<>>
    BY <2>1, Alone
  <2> QED
    <3>1. n \in Nat /\ MaxEvents \in Nat
      OBVIOUS
    <3>2. Cursor /\ CursorOf(l)
      OBVIOUS
    <3> HIDE DEF TypeOK, Loops
    <3>3. ASSUME NEW m \in Loops PROVE CursorOf(m)'
      <4>1. Cursor /\ CursorOf(m)
        BY Zenon
      <4>2. n' + Len(kept'[m]) <= MaxEvents
        <5> DEFINE a == n' b == Len(kept'[m]) c == Len(kept[l])
        <5>1. a = n + 1 /\ c \in Nat /\ c > 0 /\ n + c <= MaxEvents
          BY <2>1, <2>2, <3>2
        <5>2. CASE m = l
          <6>1. b = c - 1
            BY <2>2, <5>2
          <6> HIDE DEF Cursor, CursorOf, a, b, c
          <6>2. a + b <= MaxEvents
            BY <3>1, <5>1, <6>1
          <6> QED
            BY <6>2 DEF a, b
        <5>3. CASE m # l
          <6>1. b = 0
            BY <2>3, <5>3
          <6> HIDE DEF Cursor, CursorOf, a, b, c
          <6>2. a + b <= MaxEvents
            BY <3>1, <5>1, <6>1
          <6> QED
            BY <6>2 DEF a, b
        <5> QED
          BY <5>2, <5>3
      <4>3. lpc[m] # "refill" => kept'[m] = <<>>
        BY <2>1, <2>3
      <4> QED
        BY <2>1, <4>1, <4>2, <4>3
    <3> HIDE DEF CursorOf
    <3>4. n' <= MaxEvents
      BY <2>1, <2>2, <3>1, <3>2 DEF CursorOf
    <3> QED
      BY <2>1, <3>3, <3>4
<1>14. ASSUME NEW l \in Loops, EndClose(l) PROVE Cursor'
  BY <1>14 DEF EndClose, Goto, object
<1>15. CASE UNCHANGED vars
  BY <1>1, <1>15 DEF vars, object, loops, peers
<1> QED
  BY <1>2, <1>3, <1>4, <1>5, <1>6, <1>7, <1>8, <1>9, <1>10, <1>11, <1>12, <1>13, <1>14, <1>15,
     Zenon DEF Next, ControlStep, LoopStep, Deliver

LEMMA EventsStep ==
  ASSUME Sound, FirstStep, [Next]_vars
  PROVE  EventsOwn'
<1> USE AsyncSocketAssumption DEF Sound
<1>1. ASSUME UNCHANGED <<n, conn, evt, evOpen, kept>>
      PROVE  EventsOwn'
  BY <1>1, ZenonT(40) DEF EventsOwn, SlotsOwn, KeptOwn
<1>2. ASSUME NEW e \in Events, Open(e) PROVE EventsOwn'
  <2>1. \A l \in Loops : kept'[l] = <<>>
    BY <1>2, Opening DEF Open, loops
  <2>2. /\ n' = 1 /\ e \in evOpen' /\ evt'[0] = e
        /\ \A i \in Slots : i # 0 => conn'[i] = NoSocket
    BY <1>2 DEF Open, EmptyConn, EmptyEvt, Slots
  <2>3. SlotsOwn'
    BY <2>2 DEF SlotsOwn, Slots
  <2>4. \A l \in Loops : KeptOwn(kept[l])'
    BY <2>1 DEF KeptOwn
  <2> QED
    BY <2>3, <2>4 DEF EventsOwn
<1>3. ASSUME NEW e \in Events, OpenRefused(e) PROVE EventsOwn'
  <2>1. \A l \in Loops : kept'[l] = <<>>
    BY <1>3, Opening DEF OpenRefused, loops
  <2>2. n' = 0 /\ \A i \in Slots : conn'[i] = NoSocket
    BY <1>3 DEF OpenRefused, EmptyConn
  <2>3. SlotsOwn'
    BY <2>2 DEF SlotsOwn, Slots
  <2>4. \A l \in Loops : KeptOwn(kept[l])'
    BY <2>1 DEF KeptOwn
  <2> QED
    BY <2>3, <2>4 DEF EventsOwn
<1>4. ASSUME NEW l \in Loops, DoOpen(l) PROVE EventsOwn'
  <2>1. lpc[l] = "dispatch" /\ ~TableFull
    BY <1>4 DEF DoOpen, Turn, TableFull, Cursor, TypeOK
  <2>2. PICK e \in Events \ evOpen : AcceptNothing(l, e) \/ \E h \in Handles : Accept(l, h, e)
    BY <1>4, <2>1, Zenon DEF DoOpen
  <2>3. PICK s \in Handles \cup {NoSocket} :
          Put(s, e) /\ evOpen' = evOpen \cup {e} /\ UNCHANGED kept
    BY <2>2 DEF AcceptNothing, Accept
  <2>4. n < MaxEvents /\ n \in Nat
    <3>1. ~ (n >= MaxEvents)
      BY <2>3, Zenon DEF Put, FirstStep
    <3> QED
      BY <3>1 DEF TypeOK
  <2>5. /\ n' = n + 1 /\ n \in Slots
        /\ \A i \in Slots : i # n => conn'[i] = conn[i] /\ evt'[i] = evt[i]
        /\ evt'[n] = e
    BY <2>3, <2>4 DEF Put, TypeOK, Slots
  <2>6. \A m \in Loops : kept'[m] = <<>>
    BY <2>1, <2>3, Alone
  <2>7. \A i \in Slots : i < n => evt[i] # e
    BY <2>2 DEF EventsOwn, SlotsOwn
  <2>8. SlotsOwn'
    BY <2>3, <2>4, <2>5, <2>7 DEF EventsOwn, SlotsOwn, Slots
  <2>9. \A m \in Loops : KeptOwn(kept[m])'
    BY <2>6 DEF KeptOwn
  <2> QED
    BY <2>8, <2>9 DEF EventsOwn
<1>5. ASSUME NEW l \in Loops, BeginClose(l) PROVE EventsOwn'
  <2> DEFINE s == cur[l]
             q == Keeps(s)
  <2>1. lpc[l] = "dispatch" /\ s \in Sockets
    BY <1>5 DEF BeginClose, Turn, Cursor, CursorOf
  <2>2. q \in Seq(Pairs) /\ KeptBefore(s, MaxEvents, q) /\ q \in Seq(Sockets \X Events)
    BY KeepsTheOthers, KeptPairs
  <2>3. /\ n' = 0 /\ \A i \in Slots : conn'[i] = NoSocket
        /\ evOpen' = evOpen \ {evt[i] : i \in {j \in Slots : conn[j] = s}}
        /\ kept'[l] = q /\ \A m \in Loops : m # l => kept'[m] = kept[m]
    BY <1>5 DEF BeginClose, EmptyConn, TypeOK
  <2>4. SlotsOwn'
    BY <2>3 DEF SlotsOwn, Slots
  <2>5. \A m \in Loops : m # l => kept'[m] = <<>>
    BY <2>1, <2>3, Alone
  <2> HIDE DEF q
  <2>6. ASSUME NEW k \in 1 .. Len(q) PROVE q[k] \in Sockets \X evOpen'
    <3>1. PICK j \in Slots : Used(s, j) /\ q[k] = <<conn[j], evt[j]>>
      BY <2>2 DEF KeptBefore, Slots
    <3>2. j < n /\ evt[j] \in evOpen /\ q[k] \in Sockets \X Events
      BY <2>2, <3>1 DEF Used, EventsOwn, SlotsOwn, TypeOK, Slots
    <3>3. \A i \in Slots : conn[i] = s => evt[i] # evt[j]
      <4> TAKE i \in Slots
      <4> HAVE conn[i] = s
      <4>1. i < n /\ i # j
        BY <2>1, <3>1 DEF Used, EventsOwn, SlotsOwn, Slots, TypeOK, Sockets
      <4> QED
        BY <3>2, <4>1 DEF EventsOwn, SlotsOwn
    <3>4. evt[j] \in evOpen'
      BY <2>3, <3>2, <3>3
    <3> QED
      BY <3>1, <3>2, <3>4
  <2>7. \A k, m \in 1 .. Len(q) : q[k][2] = q[m][2] => k = m
    <3>1. KeptBefore(s, MaxEvents, q)
      BY <2>2
    <3> QED
      BY <3>1 DEF KeptBefore
  <2>8. \A m \in Loops : KeptOwn(kept[m])'
    <3> TAKE m \in Loops
    <3>1. CASE m = l
      <4>1. kept'[m] = q /\ \A i \in Slots : ~ (i < n')
        BY <2>3, <3>1 DEF Slots
      <4> QED
        BY <2>6, <2>7, <4>1 DEF KeptOwn
    <3>2. CASE m # l
      BY <2>5, <3>2 DEF KeptOwn
    <3> QED
      BY <3>1, <3>2
  <2> QED
    BY <2>4, <2>8 DEF EventsOwn
<1>6. ASSUME NEW l \in Loops, Refill(l) PROVE EventsOwn'
  <2> DEFINE q == kept[l]
             r == Tail(q)
  <2>1. /\ lpc[l] = "refill" /\ q # <<>> /\ n' = n + 1 /\ UNCHANGED evOpen
        /\ conn' = [conn EXCEPT ![n] = q[1][1]] /\ evt' = [evt EXCEPT ![n] = q[1][2]]
        /\ kept' = [kept EXCEPT ![l] = r]
    BY <1>6 DEF Refill, winsock
  <2>2. /\ q \in Seq(Sockets \X Events) /\ Len(q) > 0 /\ KeptOwn(q)
        /\ n + Len(q) <= MaxEvents /\ n \in Nat
    BY <2>1, SMTT(30) DEF TypeOK, EventsOwn, Cursor, CursorOf
  <2>3. /\ Len(r) = Len(q) - 1 /\ \A k \in 1 .. Len(r) : r[k] = q[k + 1]
        /\ Len(q) \in Nat
    BY <2>2
  <2>4. n \in Slots
    BY <2>2, <2>3 DEF Slots
  <2>5. /\ \A i \in Slots : i # n => conn'[i] = conn[i] /\ evt'[i] = evt[i]
        /\ evt'[n] = q[1][2]
        /\ kept'[l] = r
    BY <2>1, <2>4 DEF TypeOK
  <2>6. \A m \in Loops : m # l => kept'[m] = <<>>
    BY <2>1, Alone, ZenonT(40) DEF TypeOK
  <2> HIDE DEF q, r
  <2>7. q[1][2] \in evOpen /\ \A i \in Slots : i < n => evt[i] # q[1][2]
    BY <2>2, <2>3 DEF KeptOwn
  <2>8. SlotsOwn'
    BY <2>1, <2>2, <2>4, <2>5, <2>7 DEF EventsOwn, SlotsOwn, Slots
  <2>9. ASSUME NEW k \in 1 .. Len(r)
        PROVE  /\ r[k] \in Sockets \X evOpen
               /\ \A i \in Slots : i < n + 1 => evt'[i] # r[k][2]
               /\ \A m \in 1 .. Len(r) : r[k][2] = r[m][2] => k = m
    <3>1. k + 1 \in 1 .. Len(q) /\ 1 \in 1 .. Len(q) /\ k + 1 # 1 /\ r[k] = q[k + 1]
      BY <2>3
    <3>2. r[k] \in Sockets \X evOpen /\ q[1][2] # r[k][2]
      BY <2>2, <3>1 DEF KeptOwn
    <3>3. \A i \in Slots : i < n + 1 => evt'[i] # r[k][2]
      BY <2>2, <2>4, <2>5, <3>1, <3>2 DEF KeptOwn, Slots
    <3>4. \A m \in 1 .. Len(r) : r[k][2] = r[m][2] => k = m
      <4> TAKE m \in 1 .. Len(r)
      <4>1. m + 1 \in 1 .. Len(q) /\ r[m] = q[m + 1]
        BY <2>3
      <4>2. q[k + 1][2] = q[m + 1][2] => k + 1 = m + 1
        BY <2>2, <3>1, <4>1 DEF KeptOwn
      <4> QED
        BY <3>1, <4>1, <4>2
    <3> QED
      BY <3>2, <3>3, <3>4
  <2>10. \A m \in Loops : KeptOwn(kept[m])'
    BY <2>1, <2>5, <2>6, <2>9 DEF KeptOwn
  <2> QED
    BY <2>8, <2>10 DEF EventsOwn
<1>7. CASE PeerConnects \/ PeerAborts \/ \E s \in Sockets : PeerSends(s) \/ PeerCloses(s)
  BY <1>1, <1>7 DEF PeerConnects, PeerAborts, PeerSends, PeerCloses, loops, object, winsock
<1>8. CASE Run \/ Stop \/ DisconnectConnections \/ ReadSlot \/ ControlDone
        \/ \E s \in Sockets : DisconnectFound(s)
  BY <1>1, <1>8 DEF Run, Stop, DisconnectConnections, ReadSlot, ControlDone, DisconnectFound,
     object, loops, winsock
<1>9. ASSUME NEW l \in Loops,
             \/ Enter(l) \/ Raise(l) \/ TestRunning(l) \/ WaitAny(l) \/ SkipSlot(l)
             \/ TakeEvents(l) \/ ScanDone(l) \/ NextSlot(l) \/ EndClose(l)
             \/ \E f \in DOMAIN Rank : EventFails(l, f) \/ CallBack(l, f)
      PROVE  EventsOwn'
  BY <1>1, <1>9 DEF Enter, Raise, TestRunning, WaitAny, SkipSlot, TakeEvents, ScanDone, NextSlot,
     EndClose, EventFails, CallBack, object, winsock
<1>10. CASE UNCHANGED vars
  BY <1>1, <1>10 DEF vars, object, loops, winsock
<1> QED
  BY <1>2, <1>3, <1>4, <1>5, <1>6, <1>7, <1>8, <1>9, <1>10, Zenon
     DEF Next, ControlStep, LoopStep, Deliver

LEMMA PlacedStep ==
  ASSUME Sound, FirstStep, [Next]_vars
  PROVE  Placed'
<1> USE AsyncSocketAssumption DEF Sound
\* A handle that stays open and keeps its event stays where it is.
<1>1. ASSUME UNCHANGED <<n, conn, evt, kept>>, NEW h \in Handles, assoc'[h] = assoc[h],
             sock[h] = "open",
             \A l \in Loops : lpc[l] = "refill" => lpc'[l] = "refill" /\ cur'[l] = cur[l]
      PROVE  InTable(h)' \/ SetAside(h)' \/ BeingClosed(h)'
  <2>1. InTable(h) \/ SetAside(h) \/ BeingClosed(h)
    BY <1>1 DEF Placed
  <2>2. InTable(h) => InTable(h)'
    BY <1>1 DEF InTable
  <2>3. SetAside(h) => SetAside(h)'
    BY <1>1 DEF SetAside
  <2>4. BeingClosed(h) => BeingClosed(h)'
    BY <1>1 DEF BeingClosed
  <2> QED
    BY <2>1, <2>2, <2>3, <2>4
<1>2. CASE PeerConnects \/ PeerAborts \/ \E s \in Sockets : PeerSends(s) \/ PeerCloses(s)
  BY <1>1, <1>2 DEF PeerConnects, PeerAborts, PeerSends, PeerCloses, loops, object, winsock, Placed
<1>3. ASSUME NEW e \in Events, Open(e) \/ OpenRefused(e) PROVE Placed'
  <2>1. n = 0 /\ \A l \in Loops : lpc[l] = "off" /\ kept[l] = <<>>
    BY <1>3, Opening
  <2>2. \A h \in Handles : sock[h] # "open"
    BY <2>1 DEF Placed, InTable, SetAside, BeingClosed, Slots
  <2> QED
    BY <1>3, <2>2 DEF Open, OpenRefused, Placed
<1>4. CASE Run
  <2>1. UNCHANGED <<n, conn, evt, kept, sock, assoc, cur>>
    BY <1>4 DEF Run, object, winsock
  <2>2. \A l \in Loops : lpc[l] # "refill"
    BY <1>4 DEF Run, OneLoop
  <2> QED
    BY <1>1, <2>1, <2>2 DEF Placed
<1>5. CASE Stop \/ DisconnectConnections \/ ReadSlot \/ ControlDone
  BY <1>1, <1>5 DEF Stop, DisconnectConnections, ReadSlot, ControlDone, object, loops, winsock,
     Placed
<1>6. ASSUME NEW s \in Sockets, DisconnectFound(s) PROVE Placed'
  <2>1. /\ UNCHANGED <<n, conn, evt, kept, lpc, cur>>
        /\ sock'[s] = "free"
        /\ \A h \in Handles : h # s => sock'[h] = sock[h] /\ assoc'[h] = assoc[h]
    BY <1>6 DEF DisconnectFound, CloseSocket, object, loops, TypeOK, Sockets
  <2> QED
    BY <1>1, <2>1 DEF Placed
<1>7. ASSUME NEW l \in Loops,
             \/ Enter(l) \/ Raise(l) \/ TestRunning(l) \/ WaitAny(l) \/ SkipSlot(l)
             \/ ScanDone(l) \/ NextSlot(l)
             \/ \E f \in DOMAIN Rank : EventFails(l, f) \/ CallBack(l, f)
      PROVE  Placed'
  <2>1. UNCHANGED <<n, conn, evt, kept, cur, sock, assoc>>
    BY <1>7 DEF Enter, Raise, TestRunning, WaitAny, SkipSlot, ScanDone, NextSlot, EventFails,
       CallBack, object, winsock
  <2>2. lpc[l] # "refill"
    BY <1>7 DEF Enter, Raise, TestRunning, WaitAny, SkipSlot, ScanDone, NextSlot, EventFails,
       CallBack, Turn
  <2>3. lpc' = lpc \/ \E p : lpc' = [lpc EXCEPT ![l] = p]
    BY <1>7, Zenon DEF Enter, Raise, TestRunning, WaitAny, SkipSlot, ScanDone, NextSlot,
       EventFails, CallBack, Goto
  <2>4. \A m \in Loops : lpc[m] = "refill" => lpc'[m] = "refill"
    BY <2>2, <2>3 DEF TypeOK
  <2> QED
    BY <1>1, <2>1, <2>4 DEF Placed
<1>8. ASSUME NEW l \in Loops, TakeEvents(l) PROVE Placed'
  <2>1. UNCHANGED <<n, conn, evt, kept, sock, assoc>>
    BY <1>8 DEF TakeEvents, object
  <2>2. \A m \in Loops : lpc[m] = "refill" => lpc'[m] = "refill" /\ cur'[m] = cur[m]
    BY <1>8 DEF TakeEvents, Goto, TypeOK
  <2> QED
    BY <1>1, <2>1, <2>2 DEF Placed
<1>9. ASSUME NEW l \in Loops, DoOpen(l) PROVE Placed'
  <2>1. lpc[l] = "dispatch" /\ ~TableFull
    BY <1>9 DEF DoOpen, Turn, TableFull, Cursor, TypeOK
  <2>2. PICK e \in Events \ evOpen : AcceptNothing(l, e) \/ \E h \in Handles : Accept(l, h, e)
    BY <1>9, <2>1, Zenon DEF DoOpen
  <2>3. PICK s \in Handles \cup {NoSocket} :
          /\ Put(s, e) /\ UNCHANGED <<kept, lpc, cur>>
          /\ s \in Handles => sock[s] = "free" /\ assoc'[s] = e
          /\ \A h \in Handles : h # s => sock'[h] = sock[h] /\ assoc'[h] = assoc[h]
    <3>1. CASE AcceptNothing(l, e)
      BY <3>1 DEF AcceptNothing
    <3>2. ASSUME NEW h \in Handles, Accept(l, h, e)
          PROVE  /\ Put(h, e) /\ UNCHANGED <<kept, lpc, cur>>
                 /\ sock[h] = "free" /\ assoc'[h] = e
                 /\ \A g \in Handles : g # h => sock'[g] = sock[g] /\ assoc'[g] = assoc[g]
      BY <3>2 DEF Accept, TypeOK, Sockets
    <3> QED
      BY <2>2, <3>1, <3>2
  <2>4. n < MaxEvents /\ n \in Nat
    <3>1. ~ (n >= MaxEvents)
      BY <2>3, Zenon DEF Put, FirstStep
    <3> QED
      BY <3>1 DEF TypeOK
  <2>5. /\ n' = n + 1 /\ n \in Slots /\ conn'[n] = s /\ evt'[n] = e
        /\ \A i \in Slots : i # n => conn'[i] = conn[i] /\ evt'[i] = evt[i]
    BY <2>3, <2>4 DEF Put, TypeOK, Slots
  <2>6. ASSUME NEW h \in Handles, sock'[h] = "open"
        PROVE  InTable(h)' \/ SetAside(h)' \/ BeingClosed(h)'
    <3>1. CASE h = s
      BY <2>3, <2>4, <2>5, <3>1 DEF InTable
    <3>2. CASE h # s
      <4>1. InTable(h) \/ SetAside(h) \/ BeingClosed(h)
        BY <2>3, <2>6, <3>2 DEF Placed
      <4>2. ~SetAside(h) /\ ~BeingClosed(h)
        BY <2>1, Alone DEF SetAside, BeingClosed
      <4>3. PICK i \in Slots : i < n /\ conn[i] = h /\ evt[i] = assoc[h]
        BY <4>1, <4>2 DEF InTable
      <4>4. i < n' /\ conn'[i] = h /\ evt'[i] = assoc'[h]
        BY <2>3, <2>4, <2>5, <3>2, <4>3 DEF Slots
      <4> QED
        BY <4>4 DEF InTable
    <3> QED
      BY <3>1, <3>2
  <2> QED
    BY <2>6 DEF Placed
<1>10. ASSUME NEW l \in Loops, BeginClose(l) PROVE Placed'
  <2> DEFINE s == cur[l]
             q == Keeps(s)
  <2>1. lpc[l] = "dispatch"
    BY <1>10 DEF BeginClose, Turn
  <2>2. KeptBefore(s, MaxEvents, q) /\ q \in Seq(Pairs)
    BY KeepsTheOthers
  <2>3. /\ kept'[l] = q /\ lpc'[l] = "refill" /\ UNCHANGED <<sock, assoc, cur>>
    BY <1>10 DEF BeginClose, Goto, TypeOK
  <2> HIDE DEF q
  <2>4. ASSUME NEW h \in Handles, sock'[h] = "open"
        PROVE  InTable(h)' \/ SetAside(h)' \/ BeingClosed(h)'
    <3>1. CASE h = s
      BY <2>3, <3>1 DEF BeingClosed
    <3>2. CASE h # s
      <4>1. InTable(h) \/ SetAside(h) \/ BeingClosed(h)
        BY <2>3, <2>4 DEF Placed
      <4>2. ~SetAside(h) /\ ~BeingClosed(h)
        BY <2>1, Alone DEF SetAside, BeingClosed
      <4>3. PICK i \in Slots : i < n /\ conn[i] = h /\ evt[i] = assoc[h]
        BY <4>1, <4>2 DEF InTable
      <4>4. Used(s, i) /\ i \in 0 .. MaxEvents - 1
        BY <3>2, <4>3 DEF Used, Slots
      <4>5. PICK k \in 1 .. Len(q) : q[k] = <<conn[i], evt[i]>>
        BY <2>2, <4>4 DEF KeptBefore
      <4>6. k \in 1 .. Len(kept'[l]) /\ kept'[l][k] = <<h, assoc'[h]>>
        BY <2>3, <4>3, <4>5
      <4> QED
        BY <4>6 DEF SetAside
    <3> QED
      BY <3>1, <3>2
  <2> QED
    BY <2>4 DEF Placed
<1>11. ASSUME NEW l \in Loops, Refill(l) PROVE Placed'
  <2> DEFINE q == kept[l]
             r == Tail(q)
  <2>1. /\ lpc[l] = "refill" /\ q # <<>> /\ n' = n + 1 /\ UNCHANGED <<sock, assoc, cur, lpc>>
        /\ conn' = [conn EXCEPT ![n] = q[1][1]] /\ evt' = [evt EXCEPT ![n] = q[1][2]]
        /\ kept' = [kept EXCEPT ![l] = r]
    BY <1>11 DEF Refill, winsock
  <2>2. q \in Seq(Sockets \X Events) /\ Len(q) > 0 /\ n + Len(q) <= MaxEvents /\ n \in Nat
    BY <2>1 DEF TypeOK, Cursor, CursorOf
  <2>3. /\ Len(r) = Len(q) - 1 /\ \A k \in 1 .. Len(r) : r[k] = q[k + 1]
        /\ Len(q) \in Nat
    BY <2>2
  <2>4. n \in Slots
    BY <2>2, <2>3 DEF Slots
  <2>5. /\ \A i \in Slots : i # n => conn'[i] = conn[i] /\ evt'[i] = evt[i]
        /\ conn'[n] = q[1][1] /\ evt'[n] = q[1][2] /\ kept'[l] = r
    BY <2>1, <2>4 DEF TypeOK
  <2>6. \A m \in Loops : m # l => kept[m] = <<>>
    BY <2>1, Alone
  <2> HIDE DEF r
  <2>7. ASSUME NEW h \in Handles, sock'[h] = "open"
        PROVE  InTable(h)' \/ SetAside(h)' \/ BeingClosed(h)'
    <3>1. InTable(h) \/ SetAside(h) \/ BeingClosed(h)
      BY <2>1, <2>7 DEF Placed
    <3>2. CASE InTable(h)
      <4>1. PICK i \in Slots : i < n /\ conn[i] = h /\ evt[i] = assoc[h]
        BY <3>2 DEF InTable
      <4>2. i < n' /\ conn'[i] = h /\ evt'[i] = assoc'[h]
        BY <2>1, <2>2, <2>5, <4>1 DEF Slots
      <4> QED
        BY <4>2 DEF InTable
    <3>3. CASE SetAside(h)
      <4>1. PICK k \in 1 .. Len(q) : q[k] = <<h, assoc[h]>>
        BY <2>6, <3>3 DEF SetAside
      <4>2. CASE k = 1
        BY <2>1, <2>2, <2>4, <2>5, <4>1, <4>2 DEF InTable
      <4>3. CASE k # 1
        <5>1. k - 1 \in 1 .. Len(r) /\ (k - 1) + 1 = k
          BY <2>3, <4>3
        <5>2. r[k - 1] = <<h, assoc[h]>>
          BY <2>3, <4>1, <5>1
        <5>3. k - 1 \in 1 .. Len(kept'[l]) /\ kept'[l][k - 1] = <<h, assoc'[h]>>
          BY <2>1, <2>5, <5>1, <5>2
        <5> QED
          BY <5>3 DEF SetAside
      <4> QED
        BY <4>2, <4>3
    <3>4. CASE BeingClosed(h)
      BY <2>1, <3>4 DEF BeingClosed
    <3> QED
      BY <3>1, <3>2, <3>3, <3>4
  <2> QED
    BY <2>7 DEF Placed
<1>12. ASSUME NEW l \in Loops, EndClose(l) PROVE Placed'
  <2> DEFINE s == cur[l]
  <2>1. /\ UNCHANGED <<n, conn, evt, kept, cur>> /\ kept[l] = <<>>
        /\ sock' = [sock EXCEPT ![s] = "free"] /\ assoc' = [assoc EXCEPT ![s] = NoEvent]
        /\ lpc' = [lpc EXCEPT ![l] = "dispatch"] /\ lpc[l] = "refill"
    BY <1>12 DEF EndClose, CloseSocket, Goto, object
  <2>2. ASSUME NEW h \in Handles, sock'[h] = "open"
        PROVE  InTable(h)' \/ SetAside(h)' \/ BeingClosed(h)'
    <3>1. h # s /\ sock[h] = "open" /\ assoc'[h] = assoc[h]
      BY <2>1, <2>2 DEF TypeOK, Sockets
    <3>2. ~BeingClosed(h)
      BY <2>1, <3>1, Alone DEF BeingClosed
    <3>3. InTable(h) \/ SetAside(h)
      BY <3>1, <3>2 DEF Placed
    <3>4. InTable(h) => InTable(h)'
      BY <2>1, <3>1 DEF InTable
    <3>5. SetAside(h) => SetAside(h)'
      BY <2>1, <3>1 DEF SetAside
    <3> QED
      BY <3>3, <3>4, <3>5
  <2> QED
    BY <2>2 DEF Placed
<1>13. CASE UNCHANGED vars
  BY <1>1, <1>13 DEF vars, object, loops, winsock, Placed
<1> QED
  BY <1>2, <1>3, <1>4, <1>5, <1>6, <1>7, <1>8, <1>9, <1>10, <1>11, <1>12, <1>13, Zenon
     DEF Next, ControlStep, LoopStep, Deliver

LEMMA OwnPlaceStep ==
  ASSUME Sound, FirstStep, [Next]_vars, server
  PROVE  OwnPlace'
<1> USE AsyncSocketAssumption DEF Sound
<1>0. OwnPlace /\ OwnTold
  BY DEF OwnFirst
<1>1. ASSUME UNCHANGED <<n, conn, evt, kept>>, assoc'[Own] = assoc[Own],
             runs' # 0 \/ mpc' = "opened" => runs # 0 \/ mpc = "opened"
      PROVE  OwnPlace'
  BY <1>0, <1>1 DEF OwnPlace
<1>2. CASE PeerConnects \/ PeerAborts \/ \E s \in Sockets : PeerSends(s) \/ PeerCloses(s)
  BY <1>1, <1>2 DEF PeerConnects, PeerAborts, PeerSends, PeerCloses, loops, object, winsock, control
<1>3. ASSUME NEW e \in Events, Open(e) PROVE OwnPlace'
  <2>1. n' = 1 /\ conn'[0] = Own /\ evt'[0] = e /\ assoc'[Own] = e
    BY <1>3 DEF Open, EmptyConn, EmptyEvt, Slots, Sockets, TypeOK
  <2> QED
    BY <2>1 DEF OwnPlace
<1>4. ASSUME NEW e \in Events, OpenRefused(e) PROVE OwnPlace'
  BY <1>4 DEF OpenRefused
<1>5. CASE Run
  BY <1>1, <1>5 DEF Run, object, winsock
<1>6. CASE Stop \/ DisconnectConnections \/ ReadSlot \/ ControlDone
  BY <1>1, <1>6 DEF Stop, DisconnectConnections, ReadSlot, ControlDone, object, loops, winsock
<1>7. ASSUME NEW s \in Sockets, DisconnectFound(s) PROVE OwnPlace'
  <2>1. s # Own
    BY <1>0, <1>7 DEF DisconnectFound, OwnTold
  <2>2. assoc'[Own] = assoc[Own]
    BY <1>7, <2>1 DEF DisconnectFound, CloseSocket, TypeOK, Sockets
  <2> QED
    BY <1>1, <1>7, <2>2 DEF DisconnectFound, object, loops
<1>8. ASSUME NEW l \in Loops,
             \/ Enter(l) \/ Raise(l) \/ TestRunning(l) \/ WaitAny(l) \/ SkipSlot(l)
             \/ TakeEvents(l) \/ ScanDone(l) \/ NextSlot(l)
             \/ \E f \in DOMAIN Rank : EventFails(l, f) \/ CallBack(l, f)
      PROVE  OwnPlace'
  BY <1>1, <1>8 DEF Enter, Raise, TestRunning, WaitAny, SkipSlot, TakeEvents, ScanDone, NextSlot,
     EventFails, CallBack, object, winsock, control
<1>9. ASSUME NEW l \in Loops, DoOpen(l) PROVE OwnPlace'
  <2>1. lpc[l] = "dispatch" /\ ~TableFull
    BY <1>9 DEF DoOpen, Turn, TableFull, Cursor, TypeOK
  <2>2. PICK e \in Events \ evOpen : AcceptNothing(l, e) \/ \E h \in Handles : Accept(l, h, e)
    BY <1>9, <2>1, Zenon DEF DoOpen
  <2>3. PICK s : Put(s, e) /\ assoc'[Own] = assoc[Own] /\ UNCHANGED <<runs, mpc>>
    <3>1. CASE AcceptNothing(l, e)
      BY <3>1 DEF AcceptNothing, control
    <3>2. ASSUME NEW h \in Handles, Accept(l, h, e)
          PROVE  Put(h, e) /\ assoc'[Own] = assoc[Own] /\ UNCHANGED <<runs, mpc>>
      BY <3>2 DEF Accept, TypeOK, Sockets, control
    <3> QED
      BY <2>2, <3>1, <3>2
  <2>4. n < MaxEvents /\ n \in Nat
    <3>1. ~ (n >= MaxEvents)
      BY <2>3, Zenon DEF Put, FirstStep
    <3> QED
      BY <3>1 DEF TypeOK
  <2>5. runs # 0 /\ \A m \in Loops : kept[m] = <<>>
    BY <2>1, Alone
  <2>6. n # 0 /\ conn[0] = Own /\ evt[0] = assoc[Own]
    BY <1>0, <2>4, <2>5 DEF OwnPlace
  <2>7. n' = n + 1 /\ conn'[0] = conn[0] /\ evt'[0] = evt[0]
    BY <2>3, <2>4, <2>6 DEF Put, TypeOK, Slots
  <2> QED
    BY <2>3, <2>4, <2>6, <2>7 DEF OwnPlace
<1>10. ASSUME NEW l \in Loops, BeginClose(l) PROVE OwnPlace'
  <2> DEFINE s == cur[l]
             q == Keeps(s)
  <2>1. lpc[l] = "dispatch" /\ "CLOSE" \in todo[l]
    BY <1>10 DEF BeginClose, Turn
  <2>2. KeptBefore(s, MaxEvents, q) /\ q \in Seq(Pairs)
    BY KeepsTheOthers
  <2>3. kept'[l] = q /\ n' = 0 /\ UNCHANGED assoc
    BY <1>10 DEF BeginClose, TypeOK
  <2> HIDE DEF q
  <2>4. runs # 0 /\ \A m \in Loops : kept[m] = <<>>
    BY <2>1, Alone
  <2>5. conn[0] = Own /\ evt[0] = assoc[Own]
    BY <1>0, <2>4 DEF OwnPlace, TypeOK
  <2>6. s # Own
    BY <1>0, <2>1 DEF OwnTold
  <2>7. Used(s, 0)
    BY <2>5, <2>6 DEF Used
  <2>8. Len(q) > 0 /\ q[1] = <<Own, assoc[Own]>>
    BY <2>2, <2>5, <2>7 DEF KeptBefore
  <2>9. Len(kept'[l]) > 0 /\ kept'[l][1] = <<Own, assoc'[Own]>>
    BY <2>3, <2>8
  <2> QED
    BY <2>3, <2>9 DEF OwnPlace
<1>11. ASSUME NEW l \in Loops, Refill(l) PROVE OwnPlace'
  <2> DEFINE q == kept[l]
  <2>1. /\ lpc[l] = "refill" /\ q # <<>> /\ n' = n + 1 /\ UNCHANGED <<assoc, runs, mpc>>
        /\ conn' = [conn EXCEPT ![n] = q[1][1]] /\ evt' = [evt EXCEPT ![n] = q[1][2]]
    BY <1>11 DEF Refill, winsock, control
  <2>2. q \in Seq(Sockets \X Events) /\ Len(q) > 0 /\ n + Len(q) <= MaxEvents /\ n \in Nat
    BY <2>1 DEF TypeOK, Cursor, CursorOf
  <2>3. runs # 0 /\ \A m \in Loops : m # l => kept[m] = <<>>
    BY <2>1, Alone
  <2>4. n \in Slots /\ Len(q) \in Nat
    BY <2>2 DEF Slots
  <2>5. conn'[0] = Own /\ evt'[0] = assoc[Own]
    <3>1. CASE n = 0
      <4>1. q[1] = <<Own, assoc[Own]>>
        BY <1>0, <2>3, <3>1 DEF OwnPlace
      <4> QED
        BY <2>1, <2>4, <3>1, <4>1 DEF TypeOK
    <3>2. CASE n > 0
      <4>1. conn[0] = Own /\ evt[0] = assoc[Own]
        BY <1>0, <2>3, <3>2 DEF OwnPlace
      <4>2. conn'[0] = conn[0] /\ evt'[0] = evt[0]
        BY <2>1, <2>4, <3>2 DEF TypeOK, Slots
      <4> QED
        BY <4>1, <4>2
    <3> QED
      BY <2>2, <3>1, <3>2
  <2> QED
    BY <2>1, <2>2, <2>5 DEF OwnPlace
<1>12. ASSUME NEW l \in Loops, EndClose(l) PROVE OwnPlace'
  <2>1. cur[l] # Own
    BY <1>0, <1>12 DEF EndClose, OwnTold
  <2>2. assoc'[Own] = assoc[Own]
    BY <1>12, <2>1 DEF EndClose, CloseSocket, TypeOK, Sockets
  <2> QED
    BY <1>1, <1>12, <2>2 DEF EndClose, object, control
<1>13. CASE UNCHANGED vars
  BY <1>1, <1>13 DEF vars, object, loops, winsock, control
<1> QED
  BY <1>2, <1>3, <1>4, <1>5, <1>6, <1>7, <1>8, <1>9, <1>10, <1>11, <1>12, <1>13, Zenon
     DEF Next, ControlStep, LoopStep, Deliver

LEMMA OwnToldStep ==
  ASSUME Sound, FirstStep, [Next]_vars, server
  PROVE  OwnTold'
<1> USE AsyncSocketAssumption DEF Sound
<1>0. OwnPlace /\ OwnTold
  BY DEF OwnFirst
<1>1. ASSUME rec'[Own] = rec[Own], Own \notin found',
             \A l \in Loops : cur'[l] = cur[l] /\ todo'[l] \subseteq todo[l]
                              /\ (lpc'[l] = "refill" => lpc[l] = "refill" \/ cur[l] # Own)
      PROVE  OwnTold'
  BY <1>0, <1>1 DEF OwnTold
<1>2. CASE PeerConnects
  BY <1>0, <1>2 DEF PeerConnects, OwnTold, control, loops, TypeOK, Sockets
<1>3. CASE PeerAborts
  BY <1>0, <1>1, <1>3 DEF PeerAborts, OwnTold, control, loops, winsock
<1>4. ASSUME NEW s \in Sockets, PeerSends(s) \/ PeerCloses(s) PROVE OwnTold'
  <2>1. s # Own
    BY <1>4 DEF PeerSends, PeerCloses, Connected
  <2>2. rec'[Own] = rec[Own]
    BY <1>4, <2>1 DEF PeerSends, PeerCloses, TypeOK, Sockets
  <2> QED
    BY <1>0, <1>1, <1>4, <2>2 DEF PeerSends, PeerCloses, OwnTold, control, loops
<1>5. ASSUME NEW e \in Events, Open(e) PROVE OwnTold'
  BY <1>0, <1>5 DEF Open, OwnTold, loops, TypeOK, Sockets
<1>6. ASSUME NEW e \in Events, OpenRefused(e) PROVE OwnTold'
  BY <1>6 DEF OpenRefused
<1>7. CASE Run
  <2>1. \A l \in Loops : lpc'[l] = "refill" => lpc[l] = "refill"
    BY <1>7 DEF Run, TypeOK
  <2> QED
    BY <1>0, <1>1, <1>7, <2>1 DEF Run, object, winsock, OwnTold
<1>8. CASE Stop \/ DisconnectConnections \/ ControlDone
  BY <1>0, <1>1, <1>8 DEF Stop, DisconnectConnections, ControlDone, object, loops, winsock, OwnTold
<1>9. CASE ReadSlot
  <2>1. Own \notin found'
    BY <1>0, <1>9 DEF ReadSlot, OwnTold
  <2> QED
    BY <1>1, <1>9, <2>1 DEF ReadSlot, loops, winsock
<1>10. ASSUME NEW s \in Sockets, DisconnectFound(s) PROVE OwnTold'
  <2>1. s # Own /\ Own \notin found'
    BY <1>0, <1>10 DEF DisconnectFound, OwnTold
  <2>2. rec'[Own] = rec[Own]
    BY <1>10, <2>1 DEF DisconnectFound, CloseSocket, TypeOK, Sockets
  <2> QED
    BY <1>1, <1>10, <2>1, <2>2 DEF DisconnectFound, loops
<1>11. ASSUME NEW l \in Loops,
             \/ Enter(l) \/ Raise(l) \/ TestRunning(l) \/ WaitAny(l) \/ SkipSlot(l)
             \/ ScanDone(l) \/ NextSlot(l)
      PROVE  OwnTold'
  <2>1. PICK p \in {"off", "raise", "test", "wait", "scan", "dispatch"} :
          lpc' = lpc \/ lpc' = [lpc EXCEPT ![l] = p]
    BY <1>11 DEF Enter, Raise, TestRunning, WaitAny, SkipSlot, ScanDone, NextSlot, Goto
  <2>2. \A m \in Loops : lpc'[m] = "refill" => lpc[m] = "refill"
    BY <2>1 DEF TypeOK
  <2>3. UNCHANGED <<rec, found, cur, todo>>
    BY <1>11 DEF Enter, Raise, TestRunning, WaitAny, SkipSlot, ScanDone, NextSlot, winsock, control
  <2> QED
    BY <1>0, <1>1, <2>2, <2>3 DEF OwnTold
<1>12. ASSUME NEW l \in Loops, TakeEvents(l) PROVE OwnTold'
  <2> DEFINE s == conn[idx[l]]
  <2>1. /\ \A m \in Loops : m # l => cur'[m] = cur[m] /\ todo'[m] = todo[m] /\ lpc'[m] = lpc[m]
        /\ cur'[l] = s /\ lpc'[l] = "dispatch"
        /\ todo'[l] = IF s \in Sockets THEN rec[s] ELSE {}
        /\ UNCHANGED found
    BY <1>12 DEF TakeEvents, Goto, TypeOK, control
  <2>2. rec'[Own] \subseteq rec[Own]
    BY <1>12 DEF TakeEvents, Sockets
  <2> HIDE DEF s
  <2>3. s = Own => todo'[l] \subseteq {"ACCEPT"}
    BY <1>0, <2>1 DEF OwnTold
  <2> QED
    BY <1>0, <2>1, <2>2, <2>3 DEF OwnTold
<1>13. ASSUME NEW l \in Loops, NEW f \in DOMAIN Rank, EventFails(l, f) \/ CallBack(l, f)
       PROVE  OwnTold'
  <2>1. lpc' = lpc \/ lpc' = [lpc EXCEPT ![l] = "off"]
    BY <1>13 DEF EventFails, CallBack, Goto
  <2>2. \A m \in Loops : lpc'[m] = "refill" => lpc[m] = "refill"
    BY <2>1 DEF TypeOK
  <2>3. UNCHANGED <<rec, found, cur>>
    BY <1>13 DEF EventFails, CallBack, winsock, control
  <2>4. \A m \in Loops : todo'[m] \subseteq todo[m]
    <3>1. PICK t \in {{}, todo[l] \ {f}} : todo' = [todo EXCEPT ![l] = t]
      BY <1>13 DEF EventFails, CallBack, Handled
    <3> QED
      BY <3>1 DEF TypeOK
  <2> QED
    BY <1>0, <1>1, <2>2, <2>3, <2>4 DEF OwnTold
<1>14. ASSUME NEW l \in Loops, DoOpen(l) PROVE OwnTold'
  <2>1. lpc[l] = "dispatch" /\ ~TableFull
    BY <1>14 DEF DoOpen, Turn, TableFull, Cursor, TypeOK
  <2>2. PICK e \in Events \ evOpen : AcceptNothing(l, e) \/ \E h \in Handles : Accept(l, h, e)
    BY <1>14, <2>1, Zenon DEF DoOpen
  <2>3. UNCHANGED <<found, cur, lpc>> /\ Handled(l, "ACCEPT")
    BY <2>2 DEF AcceptNothing, Accept, control
  <2>4. \A m \in Loops : todo'[m] \subseteq todo[m]
    BY <2>3 DEF Handled, TypeOK
  <2>5. rec'[Own] \subseteq rec[Own] \cup {"ACCEPT"}
    <3>1. CASE AcceptNothing(l, e)
      BY <3>1 DEF AcceptNothing
    <3>2. ASSUME NEW h \in Handles, Accept(l, h, e) PROVE rec'[Own] \subseteq rec[Own] \cup {"ACCEPT"}
      BY <3>2 DEF Accept, TypeOK, Sockets
    <3> QED
      BY <2>2, <3>1, <3>2
  <2> QED
    BY <1>0, <2>3, <2>4, <2>5 DEF OwnTold
<1>15. ASSUME NEW l \in Loops, BeginClose(l) PROVE OwnTold'
  <2>1. "CLOSE" \in todo[l] /\ Handled(l, "CLOSE") /\ UNCHANGED <<rec, found, cur>>
    BY <1>15 DEF BeginClose, Turn, control
  <2>2. cur[l] # Own
    BY <1>0, <2>1 DEF OwnTold
  <2>3. \A m \in Loops : lpc'[m] = "refill" => lpc[m] = "refill" \/ m = l
    BY <1>15 DEF BeginClose, Goto, TypeOK
  <2>4. \A m \in Loops : todo'[m] \subseteq todo[m]
    BY <2>1 DEF Handled, TypeOK
  <2> QED
    BY <1>0, <1>1, <2>1, <2>2, <2>3, <2>4 DEF OwnTold
<1>16. ASSUME NEW l \in Loops, Refill(l) PROVE OwnTold'
  BY <1>0, <1>1, <1>16 DEF Refill, winsock, control, OwnTold
<1>17. ASSUME NEW l \in Loops, EndClose(l) PROVE OwnTold'
  <2>1. cur[l] # Own
    BY <1>0, <1>17 DEF EndClose, OwnTold
  <2>2. rec'[Own] = rec[Own] /\ UNCHANGED <<found, cur, todo>>
    BY <1>17, <2>1 DEF EndClose, CloseSocket, TypeOK, Sockets, control
  <2>3. \A m \in Loops : lpc'[m] = "refill" => lpc[m] = "refill"
    BY <1>17 DEF EndClose, Goto, TypeOK
  <2> QED
    BY <1>0, <1>1, <2>2, <2>3 DEF OwnTold
<1>18. CASE UNCHANGED vars
  BY <1>0, <1>1, <1>18 DEF vars, loops, winsock, control, OwnTold
<1> QED
  BY <1>2, <1>3, <1>4, <1>5, <1>6, <1>7, <1>8, <1>9, <1>10, <1>11, <1>12, <1>13, <1>14, <1>15,
     <1>16, <1>17, <1>18, Zenon DEF Next, ControlStep, LoopStep, Deliver

-----------------------------------------------------------------------------
(* Theorems. *)

LEMMA SoundInit == Init => Sound
<1> SUFFICES ASSUME Init PROVE Sound
  OBVIOUS
<1> USE AsyncSocketAssumption DEF Init
<1>1. \A l \in Loops : kept[l] = <<>> /\ lpc[l] = "off" /\ idx[l] = 0 /\ todo[l] = {}
  OBVIOUS
<1>2. n = 0 /\ runs = 0 /\ mpc = "new" /\ server \in BOOLEAN
  OBVIOUS
<1>3. TypeOK
  <2>1. ObjectTypes
    <3>1. n \in 0 .. MaxEvents + 1
      OBVIOUS
    <3>2. running \in BOOLEAN /\ overrun \in BOOLEAN
      BY Zenon
    <3>3. conn \in [Slots -> Sockets \cup {NoSocket}]
      BY DEF EmptyConn
    <3>4. evt \in [Slots -> Events \cup {NoEvent} \cup Handles \cup {NoSocket}]
      BY DEF EmptyEvt
    <3> QED
      BY <3>1, <3>2, <3>3, <3>4, Zenon DEF ObjectTypes
  <2>2. ControlTypes /\ PeerTypes
    BY DEF ControlTypes, PeerTypes
  <2>3. LoopTypes
    BY DEF LoopTypes
  <2>4. WinsockTypes /\ CallbackTypes
    BY DEF WinsockTypes, CallbackTypes
  <2> QED
    BY <1>2, <2>1, <2>2, <2>3, <2>4, TypeParts
<1>4. OneLoop
  BY <1>1, <1>2 DEF OneLoop
<1>5. Cursor
  BY <1>1, <1>2 DEF Cursor, CursorOf
<1>6. EventsOwn
  BY <1>1, <1>2 DEF EventsOwn, SlotsOwn, KeptOwn, EmptyConn, Slots
<1>7. Placed
  BY DEF Placed, Sockets
<1>8. OwnFirst
  BY <1>1, <1>2 DEF OwnFirst, OwnPlace, OwnTold, Sockets
<1> QED
  BY <1>3, <1>4, <1>5, <1>6, <1>7, <1>8 DEF Sound

\* The first run is the first part of every behaviour, and an overrun is never
\* taken back.
Early == runs \in Nat

LEMMA EarlyStep ==
  ASSUME Early, [Next]_vars
  PROVE  /\ Early'
         /\ FirstLife' => FirstLife
         /\ ~overrun' => ~overrun
<1>1. /\ \/ runs' = runs /\ (mpc = "opened" => mpc' = "opened")
         \/ runs' = runs + 1 /\ mpc = "opened"
      /\ overrun => overrun'
  <2>1. CASE UNCHANGED <<control, object>>
    BY <2>1 DEF control, object
  <2>2. CASE UNCHANGED control /\ overrun' = (overrun \/ n >= MaxEvents)
    BY <2>2, Zenon DEF control
  <2>3. CASE PeerConnects \/ PeerAborts \/ \E s \in Sockets : PeerSends(s) \/ PeerCloses(s)
    BY <2>1, <2>3 DEF PeerConnects, PeerAborts, PeerSends, PeerCloses
  <2>4. ASSUME NEW e \in Events, Open(e) \/ OpenRefused(e)
        PROVE  runs' = runs /\ (mpc = "opened" => mpc' = "opened") /\ (overrun => overrun')
    BY <2>4 DEF Open, OpenRefused, control
  <2>5. CASE Run
    BY <2>5 DEF Run, object
  <2>6. CASE Stop \/ DisconnectConnections \/ ControlStep
    BY <2>6 DEF Stop, DisconnectConnections, ControlStep, ReadSlot, DisconnectFound, ControlDone,
       object
  <2>7. ASSUME NEW l \in Loops, LoopStep(l)
        PROVE  \/ UNCHANGED <<runs, mpc, overrun>>
               \/ UNCHANGED <<runs, mpc>> /\ overrun' = (overrun \/ n >= MaxEvents)
    <3>1. CASE DoOpen(l)
      BY <3>1 DEF DoOpen, Refuse, AcceptNothing, Accept, Put, control, object
    <3>2. CASE BeginClose(l) \/ Refill(l) \/ EndClose(l)
      BY <3>2 DEF BeginClose, Refill, EndClose, control, object
    <3>3. ASSUME NEW f \in DOMAIN Rank, EventFails(l, f) \/ CallBack(l, f)
          PROVE  UNCHANGED <<runs, mpc, overrun>>
      BY <3>3 DEF EventFails, CallBack, control, object
    <3>4. CASE Enter(l) \/ Raise(l) \/ TestRunning(l) \/ WaitAny(l) \/ SkipSlot(l)
               \/ TakeEvents(l) \/ ScanDone(l) \/ NextSlot(l)
      BY <3>4 DEF Enter, Raise, TestRunning, WaitAny, SkipSlot, TakeEvents, ScanDone, NextSlot,
         control, object
    <3> QED
      BY <2>7, <3>1, <3>2, <3>3, <3>4, Zenon DEF LoopStep, Deliver
  <2>8. (\E l \in Loops : LoopStep(l)) => UNCHANGED <<runs, mpc>> /\ (overrun => overrun')
    BY <2>7, Zenon
  <2>9. CASE UNCHANGED vars
    BY <2>9 DEF vars, control, object
  <2> QED
    BY <2>3, <2>4, <2>5, <2>6, <2>8, <2>9 DEF Next
<1> QED
  BY <1>1 DEF Early, FirstLife

LEMMA SoundInvariant == Spec => [](Early /\ SoundInFirstLife)
<1>1. Init => Early /\ SoundInFirstLife
  BY SoundInit DEF Init, Early, SoundInFirstLife
<1>2. ASSUME Early, SoundInFirstLife, [Next]_vars
      PROVE  Early' /\ SoundInFirstLife'
  <2>1. Early'
    BY <1>2, EarlyStep
  <2>2. ASSUME FirstLife', ~overrun' PROVE Sound'
    <3>1. FirstStep /\ Sound
      BY <1>2, <2>2, EarlyStep DEF FirstStep, SoundInFirstLife
    <3>2. TypeOK' /\ OneLoop' /\ Cursor' /\ EventsOwn' /\ Placed'
      BY <1>2, <3>1, TypeStep, OneLoopStep, CursorStep, EventsStep, PlacedStep
    <3>3. ASSUME server PROVE OwnPlace' /\ OwnTold'
      BY <1>2, <3>1, <3>3, OwnPlaceStep, OwnToldStep
    <3>4. server' = server
      BY <1>2 DEF Next, vars, PeerConnects, PeerAborts, PeerSends, PeerCloses, Open, OpenRefused,
         Run, Stop, DisconnectConnections, ControlStep, ReadSlot, DisconnectFound, ControlDone,
         LoopStep, Enter, Raise, TestRunning, WaitAny, SkipSlot, TakeEvents, ScanDone, NextSlot,
         Deliver, EventFails, CallBack, DoOpen, Refuse, AcceptNothing, Accept, BeginClose,
         Refill, EndClose
    <3> QED
      BY <3>2, <3>3, <3>4, Zenon DEF Sound, OwnFirst
  <2> QED
    BY <2>1, <2>2 DEF SoundInFirstLife
<1> QED
  BY <1>1, <1>2, PTL DEF Spec

\* In its first run, whatever fails and whenever it is stopped, the object's
\* variables keep their types (asyncsocket.cpp:226-531).
THEOREM FirstRunTypes == Spec => [](FirstLife /\ ~overrun => TypeOK)
<1>1. SoundInFirstLife => (FirstLife /\ ~overrun => TypeOK)
  BY DEF SoundInFirstLife, Sound
<1> QED
  BY <1>1, SoundInvariant, PTL

LEMMA SoundListed ==
  ASSUME Sound
  PROVE  LiveListed
<1> SUFFICES ASSUME NEW h \in Handles, sock[h] = "open"
             PROVE  \/ <<h, assoc[h]>> \in Listed /\ assoc[h] \in evOpen
                    \/ \E l \in Loops : lpc[l] = "refill" /\ cur[l] = h
  BY DEF LiveListed
<1>1. InTable(h) \/ SetAside(h) \/ BeingClosed(h)
  BY DEF Sound, Placed
<1>2. CASE InTable(h)
  <2>1. PICK i \in Slots : i < n /\ conn[i] = h /\ evt[i] = assoc[h]
    BY <1>2 DEF InTable
  <2>2. evt[i] \in evOpen
    BY <2>1 DEF Sound, EventsOwn, SlotsOwn
  <2>3. <<h, assoc[h]>> \in Listed
    BY <2>1, Zenon DEF Listed
  <2> QED
    BY <2>1, <2>2, <2>3
<1>3. CASE SetAside(h)
  <2>0. PICK l \in Loops : \E k \in 1 .. Len(kept[l]) : kept[l][k] = <<h, assoc[h]>>
    BY <1>3 DEF SetAside
  <2>1. PICK k \in 1 .. Len(kept[l]) : kept[l][k] = <<h, assoc[h]>>
    BY <2>0
  <2>2. kept[l][k] \in Sockets \X evOpen
    BY <2>1 DEF Sound, EventsOwn, KeptOwn
  <2>3. k \in DOMAIN kept[l]
    BY <2>1 DEF Sound, TypeOK
  <2>4. kept[l][k] \in {kept[l][i] : i \in DOMAIN kept[l]}
    BY <2>3
  <2>5. kept[l][k] \in UNION {{kept[m][i] : i \in DOMAIN kept[m]} : m \in Loops}
    <3> DEFINE Aside(m) == {kept[m][i] : i \in DOMAIN kept[m]}
    <3>1. kept[l][k] \in Aside(l)
      BY <2>4
    <3> HIDE DEF Aside
    <3>2. kept[l][k] \in UNION {Aside(m) : m \in Loops}
      BY <3>1
    <3> QED
      BY <3>2 DEF Aside
  <2>6. <<h, assoc[h]>> \in Listed
    BY <2>1, <2>5 DEF Listed
  <2> QED
    BY <2>1, <2>2, <2>6
<1>4. CASE BeingClosed(h)
  BY <1>4 DEF BeingClosed
<1> QED
  BY <1>1, <1>2, <1>3, <1>4

\* No connection falls out of the table while do_close rebuilds it, for any table
\* size and any number of connections: each open one is listed with the open
\* event object it was selected for.
THEOREM FirstRunListed == Spec => [](FirstLife /\ ~overrun => LiveListed)
<1>1. SoundInFirstLife => (FirstLife /\ ~overrun => LiveListed)
  BY SoundListed DEF SoundInFirstLife
<1> QED
  BY <1>1, SoundInvariant, PTL

LEMMA SoundZero ==
  ASSUME Sound
  PROVE  ServerKeepsSlotZero
<1> SUFFICES ASSUME server, mpc \in {"up", "stopping", "dropping"},
                    \A l \in Loops : lpc[l] # "refill"
             PROVE  conn[0] = Own /\ evt[0] = assoc[Own] /\ evt[0] \in evOpen
  BY DEF ServerKeepsSlotZero
<1>1. \A l \in Loops : kept[l] = <<>>
  BY DEF Sound, Cursor, CursorOf
<1>2. runs # 0
  BY DEF Sound, OneLoop
<1>3. n # 0 /\ n \in Nat
  BY <1>1, <1>2, AsyncSocketAssumption DEF Sound, OwnFirst, OwnPlace, TypeOK
<1>4. conn[0] = Own /\ evt[0] = assoc[Own]
  BY <1>2, <1>3 DEF Sound, OwnFirst, OwnPlace
<1>5. evt[0] \in evOpen
  <2>1. 0 \in Slots /\ 0 < n
    BY <1>3, AsyncSocketAssumption DEF Slots
  <2> QED
    BY <2>1 DEF Sound, EventsOwn, SlotsOwn
<1> QED
  BY <1>4, <1>5

\* A server that has not been stopped stays reachable, whatever its connections
\* do: its own socket keeps slot 0, with the event that was selected for it.
THEOREM FirstRunReachable == Spec => [](FirstLife /\ ~overrun => ServerKeepsSlotZero)
<1>1. SoundInFirstLife => (FirstLife /\ ~overrun => ServerKeepsSlotZero)
  BY SoundZero DEF SoundInFirstLife
<1> QED
  BY <1>1, SoundInvariant, PTL

-----------------------------------------------------------------------------
(* Fewer connections than slots always fit. *)

\* A loop that is told of a connection finds a slot for it.
LEMMA NeverFull ==
  ASSUME Sound, AcceptsBounded, MaxPeers < MaxEvents, NEW l \in Loops, "ACCEPT" \in todo[l]
  PROVE  /\ n < MaxEvents /\ kept[l] = <<>> /\ n + 1 <= asked + 1 /\ n + backlog <= asked + 1
         /\ "ACCEPT" \in rec[Own] => n + 2 <= asked + 1
<1>1. lpc[l] = "dispatch"
  BY DEF AcceptsBounded
<1>2. kept[l] = <<>>
  BY <1>1 DEF Sound, Cursor, CursorOf
<1>3. n \in Nat /\ asked \in Nat /\ asked <= MaxPeers /\ backlog \in Nat
  BY AsyncSocketAssumption DEF Sound, TypeOK
<1>4. n + Tokens(l) <= asked + 1 /\ n + backlog <= asked + 1
  <2>1. Len(kept[l]) = 0 /\ Tokens(l) \in Nat
    BY <1>2 DEF Tokens, Told
  <2>2. WithinAsked(l)
    BY DEF AcceptsBounded
  <2> HIDE DEF Tokens
  <2> QED
    BY <1>3, <2>1, <2>2 DEF WithinAsked
<1>5. Tokens(l) = IF "ACCEPT" \in rec[Own] THEN 2 ELSE 1
  BY DEF Tokens, Told
<1> QED
  BY <1>2, <1>3, <1>4, <1>5, AsyncSocketAssumption

\* A slot is written past the end by nothing but do_open on a full table.
LEMMA NoOverrun ==
  ASSUME Sound, AcceptsBounded, MaxPeers < MaxEvents, ~overrun, [Next]_vars
  PROVE  ~overrun'
<1>1. ASSUME NEW l \in Loops, DoOpen(l) PROVE UNCHANGED overrun
  <2>1. "ACCEPT" \in todo[l]
    BY <1>1 DEF DoOpen, Turn
  <2>2. n < MaxEvents /\ n \in Nat /\ MaxEvents \in Nat
    BY <2>1, NeverFull, AsyncSocketAssumption DEF Sound, TypeOK
  <2>3. ~ (n >= MaxEvents)
    BY <2>2
  <2>4. overrun' = overrun \/ overrun' = (overrun \/ n >= MaxEvents)
    BY <1>1 DEF DoOpen, Refuse, AcceptNothing, Accept, Put, object
  <2>5. overrun \in BOOLEAN
    BY Zenon DEF Sound, TypeOK
  <2> QED
    BY <2>3, <2>4, <2>5, Zenon
<1>2. ASSUME NEW l \in Loops, LoopStep(l) PROVE UNCHANGED overrun
  BY <1>1, <1>2 DEF LoopStep, Enter, Raise, TestRunning, WaitAny, SkipSlot, TakeEvents, ScanDone,
     NextSlot, Deliver, EventFails, CallBack, BeginClose, Refill, EndClose, object
<1>3. UNCHANGED overrun \/ \E l \in Loops : LoopStep(l)
  BY DEF Next, vars, object, PeerConnects, PeerAborts, PeerSends, PeerCloses, Open, OpenRefused,
     Run, Stop, DisconnectConnections, ControlStep, ReadSlot, DisconnectFound, ControlDone
<1> QED
  BY <1>2, <1>3, Zenon

LEMMA AcceptsStep ==
  ASSUME Sound, FirstStep, AcceptsBounded, MaxPeers < MaxEvents, [Next]_vars
  PROVE  AcceptsBounded'
<1> USE AsyncSocketAssumption DEF Sound, AcceptsBounded, Loops
<1>0. /\ n \in Nat /\ asked \in Nat /\ backlog \in Nat /\ asked <= MaxPeers /\ backlog <= asked
      /\ \A l \in Loops : Len(kept[l]) \in Nat
  BY DEF TypeOK, Cursor
\* Nothing is told, nothing is listed.
<1>1. ASSUME UNCHANGED <<n, kept, asked>>, backlog' <= backlog, backlog' \in Nat,
             \A s \in Sockets : "ACCEPT" \in rec'[s] => "ACCEPT" \in rec[s],
             \A l \in Loops : /\ "ACCEPT" \in todo'[l] => "ACCEPT" \in todo[l]
                              /\ lpc[l] = "dispatch" /\ "ACCEPT" \in todo'[l] => lpc'[l] = "dispatch"
      PROVE  AcceptsBounded'
  <2>1. ASSUME NEW l \in Loops PROVE WithinAsked(l)'
    <3>1. WithinAsked(l)
      OBVIOUS
    <3>2. Tokens(l)' <= Tokens(l) /\ Tokens(l)' \in Nat /\ Tokens(l) \in Nat
      BY <1>1 DEF Tokens, Told, Sockets
    <3>3. n' = n /\ kept' = kept /\ asked' = asked
      BY <1>1
    <3> HIDE DEF AcceptsBounded, Tokens
    <3> QED
      BY <1>0, <1>1, <3>1, <3>2, <3>3 DEF WithinAsked
  <2> HIDE DEF WithinAsked
  <2> QED
    BY <1>1, <2>1 DEF Sockets
<1>2. CASE PeerConnects
  <2>1. /\ asked' = asked + 1 /\ backlog' = backlog + 1 /\ UNCHANGED <<n, kept, lpc, todo>>
        /\ \A h \in Handles : rec'[h] = rec[h]
    BY <1>2 DEF PeerConnects, object, loops, TypeOK, Sockets
  <2>2. ASSUME NEW l \in Loops PROVE WithinAsked(l)'
    <3>1. WithinAsked(l)
      OBVIOUS
    <3>2. Tokens(l)' <= Tokens(l) + 1 /\ Tokens(l)' \in Nat /\ Tokens(l) \in Nat
      BY <2>1 DEF Tokens, Told
    <3>3. n' = n /\ kept' = kept /\ asked' = asked + 1 /\ backlog' = backlog + 1
      BY <2>1
    <3>4. Len(kept[l]) \in Nat /\ Len(kept[l])' = Len(kept[l]) /\ n \in Nat /\ asked \in Nat /\ backlog \in Nat
      BY <1>0, <3>3
    <3> HIDE DEF Sound, AcceptsBounded, Tokens
    <3>5. (n + Len(kept[l]) + Tokens(l))' <= (asked + 1)'
      <4> DEFINE now == Tokens(l)'
                 was == Tokens(l)
                 aside == Len(kept[l])
      <4>1. n + aside + was <= asked + 1 /\ now <= was + 1 /\ now \in Nat /\ was \in Nat
        BY <3>1, <3>2 DEF WithinAsked
      <4>2. aside \in Nat /\ n \in Nat /\ asked \in Nat
        BY <3>4
      <4> HIDE DEF now, was, aside
      <4>3. n + aside + now <= asked + 1 + 1
        BY <4>1, <4>2
      <4> QED
        BY <3>3, <3>4, <4>3 DEF now, aside
    <3>6. (n + Len(kept[l]) + backlog)' <= (asked + 1)'
      <4> DEFINE aside == Len(kept[l])
      <4>1. n + aside + backlog <= asked + 1 /\ aside \in Nat
        BY <3>1, <3>4 DEF WithinAsked
      <4> HIDE DEF aside
      <4>2. n + aside + (backlog + 1) <= (asked + 1) + 1
        BY <3>4, <4>1
      <4> QED
        BY <3>3, <3>4, <4>2 DEF aside
    <3> QED
      BY <3>5, <3>6 DEF WithinAsked
  <2> HIDE DEF WithinAsked
  <2> QED
    BY <2>1, <2>2
<1>3. CASE PeerAborts
  <2>1. UNCHANGED <<n, kept, asked, rec, todo, lpc>> /\ backlog > 0 /\ backlog' = backlog - 1
    BY <1>3 DEF PeerAborts, object, loops, winsock
  <2>2. backlog' \in Nat /\ backlog' <= backlog
    BY <1>0, <2>1
  <2> QED
    BY <1>1, <2>1, <2>2
<1>4. ASSUME NEW s \in Sockets, PeerSends(s) \/ PeerCloses(s) PROVE AcceptsBounded'
  <2>1. \A x \in Sockets : "ACCEPT" \in rec'[x] => "ACCEPT" \in rec[x]
    <3>1. PICK f \in {"READ", "CLOSE"} : rec' = [rec EXCEPT ![s] = @ \cup {f}]
      BY <1>4 DEF PeerSends, PeerCloses
    <3> HIDE DEF AcceptsBounded
    <3> QED
      BY <3>1 DEF TypeOK
  <2> QED
    BY <1>0, <1>1, <1>4, <2>1 DEF PeerSends, PeerCloses, object, loops
<1>5. ASSUME NEW e \in Events, Open(e) PROVE AcceptsBounded'
  <2>1. \A l \in Loops : lpc[l] = "off" /\ kept[l] = <<>>
    BY <1>5, Opening
  <2>2. /\ n' = 1 /\ UNCHANGED <<kept, lpc, todo, asked, backlog>>
        /\ "ACCEPT" \in rec'[Own] => backlog > 0
        /\ \A h \in Handles : rec'[h] = rec[h]
    BY <1>5 DEF Open, loops, peers, TypeOK, Sockets
  <2>3. ASSUME NEW l \in Loops PROVE WithinAsked(l)'
    <3>1. "ACCEPT" \notin todo'[l] /\ Len(kept'[l]) = 0
      BY <2>1, <2>2
    <3>2. Tokens(l)' = 0 \/ (Tokens(l)' = 1 /\ backlog > 0)
      BY <2>2, <3>1 DEF Tokens, Told
    <3> HIDE DEF AcceptsBounded, Tokens
    <3> QED
      BY <1>0, <2>2, <3>1, <3>2 DEF WithinAsked
  <2> HIDE DEF WithinAsked
  <2> QED
    BY <2>1, <2>2, <2>3
<1>6. ASSUME NEW e \in Events, OpenRefused(e) PROVE AcceptsBounded'
  <2>1. n = 0
    BY <1>6, Opening
  <2> QED
    BY <1>0, <1>1, <1>6, <2>1 DEF OpenRefused, loops, peers
<1>7. CASE Run
  <2>1. \A l \in Loops : lpc[l] = "off"
    BY <1>7 DEF Run, OneLoop
  <2> QED
    BY <1>0, <1>1, <1>7, <2>1 DEF Run, object, winsock, peers
<1>8. CASE Stop \/ DisconnectConnections \/ ReadSlot \/ ControlDone
  BY <1>0, <1>1, <1>8 DEF Stop, DisconnectConnections, ReadSlot, ControlDone, object, loops,
     winsock, peers
<1>9. ASSUME NEW s \in Sockets, DisconnectFound(s) PROVE AcceptsBounded'
  <2>1. \A x \in Sockets : "ACCEPT" \in rec'[x] => "ACCEPT" \in rec[x]
    BY <1>9 DEF DisconnectFound, CloseSocket, TypeOK
  <2> QED
    BY <1>0, <1>1, <1>9, <2>1 DEF DisconnectFound, object, loops
<1>10. ASSUME NEW l \in Loops,
              \/ Enter(l) \/ Raise(l) \/ TestRunning(l) \/ WaitAny(l) \/ SkipSlot(l)
              \/ ScanDone(l) \/ NextSlot(l)
       PROVE  AcceptsBounded'
  <2>1. \A m \in Loops : m # l => lpc'[m] = lpc[m]
    BY <1>10 DEF Enter, Raise, TestRunning, WaitAny, SkipSlot, ScanDone, NextSlot, Goto, TypeOK
  <2>2. "ACCEPT" \notin todo[l]
    BY <1>10 DEF Enter, Raise, TestRunning, WaitAny, SkipSlot, ScanDone, NextSlot
  <2>3. UNCHANGED <<n, kept, asked, backlog, rec, todo>>
    BY <1>10 DEF Enter, Raise, TestRunning, WaitAny, SkipSlot, ScanDone, NextSlot, object, winsock,
       peers
  <2> QED
    BY <1>0, <1>1, <2>1, <2>2, <2>3
<1>11. ASSUME NEW l \in Loops, TakeEvents(l) PROVE AcceptsBounded'
  <2> DEFINE s == conn[idx[l]]
  <2>1. /\ UNCHANGED <<n, kept, asked, backlog>> /\ lpc'[l] = "dispatch" /\ lpc[l] = "scan"
        /\ \A m \in Loops : m # l => todo'[m] = todo[m] /\ lpc'[m] = lpc[m]
        /\ todo'[l] = IF s \in Sockets THEN rec[s] ELSE {}
        /\ rec' = [x \in Sockets |-> IF x = s THEN {} ELSE rec[x]]
    BY <1>11 DEF TakeEvents, Goto, object, peers, TypeOK
  <2> HIDE DEF s
  <2>2. \A h \in Handles : "ACCEPT" \notin rec'[h]
    BY <2>1 DEF Sockets
  <2>3. \A m \in Loops : "ACCEPT" \in todo'[m] => lpc'[m] = "dispatch"
    BY <2>1
  <2>4. ASSUME NEW m \in Loops PROVE WithinAsked(m)'
    <3>1. WithinAsked(m)
      OBVIOUS
    <3>2. Tokens(m)' <= Tokens(m) /\ Tokens(m)' \in Nat /\ Tokens(m) \in Nat
      <4>1. CASE m = l
        <5>1. "ACCEPT" \in todo'[m] => s = Own
          BY <2>1, <4>1 DEF Sockets
        <5>2. s = Own => rec'[Own] = {} /\ todo'[m] = rec[Own]
          BY <2>1, <4>1 DEF Sockets
        <5>3. s # Own => rec'[Own] = rec[Own]
          BY <2>1 DEF Sockets
        <5> QED
          BY <5>1, <5>2, <5>3 DEF Tokens, Told
      <4>2. CASE m # l
        <5>1. "ACCEPT" \in rec'[Own] => "ACCEPT" \in rec[Own]
          BY <2>1 DEF Sockets
        <5> QED
          BY <2>1, <4>2, <5>1 DEF Tokens, Told
      <4> QED
        BY <4>1, <4>2
    <3>3. n' = n /\ kept' = kept /\ asked' = asked /\ backlog' = backlog
      BY <2>1
    <3> HIDE DEF AcceptsBounded, Tokens
    <3> QED
      BY <1>0, <3>1, <3>2, <3>3 DEF WithinAsked
  <2> HIDE DEF WithinAsked
  <2> QED
    BY <2>2, <2>3, <2>4
<1>12. ASSUME NEW l \in Loops, NEW f \in DOMAIN Rank, EventFails(l, f) PROVE AcceptsBounded'
  <2>1. todo' = [todo EXCEPT ![l] = {}] /\ lpc' = [lpc EXCEPT ![l] = "off"]
    BY <1>12 DEF EventFails, Goto
  <2>2. UNCHANGED <<n, kept, asked, backlog, rec>>
    BY <1>12 DEF EventFails, object, winsock, peers
  <2> QED
    BY <1>0, <1>1, <2>1, <2>2 DEF TypeOK
<1>13. ASSUME NEW l \in Loops, NEW f \in DOMAIN Rank, CallBack(l, f) PROVE AcceptsBounded'
  <2>1. todo' = [todo EXCEPT ![l] = @ \ {f}]
    BY <1>13 DEF CallBack, Handled
  <2>2. UNCHANGED <<n, kept, asked, backlog, rec, lpc>>
    BY <1>13 DEF CallBack, object, winsock, peers
  <2> QED
    BY <1>0, <1>1, <2>1, <2>2 DEF TypeOK
<1>14. ASSUME NEW l \in Loops, DoOpen(l) PROVE AcceptsBounded'
  <2>1. lpc[l] = "dispatch" /\ "ACCEPT" \in todo[l] /\ ~TableFull
    BY <1>14 DEF DoOpen, Turn, TableFull, Cursor, TypeOK
  <2>2. PICK e \in Events \ evOpen : AcceptNothing(l, e) \/ \E h \in Handles : Accept(l, h, e)
    BY <1>14, <2>1, Zenon DEF DoOpen
  <2>3. /\ n + 1 <= asked + 1 /\ n + backlog <= asked + 1
        /\ "ACCEPT" \in rec[Own] => n + 2 <= asked + 1
    BY <2>1, NeverFull
  <2>4. \A m \in Loops : kept[m] = <<>> /\ (m # l => "ACCEPT" \notin todo[m])
    BY <2>1, Alone
  <2>5. /\ n' = n + 1 /\ UNCHANGED <<kept, lpc, asked>> /\ todo' = [todo EXCEPT ![l] = @ \ {"ACCEPT"}]
    BY <2>2 DEF AcceptNothing, Accept, Put, Handled, peers
  <2>6. \A m \in Loops : "ACCEPT" \notin todo'[m] /\ Len(kept'[m]) = 0
    BY <2>4, <2>5 DEF TypeOK
  <2>7. /\ \A h \in Handles : "ACCEPT" \notin rec'[h]
        /\ "ACCEPT" \in rec'[Own] => "ACCEPT" \in rec[Own] \/ backlog > 1
        /\ backlog' = 0 \/ backlog' = backlog - 1
    <3>1. CASE AcceptNothing(l, e)
      BY <1>0, <3>1 DEF AcceptNothing, peers
    <3>2. ASSUME NEW h \in Handles, Accept(l, h, e)
          PROVE  /\ \A g \in Handles : "ACCEPT" \notin rec'[g]
                 /\ "ACCEPT" \in rec'[Own] => "ACCEPT" \in rec[Own] \/ backlog > 1
                 /\ backlog' = 0 \/ backlog' = backlog - 1
      BY <3>2 DEF Accept, TypeOK, Sockets
    <3> QED
      BY <2>2, <3>1, <3>2
  <2>8. ASSUME NEW m \in Loops PROVE WithinAsked(m)'
    <3>1. Tokens(m)' = 0 \/ (Tokens(m)' = 1 /\ n + 2 <= asked + 1)
      <4>1. "ACCEPT" \in rec'[Own] => n + 2 <= asked + 1
        <5> HIDE DEF AcceptsBounded
        <5> QED
          BY <1>0, <2>3, <2>7
      <4> QED
        BY <2>6, <4>1 DEF Tokens, Told
    <3>2. n' = n + 1 /\ asked' = asked /\ Len(kept'[m]) = 0
      BY <2>5, <2>6
    <3> HIDE DEF AcceptsBounded, Tokens
    <3> QED
      BY <1>0, <2>3, <2>7, <3>1, <3>2 DEF WithinAsked
  <2> HIDE DEF WithinAsked
  <2> QED
    BY <2>6, <2>7, <2>8
<1>15. ASSUME NEW l \in Loops, BeginClose(l) PROVE AcceptsBounded'
  <2>1. lpc[l] = "dispatch" /\ "CLOSE" \in todo[l] /\ "ACCEPT" \notin todo[l]
    BY <1>15 DEF BeginClose, Turn, Rank
  <2>2. /\ n' = 0 /\ kept'[l] = Keeps(cur[l]) /\ lpc' = [lpc EXCEPT ![l] = "refill"]
        /\ todo' = [todo EXCEPT ![l] = @ \ {"CLOSE"}]
        /\ UNCHANGED <<rec, asked, backlog>>
        /\ \A m \in Loops : m # l => kept'[m] = kept[m]
    BY <1>15 DEF BeginClose, Handled, Goto, peers, TypeOK
  <2>3. Len(Keeps(cur[l])) <= n /\ Len(Keeps(cur[l])) \in Nat
    BY KeepsTheOthers DEF KeptBefore
  <2>4. \A m \in Loops : "ACCEPT" \in todo'[m] => "ACCEPT" \in todo[m] /\ m # l
    BY <2>1, <2>2 DEF TypeOK
  <2>5. ASSUME NEW m \in Loops PROVE WithinAsked(m)'
    <3>1. WithinAsked(m) /\ n + Len(kept[m]) + Tokens(m) <= asked + 1
      BY DEF WithinAsked
    <3>2. Tokens(m)' <= Tokens(m) /\ Tokens(m)' \in Nat /\ Tokens(m) \in Nat
      BY <2>2, <2>4 DEF Tokens, Told
    <3>3. n' + Len(kept'[m]) <= n + Len(kept[m]) /\ Len(kept'[m]) \in Nat /\ n' \in Nat
      <4>1. CASE m = l
        <5>1. Len(kept'[m]) = Len(Keeps(cur[l]))
          BY <2>2, <4>1
        <5> HIDE DEF AcceptsBounded
        <5> QED
          BY <1>0, <2>2, <2>3, <5>1
      <4>2. CASE m # l
        <5>1. kept'[m] = kept[m]
          BY <2>2, <4>2
        <5> HIDE DEF AcceptsBounded
        <5> QED
          BY <1>0, <2>2, <5>1
      <4> QED
        BY <4>1, <4>2
    <3>4. asked' = asked /\ backlog' = backlog
      BY <2>2
    <3> HIDE DEF AcceptsBounded, Tokens
    <3> QED
      BY <1>0, <3>1, <3>2, <3>3, <3>4, SMTT(30) DEF WithinAsked
  <2> HIDE DEF WithinAsked
  <2> QED
    BY <2>2, <2>4, <2>5 DEF TypeOK, Sockets
<1>16. ASSUME NEW l \in Loops, Refill(l) PROVE AcceptsBounded'
  <2>1. /\ lpc[l] = "refill" /\ kept[l] # <<>> /\ n' = n + 1
        /\ kept' = [kept EXCEPT ![l] = Tail(@)]
        /\ UNCHANGED <<lpc, todo, rec, asked, backlog>>
    BY <1>16 DEF Refill, winsock, peers
  <2>2. \A m \in Loops : "ACCEPT" \notin todo[m] /\ (m # l => kept[m] = <<>>)
    BY <2>1, Alone
  <2>3. /\ kept[l] \in Seq(Sockets \X Events)
        /\ \A m \in Loops : m # l => kept'[m] = <<>>
        /\ kept'[l] = Tail(kept[l])
    BY <2>1, <2>2 DEF TypeOK
  <2>4. Len(kept'[l]) = Len(kept[l]) - 1 /\ Len(kept[l]) > 0 /\ \A m \in Loops : m # l => Len(kept'[m]) = 0
    <3> DEFINE q == kept[l]
    <3>0. q # <<>> /\ q \in Seq(Sockets \X Events) /\ kept'[l] = Tail(q)
      BY <2>1, <2>3
    <3> HIDE DEF q, AcceptsBounded
    <3>1. Len(kept'[l]) = Len(q) - 1 /\ Len(q) > 0
      BY <3>0
    <3>2. \A m \in Loops : m # l => Len(kept'[m]) = 0
      <4> HIDE DEF AcceptsBounded
      <4> QED
        BY <2>3
    <3> QED
      BY <3>1, <3>2 DEF q
  <2>5. ASSUME NEW m \in Loops PROVE WithinAsked(m)'
    <3>1. n + Len(kept[l]) + Tokens(l) <= asked + 1 /\ n + Len(kept[l]) + backlog <= asked + 1
      BY DEF WithinAsked
    <3>2. Tokens(m)' = Tokens(l) /\ Tokens(l) \in Nat
      BY <2>1, <2>2 DEF Tokens, Told
    <3>3. Len(kept'[m]) <= Len(kept[l]) - 1 /\ Len(kept'[m]) \in Nat
      <4>1. CASE m = l
        BY <1>0, <2>4, <4>1
      <4>2. CASE m # l
        BY <1>0, <2>4, <4>2
      <4> QED
        BY <4>1, <4>2
    <3>4. n' = n + 1 /\ asked' = asked /\ backlog' = backlog
      BY <2>1
    <3> DEFINE b == Len(kept'[m]) c == Len(kept[l]) d == Tokens(l) e == Tokens(m)'
    <3>5. c \in Nat /\ c > 0
      BY <1>0, <2>4
    <3>6. e = d /\ d \in Nat /\ b <= c - 1 /\ b \in Nat
      BY <3>2, <3>3
    <3> HIDE DEF AcceptsBounded, Tokens, b, c, d, e
    <3>7. n' + b + e <= asked' + 1 /\ n' + b + backlog' <= asked' + 1
      <4>1. n + c + d <= asked + 1 /\ n + c + backlog <= asked + 1
        BY <3>1 DEF c, d
      <4> QED
        BY <1>0, <3>4, <3>5, <3>6, <4>1
    <3> QED
      BY <3>7 DEF WithinAsked, b, e
  <2> HIDE DEF WithinAsked
  <2> QED
    BY <2>1, <2>5
<1>17. ASSUME NEW l \in Loops, EndClose(l) PROVE AcceptsBounded'
  <2>1. \A x \in Sockets : "ACCEPT" \in rec'[x] => "ACCEPT" \in rec[x]
    BY <1>17 DEF EndClose, CloseSocket, TypeOK
  <2>2. lpc[l] = "refill" /\ \A m \in Loops : m # l => lpc'[m] = lpc[m]
    BY <1>17 DEF EndClose, Goto, TypeOK
  <2> QED
    BY <1>0, <1>1, <1>17, <2>1, <2>2 DEF EndClose, object
<1>18. CASE UNCHANGED vars
  BY <1>0, <1>1, <1>18 DEF vars, object, loops, winsock, peers
<1> QED
  BY <1>2, <1>3, <1>4, <1>5, <1>6, <1>7, <1>8, <1>9, <1>10, <1>11, <1>12, <1>13, <1>14, <1>15,
     <1>16, <1>17, <1>18, Zenon DEF Next, ControlStep, LoopStep, Deliver

LEMMA FitsInvariant == Spec => []FitsInFirstLife
<1>1. Init => FitsInFirstLife
  <2> SUFFICES ASSUME Init PROVE FitsInFirstLife
    OBVIOUS
  <2>1. ~overrun
    BY DEF Init
  <2>2. AcceptsBounded
    BY AsyncSocketAssumption DEF Init, AcceptsBounded, WithinAsked, Tokens, Told, Sockets
  <2> QED
    BY <2>1, <2>2 DEF FitsInFirstLife
<1>2. ASSUME Early, SoundInFirstLife, FitsInFirstLife, [Next]_vars
      PROVE  FitsInFirstLife'
  <2> SUFFICES ASSUME MaxPeers < MaxEvents, FirstLife'
               PROVE  ~overrun' /\ AcceptsBounded'
    BY DEF FitsInFirstLife
  <2>1. FirstLife
    BY <1>2, EarlyStep
  <2>2. ~overrun /\ AcceptsBounded /\ Sound
    BY <1>2, <2>1 DEF FitsInFirstLife, SoundInFirstLife
  <2>3. ~overrun'
    BY <1>2, <2>2, NoOverrun
  <2>4. FirstStep
    BY <2>1, <2>2, <2>3 DEF FirstStep
  <2> QED
    BY <1>2, <2>2, <2>3, <2>4, AcceptsStep
<1> QED
  BY <1>1, <1>2, SoundInvariant, PTL DEF Spec

\* With fewer connections than slots, the test against the number of slots that
\* do_open makes one too late (asyncsocket.cpp:349) is never reached, whatever
\* peers, failures and stops do: no slot past the arrays is written.
THEOREM FewerPeersFit == MaxPeers < MaxEvents => (Spec => [](FirstLife => TableFits))
<1> SUFFICES ASSUME MaxPeers < MaxEvents PROVE Spec => [](FirstLife => TableFits)
  OBVIOUS
<1>1. FitsInFirstLife => (FirstLife => TableFits)
  BY DEF FitsInFirstLife, TableFits
<1> QED
  BY <1>1, FitsInvariant, PTL

-----------------------------------------------------------------------------
(* The order of callbacks. *)

\* Events are taken only for a connection that is announced.
LEMMA ReadyTakes ==
  ASSUME Sound, FirstStep, CallbacksReady, NEW l \in Loops, TakeEvents(l)
  PROVE  CallbacksReady'
<1> USE AsyncSocketAssumption DEF Sound, CallbacksReady, Sockets
<1> DEFINE s == conn[idx[l]]
<1>1. /\ UNCHANGED <<server, runs, sock, assoc, cb>> /\ lpc'[l] = "dispatch" /\ lpc[l] = "scan"
      /\ \A m \in Loops : m # l => todo'[m] = todo[m] /\ lpc'[m] = lpc[m] /\ cur'[m] = cur[m]
      /\ todo'[l] = (IF s \in Sockets THEN rec[s] ELSE {}) /\ cur'[l] = s
      /\ rec' = [x \in Sockets |-> IF x = s THEN {} ELSE rec[x]]
  BY DEF TakeEvents, Goto, TypeOK, control
<1>2. \A m \in Loops : m # l => lpc[m] = "off" /\ todo[m] = {}
  BY <1>1, Alone DEF TakenAnnounced
<1> HIDE DEF s
<1>3. OpenIsLive' /\ OwnOpen' /\ OpenIsTold' /\ AcceptsServed'
  BY <1>1 DEF OpenIsLive, OwnOpen, OpenIsTold, AcceptsServed
<1>4. ASSUME ~server', assoc'[Own] # NoEvent PROVE Announced(Own)'
  <2>1. Announced(Own)
    BY <1>1, <1>4 DEF ClientAnnounced
  <2>2. CASE cb[Own] # "none"
    BY <1>1, <2>2 DEF Announced
  <2>3. CASE "CONNECT" \in rec[Own]
    BY <1>1, <2>3 DEF Announced
  <2>4. ~LoopOver /\ \A m \in Loops : lpc[m] # "dispatch"
    BY <1>1, <1>2 DEF LoopOver
  <2> QED
    BY <2>1, <2>2, <2>3, <2>4 DEF Announced
<1>5. ASSUME todo'[l] \cap Later # {} PROVE cb'[s] # "none" \/ "CONNECT" \in todo'[l]
  <2>1. s \in Sockets /\ rec[s] # {} /\ todo'[l] = rec[s]
    BY <1>1, <1>5
  <2>2. CASE s # Own
    BY <1>1, <2>1, <2>2 DEF OpenIsTold, OpenIsLive
  <2>3. CASE s = Own /\ server
    BY <1>5, <2>1, <2>3 DEF OwnFirst, OwnTold, Later
  <2>4. CASE s = Own /\ ~server
    <3>1. Announced(Own)
      BY <2>1, <2>4 DEF OpenIsTold, ClientAnnounced
    <3>2. ~LoopOver /\ \A m \in Loops : lpc[m] # "dispatch"
      BY <1>1, <1>2 DEF LoopOver
    <3> QED
      BY <1>1, <2>1, <2>4, <3>1, <3>2 DEF Announced
  <2> QED
    BY <2>2, <2>3, <2>4
<1>6. TakenAnnounced'
  BY <1>1, <1>2, <1>5 DEF TakenAnnounced
<1> QED
  BY <1>3, <1>4, <1>6 DEF ClientAnnounced

\* A connection that is accepted is live at once.
LEMMA ReadyOpens ==
  ASSUME Sound, FirstStep, CallbacksReady, NEW l \in Loops, DoOpen(l)
  PROVE  CallbacksReady'
<1> USE AsyncSocketAssumption DEF Sound, CallbacksReady, Sockets
<1>1. lpc[l] = "dispatch" /\ "ACCEPT" \in todo[l] /\ ~TableFull
  BY DEF DoOpen, Turn, TableFull, Cursor, TypeOK
<1>2. PICK e \in Events \ evOpen : AcceptNothing(l, e) \/ \E h \in Handles : Accept(l, h, e)
  BY <1>1, Zenon DEF DoOpen
<1>3. server /\ sock[Own] = "open" /\ runs # 0 /\ n \in Nat
  BY <1>1, Alone DEF AcceptsServed, OwnOpen, TypeOK
<1>4. UNCHANGED <<server, runs, lpc, cur>> /\ todo' = [todo EXCEPT ![l] = @ \ {"ACCEPT"}]
  BY <1>2 DEF AcceptNothing, Accept, Handled, control
<1>5. \A m \in Loops : m # l => lpc[m] = "off" /\ todo[m] = {}
  BY <1>1, Alone DEF TakenAnnounced
<1>6. /\ todo'[l] = todo[l] \ {"ACCEPT"}
      /\ \A m \in Loops : m # l => todo'[m] = {}
  BY <1>4, <1>5 DEF TypeOK
<1>7. ClientAnnounced'
  BY <1>3, <1>4 DEF ClientAnnounced
<1>8. CASE AcceptNothing(l, e)
  <2>1. UNCHANGED <<sock, assoc, rec, cb>>
    BY <1>8 DEF AcceptNothing
  <2>2. OpenIsLive' /\ OwnOpen' /\ OpenIsTold' /\ AcceptsServed'
    BY <1>3, <1>4, <2>1 DEF OpenIsLive, OwnOpen, OpenIsTold, AcceptsServed
  <2>3. TakenAnnounced'
    BY <1>1, <1>4, <1>5, <1>6, <2>1 DEF TakenAnnounced, Later
  <2> QED
    BY <1>7, <2>2, <2>3
<1>9. ASSUME NEW h \in Handles, Accept(l, h, e) PROVE CallbacksReady'
  <2>1. /\ sock' = [sock EXCEPT ![h] = "open"] /\ cb' = [cb EXCEPT ![h] = "live"]
        /\ assoc' = [assoc EXCEPT ![h] = e]
        /\ \A s \in Sockets : s # h => sock'[s] = sock[s] /\ cb'[s] = cb[s] /\ assoc'[s] = assoc[s]
        /\ sock'[h] = "open" /\ cb'[h] = "live"
        /\ \A s \in Sockets : s # h /\ s # Own => rec'[s] = rec[s]
    BY <1>9 DEF Accept, TypeOK
  <2>2. assoc[Own] # NoEvent
    <3>1. \A m \in Loops : kept[m] = <<>>
      BY <1>1, Alone
    <3>2. n > 0 /\ evt[0] = assoc[Own]
      BY <1>3, <3>1 DEF OwnFirst, OwnPlace
    <3>3. evt[0] \in evOpen
      BY <1>3, <3>2 DEF EventsOwn, SlotsOwn, Slots
    <3> QED
      BY <3>2, <3>3 DEF TypeOK
  <2>3. OpenIsLive' /\ OwnOpen'
    BY <1>3, <2>1 DEF OpenIsLive, OwnOpen
  <2>4. OpenIsTold'
    BY <1>3, <2>1, <2>2 DEF OpenIsTold
  <2>5. AcceptsServed'
    BY <1>3, <1>4 DEF AcceptsServed
  <2>6. \A s : s \in Sockets /\ cb[s] # "none" => cb'[s] # "none"
    BY <2>1
  <2>7. cur[l] \in Sockets
    BY <1>1 DEF Cursor, CursorOf
  <2>8. TakenAnnounced'
    BY <1>1, <1>4, <1>5, <1>6, <2>6, <2>7 DEF TakenAnnounced, Later
  <2> QED
    BY <1>7, <2>3, <2>4, <2>5, <2>8
<1> QED
  BY <1>2, <1>8, <1>9

\* A handle that is closed is told nothing any more.
LEMMA ReadyCloses ==
  ASSUME Sound, FirstStep, CallbacksReady, NEW s \in Sockets, CloseSocket(s),
         server => s # Own, runs # 0, UNCHANGED <<server, runs, todo, cur>>,
         \A x \in Sockets : x # s => cb'[x] = cb[x],
         \A l \in Loops : todo[l] # {} => lpc'[l] = lpc[l] /\ (cur[l] = s => cb'[s] # "none"),
         \A l \in Loops : lpc[l] = "off" => lpc'[l] = "off"
  PROVE  CallbacksReady'
<1> USE AsyncSocketAssumption DEF Sound, CallbacksReady, Sockets
<1>1. /\ sock'[s] = "free" /\ rec'[s] = {} /\ assoc'[s] = NoEvent
      /\ \A x \in Sockets : x # s => /\ sock'[x] = sock[x] /\ rec'[x] = rec[x]
                                     /\ assoc'[x] = assoc[x]
  BY DEF CloseSocket, TypeOK
<1>2. OpenIsLive' /\ OwnOpen'
  BY <1>1 DEF OpenIsLive, OwnOpen
<1>3. OpenIsTold' /\ AcceptsServed'
  BY <1>1 DEF OpenIsTold, AcceptsServed
<1>4. ASSUME ~server', assoc'[Own] # NoEvent PROVE Announced(Own)'
  <2>1. s # Own /\ cb'[Own] = cb[Own] /\ rec'[Own] = rec[Own] /\ assoc'[Own] = assoc[Own]
    BY <1>1, <1>4
  <2>2. Announced(Own)
    BY <1>4, <2>1 DEF ClientAnnounced
  <2>3. LoopOver => LoopOver'
    BY DEF LoopOver
  <2> QED
    BY <2>1, <2>2, <2>3 DEF Announced
<1>5. TakenAnnounced'
  <2>1. ASSUME NEW l \in Loops, todo[l] # {} PROVE lpc'[l] = "dispatch"
    BY <2>1 DEF TakenAnnounced
  <2>2. ASSUME NEW l \in Loops, todo[l] \cap Later # {}
        PROVE  cb'[cur[l]] # "none" \/ "CONNECT" \in todo[l]
    <3>1. cur[l] \in Sockets
      BY <2>2 DEF Cursor, CursorOf
    <3> QED
      BY <2>2, <3>1 DEF TakenAnnounced
  <2> QED
    BY <2>1, <2>2 DEF TakenAnnounced
<1> QED
  BY <1>2, <1>3, <1>4, <1>5 DEF ClientAnnounced

\* Nobody is told anything, and nothing is taken.
LEMMA ReadyKept ==
  ASSUME CallbacksReady, UNCHANGED <<server, sock, assoc, rec, cb, cur, todo>>,
         runs' = 0 => runs = 0,
         \A l \in Loops : todo[l] # {} => lpc'[l] = lpc[l],
         LoopOver => LoopOver'
  PROVE  CallbacksReady'
<1>1. OpenIsLive' /\ OwnOpen' /\ OpenIsTold' /\ AcceptsServed'
  BY Zenon DEF CallbacksReady, OpenIsLive, OwnOpen, OpenIsTold, AcceptsServed
<1>2. Announced(Own) => Announced(Own)'
  <2>1. ASSUME NEW l \in Loops, lpc[l] = "dispatch", "CONNECT" \in todo[l] PROVE lpc'[l] = "dispatch"
    BY <2>1
  <2> QED
    BY <2>1, Zenon DEF Announced
<1>3. ClientAnnounced'
  BY <1>2, Zenon DEF CallbacksReady, ClientAnnounced
<1>4. TakenAnnounced'
  BY DEF CallbacksReady, TakenAnnounced
<1> QED
  BY <1>1, <1>3, <1>4, Zenon DEF CallbacksReady

LEMMA ReadyStep ==
  ASSUME Sound, FirstStep, CallbacksReady, [Next]_vars
  PROVE  CallbacksReady'
<1> USE AsyncSocketAssumption
<1>1. runs \in Nat
  BY DEF Sound, TypeOK
<1>2. CASE PeerAborts
  BY <1>2, ReadyKept DEF PeerAborts, control, loops, winsock, LoopOver
<1>3. CASE Stop \/ DisconnectConnections \/ ReadSlot \/ ControlDone
  BY <1>3, ReadyKept DEF Stop, DisconnectConnections, ReadSlot, ControlDone, control, loops, winsock,
     LoopOver
<1>4. CASE UNCHANGED vars
  BY <1>4, ReadyKept DEF vars, control, loops, winsock, LoopOver
<1>5. ASSUME NEW e \in Events, OpenRefused(e) PROVE CallbacksReady'
  BY <1>5, ReadyKept DEF OpenRefused, control, loops, LoopOver
<1>6. CASE Run
  <2>1. mpc = "opened" /\ runs = 0 /\ runs' = 1 /\ lpc' = [lpc EXCEPT ![1] = "enter"]
    BY <1>6 DEF Run, Sound, OneLoop
  <2>2. UNCHANGED <<server, sock, assoc, rec, cb, cur, todo>>
    BY <1>6 DEF Run, winsock
  <2>3. ~LoopOver /\ \A l \in Loops : todo[l] = {}
    BY <2>1 DEF Sound, OneLoop, LoopOver, CallbacksReady, TakenAnnounced
  <2> QED
    BY <2>1, <2>2, <2>3, ReadyKept
<1>7. CASE PeerConnects
  <2>1. /\ server /\ assoc[Own] # NoEvent /\ UNCHANGED <<server, lpc, cur, todo, runs, sock, assoc, cb>>
        /\ rec' = [rec EXCEPT ![Own] = @ \cup {"ACCEPT"}]
    BY <1>7 DEF PeerConnects, control, loops
  <2>2. sock[Own] = "open"
    BY <2>1 DEF CallbacksReady, OwnOpen
  <2>3. OpenIsLive' /\ ClientAnnounced' /\ OwnOpen' /\ TakenAnnounced'
    BY <2>1, Zenon DEF CallbacksReady, OpenIsLive, ClientAnnounced, OwnOpen, TakenAnnounced
  <2>4. OpenIsTold' /\ AcceptsServed'
    BY <2>1, <2>2 DEF CallbacksReady, OpenIsTold, AcceptsServed, Sound, TypeOK, Sockets
  <2> QED
    BY <2>3, <2>4 DEF CallbacksReady
<1>8. ASSUME NEW s \in Sockets, PeerSends(s) \/ PeerCloses(s) PROVE CallbacksReady'
  <2>1. /\ sock[s] = "open" /\ (s = Own => assoc[Own] # NoEvent)
        /\ UNCHANGED <<server, lpc, cur, todo, runs, sock, assoc, cb>>
        /\ rec' = [rec EXCEPT ![s] = @ \cup {"READ"}] \/ rec' = [rec EXCEPT ![s] = @ \cup {"CLOSE"}]
    BY <1>8 DEF PeerSends, PeerCloses, Connected, control, loops
  <2>2. \A x \in Sockets : /\ rec[x] \subseteq rec'[x]
                           /\ "ACCEPT" \in rec'[x] => "ACCEPT" \in rec[x]
                           /\ x # s => rec'[x] = rec[x]
    BY <2>1 DEF Sound, TypeOK
  <2>3. OpenIsLive' /\ OwnOpen' /\ TakenAnnounced'
    BY <2>1, Zenon DEF CallbacksReady, OpenIsLive, OwnOpen, TakenAnnounced
  <2>4. OpenIsTold' /\ AcceptsServed'
    BY <2>1, <2>2 DEF CallbacksReady, OpenIsTold, AcceptsServed
  <2>5. "CONNECT" \in rec[Own] => "CONNECT" \in rec'[Own]
    BY <2>2 DEF Sockets
  <2>6. ClientAnnounced'
    BY <2>1, <2>5, Zenon DEF CallbacksReady, ClientAnnounced, Announced, LoopOver
  <2> QED
    BY <2>3, <2>4, <2>6 DEF CallbacksReady
<1>9. ASSUME NEW e \in Events, Open(e) PROVE CallbacksReady'
  <2>1. runs = 0 /\ \A l \in Loops : lpc[l] = "off"
    BY <1>9, Opening
  <2>2. sock[Own] = "open" /\ e # NoEvent
    BY <2>1 DEF CallbacksReady, OwnOpen
  <2>3. /\ UNCHANGED <<server, lpc, cur, todo, runs, sock, cb>>
        /\ assoc' = [assoc EXCEPT ![Own] = e]
        /\ rec' = [rec EXCEPT ![Own] = IF server THEN (IF backlog > 0 THEN {"ACCEPT"} ELSE {})
                                      ELSE {"CONNECT", "WRITE"}]
    BY <1>9 DEF Open, loops
  <2>4. /\ assoc'[Own] = e /\ server => rec'[Own] \subseteq {"ACCEPT"}
        /\ ~server => rec'[Own] = {"CONNECT", "WRITE"}
        /\ \A x \in Sockets : x # Own => rec'[x] = rec[x]
    BY <2>3 DEF Sound, TypeOK, Sockets
  <2>5. OpenIsLive' /\ OwnOpen' /\ TakenAnnounced'
    BY <2>3, Zenon DEF CallbacksReady, OpenIsLive, OwnOpen, TakenAnnounced
  <2>6. assoc'[Own] = e
    BY <2>3 DEF Sound, TypeOK, Sockets
  <2>7. OpenIsTold'
    BY <2>2, <2>3, <2>4, <2>6 DEF CallbacksReady, OpenIsTold
  <2>8. AcceptsServed'
    BY <2>3, <2>4 DEF CallbacksReady, AcceptsServed
  <2>9. ClientAnnounced'
    BY <2>3, <2>4 DEF ClientAnnounced, Announced
  <2> QED
    BY <2>5, <2>7, <2>8, <2>9 DEF CallbacksReady
<1>10. ASSUME NEW s \in Sockets, DisconnectFound(s) PROVE CallbacksReady'
  <2>1. /\ mpc \in {"stopping", "dropping"} /\ s \in found /\ CloseSocket(s)
        /\ cb' = [cb EXCEPT ![s] = "cut"] /\ UNCHANGED <<server, runs, todo, cur, lpc>>
    BY <1>10 DEF DisconnectFound, loops
  <2>2. runs # 0 /\ (server => s # Own)
    BY <2>1 DEF Sound, OneLoop, OwnFirst, OwnTold
  <2>3. cb'[s] = "cut" /\ \A x \in Sockets : x # s => cb'[x] = cb[x]
    BY <2>1 DEF Sound, TypeOK
  <2> QED
    BY <2>1, <2>2, <2>3, ReadyCloses
<1>11. ASSUME NEW l \in Loops,
              \/ Enter(l) \/ Raise(l) \/ TestRunning(l) \/ WaitAny(l) \/ SkipSlot(l)
              \/ ScanDone(l) \/ NextSlot(l)
       PROVE  CallbacksReady'
  <2>1. /\ lpc[l] # "off" /\ \A m \in Loops : m # l => lpc'[m] = lpc[m]
        /\ lpc[l] # "dispatch" \/ todo[l] = {}
    BY <1>11 DEF Enter, Raise, TestRunning, WaitAny, SkipSlot, ScanDone, NextSlot, Goto, Sound, TypeOK
  <2>2. UNCHANGED <<server, sock, assoc, rec, cb, cur, todo, runs>>
    BY <1>11 DEF Enter, Raise, TestRunning, WaitAny, SkipSlot, ScanDone, NextSlot, control, winsock
  <2>3. ~LoopOver /\ todo[l] = {}
    BY <2>1 DEF LoopOver, CallbacksReady, TakenAnnounced
  <2>4. \A m \in Loops : todo[m] # {} => lpc'[m] = lpc[m]
    BY <2>1, <2>3
  <2> QED
    BY <2>2, <2>3, <2>4, ReadyKept
<1>12. ASSUME NEW l \in Loops, NEW f \in DOMAIN Rank, EventFails(l, f) PROVE CallbacksReady'
  <2>1. /\ lpc[l] = "dispatch" /\ todo' = [todo EXCEPT ![l] = {}] /\ lpc' = [lpc EXCEPT ![l] = "off"]
        /\ UNCHANGED <<server, sock, assoc, rec, cb, cur, runs>>
    BY <1>12 DEF EventFails, Turn, Goto, control, winsock
  <2>2. runs # 0 /\ \A m \in Loops : m # l => lpc[m] = "off" /\ todo[m] = {}
    BY <2>1, Alone DEF CallbacksReady, TakenAnnounced
  <2>3. LoopOver'
    BY <2>1, <2>2 DEF LoopOver, Sound, TypeOK
  <2>4. \A m \in Loops : todo'[m] = {}
    BY <2>1, <2>2 DEF Sound, TypeOK
  <2>5. OpenIsLive' /\ OwnOpen' /\ OpenIsTold'
    BY <2>1, Zenon DEF CallbacksReady, OpenIsLive, OwnOpen, OpenIsTold
  <2>6. ClientAnnounced' /\ AcceptsServed' /\ TakenAnnounced'
    BY <2>1, <2>3, <2>4 DEF CallbacksReady, ClientAnnounced, Announced, AcceptsServed, TakenAnnounced
  <2> QED
    BY <2>5, <2>6 DEF CallbacksReady
<1>13. ASSUME NEW l \in Loops, NEW f \in DOMAIN Rank, CallBack(l, f) PROVE CallbacksReady'
  <2>1. /\ lpc[l] = "dispatch" /\ f \in todo[l] /\ todo' = [todo EXCEPT ![l] = @ \ {f}]
        /\ cb' = [cb EXCEPT ![cur[l]] = IF f = "CONNECT" THEN "live" ELSE @]
        /\ UNCHANGED <<server, sock, assoc, rec, cur, runs, lpc>>
    BY <1>13 DEF CallBack, Turn, Handled, control, winsock
  <2>2. \A m \in Loops : m # l => lpc[m] = "off" /\ todo[m] = {}
    BY <2>1, Alone DEF CallbacksReady, TakenAnnounced
  <2>3. cur[l] \in Sockets
    BY <2>1 DEF Sound, Cursor, CursorOf
  <2>4. /\ \A x \in Sockets : cb'[x] = cb[x] \/ cb'[x] = "live"
        /\ f = "CONNECT" => cb'[cur[l]] = "live"
        /\ todo'[l] = todo[l] \ {f}
        /\ \A m \in Loops : m # l => todo'[m] = {}
    BY <2>1, <2>2, <2>3 DEF Sound, TypeOK
  <2>5. OpenIsLive' /\ OwnOpen' /\ OpenIsTold' /\ AcceptsServed'
    BY <2>1, <2>4 DEF CallbacksReady, OpenIsLive, OwnOpen, OpenIsTold, AcceptsServed, Sockets
  <2>6. TakenAnnounced'
    <3>1. todo'[l] \cap Later # {} => cb[cur[l]] # "none" \/ "CONNECT" \in todo[l]
      BY <2>4 DEF CallbacksReady, TakenAnnounced
    <3>2. todo'[l] \cap Later # {} => cb'[cur[l]] # "none" \/ "CONNECT" \in todo'[l]
      BY <2>3, <2>4, <3>1
    <3> QED
      BY <2>1, <2>4, <3>2 DEF TakenAnnounced
  <2>7. ASSUME ~server', assoc'[Own] # NoEvent PROVE Announced(Own)'
    <3>1. Announced(Own) /\ ~LoopOver
      BY <2>1, <2>7 DEF CallbacksReady, ClientAnnounced, LoopOver
    <3>2. CASE cb[Own] # "none"
      BY <2>4, <3>2 DEF Announced, Sockets
    <3>3. CASE "CONNECT" \in rec[Own]
      BY <2>1, <3>3 DEF Announced
    <3>4. ASSUME NEW m \in Loops, cur[m] = Own, "CONNECT" \in todo[m] PROVE Announced(Own)'
      <4>1. m = l
        BY <2>2, <3>4
      <4>2. CASE f = "CONNECT"
        BY <2>4, <3>4, <4>1, <4>2 DEF Announced
      <4>3. CASE f # "CONNECT"
        BY <2>1, <2>4, <3>4, <4>1, <4>3 DEF Announced
      <4> QED
        BY <4>2, <4>3
    <3> QED
      BY <3>1, <3>2, <3>3, <3>4, Zenon DEF Announced
  <2> QED
    BY <2>5, <2>6, <2>7 DEF CallbacksReady, ClientAnnounced
<1>14. ASSUME NEW l \in Loops, BeginClose(l) PROVE CallbacksReady'
  <2>1. /\ lpc[l] = "dispatch" /\ "CLOSE" \in todo[l] /\ todo' = [todo EXCEPT ![l] = @ \ {"CLOSE"}]
        /\ \A g \in todo[l] : Rank["CLOSE"] <= Rank[g]
        /\ lpc' = [lpc EXCEPT ![l] = "refill"]
        /\ UNCHANGED <<server, sock, assoc, rec, cb, cur, runs>>
    BY <1>14 DEF BeginClose, Turn, Handled, Goto, control
  <2>2. \A m \in Loops : m # l => lpc[m] = "off" /\ todo[m] = {}
    BY <2>1, Alone DEF CallbacksReady, TakenAnnounced
  <2>3. ASSUME NEW g \in todo[l] PROVE g = "CLOSE"
    <3>1. g \in DOMAIN Rank
      BY DEF Sound, TypeOK, Flags
    <3>2. g \in {"CONNECT", "ACCEPT", "READ", "WRITE", "CLOSE"}
      BY <3>1 DEF Rank
    <3>3. Rank["CLOSE"] = 5 /\ Rank["CLOSE"] <= Rank[g]
      BY <2>1 DEF Rank
    <3> QED
      BY <3>2, <3>3 DEF Rank
  <2>4. \A m \in Loops : todo'[m] = {}
    BY <2>1, <2>2, <2>3 DEF Sound, TypeOK
  <2>5. OpenIsLive' /\ OwnOpen' /\ OpenIsTold'
    BY <2>1, Zenon DEF CallbacksReady, OpenIsLive, OwnOpen, OpenIsTold
  <2>6. AcceptsServed' /\ TakenAnnounced'
    BY <2>1, <2>4 DEF CallbacksReady, AcceptsServed, TakenAnnounced
  <2>7. ~LoopOver /\ \A m \in Loops : "CONNECT" \notin todo[m]
    BY <2>1, <2>2, <2>3 DEF LoopOver
  <2>8. ClientAnnounced'
    BY <2>1, <2>7, Zenon DEF CallbacksReady, ClientAnnounced, Announced
  <2> QED
    BY <2>5, <2>6, <2>8 DEF CallbacksReady
<1>15. ASSUME NEW l \in Loops, Refill(l) PROVE CallbacksReady'
  BY <1>15, ReadyKept DEF Refill, control, winsock, LoopOver
<1>16. ASSUME NEW l \in Loops, EndClose(l) PROVE CallbacksReady'
  <2>1. /\ lpc[l] = "refill" /\ CloseSocket(cur[l]) /\ cb' = [cb EXCEPT ![cur[l]] = "none"]
        /\ lpc' = [lpc EXCEPT ![l] = "dispatch"] /\ UNCHANGED <<server, runs, todo, cur>>
    BY <1>16 DEF EndClose, Goto, control
  <2>2. runs # 0 /\ \A m \in Loops : todo[m] = {}
    BY <2>1, Alone DEF CallbacksReady, TakenAnnounced
  <2>3. cur[l] \in Sockets /\ (server => cur[l] # Own)
    BY <2>1 DEF Sound, Cursor, CursorOf, OwnFirst, OwnTold
  <2>4. /\ \A x \in Sockets : x # cur[l] => cb'[x] = cb[x]
        /\ \A m \in Loops : lpc[m] = "off" => lpc'[m] = "off"
    BY <2>1, <2>3 DEF Sound, TypeOK
  <2> QED
    BY <2>1, <2>2, <2>3, <2>4, ReadyCloses
<1> QED
  BY <1>2, <1>3, <1>4, <1>5, <1>6, <1>7, <1>8, <1>9, <1>10, <1>11, <1>12, <1>13, <1>14, <1>15, <1>16,
     ReadyTakes, ReadyOpens, Zenon DEF Next, ControlStep, LoopStep, Deliver

LEMMA ReadyInvariant == Spec => [](Early /\ SoundInFirstLife /\ ReadyInFirstLife)
<1>1. Init => ReadyInFirstLife
  <2> SUFFICES ASSUME Init PROVE CallbacksReady
    BY DEF ReadyInFirstLife
  <2> QED
    BY AsyncSocketAssumption DEF Init, CallbacksReady, OpenIsLive, ClientAnnounced, OwnOpen,
       OpenIsTold, AcceptsServed, TakenAnnounced, Sockets
<1>2. ASSUME Early, SoundInFirstLife, ReadyInFirstLife, [Next]_vars
      PROVE  ReadyInFirstLife'
  <2> SUFFICES ASSUME FirstLife', ~overrun' PROVE CallbacksReady'
    BY DEF ReadyInFirstLife
  <2>1. FirstStep /\ Sound /\ CallbacksReady
    BY <1>2, EarlyStep DEF FirstStep, SoundInFirstLife, ReadyInFirstLife
  <2> QED
    BY <1>2, <2>1, ReadyStep
<1> QED
  BY <1>1, <1>2, SoundInvariant, PTL DEF Spec

-----------------------------------------------------------------------------
(* A program that runs the object once, on a table larger than its peers. *)

\* Every state then belongs to the first run.
LEMMA SingleRun == MaxRuns <= 1 => (Spec => []FirstLife)
<1> SUFFICES ASSUME MaxRuns <= 1 PROVE Spec => []FirstLife
  OBVIOUS
<1> DEFINE Once == runs \in Nat /\ FirstLife
<1>1. Init => Once
  BY DEF Init, FirstLife
<1>2. ASSUME Once, [Next]_vars PROVE Once'
  <2>1. \/ runs' = runs /\ (mpc' = "opened" => mpc = "opened" \/ runs < MaxRuns)
        \/ runs' = runs + 1 /\ mpc = "opened" /\ mpc' = "up"
    <3>1. ASSUME NEW e \in Events, Open(e) \/ OpenRefused(e)
          PROVE  runs' = runs /\ (mpc' = "opened" => mpc = "opened" \/ runs < MaxRuns)
      BY <3>1 DEF Open, OpenRefused, control
    <3>2. CASE Run
      BY <3>2 DEF Run
    <3>3. CASE Stop \/ DisconnectConnections \/ ControlStep
      BY <3>3 DEF Stop, DisconnectConnections, ControlStep, ReadSlot, DisconnectFound, ControlDone
    <3>4. CASE UNCHANGED vars
      BY <3>4 DEF vars, control
    <3>5. CASE PeerConnects \/ PeerAborts \/ \E s \in Sockets : PeerSends(s) \/ PeerCloses(s)
      BY <3>5 DEF PeerConnects, PeerAborts, PeerSends, PeerCloses, control
    <3>6. ASSUME NEW l \in Loops, LoopStep(l) PROVE UNCHANGED <<runs, mpc>>
      BY <3>6 DEF LoopStep, Enter, Raise, TestRunning, WaitAny, SkipSlot, TakeEvents, ScanDone,
         NextSlot, Deliver, EventFails, CallBack, DoOpen, Refuse, AcceptNothing, Accept,
         BeginClose, Refill, EndClose, control
    <3> QED
      BY <1>2, <3>1, <3>2, <3>3, <3>4, <3>5, <3>6, Zenon DEF Next
  <2>2. MaxRuns \in Nat
    BY AsyncSocketAssumption
  <2> QED
    BY <1>2, <2>1, <2>2 DEF FirstLife
<1> QED
  BY <1>1, <1>2, PTL DEF Spec

\* Run once and with fewer peers than slots, a server or a client keeps its
\* table within the arrays and in step with its sockets, whatever fails and
\* whenever it is stopped (asyncsocket.cpp:226-531).
THEOREM SingleRunSound ==
  MaxRuns <= 1 /\ MaxPeers < MaxEvents =>
    (Spec => [](TypeOK /\ LiveListed /\ ServerKeepsSlotZero /\ TableFits))
<1> SUFFICES ASSUME MaxRuns <= 1, MaxPeers < MaxEvents
             PROVE  Spec => [](TypeOK /\ LiveListed /\ ServerKeepsSlotZero /\ TableFits)
  OBVIOUS
<1>1. FirstLife /\ (FirstLife => TableFits) /\ (FirstLife /\ ~overrun => TypeOK)
        /\ (FirstLife /\ ~overrun => LiveListed) /\ (FirstLife /\ ~overrun => ServerKeepsSlotZero)
      => TypeOK /\ LiveListed /\ ServerKeepsSlotZero /\ TableFits
  BY DEF TableFits
<1>2. Spec => []FirstLife
  BY SingleRun
<1>3. Spec => [](FirstLife => TableFits)
  BY FewerPeersFit
<1> QED
  BY <1>1, <1>2, <1>3, FirstRunTypes, FirstRunListed, FirstRunReachable, PTL

\* One event handled out of turn is the only way CallbackOrder could fail.
OrderedStep ==
  \A l \in Loops : \A f \in todo[l] \ todo'[l] :
    lpc'[l] # "off" /\ f \in {"READ", "WRITE", "CLOSE"} => cb[cur[l]] # "none"

LEMMA ReadyOrders ==
  ASSUME Sound, CallbacksReady, [Next]_vars
  PROVE  OrderedStep
<1> SUFFICES ASSUME NEW l \in Loops, NEW f \in todo[l], f \notin todo'[l], lpc'[l] # "off", f \in Later
             PROVE  cb[cur[l]] # "none"
  BY DEF OrderedStep, Later
<1>1. lpc[l] = "dispatch" /\ (cb[cur[l]] # "none" \/ "CONNECT" \in todo[l])
  BY DEF CallbacksReady, TakenAnnounced
<1>2. todo' # todo
  OBVIOUS
<1>3. \E m \in Loops : LoopStep(m)
  BY <1>2 DEF Next, vars, loops, PeerConnects, PeerAborts, PeerSends, PeerCloses, Open, OpenRefused,
     Run, Stop, DisconnectConnections, ControlStep, ReadSlot, DisconnectFound, ControlDone
<1>4. PICK m \in Loops : LoopStep(m)
  BY <1>3
<1>5. CASE \E g \in DOMAIN Rank : CallBack(m, g)
  <2>1. PICK g \in DOMAIN Rank : CallBack(m, g)
    BY <1>5
  <2>2. Turn(m, g) /\ todo' = [todo EXCEPT ![m] = @ \ {g}]
    BY <2>1 DEF CallBack, Handled
  <2>3. m = l /\ g = f
    BY <2>2 DEF Sound, TypeOK
  <2>4. "CONNECT" \notin todo[l]
    BY <2>2, <2>3 DEF Turn, Rank, Later
  <2> QED
    BY <1>1, <2>4
<1>6. CASE BeginClose(m)
  <2>1. Turn(m, "CLOSE") /\ todo' = [todo EXCEPT ![m] = @ \ {"CLOSE"}]
    BY <1>6 DEF BeginClose, Handled
  <2>2. m = l /\ "CONNECT" \notin todo[l]
    BY <2>1 DEF Sound, TypeOK, Turn, Rank
  <2> QED
    BY <1>1, <2>2
<1>7. CASE DoOpen(m)
  <2>1. \/ todo' = [todo EXCEPT ![m] = {}] /\ lpc' = [lpc EXCEPT ![m] = "off"]
        \/ todo' = [todo EXCEPT ![m] = @ \ {"ACCEPT"}]
    BY <1>7 DEF DoOpen, Refuse, AcceptNothing, Accept, Handled, Goto
  <2>2. FALSE
    BY <2>1 DEF Sound, TypeOK, Later
  <2> QED
    BY <2>2
<1>8. CASE \E g \in DOMAIN Rank : EventFails(m, g)
  <2>1. todo' = [todo EXCEPT ![m] = {}] /\ lpc' = [lpc EXCEPT ![m] = "off"]
    BY <1>8 DEF EventFails, Goto
  <2>2. FALSE
    BY <2>1 DEF Sound, TypeOK
  <2> QED
    BY <2>2
<1>9. CASE TakeEvents(m)
  <2>1. lpc[m] = "scan" /\ \A x \in Loops : x # m => todo'[x] = todo[x]
    BY <1>9 DEF TakeEvents, Sound, TypeOK
  <2>2. FALSE
    BY <1>1, <2>1
  <2> QED
    BY <2>2
<1> QED
  BY <1>2, <1>4, <1>5, <1>6, <1>7, <1>8, <1>9 DEF LoopStep, Deliver, Enter, Raise, TestRunning,
     WaitAny, SkipSlot, ScanDone, NextSlot, Refill, EndClose

\* Then, too, the callbacks of a connection come in order: data and close only
\* after on_connect or on_open, nothing after on_close, however often the handle
\* is used again (asyncsocket.cpp:262-447).
THEOREM SingleRunOrdered ==
  MaxRuns <= 1 /\ MaxPeers < MaxEvents => (Spec => CallbackOrder)
<1> SUFFICES ASSUME MaxRuns <= 1, MaxPeers < MaxEvents
             PROVE  Spec => CallbackOrder
  OBVIOUS
<1>1. ASSUME SoundInFirstLife, ReadyInFirstLife, FirstLife, FirstLife => TableFits, [Next]_vars
      PROVE  [OrderedStep]_vars
  BY <1>1, ReadyOrders DEF SoundInFirstLife, ReadyInFirstLife, TableFits
<1>2. Spec => []FirstLife
  BY SingleRun
<1>3. Spec => [](FirstLife => TableFits)
  BY FewerPeersFit
<1>4. Spec => [][OrderedStep]_vars
  BY <1>1, <1>2, <1>3, ReadyInvariant, PTL DEF Spec
<1> QED
  BY <1>4 DEF CallbackOrder, OrderedStep
=============================================================================
