---- MODULE ThreadSignal ----
(* vu::ThreadSignal: a manual-reset event. A copy is an event of its own that  *)
(* starts with the state of the other; an assignment reads one and sets the    *)
(* other, in two steps.                                                        *)
EXTENDS FiniteSets

CONSTANTS SignalThreads, Signals

ASSUME SignalAssumption == Signals # {}

VARIABLES signalUp,     \* m_event: set or not
          signalWaits,  \* signal -> threads inside wait()
          signalThread  \* thread -> what it does, and the state it read or the answer it got

signalVars == <<signalUp, signalWaits, signalThread>>

Resting == [doing |-> "rest", value |-> FALSE, of |-> CHOOSE s \in Signals : TRUE]

SignalInit ==
  /\ signalUp \in [Signals -> BOOLEAN]
  /\ signalWaits = [s \in Signals |-> {}]
  /\ signalThread = [t \in SignalThreads |-> Resting]

Answered(value, s) == [doing |-> "answered", value |-> value, of |-> s]

\* An event that lets one waiter through and is down again.
SetStateOneWaiter(s, value) ==
  /\ signalUp' = [signalUp EXCEPT ![s] = value /\ signalWaits[s] = {}]
  /\ \/ ~value /\ UNCHANGED <<signalWaits, signalThread>>
     \/ value /\ signalWaits[s] = {} /\ UNCHANGED <<signalWaits, signalThread>>
     \/ value /\ \E t \in signalWaits[s] :
          /\ signalWaits' = [signalWaits EXCEPT ![s] = @ \ {t}]
          /\ signalThread' = [signalThread EXCEPT ![t] = Answered(TRUE, s)]

\* set: SetEvent on a manual-reset event releases every waiter and stays up.
SetState(s, value) ==
  /\ signalUp' = [signalUp EXCEPT ![s] = value]
  /\ signalWaits' = [signalWaits EXCEPT ![s] = IF value THEN {} ELSE @]
  /\ signalThread' = [t \in SignalThreads |->
       IF value /\ t \in signalWaits[s] THEN Answered(TRUE, s) ELSE signalThread[t]]

Set(t, s, value) == signalThread[t].doing = "rest" /\ SetState(s, value)

\* wait, and get, which is wait(0): an event that is up answers at once.
Wait(t, s) ==
  /\ signalThread[t].doing = "rest"
  /\ \/ /\ signalUp[s]
        /\ signalThread' = [signalThread EXCEPT ![t] = Answered(TRUE, s)]
        /\ UNCHANGED signalWaits
     \/ /\ ~signalUp[s]
        /\ signalThread' = [signalThread EXCEPT ![t] = [Resting EXCEPT !.doing = "wait", !.of = s]]
        /\ signalWaits' = [signalWaits EXCEPT ![s] = @ \union {t}]
  /\ UNCHANGED signalUp

\* The time given to wait() is over.
WaitTimesOut(t) ==
  LET s == signalThread[t].of IN
  /\ signalThread[t].doing = "wait"
  /\ signalThread' = [signalThread EXCEPT ![t] = Answered(FALSE, s)]
  /\ signalWaits' = [signalWaits EXCEPT ![s] = @ \ {t}]
  /\ UNCHANGED signalUp

\* operator=(const ThreadSignal&): right.get() first ...
ReadOther(t, s) ==
  /\ signalThread[t].doing = "rest"
  /\ signalThread' = [signalThread EXCEPT ![t] = [doing |-> "assign", value |-> signalUp[s], of |-> s]]
  /\ UNCHANGED <<signalUp, signalWaits>>

\* ... then set() with what was read, whatever happened to the other in between.
AssignRead(t, s) ==
  /\ signalThread[t].doing = "assign"
  /\ LET value == signalThread[t].value IN
     /\ signalUp' = [signalUp EXCEPT ![s] = value]
     /\ signalWaits' = [signalWaits EXCEPT ![s] = IF value THEN {} ELSE @]
     /\ signalThread' = [u \in SignalThreads |->
          IF u = t THEN Resting
          ELSE IF value /\ u \in signalWaits[s] THEN Answered(TRUE, s) ELSE signalThread[u]]

Continue(t) ==
  /\ signalThread[t].doing = "answered"
  /\ signalThread' = [signalThread EXCEPT ![t] = Resting]
  /\ UNCHANGED <<signalUp, signalWaits>>

SignalNext == \E t \in SignalThreads :
  \/ \E s \in Signals : \/ \E value \in BOOLEAN : Set(t, s, value)
                        \/ Wait(t, s) \/ ReadOther(t, s) \/ AssignRead(t, s)
  \/ WaitTimesOut(t) \/ Continue(t)

SignalSpec == SignalInit /\ [][SignalNext]_signalVars

SignalTypeOK ==
  /\ signalUp \in [Signals -> BOOLEAN]
  /\ signalWaits \in [Signals -> SUBSET SignalThreads]
  /\ signalThread \in [SignalThreads ->
       [doing : {"rest", "wait", "answered", "assign"}, value : BOOLEAN, of : Signals]]

\* The event is manual-reset: a wait that succeeds consumes nothing. Whoever is answered,
\* by a notification or an assignment, every other waiter is answered in the same step
\* and the signal is still up for those who come later.
AnswerConsumesNothing ==
  [][\A t \in SignalThreads :
       LET new == signalThread'[t] IN
       signalThread[t].doing # "answered" /\ new.doing = "answered" /\ new.value
         => signalUp'[new.of] /\ \A u \in SignalThreads : ~(signalThread'[u].doing = "wait"
                                                            /\ signalThread'[u].of = new.of)]_signalVars
====
