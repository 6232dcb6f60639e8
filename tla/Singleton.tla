---- MODULE Singleton ----
(* vu::SingletonT: instance() makes the object on first use, without a lock. The  *)
(* constructor of the base stores the pointer before the rest of the object is    *)
(* made, and instance() stores it once more afterwards. Nothing destroys it: the  *)
(* destructor deletes the object being destroyed, so a program that calls it has  *)
(* no behaviour, and the model does not.                                          *)
EXTENDS Integers, FiniteSets

CONSTANTS SingletonThreads,
          MaxInstances        \* bound on the objects made

ASSUME SingletonAssumption == MaxInstances \in Nat \ {0}

VARIABLES instance,    \* m_ptr_instance, 0 is null
          complete,    \* objects whose constructor has returned
          instances,   \* objects made or being made
          instanceOf,  \* thread -> where its call stands and the object it makes or got
          raced        \* two calls of instance() both found nothing, or one found half an object

singletonVars == <<instance, complete, instances, instanceOf, raced>>

NotCalling == [at |-> "out", object |-> 0]
Calling(at, object) == [at |-> at, object |-> object]

SingletonInit ==
  /\ instance = 0 /\ complete = {} /\ instances = 0
  /\ instanceOf = [t \in SingletonThreads |-> NotCalling]
  /\ raced = FALSE

Making == {t \in SingletonThreads : instanceOf[t].at \in {"missing", "making"}}

\* An instance() that does not look whether there is one.
TestInstanceNever(t) ==
  /\ instanceOf[t].at = "out" /\ instances < MaxInstances
  /\ instanceOf' = [instanceOf EXCEPT ![t] = Calling("missing", 0)]
  /\ raced' = (raced \/ Making # {})
  /\ UNCHANGED <<instance, complete, instances>>

\* m_ptr_instance == nullptr, which is tested once.
TestInstance(t) ==
  /\ instanceOf[t].at = "out"
  /\ instanceOf' = [instanceOf EXCEPT ![t] = Calling(IF instance = 0 THEN "missing" ELSE "made", 0)]
  /\ raced' = (raced \/ Making # {})
  /\ UNCHANGED <<instance, complete, instances>>

\* new T(): SingletonT() comes first and stores `this` ...
BeginInstance(t) ==
  /\ instanceOf[t].at = "missing" /\ instances < MaxInstances
  /\ instances' = instances + 1
  /\ instance' = instances'
  /\ instanceOf' = [instanceOf EXCEPT ![t] = Calling("making", instances')]
  /\ UNCHANGED <<complete, raced>>

\* ... and the pointer new T() returns is stored when T() is done.
EndInstance(t) ==
  /\ instanceOf[t].at = "making"
  /\ complete' = complete \union {instanceOf[t].object}
  /\ instance' = instanceOf[t].object
  /\ instanceOf' = [instanceOf EXCEPT ![t].at = "made"]
  /\ UNCHANGED <<instances, raced>>

\* return *m_ptr_instance: whatever it points to now.
AnswerInstance(t) ==
  /\ instanceOf[t].at = "made"
  /\ instanceOf' = [instanceOf EXCEPT ![t] = Calling("has", instance)]
  /\ UNCHANGED <<instance, complete, instances, raced>>

\* The program is done with the reference it got.
ForgetInstance(t) ==
  /\ instanceOf[t].at = "has"
  /\ instanceOf' = [instanceOf EXCEPT ![t] = NotCalling]
  /\ UNCHANGED <<instance, complete, instances, raced>>

SingletonNext == \E t \in SingletonThreads :
  \/ TestInstance(t) \/ BeginInstance(t) \/ EndInstance(t) \/ AnswerInstance(t) \/ ForgetInstance(t)

SingletonSpec == SingletonInit /\ [][SingletonNext]_singletonVars

SingletonTypeOK ==
  /\ instance \in 0..MaxInstances /\ instances \in 0..MaxInstances
  /\ complete \subseteq 1..MaxInstances
  /\ instanceOf \in [SingletonThreads -> [at : {"out", "missing", "making", "made", "has"},
                                          object : 0..MaxInstances]]
  /\ raced \in BOOLEAN

\* Whoever calls instance() gets an object; all get the same one, and a complete one, unless
\* some call came while another was still making it; and only then is there a second one.
OneInstanceUnlessRaced ==
  /\ \A t \in SingletonThreads : instanceOf[t].at = "has" => instanceOf[t].object # 0
  /\ ~raced =>
       /\ instances <= 1
       /\ \A t \in SingletonThreads : instanceOf[t].at = "has" =>
            instanceOf[t].object = instance /\ instance \in complete
====
