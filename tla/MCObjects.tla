---- MODULE MCObjects ----
(* Components that share no state, checked in one run: `which` names the one *)
(* that moves in a behaviour, so that their state spaces add up.             *)
EXTENDS InlineHook, ServiceManager, Debouncer, IatHook, StlThread

CONSTANTS s1, s2, f1, f2, f3, r1, r2

VARIABLE which

objectVars == <<which, inlineVars, serviceVars, debounceVars, iatVars, vars>>

Plain(n) == [len |-> n, disp |-> 0]
RipRelative(n, at) == [len |-> n, disp |-> at]

\* Functions that begin with: a RIP-relative instruction last in the copied part;
\* none; an instruction the decoder does not know.
ThreeLayouts == << <<Plain(4), Plain(4), RipRelative(7, 3), Plain(2)>>,
                   <<Plain(5), Plain(5), Plain(6), Plain(3)>>,
                   <<Plain(4), Plain(0)>> >>
OwnObject == {<<1, 1>>, <<2, 2>>, <<3, 3>>}

\* A function whose RIP-relative instruction is followed by others in the copied part.
EarlyRelative == << <<RipRelative(7, 3), Plain(4), Plain(3), Plain(2)>> >>
OneObject == {<<1, 1>>}

TwoServices == {s1, s2}
TwoIds == {1, 2}
TwoImports == {f1, f2}
OneMissing == {f3}
TwoReplacements == {r1, r2}

ObjectsInit ==
  /\ which \in {"inline", "service", "debouncer", "iat", "stlthread"}
  /\ InlineInit /\ ServiceInit /\ DebounceInit /\ IatInit /\ Init
  /\ which # "service" => target = s1 /\ scm = NoServices

ObjectsNext ==
  /\ UNCHANGED which
  /\ \/ which = "inline" /\ InlineNext /\ UNCHANGED <<serviceVars, debounceVars, iatVars, vars>>
     \/ which = "service" /\ ServiceNext /\ UNCHANGED <<inlineVars, debounceVars, iatVars, vars>>
     \/ which = "debouncer" /\ DebounceNext /\ UNCHANGED <<inlineVars, serviceVars, iatVars, vars>>
     \/ which = "iat" /\ IatNext /\ UNCHANGED <<inlineVars, serviceVars, debounceVars, vars>>
     \/ which = "stlthread" /\ Next /\ UNCHANGED <<inlineVars, serviceVars, debounceVars, iatVars>>

ObjectsSpec == ObjectsInit /\ [][ObjectsNext]_objectVars

\* Each component's variables keep their types.
ObjectsTypeOK == InlineTypeOK /\ ServiceTypeOK /\ DebounceTypeOK /\ IatTypeOK /\ TypeOK
====
