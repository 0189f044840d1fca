----------------------- MODULE MCTransitionSystemBuild -----------------------
(* TransitionSystemBuild for two Boolean variables, one timer of each kind *)
(* and every pair of rules over a small universe.                          *)
EXTENDS TransitionSystemBuild

MCVar == {"motion", "light"}
MCVal == {0, 1}
MCEventTimer == <<[time |-> 2, var |-> "motion", holds |-> {1}]>>
MCStateTimer == <<[time |-> 3, var |-> "light", holds |-> {1}]>>

set(var, val) == [kind |-> "set", var |-> var, val |-> val]
isTrue(var) == [on |-> "channel", var |-> var, holds |-> {1}]
within == [on |-> "#", timer |-> 1, neg |-> FALSE]

MCActionOrder == <<set("light", 1), set("light", 0), set("motion", 1), set("motion", 0)>>

Triggers == {set("motion", 1), set("light", 1), set("light", 0), [kind |-> "tick*", timer |-> 1]}
Conditions == {{}, {within}}
Effects == {set("light", 1), set("light", 0)}
Rules == [action: Effects, trigger: Triggers, condition: Conditions]

(* Rules that are triggered by an event and that cannot trigger themselves.*)
LoopFreeTapDicts == {taps \in [Taps -> Rules] : LoopFree(taps)}

(* Any single rule, those that are triggered by a state included; the other*)
(* one never runs, because its condition is never met.                     *)
NeverMet == {[on |-> "channel", var |-> "light", holds |-> {}]}
Inert == [action |-> set("light", 1), trigger |-> set("motion", 1), condition |-> NeverMet]
AnyTapDicts ==
    {<<tap, Inert>> : tap \in
        [action: Effects, trigger: Triggers \cup {NoTrigger},
         condition: Conditions \cup {{isTrue("light")}}]}

MCTapDicts == LoopFreeTapDicts \cup AnyTapDicts
===========================================================================
