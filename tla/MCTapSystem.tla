----------------------------- MODULE MCTapSystem -----------------------------
(* TapSystem over two Boolean variables, one timer of each kind with       *)
(* different times, and every set of NTap rules over a small rule universe.*)
EXTENDS TapSystem

MCVar == {"motion", "light"}
MCVal == {0, 1}
MCEventTimer == <<[time |-> 2, var |-> "motion", holds |-> {1}]>>
MCStateTimer == <<[time |-> 3, var |-> "light", holds |-> {1}]>>

set(var, val) == [kind |-> "set", var |-> var, val |-> val]
isTrue(var) == [on |-> "channel", var |-> var, holds |-> {1}]
within == [on |-> "#", timer |-> 1, neg |-> FALSE]
notLasted == [on |-> "*", timer |-> 1, neg |-> TRUE]

Triggers == {set("motion", 1), set("light", 1), set("light", 0), NoTrigger}
              \cup TickEvent
Conditions == {{}, {isTrue("light")}, {within, notLasted}}
Effects == {set("light", 1), set("light", 0), set("motion", 1)}

MCTapDicts == [Taps -> [action: Effects, trigger: Triggers, condition: Conditions]]
=============================================================================
