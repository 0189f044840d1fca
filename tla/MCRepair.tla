------------------------------ MODULE MCRepair ------------------------------
(* Repair for two rules over a sensor and two devices, and the errors "open *)
(* while it rains", "open with the light on" and "open for longer than one  *)
(* unit of time".                                                           *)
EXTENDS Repair

NoEventTimers == <<>>
WindowOpen == <<[time |-> 1, var |-> "window", holds |-> {1}]>>
lasted(neg) == [on |-> "*", timer |-> 1, neg |-> neg]
MCVar == {"rain", "window", "light"}
set(var, val) == [kind |-> "set", var |-> var, val |-> val]
is(var, val) == [on |-> "channel", var |-> var, holds |-> {val}]

Rules == [trigger: {set("rain", 1), set("window", 1), set("light", 1),
                    [kind |-> "tick*", timer |-> 1]},
          condition: {{}, {is("light", 0)}},
          action: {set("window", 1), set("window", 0), set("light", 1)}]

CanTrigger(r, s) == s.trigger = r.action
LoopFreeSet(S) ==
    \E rank \in [S -> 1..Cardinality(S)] :
        \A r, s \in S : CanTrigger(r, s) => rank[r] < rank[s]

MCTapLists == {S \in {{r, s} : r, s \in Rules} : LoopFreeSet(S)}
MCErrors == {{is("rain", 1), is("window", 1)}, {is("light", 1), is("window", 1)},
             {lasted(FALSE)}}
=============================================================================
