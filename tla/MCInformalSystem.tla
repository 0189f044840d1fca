--------------------------- MODULE MCInformalSystem ---------------------------
(* Two Boolean capabilities and every list of two rules over a small       *)
(* universe: rules that trigger each other, or themselves, or nothing.     *)
EXTENDS SynthParSystem

MCCap == {"motion", "light"}
MCValue == {0, 1}

is(cap, value) == [neg |-> FALSE, cap |-> cap, holds |-> {value}]
isNot(cap, value) == [neg |-> TRUE, cap |-> cap, holds |-> {value}]
changes(cap) == [neg |-> FALSE, cap |-> cap, holds |-> MCValue]

RulesOver(triggers, conditions) ==
    [action: [cap: MCCap, value: MCValue], trigger: triggers, condition: conditions]

Exact == {is(cap, value) : cap \in MCCap, value \in MCValue}

(* One value triggers a rule, and no condition is negated.                 *)
Changes == {[cap |-> "motion", value |-> 1], [cap |-> "light", value |-> 0],
            [cap |-> "light", value |-> 1]}
PlainLists ==
    [Taps -> [action: Changes, trigger: {is(a.cap, a.value) : a \in Changes},
              condition: {{}, {is("light", 0)}, {is("motion", 1)}}]]

(* A range of values, such as "temperature>=0", can trigger a rule.        *)
RangeLists ==
    [Taps -> [action: Changes, trigger: {changes("motion"), is("motion", 1), is("light", 1)},
              condition: {{}, {is("light", 0)}}]]

(* A second rule alone: the conditions of the first never hold.            *)
Inert == [action |-> [cap |-> "motion", value |-> 0], trigger |-> is("motion", 0),
          condition |-> {is("light", 0), is("light", 1)}]
SingleRules ==
    [action: [cap: MCCap, value: MCValue], trigger: Exact \cup {changes("motion")},
     condition: {{}, {is("light", 0)}, {is("motion", 1)}}]
SingleLists == {<<Inert, tap>> : tap \in SingleRules}

PlainAndRangeLists == PlainLists \cup RangeLists \cup SingleLists

(* A condition of a rule is negated.                                       *)
NegatedLists ==
    [Taps -> RulesOver(Exact, {{isNot("light", 0)}})]
=============================================================================
