---------------------------- MODULE SynthParSystem ----------------------------
(***************************************************************************)
(* The third interpreter of rules: the symbolic system of autotapta/model/ *)
(* ParameterizedSystem.py, which is run over a trace to find a rule for an *)
(* action that users do by hand (synthesizeRuleWithSatSolver and           *)
(* synthesizeRuleBasedOnMultipleEvents of analyze/Analyze.py). The values  *)
(* of capabilities are formulas over z3 variables that describe the new    *)
(* rule. Here a formula is what it evaluates to under one choice of them,  *)
(* a rule of InformalSystem: its trigger and its conditions have any       *)
(* comparator, so none is negated. Without a trigger there is no rule.     *)
(*                                                                         *)
(* Actions of other capabilities than those of the system change nothing.  *)
(* Existing rules are about its capabilities (the two functions give none).*)
(***************************************************************************)
EXTENDS InformalSystem, Integers, FiniteSets

LOCAL INSTANCE SequencesExt

(* The rules that the z3 variables describe: of every capability one       *)
(* trigger and one condition at most, whose comparators are never negated. *)
Described(new) ==
    /\ ~ new.trigger.neg /\ \A cond \in new.condition : ~ cond.neg
    /\ \A c, d \in new.condition : c.cap = d.cap => c = d

(* _convertFormulaToZ3 and _checkCondition: a "!" gives the other          *)
(* comparator.                                                             *)
CheckCondition(values, cond) == (values[cond.cap] \in cond.holds) # cond.neg

ConditionsHold(values, tap) == \A cond \in tap.condition : CheckCondition(values, cond)

(* An existing rule is triggered by the very action of its trigger only.   *)
IsTheTrigger(action, cond) ==
    cond = [neg |-> FALSE, cap |-> action.cap, holds |-> {action.value}]

(* z3.If(condition, action_val, value)                                     *)
AppliedIf(values, action, condition) ==
    IF condition THEN [values EXCEPT ![action.cap] = action.value] ELSE values

(* following_action_tup of an action, by the values before it: each rule's *)
(* action, the new rule's last, with the formula that it is triggered.     *)
FollowingActions(existing, new, values, action) ==
    [n \in DOMAIN existing |->
        [action |-> existing[n].action,
         condition |-> /\ IsTheTrigger(action, existing[n].trigger)
                       /\ ConditionsHold(values, existing[n])]]
    \o <<[action |-> new.action,
          condition |-> /\ CheckActionCondition(action, new.trigger)
                        /\ ConditionsHold(values, new)]>>

(* Slip: the rules are looked at when the action has been applied.         *)
ApplySymbolicAfter(existing, new, values, action) ==
    LET after == AppliedIf(values, action, TRUE)
    IN  FoldLeft(LAMBDA v, following : AppliedIf(v, following.action, following.condition),
                 after, FollowingActions(existing, new, after, action))

(* applyAction: the action, at depth 1, then those of the rules, at depth  *)
(* 2. What these would trigger has depth 3 and is dropped.                 *)
ApplySymbolic(existing, new, values, action) ==
    FoldLeft(LAMBDA v, following : AppliedIf(v, following.action, following.condition),
             AppliedIf(values, action, TRUE), FollowingActions(existing, new, values, action))

(* The loop over the actions of the trace: target_c_list is about the      *)
(* values before the action.                                               *)
RunTrace(existing, new, values, trace_actions) ==
    FoldLeft(LAMBDA run, action :
                [values |-> ApplySymbolic(existing, new, run.values, action),
                 total |-> run.total + (IF action = new.action THEN 1 ELSE 0),
                 automated |-> run.automated +
                    (IF /\ action = new.action
                        /\ run.values[new.action.cap] = new.action.value THEN 1 ELSE 0)],
             [values |-> values, total |-> 0, automated |-> 0], trace_actions)

(* action_c and trigcond_c, for a trigger that compares with trigval: the  *)
(* target action, and no condition is about the trigger's capability.      *)
WellFormed(new, trigval) ==
    /\ ~ (new.trigger.cap = new.action.cap /\ trigval = new.action.value)
    /\ \A cond \in new.condition : cond.cap # new.trigger.cap

(* The solutions that the two functions print. int() rounds down.          *)
IsSolution(new, trigval, run) ==
    WellFormed(new, trigval) /\ run.values[new.action.cap] = new.action.value
IsSolutionForMost(new, trigval, run, rate) ==
    WellFormed(new, trigval) /\ run.automated >= (run.total * rate) \div 100

-----------------------------------------------------------------------------
(* The last rule is the new one, the others exist.                         *)
Existing == SubSeq(tap_list, 1, NTap - 1)
New == tap_list[NTap]

(* The trace is that of the events that no rule causes.                    *)
TraceActions ==
    LET external == SelectSeq(event_list, LAMBDA event : event.is_ext)
    IN  [n \in DOMAIN external |-> [cap |-> external[n].cap, value |-> external[n].value]]

(* The existing rules have triggers of one value and no negated condition, *)
(* and neither trigger other rules nor are triggered by them.              *)
ExistingApart ==
    \A n \in 1..(NTap - 1) :
        /\ \A cond \in tap_list[n].condition : ~ cond.neg
        /\ ~ tap_list[n].trigger.neg /\ \E v \in Value : tap_list[n].trigger.holds = {v}
        /\ \A m \in Taps \ {n} :
              /\ ~ CheckActionCondition(tap_list[n].action, tap_list[m].trigger)
              /\ ~ CheckActionCondition(tap_list[m].action, tap_list[n].trigger)

TargetsAt ==
    {n \in DOMAIN event_list : event_list[n] = Event(New.action, TRUE)}
DoneBefore(n) == StateBefore(n)[New.action.cap] = New.action.value

(* What the solver finds is what the rule does in the house, although the  *)
(* symbolic system follows rules for one step only: for every rule of the  *)
(* form that it searches, with one trigger value, the values at the end are*)
(* those that InformalSystem, with which rules run and are introduced into *)
(* traces, ends with; the target actions that it counts are those before   *)
(* which the events, and the rules' actions, had led to the target already.*)
SynthesisTrue ==
    pc = "next" /\ ExistingApart /\ Described(New) =>
        \A trigval \in Value :
            New.trigger.holds = {trigval} /\ WellFormed(New, trigval) =>
                LET run == RunTrace(Existing, New, initial_state, TraceActions)
                IN  /\ run.values = state_dict
                    /\ run.total = Cardinality(TargetsAt)
                    /\ run.automated = Cardinality({n \in TargetsAt : DoneBefore(n)})
                    /\ IsSolution(New, trigval, run) =>
                          state_dict[New.action.cap] = New.action.value
                    /\ \A rate \in 1..100 : IsSolutionForMost(New, trigval, run, rate) =>
                          100 * (Cardinality({n \in TargetsAt : DoneBefore(n)}) + 1)
                              > rate * Cardinality(TargetsAt)
=============================================================================
