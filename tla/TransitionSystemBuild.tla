------------------------ MODULE TransitionSystemBuild ------------------------
(***************************************************************************)
(* The construction of the transition system that properties are checked   *)
(* against: _createTS and _BFS of autotapmc/model/IoTSystem.py, and the    *)
(* class TS of autotapmc/ts/TransitionSystem.py. A state is taken from the *)
(* search pool, and all its steps are added, one after the other, before   *)
(* the next one is taken.                                                  *)
(***************************************************************************)
EXTENDS TapSemantics, SequencesExt

CONSTANTS
    TapDicts,     \* the rule sets considered
    ActionOrder,  \* the actions in the order the channels list them
    MaxState      \* the construction is not followed beyond so many states

ASSUME BuildAssumption == /\ TapDicts \subseteq [Taps -> Tap]
                          /\ ActionOrder \in Seq(Action)
                          /\ \A a \in Action : \E k \in DOMAIN ActionOrder : ActionOrder[k] = a
                          /\ MaxState \in Nat

VARIABLES
    tap_dict,     \* the rules, which never change
    state_list,   \* the fields of the states, by index
    trans_list,   \* the transitions, between indices
    search_pool,  \* the indices of the states whose steps are still to be added
    state_t,      \* the state that is being looked at
    steps,        \* its steps that are still to be added, in order
    error         \* getIndex raised ValueError and the construction was given up

vars == <<tap_dict, state_list, trans_list, search_pool, state_t, steps, error>>

RuleAction == [kind: {"rule"}, rule: Taps]
Step == [act: Action \cup TickEvent \cup RuleAction, field: Field]
Transition == [src: Nat, act: Action \cup TickEvent \cup RuleAction, dst: Nat]

TypeOK ==
    /\ tap_dict \in TapDicts
    /\ state_list \in Seq(Field)
    /\ trans_list \subseteq Transition
    /\ \A t \in trans_list : {t.src, t.dst} \subseteq DOMAIN state_list
    /\ search_pool \in Seq(DOMAIN state_list)
    /\ state_t \in DOMAIN state_list
    /\ steps \in Seq(Step)
    /\ error \in BOOLEAN

Init ==
    /\ tap_dict \in TapDicts
    /\ \E channel_dict \in [Var -> Val] :
          state_list = <<InitialField(channel_dict, tap_dict)>>
    /\ trans_list = {}
    /\ search_pool = <<1>>
    /\ state_t = 1
    /\ steps = <<>>
    /\ error = FALSE

-----------------------------------------------------------------------------
(* The elements of a sequence that are in a set, in their order.           *)
Selected(seq, set) ==
    LET upTo[i \in 0..Len(seq)] ==
            IF i = 0 THEN <<>>
            ELSE IF seq[i] \in set THEN Append(upTo[i - 1], seq[i]) ELSE upTo[i - 1]
    IN  upTo[Len(seq)]

(* The steps of a state, in the order _BFS looks at them: of its pending   *)
(* rules if there are any, otherwise of every enabled action and the tick. *)
RuleSteps(f) ==
    LET pending == Selected([n \in Taps |-> n], {n \in Taps : f.trigger_dict[n]})
    IN  [k \in DOMAIN pending |->
            [act |-> [kind |-> "rule", rule |-> pending[k]],
             field |-> ApplyRule(f, tap_dict, pending[k])]]

ActionSteps(f) ==
    LET enabled == Selected(ActionOrder, {a \in Action : Enabled(f, a)})
    IN  [k \in DOMAIN enabled |->
            [act |-> enabled[k], field |-> ApplyAction(f, tap_dict, enabled[k])]]

TickSteps(f) ==
    IF RunningTimers(f) = {} THEN <<>>
    ELSE <<[act |-> TickTarget(f), field |-> ApplyTick(f, tap_dict)]>>

StepsInOrder(f) ==
    IF ActionTriggered(f) THEN RuleSteps(f) ELSE ActionSteps(f) \o TickSteps(f)

(* search_pool.pop(): the state that was added last comes first.           *)
PopState ==
    /\ steps = <<>>
    /\ search_pool # <<>>
    /\ Len(state_list) <= MaxState
    /\ state_t' = Last(search_pool)
    /\ search_pool' = Front(search_pool)
    /\ steps' = StepsInOrder(state_list[state_t'])
    /\ UNCHANGED <<tap_dict, state_list, trans_list, error>>

(* The rule that ran has triggered itself.                                 *)
SelfTriggering(step) ==
    step.act.kind = "rule" /\ step.field.trigger_dict[step.act.rule]

(* Slip: the timers and the trigger bits are not compared.                 *)
GetIndexOfChannels(field) ==
    SelectInSeq(state_list, LAMBDA f : f.channel_dict = field.channel_dict)

(* ifStateExists and getIndex.                                             *)
StateExists(field) == field \in Range(state_list)
GetIndex(field) == SelectInSeq(state_list, LAMBDA f : f = field)

(* Slip: no state is ever recognised.                                      *)
IsNewAlways(step) == ~ SelfTriggering(step)

(* A state with pending rules is added anew even when it is known, unless  *)
(* the rule that ran has triggered itself.                                 *)
IsNew(step) ==
    /\ ActionTriggered(step.field) \/ ~ StateExists(step.field)
    /\ ~ SelfTriggering(step)

AddTrans(step, dst) ==
    trans_list' = trans_list \cup {[src |-> state_t, act |-> step.act, dst |-> dst]}

(* Slip: the index is taken after the count of states went up.             *)
AddStateOffByOne ==
    /\ steps # <<>>
    /\ IsNew(Head(steps))
    /\ state_list' = Append(state_list, Head(steps).field)
    /\ search_pool' = Append(search_pool, Len(state_list) + 2)
    /\ AddTrans(Head(steps), Len(state_list) + 2)
    /\ steps' = Tail(steps)
    /\ UNCHANGED <<tap_dict, state_t, error>>

AddState ==
    /\ steps # <<>>
    /\ IsNew(Head(steps))
    /\ state_list' = Append(state_list, Head(steps).field)
    /\ search_pool' = Append(search_pool, Len(state_list) + 1)
    /\ AddTrans(Head(steps), Len(state_list) + 1)
    /\ steps' = Tail(steps)
    /\ UNCHANGED <<tap_dict, state_t, error>>

(* The step leads to the first state with its field.                       *)
LinkState ==
    /\ steps # <<>>
    /\ ~ IsNew(Head(steps))
    /\ StateExists(Head(steps).field)
    /\ AddTrans(Head(steps), GetIndex(Head(steps).field))
    /\ steps' = Tail(steps)
    /\ UNCHANGED <<tap_dict, state_list, search_pool, state_t, error>>

(* There is no such state: index() raises, and no one catches it.          *)
LookupFails ==
    /\ steps # <<>>
    /\ ~ IsNew(Head(steps))
    /\ ~ StateExists(Head(steps).field)
    /\ ~ error
    /\ error' = TRUE
    /\ UNCHANGED <<tap_dict, state_list, trans_list, search_pool, state_t, steps>>

Next == PopState \/ AddState \/ LinkState \/ LookupFails

Spec == Init /\ [][Next]_vars /\ WF_vars(Next)

-----------------------------------------------------------------------------
(* The steps of the semantics itself (the actions of TapSystem that _BFS   *)
(* explores), as a set.                                                    *)
Steps(f) ==
    IF ActionTriggered(f)
    THEN {[act |-> [kind |-> "rule", rule |-> n], field |-> ApplyRule(f, tap_dict, n)] :
             n \in {m \in Taps : f.trigger_dict[m]}}
    ELSE {[act |-> a, field |-> ApplyAction(f, tap_dict, a)] :
             a \in {b \in Action : Enabled(f, b)}}
         \cup IF RunningTimers(f) = {} THEN {}
              ELSE {[act |-> TickTarget(f), field |-> ApplyTick(f, tap_dict)]}

(* The properties below are about the finished transition system, the one  *)
(* that is searched afterwards.                                            *)
Finished == search_pool = <<>> /\ steps = <<>>

(* Nothing is in the transition system that the rules cannot do: every     *)
(* transition is a step of the field of its source, and every state but    *)
(* the initial one is entered from one that was there before it.           *)
Sound ==
    Finished =>
        /\ \A t \in trans_list :
              [act |-> t.act, field |-> state_list[t.dst]] \in Steps(state_list[t.src])
        /\ \A i \in DOMAIN state_list \ {1} : \E t \in trans_list : t.dst = i /\ t.src < i

(* Nothing the rules can do is missing: each step of each state, and of    *)
(* each of the copies of a state with pending rules, is a transition.      *)
Complete ==
    Finished =>
        \A i \in DOMAIN state_list : \A step \in Steps(state_list[i]) :
            \E t \in trans_list :
                t.src = i /\ t.act = step.act /\ state_list[t.dst] = step.field

(* A state in which no rule is pending is in the list only once, so that   *)
(* getIndex and _fixPreProcessing, which look fields up, find the state    *)
(* that the transitions lead to.                                           *)
QuietStatesOnce ==
    Finished =>
        LET quiet == {i \in DOMAIN state_list : ~ ActionTriggered(state_list[i])}
        IN  Cardinality({state_list[i] : i \in quiet}) = Cardinality(quiet)

(* _getAction looks an action up by the two states it is between, and      *)
(* asserts (analyze/Fix.py:83) that it finds one only.                     *)
OneActionBetweenStates ==
    Finished =>
        Cardinality({<<t.src, t.dst>> : t \in trans_list}) = Cardinality(trans_list)

(* The transition system is exactly the behaviour of the rules, and states *)
(* and actions can be looked up in it: the repair of rules does so.        *)
Exact == Sound /\ Complete /\ QuietStatesOnce /\ OneActionBetweenStates

(* The construction comes to its end, without an exception, for rules that *)
(* cannot trigger themselves, although states with pending rules are added *)
(* again and again. It is given up only at a rule that is triggered by a   *)
(* state, which is still pending after it ran because its bit is evaluated *)
(* before its own action: a rule whose event triggers itself leads back to *)
(* a state that is there.                                                  *)
BuildTerminates ==
    /\ LoopFree(tap_dict) => <>Finished
    /\ [](error => tap_dict[Head(steps).act.rule].trigger = NoTrigger)
=============================================================================
