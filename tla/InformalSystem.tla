---------------------------- MODULE InformalSystem ----------------------------
(***************************************************************************)
(* The second interpreter of rules, autotapta/model/InformalSystem.py,     *)
(* without a transition system and without timers, and the two programs    *)
(* that run rules with it: generateTraceEnhanced (Generator.py), which     *)
(* simulates a home, and introduceTapToTrace (Trace.py), which adds to a   *)
(* recorded trace the events that rules would have caused. Both end by     *)
(* building a Trace from the list of events.                               *)
(*                                                                         *)
(* A condition "cap<comparator>value" is the set of values that satisfy it.*)
(* Rules are about capabilities of the trace and not about the clock, and  *)
(* no capability has a name that begins with the name of another. The      *)
(* times of events, which only grow, are left out.                         *)
(***************************************************************************)
EXTENDS Naturals, Sequences

CONSTANTS
    Cap,        \* capabilities
    Value,      \* their values
    NTap,       \* the number of rules
    TapLists,   \* the rule lists considered
    MaxEvents,  \* bound: events that no rule causes
    MaxList     \* bound: events in all

Taps == 1..NTap

Cond == [neg: BOOLEAN, cap: Cap, holds: SUBSET Value]
Tap == [action: [cap: Cap, value: Value], trigger: Cond, condition: SUBSET Cond]

ASSUME RuleListAssumption == NTap \in Nat /\ TapLists \subseteq [Taps -> Tap]

VARIABLES
    pc,             \* "next" event, "resolve" rules, "build" the trace, "done"
    tap_list,       \* the rules, which never change
    initial_state,  \* of the trace
    state_dict,     \* of the system that runs the rules
    trigger_bit,
    recorded,       \* introduceTapToTrace: the state in the recorded trace
    event_list,     \* event_time_list, new_action_list
    index,          \* of the loop over it
    actions         \* actions, is_ext_list and pre_condition of the new trace

system == <<state_dict, trigger_bit>>
trace == <<index, actions>>
vars == <<pc, tap_list, initial_state, system, recorded, event_list, trace>>

Event(action, is_ext) == [cap |-> action.cap, value |-> action.value, is_ext |-> is_ext]

(* generateTraceEnhanced has no recorded trace.                            *)
NoTrace == <<>>

TypeOK ==
    /\ pc \in {"next", "resolve", "build", "done"}
    /\ tap_list \in TapLists
    /\ {initial_state, state_dict} \subseteq [Cap -> Value]
    /\ recorded \in [Cap -> Value] \cup {NoTrace}
    /\ trigger_bit \in [Taps -> BOOLEAN]
    /\ event_list \in Seq([cap: Cap, value: Value, is_ext: BOOLEAN])
    /\ pc \in {"next", "done"} => \A n \in Taps : ~ trigger_bit[n]

Init ==
    /\ pc = "next"
    /\ tap_list \in TapLists
    /\ initial_state \in [Cap -> Value]
    /\ state_dict = initial_state /\ recorded \in {NoTrace, initial_state}
    /\ trigger_bit = [n \in Taps |-> FALSE]
    /\ event_list = <<>> /\ index = 1 /\ actions = <<>>

-----------------------------------------------------------------------------
(* _checkCurrentCondition removes the "!" of a condition before it hands   *)
(* the condition on to _checkCondition.                                    *)
CheckCurrentCondition(state, cond) == state[cond.cap] \in cond.holds

(* _checkActionCondition: a trigger that begins with "!" does not begin    *)
(* with the capability.                                                    *)
CheckActionCondition(action, cond) ==
    ~ cond.neg /\ cond.cap = action.cap /\ action.value \in cond.holds

(* Slip: the conditions are looked at after the action.                    *)
TriggeredAfter(action, tap) ==
    /\ CheckActionCondition(action, tap.trigger)
    /\ \A cond \in tap.condition :
          CheckCurrentCondition([state_dict EXCEPT ![action.cap] = action.value], cond)

(* _setTriggerBits                                                         *)
Triggered(action, tap) ==
    /\ CheckActionCondition(action, tap.trigger)
    /\ \A cond \in tap.condition : CheckCurrentCondition(state_dict, cond)

(* applyAction, when the bits were these.                                  *)
ApplyAction(bit, action) ==
    /\ trigger_bit' = [n \in Taps |-> bit[n] \/ Triggered(action, tap_list[n])]
    /\ state_dict' = [state_dict EXCEPT ![action.cap] = action.value]

(* An event that no rule causes.                                           *)
External(action) ==
    /\ pc = "next" /\ pc' = "resolve"
    /\ Len(SelectSeq(event_list, LAMBDA e : e.is_ext)) < MaxEvents
    /\ Len(event_list) < MaxList
    /\ ApplyAction(trigger_bit, action)
    /\ event_list' = Append(event_list, Event(action, TRUE))
    /\ UNCHANGED <<tap_list, initial_state, trace>>

(* generateTraceEnhanced: next() of a value generator gives another value. *)
Generate(action) ==
    /\ recorded = NoTrace /\ External(action)
    /\ state_dict[action.cap] # action.value
    /\ UNCHANGED recorded

(* introduceTapToTrace: the next event of the recorded trace, which changes*)
(* something there, unless it is the first.                                *)
Introduce(action) ==
    /\ recorded # NoTrace /\ External(action)
    /\ event_list = <<>> \/ recorded[action.cap] # action.value
    /\ recorded' = [recorded EXCEPT ![action.cap] = action.value]

FirstTriggered(n) == trigger_bit[n] /\ \A m \in 1..(n - 1) : ~ trigger_bit[m]

(* Slip: a rule that runs clears the bits of all.                          *)
ClearAllBits(n) == [m \in Taps |-> FALSE]

ClearBit(n) == [trigger_bit EXCEPT ![n] = FALSE]

(* resolveTriggerBit: the first triggered rule runs.                       *)
RunRule(n) ==
    /\ pc = "resolve" /\ FirstTriggered(n) /\ Len(event_list) < MaxList
    /\ ApplyAction(ClearBit(n), tap_list[n].action)
    /\ event_list' = Append(event_list, Event(tap_list[n].action, FALSE))
    /\ UNCHANGED <<pc, tap_list, initial_state, recorded, trace>>

(* Slip: only one rule runs after an event.                                *)
ResolvedOnce ==
    /\ pc = "resolve" /\ ~ event_list[Len(event_list)].is_ext
    /\ pc' = "next"
    /\ UNCHANGED <<tap_list, initial_state, system, recorded, event_list, trace>>

Resolved ==
    /\ pc = "resolve" /\ \A n \in Taps : ~ trigger_bit[n]
    /\ pc' = "next"
    /\ UNCHANGED <<tap_list, initial_state, system, recorded, event_list, trace>>

-----------------------------------------------------------------------------
(* The constructor of Trace, for the system without rules.                 *)
Finish ==
    /\ pc = "next" /\ pc' = "build"
    /\ UNCHANGED <<tap_list, initial_state, system, recorded, event_list, trace>>

StateAfter(list) ==
    LET last == list[Len(list)]
    IN  [last.pre EXCEPT ![last.event.cap] = last.event.value]

(* Slip: an event is compared with the state before the last event.        *)
AddActionStale ==
    /\ pc = "build" /\ index <= Len(event_list)
    /\ LET event == event_list[index]
           pre == IF actions = <<>> THEN initial_state ELSE StateAfter(actions)
       IN  actions' = IF \/ actions = <<>>
                         \/ actions[Len(actions)].pre[event.cap] # event.value
                      THEN Append(actions, [event |-> event, pre |-> pre])
                      ELSE actions
    /\ index' = index + 1
    /\ UNCHANGED <<pc, tap_list, initial_state, system, recorded, event_list>>

(* addAction: an event that changes nothing is left out, unless it is the  *)
(* first.                                                                  *)
AddAction ==
    /\ pc = "build" /\ index <= Len(event_list)
    /\ LET event == event_list[index]
           pre == IF actions = <<>> THEN initial_state ELSE StateAfter(actions)
       IN  actions' = IF actions = <<>> \/ pre[event.cap] # event.value
                      THEN Append(actions, [event |-> event, pre |-> pre])
                      ELSE actions
    /\ index' = index + 1
    /\ UNCHANGED <<pc, tap_list, initial_state, system, recorded, event_list>>

Built ==
    /\ pc = "build" /\ index > Len(event_list)
    /\ pc' = "done"
    /\ UNCHANGED <<tap_list, initial_state, system, recorded, event_list, trace>>

Action == [cap: Cap, value: Value]

Next == \/ \E action \in Action : Generate(action) \/ Introduce(action)
        \/ \E n \in Taps : RunRule(n)
        \/ Resolved \/ Finish \/ AddAction \/ Built

Spec == Init /\ [][Next]_vars

-----------------------------------------------------------------------------
(* The same rules for IoTSystem, where an event triggers a rule when it is *)
(* the very one, and a condition is negated by its "!".                    *)
AsEvent(action) == [kind |-> "set", var |-> action.cap, val |-> action.value]
AsCondition(cond) ==
    [on |-> "channel", var |-> cond.cap,
     holds |-> IF cond.neg THEN Value \ cond.holds ELSE cond.holds]
AsTap(tap) ==
    [action |-> AsEvent(tap.action),
     trigger |-> AsEvent([cap |-> tap.trigger.cap,
                          value |-> CHOOSE v \in tap.trigger.holds : TRUE]),
     condition |-> {AsCondition(cond) : cond \in tap.condition}]
AsTapDict(taps) == [n \in Taps |-> AsTap(taps[n])]

NoTimer == <<>>
Idle == [i \in DOMAIN NoTimer |-> 0]

IoT == INSTANCE TapSystem WITH
    Var <- Cap, Val <- Value, NTap <- NTap,
    EventTimer <- NoTimer, StateTimer <- NoTimer,
    TapDicts <- {AsTapDict(taps) : taps \in TapLists},
    field <- [channel_dict |-> state_dict,
              timer_type1_dict |-> Idle, timer_type2_dict |-> Idle,
              trigger_dict |-> trigger_bit],
    tap_dict <- AsTapDict(tap_list),
    held <- Idle, ago <- Idle

(* Rules that one value triggers, with no negated condition.               *)
Plain(tap) ==
    /\ ~ tap.trigger.neg /\ \A cond \in tap.condition : ~ cond.neg
    /\ \E v \in Value : tap.trigger.holds = {v}

(* With plain rules the simulation of a home by generateTraceEnhanced is a *)
(* behaviour of the system that the model checker and the repair of rules  *)
(* take for granted: the two interpreters of rules, written separately,    *)
(* agree on which rules are triggered, when their conditions are looked at,*)
(* and on what they do.                                                    *)
AgreesWithIoTSystem ==
    /\ IoT!Init
    /\ [][recorded = NoTrace /\ (\A n \in Taps : Plain(tap_list[n])) => IoT!Next]_(IoT!vars)

(* What is known of the n-th event, from the list alone: the state before  *)
(* it, and the rules that ought to be triggered by it.                     *)
StateBefore(n) ==
    [cap \in Cap |->
        LET sets == {m \in 1..(n - 1) : event_list[m].cap = cap}
        IN  IF sets = {} THEN initial_state[cap]
            ELSE event_list[CHOOSE m \in sets : \A k \in sets : k <= m].value]

Holds(state, cond) == (state[cond.cap] \in cond.holds) # cond.neg

Due(n) ==
    {tap \in {tap_list[m] : m \in Taps} :
        /\ CheckActionCondition(event_list[n], tap.trigger)
        /\ \A cond \in tap.condition : Holds(StateBefore(n), cond)}

(* The events that n and the rules after it have caused, up to the next    *)
(* event that no rule causes.                                              *)
Following(n) ==
    {m \in (n + 1)..Len(event_list) : \A k \in (n + 1)..m : ~ event_list[k].is_ext}

IsActionOf(n, tap) == tap.action = [cap |-> event_list[n].cap, value |-> event_list[n].value]

(* No event is attributed to the rules unless an earlier one at the same   *)
(* moment has triggered a rule with that action, and the rule's conditions *)
(* held before that; and when the rules have run, each rule that an event  *)
(* has triggered, also one of the rules' own, is in the trace after it and *)
(* before the next event that no rule causes: the traces show what the     *)
(* rules would have done, and all of it.                                   *)
CausedByRule(n) ==
    event_list[n].is_ext \/
        \E k \in 1..(n - 1) : \E tap \in Due(k) : n \in Following(k) /\ IsActionOf(n, tap)
CausesRules(n) ==
    \A tap \in Due(n) : \E m \in Following(n) : IsActionOf(m, tap)
DueRulesRun ==
    \A n \in DOMAIN event_list :
        CausedByRule(n) /\ (pc \in {"next", "done"} => CausesRules(n))

(* What Tap.py:31 says of conditions, that there are "!channel.ap" ones: a *)
(* rule is triggered only if they hold, the negated ones negated. The code *)
(* of InformalSystem does not do that.                                     *)
NegatedConditionsHold ==
    [][\A n \in Taps : ~ trigger_bit[n] /\ trigger_bit'[n] =>
          \A cond \in tap_list[n].condition : Holds(state_dict, cond)]_vars

(* The new trace, which leaves out the events that change nothing, leads   *)
(* to the state in which the system with the rules was.                    *)
ReplayReachesState ==
    pc = "done" => state_dict = IF actions = <<>> THEN initial_state ELSE StateAfter(actions)
=============================================================================
