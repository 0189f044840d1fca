---------------------------- MODULE TapSemantics ----------------------------
(***************************************************************************)
(* The execution semantics of trigger-action programs in                   *)
(* iot-autotap/autotapmc/model/IoTSystem.py, as operators on a field: the  *)
(* vector that _saveToStateVector and _restoreFromStateVector exchange.    *)
(* A tap_dict is a parameter, so that one model covers many rule sets.     *)
(*                                                                         *)
(* The dictionaries of the code are iterated in sorted order of their      *)
(* names; here rules and timers are numbered in that order.                *)
(***************************************************************************)
EXTENDS Integers, Sequences, FiniteSets

CONSTANTS
    Var,         \* the "channel.variable" names
    Val,         \* the values a variable can take; 1 is true, 0 is false
    NTap,        \* the number of rules
    EventTimer,  \* EventTimer[i] = the i-th "time#exp" expression
    StateTimer   \* StateTimer[i] = the i-th "time*exp" expression

Taps == 1..NTap
EventTimers == DOMAIN EventTimer
StateTimers == DOMAIN StateTimer

(* exp, in either kind of timer, compares one variable with a value: it is *)
(* the set of values of that variable that satisfy it.                     *)
TimeExp == [time: Nat, var: Var, holds: SUBSET Val]

ASSUME TimerAssumption == /\ NTap \in Nat
                          /\ EventTimer \in Seq(TimeExp)
                          /\ StateTimer \in Seq(TimeExp)

(* The actions of a channel built from the templates: set var to val.      *)
Action == [kind: {"set"}, var: Var, val: Val]
TickEvent == [kind: {"tick#"}, timer: EventTimers]
               \cup [kind: {"tick*"}, timer: StateTimers]
NoTrigger == [kind |-> "none"]

(* A condition is an atomic proposition of a channel, its negation folded  *)
(* into the set of values, or one of a timer.                              *)
Condition == [on: {"channel"}, var: Var, holds: SUBSET Val]
               \cup [on: {"#"}, timer: EventTimers, neg: BOOLEAN]
               \cup [on: {"*"}, timer: StateTimers, neg: BOOLEAN]
Tap == [action: Action,
        trigger: Action \cup TickEvent \cup {NoTrigger},
        condition: SUBSET Condition]

Field == [channel_dict: [Var -> Val],
          timer_type1_dict: [EventTimers -> Nat],
          timer_type2_dict: [StateTimers -> Nat \cup {-1}],
          trigger_dict: [Taps -> BOOLEAN]]

-----------------------------------------------------------------------------
Holds(exp, channel_dict) == channel_dict[exp.var] \in exp.holds

ConditionSatisfied(f, c) ==
    \/ c.on = "channel" /\ Holds(c, f.channel_dict)
    \/ c.on = "#" /\ (f.timer_type1_dict[c.timer] > 0) # c.neg
    \/ c.on = "*" /\ (f.timer_type2_dict[c.timer] = 0) # c.neg

TapConditionSatisfied(f, tap) ==
    \A c \in tap.condition : ConditionSatisfied(f, c)

ActionTriggered(f) == \E n \in Taps : f.trigger_dict[n]

(* The bits after an event: a rule triggered by it whose condition holds   *)
(* before the event is applied.                                            *)
EventBits(f, taps, event) ==
    [n \in Taps |-> \/ f.trigger_dict[n]
                    \/ /\ taps[n].trigger = event
                       /\ TapConditionSatisfied(f, taps[n])]

(* The bits of the rules without a trigger, whose condition is looked at   *)
(* after the event.                                                        *)
StateBits(f, taps) ==
    [n \in Taps |-> \/ f.trigger_dict[n]
                    \/ /\ taps[n].trigger = NoTrigger
                       /\ TapConditionSatisfied(f, taps[n])]

ChannelAfter(f, action) == [f.channel_dict EXCEPT ![action.var] = action.val]

EventTimersAfter(f, action) ==
    [i \in EventTimers |->
        IF action.var = EventTimer[i].var /\ action.val \in EventTimer[i].holds
        THEN EventTimer[i].time
        ELSE f.timer_type1_dict[i]]

(* Slip: every action starts the timers whose state holds.                 *)
StateTimersRestarted(f, action) ==
    [i \in StateTimers |->
        IF Holds(StateTimer[i], ChannelAfter(f, action)) THEN StateTimer[i].time ELSE -1]

StateTimersAfter(f, action) ==
    [i \in StateTimers |->
        IF ~ Holds(StateTimer[i], ChannelAfter(f, action)) THEN -1
        ELSE IF f.timer_type2_dict[i] = -1 THEN StateTimer[i].time
        ELSE f.timer_type2_dict[i]]

ApplyAction(f, taps, action) ==
    LET applied == [channel_dict |-> ChannelAfter(f, action),
                    timer_type1_dict |-> EventTimersAfter(f, action),
                    timer_type2_dict |-> StateTimersAfter(f, action),
                    trigger_dict |-> EventBits(f, taps, action)]
    IN  [applied EXCEPT !.trigger_dict = StateBits(applied, taps)]

(* enable_<action>: only a different value can be set from outside.        *)
Enabled(f, action) == f.channel_dict[action.var] # action.val

-----------------------------------------------------------------------------
(* The running timers, and the time that is left until the first expires.  *)
RunningTimers(f) ==
    {e \in TickEvent :
        \/ e.kind = "tick#" /\ f.timer_type1_dict[e.timer] > 0
        \/ e.kind = "tick*" /\ f.timer_type2_dict[e.timer] > 0}

TimeLeft(f, e) == IF e.kind = "tick#" THEN f.timer_type1_dict[e.timer]
                                      ELSE f.timer_type2_dict[e.timer]

SmallestTimerValue(f) ==
    LET left == {TimeLeft(f, e) : e \in RunningTimers(f)}
    IN  CHOOSE d \in left : \A other \in left : d <= other

Earlier(e, g) == \/ e.kind = "tick#" /\ g.kind = "tick*"
                 \/ e.kind = g.kind /\ e.timer <= g.timer

(* The timer a tick is named after: the first, type 1 before type 2 and in *)
(* sorted order, of those that are the first to expire.                    *)
Expiring(f) == {e \in RunningTimers(f) : TimeLeft(f, e) = SmallestTimerValue(f)}
TickTarget(f) == CHOOSE e \in Expiring(f) : \A g \in Expiring(f) : Earlier(e, g)

(* Slips: a stopped timer is counted down; a timer stops one unit early.   *)
CountDownStopped(t, d) == t - d
CountDownEarly(t, d) == IF t > d + 1 THEN t - d ELSE IF t > 0 THEN 0 ELSE t

(* Every running timer comes d closer to zero and stops there.             *)
CountDown(t, d) == IF t > d THEN t - d ELSE IF t > 0 THEN 0 ELSE t

Elapse(f, d) ==
    [f EXCEPT !.timer_type1_dict =
                  [i \in EventTimers |-> CountDown(f.timer_type1_dict[i], d)],
              !.timer_type2_dict =
                  [i \in StateTimers |-> CountDown(f.timer_type2_dict[i], d)]]

ApplyTick(f, taps) ==
    LET elapsed == [Elapse(f, SmallestTimerValue(f)) EXCEPT
                      !.trigger_dict = EventBits(f, taps, TickTarget(f))]
    IN  [elapsed EXCEPT !.trigger_dict = StateBits(elapsed, taps)]

-----------------------------------------------------------------------------
(* Slip: the bit of a rule that runs stays set.                            *)
ClearBitForgotten(f, taps, n) == f

(* A pending rule runs: its bit is cleared, or evaluated again for a rule  *)
(* without trigger, and then its action is applied.                        *)
ClearBit(f, taps, n) ==
    [f EXCEPT !.trigger_dict[n] = /\ taps[n].trigger = NoTrigger
                                  /\ TapConditionSatisfied(f, taps[n])]

ApplyRule(f, taps, n) == ApplyAction(ClearBit(f, taps, n), taps, taps[n].action)

(* The bits a system starts with.                                          *)
InitialBits(f, taps) ==
    [n \in Taps |-> /\ taps[n].trigger = NoTrigger
                    /\ TapConditionSatisfied(f, taps[n])]

(* The field of a freshly built system whose variables have these values.  *)
InitialField(channel_dict, taps) ==
    LET f == [channel_dict |-> channel_dict,
              timer_type1_dict |-> [i \in EventTimers |-> 0],
              timer_type2_dict |-> [i \in StateTimers |->
                  IF Holds(StateTimer[i], channel_dict) THEN StateTimer[i].time
                                                        ELSE -1],
              trigger_dict |-> [n \in Taps |-> FALSE]]
    IN  [f EXCEPT !.trigger_dict = InitialBits(f, taps)]

(* _labelGenerator: what a property can see of a field. The values stand   *)
(* for the channels' atomic propositions, which are functions of them.     *)
Label(f) ==
    [ap |-> f.channel_dict,
     within |-> {i \in EventTimers : f.timer_type1_dict[i] > 0},
     lasted |-> {i \in StateTimers : f.timer_type2_dict[i] = 0},
     rule |-> f.trigger_dict,
     triggered |-> ActionTriggered(f)]

-----------------------------------------------------------------------------
(* Running rule m can make rule n pending.                                 *)
CanTrigger(taps, m, n) == taps[n].trigger \in {taps[m].action, NoTrigger}

(* No rule can, directly or through others, trigger itself.                *)
LoopFree(taps) ==
    \E rank \in [Taps -> Taps] :
        \A m, n \in Taps : CanTrigger(taps, m, n) => rank[m] < rank[n]
=============================================================================
