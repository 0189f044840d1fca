------------------------------ MODULE TapSystem ------------------------------
(***************************************************************************)
(* A running IoTSystem (iot-autotap/autotapmc/model/IoTSystem.py): the     *)
(* environment sets variables and lets time pass while no rule is pending, *)
(* and pending rules run one at a time, in any order, until none is left.  *)
(* These are the steps _BFS explores, and with partial ticks those that    *)
(* the simulation of a home (generateTrace in Generator.py) is made of.    *)
(*                                                                         *)
(* The history variables held and ago record what the two kinds of timer   *)
(* are meant to measure, independently of how the code counts: for how     *)
(* long the state of a "time*exp" has lasted, and how long ago the event   *)
(* of a "time#exp" was. Both stop being counted at the time of the timer.  *)
(***************************************************************************)
EXTENDS TapSemantics

CONSTANT TapDicts   \* the rule sets considered

ASSUME TapDictAssumption == TapDicts \subseteq [Taps -> Tap]

VARIABLES
    field,     \* the state vector of the system
    tap_dict,  \* its rules, which never change
    held,      \* held[i]: how long exp of StateTimer[i] has been true, or -1
    ago        \* ago[i]: time since the last event of EventTimer[i]

vars == <<field, tap_dict, held, ago>>

Never == -1

TypeOK ==
    /\ field \in Field
    /\ tap_dict \in TapDicts
    /\ DOMAIN held = StateTimers
    /\ \A i \in StateTimers : held[i] \in {Never} \cup 0..StateTimer[i].time
    /\ DOMAIN ago = EventTimers
    /\ \A i \in EventTimers : ago[i] \in {Never} \cup 0..EventTimer[i].time

Init ==
    /\ tap_dict \in TapDicts
    /\ \E channel_dict \in [Var -> Val] :
          /\ field = InitialField(channel_dict, tap_dict)
          /\ held = [i \in StateTimers |->
                        IF Holds(StateTimer[i], channel_dict) THEN 0 ELSE Never]
    /\ ago = [i \in EventTimers |-> Never]

-----------------------------------------------------------------------------
(* The histories when a variable is set.                                   *)
RecordAction(action) ==
    /\ held' = [i \in StateTimers |->
                  IF ~ Holds(StateTimer[i], field'.channel_dict) THEN Never
                  ELSE IF held[i] = Never THEN 0 ELSE held[i]]
    /\ ago' = [i \in EventTimers |->
                  IF /\ action.var = EventTimer[i].var
                     /\ action.val \in EventTimer[i].holds
                  THEN 0 ELSE ago[i]]

(* The histories when time passes, counted up to the time of the timer.    *)
Later(t, d, time) == IF t = Never THEN Never
                     ELSE IF t + d < time THEN t + d ELSE time

RecordTime(d) ==
    /\ held' = [i \in StateTimers |-> Later(held[i], d, StateTimer[i].time)]
    /\ ago' = [i \in EventTimers |-> Later(ago[i], d, EventTimer[i].time)]

-----------------------------------------------------------------------------
(* getPossibleEvents: what sets a variable to another value.               *)
PossibleEvents == {action \in Action : Enabled(field, action)}

(* The environment sets a variable.                                        *)
External(action) ==
    /\ ~ ActionTriggered(field)
    /\ action \in PossibleEvents
    /\ field' = ApplyAction(field, tap_dict, action)
    /\ RecordAction(action)
    /\ UNCHANGED tap_dict

(* Time passes until the first running timer expires.                      *)
Tick ==
    /\ ~ ActionTriggered(field)
    /\ RunningTimers(field) # {}
    /\ field' = ApplyTick(field, tap_dict)
    /\ RecordTime(SmallestTimerValue(field))
    /\ UNCHANGED tap_dict

(* The simulation of a home by generateTrace draws the times of the next   *)
(* events; if the nearest one comes before the first running timer expires,*)
(* this is the time that passes until the event.                           *)
Intervals == 1..(SmallestTimerValue(field) - 1)

(* applyTick(time) with less time than that: nothing but the timers moves. *)
PartialTick ==
    /\ ~ ActionTriggered(field)
    /\ RunningTimers(field) # {}
    /\ \E d \in Intervals :
          /\ field' = Elapse(field, d)
          /\ RecordTime(d)
    /\ UNCHANGED tap_dict

(* A pending rule runs.                                                    *)
Fire(n) ==
    /\ field.trigger_dict[n]
    /\ field' = ApplyRule(field, tap_dict, n)
    /\ RecordAction(tap_dict[n].action)
    /\ UNCHANGED tap_dict

Next ==
    \/ \E action \in Action : External(action)
    \/ Tick
    \/ PartialTick
    \/ \E n \in Taps : Fire(n)

Spec == Init /\ [][Next]_vars

(* _BFS and resolveTriggeredRules run the pending rules until none is left.*)
FairSpec == Spec /\ WF_vars(\E n \in Taps : Fire(n))

-----------------------------------------------------------------------------
(* A "time*exp" timer is stopped exactly while exp is false, running for   *)
(* what is left of its time while exp has not lasted long enough, and at   *)
(* zero, where its proposition is true, exactly when exp has lasted for    *)
(* the whole time: the comment at IoTSystem.py:60 says what it measures,   *)
(* and _applyAction, _applyTick and applyTick count it separately.         *)
StateTimersMeasure ==
    \A i \in StateTimers :
        /\ (held[i] # Never) <=> Holds(StateTimer[i], field.channel_dict)
        /\ field.timer_type2_dict[i] =
              IF held[i] = Never THEN -1 ELSE StateTimer[i].time - held[i]

(* A "time#exp" timer holds what is left of its time since the last event  *)
(* that made exp true, and nothing if there was none or it is too long ago,*)
(* whichever rules and other events came in between.                       *)
EventTimersMeasure ==
    \A i \in EventTimers :
        field.timer_type1_dict[i] =
            IF ago[i] = Never THEN 0 ELSE EventTimer[i].time - ago[i]

(* Timers of both kinds measure what they are there to measure.            *)
TimersExact == StateTimersMeasure /\ EventTimersMeasure

(* Between two expiries nothing a rule or a property can see changes, so   *)
(* _BFS may leave partial ticks out, and applyTick(time) need not look at  *)
(* any rule.                                                               *)
PartialTickInvisible == [][PartialTick => Label(field)' = Label(field)]_vars

(* A tick runs up to the first expiry and not past it: of the timers'      *)
(* propositions it changes those of the timers that expire, of both kinds  *)
(* and all at once, and no other; in particular no deadline is skipped.    *)
TickExpires ==
    [][Tick =>
        /\ Label(field)'.within =
              {i \in Label(field).within : [kind |-> "tick#", timer |-> i] \notin Expiring(field)}
        /\ Label(field)'.lasted =
              Label(field).lasted
                \cup {i \in StateTimers : [kind |-> "tick*", timer |-> i] \in Expiring(field)}
        /\ TickTarget(field) \in Expiring(field)]_vars

(* Time is passed in the right portions.                                   *)
TicksExact == PartialTickInvisible /\ TickExpires

(* The cascade that an event or a tick sets off comes to an end, with      *)
(* every pending rule run, whatever the order they are run in, as long as  *)
(* no rule can trigger itself: the while loop of resolveTriggeredRules     *)
(* terminates.                                                             *)
CascadeEnds == LoopFree(tap_dict) => []<>(~ ActionTriggered(field))
=============================================================================
