--------------------------- MODULE TapSystemProofs ---------------------------
(* Proofs about TapSystem, for every set of variables, values, timers and  *)
(* rules.                                                                  *)
EXTENDS TapSystem, TapSemanticsProofs

(* The inductive invariant: the measures only stay right because the       *)
(* histories are never counted past the time of their timer, which is in   *)
(* the type invariant.                                                     *)
IInv == TypeOK /\ StateTimersMeasure /\ EventTimersMeasure

(* An action, from outside or of a rule, keeps timers and histories in     *)
(* step: it stops, starts or leaves a timer where it ends, starts or does  *)
(* not touch what the timer measures.                                      *)
LEMMA HistoryAction ==
  ASSUME IInv, NEW f \in Field, NEW taps, NEW action \in Action,
         f.channel_dict = field.channel_dict,
         f.timer_type1_dict = field.timer_type1_dict,
         f.timer_type2_dict = field.timer_type2_dict,
         field' = ApplyAction(f, taps, action),
         RecordAction(action),
         UNCHANGED tap_dict
  PROVE  IInv'
<1> USE TimerTypes
<1>1. /\ field' \in Field
      /\ field'.channel_dict = ChannelAfter(f, action)
      /\ field'.timer_type1_dict = EventTimersAfter(f, action)
      /\ field'.timer_type2_dict = StateTimersAfter(f, action)
  BY ApplyActionType
<1>2. TypeOK'
  BY <1>1 DEF IInv, TypeOK, RecordAction, Never, TimeExp
<1>3. StateTimersMeasure'
  <2>1. SUFFICES ASSUME NEW i \in StateTimers
                 PROVE  (/\ (held[i] # Never) <=> Holds(StateTimer[i], field.channel_dict)
                         /\ field.timer_type2_dict[i] =
                              IF held[i] = Never THEN -1 ELSE StateTimer[i].time - held[i])'
    BY Zenon DEF StateTimersMeasure
  <2>2. held'[i] = IF ~ Holds(StateTimer[i], field'.channel_dict) THEN Never
                   ELSE IF held[i] = Never THEN 0 ELSE held[i]
    BY DEF RecordAction
  <2>3. field'.timer_type2_dict[i] =
            IF ~ Holds(StateTimer[i], field'.channel_dict) THEN -1
            ELSE IF field.timer_type2_dict[i] = -1 THEN StateTimer[i].time
            ELSE field.timer_type2_dict[i]
    BY <1>1 DEF StateTimersAfter
  <2>4. /\ field.timer_type2_dict[i] =
              IF held[i] = Never THEN -1 ELSE StateTimer[i].time - held[i]
        /\ held[i] \in {Never} \cup 0..StateTimer[i].time
        /\ StateTimer[i].time \in Nat
    BY DEF IInv, StateTimersMeasure, TypeOK, TimeExp
  <2>5. QED
    BY <2>2, <2>3, <2>4 DEF Never
<1>4. EventTimersMeasure'
  <2>1. SUFFICES ASSUME NEW i \in EventTimers
                 PROVE  (field.timer_type1_dict[i] =
                            IF ago[i] = Never THEN 0 ELSE EventTimer[i].time - ago[i])'
    BY Zenon DEF EventTimersMeasure
  <2>2. ago'[i] = IF action.var = EventTimer[i].var /\ action.val \in EventTimer[i].holds
                  THEN 0 ELSE ago[i]
    BY DEF RecordAction
  <2>3. field'.timer_type1_dict[i] =
            IF action.var = EventTimer[i].var /\ action.val \in EventTimer[i].holds
            THEN EventTimer[i].time ELSE field.timer_type1_dict[i]
    BY <1>1 DEF EventTimersAfter
  <2>4. /\ field.timer_type1_dict[i] =
              IF ago[i] = Never THEN 0 ELSE EventTimer[i].time - ago[i]
        /\ EventTimer[i].time \in Nat
    BY DEF IInv, EventTimersMeasure, TimeExp
  <2>5. QED
    BY <2>2, <2>3, <2>4 DEF Never
<1>5. QED
  BY <1>2, <1>3, <1>4 DEF IInv

(* So does time, as long as it does not pass the first expiry: timers and  *)
(* histories then move by the same amount, up to the end.                  *)
LEMMA HistoryTime ==
  ASSUME IInv, NEW d \in Nat \ {0},
         field' \in Field,
         field'.channel_dict = field.channel_dict,
         field'.timer_type1_dict = Elapse(field, d).timer_type1_dict,
         field'.timer_type2_dict = Elapse(field, d).timer_type2_dict,
         RecordTime(d),
         UNCHANGED tap_dict
  PROVE  IInv'
<1> USE TimerTypes
<1>0. /\ field'.timer_type1_dict = [i \in EventTimers |-> CountDown(field.timer_type1_dict[i], d)]
      /\ field'.timer_type2_dict = [i \in StateTimers |-> CountDown(field.timer_type2_dict[i], d)]
  BY ElapseType DEF IInv, TypeOK
<1>1. TypeOK'
  BY DEF IInv, TypeOK, RecordTime, Later, Never, TimeExp
<1>2. StateTimersMeasure'
  <2>1. SUFFICES ASSUME NEW i \in StateTimers
                 PROVE  (/\ (held[i] # Never) <=> Holds(StateTimer[i], field.channel_dict)
                         /\ field.timer_type2_dict[i] =
                              IF held[i] = Never THEN -1 ELSE StateTimer[i].time - held[i])'
    BY Zenon DEF StateTimersMeasure
  <2>2. held'[i] = Later(held[i], d, StateTimer[i].time)
    BY DEF RecordTime
  <2>3. field'.timer_type2_dict[i] = CountDown(field.timer_type2_dict[i], d)
    BY <1>0
  <2>4. /\ (held[i] # Never) <=> Holds(StateTimer[i], field.channel_dict)
        /\ field.timer_type2_dict[i] =
              IF held[i] = Never THEN -1 ELSE StateTimer[i].time - held[i]
        /\ held[i] \in {Never} \cup 0..StateTimer[i].time
        /\ StateTimer[i].time \in Nat
    BY DEF IInv, StateTimersMeasure, TypeOK, TimeExp
  <2>5. Holds(StateTimer[i], field.channel_dict)' <=> Holds(StateTimer[i], field.channel_dict)
    BY DEF Holds
  <2>6. QED
    BY <2>2, <2>3, <2>4, <2>5 DEF Never, Later, CountDown
<1>3. EventTimersMeasure'
  <2>1. SUFFICES ASSUME NEW i \in EventTimers
                 PROVE  (field.timer_type1_dict[i] =
                            IF ago[i] = Never THEN 0 ELSE EventTimer[i].time - ago[i])'
    BY Zenon DEF EventTimersMeasure
  <2>2. ago'[i] = Later(ago[i], d, EventTimer[i].time)
    BY DEF RecordTime
  <2>3. field'.timer_type1_dict[i] = CountDown(field.timer_type1_dict[i], d)
    BY <1>0
  <2>4. /\ field.timer_type1_dict[i] =
              IF ago[i] = Never THEN 0 ELSE EventTimer[i].time - ago[i]
        /\ ago[i] \in {Never} \cup 0..EventTimer[i].time
        /\ EventTimer[i].time \in Nat
    BY DEF IInv, EventTimersMeasure, TypeOK, TimeExp
  <2>5. QED
    BY <2>2, <2>3, <2>4 DEF Never, Later, CountDown
<1>4. QED
  BY <1>1, <1>2, <1>3 DEF IInv

(* The invariant holds in a system that has just been built.               *)
LEMMA InitInvariant == Init => IInv
<1> SUFFICES ASSUME Init PROVE IInv
  OBVIOUS
<1> USE TimerTypes
<1>1. PICK channel_dict \in [Var -> Val] :
         /\ field = InitialField(channel_dict, tap_dict)
         /\ held = [i \in StateTimers |->
                      IF Holds(StateTimer[i], channel_dict) THEN 0 ELSE Never]
  BY DEF Init
<1>2. /\ field \in Field
      /\ field.channel_dict = channel_dict
      /\ field.timer_type1_dict = [i \in EventTimers |-> 0]
      /\ field.timer_type2_dict =
               [i \in StateTimers |->
                  IF Holds(StateTimer[i], channel_dict) THEN StateTimer[i].time ELSE -1]
  BY <1>1, InitialFieldType
<1>3. TypeOK
  BY <1>1, <1>2 DEF Init, TypeOK, Never, TimeExp
<1>4. StateTimersMeasure
  BY <1>1, <1>2 DEF StateTimersMeasure, Never, TimeExp
<1>5. EventTimersMeasure
  BY <1>2 DEF Init, EventTimersMeasure, Never
<1>6. QED
  BY <1>3, <1>4, <1>5 DEF IInv

(* Every step of the environment, of time and of a rule preserves it.      *)
LEMMA NextInvariant == IInv /\ [Next]_vars => IInv'
<1> SUFFICES ASSUME IInv, [Next]_vars PROVE IInv'
  OBVIOUS
<1>0. field \in Field /\ tap_dict \in [Taps -> Tap]
  BY TapDictAssumption DEF IInv, TypeOK
<1>1. ASSUME NEW action \in Action, External(action) PROVE IInv'
  BY <1>0, <1>1, HistoryAction DEF External
<1>2. CASE Tick
  <2>1. RunningTimers(field) # {} /\ field' = ApplyTick(field, tap_dict)
    BY <1>2 DEF Tick
  <2>2. SmallestTimerValue(field) \in Nat \ {0}
    BY <1>0, <2>1, SmallestTimer
  <2>3. RecordTime(SmallestTimerValue(field)) /\ UNCHANGED tap_dict
    BY <1>2 DEF Tick
  <2>4. QED
    BY <1>0, <2>1, <2>2, <2>3, ApplyTickType, HistoryTime
<1>3. CASE PartialTick
  <2>1. PICK d \in 1..(SmallestTimerValue(field) - 1) :
           field' = Elapse(field, d) /\ RecordTime(d)
    BY <1>3 DEF PartialTick, Intervals
  <2>2. d \in Nat \ {0}
    BY <1>0, <1>3, SmallestTimer DEF PartialTick
  <2>3. QED
    BY <1>0, <1>3, <2>1, <2>2, ElapseType, HistoryTime DEF PartialTick
<1>4. ASSUME NEW n \in Taps, Fire(n) PROVE IInv'
  <2>1. tap_dict[n].action \in Action
    BY <1>0 DEF Tap
  <2>2. field' = ApplyAction(ClearBit(field, tap_dict, n), tap_dict, tap_dict[n].action)
    BY <1>4 DEF Fire, ApplyRule
  <2>3. QED
    BY <1>0, <1>4, <2>1, <2>2, ClearBitType, HistoryAction DEF Fire
<1>5. CASE UNCHANGED vars
  BY <1>5 DEF IInv, TypeOK, StateTimersMeasure, EventTimersMeasure, vars
<1>6. QED
  BY <1>1, <1>2, <1>3, <1>4, <1>5 DEF Next

(* The state of a system keeps its type: in particular no timer ever runs  *)
(* below zero, except to say that it is stopped.                           *)
THEOREM TypeCorrect == Spec => []TypeOK
<1>1. IInv => TypeOK
  BY DEF IInv
<1>2. QED
  BY <1>1, InitInvariant, NextInvariant, PTL DEF Spec

(* Both kinds of timer measure what they are meant to, for any timers and  *)
(* any rules.                                                              *)
THEOREM TimersMeasure == Spec => []TimersExact
<1>1. IInv => TimersExact
  BY DEF IInv, TimersExact
<1>2. QED
  BY <1>1, InitInvariant, NextInvariant, PTL DEF Spec

-----------------------------------------------------------------------------
(* Ticks.                                                                  *)

(* The step that PartialTickInvisible is about is the only one it needs to *)
(* look at: a partial tick leaves every proposition and bit as it was.     *)
THEOREM PartialTicksUnseen == Spec => PartialTickInvisible
<1>1. TypeOK /\ [Next]_vars => [PartialTick => Label(field)' = Label(field)]_vars
  <2> SUFFICES ASSUME TypeOK, PartialTick PROVE Label(field)' = Label(field)
    OBVIOUS
  <2>1. field \in Field /\ RunningTimers(field) # {}
    BY DEF TypeOK, PartialTick
  <2>2. PICK d \in 1..(SmallestTimerValue(field) - 1) : field' = Elapse(field, d)
    BY DEF PartialTick, Intervals
  <2>3. Label(field)' = Label(Elapse(field, d))
    BY <2>2 DEF Label, ActionTriggered
  <2>4. QED
    BY <2>1, <2>2, <2>3, ElapseInvisible
<1>2. QED
  BY <1>1, TypeCorrect, PTL DEF Spec, PartialTickInvisible

(* A tick ends at the first expiry: exactly the propositions of the timers *)
(* that expire then change, for any number of timers of both kinds.        *)
THEOREM TicksExpire == Spec => TickExpires
<1> DEFINE P == /\ Label(field)'.within =
                     {i \in Label(field).within :
                        [kind |-> "tick#", timer |-> i] \notin Expiring(field)}
                /\ Label(field)'.lasted =
                     Label(field).lasted
                       \cup {i \in StateTimers :
                               [kind |-> "tick*", timer |-> i] \in Expiring(field)}
                /\ TickTarget(field) \in Expiring(field)
<1>1. TypeOK /\ [Next]_vars => [Tick => P]_vars
  <2> SUFFICES ASSUME TypeOK, Tick PROVE P
    OBVIOUS
  <2>1. field \in Field /\ RunningTimers(field) # {}
    BY DEF TypeOK, Tick
  <2>2. Label(field)' = Label(ApplyTick(field, tap_dict))
    BY DEF Tick, Label, ActionTriggered
  <2>3. QED
    BY <2>1, <2>2, TickLabels, TickTargetExpires DEF event, state
<1>2. QED
  BY <1>1, TypeCorrect, PTL DEF Spec, TickExpires

(* Ticks pass time in the right portions, whatever the rules and however   *)
(* many timers there are.                                                  *)
THEOREM TicksAreExact == Spec => TicksExact
  BY PartialTicksUnseen, TicksExpire DEF TicksExact
=============================================================================
