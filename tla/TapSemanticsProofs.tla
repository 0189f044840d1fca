-------------------------- MODULE TapSemanticsProofs --------------------------
(* Proofs about the operators of TapSemantics, for every set of variables, *)
(* values, timers and rules.                                               *)
EXTENDS TapSemantics, WellFoundedInduction, TLAPS

(* Every set of numbers that is not empty has a least element: the library *)
(* has it as the well-foundedness of the order, an operator argument that  *)
(* is hidden behind a constant here so that the provers can use it.        *)
LessThanNat == OpToRel(<, Nat)

(* The order of the natural numbers is well-founded.                       *)
LEMMA LessThanWellFounded == IsWellFoundedOn(LessThanNat, Nat)
  BY NatLessThanWellFounded, Zenon DEF LessThanNat

(* A pair is in the order when its first number is the smaller one.        *)
LEMMA LessThanPairs == LessThanNat = {ss \in Nat \X Nat : ss[1] < ss[2]}
  BY Zenon DEF OpToRel, LessThanNat

(* A nonempty set of natural numbers has a least element: min() in the     *)
(* code, CHOOSE in the model.                                              *)
LEMMA LeastElement ==
  ASSUME NEW S, S \subseteq Nat, S # {}
  PROVE  \E m \in S : \A n \in S : m <= n
<1>1. \E m \in S : \A n \in S : <<n, m>> \notin LessThanNat
  BY LessThanWellFounded, WFMin
<1>2. PICK m \in S : \A n \in S : <<n, m>> \notin LessThanNat
  BY <1>1
<1>3. \A n \in S : ~ (n < m)
  <2>1. TAKE n \in S
  <2>2. <<n, m>> \notin LessThanNat
    BY <1>2
  <2>3. QED
    BY <2>2, LessThanPairs
<1>4. QED
  BY <1>2, <1>3

-----------------------------------------------------------------------------
(* The timers.                                                             *)

(* Every timer has a time, a variable and a set of values.                 *)
LEMMA TimerTypes ==
  /\ \A i \in EventTimers : EventTimer[i] \in TimeExp
  /\ \A i \in StateTimers : StateTimer[i] \in TimeExp
  BY TimerAssumption DEF EventTimers, StateTimers

(* What a running timer of either kind has left is a positive number: one  *)
(* that is stopped, idle or expired is not among the running ones.         *)
LEMMA TimeLeftType ==
  ASSUME NEW f \in Field, NEW e \in RunningTimers(f)
  PROVE  TimeLeft(f, e) \in Nat \ {0}
  BY DEF Field, RunningTimers, TimeLeft, TickEvent

(* The time to the next expiry is positive, no running timer has less left *)
(* and some timer has exactly that.                                        *)
LEMMA SmallestTimer ==
  ASSUME NEW f \in Field, RunningTimers(f) # {}
  PROVE  /\ SmallestTimerValue(f) \in Nat \ {0}
         /\ \A e \in RunningTimers(f) : SmallestTimerValue(f) <= TimeLeft(f, e)
         /\ Expiring(f) # {}
<1> DEFINE left == {TimeLeft(f, e) : e \in RunningTimers(f)}
<1>1. left \subseteq Nat \ {0}
  BY TimeLeftType
<1>2. left # {}
  OBVIOUS
<1>3. \E d \in left : \A other \in left : d <= other
  BY <1>1, <1>2, LeastElement
<1>4. /\ SmallestTimerValue(f) \in left
      /\ \A other \in left : SmallestTimerValue(f) <= other
  BY <1>3 DEF SmallestTimerValue
<1>5. QED
  BY <1>1, <1>4 DEF Expiring

-----------------------------------------------------------------------------
(* The operators on fields yield fields.                                   *)

(* An event leaves a bit for every rule.                                   *)
LEMMA EventBitsType ==
  ASSUME NEW f, NEW taps, NEW event
  PROVE  EventBits(f, taps, event) \in [Taps -> BOOLEAN]
  BY Zenon DEF EventBits

(* The rules without trigger are given a bit too.                          *)
LEMMA StateBitsType ==
  ASSUME NEW f, NEW taps
  PROVE  StateBits(f, taps) \in [Taps -> BOOLEAN]
  BY Zenon DEF StateBits

(* A freshly built system is in a field (IoTSystem.__init__, _createTS).   *)
LEMMA InitialFieldType ==
  ASSUME NEW channel_dict \in [Var -> Val], NEW taps
  PROVE  /\ InitialField(channel_dict, taps) \in Field
         /\ InitialField(channel_dict, taps).channel_dict = channel_dict
         /\ InitialField(channel_dict, taps).timer_type1_dict = [i \in EventTimers |-> 0]
         /\ InitialField(channel_dict, taps).timer_type2_dict =
               [i \in StateTimers |->
                  IF Holds(StateTimer[i], channel_dict) THEN StateTimer[i].time ELSE -1]
<1> DEFINE f == [channel_dict |-> channel_dict,
                 timer_type1_dict |-> [i \in EventTimers |-> 0],
                 timer_type2_dict |-> [i \in StateTimers |->
                    IF Holds(StateTimer[i], channel_dict) THEN StateTimer[i].time ELSE -1],
                 trigger_dict |-> [n \in Taps |-> FALSE]]
<1>1. InitialField(channel_dict, taps) = [f EXCEPT !.trigger_dict = InitialBits(f, taps)]
  BY DEF InitialField
<1>2. InitialBits(f, taps) \in [Taps -> BOOLEAN]
  BY Zenon DEF InitialBits
<1>3. f.timer_type2_dict \in [StateTimers -> Nat \cup {-1}]
  BY TimerTypes DEF TimeExp
<1>4. f.timer_type1_dict \in [EventTimers -> Nat]
  OBVIOUS
<1>5. QED
  BY <1>1, <1>2, <1>3, <1>4 DEF Field

(* _applyAction leads from field to field.                                 *)
LEMMA ApplyActionType ==
  ASSUME NEW f \in Field, NEW taps, NEW action \in Action
  PROVE  /\ ApplyAction(f, taps, action) \in Field
         /\ ApplyAction(f, taps, action).channel_dict = ChannelAfter(f, action)
         /\ ApplyAction(f, taps, action).timer_type1_dict = EventTimersAfter(f, action)
         /\ ApplyAction(f, taps, action).timer_type2_dict = StateTimersAfter(f, action)
<1> DEFINE applied == [channel_dict |-> ChannelAfter(f, action),
                       timer_type1_dict |-> EventTimersAfter(f, action),
                       timer_type2_dict |-> StateTimersAfter(f, action),
                       trigger_dict |-> EventBits(f, taps, action)]
<1>1. ApplyAction(f, taps, action) = [applied EXCEPT !.trigger_dict = StateBits(applied, taps)]
  BY DEF ApplyAction
<1>2. StateBits(applied, taps) \in [Taps -> BOOLEAN]
  BY StateBitsType
<1>3. ChannelAfter(f, action) \in [Var -> Val]
  BY DEF ChannelAfter, Field, Action
<1>4. EventTimersAfter(f, action) \in [EventTimers -> Nat]
  BY TimerTypes DEF EventTimersAfter, Field, TimeExp
<1>5. StateTimersAfter(f, action) \in [StateTimers -> Nat \cup {-1}]
  BY TimerTypes DEF StateTimersAfter, Field, TimeExp
<1> HIDE DEF applied
<1>6. /\ applied.channel_dict = ChannelAfter(f, action)
      /\ applied.timer_type1_dict = EventTimersAfter(f, action)
      /\ applied.timer_type2_dict = StateTimersAfter(f, action)
      /\ applied = [channel_dict |-> ChannelAfter(f, action),
                    timer_type1_dict |-> EventTimersAfter(f, action),
                    timer_type2_dict |-> StateTimersAfter(f, action),
                    trigger_dict |-> EventBits(f, taps, action)]
  BY DEF applied
<1>7. QED
  BY <1>1, <1>2, <1>3, <1>4, <1>5, <1>6 DEF Field

(* Time that passes leads from field to field: the countdown never makes a *)
(* timer negative, and -1 stays -1.                                        *)
LEMMA ElapseType ==
  ASSUME NEW f \in Field, NEW d \in Nat
  PROVE  /\ Elapse(f, d) \in Field
         /\ Elapse(f, d).channel_dict = f.channel_dict
         /\ Elapse(f, d).timer_type1_dict =
               [i \in EventTimers |-> CountDown(f.timer_type1_dict[i], d)]
         /\ Elapse(f, d).timer_type2_dict =
               [i \in StateTimers |-> CountDown(f.timer_type2_dict[i], d)]
         /\ Elapse(f, d).trigger_dict = f.trigger_dict
<1>1. [i \in EventTimers |-> CountDown(f.timer_type1_dict[i], d)] \in [EventTimers -> Nat]
  BY DEF Field, CountDown
<1>2. [i \in StateTimers |-> CountDown(f.timer_type2_dict[i], d)]
          \in [StateTimers -> Nat \cup {-1}]
  BY DEF Field, CountDown
<1>3. QED
  BY <1>1, <1>2 DEF Elapse, Field

(* _applyTick leads from field to field.                                   *)
LEMMA ApplyTickType ==
  ASSUME NEW f \in Field, NEW taps, RunningTimers(f) # {}
  PROVE  /\ ApplyTick(f, taps) \in Field
         /\ ApplyTick(f, taps).channel_dict = f.channel_dict
         /\ ApplyTick(f, taps).timer_type1_dict =
               Elapse(f, SmallestTimerValue(f)).timer_type1_dict
         /\ ApplyTick(f, taps).timer_type2_dict =
               Elapse(f, SmallestTimerValue(f)).timer_type2_dict
<1> DEFINE e == Elapse(f, SmallestTimerValue(f))
           elapsed == [e EXCEPT !.trigger_dict = EventBits(f, taps, TickTarget(f))]
<1>1. e \in Field /\ e.channel_dict = f.channel_dict
  BY SmallestTimer, ElapseType
<1>2. EventBits(f, taps, TickTarget(f)) \in [Taps -> BOOLEAN]
  BY EventBitsType
<1>3. StateBits(elapsed, taps) \in [Taps -> BOOLEAN]
  BY StateBitsType
<1>4. ApplyTick(f, taps) = [elapsed EXCEPT !.trigger_dict = StateBits(elapsed, taps)]
  BY DEF ApplyTick
<1> HIDE DEF e
<1>5. /\ elapsed \in Field
      /\ elapsed.channel_dict = e.channel_dict
      /\ elapsed.timer_type1_dict = e.timer_type1_dict
      /\ elapsed.timer_type2_dict = e.timer_type2_dict
  BY <1>1, <1>2 DEF Field
<1> HIDE DEF elapsed
<1>6. /\ ApplyTick(f, taps) \in Field
      /\ ApplyTick(f, taps).channel_dict = e.channel_dict
      /\ ApplyTick(f, taps).timer_type1_dict = e.timer_type1_dict
      /\ ApplyTick(f, taps).timer_type2_dict = e.timer_type2_dict
  BY <1>3, <1>4, <1>5 DEF Field
<1>7. QED
  BY <1>1, <1>6 DEF e

(* Clearing the bit of a rule leads from field to field.                   *)
LEMMA ClearBitType ==
  ASSUME NEW f \in Field, NEW taps, NEW n \in Taps
  PROVE  /\ ClearBit(f, taps, n) \in Field
         /\ ClearBit(f, taps, n).channel_dict = f.channel_dict
         /\ ClearBit(f, taps, n).timer_type1_dict = f.timer_type1_dict
         /\ ClearBit(f, taps, n).timer_type2_dict = f.timer_type2_dict
<1> DEFINE bit == taps[n].trigger = NoTrigger /\ TapConditionSatisfied(f, taps[n])
<1>1. ClearBit(f, taps, n) = [f EXCEPT !.trigger_dict = [f.trigger_dict EXCEPT ![n] = bit]]
  BY DEF ClearBit
<1>2. bit \in BOOLEAN
  OBVIOUS
<1> HIDE DEF bit
<1>3. [f.trigger_dict EXCEPT ![n] = bit] \in [Taps -> BOOLEAN]
  BY <1>2 DEF Field
<1>4. QED
  BY <1>1, <1>3 DEF Field

-----------------------------------------------------------------------------
(* Ticks.                                                                  *)

event(i) == [kind |-> "tick#", timer |-> i]
state(i) == [kind |-> "tick*", timer |-> i]

(* No running timer has less left than the first to expire, and those with *)
(* as much are the expiring ones.                                          *)
LEMMA EventTimerLeft ==
  ASSUME NEW f \in Field, NEW i \in EventTimers, f.timer_type1_dict[i] > 0
  PROVE  /\ SmallestTimerValue(f) \in Nat \ {0}
         /\ SmallestTimerValue(f) <= f.timer_type1_dict[i]
         /\ event(i) \in Expiring(f) <=> f.timer_type1_dict[i] = SmallestTimerValue(f)
<1>1. event(i) \in RunningTimers(f)
  BY DEF RunningTimers, TickEvent, event
<1>2. TimeLeft(f, event(i)) = f.timer_type1_dict[i]
  BY DEF TimeLeft, event
<1>3. QED
  BY <1>1, <1>2, SmallestTimer DEF Expiring

(* The same for the timers of states.                                      *)
LEMMA StateTimerLeft ==
  ASSUME NEW f \in Field, NEW i \in StateTimers, f.timer_type2_dict[i] > 0
  PROVE  /\ SmallestTimerValue(f) \in Nat \ {0}
         /\ SmallestTimerValue(f) <= f.timer_type2_dict[i]
         /\ state(i) \in Expiring(f) <=> f.timer_type2_dict[i] = SmallestTimerValue(f)
<1>1. state(i) \in RunningTimers(f)
  BY DEF RunningTimers, TickEvent, state
<1>2. TimeLeft(f, state(i)) = f.timer_type2_dict[i]
  BY DEF TimeLeft, state
<1>3. QED
  BY <1>1, <1>2, SmallestTimer DEF Expiring

(* An expiring timer is a running one of one of the two kinds.             *)
LEMMA ExpiringRuns ==
  ASSUME NEW f
  PROVE  /\ \A i : event(i) \in Expiring(f) => i \in EventTimers /\ f.timer_type1_dict[i] > 0
         /\ \A i : state(i) \in Expiring(f) => i \in StateTimers /\ f.timer_type2_dict[i] > 0
         /\ \A e \in Expiring(f) : \/ \E i \in EventTimers : e = event(i)
                                   \/ \E i \in StateTimers : e = state(i)
  BY DEF Expiring, RunningTimers, TickEvent, event, state

(* The timer a tick is named after is one that expires.                    *)
LEMMA TickTargetExpires ==
  ASSUME NEW f \in Field, RunningTimers(f) # {}
  PROVE  TickTarget(f) \in Expiring(f)
<1>1. SUFFICES \E e \in Expiring(f) : \A g \in Expiring(f) : Earlier(e, g)
  BY DEF TickTarget
<1>2. EventTimers \subseteq Nat /\ StateTimers \subseteq Nat
  BY TimerAssumption DEF EventTimers, StateTimers
<1>3. ASSUME NEW j, event(j) \in Expiring(f)
      PROVE  \E e \in Expiring(f) : \A g \in Expiring(f) : Earlier(e, g)
  <2> DEFINE S == {i \in EventTimers : event(i) \in Expiring(f)}
  <2>1. S # {} /\ S \subseteq Nat
    BY <1>2, <1>3, ExpiringRuns
  <2>2. PICK m \in S : \A n \in S : m <= n
    BY <2>1, LeastElement
  <2>3. \A g \in Expiring(f) : Earlier(event(m), g)
    BY <2>2, ExpiringRuns DEF Earlier, event, state
  <2>4. QED
    BY <2>3
<1>4. ASSUME \A j : event(j) \notin Expiring(f)
      PROVE  \E e \in Expiring(f) : \A g \in Expiring(f) : Earlier(e, g)
  <2> DEFINE S == {i \in StateTimers : state(i) \in Expiring(f)}
  <2>1. PICK e \in Expiring(f) : TRUE
    BY SmallestTimer
  <2>2. PICK i \in StateTimers : e = state(i)
    BY <1>4, <2>1, ExpiringRuns
  <2>3. i \in S /\ S \subseteq Nat
    BY <1>2, <2>1, <2>2
  <2>4. PICK m \in S : \A n \in S : m <= n
    BY <2>3, LeastElement
  <2>5. \A g \in Expiring(f) : Earlier(state(m), g)
    BY <1>4, <2>4, ExpiringRuns DEF Earlier, state
  <2>6. QED
    BY <2>4, <2>5
<1>5. QED
  BY <1>3, <1>4

(* While no timer expires, no proposition changes.                         *)
LEMMA ElapseInvisible ==
  ASSUME NEW f \in Field, RunningTimers(f) # {},
         NEW d \in 1..(SmallestTimerValue(f) - 1)
  PROVE  Label(Elapse(f, d)) = Label(f)
<1>1. d \in Nat \ {0} /\ SmallestTimerValue(f) \in Nat /\ d < SmallestTimerValue(f)
  BY SmallestTimer
<1>2. ASSUME NEW i \in EventTimers
      PROVE  CountDown(f.timer_type1_dict[i], d) > 0 <=> f.timer_type1_dict[i] > 0
  <2>1. f.timer_type1_dict[i] \in Nat
    BY DEF Field
  <2>2. QED
    BY <1>1, <2>1, EventTimerLeft DEF CountDown
<1>3. ASSUME NEW i \in StateTimers
      PROVE  CountDown(f.timer_type2_dict[i], d) = 0 <=> f.timer_type2_dict[i] = 0
  <2>1. f.timer_type2_dict[i] \in Nat \cup {-1}
    BY DEF Field
  <2>2. QED
    BY <1>1, <2>1, StateTimerLeft DEF CountDown
<1> DEFINE e == Elapse(f, d)
<1>4. /\ e.channel_dict = f.channel_dict
      /\ e.timer_type1_dict = [i \in EventTimers |-> CountDown(f.timer_type1_dict[i], d)]
      /\ e.timer_type2_dict = [i \in StateTimers |-> CountDown(f.timer_type2_dict[i], d)]
      /\ e.trigger_dict = f.trigger_dict
  BY <1>1, ElapseType, Zenon
<1> HIDE DEF e
<1>5. /\ {i \in EventTimers : e.timer_type1_dict[i] > 0}
            = {i \in EventTimers : f.timer_type1_dict[i] > 0}
      /\ {i \in StateTimers : e.timer_type2_dict[i] = 0}
            = {i \in StateTimers : f.timer_type2_dict[i] = 0}
  BY <1>2, <1>3, <1>4
<1>6. Label(e) = Label(f)
  BY <1>4, <1>5 DEF Label, ActionTriggered
<1>7. QED
  BY <1>6 DEF e

(* At a tick the propositions of the expiring timers change, and no        *)
(* others.                                                                 *)
LEMMA TickLabels ==
  ASSUME NEW f \in Field, NEW taps, RunningTimers(f) # {}
  PROVE  /\ Label(ApplyTick(f, taps)).within =
               {i \in Label(f).within : event(i) \notin Expiring(f)}
         /\ Label(ApplyTick(f, taps)).lasted =
               Label(f).lasted \cup {i \in StateTimers : state(i) \in Expiring(f)}
<1> DEFINE d == SmallestTimerValue(f)
           t == ApplyTick(f, taps)
<1>1. d \in Nat \ {0}
  BY SmallestTimer
<1>2. /\ t.timer_type1_dict = [i \in EventTimers |-> CountDown(f.timer_type1_dict[i], d)]
      /\ t.timer_type2_dict = [i \in StateTimers |-> CountDown(f.timer_type2_dict[i], d)]
  BY <1>1, ApplyTickType, ElapseType
<1>3. ASSUME NEW i \in EventTimers
      PROVE  t.timer_type1_dict[i] > 0
                <=> f.timer_type1_dict[i] > 0 /\ event(i) \notin Expiring(f)
  <2>1. f.timer_type1_dict[i] \in Nat
    BY DEF Field
  <2>2. QED
    BY <1>1, <1>2, <2>1, EventTimerLeft DEF CountDown
<1>4. ASSUME NEW i \in StateTimers
      PROVE  t.timer_type2_dict[i] = 0
                <=> f.timer_type2_dict[i] = 0 \/ state(i) \in Expiring(f)
  <2>1. f.timer_type2_dict[i] \in Nat \cup {-1}
    BY DEF Field
  <2>2. state(i) \in Expiring(f) => f.timer_type2_dict[i] > 0
    BY ExpiringRuns
  <2>3. t.timer_type2_dict[i] = CountDown(f.timer_type2_dict[i], d)
    BY <1>2
  <2> HIDE DEF t
  <2>4. CASE f.timer_type2_dict[i] > 0
    BY <1>1, <2>1, <2>3, <2>4, StateTimerLeft DEF CountDown
  <2>5. CASE ~ (f.timer_type2_dict[i] > 0)
    BY <1>1, <2>1, <2>2, <2>3, <2>5 DEF CountDown
  <2>6. QED
    BY <2>4, <2>5
<1> HIDE DEF t
<1>5. /\ Label(t).within = {i \in EventTimers : t.timer_type1_dict[i] > 0}
      /\ Label(t).lasted = {i \in StateTimers : t.timer_type2_dict[i] = 0}
      /\ Label(f).within = {i \in EventTimers : f.timer_type1_dict[i] > 0}
      /\ Label(f).lasted = {i \in StateTimers : f.timer_type2_dict[i] = 0}
  BY DEF Label
<1>6. /\ Label(t).within = {i \in Label(f).within : event(i) \notin Expiring(f)}
      /\ Label(t).lasted = Label(f).lasted \cup {i \in StateTimers : state(i) \in Expiring(f)}
  BY <1>3, <1>4, <1>5
<1>7. QED
  BY <1>6 DEF t
=============================================================================
