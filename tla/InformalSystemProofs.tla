------------------------- MODULE InformalSystemProofs -------------------------
(* The events that InformalSystem adds to a list are those its rules cause,*)
(* the list replays to the same state, and the simulation implements       *)
(* TapSystem, for all capabilities, values and rules.                      *)
EXTENDS InformalSystem, WellFoundedInduction, SequenceTheorems, TLAPS

(* A rule that one value triggers, and without negated conditions.         *)
PlainTrigger == {[neg |-> FALSE, cap |-> a.cap, holds |-> {a.value}] : a \in Action}
PlainTap == [action: Action, trigger: PlainTrigger, condition: SUBSET [neg: {FALSE}, cap: Cap, holds: SUBSET Value]]

IInv == TypeOK /\ (pc # "resolve" => \A n \in Taps : ~ trigger_bit[n])

(* The field of the IoTSystem that corresponds to a state.                 *)
AsField(state, bit) ==
    [channel_dict |-> state,
     timer_type1_dict |-> Idle, timer_type2_dict |-> Idle,
     trigger_dict |-> bit]

-----------------------------------------------------------------------------
(* Plain rules are those.                                                  *)
LEMMA PlainIsPlain ==
  ASSUME NEW tap \in Tap, Plain(tap)
  PROVE  tap \in PlainTap
<1>1. tap.action \in Action /\ tap.trigger \in Cond /\ tap.condition \subseteq Cond
      /\ tap = [action |-> tap.action, trigger |-> tap.trigger, condition |-> tap.condition]
  BY DEF Tap, Action
<1>2. PICK v \in Value : tap.trigger.holds = {v}
  BY DEF Plain
<1>3. tap.trigger \in PlainTrigger
  <2> DEFINE a == [cap |-> tap.trigger.cap, value |-> v]
  <2>1. a \in Action
    BY <1>1 DEF Action, Cond
  <2>2. tap.trigger = [neg |-> FALSE, cap |-> a.cap, holds |-> {a.value}]
    BY <1>1, <1>2 DEF Plain, Cond
  <2> HIDE DEF a
  <2>3. QED
    BY <2>1, <2>2 DEF PlainTrigger
<1>4. tap.condition \subseteq [neg: {FALSE}, cap: Cap, holds: SUBSET Value]
  BY <1>1 DEF Plain, Cond
<1>5. QED
  BY <1>1, <1>3, <1>4 DEF PlainTap

(* There are no timers.                                                    *)
LEMMA NoTimers == IoT!EventTimers = {} /\ IoT!StateTimers = {} /\ DOMAIN NoTimer = {}
  BY DEF IoT!EventTimers, IoT!StateTimers, NoTimer

(* What is known of a plain rule and of the rule that stands for it.       *)
LEMMA PlainTriggers ==
  ASSUME NEW tap \in PlainTap, NEW action \in Action
  PROVE  CheckActionCondition(action, tap.trigger) <=> AsTap(tap).trigger = AsEvent(action)
<1>1. PICK a \in Action : tap.trigger = [neg |-> FALSE, cap |-> a.cap, holds |-> {a.value}]
  BY DEF PlainTap, PlainTrigger
<1>2. (CHOOSE v \in tap.trigger.holds : TRUE) = a.value
  BY <1>1
<1>3. AsTap(tap).trigger = [kind |-> "set", var |-> a.cap, val |-> a.value]
  BY <1>1, <1>2 DEF AsTap, AsEvent
<1>4. CheckActionCondition(action, tap.trigger) <=> a.cap = action.cap /\ action.value = a.value
  BY <1>1 DEF CheckActionCondition
<1>5. QED
  BY <1>3, <1>4 DEF AsEvent

(* Both systems look at the conditions of a plain rule in the same way.    *)
LEMMA PlainConditions ==
  ASSUME NEW tap \in PlainTap, NEW state, NEW bit
  PROVE  IoT!TapConditionSatisfied(AsField(state, bit), AsTap(tap))
           <=> \A cond \in tap.condition : CheckCurrentCondition(state, cond)
<1>1. ASSUME NEW cond \in tap.condition
      PROVE  IoT!ConditionSatisfied(AsField(state, bit), AsCondition(cond))
               <=> CheckCurrentCondition(state, cond)
  <2>1. cond.neg = FALSE
    BY DEF PlainTap
  <2>2. AsCondition(cond) = [on |-> "channel", var |-> cond.cap, holds |-> cond.holds]
    BY <2>1 DEF AsCondition
  <2>3. QED
    BY <2>2 DEF IoT!ConditionSatisfied, IoT!Holds, AsField, CheckCurrentCondition
<1>2. AsTap(tap).condition = {AsCondition(cond) : cond \in tap.condition}
  BY DEF AsTap
<1>3. QED
  BY <1>1, <1>2 DEF IoT!TapConditionSatisfied

(* No rule of the IoTSystem is without trigger.                            *)
LEMMA AllHaveTriggers ==
  ASSUME NEW tap PROVE AsTap(tap).trigger # IoT!NoTrigger
<1>1. AsTap(tap).trigger.kind = "set"
  BY DEF AsTap, AsEvent
<1>2. IoT!NoTrigger.kind = "none"
  BY DEF IoT!NoTrigger
<1>3. QED
  BY <1>1, <1>2

(* An action does the same in both systems.                                *)
LEMMA ActionsAgree ==
  ASSUME tap_list \in [Taps -> PlainTap], state_dict \in [Cap -> Value],
         NEW bit \in [Taps -> BOOLEAN], NEW action \in Action, ApplyAction(bit, action)
  PROVE  AsField(state_dict, trigger_bit)' =
           IoT!ApplyAction(AsField(state_dict, bit), AsTapDict(tap_list), AsEvent(action))
<1> DEFINE f == AsField(state_dict, bit)
           taps == AsTapDict(tap_list)
           event == AsEvent(action)
<1>1. IoT!ChannelAfter(f, event) = state_dict'
  BY DEF IoT!ChannelAfter, AsField, AsEvent, ApplyAction
<1>2. IoT!EventTimersAfter(f, event) = Idle
  BY NoTimers DEF IoT!EventTimersAfter, Idle
<1>3. IoT!StateTimersAfter(f, event) = Idle
  BY NoTimers DEF IoT!StateTimersAfter, Idle
<1>4. ASSUME NEW n \in Taps
      PROVE  (taps[n].trigger = event /\ IoT!TapConditionSatisfied(f, taps[n]))
               <=> Triggered(action, tap_list[n])
  <2>1. tap_list[n] \in PlainTap /\ taps[n] = AsTap(tap_list[n])
    BY DEF AsTapDict
  <2>2. QED
    BY <2>1, PlainTriggers, PlainConditions DEF Triggered
<1>5. IoT!EventBits(f, taps, event) = trigger_bit'
  <2>1. f.trigger_dict = bit
    BY DEF AsField
  <2>2. trigger_bit' = [n \in Taps |-> bit[n] \/ Triggered(action, tap_list[n])]
    BY DEF ApplyAction
  <2>3. IoT!EventBits(f, taps, event) =
          [n \in Taps |-> \/ bit[n]
                          \/ /\ taps[n].trigger = event
                             /\ IoT!TapConditionSatisfied(f, taps[n])]
    BY <2>1 DEF IoT!EventBits, IoT!Taps, Taps
  <2> HIDE DEF f, taps, event
  <2>4. QED
    BY <2>2, <2>3, <1>4
<1> DEFINE applied == AsField(state_dict, trigger_bit)'
<1>6. IoT!StateBits(applied, taps) = trigger_bit'
  <2>1. applied.trigger_dict = trigger_bit'
    BY DEF AsField
  <2>2. \A n \in Taps : taps[n].trigger # IoT!NoTrigger
    BY AllHaveTriggers DEF AsTapDict
  <2>3. trigger_bit' = [n \in Taps |-> trigger_bit'[n]]
    BY DEF ApplyAction
  <2>4. \A n \in Taps : trigger_bit'[n] \in BOOLEAN
    BY DEF ApplyAction, Triggered, CheckActionCondition
  <2>5. QED
    BY <2>1, <2>2, <2>3, <2>4 DEF IoT!StateBits, IoT!Taps, Taps
<1>7. QED
  BY <1>1, <1>2, <1>3, <1>5, <1>6 DEF IoT!ApplyAction, AsField

-----------------------------------------------------------------------------
(* An element of a sequence.                                               *)
LEMMA ElementOf ==
  ASSUME NEW S, NEW seq \in Seq(S), NEW n \in 1..Len(seq)
  PROVE  seq[n] \in S
  OBVIOUS

(* Types, and no rule is triggered when the next event comes.              *)
Events == [cap: Cap, value: Value, is_ext: BOOLEAN]

(* Initially, with the empty list of events.                               *)
LEMMA InitIInv == Init => IInv
  BY DEF Init, IInv, TypeOK

(* An action leads to a state and to bits of their types, and is logged.   *)
LEMMA ApplyActionType ==
  ASSUME IInv, NEW bit \in [Taps -> BOOLEAN], NEW action \in Action, ApplyAction(bit, action)
  PROVE  state_dict' \in [Cap -> Value] /\ trigger_bit' \in [Taps -> BOOLEAN]
  BY DEF ApplyAction, IInv, TypeOK, Action, Triggered, CheckActionCondition

(* An event from outside, in the simulation or in the recorded trace.      *)
LEMMA ExternalIInv ==
  ASSUME IInv, NEW action \in Action, Generate(action) \/ Introduce(action)
  PROVE  IInv'
<1>1. External(action)
  BY DEF Generate, Introduce
<1>2. state_dict' \in [Cap -> Value] /\ trigger_bit' \in [Taps -> BOOLEAN]
  BY <1>1, ApplyActionType DEF External, IInv, TypeOK
<1>3. recorded' \in [Cap -> Value] \cup {NoTrace}
  BY DEF Generate, Introduce, IInv, TypeOK, Action
<1>4. event_list' \in Seq(Events)
  <2>1. Event(action, TRUE) \in Events /\ event_list \in Seq(Events)
    BY DEF Event, Events, Action, IInv, TypeOK
  <2>2. event_list' = Append(event_list, Event(action, TRUE))
    BY <1>1 DEF External
  <2>3. QED
    BY <2>1, <2>2, AppendProperties, Zenon
<1>5. QED
  BY <1>1, <1>2, <1>3, <1>4 DEF External, IInv, TypeOK, Events

(* The action of a rule.                                                   *)
LEMMA RunRuleIInv ==
  ASSUME IInv, NEW n \in Taps, RunRule(n)
  PROVE  IInv'
<1>1. tap_list[n].action \in Action /\ ClearBit(n) \in [Taps -> BOOLEAN]
  BY RuleListAssumption DEF IInv, TypeOK, Tap, Action, ClearBit
<1>2. state_dict' \in [Cap -> Value] /\ trigger_bit' \in [Taps -> BOOLEAN]
  BY <1>1, ApplyActionType DEF RunRule
<1>3. event_list' \in Seq(Events)
  <2>1. Event(tap_list[n].action, FALSE) \in Events /\ event_list \in Seq(Events)
    BY <1>1 DEF Event, Events, Action, IInv, TypeOK
  <2>2. event_list' = Append(event_list, Event(tap_list[n].action, FALSE))
    BY DEF RunRule
  <2>3. QED
    BY <2>1, <2>2, AppendProperties, Zenon
<1>4. QED
  BY <1>2, <1>3 DEF RunRule, IInv, TypeOK, Events

(* The steps that leave the system with the rules and its list as they are.*)
Rest == Resolved \/ Finish \/ AddAction \/ Built \/ UNCHANGED vars

(* They keep the types.                                                    *)
LEMMA RestIInv == IInv /\ Rest => IInv'
  BY DEF Rest, Resolved, Finish, AddAction, Built, vars, system, IInv, TypeOK

(* Those are all the steps.                                                *)
LEMMA NextCases ==
  ASSUME [Next]_vars
  PROVE  \/ \E action \in Action : Generate(action) \/ Introduce(action)
         \/ \E n \in Taps : RunRule(n)
         \/ Rest
  BY Zenon DEF Next, Rest

(* So every reachable state is of those types.                             *)
LEMMA Invariant == Spec => []IInv
<1>1. IInv /\ [Next]_vars => IInv'
  BY ExternalIInv, RunRuleIInv, RestIInv, NextCases
<1>2. QED
  BY InitIInv, <1>1, PTL DEF Spec

(* Whatever the rules and the events are, the state of the system, the bits*)
(* and the lists have their types, and no rule is pending when an event is *)
(* taken or the trace is done.                                             *)
THEOREM TypeCorrect == Spec => []TypeOK
<1>1. IInv => TypeOK
  BY DEF IInv
<1>2. QED
  BY <1>1, Invariant, PTL

-----------------------------------------------------------------------------
(* The state before the n-th event of a list, as StateBefore has it.       *)
Sets(list, n, cap) == {m \in 1..(n - 1) : list[m].cap = cap}
LastOf(S) == CHOOSE m \in S : \A k \in S : k <= m
Before(init, list, n) ==
    [cap \in Cap |-> IF Sets(list, n, cap) = {} THEN init[cap]
                     ELSE list[LastOf(Sets(list, n, cap))].value]
Changed(state, event) == [state EXCEPT ![event.cap] = event.value]

(* Every set of numbers that is not empty has a least element: the library *)
(* has it as the well-foundedness of the order, an operator argument that  *)
(* is hidden behind a constant here so that the provers can use it.        *)
LessThanNat == OpToRel(<, Nat)

(* The order of the natural numbers is well-founded.                       *)
LEMMA LessThanWellFounded == IsWellFoundedOn(LessThanNat, Nat)
  BY NatLessThanWellFounded, Zenon DEF LessThanNat

(* A pair is in the order when its first number is the smaller one.        *)
LEMMA LessThanPairs == LessThanNat = {ss \in Nat \X Nat : ss[1] < ss[2]}
  BY Zenon DEF OpToRel, LessThanNat

(* A nonempty set of natural numbers has a least element.                  *)
LEMMA LeastElement ==
  ASSUME NEW S, S \subseteq Nat, S # {}
  PROVE  \E m \in S : \A n \in S : m <= n
<1>1. \E m \in S : \A n \in S : <<n, m>> \notin LessThanNat
  BY LessThanWellFounded, WFMin
<1>2. PICK m \in S : \A n \in S : <<n, m>> \notin LessThanNat
  BY <1>1
<1>3. \A n \in S : ~ (n < m)
  <2>1. TAKE n \in S
  <2>2. <<n, m>> \notin LessThanNat
    BY <1>2
  <2>3. QED
    BY <2>2, LessThanPairs
<1>4. QED
  BY <1>2, <1>3

(* A set of numbers up to a bound has a last one.                          *)
LEMMA LastElement ==
  ASSUME NEW n \in Nat, NEW S \in SUBSET (1..n), S # {}
  PROVE  LastOf(S) \in S /\ \A k \in S : k <= LastOf(S)
<1> DEFINE Bounds == {b \in Nat : \A k \in S : k <= b}
<1>1. n \in Bounds
  OBVIOUS
<1>2. PICK b \in Bounds : \A c \in Bounds : b <= c
  BY <1>1, LeastElement
<1>3. b \in S
  <2>1. SUFFICES ASSUME b \notin S PROVE FALSE
    OBVIOUS
  <2>2. PICK k \in S : TRUE
    OBVIOUS
  <2>3. b - 1 \in Nat /\ \A s \in S : s <= b - 1
    BY <2>1, <2>2
  <2>4. QED
    BY <1>2, <2>3
<1>4. \A k \in S : k <= b
  BY <1>2
<1>5. \E m \in S : \A k \in S : k <= m
  BY <1>3, <1>4
<1>6. QED
  BY <1>5, Zenon DEF LastOf

(* It is the one that nothing in the set is after.                         *)
LEMMA LastIs ==
  ASSUME NEW n \in Nat, NEW S \in SUBSET (1..n), NEW m \in S, \A k \in S : k <= m
  PROVE  LastOf(S) = m
<1>1. LastOf(S) \in S /\ \A k \in S : k <= LastOf(S)
  BY LastElement
<1>2. \A a, b \in 1..n : a <= b /\ b <= a => a = b
  OBVIOUS
<1>3. QED
  BY <1>1, <1>2

(* At the first event it is the initial state.                             *)
LEMMA BeforeFirst ==
  ASSUME NEW init \in [Cap -> Value], NEW list
  PROVE  Before(init, list, 1) = init
<1>1. \A cap : Sets(list, 1, cap) = {}
  BY DEF Sets
<1>2. QED
  BY <1>1 DEF Before

(* An event makes one value another.                                       *)
LEMMA BeforeNext ==
  ASSUME NEW init, NEW list, NEW n \in Nat \ {0}
  PROVE  Before(init, list, n + 1) = Changed(Before(init, list, n), list[n])
<1>1. ASSUME NEW cap, list[n].cap = cap
      PROVE  Sets(list, n + 1, cap) # {} /\ LastOf(Sets(list, n + 1, cap)) = n
  <2>1. /\ n \in Sets(list, n + 1, cap)
        /\ Sets(list, n + 1, cap) \subseteq 1..n
    BY <1>1 DEF Sets
  <2> DEFINE S == Sets(list, n + 1, cap)
  <2>2. n \in Nat /\ S \in SUBSET (1..n) /\ n \in S /\ \A k \in S : k <= n
    BY <2>1
  <2>3. LastOf(S) = n
    <3> HIDE DEF S
    <3>1. QED
      BY <2>2, LastIs, Zenon
  <2>4. QED
    BY <2>1, <2>3
<1>2. ASSUME NEW cap, list[n].cap # cap
      PROVE  Sets(list, n + 1, cap) = Sets(list, n, cap)
  BY <1>2 DEF Sets
<1>3. ASSUME NEW cap \in Cap
      PROVE  Before(init, list, n + 1)[cap] = Changed(Before(init, list, n), list[n])[cap]
  BY <1>1, <1>2 DEF Before, Changed
<1>4. QED
  BY <1>3 DEF Before, Changed

(* Later events do not count.                                              *)
LEMMA BeforeAppend ==
  ASSUME NEW init, NEW S, NEW list \in Seq(S), NEW event \in S, NEW n \in 1..(Len(list) + 1)
  PROVE  Before(init, Append(list, event), n) = Before(init, list, n)
<1> DEFINE longer == Append(list, event)
<1>1. \A m \in 1..(n - 1) : longer[m] = list[m]
  BY AppendProperties
<1> HIDE DEF longer
<1>2. \A cap : Sets(longer, n, cap) = Sets(list, n, cap)
  BY <1>1 DEF Sets
<1>3. ASSUME NEW cap \in Cap, Sets(list, n, cap) # {}
      PROVE  LastOf(Sets(list, n, cap)) \in 1..(n - 1)
  <2>1. Sets(list, n, cap) \in SUBSET (1..(n - 1)) /\ n - 1 \in Nat
    BY DEF Sets
  <2>2. QED
    BY <1>3, <2>1, LastElement
<1>4. Before(init, longer, n) = Before(init, list, n)
  BY <1>1, <1>2, <1>3 DEF Before
<1>5. QED
  BY <1>4 DEF longer

(* What the model calls so.                                                *)
LEMMA StateBeforeIs == \A n : StateBefore(n) = Before(initial_state, event_list, n)
  BY DEF StateBefore, Before, Sets, LastOf

(* The new trace, as far as it is built, ends in the state before the event*)
(* that comes next; and the state of the system is the one after them all. *)
Replayed == IF actions = <<>> THEN initial_state ELSE StateAfter(actions)
Logged(n) == Before(initial_state, event_list, n)

ReplayInv ==
    /\ IInv
    /\ state_dict = Logged(Len(event_list) + 1)
    /\ actions \in Seq([event: Events, pre: [Cap -> Value]])
    /\ index \in 1..(Len(event_list) + 1)
    /\ Replayed = Logged(index)
    /\ pc \in {"next", "resolve"} => index = 1 /\ actions = <<>>
    /\ pc = "done" => index = Len(event_list) + 1

(* Nothing has happened at first.                                          *)
LEMMA InitReplay == Init => ReplayInv
<1> SUFFICES ASSUME Init PROVE ReplayInv
  OBVIOUS
<1>1. initial_state \in [Cap -> Value] /\ Len(event_list) = 0 /\ event_list = <<>>
  BY DEF Init
<1>2. Logged(1) = initial_state
  BY <1>1, BeforeFirst DEF Logged
<1>3. QED
  BY <1>1, <1>2, InitIInv DEF Init, ReplayInv, Replayed

(* Every event, from outside or of a rule, is logged and changes the state *)
(* as it says.                                                             *)
LEMMA EventReplay ==
  ASSUME ReplayInv, NEW action \in Action, NEW is_ext \in BOOLEAN, IInv',
         pc \in {"next", "resolve"}, pc' = "resolve", UNCHANGED <<initial_state, trace>>,
         state_dict' = [state_dict EXCEPT ![action.cap] = action.value],
         event_list' = Append(event_list, Event(action, is_ext))
  PROVE  ReplayInv'
<1> DEFINE n == Len(event_list) + 1
<1>1. /\ event_list \in Seq(Events) /\ initial_state \in [Cap -> Value]
      /\ Event(action, is_ext) \in Events /\ n \in Nat \ {0}
  BY DEF ReplayInv, IInv, TypeOK, Events, Event, Action
<1>2. Len(event_list') = n /\ event_list'[n] = Event(action, is_ext)
  BY <1>1, AppendProperties
<1>3. Before(initial_state, event_list', n) = Logged(n)
  BY <1>1, BeforeAppend DEF Logged
<1>4. Before(initial_state, event_list', n + 1) =
        Changed(Before(initial_state, event_list', n), event_list'[n])
  BY <1>1, BeforeNext, Zenon
<1>5. state_dict' = Logged(Len(event_list) + 1)'
  <2>1. event_list'[n].cap = action.cap /\ event_list'[n].value = action.value
    BY <1>2 DEF Event
  <2>2. state_dict = Logged(n)
    BY DEF ReplayInv
  <2> HIDE DEF n
  <2>3. state_dict' = Before(initial_state, event_list', n + 1)
    BY <1>3, <1>4, <2>1, <2>2 DEF Changed
  <2>4. QED
    BY <1>2, <2>3 DEF Logged
<1>6. index' = 1 /\ actions' = <<>> /\ Logged(1)' = initial_state'
  BY <1>1, BeforeFirst DEF ReplayInv, Logged, trace
<1>7. QED
  BY <1>1, <1>2, <1>5, <1>6 DEF ReplayInv, Replayed

(* An event that changes nothing is left out, and the trace leads to the   *)
(* same state as with it.                                                  *)
LEMMA AddActionReplay ==
  ASSUME ReplayInv, IInv', AddAction
  PROVE  ReplayInv'
<1> DEFINE event == event_list[index]
           pre == Replayed
           new == Append(actions, [event |-> event, pre |-> pre])
<1>1. index \in 1..Len(event_list) /\ event \in Events
  <2>1. event_list \in Seq(Events) /\ index <= Len(event_list) /\ index \in 1..(Len(event_list) + 1)
    BY DEF ReplayInv, IInv, TypeOK, AddAction, Events
  <2>2. index \in 1..Len(event_list)
    BY <2>1
  <2>3. QED
    BY <2>1, <2>2, ElementOf
<1>2. pre \in [Cap -> Value] /\ pre = Logged(index)
  <2>1. CASE actions = <<>>
    BY <2>1 DEF ReplayInv, IInv, TypeOK, Replayed
  <2>2. CASE actions # <<>>
    <3>1. actions[Len(actions)] \in [event: Events, pre: [Cap -> Value]]
      <4>1. actions \in Seq([event: Events, pre: [Cap -> Value]])
        BY DEF ReplayInv
      <4>2. Len(actions) \in 1..Len(actions)
        BY <2>2, <4>1, EmptySeq, LenProperties
      <4>3. QED
        BY <4>1, <4>2, ElementOf
    <3>2. StateAfter(actions) \in [Cap -> Value]
      BY <3>1 DEF StateAfter, Events
    <3>3. QED
      BY <2>2, <3>2 DEF ReplayInv, Replayed
  <2>3. QED
    BY <2>1, <2>2
<1>3. Logged(index + 1) = Changed(pre, event)
  <2>1. index \in Nat \ {0}
    BY <1>1
  <2>2. Logged(index + 1) = Changed(Logged(index), event)
    BY <2>1, BeforeNext, Zenon DEF Logged
  <2> HIDE DEF pre, event
  <2>3. QED
    BY <1>2, <2>2
<1>4. /\ actions' = IF actions = <<>> \/ pre[event.cap] # event.value THEN new ELSE actions
      /\ index' = index + 1
      /\ UNCHANGED <<pc, initial_state, state_dict, event_list>>
      /\ pc = "build"
  BY DEF AddAction, Replayed, system
<1>5. [event |-> event, pre |-> pre] \in [event: Events, pre: [Cap -> Value]]
  BY <1>1, <1>2
<1>6. /\ new \in Seq([event: Events, pre: [Cap -> Value]]) /\ new # <<>>
      /\ new[Len(new)] = [event |-> event, pre |-> pre]
  BY <1>5, AppendProperties DEF ReplayInv
<1>7. Replayed' = Logged(index + 1)
  <2>1. CASE actions = <<>> \/ pre[event.cap] # event.value
    <3>1. actions' = new
      BY <1>4, <2>1
    <3>2. Replayed' = StateAfter(new)
      BY <1>6, <3>1 DEF Replayed, StateAfter
    <3> DEFINE last == [event |-> event, pre |-> pre]
    <3>3. StateAfter(new) = Changed(pre, event)
      <4>1. last.event = event /\ last.pre = pre /\ new[Len(new)] = last
        BY <1>6
      <4> HIDE DEF event, pre, new, last
      <4>2. QED
        BY <4>1 DEF StateAfter, Changed
    <3>4. QED
      BY <1>3, <3>2, <3>3
  <2>2. CASE actions # <<>> /\ pre[event.cap] = event.value
    <3>1. Replayed' = pre
      BY <1>4, <2>2 DEF Replayed, StateAfter
    <3>2. Changed(pre, event) = pre
      BY <1>2, <2>2 DEF Changed
    <3>3. QED
      BY <1>3, <3>1, <3>2
  <2>3. QED
    BY <2>1, <2>2
<1>8. Logged(index)' = Logged(index + 1) /\ Logged(Len(event_list) + 1)' = Logged(Len(event_list) + 1)
  BY <1>4 DEF Logged
<1>9. actions' \in Seq([event: Events, pre: [Cap -> Value]])
  BY <1>4, <1>6 DEF ReplayInv
<1> HIDE DEF event, pre, new
<1>10. QED
  BY <1>1, <1>4, <1>7, <1>8, <1>9 DEF ReplayInv

(* The other steps change neither the list nor the trace.                  *)
LEMMA QuietReplay ==
  ASSUME ReplayInv, IInv', Resolved \/ Finish \/ Built \/ UNCHANGED vars
  PROVE  ReplayInv'
<1>1. UNCHANGED <<initial_state, state_dict, event_list, index, actions>>
  BY Zenon DEF Resolved, Finish, Built, vars, system, trace
<1>2. /\ pc' \in {"next", "resolve"} => pc \in {"next", "resolve"}
      /\ pc' = "done" => pc = "done" \/ index > Len(event_list)
  BY DEF Resolved, Finish, Built, vars
<1>3. UNCHANGED <<Replayed, Logged(index), Logged(Len(event_list) + 1)>>
  BY <1>1 DEF Replayed, StateAfter, Logged
<1>4. Len(event_list) \in Nat
  BY DEF ReplayInv, IInv, TypeOK
<1>5. QED
  BY <1>1, <1>2, <1>3, <1>4 DEF ReplayInv

(* Every step keeps it.                                                    *)
LEMMA NextReplay ==
  ASSUME ReplayInv, [Next]_vars
  PROVE  ReplayInv'
<1>1. IInv'
  BY ExternalIInv, RunRuleIInv, RestIInv, NextCases DEF ReplayInv
<1>2. ASSUME NEW action \in Action, Generate(action) \/ Introduce(action) PROVE ReplayInv'
  <2>1. External(action)
    BY <1>2 DEF Generate, Introduce
  <2>2. QED
    BY <1>1, <2>1, EventReplay DEF External, ApplyAction
<1>3. ASSUME NEW n \in Taps, RunRule(n) PROVE ReplayInv'
  <2>1. tap_list[n].action \in Action
    BY RuleListAssumption DEF ReplayInv, IInv, TypeOK, Tap, Action
  <2>2. QED
    BY <1>1, <1>3, <2>1, EventReplay DEF RunRule, ApplyAction
<1>4. CASE Rest
  BY <1>1, <1>4, AddActionReplay, QuietReplay DEF Rest
<1>5. QED
  BY <1>2, <1>3, <1>4, NextCases

(* Whatever the rules and the events are, a trace leads to the state of the*)
(* system when it was recorded, although the events that change nothing are*)
(* not in it.                                                              *)
THEOREM ReplayCorrect == Spec => []ReplayReachesState
<1>1. ReplayInv => ReplayReachesState
  BY DEF ReplayInv, ReplayReachesState, Replayed
<1>2. QED
  BY InitReplay, NextReplay, <1>1, PTL DEF Spec

-----------------------------------------------------------------------------
(* What is said of the n-th event of a list, as in Due, Following and      *)
(* IsActionOf, for the list and the initial state as parameters.           *)
DueIn(init, list, n, tap) ==
    /\ CheckActionCondition(list[n], tap.trigger)
    /\ \A cond \in tap.condition : Holds(Before(init, list, n), cond)
Quiet(list, n, m) == \A k \in (n + 1)..m : ~ list[k].is_ext
Acts(list, n, tap) == tap.action = [cap |-> list[n].cap, value |-> list[n].value]

Caused(init, list, taps, n) ==
    \/ list[n].is_ext
    \/ \E k \in 1..(n - 1), m \in Taps :
          DueIn(init, list, k, taps[m]) /\ Quiet(list, k, n) /\ Acts(list, n, taps[m])
Answered(list, n, tap) ==
    \E j \in (n + 1)..Len(list) : Quiet(list, n, j) /\ Acts(list, j, tap)

NotNegated == \A n \in Taps : \A cond \in tap_list[n].condition : ~ cond.neg

(* A rule that waits was triggered since the last event from outside; and a*)
(* rule that an event has triggered has run or waits.                      *)
Explained(n) == Caused(initial_state, event_list, tap_list, n)
Waits(m) ==
    trigger_bit[m] =>
        \E k \in 1..Len(event_list) :
            /\ DueIn(initial_state, event_list, k, tap_list[m])
            /\ Quiet(event_list, k, Len(event_list))
Runs(n, m) ==
    DueIn(initial_state, event_list, n, tap_list[m]) =>
        \/ Answered(event_list, n, tap_list[m])
        \/ trigger_bit[m] /\ Quiet(event_list, n, Len(event_list))

DueInv ==
    /\ \A n \in 1..Len(event_list) : Explained(n)
    /\ \A m \in Taps : Waits(m)
    /\ \A n \in 1..Len(event_list), m \in Taps : Runs(n, m)

(* What is said of an event stays true when others follow.                 *)
LEMMA DueAppend ==
  ASSUME NEW init, NEW S, NEW list \in Seq(S), NEW event \in S, NEW n \in 1..Len(list), NEW tap
  PROVE  /\ DueIn(init, Append(list, event), n, tap) <=> DueIn(init, list, n, tap)
         /\ Acts(Append(list, event), n, tap) <=> Acts(list, n, tap)
         /\ \A k \in Nat : Quiet(Append(list, event), k, n) <=> Quiet(list, k, n)
<1>1. Before(init, Append(list, event), n) = Before(init, list, n)
  BY BeforeAppend
<1>2. \A k \in 1..Len(list) : Append(list, event)[k] = list[k]
  BY AppendProperties
<1>3. \A k \in Nat : Quiet(Append(list, event), k, n) <=> Quiet(list, k, n)
  BY <1>2 DEF Quiet
<1>4. QED
  BY <1>1, <1>2, <1>3 DEF DueIn, Acts

(* The event itself, which is the last.                                    *)
LEMMA QuietAppend ==
  ASSUME NEW S, NEW list \in Seq(S), NEW event \in S, NEW n \in 1..Len(list),
         Quiet(list, n, Len(list)), ~ event.is_ext
  PROVE  Quiet(Append(list, event), n, Len(list) + 1)
<1>1. /\ \A k \in 1..Len(list) : Append(list, event)[k] = list[k]
      /\ Append(list, event)[Len(list) + 1] = event
  BY AppendProperties
<1>2. Len(list) \in Nat
  OBVIOUS
<1>3. \A k \in (n + 1)..(Len(list) + 1) : k \in (n + 1)..Len(list) \/ k = Len(list) + 1
  BY <1>2
<1>4. \A k \in (n + 1)..Len(list) : k \in 1..Len(list)
  OBVIOUS
<1>5. QED
  BY <1>1, <1>3, <1>4 DEF Quiet

(* So what has caused an event, and what has answered it, stay.            *)
LEMMA CausedAppend ==
  ASSUME NEW init, NEW S, NEW list \in Seq(S), NEW event \in S, NEW n \in 1..Len(list), NEW taps,
         Caused(init, list, taps, n)
  PROVE  Caused(init, Append(list, event), taps, n)
<1> DEFINE longer == Append(list, event)
<1>1. longer[n] = list[n]
  BY AppendProperties
<1>2. CASE list[n].is_ext
  BY <1>1, <1>2 DEF Caused
<1>3. ASSUME NEW k \in 1..(n - 1), NEW m \in Taps,
             DueIn(init, list, k, taps[m]), Quiet(list, k, n), Acts(list, n, taps[m])
      PROVE  Caused(init, longer, taps, n)
  <2>1. k \in 1..Len(list) /\ k \in Nat
    OBVIOUS
  <2>2. DueIn(init, longer, k, taps[m])
    BY <1>3, <2>1, DueAppend
  <2>3. Quiet(longer, k, n) /\ Acts(longer, n, taps[m])
    BY <1>3, <2>1, DueAppend
  <2> HIDE DEF longer
  <2>4. QED
    BY <2>2, <2>3 DEF Caused
<1>4. QED
  BY <1>2, <1>3 DEF Caused

(* A rule that has run has run.                                            *)
LEMMA AnsweredAppend ==
  ASSUME NEW S, NEW list \in Seq(S), NEW event \in S, NEW n \in 1..Len(list), NEW tap,
         Answered(list, n, tap)
  PROVE  Answered(Append(list, event), n, tap)
<1> DEFINE longer == Append(list, event)
<1>1. PICK j \in (n + 1)..Len(list) : Quiet(list, n, j) /\ Acts(list, j, tap)
  BY DEF Answered
<1>2. j \in 1..Len(list) /\ n \in Nat /\ Len(longer) = Len(list) + 1 /\ j \in (n + 1)..Len(longer)
  BY AppendProperties
<1>3. Quiet(longer, n, j) /\ Acts(longer, j, tap)
  BY <1>1, <1>2, DueAppend
<1> HIDE DEF longer
<1>4. Answered(longer, n, tap)
  BY <1>2, <1>3 DEF Answered
<1>5. QED
  BY <1>4 DEF longer

(* An event, and the rules that it triggers: it is from outside when no    *)
(* rule waits, or of a rule, whose bit is cleared before the event.        *)
LEMMA EventDue ==
  ASSUME ReplayInv, DueInv, NotNegated, NEW bit, NEW action \in Action, NEW is_ext \in BOOLEAN,
         ApplyAction(bit, action), UNCHANGED <<initial_state, tap_list>>,
         event_list' = Append(event_list, Event(action, is_ext)),
         \/ is_ext /\ \A m \in Taps : ~ bit[m] /\ ~ trigger_bit[m]
         \/ /\ ~ is_ext
            /\ \E r \in Taps : /\ trigger_bit[r] /\ bit = ClearBit(r)
                              /\ action = tap_list[r].action
  PROVE  DueInv'
<1> DEFINE len == Len(event_list)
           event == Event(action, is_ext)
           longer == Append(event_list, event)
<1>1. /\ event_list \in Seq(Events) /\ event \in Events /\ len \in Nat
      /\ trigger_bit \in [Taps -> BOOLEAN]
  BY DEF ReplayInv, IInv, TypeOK, Events, Event, Action
<1>2. /\ Len(longer) = len + 1 /\ longer[len + 1] = event
      /\ \A n \in 1..(len + 1) : n \in 1..len \/ n = len + 1
  BY <1>1, AppendProperties
<1>3. /\ event.is_ext = is_ext /\ event.cap = action.cap /\ event.value = action.value
      /\ action = [cap |-> event.cap, value |-> event.value]
  BY DEF Event, Action
<1>4. ASSUME NEW m \in Taps
      PROVE  DueIn(initial_state, longer, len + 1, tap_list[m]) <=> Triggered(action, tap_list[m])
  <2>1. Before(initial_state, longer, len + 1) = state_dict
    <3>1. len + 1 \in 1..(len + 1)
      BY <1>1
    <3>2. Before(initial_state, longer, len + 1) = Before(initial_state, event_list, len + 1)
      BY <1>1, <3>1, BeforeAppend
    <3>3. QED
      BY <3>2 DEF ReplayInv, Logged
  <2>2. CheckActionCondition(event, tap_list[m].trigger)
          <=> CheckActionCondition(action, tap_list[m].trigger)
    BY <1>3 DEF CheckActionCondition
  <2>3. \A cond \in tap_list[m].condition :
           Holds(state_dict, cond) <=> CheckCurrentCondition(state_dict, cond)
    <3>1. \A cond \in tap_list[m].condition : cond.neg = FALSE
      BY RuleListAssumption DEF ReplayInv, IInv, TypeOK, Tap, Cond, NotNegated
    <3>2. ASSUME NEW cond, cond.neg = FALSE
          PROVE  Holds(state_dict, cond) <=> CheckCurrentCondition(state_dict, cond)
      <4> DEFINE holds == state_dict[cond.cap] \in cond.holds
      <4>1. Holds(state_dict, cond) <=> holds # FALSE
        BY <3>2 DEF Holds
      <4>2. holds \in BOOLEAN
        OBVIOUS
      <4>3. QED
        BY <4>1, <4>2 DEF CheckCurrentCondition
    <3>3. QED
      BY <3>1, <3>2
  <2> HIDE DEF len, event, longer
  <2>4. QED
    BY <1>2, <2>1, <2>2, <2>3 DEF DueIn, Triggered
<1>5. ASSUME NEW m \in Taps
      PROVE  trigger_bit'[m] <=> bit[m] \/ Triggered(action, tap_list[m])
  BY DEF ApplyAction
<1>6. ASSUME NEW n \in 1..len, NEW tap
      PROVE  /\ DueIn(initial_state, longer, n, tap) <=> DueIn(initial_state, event_list, n, tap)
             /\ ~ is_ext /\ Quiet(event_list, n, len) => Quiet(longer, n, len + 1)
             /\ Answered(event_list, n, tap) => Answered(longer, n, tap)
             /\ Caused(initial_state, event_list, tap_list, n)
                  => Caused(initial_state, longer, tap_list, n)
  <2>1. DueIn(initial_state, longer, n, tap) <=> DueIn(initial_state, event_list, n, tap)
    BY <1>1, DueAppend
  <2>2. ~ is_ext /\ Quiet(event_list, n, len) => Quiet(longer, n, len + 1)
    BY <1>1, <1>3, QuietAppend
  <2>3. Answered(event_list, n, tap) => Answered(longer, n, tap)
    BY <1>1, AnsweredAppend
  <2>4. Caused(initial_state, event_list, tap_list, n) => Caused(initial_state, longer, tap_list, n)
    BY <1>1, CausedAppend
  <2>5. QED
    BY <2>1, <2>2, <2>3, <2>4
<1>7. Quiet(longer, len + 1, len + 1)
  BY <1>1 DEF Quiet
<1>8. ASSUME NEW r \in Taps, trigger_bit[r], action = tap_list[r].action
      PROVE  Acts(longer, len + 1, tap_list[r])
  BY <1>2, <1>3, <1>8 DEF Acts
<1>9. event_list' = longer /\ UNCHANGED <<initial_state, tap_list>> /\ len + 1 \in Nat
  BY <1>1
<1>10. \A n \in 1..len : n \in Nat /\ n \in 1..(len + 1) /\ len + 1 \in (n + 1)..(len + 1)
  BY <1>1
<1>11. len + 1 \in 1..(len + 1) /\ 1..((len + 1) - 1) = 1..len
  BY <1>1
<1>12. Len(event_list) = len
  OBVIOUS
<1>13. Len(event_list') = len + 1
  BY <1>2, <1>9
<1> HIDE DEF len, event, longer
<1>14. \A n \in 1..(len + 1) : Caused(initial_state, longer, tap_list, n)
  <2>1. CASE is_ext
    BY <1>2, <1>3, <1>6, <1>12, <2>1 DEF Caused, DueInv, Explained
  <2>2. CASE ~ is_ext
    <3>1. PICK r \in Taps : trigger_bit[r] /\ action = tap_list[r].action
      BY <2>2
    <3>2. PICK k \in 1..len : /\ DueIn(initial_state, event_list, k, tap_list[r])
                             /\ Quiet(event_list, k, len)
      BY <1>12, <3>1 DEF DueInv, Waits
    <3>3. /\ DueIn(initial_state, longer, k, tap_list[r])
          /\ Quiet(longer, k, len + 1) /\ Acts(longer, len + 1, tap_list[r])
      BY <1>6, <1>8, <2>2, <3>1, <3>2
    <3>4. Caused(initial_state, longer, tap_list, len + 1)
      BY <1>11, <3>3 DEF Caused
    <3>5. QED
      BY <1>2, <1>6, <1>12, <3>4 DEF DueInv, Explained
  <2>3. QED
    BY <2>1, <2>2
<1>15. ASSUME NEW m \in Taps, trigger_bit'[m]
       PROVE  \E k \in 1..(len + 1) :
                 DueIn(initial_state, longer, k, tap_list[m]) /\ Quiet(longer, k, len + 1)
  <2>1. CASE Triggered(action, tap_list[m])
    BY <1>4, <1>7, <1>11, <2>1
  <2>2. CASE bit[m]
    <3>1. ~ is_ext /\ trigger_bit[m]
      BY <1>1, <2>2 DEF ClearBit
    <3>2. PICK k \in 1..len : /\ DueIn(initial_state, event_list, k, tap_list[m])
                             /\ Quiet(event_list, k, len)
      BY <1>12, <3>1 DEF DueInv, Waits
    <3>3. QED
      BY <1>6, <1>10, <3>1, <3>2
  <2>3. QED
    BY <1>5, <1>15, <2>1, <2>2
<1>16. ASSUME NEW n \in 1..(len + 1), NEW m \in Taps, DueIn(initial_state, longer, n, tap_list[m])
       PROVE  \/ Answered(longer, n, tap_list[m])
              \/ trigger_bit'[m] /\ Quiet(longer, n, len + 1)
  <2>1. CASE n = len + 1
    BY <1>4, <1>5, <1>7, <1>16, <2>1
  <2>2. CASE n \in 1..len
    <3>1. \/ Answered(event_list, n, tap_list[m])
          \/ trigger_bit[m] /\ Quiet(event_list, n, len)
      BY <1>6, <1>12, <1>16, <2>2 DEF DueInv, Runs
    <3>2. CASE Answered(event_list, n, tap_list[m])
      BY <1>6, <2>2, <3>2
    <3>3. CASE trigger_bit[m] /\ Quiet(event_list, n, len)
      <4>1. PICK r \in Taps : /\ ~ is_ext /\ trigger_bit[r] /\ bit = ClearBit(r)
                             /\ action = tap_list[r].action
        BY <3>3
      <4>2. Quiet(longer, n, len + 1)
        BY <1>6, <2>2, <3>3, <4>1
      <4>3. CASE m = r
        BY <1>2, <1>8, <1>10, <2>2, <4>1, <4>2, <4>3 DEF Answered
      <4>4. CASE m # r
        BY <1>1, <1>5, <3>3, <4>1, <4>2, <4>4 DEF ClearBit
      <4>5. QED
        BY <4>3, <4>4
    <3>4. QED
      BY <3>1, <3>2, <3>3
  <2>3. QED
    BY <1>2, <2>1, <2>2
<1>17. QED
  BY <1>9, <1>13, <1>14, <1>15, <1>16 DEF DueInv, Explained, Waits, Runs

(* The steps that add no event.                                            *)
LEMMA RestDue ==
  ASSUME DueInv, Rest
  PROVE  DueInv'
<1>1. UNCHANGED <<initial_state, event_list, tap_list, trigger_bit>>
  BY Zenon DEF Rest, Resolved, Finish, AddAction, Built, vars, system
<1>2. QED
  BY <1>1 DEF DueInv, Explained, Waits, Runs

(* Every step, when no condition is negated.                               *)
LEMMA NextDue ==
  ASSUME ReplayInv, NotNegated => DueInv, [Next]_vars
  PROVE  (NotNegated => DueInv)'
<1>1. UNCHANGED tap_list
  BY NextCases DEF Generate, Introduce, External, RunRule, Rest, Resolved, Finish, AddAction,
                   Built, vars
<1>2. SUFFICES ASSUME NotNegated PROVE DueInv'
  BY <1>1 DEF NotNegated
<1>3. ASSUME NEW action \in Action, Generate(action) \/ Introduce(action) PROVE DueInv'
  <2>1. External(action)
    BY <1>3 DEF Generate, Introduce
  <2>2. /\ ApplyAction(trigger_bit, action) /\ UNCHANGED <<initial_state, tap_list>>
        /\ event_list' = Append(event_list, Event(action, TRUE))
    BY <2>1 DEF External
  <2>3. \A m \in Taps : ~ trigger_bit[m]
    BY <2>1 DEF External, ReplayInv, IInv
  <2>4. QED
    BY <1>2, <2>2, <2>3, EventDue
<1>4. ASSUME NEW n \in Taps, RunRule(n) PROVE DueInv'
  <2>1. tap_list[n].action \in Action
    BY RuleListAssumption DEF ReplayInv, IInv, TypeOK, Tap, Action
  <2>2. /\ ApplyAction(ClearBit(n), tap_list[n].action) /\ UNCHANGED <<initial_state, tap_list>>
        /\ event_list' = Append(event_list, Event(tap_list[n].action, FALSE))
        /\ trigger_bit[n]
    BY <1>4 DEF RunRule, FirstTriggered
  <2>3. QED
    BY <1>2, <2>1, <2>2, EventDue
<1>5. CASE Rest
  BY <1>2, <1>5, RestDue
<1>6. QED
  BY <1>3, <1>4, <1>5, NextCases

(* What the invariant says is what the property says.                      *)
LEMMA DueMeaning ==
  ASSUME ReplayInv, NotNegated, DueInv
  PROVE  DueRulesRun
<1>1. event_list \in Seq(Events) /\ DOMAIN event_list = 1..Len(event_list)
  BY LenProperties DEF ReplayInv, IInv, TypeOK, Events
<1>2. ASSUME NEW n, NEW m \in Taps
      PROVE  tap_list[m] \in Due(n) <=> DueIn(initial_state, event_list, n, tap_list[m])
  BY StateBeforeIs DEF Due, DueIn
<1>3. ASSUME NEW n \in 1..Len(event_list) PROVE CausedByRule(n)
  <2>1. Caused(initial_state, event_list, tap_list, n)
    BY DEF DueInv, Explained
  <2>2. CASE event_list[n].is_ext
    BY <2>2 DEF CausedByRule
  <2>3. ASSUME NEW k \in 1..(n - 1), NEW m \in Taps,
               DueIn(initial_state, event_list, k, tap_list[m]), Quiet(event_list, k, n),
               Acts(event_list, n, tap_list[m])
        PROVE  CausedByRule(n)
    <3>1. n \in (k + 1)..Len(event_list)
      BY <1>1
    <3>2. n \in Following(k) /\ IsActionOf(n, tap_list[m]) /\ tap_list[m] \in Due(k)
      BY <1>2, <2>3, <3>1 DEF Following, Quiet, IsActionOf, Acts
    <3>3. QED
      BY <3>2 DEF CausedByRule
  <2>4. QED
    BY <2>1, <2>2, <2>3 DEF Caused
<1>4. ASSUME NEW n \in 1..Len(event_list), pc \in {"next", "done"}, NEW tap \in Due(n)
      PROVE  \E j \in Following(n) : IsActionOf(j, tap)
  <2>1. PICK m \in Taps : tap = tap_list[m]
    BY DEF Due
  <2>2. ~ trigger_bit[m]
    BY <1>4 DEF ReplayInv, IInv
  <2>3. Answered(event_list, n, tap)
    BY <1>2, <1>4, <2>1, <2>2 DEF DueInv, Runs
  <2>4. QED
    BY <2>3 DEF Answered, Following, Quiet, IsActionOf, Acts
<1>5. QED
  BY <1>1, <1>3, <1>4, Zenon DEF DueRulesRun, CausesRules

(* As long as no condition is negated, the list of events shows exactly    *)
(* what the rules do, whichever rules and events there are: no event is    *)
(* attributed to the rules without a rule that was due, and no rule that is*)
(* due is missing when the next event comes. With negated conditions the   *)
(* first is not true (NegatedConditionsHold).                              *)
THEOREM DueRulesCorrect ==
  Spec => []((\A n \in Taps : \A cond \in tap_list[n].condition : ~ cond.neg) => DueRulesRun)
<1>1. Init => (NotNegated => DueInv)
  BY DEF Init, DueInv, Waits
<1>2. ReplayInv /\ (NotNegated => DueInv) =>
        ((\A n \in Taps : \A cond \in tap_list[n].condition : ~ cond.neg) => DueRulesRun)
  BY DueMeaning DEF NotNegated
<1>3. QED
  BY InitReplay, NextReplay, NextDue, <1>1, <1>2, PTL DEF Spec

-----------------------------------------------------------------------------
(* The initial states are those of a freshly built IoTSystem.              *)
LEMMA InitAgrees ==
  ASSUME Init
  PROVE  IoT!Init
<1> DEFINE f == AsField(state_dict, trigger_bit)
           taps == AsTapDict(tap_list)
<1>1. taps \in {AsTapDict(list) : list \in TapLists} /\ state_dict \in [Cap -> Value]
  BY DEF Init
<1>2. \A n \in Taps : taps[n].trigger # IoT!NoTrigger
  BY AllHaveTriggers DEF AsTapDict
<1>3. IoT!InitialField(state_dict, taps) = f
  <2>1. \A g : IoT!InitialBits(g, taps) = trigger_bit
    BY <1>2 DEF IoT!InitialBits, IoT!Taps, Taps, Init
  <2>2. QED
    BY <2>1, NoTimers DEF IoT!InitialField, AsField, Idle
<1>4. /\ Idle = [i \in IoT!StateTimers |->
                   IF IoT!Holds(NoTimer[i], state_dict) THEN 0 ELSE IoT!Never]
      /\ Idle = [i \in IoT!EventTimers |-> IoT!Never]
  BY NoTimers DEF Idle
<1>5. QED
  BY <1>1, <1>3, <1>4 DEF IoT!Init, AsField

(* The simulation implements the IoTSystem that the rule analyses use,     *)
(* for any capabilities and any rules as long as they are plain: an event  *)
(* from outside is one of its environment, the run of a rule is one of its *)
(* rule steps, and everything else changes nothing there.                  *)
THEOREM SimulationAgrees == Spec => AgreesWithIoTSystem
<1> DEFINE simulated == recorded = NoTrace /\ \A n \in Taps : Plain(tap_list[n])
<1>1. Init => IoT!Init
  BY InitAgrees
<1>2. IInv /\ [Next]_vars => [simulated => IoT!Next]_(IoT!vars)
  <2> SUFFICES ASSUME IInv, [Next]_vars, simulated PROVE IoT!Next \/ UNCHANGED IoT!vars
    OBVIOUS
  <2> DEFINE f == AsField(state_dict, trigger_bit)
             taps == AsTapDict(tap_list)
  <2>1. tap_list \in [Taps -> PlainTap] /\ state_dict \in [Cap -> Value]
    BY PlainIsPlain, RuleListAssumption DEF IInv, TypeOK
  <2>2. \A action : UNCHANGED Idle => IoT!RecordAction(action)
    BY NoTimers DEF IoT!RecordAction, Idle
  <2>3. ASSUME NEW action \in Action, Generate(action) PROVE IoT!Next
    <3>1. AsEvent(action) \in IoT!Action
      BY DEF AsEvent, Action, IoT!Action
    <3>2. f' = IoT!ApplyAction(f, taps, AsEvent(action))
      BY <2>1, <2>3, ActionsAgree DEF Generate, External, IInv, TypeOK
    <3>3. ~ IoT!ActionTriggered(f) /\ IoT!Enabled(f, AsEvent(action))
      BY <2>3 DEF IoT!ActionTriggered, IoT!Enabled, AsField, AsEvent, Generate, External,
                 IInv, IoT!Taps, Taps
    <3>4. UNCHANGED taps
      BY <2>3 DEF Generate, External
    <3>5. IoT!External(AsEvent(action))
      BY <3>1, <3>2, <3>3, <3>4, <2>2 DEF IoT!External, IoT!PossibleEvents, AsField, Idle
    <3>6. QED
      BY <3>1, <3>5 DEF IoT!Next
  <2>4. ASSUME NEW n \in Taps, RunRule(n) PROVE IoT!Next
    <3> DEFINE cleared == AsField(state_dict, ClearBit(n))
    <3>1. tap_list[n].action \in Action /\ ClearBit(n) \in [Taps -> BOOLEAN]
      BY <2>1 DEF IInv, TypeOK, PlainTap, ClearBit
    <3>2. f' = IoT!ApplyAction(cleared, taps, AsEvent(tap_list[n].action))
      BY <2>1, <2>4, <3>1, ActionsAgree DEF RunRule
    <3>3. taps[n].action = AsEvent(tap_list[n].action) /\ taps[n].trigger # IoT!NoTrigger
      BY AllHaveTriggers DEF AsTapDict, AsTap
    <3>4. cleared = IoT!ClearBit(f, taps, n)
      <4> DEFINE bit == /\ taps[n].trigger = IoT!NoTrigger
                        /\ IoT!TapConditionSatisfied(f, taps[n])
      <4>1. bit = FALSE
        BY <3>3
      <4>2. f.trigger_dict = trigger_bit
        BY DEF AsField
      <4>3. cleared = [f EXCEPT !.trigger_dict = ClearBit(n)]
        BY DEF AsField
      <4> HIDE DEF f, taps, cleared
      <4>4. IoT!ClearBit(f, taps, n) =
              [f EXCEPT !.trigger_dict = [f.trigger_dict EXCEPT ![n] = bit]]
        BY DEF IoT!ClearBit
      <4> HIDE DEF bit
      <4>5. QED
        BY <4>1, <4>2, <4>3, <4>4 DEF ClearBit
    <3>5. f' = IoT!ApplyRule(f, taps, n) /\ f.trigger_dict[n] /\ UNCHANGED taps
      BY <2>4, <3>2, <3>3, <3>4 DEF IoT!ApplyRule, RunRule, FirstTriggered, AsField
    <3>6. IoT!Fire(n)
      BY <3>5, <2>2 DEF IoT!Fire, AsField, Idle
    <3>7. QED
      BY <3>6 DEF IoT!Next, IoT!Taps, Taps
  <2>5. ASSUME UNCHANGED <<system, tap_list>> PROVE UNCHANGED IoT!vars
    BY <2>5 DEF IoT!vars, system, AsTapDict, Idle
  <2>6. CASE Resolved \/ Finish \/ AddAction \/ Built \/ UNCHANGED vars
    BY <2>6, <2>5 DEF Resolved, Finish, AddAction, Built, vars
  <2>7. QED
    <3>1. \A action : ~ Introduce(action)
      BY DEF Introduce
    <3>2. QED
      BY <2>3, <2>4, <2>6, <3>1 DEF Next
<1>3. QED
  BY <1>1, <1>2, Invariant, PTL DEF Spec, AgreesWithIoTSystem
=============================================================================
