------------------------------- MODULE Trace --------------------------------
(***************************************************************************)
(* The trace of a home (autotapta/model/Trace.py): it is built from logged *)
(* events (inputTraceFromList, Trace.addAction), cut to the capabilities   *)
(* that matter (getSubTraceBasedOnCaps), and enhanced with the events of   *)
(* timers (enhanceTraceWithTiming) and clocks (enhanceTraceWithClock), as  *)
(* the analysis views do. A step is one iteration of a loop.               *)
(* The parallel lists actions and pre_condition are one sequence of        *)
(* records; is_ext_list, which is only carried along, is left out. No      *)
(* capability has a name that begins with the name of another.             *)
(***************************************************************************)
EXTENDS Integers, FiniteSets, SequencesExt

CONSTANTS
    Cap,        \* capabilities
    Value,      \* their values
    None,       \* the value that is not known yet
    TimingTup,  \* timing_tup: sequence of <<capability, time span>>
    ClockList,  \* clock_list: times of the day
    Day,        \* length of a day
    MaxTime,    \* bound: time of events
    MaxEvents   \* bound: number of logged events

ASSUME TraceAssumption ==
    /\ None \notin Value
    /\ TimingTup \in Seq(Cap \X (Nat \ {0})) /\ IsInjective(TimingTup)
    /\ Day \in Nat \ {0} /\ ClockList \subseteq 0..(Day - 1)
    /\ MaxTime \in Nat /\ MaxEvents \in Nat

VARIABLES
    pc,             \* what is done next
    initial_state,
    actions,        \* the trace as it is so far
    time_range,     \* start_time and end_time
    logged,         \* number of logged events
    index,          \* of the loop
    tup,            \* the element of timing_tup, counted
    timers,         \* action_time_event_list
    fired,          \* new_time_actions
    new_actions,    \* the trace that is being made
    current_time

vars == <<pc, initial_state, actions, time_range, logged, index, tup, timers,
          fired, new_actions, current_time>>
-----------------------------------------------------------------------------
Set(time, cap, value) == [kind |-> "set", time |-> time, cap |-> cap, value |-> value]
Timer(time, cap, value, span) ==
    [kind |-> "timer", time |-> time, cap |-> cap, value |-> value, span |-> span]
Clock(time) == [kind |-> "clock", time |-> time]

(* A timed event: its action and the state before it.                      *)
At(action, pre) == [action |-> action, pre |-> pre]
AllAt(list, pre) == [n \in DOMAIN list |-> At(list[n], pre)]

(* The numbers of a finite set in their order, and the elements that a list *)
(* has at these places: the filters and the sorted sets of the code.       *)
Rank(S, n) == Cardinality({m \in S : m < n})
Ordered(S) == [k \in 1..Cardinality(S) |-> CHOOSE n \in S : Rank(S, n) = k - 1]
Picked(list, S) == LET order == Ordered(S) IN [k \in DOMAIN order |-> list[order[k]]]

(* InformalSystem.applyAction, without rules. Events of timers and clocks  *)
(* change nothing.                                                         *)
Effect(state, action) ==
    IF action.kind = "set" THEN [state EXCEPT ![action.cap] = action.value] ELSE state

(* sorted(list, key=time), which is stable.                                *)
Before(list, n) ==
    {m \in DOMAIN list : \/ list[m].time < list[n].time
                         \/ list[m].time = list[n].time /\ m < n}
ByTime(list) ==
    [k \in DOMAIN list |->
        list[CHOOSE n \in DOMAIN list : Cardinality(Before(list, n)) = k - 1]]

TypeOK ==
    /\ pc \in {"log", "sub", "timing", "merge", "clock", "done", "failed"}
    /\ \E caps \in SUBSET Cap :
          LET State == [caps -> Value \cup {None}]
          IN  /\ initial_state \in State
              /\ \A n \in DOMAIN actions : actions[n].pre \in State
              /\ \A n \in DOMAIN new_actions : new_actions[n].pre \in State
    /\ time_range.start \in 0..time_range.end /\ time_range.end \in 0..MaxTime
    /\ logged \in 0..MaxEvents
    /\ index \in 1..(Len(actions) + 1)
    /\ tup \in 1..(Len(TimingTup) + 1)
    /\ Len(timers) \in 0..1
    /\ current_time \in 0..MaxTime

Init ==
    /\ pc = "log"
    /\ initial_state \in {[cap \in Cap |-> None]} \cup [Cap -> Value]
    /\ actions = <<>> /\ new_actions = <<>>
    /\ time_range = [start |-> 0, end |-> 0]
    /\ logged = 0 /\ index = 1 /\ tup = 1
    /\ timers = <<>> /\ fired = <<>>
    /\ current_time = 0

Loop == <<index, tup, timers, fired, new_actions, current_time>>
-----------------------------------------------------------------------------
StateAfter(list) == Effect(Last(list).pre, Last(list).action)

(* Trace.__init__ and addAction, for events in the order of time. An event *)
(* that changes nothing is left out, unless it is the first.               *)
AddAction(time, cap, value) ==
    /\ pc = "log" /\ logged < MaxEvents /\ time >= time_range.end
    /\ logged' = logged + 1
    /\ time_range' = [start |-> IF logged = 0 THEN time ELSE time_range.start, end |-> time]
    /\ LET pre == IF actions = <<>> THEN initial_state ELSE StateAfter(actions)
       IN  actions' = IF actions = <<>> \/ pre[cap] # value
                      THEN Append(actions, At(Set(time, cap, value), pre)) ELSE actions
    /\ UNCHANGED <<pc, initial_state, Loop>>

(* trunc_none: the trace begins where all values are known.                *)
TruncNone ==
    /\ pc = "log" /\ pc' = "sub"
    /\ LET known == {n \in DOMAIN actions : \A cap \in Cap : actions[n].pre[cap] # None}
       IN  IF known = {}
           THEN actions' = <<>> /\ UNCHANGED initial_state
           ELSE /\ actions' = SubSeq(actions, Min(known), Len(actions))
                /\ initial_state' = actions[Min(known)].pre
    /\ UNCHANGED <<time_range, logged, Loop>>

(* getSubTraceBasedOnCaps                                                  *)
SubTrace(caps) ==
    /\ pc = "sub" /\ pc' = "timing"
    /\ LET Masked(state) == [cap \in caps |-> state[cap]]
           left == Picked(actions, {n \in DOMAIN actions : actions[n].action.cap \in caps})
       IN  /\ initial_state' = Masked(initial_state)
           /\ actions' = [n \in DOMAIN left |-> At(left[n].action, Masked(left[n].pre))]
    /\ UNCHANGED <<time_range, logged, Loop>>
-----------------------------------------------------------------------------
(* enhanceTraceWithTiming: the events of each timer ...                    *)

(* Events are taken from the front as long as they are due. Slip: a timer  *)
(* that ends with the action has not ended before it.                      *)
DueLen(list, time) == Max({n \in 0..Len(list) : \A k \in 1..n : list[k].time <= time})
DueEarlier(list, time) == SubSeq(list, 1, DueLen(list, time - 1))
Due(list, time) == SubSeq(list, 1, DueLen(list, time))
NotDue(list, time) == SubSeq(list, DueLen(list, time) + 1, Len(list))

(* Slip: the timer of the last value goes on.                              *)
StoppedNot(list, cap) == list
Stopped(list, cap) == Picked(list, {n \in DOMAIN list : list[n].cap # cap})

TimeAction ==
    /\ pc = "timing" /\ tup <= Len(TimingTup) /\ index <= Len(actions)
    /\ LET a == actions[index].action
           cap == TimingTup[tup][1]
           span == TimingTup[tup][2]
           left == NotDue(timers, a.time)
       IN  /\ fired' = fired \o Due(timers, a.time)
           /\ timers' = IF a.cap = cap
                        THEN Append(Stopped(left, cap), Timer(a.time + span, cap, a.value, span))
                        ELSE left
    /\ index' = index + 1
    /\ UNCHANGED <<pc, initial_state, actions, time_range, logged, tup, new_actions, current_time>>

NextTup ==
    /\ pc = "timing" /\ tup <= Len(TimingTup) /\ index > Len(actions)
    /\ tup' = tup + 1 /\ index' = 1 /\ timers' = <<>>
    /\ UNCHANGED <<pc, initial_state, actions, time_range, logged, fired, new_actions, current_time>>

SortFired ==
    /\ pc = "timing" /\ tup > Len(TimingTup)
    /\ pc' = "merge" /\ fired' = ByTime(fired)
    /\ UNCHANGED <<initial_state, actions, time_range, logged, index, tup, timers,
                   new_actions, current_time>>

(* ... go before the first action that is not earlier.                     *)

(* Slip: they take the place of the action.                                *)
MergedInstead(due, a) == IF due = <<>> THEN <<a>> ELSE AllAt(due, a.pre)
Merged(due, a) == AllAt(due, a.pre) \o <<a>>

Merge ==
    /\ pc = "merge" /\ index <= Len(actions)
    /\ LET a == actions[index]
       IN  /\ new_actions' = new_actions \o Merged(Due(fired, a.action.time), a)
           /\ fired' = NotDue(fired, a.action.time)
    /\ index' = index + 1
    /\ UNCHANGED <<pc, initial_state, actions, time_range, logged, tup, timers, current_time>>

MergeEnds ==
    /\ pc = "merge" /\ index > Len(actions)
    /\ pc' = "clock" /\ actions' = new_actions /\ new_actions' = <<>>
    /\ index' = 1 /\ fired' = <<>> /\ current_time' = time_range.start
    /\ UNCHANGED <<initial_state, time_range, logged, tup, timers>>
-----------------------------------------------------------------------------
(* enhanceTraceWithClock                                                   *)

(* _countClockEvents: the loop goes on to the next day as long as the      *)
(* target is in [start_time, end_time).                                    *)
CountClockEvents(start_time, end_time) ==
    LET zero == start_time - (start_time % Day)
        Target(clock, days) == zero + clock + days * Day
    IN  {t \in start_time..(end_time - 1) : \E clock \in ClockList, days \in 0..MaxTime :
            /\ t = Target(clock, days)
            /\ \A d \in 0..days : Target(clock, d) \in start_time..(end_time - 1)}

ClockActions(start_time, end_time) ==
    LET times == Ordered(CountClockEvents(start_time, end_time))
    IN  [n \in DOMAIN times |-> Clock(times[n])]

AddClock ==
    /\ pc = "clock" /\ index <= Len(actions)
    /\ LET a == actions[index]
       IN  /\ new_actions' =
                 new_actions \o AllAt(ClockActions(current_time, a.action.time), a.pre) \o <<a>>
           /\ current_time' = a.action.time
    /\ index' = index + 1
    /\ UNCHANGED <<pc, initial_state, actions, time_range, logged, tup, timers, fired>>

(* The events after the last action, with its pre_condition. That variable *)
(* does not exist when there was no action, nor start_time when nothing    *)
(* was logged.                                                             *)
AddLastClock ==
    /\ pc = "clock" /\ index > Len(actions)
    /\ LET events == ClockActions(current_time, time_range.end)
       IN  IF logged = 0 \/ (actions = <<>> /\ events # <<>>)
           THEN pc' = "failed" /\ UNCHANGED <<actions, new_actions>>
           ELSE /\ pc' = "done" /\ new_actions' = <<>>
                /\ actions' = IF events = <<>> THEN new_actions
                              ELSE new_actions \o AllAt(events, Last(actions).pre)
    /\ index' = 1
    /\ UNCHANGED <<initial_state, time_range, logged, tup, timers, fired, current_time>>

Next ==
    \/ \E time \in 0..MaxTime, cap \in Cap, value \in Value : AddAction(time, cap, value)
    \/ TruncNone
    \/ \E caps \in SUBSET Cap \ {{}} : SubTrace(caps)
    \/ TimeAction \/ NextTup \/ SortFired \/ Merge \/ MergeEnds \/ AddClock \/ AddLastClock

Spec == Init /\ [][Next]_vars
-----------------------------------------------------------------------------
IsSet(e) == e.action.kind = "set"
Sets(list) == Picked(list, {n \in DOMAIN list : IsSet(list[n])})
LastSet(list) == Max({0} \cup {n \in DOMAIN list : IsSet(list[n])})

(* The pre-condition of every event is the state the events before it lead *)
(* to, through all the cutting and inserting; the clock events after the   *)
(* last action are the exception.                                          *)
PreConditionsChain ==
    \A n \in 1..LastSet(actions) :
       actions[n].pre = IF n = 1 THEN initial_state
                        ELSE Effect(actions[n - 1].pre, actions[n - 1].action)

(* Events are in the order of time.                                        *)
InOrder == \A n \in 2..Len(actions) : actions[n - 1].action.time <= actions[n].action.time

(* What is inserted leaves the events of the trace alone: none is lost,    *)
(* doubled, moved or changed.                                              *)
EventsKept ==
    [][(pc = "merge" \/ pc = "clock") => Sets(actions') = Sets(actions)]_vars

(* An event '5*cap=value' is in the trace exactly once for each time that  *)
(* cap has kept value for 5 seconds and the trace goes on until then.      *)
Fired == {n \in DOMAIN actions : actions[n].action.kind = "timer"}

KeptFor(S, n, span) ==
    /\ Last(S).action.time >= S[n].action.time + span
    /\ \A k \in (n + 1)..Len(S) :
          S[k].action.cap = S[n].action.cap => S[k].action.time >= S[n].action.time + span
Held ==
    LET S == Sets(actions)
        HeldBy(cap, span) ==
            {Timer(S[n].action.time + span, cap, S[n].action.value, span) :
                n \in {m \in DOMAIN S : S[m].action.cap = cap /\ KeptFor(S, m, span)}}
    IN  UNION {HeldBy(TimingTup[k][1], TimingTup[k][2]) : k \in DOMAIN TimingTup}
TimersFireWhenHeld ==
    pc \in {"clock", "done"} =>
       /\ {actions[n].action : n \in Fired} = Held
       /\ Cardinality(Fired) = Cardinality(Held)

(* A clock event is at its time of the day, in the range of the trace, and *)
(* there once, although the gaps between events are treated one by one. It *)
(* is missing only if the day has changed since the event before it, which *)
(* was at a later time of the day.                                         *)
ClockTimes == {actions[n].action.time : n \in {m \in DOMAIN actions : actions[m].action.kind = "clock"}}
GapStart(t) ==
    Max({time_range.start} \cup
        {s \in {actions[n].action.time : n \in {m \in DOMAIN actions :
                   actions[m].action.kind # "clock"}} : s <= t})
ClockEventsTrue ==
    /\ \A t \in ClockTimes : t % Day \in ClockList /\ t \in time_range.start..(time_range.end - 1)
    /\ Cardinality(ClockTimes) =
          Cardinality({n \in DOMAIN actions : actions[n].action.kind = "clock"})
    /\ pc = "done" =>
          \A t \in {t \in time_range.start..(time_range.end - 1) : t % Day \in ClockList} \ ClockTimes :
             t % Day < GapStart(t) % Day

(* The log can be replayed, and what is inserted is what happened.         *)
EnhancedTrue == PreConditionsChain /\ InOrder /\ TimersFireWhenHeld /\ ClockEventsTrue
=============================================================================
