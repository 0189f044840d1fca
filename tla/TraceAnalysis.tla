---------------------------- MODULE TraceAnalysis ----------------------------
(***************************************************************************)
(* What autotapta/analyze reads out of a recorded trace: the episodes in   *)
(* which the users did the target action themselves, the cases in which    *)
(* the rules fired and whether the users took them back, and the times at  *)
(* which other rules would have fired.                                     *)
(*                                                                         *)
(* A trace is a record [init, log, start, end]; an entry of its log is a   *)
(* record [t, kind, var, val, n, ext, pre] with the state before it in pre *)
(* (the code's parallel lists).  It is an event of the home (kind "event"; *)
(* ext tells a person's doing from a rule's), the note "var has been val   *)
(* for n" (kind "held", the code's "n*var=val") or n o'clock (kind         *)
(* "clock").  A rule (Tap) is [trigger, cond, action], and its trigger is  *)
(* one of the three without time and state.  Variables are Boolean.        *)
(***************************************************************************)
EXTENDS Integers, Sequences, FiniteSets, SequencesExt, FiniteSetsExt

CONSTANTS
    Fields,        \* the capabilities of the trace's system (getFieldNameList), a sequence
    Day,           \* length of a day
    RevertSpan     \* extractTriggerCases' revert_time_span

ASSUME TraceAnalysisAssumption ==
    Day \in Nat \ {0} /\ RevertSpan \in Nat /\ Len(Fields) > 0

Vars == ToSet(Fields)
NoTime == -1

Event(var, val) == [kind |-> "event", var |-> var, val |-> val, n |-> 0]
HeldFor(var, val, n) == [kind |-> "held", var |-> var, val |-> val, n |-> n]
AtClock(n) == [kind |-> "clock", var |-> "clock", val |-> TRUE, n |-> n]
What(e) == [kind |-> e.kind, var |-> e.var, val |-> e.val, n |-> e.n]
Entry(t, what, ext, pre) ==
    [t |-> t, kind |-> what.kind, var |-> what.var, val |-> what.val, n |-> what.n,
     ext |-> ext, pre |-> pre]

Indices(tr) == 1 .. Len(tr.log)
IsEvent(e, action) == e.kind = "event" /\ e.var = action.var /\ e.val = action.val
Opposite(action) == [action EXCEPT !.val = ~@]
Holds(statement, state) == state[statement.var] = statement.val
\* system.tapConditionSatisfied
CondHolds(tap, state) == \A i \in DOMAIN tap.cond : Holds(tap.cond[i], state)
\* checkEventAgainstTrigger, whose only comparator for Boolean variables is "="
Matches(what, trigger) == what = trigger

After(e) == IF e.kind = "event" THEN [e.pre EXCEPT ![e.var] = e.val] ELSE e.pre
\* Trace.getPostCondition
PostCondition(tr) == After(Last(tr.log))

\* A new Trace of these entries (addAction): each gets the state of its place, and an
\* event that is in force already is left out, unless it is the first entry.
Rebuilt(init, entries, start, end) ==
    LET add(log, e) ==
            LET pre == IF log = <<>> THEN init ELSE After(Last(log))
            IN  IF log # <<>> /\ e.kind = "event" /\ Holds(e, pre) THEN log
                ELSE Append(log, [e EXCEPT !.pre = pre])
    IN  [init |-> init, log |-> FoldLeft(add, <<>>, entries), start |-> start, end |-> end]

(***************************************************************************)
(* The trace enhanced with the notes and clock times that rules wait for   *)
(* (enhanceTraceWithTiming, enhanceTraceWithClock): what module Trace does *)
(* step by step.                                                           *)
(***************************************************************************)
Inserted(tr, new(_)) ==
    [tr EXCEPT !.log = FlattenSeq([i \in Indices(tr) |-> new(i) \o <<tr.log[i]>>])]

Ascending(times, first, last) ==
    SelectSeq([k \in 1 .. last - first + 1 |-> first + k - 1], LAMBDA t : t \in times)

\* A note is due n after entry j, and comes before the first entry i that is not earlier,
\* unless the variable has had another event since, even at the same instant.
WithTiming(tr, timings) ==
    LET log == tr.log
        of(e, var) == e.kind = "event" /\ e.var = var
        kept(i, j, n) == /\ log[j].kind = "event" /\ <<log[j].var, n>> \in timings
                         /\ log[i - 1].t < log[j].t + n /\ log[j].t + n <= log[i].t
                         /\ \A k \in j + 1 .. i - 1 : ~of(log[k], log[j].var)
        due(i) == {[what |-> HeldFor(log[j].var, log[j].val, n), t |-> log[j].t + n] :
                      <<j, n>> \in {x \in (1 .. i - 1) \X {y[2] : y \in timings} :
                                      kept(i, x[1], x[2])}}
        notes(i) == LET seq == SetToSortSeq(due(i), LAMBDA a, b : a.t < b.t)
                    IN  [k \in DOMAIN seq |-> Entry(seq[k].t, seq[k].what, log[i].ext, log[i].pre)]
    IN  Inserted(tr, notes)

WithClock(tr, clocks) ==
    LET from(i) == IF i = 1 THEN tr.start ELSE tr.log[i - 1].t
        times(from_t, to_t) == {t \in from_t .. to_t - 1 :
                                   \E n \in clocks : t % Day = n /\ n >= from_t % Day}
        entries(from_t, to_t, pre) ==
            LET seq == Ascending(times(from_t, to_t), from_t, to_t - 1)
            IN  [k \in DOMAIN seq |-> Entry(seq[k], AtClock(seq[k] % Day), TRUE, pre)]
        before(i) == entries(from(i), tr.log[i].t, tr.log[i].pre)
        \* the last ones are given the state before the last action
        last == Last(tr.log)
        inner == Inserted(tr, before)
    IN  [inner EXCEPT !.log = @ \o entries(last.t, tr.end, last.pre)]

(***************************************************************************)
(* Episodes                                                                *)
(***************************************************************************)
\* A manual change of the device to another value within span of time t.
TakenBack(tr, action, t, span) ==
    \E j \in Indices(tr) : /\ t <= tr.log[j].t /\ tr.log[j].t < t + span
                           /\ tr.log[j].ext /\ IsEvent(tr.log[j], Opposite(action))

\* extractTimePoints: options o are consider_automated, consider_reverted and
\* consider_all_target_dev.
TimePoints(tr, action, span, o) ==
    LET target(e) == /\ e.kind = "event" /\ e.var = action.var
                     /\ o.all \/ e.val = action.val
                     /\ e.ext \/ o.automated
        kept(e) == target(e) /\ (o.reverted \/ ~TakenBack(tr, action, e.t, span))
        points == SelectSeq(tr.log, kept)
    IN  [k \in DOMAIN points |-> points[k].t]

\* As it would be if overlapping windows stayed apart
WindowsApart(points, pre, post) ==
    [k \in DOMAIN points |-> [start |-> points[k] - pre, end |-> points[k] + post]]
\* mergeTimePoints: a window around every point, one for points whose windows overlap.
Windows(points, pre, post) ==
    LET firsts == {k \in DOMAIN points : k = 1 \/ points[k - 1] + post <= points[k] - pre}
        last(k) == Max({m \in k .. Len(points) : firsts \intersect k + 1 .. m = {}})
        window(k) == [start |-> points[k] - pre, end |-> points[last(k)] + post]
        starts == SelectSeq([k \in DOMAIN points |-> k], LAMBDA k : k \in firsts)
    IN  [w \in DOMAIN starts |-> window(starts[w])]

\* extractEpisodes: the entries strictly inside a window, and without o.reverted only
\* the episodes that end with the action in force.
Episodes(tr, action, pre, post, o) ==
    LET windows == Windows(TimePoints(tr, action, post, o), pre, post)
        episode(w) == LET log == SelectSeq(tr.log, LAMBDA e : w.start < e.t /\ e.t < w.end)
                      IN  Rebuilt(Head(log).pre, log, w.start, w.end)
        all == [k \in DOMAIN windows |-> episode(windows[k])]
    IN  SelectSeq(all, LAMBDA ep : o.reverted \/ Holds(action, PostCondition(ep)))

ForLearning == [automated |-> FALSE, reverted |-> FALSE, all |-> FALSE]
ForDevices == [automated |-> TRUE, reverted |-> FALSE, all |-> FALSE]
ForFeedback == [automated |-> TRUE, reverted |-> TRUE, all |-> TRUE]

\* generate_clip: the entries in [from, to), or the state there if there are none.
Clip(tr, from, to) ==
    LET inside == SelectSeq(tr.log, LAMBDA e : from <= e.t /\ e.t < to)
        later == SelectSeq(tr.log, LAMBDA e : from <= e.t)
        init == IF later # <<>> THEN Head(later).pre
                ELSE IF tr.log # <<>> THEN PostCondition(tr) ELSE tr.init
    IN  Rebuilt(init, inside, from, to)

(***************************************************************************)
(* Cases: when the rules fire                                              *)
(***************************************************************************)
\* testTimeInRange: the first time in (from, to] that is n o'clock.
ClockTimes(n, from, to) == {t \in from + 1 .. to : t % Day = n}

\* The clock rules that fire in (from, to] while the home is in state.
ClockFired(taps, from, to, state, forVis) ==
    {[t |-> Min(ClockTimes(taps[i].trigger.n, from, to)), event |-> taps[i].trigger] :
        i \in {i \in DOMAIN taps : /\ taps[i].trigger.kind = "clock"
                                   /\ ClockTimes(taps[i].trigger.n, from, to) # {}
                                   /\ CondHolds(taps[i], state)
                                   /\ forVis \/ ~Holds(taps[i].action, state)}}

\* The other rules that an entry fires; an event must change its trigger's value.
EventFired(taps, e, forVis) ==
    IF \E i \in DOMAIN taps : /\ taps[i].trigger.kind # "clock"
                              /\ Matches(What(e), taps[i].trigger)
                              /\ CondHolds(taps[i], e.pre)
                              /\ forVis \/ ~Holds(taps[i].action, e.pre)
                              /\ taps[i].trigger.kind = "held" \/ ~Holds(taps[i].trigger, e.pre)
    THEN <<[t |-> e.t, event |-> What(e)]>> ELSE <<>>

\* getTrigTimeEventCond: the cases [t, event, pre] of the trace, those of one entry in
\* order of time.  After the last entry the code looks for clock times in
\* (previous_time, time], where both are the time of that entry: it finds none.
Cases(tr, taps, forVis) ==
    LET from(i) == IF i > 1 THEN tr.log[i - 1].t
                   ELSE IF tr.start = NoTime THEN tr.log[1].t ELSE tr.start
        clocks(i) == LET fired == ClockFired(taps, from(i), tr.log[i].t, tr.log[i].pre, forVis)
                         times == Ascending({f.t : f \in fired}, from(i), tr.log[i].t)
                     IN  [k \in DOMAIN times |-> CHOOSE f \in fired : f.t = times[k]]
        batch(i) == LET seq == clocks(i) \o EventFired(taps, tr.log[i], forVis)
                    IN  [k \in DOMAIN seq |->
                            [t |-> seq[k].t, event |-> seq[k].event, pre |-> tr.log[i].pre]]
    IN  IF taps = <<>> THEN <<>> ELSE FlattenSeq([i \in Indices(tr) |-> batch(i)])

\* getTapListTriggerTime
TriggerTimes(tr, taps, forVis) == {c.t : c \in ToSet(Cases(tr, taps, forVis))}

\* The rules' own doing of the action within span of a case.
Actuations(tr, c, action, span) ==
    {j \in Indices(tr) : /\ c.t <= tr.log[j].t /\ tr.log[j].t < c.t + span
                         /\ ~tr.log[j].ext /\ IsEvent(tr.log[j], action)}
ActuatedAt(tr, c, action, span) == tr.log[Min(Actuations(tr, c, action, span))].t

\* extractTriggerCases' revert_list: the action never came, or was taken back.
Reverts(tr, cases, action, span) ==
    [k \in DOMAIN cases |->
        \/ Actuations(tr, cases[k], action, span) = {}
        \/ TakenBack(tr, action, ActuatedAt(tr, cases[k], action, span), RevertSpan)]

\* extractRevertCases: the rules' own doing of the action, once for every manual change of
\* the device that follows within RevertSpan.
RevertCases(tr, action) ==
    LET back(t) == {j \in Indices(tr) : /\ t <= tr.log[j].t /\ tr.log[j].t < t + RevertSpan
                                        /\ tr.log[j].ext /\ IsEvent(tr.log[j], Opposite(action))}
        own == SelectSeq(tr.log, LAMBDA e : IsEvent(e, action) /\ ~e.ext)
    IN  FlattenSeq([k \in DOMAIN own |->
                       [x \in 1 .. Cardinality(back(own[k].t)) |-> own[k].t]])

\* extractTriggerCasesAlt: taken back where the users say they wanted the opposite.
RevertsAlt(tr, cases, action, times, span, revertSpan) ==
    [k \in DOMAIN cases |->
        \/ Actuations(tr, cases[k], action, span) = {}
        \/ LET at == ActuatedAt(tr, cases[k], action, span)
           IN  \E t \in times : at <= t /\ t < at + revertSpan]

\* extractUnactuatedCases
Unactuated(tr, action, taps, span) ==
    SelectSeq(Cases(tr, taps, FALSE), LAMBDA c : Actuations(tr, c, action, span) = {})

\* checkIfEpisodeCovered: would the rules do the action in the episode, where the users do
\* everything but the action themselves?  What rules did to other devices is left out.
EpisodeCovered(ep, taps, action) ==
    LET from(i) == IF i = 1 THEN ep.start ELSE ep.log[i - 1].t
        timePasses(i, to, s) ==
            \E k \in DOMAIN taps : /\ taps[k].trigger.kind = "clock" /\ CondHolds(taps[k], s)
                                  /\ ClockTimes(taps[k].trigger.n, from(i), to) # {}
        fires(e, s) == \E k \in DOMAIN taps : What(e) = taps[k].trigger /\ CondHolds(taps[k], s)
        seen(e, s) == IF e.kind = "event" /\ e.ext /\ ~IsEvent(e, action)
                      THEN [s EXCEPT ![e.var] = e.val] ELSE s
        acted(s, fired) == IF fired THEN [s EXCEPT ![action.var] = action.val] ELSE s
        state[i \in 0 .. Len(ep.log)] ==
            IF i = 0 THEN ep.init
            ELSE LET e == ep.log[i]
                     s == state[i - 1]
                 IN  acted(seen(e, s), timePasses(i, e.t, s) \/ fires(e, s))
        last == state[Len(ep.log)]
    IN  Holds(action, acted(last, timePasses(Len(ep.log) + 1, ep.end, last)))

\* One half of extractTriggeringEvent: for the entries refs (pairs of an episode and an
\* index) the entries within span before them that fire a rule, once for each rule.
TriggeringEvents(episodes, refs, taps, span) ==
    LET fires(e, tap) == /\ CondHolds(tap, e.pre) /\ Matches(What(e), tap.trigger)
                         /\ tap.trigger.kind # "event" \/ ~Holds(tap.trigger, e.pre)
        near(e, t) == t - span < e.t /\ e.t <= t
        once(e) == [t |-> e.t, event |-> What(e), pre |-> e.pre]
        events(ep, t) ==
            FlattenSeq([j \in Indices(ep) |->
                IF ~near(ep.log[j], t) THEN <<>>
                ELSE [x \in 1 .. Cardinality({i \in DOMAIN taps : fires(ep.log[j], taps[i])}) |->
                        once(ep.log[j])]])
        inEpisode(k) == FlattenSeq([i \in Indices(episodes[k]) |->
                            IF <<k, i>> \in refs THEN events(episodes[k], episodes[k].log[i].t)
                            ELSE <<>>])
    IN  FlattenSeq([k \in DOMAIN episodes |-> inEpisode(k)])

=============================================================================
