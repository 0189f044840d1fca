------------------------------ MODULE TimeClips -------------------------------
(***************************************************************************)
(* The clips of an enhanced trace that the analysis views show and learn   *)
(* from (autotap/views.py): find_time_clips groups the times of the new    *)
(* actions of candidate rules, and generate_clip cuts a clip out of the    *)
(* trace for each group, or for a time that the user named                 *)
(* (autotap/util.py). The trace is the one Trace ends with; a view that    *)
(* does not care for clocks has one without their events.                  *)
(***************************************************************************)
EXTENDS Trace

CONSTANT Span   \* the span the views give to find_time_clips

ASSUME SpanAssumption == Span \in Nat \ {0}

VARIABLES
    view,        \* what the view does next
    time_list,   \* the sorted times to be covered
    n_seen,      \* how many of them have been looked at
    held,        \* holding_starting_time and current_time, or nothing
    time_clips,  \* the ranges [start, end) found
    episodes     \* the clips cut

clip_vars == <<view, time_list, n_seen, held, time_clips, episodes>>

ClipInit ==
    /\ Init
    /\ view = "trace"
    /\ time_list = <<>> /\ n_seen = 0 /\ held = <<>> /\ time_clips = <<>> /\ episodes = <<>>

Triggering == {n \in DOMAIN actions : actions[n].action.kind # "clock"}
Times == {actions[n].action.time : n \in Triggering}
-----------------------------------------------------------------------------
(* find_time_clips is called, with sorted times of events that make        *)
(* candidate rules run, and generate_clip for each range it finds ...      *)
FindTimeClips ==
    /\ view = "trace" /\ pc = "done"
    /\ \E times \in SUBSET Times : time_list' = Ordered(times)
    /\ view' = "find"
    /\ UNCHANGED <<vars, n_seen, held, time_clips, episodes>>

(* ... or generate_clip alone, with a range around an event or a time that *)
(* the user said, which can be anywhere.                                   *)
FindOneClip(start_time, end_time) ==
    /\ view = "trace" /\ pc = "done" /\ start_time < end_time
    /\ time_clips' = <<[start |-> start_time, end |-> end_time]>>
    /\ view' = "generate"
    /\ UNCHANGED <<vars, time_list, n_seen, held, episodes>>
-----------------------------------------------------------------------------
Apart(time, current) == time > current + Span

Closed(h) == [start |-> h.start, end |-> h.current + Span]
Holding(start, current) == <<[start |-> start, current |-> current]>>

LookAt(time) ==
    /\ view = "find" /\ n_seen < Len(time_list)
    /\ time = time_list[n_seen + 1] /\ n_seen' = n_seen + 1
    /\ UNCHANGED <<vars, view, time_list, episodes>>

FirstTime(time) ==
    /\ LookAt(time) /\ held = <<>>
    /\ held' = Holding(time - Span, time)
    /\ UNCHANGED time_clips

ExtendClip(time) ==
    /\ LookAt(time) /\ held # <<>> /\ ~ Apart(time, Head(held).current)
    /\ held' = Holding(Head(held).start, time)
    /\ UNCHANGED time_clips

NewClip(time) ==
    /\ LookAt(time) /\ held # <<>> /\ Apart(time, Head(held).current)
    /\ time_clips' = Append(time_clips, Closed(Head(held)))
    /\ held' = Holding(time - Span, time)

LastClip ==
    /\ view = "find" /\ n_seen = Len(time_list)
    /\ time_clips' = IF held = <<>> THEN time_clips ELSE Append(time_clips, Closed(Head(held)))
    /\ held' = <<>> /\ view' = "generate"
    /\ UNCHANGED <<vars, time_list, n_seen, episodes>>
-----------------------------------------------------------------------------
(* The state that the first k of a list of actions lead to.                *)
StateBy(state, list, k) ==
    [cap \in DOMAIN state |->
        LET writes == {n \in 1..k : list[n].kind = "set" /\ list[n].cap = cap}
        IN  IF writes = {} THEN state[cap] ELSE list[Max(writes)].value]

(* The constructor of Trace, which calls addAction for each action: an     *)
(* event that changes nothing is left out, unless it is the first.         *)
Built(state, list) ==
    LET timed == [n \in DOMAIN list |-> At(list[n], StateBy(state, list, n - 1))]
        Kept(n) == n = 1 \/ list[n].kind # "set" \/ timed[n].pre[list[n].cap] # list[n].value
    IN  Picked(timed, {n \in DOMAIN list : Kept(n)})

(* Slip: the end belongs to the clip.                                      *)
InClosed(clip, time) == time \in clip.start..clip.end
InClip(clip, time) == time \in clip.start..(clip.end - 1)

(* pre_condition of the first action in the clip or after it, or else what *)
(* the last action leads to.                                               *)
StateAt(clip) ==
    LET later == {n \in DOMAIN actions : actions[n].action.time >= clip.start}
    IN  IF later # {} THEN actions[Min(later)].pre
        ELSE IF actions # <<>> THEN StateAfter(actions)
        ELSE initial_state

GenerateClip(clip) ==
    LET inside == Picked(actions, {n \in DOMAIN actions : InClip(clip, actions[n].action.time)})
        state == StateAt(clip)
    IN  [start |-> clip.start, end |-> clip.end, state |-> state,
         actions |-> Built(state, [n \in DOMAIN inside |-> inside[n].action])]

Generate ==
    /\ view = "generate" /\ Len(episodes) < Len(time_clips)
    /\ episodes' = Append(episodes, GenerateClip(time_clips[Len(episodes) + 1]))
    /\ UNCHANGED <<vars, view, time_list, n_seen, held, time_clips>>

(* getSubTraceBasedOnCaps: the clip without the other capabilities         *)
OnlyCaps(clip, caps) ==
    LET Masked(state) == [cap \in caps |-> state[cap]]
        left == Picked(clip.actions, {n \in DOMAIN clip.actions : clip.actions[n].action.cap \in caps})
    IN  [clip EXCEPT !.state = Masked(@),
                     !.actions = [n \in DOMAIN left |-> At(left[n].action, Masked(left[n].pre))]]

(* The page for superusers: the trace as it was recorded is cut at the     *)
(* times that were asked for, and then to the capabilities.                *)
getepisode_manual(start_time, end_time, caps) ==
    /\ view = "trace" /\ pc = "sub" /\ start_time < end_time
    /\ view' = "manual"
    /\ time_clips' = <<[start |-> start_time, end |-> end_time]>>
    /\ episodes' = <<OnlyCaps(GenerateClip(Head(time_clips')), caps)>>
    /\ UNCHANGED <<vars, time_list, n_seen, held>>

ClipNext ==
    \/ view = "trace" /\ Next /\ UNCHANGED clip_vars
    \/ FindTimeClips \/ LastClip \/ Generate
    \/ \E start_time \in 0..MaxTime, end_time \in 1..(MaxTime + 1) :
          \/ FindOneClip(start_time, end_time)
          \/ \E caps \in SUBSET Cap \ {{}} : getepisode_manual(start_time, end_time, caps)
    \/ \E time \in Range(time_list) : FirstTime(time) \/ ExtendClip(time) \/ NewClip(time)

ClipSpec == ClipInit /\ [][ClipNext]_<<vars, clip_vars>>
-----------------------------------------------------------------------------
(* The variables have their types, also the trace that the clips are of.   *)
ClipTypeOK ==
    /\ TypeOK
    /\ view \in {"trace", "find", "generate", "manual"}
    /\ view # "trace" => pc = IF view = "manual" THEN "sub" ELSE "done"
    /\ n_seen \in 0..Len(time_list) /\ Range(time_list) \subseteq 0..MaxTime
    /\ Len(held) \in 0..1
    /\ \A k \in DOMAIN held : held[k].start < held[k].current
    /\ \A k \in DOMAIN time_clips : time_clips[k].start < time_clips[k].end
    /\ Len(episodes) \in 0..Len(time_clips)

(* Each time is in one of the ranges of find_time_clips and in one only,   *)
(* although ranges can overlap: the episodes shown for the candidate rules *)
(* neither miss a new action nor show it twice, and mask_ni is about the   *)
(* same actions as the episodes.                                           *)
CoveredOnce ==
    view = "generate" =>
       \A time \in Range(time_list) :
          Cardinality({k \in DOMAIN time_clips :
             time \in time_clips[k].start..(time_clips[k].end - 1)}) = 1

(* A clip has the events of the trace in its range, timers and clocks too, *)
(* all of them and in their order: the constructor, which leaves out the   *)
(* events that change nothing, leaves out none when it is given a clip.    *)
(* The views look for events in their clips with index, which raises an    *)
(* exception when there is none. The page for superusers has the events of *)
(* the capabilities that were asked for.                                   *)
ClipKeepsEvents ==
    \A k \in DOMAIN episodes :
       LET clip == episodes[k]
           Asked(a) == /\ clip.start <= a.time /\ a.time < clip.end
                       /\ a.kind = "set" => a.cap \in DOMAIN clip.state
       IN  [n \in DOMAIN clip.actions |-> clip.actions[n].action] =
           Picked([n \in DOMAIN actions |-> actions[n].action],
                  {n \in DOMAIN actions : Asked(actions[n].action)})

(* A clip begins in the state the trace is in at its start, whether events *)
(* are in the clip, after it or neither; except when it starts after the   *)
(* last event and clock events follow that event. Each event has the state *)
(* that the ones before it lead to, also if others were left out.          *)
TrueState(time) ==
    LET list == [n \in DOMAIN actions |-> actions[n].action]
    IN  StateBy(initial_state, list, Cardinality({n \in DOMAIN list : list[n].time < time}))
OnlyClocksFrom(time) ==
    /\ LastSet(actions) < Len(actions)
    /\ \A n \in 1..LastSet(actions) : actions[n].action.time < time
ClipStateTrue ==
    \A k \in DOMAIN episodes :
       LET clip == episodes[k]
           list == [n \in DOMAIN clip.actions |-> clip.actions[n].action]
           true == TrueState(clip.start)
       IN  /\ OnlyClocksFrom(clip.start) \/ clip.state = [cap \in DOMAIN clip.state |-> true[cap]]
           /\ \A n \in DOMAIN list : clip.actions[n].pre = StateBy(clip.state, list, n - 1)

(* The clips show each new action once, and what was recorded around it.   *)
ClipsTrue == CoveredOnce /\ ClipKeepsEvents /\ ClipStateTrue
=============================================================================
