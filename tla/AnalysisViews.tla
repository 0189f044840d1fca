---------------------------- MODULE AnalysisViews ----------------------------
(***************************************************************************)
(* The views of iot-tap-backend/autotap/views.py that turn a location's    *)
(* trace and rules into pages, feedback into patches and patches into      *)
(* visualisations.  What one request leaves for a later one is in Django's *)
(* cache, under a random token that the answer carries: an entry lasts     *)
(* half an hour and is read and written whole, while the rules are read    *)
(* from the database by every request, and some requests read both.        *)
(* Each request runs in a thread of its own; a step of this module is what *)
(* a request does between two reads or writes of what requests share.      *)
(***************************************************************************)
EXTENDS Synthesis

CONSTANTS
    Target,          \* the action to automate, a statement
    External,        \* capabilities of sensors, the ones a new condition may name
    Scenes,          \* traces and lists of rules (taps) to begin with
    Related,         \* choices of listTimingCandidates, listRelatedCandidates, ...
    NewTaps,         \* rules that users save
    FnTimes,         \* times that users want the action at
    Modes,           \* kinds of interface to check
    Requests, MaxIncidents, PointedEpisode,
    Pre, Post, VisPost, Span, RevertAlt, VisSpan, Rate

ASSUME AnalysisAssumption ==
    /\ Target.var \in Vars \ External /\ External \subseteq Vars
    /\ Requests \subseteq Nat \ {0}
    /\ {Pre, Post, VisPost, Span, RevertAlt, VisSpan, MaxIncidents} \subseteq Nat
    /\ Modes \subseteq {"nf", "nn", "sn", "debug", "devices"}
    /\ DOMAIN Rate = {"fn", "revert", "remaining"}

VARIABLES
    mode,        \* the user's mode
    history,     \* the location's trace, which the cache keeps without time limit
    related,     \* what the correlations with the target make of it
    rules,       \* the rules of the location in order of id
    edits,       \* how many rules users added, and how often they changed or deleted one
    expiries,    \* how many entries' time was over
    cache,       \* token -> entry
    requests,    \* request -> what its thread holds
    answers      \* request -> the response

given == <<mode, history, related>>
vars == <<mode, history, related, rules, edits, expiries, cache, requests, answers>>

Page == 0                         \* the token of the feedback or debug page
Tokens == {Page} \union Requests  \* ... and of every request's visualisation
Missing == [kind |-> "missing"]
Idle == [step |-> "idle"]
NoAnswer == [status |-> 0]
Failed == [status |-> 500]
NoFeedback == [fn |-> "none"]

For(taps, action) == SelectSeq(taps, LAMBDA tap : tap.action = action)

\* get_time_information_from_taps, get_all_caps_in_taps with only_cond
TimingsOf(taps) ==
    {<<taps[i].trigger.var, taps[i].trigger.n>> :
        i \in {i \in DOMAIN taps : taps[i].trigger.kind = "held"}}
ClocksOf(taps) ==
    {taps[i].trigger.n : i \in {i \in DOMAIN taps : taps[i].trigger.kind = "clock"}}
CondVarsOf(taps) == {taps[x[1]].cond[x[2]].var : x \in ConditionsOf(taps)}

Enhanced(taps) == WithClock(WithTiming(history, TimingsOf(taps)), ClocksOf(taps))

\* extractTriggerCases
RevertsIn(t, taps) == Reverts(t, Cases(t, taps, FALSE), Target, Span)
Mixed(reverts) == {reverts[k] : k \in DOMAIN reverts} = BOOLEAN

\* The candidates of getepisode_feedback and of the helpers for nn and sn
\* (listRelatedRevCandidates: none where all cases were taken back, or none).
Candidates(taps) ==
    [trig |-> related.trig, timings |-> related.timings,
     cond |-> related.cond \union CondVarsOf(taps)
              \union IF Mixed(RevertsIn(history, taps)) THEN related.rev ELSE {}]

Init ==
    /\ mode \in Modes /\ related \in Related
    /\ \E scene \in Scenes :
          /\ history = scene.trace
          /\ rules = scene.taps
    /\ edits = [added |-> 0, changed |-> 0] /\ expiries = 0
    /\ cache = [token \in Tokens |-> Missing]
    /\ requests = [r \in Requests |-> Idle]
    /\ answers = [r \in Requests |-> NoAnswer]

\* Requests are numbered in the order in which they come.
Fresh(r) == /\ requests[r] = Idle /\ answers[r] = NoAnswer
            /\ \A q \in Requests : q < r => requests[q] # Idle \/ answers[q] # NoAnswer

-----------------------------------------------------------------------------
(***************************************************************************)
(* Users change the rules (fe_create_esrule, fe_delete_rule); the cache    *)
(* drops an entry whose time is over.                                      *)
(***************************************************************************)
Incidents == edits.added + edits.changed + expiries
SaveRule(tap) ==
    /\ Incidents < MaxIncidents
    /\ \/ /\ rules' = Append(rules, tap)
          /\ edits' = [edits EXCEPT !.added = @ + 1]
       \/ /\ \E k \in DOMAIN rules : rules' = [rules EXCEPT ![k] = tap]
          /\ edits' = [edits EXCEPT !.changed = @ + 1]
    /\ UNCHANGED <<given, expiries, cache, requests, answers>>

DeleteRule(k) ==
    /\ Incidents < MaxIncidents
    /\ edits' = [edits EXCEPT !.changed = @ + 1]
    /\ rules' = RemoveAt(rules, k)
    /\ UNCHANGED <<given, expiries, cache, requests, answers>>

Expire(token) ==
    /\ cache[token] # Missing /\ Incidents < MaxIncidents
    /\ expiries' = expiries + 1
    /\ cache' = [cache EXCEPT ![token] = Missing]
    /\ UNCHANGED <<given, rules, edits, requests, answers>>

-----------------------------------------------------------------------------
(***************************************************************************)
(* The feedback page (getepisode_feedback)                                 *)
(***************************************************************************)
\* translate_time_clip_helper's reference_dict: what users can point at, the rules' own
\* changes of the target device and the rules' actions that never came.
References(episodes, unactuated) ==
    UNION {{[ep |-> k, auto |-> TRUE, at |-> i] :
               i \in {i \in Indices(episodes[k]) :
                         LET e == episodes[k].log[i]
                         IN  e.kind = "event" /\ e.var = Target.var /\ ~e.ext}}
           \union {[ep |-> k, auto |-> FALSE, at |-> u] : u \in DOMAIN unactuated[k]} :
              k \in DOMAIN episodes}

OpenPage ==
    LET taps == For(rules, Target)
        t == Enhanced(taps)
        episodes == Episodes(t, Target, Pre, VisPost, ForFeedback)
        unactuated == [k \in DOMAIN episodes |-> Unactuated(episodes[k], Target, taps, Span)]
    IN  /\ mode = "nf" /\ cache[Page] = Missing
        /\ \A r \in Requests : requests[r] = Idle
        /\ cache' = [cache EXCEPT ![Page] =
               [kind |-> "page", taps |-> taps, full |-> rules, cands |-> Candidates(taps),
                trace |-> t, episodes |-> episodes, unactuated |-> unactuated,
                references |-> References(episodes, unactuated), feedback |-> NoFeedback,
                asof |-> edits]]
        /\ UNCHANGED <<given, rules, edits, expiries, requests, answers>>

(***************************************************************************)
(* send_feedback: every request reads the rules first, for its answer.     *)
(***************************************************************************)
\* Feedback of users: everything the page shows was wrong, or what it shows in
\* PointedEpisode was and they wanted the action at the times FnTimes.
Feedbacks ==
    LET refs == cache[Page].references
    IN  IF cache[Page].kind # "page" THEN {<<<<>>, {}>>}
        ELSE {<<<<>>, refs>>, <<FnTimes, {x \in refs : x.ep = PointedEpisode}>>}

\* As it would be without looking at the actions
ShownAll(alt) == rules
\* The rules in the answer, orig_rules
Shown(alt) == For(rules, IF alt THEN Opposite(Target) ELSE Target)

Send(r, alt, fb) ==
    /\ mode \in {"nf", "nn", "sn"} /\ Fresh(r)
    /\ mode = "nf" => cache[Page] # Missing
    /\ alt => mode = "nf"
    /\ requests' = [requests EXCEPT ![r] =
           [step |-> "rules read", alt |-> alt,
            feedback |-> [fn |-> fb[1], fp |-> fb[2]],
            shown |-> Shown(alt), asof |-> edits]]
    /\ UNCHANGED <<given, rules, edits, expiries, cache, answers>>

\* The patches for what a helper has gathered (the rest of send_feedback).
Patches(info) ==
    ChangedConditions(info.episodes, info.cases, info.reverts, info.taps, info.cands.cond,
                      info.allowed, info.action, Rate)
    \union IF info.synFeedback THEN {}
           ELSE AddedRules(info.episodes, info.cases, info.taps, info.cands.trig,
                           info.cands.timings, info.cands.cond, info.action, Rate)

\* What is cached for the visualisation, with the patches' scores, and the answer
Scored(info, patches, existing) ==
    [kind |-> "vis", info |-> info, existing |-> existing,
     patches |-> {[patch |-> x.patch, mask |-> x.mask,
                   meta |-> Meta(info.trace, Apply(info.taps, x.patch), x.mask, info.reverts,
                                 info.episodes, existing)] : x \in patches}]
Vis(info) == Scored(info, Patches(info), TriggerTimes(info.trace, info.taps, TRUE))
Answer(read, patches) ==
    [status |-> 200, shown |-> read.shown, asof |-> read.asof,
     patches |-> {x.patch : x \in patches}]

Fail(r) ==
    /\ answers' = [answers EXCEPT ![r] = Failed]
    /\ requests' = [requests EXCEPT ![r] = Idle]
    /\ UNCHANGED <<given, rules, edits, expiries, cache>>

\* As it would be with the page's token for the visualisation
RespondUnderPage(r) ==
    /\ requests[r].step = "gathered"
    /\ cache' = [cache EXCEPT ![Page] = Vis(requests[r].info)]
    /\ answers' = [answers EXCEPT ![r] = Answer(requests[r], cache'[Page].patches)]
    /\ requests' = [requests EXCEPT ![r] = Idle]
    /\ UNCHANGED <<given, rules, edits, expiries>>
\* patch_to_frontend_view of a suggested rule "held for n" looks for a clock by its
\* location, a column that devices have not: FieldError.
Unshowable(x) == x.patch.mode = "add-rule" /\ x.patch.tap.trigger.kind = "held"

Respond(r) ==
    /\ requests[r].step = "gathered"
    /\ \E vis \in {Vis(requests[r].info)} :
          IF \E x \in vis.patches : Unshowable(x) THEN Fail(r)
          ELSE /\ cache' = [cache EXCEPT ![r] = vis]
               /\ answers' = [answers EXCEPT ![r] = Answer(requests[r], vis.patches)]
               /\ requests' = [requests EXCEPT ![r] = Idle]
               /\ UNCHANGED <<given, rules, edits, expiries>>

\* A helper returns what it has gathered.
Gather(r, info) ==
    requests' = [requests EXCEPT ![r] = [step |-> "gathered", info |-> info] @@ @]

\* The helpers for nn and sn read the rules again.
Again(taps, allowed, synFeedback) ==
    LET t == Enhanced(taps)
    IN  [asof |-> edits, trace |-> t, taps |-> taps, action |-> Target,
         cands |-> Candidates(taps),
         episodes |-> Episodes(t, Target, Pre, Post, ForLearning),
         cases |-> Cases(t, taps, FALSE), reverts |-> RevertsIn(t, taps),
         allowed |-> allowed, synFeedback |-> synFeedback]

\* send_feedback_nn_helper
ReadAgain(r) ==
    LET taps == For(rules, Target)
    IN  /\ mode = "nn" /\ requests[r].step = "rules read"
        /\ Gather(r, Again(taps, DOMAIN taps, FALSE))
        /\ UNCHANGED <<given, rules, edits, expiries, cache, answers>>

\* send_feedback_sn_helper, with the rules that users allow to change.  It calls
\* listRelatedRevCandidates without the target, which shows where there are mixed cases
\* and a capability left over.
ReadForSyntax(r, allowed) ==
    LET taps == For(rules, Target)
        wrongCall == Mixed(RevertsIn(history, taps)) /\ External \ related.cond # {}
        noSuchRule(info) == ~allowed \subseteq DOMAIN taps /\ info.cases \o info.episodes # <<>>
    IN  /\ mode = "sn" /\ requests[r].step = "rules read"
        /\ allowed \subseteq DOMAIN requests[r].shown
        /\ \E info \in {Again(taps, allowed, TRUE)} :
              IF wrongCall \/ noSuchRule(info) THEN Fail(r)
              ELSE /\ Gather(r, info)
                   /\ UNCHANGED <<given, rules, edits, expiries, cache, answers>>

\* The clips around the times of feedback
FeedbackClips(t, times) ==
    [k \in DOMAIN times |-> Clip(t, times[k] - Pre, times[k] + Post)]

\* send_feedback_nf_helper up to cache.set
GetPage(r) ==
    /\ mode = "nf" /\ requests[r].step = "rules read" /\ ~requests[r].alt
    /\ IF cache[Page] = Missing THEN Fail(r)
       ELSE /\ requests' = [requests EXCEPT ![r] =
                   [step |-> "page read", page |-> cache[Page]] @@ requests[r]]
            /\ UNCHANGED <<given, rules, edits, expiries, cache, answers>>

\* ... and the rest of it
SetPage(r) ==
    LET page == requests[r].page
        fb == requests[r].feedback
        autos(refs) == {<<x.ep, x.at>> : x \in {x \in refs : x.auto}}
        fired(refs) == TriggeringEvents(page.episodes, autos(refs), page.taps, Span)
        absent(refs) == FlattenSeq([k \in DOMAIN page.episodes |->
                            LET in(u) == [ep |-> k, auto |-> FALSE, at |-> u] \in refs
                                us == SelectSeq([u \in DOMAIN page.unactuated[k] |-> u], in)
                            IN  [x \in DOMAIN us |-> page.unactuated[k][us[x]]]])
        others == page.references \ fb.fp
        marked(cases, bit) == [k \in DOMAIN cases |-> bit]
        info == [asof |-> page.asof, trace |-> page.trace, taps |-> page.taps, action |-> Target,
                 cands |-> page.cands, episodes |-> FeedbackClips(page.trace, fb.fn),
                 cases |-> fired(fb.fp) \o fired(others) \o absent(fb.fp) \o absent(others),
                 reverts |-> marked(fired(fb.fp), TRUE) \o marked(fired(others), FALSE)
                             \o marked(absent(fb.fp), TRUE) \o marked(absent(others), FALSE),
                 allowed |-> DOMAIN page.taps, synFeedback |-> FALSE]
    IN  /\ mode = "nf" /\ requests[r].step = "page read"
        /\ cache' = [cache EXCEPT ![Page] = [page EXCEPT !.feedback = fb]]
        /\ Gather(r, info)
        /\ UNCHANGED <<given, rules, edits, expiries, answers>>

\* send_feedback_nf_alt_helper: the last feedback read for the opposite action.  Without an
\* entry, or without feedback in it, the view raises; action_id > 0 drops what points to
\* the first entry of an episode.
Alternative(r) ==
    LET page == cache[Page]
        fb == page.feedback
        action == Opposite(Target)
        taps == For(page.full, action)
        cases == Cases(page.trace, taps, FALSE)
        refs == SetToSeq({x \in fb.fp : x.auto /\ x.at > 1})
        times == [k \in DOMAIN refs |-> page.episodes[refs[k].ep].log[refs[k].at].t]
        info == [asof |-> page.asof, trace |-> page.trace, taps |-> taps, action |-> action,
                 cands |-> page.cands,
                 episodes |-> FeedbackClips(page.trace, times), cases |-> cases,
                 reverts |-> RevertsAlt(page.trace, cases, action, ToSet(fb.fn), Span, RevertAlt),
                 allowed |-> DOMAIN taps, synFeedback |-> FALSE]
        \* getConstraintsForModifying looks for every condition among the page's capabilities
        unknown == ~CondVarsOf(taps) \subseteq page.cands.cond
                   /\ (cases # <<>> \/ info.episodes # <<>>)
    IN  /\ mode = "nf" /\ requests[r].step = "rules read" /\ requests[r].alt
        /\ IF page = Missing \/ page.feedback = NoFeedback \/ unknown THEN Fail(r)
           ELSE /\ Gather(r, info)
                /\ UNCHANGED <<given, rules, edits, expiries, cache, answers>>

-----------------------------------------------------------------------------
(***************************************************************************)
(* The visualisation of an answer (getepisode): a raised exception where   *)
(* the entry is gone or the trace has no entry for a case.                 *)
(***************************************************************************)
\* As it would be with an open range
EventFoundLater(t, c) ==
    \E j \in Indices(t) : /\ c.t < t.log[j].t /\ t.log[j].t < c.t + VisSpan
                          /\ t.log[j].t = c.t /\ What(t.log[j]) = c.event
EventFound(t, c) ==
    \E j \in Indices(t) : /\ c.t - VisSpan <= t.log[j].t /\ t.log[j].t < c.t + VisSpan
                          /\ t.log[j].t = c.t /\ What(t.log[j]) = c.event

\* mask_tec: 1 for a case taken back that fires no more, 2 for another that does not
TecClass(preserved, reverted) == IF preserved THEN 0 ELSE IF reverted THEN 1 ELSE 2

GetEpisode(r) ==
    LET vis == cache[r]
        info == vis.info
        shown(x) == [patch |-> x.patch, new |-> x.meta.outside_fn,
                     fn |-> SubSeq(x.mask, Len(info.reverts) + 1, Len(x.mask)),
                     tec |-> [k \in DOMAIN info.reverts |-> TecClass(x.mask[k], info.reverts[k])]]
    IN  /\ answers[r].status = 200 /\ "seen" \notin DOMAIN answers[r]
        /\ answers' = [answers EXCEPT ![r] = @ @@
               [seen |-> IF vis = Missing THEN Failed
                         ELSE IF \E k \in DOMAIN info.cases : ~EventFound(info.trace, info.cases[k])
                         THEN Failed
                         ELSE [status |-> 200, patches |-> {shown(x) : x \in vis.patches}]]]
        /\ UNCHANGED <<given, rules, edits, expiries, cache, requests>>

-----------------------------------------------------------------------------
(***************************************************************************)
(* The debug page (suggestdebug, getepisode_debug).  An exception leaves   *)
(* the cache as it was: rule_dev_cap_list has no value where no case was   *)
(* taken back, a condition on what is not external is not found, a patch   *)
(* that changes no case divides by zero, and a changed rule with a trigger *)
(* "held for n" cannot be shown (see Unshowable).                          *)
(***************************************************************************)
DebugMask(taps, cases, p) == NoLongerFire(cases, PatchedForDebug(taps, p))
Suggests(taps, cases, reverts) ==
    /\ \E k \in DOMAIN reverts : reverts[k]
    /\ CondVarsOf(taps) \subseteq External
    /\ \A p \in DebugPatches(cases, reverts, taps, 50) :
          /\ p.mode = "modify-condition" /\ Count(DebugMask(taps, cases, p)) > 0
          /\ taps[p.rule].trigger.kind # "held"
Suggestions(taps, cases, reverts) ==
    {[patch |-> p, mask |-> DebugMask(taps, cases, p)] : p \in DebugPatches(cases, reverts, taps, 50)}

\* suggest_debug_first_time
DebugFirst ==
    LET taps == For(rules, Target)
        t == WithTiming(history, TimingsOf(taps))
        cases == Cases(t, taps, FALSE)
        reverts == RevertsIn(t, taps)
    IN  /\ mode = "debug" /\ cache[Page] = Missing
        /\ \A r \in Requests : requests[r] = Idle
        /\ Suggests(taps, cases, reverts)
        /\ cache' = [cache EXCEPT ![Page] =
               [kind |-> "debug", trace |-> t, taps |-> taps, cases |-> cases, reverts |-> reverts,
                of |-> taps, patches |-> Suggestions(taps, cases, reverts)]]
        /\ UNCHANGED <<given, rules, edits, expiries, requests, answers>>

\* suggest_debug_follow_up with the rules the browser shows, up to cache.get ...
DebugFollowUp(r) ==
    /\ mode = "debug" /\ Fresh(r)
    /\ cache[Page] # Missing
    /\ \E taps \in {cache[Page].taps} \union
                    {ModifiedTaps(cache[Page].taps, x.patch) : x \in cache[Page].patches} :
          requests' = [requests EXCEPT ![r] =
              [step |-> "debug read", page |-> cache[Page], taps |-> taps]]
    /\ UNCHANGED <<given, rules, edits, expiries, cache, answers>>

\* ... and the rest: the entry gets the new cases and masks, and keeps its revert_list.
DebugSet(r) ==
    LET page == requests[r].page
        taps == requests[r].taps
        cases == Cases(page.trace, taps, FALSE)
        reverts == RevertsIn(page.trace, taps)
    IN  /\ requests[r].step = "debug read"
        /\ IF ~Suggests(taps, cases, reverts) THEN Fail(r)
           ELSE /\ cache' = [cache EXCEPT ![Page] =
                       [page EXCEPT !.cases = cases, !.of = taps,
                                    !.patches = Suggestions(taps, cases, reverts)]]
                /\ answers' = [answers EXCEPT ![r] =
                       [status |-> 200, patches |-> {x.patch : x \in cache'[Page].patches}]]
                /\ requests' = [requests EXCEPT ![r] = Idle]
                /\ UNCHANGED <<given, rules, edits, expiries>>

\* getepisode_debug: the cases in two lists, each with the patches' bits for it
DebugEpisode(r) ==
    LET page == cache[Page]
        bits(k) == {<<x.patch, x.mask[k]>> : x \in page.patches}
        part(b) == {[case |-> page.cases[k], bits |-> bits(k)] :
                       k \in {k \in DOMAIN page.cases : page.reverts[k] = b}}
        complete == /\ Len(page.cases) <= Len(page.reverts)
                    /\ \A k \in DOMAIN page.cases : EventFound(page.trace, page.cases[k])
    IN  /\ mode = "debug" /\ requests[r] = Idle /\ answers[r].status = 200
        /\ "seen" \notin DOMAIN answers[r]
        /\ answers' = [answers EXCEPT ![r] = @ @@
               [seen |-> IF page = Missing \/ ~complete THEN Failed
                         ELSE [status |-> 200, positive |-> part(TRUE), negative |-> part(FALSE)]]]
        /\ UNCHANGED <<given, rules, edits, expiries, cache, requests>>

-----------------------------------------------------------------------------
(***************************************************************************)
(* The devices' page, on which users choose the action to automate: how    *)
(* often each command came, in how many of these episodes the rules would  *)
(* have given it, and how often it was taken back (get_dev_commands).      *)
(***************************************************************************)
Commands == {Statement(v, b) : v \in Vars \ External, b \in BOOLEAN}

get_dev_commands(t, command, plain) ==
    LET taps == For(rules, command)
        episodes == Episodes(t, command, Pre, Post, ForDevices)
        reverts == Reverts(t, Cases(t, taps, FALSE), command, Span)
    IN  [count |-> Len(episodes),
         covered |-> Cardinality({k \in DOMAIN episodes : EpisodeCovered(episodes[k], taps, command)}),
         reverted |-> IF plain THEN Len(RevertCases(t, command)) ELSE Count(reverts)]

fe_get_devices(r, plain) ==
    LET t == WithTiming(history, TimingsOf(rules))
    IN  /\ mode = "devices" /\ Fresh(r)
        /\ answers' = [answers EXCEPT ![r] =
               [status |-> 200, plain |-> plain, taps |-> rules, trace |-> t,
                commands |-> [command \in Commands |-> get_dev_commands(t, command, plain)]]]
        /\ UNCHANGED <<given, rules, edits, expiries, cache, requests>>

-----------------------------------------------------------------------------
Next ==
    \/ \E tap \in NewTaps : SaveRule(tap)
    \/ \E k \in DOMAIN rules : DeleteRule(k)
    \/ \E token \in Tokens : Expire(token)
    \/ OpenPage
    \/ DebugFirst
    \/ \E r \in Requests :
          \/ \E alt \in BOOLEAN, fb \in Feedbacks : Send(r, alt, fb)
          \/ ReadAgain(r)
          \/ \E allowed \in SUBSET {1, 2} : ReadForSyntax(r, allowed)
          \/ GetPage(r) \/ SetPage(r) \/ Alternative(r)
          \/ Respond(r)
          \/ mode \in {"nf", "nn", "sn"} /\ GetEpisode(r)
          \/ \E plain \in BOOLEAN : fe_get_devices(r, plain)
          \/ DebugFollowUp(r) \/ DebugSet(r) \/ DebugEpisode(r)

Spec == Init /\ [][Next]_vars

-----------------------------------------------------------------------------
(***************************************************************************)
(* Properties                                                              *)
(***************************************************************************)
\* Types: what is cached under a token is an entry of the kind the views look for there,
\* and the mask of a patch has one bit for each case and episode.
AnalysisTypeOK ==
    /\ mode \in Modes /\ Incidents <= MaxIncidents
    /\ cache[Page].kind \in {"missing", IF mode = "debug" THEN "debug" ELSE "page"}
    /\ \A r \in Requests :
          \/ cache[r].kind = "missing"
          \/ /\ cache[r].kind = "vis"
             /\ \A x \in cache[r].patches :
                   Len(x.mask) = Len(cache[r].info.cases) + Len(cache[r].info.episodes)
    /\ \A k \in DOMAIN rules : rules[k].cond \in Seq([var : Vars, val : BOOLEAN])
    /\ \A r \in Requests : answers[r].status \in {0, 200, 500}

Visualisations == {cache[r] : r \in {r \in Requests : cache[r] # Missing}}
Changes(vis) == {x \in vis.patches : x.patch.mode # "add-rule"}
Fires(taps, c) ==
    \E i \in DOMAIN taps : /\ Matches(c.event, taps[i].trigger) /\ CondHolds(taps[i], c.pre)
                           /\ c.event.kind = "event" => ~Holds(taps[i].trigger, c.pre)

\* Patches name rules by their place in the list the views worked with, the browser looks
\* them up in the list that came with the answer.  They are the same if nobody edits rules
\* between the two reads; if users add rules meanwhile, a place in both is still the same
\* rule's, because a new rule comes after those that are there.
PatchesPointToRules ==
    \A r \in Requests :
        answers[r].status = 200 /\ cache[r] # Missing =>
            LET shown == answers[r].shown
                worked == cache[r].info.taps
                then == cache[r].info.asof
            IN  /\ answers[r].asof = then => shown = worked
                /\ answers[r].asof.changed = then.changed =>
                      IsPrefix(shown, worked) \/ IsPrefix(worked, shown)

\* The solver's mask says of every case what the patched rules do: it is TRUE just where
\* they still fire.
MasksDescribeCases ==
    \A vis \in Visualisations : \A x \in vis.patches : \A k \in DOMAIN vis.info.cases :
        x.mask[k] <=> Fires(Apply(vis.info.taps, x.patch), vis.info.cases[k])

\* A changed condition is offered only if, by its mask, it stops a case that was taken
\* back or automates an episode.
ChangesHelp ==
    \A vis \in Visualisations : \A x \in Changes(vis) :
        x.meta.FP_fixed > 0 \/ x.meta.FN_fixed > 0

\* calcScoreTapDebug walks once through the sorted times and the sorted slots of the
\* episodes, which may overlap: it finds just the new times that are in no episode.
NewTimesOutside ==
    \A vis \in Visualisations : \A x \in vis.patches :
        LET times == TriggerTimes(vis.info.trace, Apply(vis.info.taps, x.patch), TRUE)
            in(t) == \E k \in DOMAIN vis.info.episodes :
                         vis.info.episodes[k].start <= t /\ t <= vis.info.episodes[k].end
        IN  x.meta.outside_fn = {t \in times \ vis.existing : ~in(t)}

\* The mask and the scores that come with a patch are true.
ScoresTrue == MasksDescribeCases /\ ChangesHelp /\ NewTimesOutside

\* Every change of the target device is in one episode of the feedback page, where users
\* can see it, and in no second one.
ChangesShownOnce ==
    mode = "nf" /\ cache[Page] # Missing =>
        \A i \in Indices(history) :
            LET e == history.log[i]
                shown(ep) == \E j \in Indices(ep) : ep.log[j] = e
            IN  e.var = Target.var =>
                Cardinality({k \in DOMAIN cache[Page].episodes : shown(cache[Page].episodes[k])}) = 1

\* The devices' page counts as covered every episode in which a rule fires and nobody
\* undoes it later, and none in which no rule can fire, unless the action was in force when
\* it began.  It shows a command as taken back if a rule that is still there gave it and
\* users undid it, on the plain page just if so.
CommandsTrue ==
    \A r \in {r \in Requests : "commands" \in DOMAIN answers[r]} : \A command \in Commands :
        LET page == answers[r]
            shown == page.commands[command]
            episodes == ToSet(Episodes(page.trace, command, Pre, Post, ForDevices))
            taps == For(page.taps, command)
            cases == ToSet(Cases(page.trace, taps, FALSE))
            firing == ToSet(Cases(page.trace, taps, TRUE))
            byHand(e) == e.ext /\ IsEvent(e, Opposite(command))
            inside(c, ep) == ep.start < c.t /\ c.t < ep.end
            done(ep) == \E c \in cases :
                inside(c, ep) /\ \A e \in ToSet(ep.log) : e.t > c.t => ~byHand(e)
            possible(ep) == Holds(command, ep.init) \/ \E c \in firing : inside(c, ep)
            undone == \E e \in ToSet(page.trace.log) :
                          /\ IsEvent(e, command) /\ ~e.ext
                          /\ page.plain \/ \E c \in cases : c.t = e.t
                          /\ TakenBack(page.trace, command, e.t, RevertSpan)
        IN  /\ Cardinality({ep \in episodes : done(ep)}) <= shown.covered
            /\ shown.covered <= Cardinality({ep \in episodes : possible(ep)})
            /\ undone => shown.reverted > 0
            /\ page.plain /\ shown.reverted > 0 => undone

\* What the feedback page and the devices' page show of the trace is so.
PagesTrue == ChangesShownOnce /\ CommandsTrue

\* While its entry lasts a visualisation fails only for a clock time that the enhanced
\* trace has lost.
SeenUnlessClockLost ==
    \A r \in {r \in Requests : cache[r] # Missing /\ "seen" \in DOMAIN answers[r]} :
        answers[r].seen = Failed =>
            \E k \in DOMAIN cache[r].info.cases :
                LET c == cache[r].info.cases[k]
                IN  c.event.kind = "clock" /\ ~EventFound(cache[r].info.trace, c)

\* A follow-up replaces cases and masks together: every mask of the debug page is about
\* its cases, and stops some case.
DebugMasksFit ==
    mode = "debug" /\ cache[Page] # Missing =>
        LET page == cache[Page]
        IN  /\ page.cases = Cases(page.trace, page.of, FALSE)
            /\ \A x \in page.patches :
                  /\ Len(x.mask) = Len(page.cases) /\ Count(x.mask) > 0
                  /\ \A k \in DOMAIN page.cases :
                        x.mask[k] <=> ~Fires(ModifiedTaps(page.of, x.patch), page.cases[k])

\* Taking a condition away never keeps a rule from firing: debugRuleGeneral, whose first
\* solver run asks for deletions that stop cases, finds none.
NoDeletions ==
    mode = "debug" =>
        LET taps == For(rules, Target)
            t == WithTiming(history, TimingsOf(taps))
            reverts == RevertsIn(t, taps)
        IN  (\E k \in DOMAIN reverts : reverts[k]) =>
                \A p \in DebugPatches(Cases(t, taps, FALSE), reverts, taps, 50) :
                    p.mode # "delete-condition"

\* The debug page shows what its patches do, and has no patch that does nothing.
DebugPageFits == DebugMasksFit /\ NoDeletions

\* "must achieve target": a suggested rule automates the configured share of all the
\* episodes.
NewRulesAutomate ==
    \A vis \in Visualisations : \A x \in vis.patches \ Changes(vis) :
        x.meta.FN_fixed >= Share(Len(vis.info.episodes), Rate.fn)
=============================================================================
