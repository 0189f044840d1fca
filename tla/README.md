# TapDebug in TLA+

Specifications, model checking and proofs for TapDebug, a system that helps
people debug trigger-action programs ("IF the light turns on WHILE it is dark,
THEN ...") in smart homes. File names below are relative to `src/`; `views.py`
alone means `iot-tap-backend/backend/views.py`.

## 1. The system

| Part | Where | State | Operations |
|---|---|---|---|
| Rule semantics | `iot-autotap/autotapmc/model/` | channel variables, two kinds of timers, a trigger bit per rule | `_applyAction`, `_applyTick`, `applyTick(time)`, running a pending rule |
| Transition system | `IoTSystem._createTS/_BFS`, `autotapmc/ts/` | list of states, transitions, search pool | `addState`, `addTrans`, `ifStateExists`, `getIndex` |
| Model checking and repair | `autotapmc/analyze`, `buchi`, `ltl`, `utils` | product automaton, bad edges, candidate rules | build, product, split rules, fix edges |
| Traces | `autotapta/model/Trace.py`, `input/` | timed events, pre-conditions | append, add timer and clock events |
| Informal system | `autotapta/model/InformalSystem.py` | device state, trigger bits | apply an event, run rules |
| Parameterized system | `autotapta/model/ParameterizedSystem.py`, `Rule.py` | the same state as z3 terms, masks of a rule template | build the formula of a trace run under unknown rules |
| Trace analysis, synthesis | `autotapta/analyze/` | episodes, cases, candidate patches | extract, synthesise with z3, score |
| Rule store | `views.py`, `models.py`, `createusers.py` | tables Rule, ESRule, Trigger, Action | create, edit, delete, list, copy rules |
| Rule translation | `backend/translator.py`, `autotap/translator.py` | none of its own | clauses to rows, to Home I/O, to the rules of the analyses, and back |
| Home I/O connection | `views.py` `hio_*`, `autotap/util.py` | StateLog, DeviceMonitor, caches, `pending_trace` | upload traces in chunks, report devices, fetch rules |
| Sessions, scenarios | `views.py` `fe_login`, `fe_get_scenario_info`, `fe_get_loc_token` | session, current scenario | log in, open a task, proceed |
| Times and clips | `iot-tap-backend/autotap/util.py` | none of their own | group times, cut clips out of a trace |
| Analysis views | `iot-tap-backend/autotap/views.py` | a cache entry per token | call the analyses, keep what they found for the next view |
| Frontend | `ifttt-frontend/` | pages, the service behind them, calls in flight | edit rules, call the views, poll `pending_trace` |
| The rest | channel library, the parser of plain logs (`log/`), administration commands, abandoned SmartThings code, deployment | | |

How they interact: the frontend and the Home I/O connector (another repository)
call the Django views over HTTP. Views run concurrently and share the PostgreSQL
tables and two caches kept in tables; `ATOMIC_REQUESTS` is not set and no view
opens a transaction, so each query, `save()` and `delete()` commits by itself.
The analysis views read rules and traces from the store, translate them and call
`autotapta`, which is sequential code on objects of its own. The repair of
`autotapmc` is complete, but the view that would call it refers to functions
that are gone.

What is hard, and what would make each part correct:

- *Rule semantics*: long orders of events, ticks and rules, each of which moves
  every timer; boundaries of the countdown; cascades of rules. Correct when
  timers measure time, no expiry is skipped, and cascades end.
- *Transition system*: one mutable system object is used for all states, and
  states with pending rules are added several times. Correct when the result has
  exactly the states and steps of the semantics, whatever the order of the
  search, and when the search ends.
- *Repair*: rules are split, deleted, added and shortened, and each change moves
  the edges the next one looks at. Correct when the new rules keep out of the
  error and do what the old ones did elsewhere.
- *Rule store*: interleavings of statements of several requests, stale rows that
  are written back, deletes that cascade, failures half-way. Correct when a
  request that is alone on its rule does all of what it was asked, and when
  overlapping requests cannot break more than the rule they are about.
- *Trace upload*: lost answers and retries, expiry of the cache, failures
  half-way, `pending_trace` written from two sides.
- *Traces, episodes, clips*: boundaries of intervals and indices, events at the
  same time, the end of a trace.
- *Synthesis*: the formula for the solver, the replay that counts, and the rules
  that users are shown are three programs that must agree on what a rule does.
- *Analysis views*: rules are read by every request and again within one, while
  traces and pages come from a cache whose entries end after half an hour.
- *Frontend*: one service object for all pages; answers that come late, to a
  page that was left, or in another order.

The list of hazards, each with its line, is in `PROJECT.json`.

## 2. Modules

| Module | Models |
|---|---|
| `TapSemantics` | the rule semantics as operators on a *field*, the state vector of the code |
| `TapSystem` | a running system: environment, time and rules take steps; history variables record what timers should measure |
| `TransitionSystemBuild` | `_createTS`, `_BFS` and class `TS`, one step of the loop at a time |
| `Repair` | `generateCompactFix`: from rules and a safety property to rules that keep it |
| `RuleStore` | the tables of rules under concurrent requests, one statement at a time |
| `TraceUpload` | uploading a trace: page, connector, server threads, analysis views, two caches |
| `Trace` | building, cutting and enhancing a trace, one iteration of a loop at a time |
| `TimeClips` | the clips that the analysis views cut out of the trace of `Trace`, which it extends |
| `InformalSystem` | the second interpreter of rules and its two users; refines `TapSystem` |
| `SynthParSystem` | the third interpreter, which the older syntheses run symbolically over a trace; extends `InformalSystem` |
| `TraceAnalysis` | episodes, cases and reverts as operators on traces and rules |
| `Synthesis` | new rules, changed conditions and their scores, on top of `TraceAnalysis` |
| `AnalysisViews` | the views that use `Synthesis`, with rules that change and a cache that forgets |
| `RuleTranslation` | the forms of a clause of a rule and the functions between them |
| `RuleEditor` | the pages of the frontend that edit rules, with calls in flight; extends `RuleTranslation` |
| `TapSemanticsProofs` | lemmas about the operators of `TapSemantics`, for the modules on top of it |
| `TapSystemProofs`, `TransitionSystemBuildProofs`, `InformalSystemProofs`, `RuleStoreProofs`, `TraceUploadProofs`, `TimeClipsProofs`, `RuleEditorProofs` | theorems and their proofs; `TimeClipsProofs` is about `Trace` too |
| `MC...` | finite instances for TLC (`TraceUpload` needs none) |

### TapSemantics and TapSystem

A field is a record of `channel_dict` (the value of every "channel.variable"),
`timer_type1_dict`, `timer_type2_dict` and `trigger_dict`, the four parts of
`_saveToStateVector`. Operators carry the names of the code: `ApplyAction` is
`_applyAction`, `ApplyTick` is `_applyTick`, `Elapse` the other branch of
`applyTick(time)`. Abstracted data: an atomic proposition or timer expression is
the set of values that satisfy it; an action sets one variable to one value,
which is what all templates of `Template.py` generate; rules and timers are
numbered in the sorted order in which the code visits them. Hand-written
channels whose actions have conditions of their own (e.g. `Oven.py`) differ only
in which actions are enabled.

The two kinds of timers are easy to confuse: `time#exp` runs from an *event*
that makes `exp` true and its proposition is "it is running"; `time*exp` runs
while the *state* `exp` holds and its proposition is "it has reached zero".
`held` and `ago` in `TapSystem` say what each should measure, and they are
updated from the values alone and not from the timers.

`TapSystem` has the actions `External` (an enabled action from outside), `Tick`,
`PartialTick` and `Fire` (a pending rule runs). As in `_BFS`, the first three
happen only while no rule is pending and pending rules run in any order;
`resolveTriggeredRules` always takes the first, which is one of these orders.
`PossibleEvents` and `Intervals` are what the loop of `generateTrace` chooses
from: between its events pass intervals shorter than the next expiry, or a tick.

### TransitionSystemBuild

`PopState` takes a state from the search pool and computes its steps in the
order of the code; `AddState`, `LinkState` and `LookupFails` then handle one
step each: a new state, a known state, or `list.index` raising `ValueError`. The
descriptions of states and the list of action names are left out. `MaxState`
bounds the list: rules that trigger each other in a circle make the code search
forever.

### Repair

`generateCompactFix` in four steps. `GetChannelList` takes the channels of the
error, those that the rules on them name, and so on, and drops the rules that
act on others. `FixPreProcessing` (`_fixPreProcessing`) splits the rules: one
rule for every transition of a rule, with all literals of the state in which it
was triggered. `FixRuleEdges` deletes rules as long as some lead into the error.
`FixRegularEdges` adds, for every event that leads into the error by itself, a
patch whose action leads out again, and shortens the conditions of what is left,
trigger by trigger. The transition system is that of `TapSemantics`, computed as
a set (`Explored`), since its order is the subject of `TransitionSystemBuild`.
Two libraries are known from their use: spot, whose automaton for `F(error)` has
an accepting state after the error, so that the product is the set of edges,
`Wrong` where they enter the error; and the Boolean minimiser, of which the
model uses that it returns a smallest cover by prime implicants. A rule given
twice counts once (the code removes duplicates by its dictionary of
expressions), variables begin at 0, and rules that set themselves off are
excluded: the code's search does not end for them, or fails (section 4). Only
`F(...)` over truth values and one timer is modelled, not the templates with
numbers.

`RepairCorrect` judges the rules a user gets: the answer's patches with an
action picked for each (`Applied`), every pick, run in the place of the given
rules. `RepairedSafe` says that they keep out of the error, `KeepsWorked` that
an event that led to no error before does exactly what it did, wherever the home
still gets into the state it led from. `Lost` names the triggers for which no
single action can do, by what the rules and the error ask and not by what
`CommonActions` computed; only where they happen is nothing claimed. That is so
in 114 of the 618 answers, and for the rest of the events there the claims are
made all the same.

### RuleStore

A step is one SQL statement (or one `save()`/`delete()`, which Django makes
atomic) of one request; `Script` lists them in the order of the views. A row is
named after the request that inserted it, so a rule tells whose event, action
and states it has. `row` in the local state of a request is the Python object
that was read earlier: that it may be stale is what the module is about.
`DeleteTriggers` and `DeleteActions` are the cascades `models.py` declares. The
modes of a request are `create`, `edit`, `delete`, `read` (the views that list
rules) and `copy`: `createusers.py` copies the rules of a template home, which
the people in the tutorial are editing, to a new user. A few statements are
taken together because nothing else can refer to the rows between them:
inserting the event and the action; inserting a state and adding it; removing a
state and deleting it. A trigger is read together with its conditions.
`thenClause` has one element, as the frontend sends it. A copy that fails leaves
a user with a part of the rules, which are his alone. `expected` is history:
what a rule should be after a write that was alone on it from its beginning to
its end.

### TraceUpload

`Begin` ... `ClearPending` are the statements of `hio_upload_trace` in a server
thread, `Fail` an exception between two of them; `Look`, `Query`, `Rebuild` are
`get_trace_for_location` in the thread of an analysis view; `Click`, `Proceed`,
`Reload` are the page of a task (`Proceed` calls `fe_get_monitored_dev_status`
and `fe_proceed_task`); `Expire` and `ClearTrace` what makes the cache tables
forget. The connector (`Poll`, `Send`, `Answered`, ...) belongs to another
repository and is known only from the protocol that the views expect: it sends
the chunks of one upload in order, may send a request again when the answer is
lost or is an error, and may give up. It may also lose patience (`TimeOut`) and
send a chunk again while the first request is still being handled. `resent`
remembers the worst of this: "no", "late" (after the answer was lost) or "early"
(two requests at once), and the properties say what holds in each case. An entry
is a pair of its upload and its place in time; the cached trace is represented
by the log list it is made from (`made_from` tells whether an upload or a view
made it), since making it is the subject of `Trace`. Culling in Django's
`DatabaseCache` and template homes, which have no flag, are left out.

### Trace

The loops of `Trace.__init__`, `getSubTraceBasedOnCaps`,
`enhanceTraceWithTiming` and `enhanceTraceWithClock` in the order in which the
analysis views call them. `pc` says which loop is running and `index` where it
is; `AddAction` takes any event at or after the last one, so that all logs
within the bounds are covered, events at the same instant included.
`is_ext_list`, which is carried along, is left out, and no capability has a name
that begins with the name of another (the code compares prefixes). The 24 hours
of a day are `Day` units.

### TimeClips

It adds to `Trace` what happens to the trace it ends with. `FindTimeClips` calls
`find_time_clips` with the times of some events, and `FirstTime`, `ExtendClip`,
`NewClip` and `LastClip` are its loop; `Generate` is `generate_clip` for one of
the ranges, and `FindOneClip` asks for a single range anywhere, as the views of
feedback do. The view "manual" is `getepisode_manual`, the page of superusers,
which cuts its clip out of the trace as it was recorded, without inserted
events. `Built` is the constructor of the clip, which leaves out the events that
change nothing; it is a function of the list and not a loop, since what was left
out has not changed the state.

### InformalSystem

`autotapta` has its own interpreter of rules, with two users, and `recorded`
chosen in `Init` says which one runs: `generateTraceEnhanced` (no recorded
trace) simulates a home, so that its events always change a value (`Generate`);
`introduceTapToTrace` replays a recorded trace, whose events may change nothing
any more after rules have run (`Introduce`). `RunRule` is an iteration of
`resolveTriggerBit`, `AddAction` one of the constructor of the new `Trace`. A
condition is the set of values that satisfy it and a flag for its `!`.

`IoT == INSTANCE TapSystem WITH ...` is the refinement: `state_dict` is
`channel_dict`, the bits are the bits, there are no timers, and a rule becomes
the rule of `IoTSystem` with the same meaning, its `!` included. Everything but
`Generate` and `RunRule` is a stuttering step.

### SynthParSystem

`synthesizeRuleWithSatSolver` and `synthesizeRuleBasedOnMultipleEvents`, which
are older than the synthesis of the views, run `SynthParSystem` over a trace to
find a rule: the values of capabilities are formulas over z3 variables, and with
every action of the trace come those of the rules, each under the formula that
it is triggered (`following_action_tup`). In the module a formula is what it
evaluates to under one choice of the variables, which stands for a rule
(`Described` says which rules can be described). `FollowingActions` are the
actions of the rules by the values *before* the action, and they are followed
for one step only: what they would trigger themselves is dropped.
`SynthesisTrue` says that the solver's answers are nevertheless what
`InformalSystem` does with the rule, for existing rules that do not set each
other off.

### TraceAnalysis and Synthesis

`TraceAnalysis` has the functions of `Analyze.py`, `Rank.py` and `Rule.py` that
read a trace. A trace is a log of entries with their pre-conditions, as in
`Trace`, whose results `WithTiming` and `WithClock` give in closed form.
`Rebuilt` is the constructor that episodes and clips go through: it computes the
states anew and leaves out events that are in force already.
`TimePoints`, `Windows` and `Episodes` are `extractEpisodes` and its relatives
with their options; `Cases` are the moments at which rules fire, `Reverts` tells
for each whether users took the action back within a span; `TriggeringEvents`
are the events before episodes that new rules could be triggered by.
Capabilities are Boolean.

`Synthesis` is what is done with them. A query to z3 becomes the set of its
solutions: `PatchSystem` the rules that a `SymbRule` can become, `DebugSystem`
the changes of one condition, and `Replay` the run of an episode that both
encode. `SymbFires` and `SymbPasses` are the symbolic semantics, `ShownFires`
and `Apply` the concrete ones that the scores (`Meta`) and the pages use; that
the two agree is a property and not built in. The order in which a solver finds
its solutions is abstracted to their set. `listTimingCandidates` and the other
correlations that choose candidates compute with floating-point numbers and are
a constant, `Related`. Rules are without ids; rates are in per cent.

### AnalysisViews

Requests of one user around the database and the cache, each step what a request
does between two reads or writes that others can see. `mode` is the kind of
interface. In `nf`, `getepisode_feedback` makes the page (`OpenPage`);
`send_feedback` reads the rules (`Send`), then the page (`GetPage`), stores the
feedback in it (`SetPage`) and looks for patches; its second form answers the
feedback stored before (`Alternative`). In `nn` and `sn` it has no page, and its
helper reads the rules again (`ReadAgain`, `ReadForSyntax`). `Respond` stores
the visualisation and answers. A request fails, with 500, when the entry is
gone, and for suggestions "held for n", which the translation to the frontend
cannot express (`Unshowable`); so does the debug page for changes of such rules
(`Suggests`). `GetEpisode` takes up a visualisation. In `debug`, `DebugFirst`,
`DebugFollowUp`, `DebugSet` and `DebugEpisode` are `suggestdebug` and its
follow-up, which replaces a part of the page's entry; in `devices`,
`fe_get_devices` counts for every command what is covered and taken back.
`SaveRule`, `DeleteRule` and `Expire` happen between any two steps. Tokens are
random in the code; here the page has one and every visualisation has that of
its request, and the page is opened anew only while no request runs, which
stands for a new token. Left out: empty feedback, capabilities that are not in
the trace, and a clock rule's time beyond the day; two reads of rules that
`sn`'s helper does one after the other are one.

### RuleTranslation and RuleEditor

A rule has four forms: the clause of the browser, the row of the table, the JSON
that Home I/O runs and the formula of the analyses. `Stored`, `Loaded`,
`HomeIOClause`, `Statement` and `ClauseOf` are the functions between them, for
the types of parameters that devices of Home I/O have. `SeenAsRun` says
that what the analyses evaluate holds just when the clause that Home I/O runs
does, `ComesBack` that formulas come back as clauses with the same meaning.

`RuleEditor` is one browser tab. `tab` has the page, what the page holds, and
what `user-data.service.ts` holds for all pages: the staged rule, the clause
being edited, `editing` and its rule. A click is an action that may send a call;
`calls` are in flight, are answered by the backend in any order (`AnswerRules`,
`fe_create_esrule`, ...) and arrive in any order (`RulesArrive`, ...), at a page
that may have been left: `live` tells whether the component is still there.
`OpenSite` opens the address anew: the page's state is gone, and calls that have
not been answered may or may not have reached the backend. `OpenTask` opens a
task, which sets the scenario that Home I/O runs before it saves the session's
location (`SaveSession`). Left out: the selectors for zone, device and
capability are one page; devices offered are those with a "bin" value, and what
is entered in a form is not tracked beyond the device it belongs to; views are
atomic (`RuleStore` interleaves them), a call that fails has no effect, and the
call for a cookie is part of that for rules.

## 3. Runs

| Run | Shows | States |
|---|---|---|
| `rule_semantics` | timers of both kinds measure what they should, a tick ends at the first expiry, partial ticks are invisible, cascades of rules end | 109 000 |
| `transition_system` | for two rules that cannot trigger themselves, or one of any form, the transition system has exactly the states and steps of the semantics, each quiet state once, and one action between two states; the construction ends without self-triggering rules, and is given up only at rules triggered by a state | 69 000 |
| `repair` | split rules do what the given ones did; the rules a user makes of the answer, whatever actions are picked, keep out of the error and do what the given ones did where those worked, but for triggers that no single action can serve | 2 800 |
| `rule_store` | what requests may rely on although they interleave at every statement, copies included | 249 000 |
| `trace_upload` | whatever is lost, fails, expires or is sent again, an uploaded trace has whole chunks that are in the table too; all of them in order if no two requests overlap, exactly once if nothing was sent again; the flag is cleared for a trace that covers it; a page that waits can proceed sometime | 368 000 |
| `trace_and_clips` | inserted events of timers and clocks are true, complete but for one case, and leave the trace, its order and its pre-conditions intact; clips cover each time once, lose no event and begin in the right state | 1 210 000 |
| `rules_run` | a simulated home behaves as `TapSystem`; the events that simulation and replay add to a trace are exactly those the rules cause, and the trace replays to the same state; the symbolic run of the older syntheses meets the target just when the replay with the rule does | 387 000 |
| `negated_conditions` | **violation**: a negated condition is evaluated without its negation | |
| `analysis_views` | pages, patches, masks and scores describe the trace, rules and cases they are shown with, although rules change and entries expire between the reads | 62 000 |
| `useless_rules` | **violation**: rules are suggested that automate nothing | |
| `rule_editor` | whatever is clicked and however late answers come: no rule is overwritten more often than its Edit was clicked, clauses fit their devices, the page shows what the house runs, and the forms of a clause mean the same | 1 070 000 |
| `edited_conditions` | **violation**: a rule that is opened and saved loses its conditions | |

Several properties are conjunctions, each conjunct of which is named and
explained in its module: `TimersExact`, `TicksExact`, `Exact`, `AloneWrites`,
`ShownTrue`, `UploadComplete`, `EnhancedTrue`, `ClipsTrue`, `ScoresTrue`,
`PagesTrue`, `DebugPageFits`, `RepairCorrect`, `SynthesisTrue` and
`TranslationsAgree`.

*Bounds.* `rule_semantics`: two Boolean variables, one timer of each kind with
the times 2 and 3, so that either can expire first, both can expire together and
a partial tick exists; all ordered pairs of 54 rules (triggered by an action, by
a tick of either timer or by a state; with timer conditions of both polarities).
Two rules are enough for one rule to trigger, keep from triggering, or stop a
timer of another. The theorems cover the same properties for any number.
`transition_system`: the pairs among 16 rules that are loop-free, and each of 30
rules of any form beside one that never runs; 200 states are more than any of
them needs, and `BuildTerminates` would fail if one did not finish. `repair`:
the loop-free pairs among 24 rules (four triggers, one of them a timer's; three
actions) on a sensor and two devices, and three errors: two states, and one that
has lasted; two rules are enough to set each other off, to be pending at once,
and to be blamed for each other. `rule_store`: two requests on a store with one
rule, up to two states per rule: any two requests about the same or different
rules in every interleaving; two states are needed for a rule to be half
removed. Symmetric requests are model values. `trace_upload`: two chunks of two
entries, the least with a first and a last chunk and a middle of a chunk; two
threads, so that requests can overlap; one view; three incidents, a bound that
clicks, rebuilds, lost answers, failures, expiries and time-outs share: a click
and two faults, so that the handling of one can meet another. `trace_and_clips`:
all logs of up to three events of two capabilities at times 0 to 5, two timers
of different spans, a clock and days of three units: a timer can be restarted,
cancelled, end in the instant of an event or after the last one, and a range can
span two midnights. With a span of two, ranges of clips can be extended, touch,
overlap or be apart. Clips of every set of events are cut, and every single
range. `rules_run`: all pairs among 27 rules, and among 18 with triggers that
are ranges of values, and each of 60 rules beside one that never runs, over two
capabilities, two events from outside and five in all (`MaxList`, which also
cuts off rules that trigger each other forever). A rule can trigger, enable or
disable the other, or itself. `analysis_views`: two requests, with one edit (a
rule added, changed or deleted) or expiry that falls between any two of their
reads; four homes (an evening without rules, the same with a rule to turn the
lamp on and one to turn it off, and with two to turn it on, a night with a clock
and a timer rule), whose traces have actions by hand and by rules, some of them
taken back, and go over a midnight; with and without a related timing.
`rule_editor`: eight clicks, enough to open a rule, leave it, edit another one
and save it; two calls in flight; up to three rules with one condition each, in
two tasks; two lamps of the same name, one of which can only be read, a heater
and a clock; numbers with zero and a negative one.

*Deadlock* is checked for `TapSystem`. The other programs end: the construction
is finished, requests are answered, the traces are built, the clicks are used
up.

*Fairness.* `rule_semantics` assumes, for `CascadeEnds`, weak fairness of
running some pending rule: `resolveTriggeredRules` and `_BFS` loop until none is
left. Nothing is assumed about the environment or time. `transition_system`
assumes that the sequential program keeps running (`WF_vars(Next)`).
`trace_upload` assumes, for `ClickAnswered`, that the threads of the server run,
that the connector polls, sends and takes answers, and that the page polls, as
its timer does. Incidents are not assumed to happen or not to happen; there are
finitely many (`MaxIncidents`), since no page is answered while every upload
fails. Participants need not click. The other runs check safety: what their
requests wait for is the answer of sequential code.

*Mutants.* Every property of a passing run has a mutant in `PROJECT.json`: a
definition marked "Slip" in the module that a plausible mistake would put in the
place of the real one, and that breaks the property.

## 4. What the runs found

1. *Negated conditions lose their negation.* `_checkCurrentCondition` strips the
   `!` (`InformalSystem.py:86`) and passes the rest on to `_checkCondition`,
   which would have handled it. `Tap.py:31` names such conditions.
2. *Suggested rules need not automate anything.* `fixByAddingOrDeletingRule`
   passes its rules in the place of a mask (`Analyze.py:1703`): only as many
   episodes count as there are rules, none for a home without rules, so that
   every rule meets the target.
3. *A rule that is opened and saved loses its conditions.* `trigger_to_clause`
   gives conditions no `timeValue`, `clause_to_trigger` requires it
   (`backend/translator.py:180`), and the exception comes when the old
   conditions are already removed.

The following weaknesses have no run of their own. Most of them are exceptions
to a property: the property says when they cannot happen.

*Rules and their models.* A state-triggered rule whose action changes something,
such as `SERule('light.isOn', 'light.turnOff')`, cannot be built: `_BFS`
evaluates its bit before its action (`IoTSystem.py:340`), so that it is still
pending after it, even if it has ended its own condition, and that state, which
the comment at line 349 takes to be known, is not: `getIndex` raises
`ValueError` (`BuildTerminates` says that no other rule makes it raise). A rule
triggered by its own action, given twice, leads from a state to the same state
by two actions, and breaks the assertion at `Fix.py:83`. Rules that trigger each
other in a circle make `resolveTriggeredRules`, `resolveTriggerBit` and the
construction loop forever. `generateTrace` cannot finish a trace of two events,
because `Trace` calls `conditionSatisfied`, which `IoTSystem` does not have;
only tests import it.

*Older syntheses.* `int(total*rate)` rounds down (`Analyze.py:695`): a target
action that occurs once is met by every rule of the right form, for any rate
below one. `action_c` excludes a rule that triggers itself by comparing values
for equality only (`Analyze.py:558`, `:699`), so that a numeric trigger can have
its own action satisfy it; `resolveTriggerBit` does not end for such a rule
(`InformalSystem.py:147`).

*Repair.* A trigger that needs different actions in different states gets a
patch without any action, because `_fixRegualarEdge` takes those that all
entries have in common: rules that worked are lost with it, and ways into the
error stay open (`Lost`). This happens in 114 of the 618 repairs of the run.
Conditions are shortened with states that never occur left open, and with the
events from outside as the only ones a rule must not react to (`Fix.py:722`):
when a rule sets what is set already, a shortened rule may be triggered by it
that was not before (`Worked` leaves such cascades out). The docstring's "every
tap rule only causes one edge" does not hold when two rules are pending at once.
`_satisfyPattern` tests a list that is never empty in the place of its element;
`generateNamedFix` and `generateTimeExp` work on rules that `getChannelList` has
dropped elsewhere.

*Rule store.* An edit of a rule that has been deleted fails half-way and leaves
rows behind; a `save()` of a row read earlier can bring a deleted rule back; two
edits can mix their conditions; a delete that meets an edit can leave a rule
without conditions. Participants of the tutorial share the template's rules and
can edit them, and `createusers` copies them for later users.

*Trace upload.* When the connector does not wait for an answer, `loc.save()` can
clear `pending_trace` for a click that came later than the row was read, and
`cache.set` of one request can drop a chunk of another. A trace of a single
chunk whose request is sent again, because its answer was lost, begins a new
upload (its first request is its last, `views.py:1366`) and clears the flag once
more, for a click that came after the trace was taken: with more chunks the list
is gone, and the repeated request ends in an error (`FlagClearedCovered`). A view that rebuilds a
missing trace can overwrite the one an upload has stored meanwhile with an older
one.

*Traces and clips.* `_countClockEvents` begins with the clock's time on the day
of `start_time` and ends its loop when that is not in the range
(`Trace.py:118`): a gap between two events that begins at night, after the time
of the clock, has none of the clock events of the next days; the comment at line
108 promises all (`ClockEventsTrue` shows that no other is missing). A trace
that ends with a clock event gives a wrong first state to a clip after its last
event: `enhanceTraceWithClock` gives such clock events the state before the last
event (`Trace.py:156`), and `generate_clip`, whose comment promises the final
state (`util.py:296`), only applies the clock event to it. After `l.p=true` at
1:00 and a clock event at 2:00, a clip from 3:00 on begins with `l.p` false.
`getTrigTimeEventCond` misses clock times after the last entry.
`translate_time_clip_helper` puts actions that were not actuated under the
minute of the action before.

*Analysis views.* Patches of `nf` are made from the page's rules while the
answer has those of now, and the helpers of `nn` and `sn` read the rules again:
when a rule is changed or deleted in between, patches name others than the
browser thinks, and when one is added, a patch can name one that the browser
does not have (`PatchesPointToRules` says that this is all); `suggestdebug`'s
follow-up leaves `revert_list` as it was, so that new cases are paired with old
reverts; clock events that a trace has lost make `getepisode` fail
(`SeenUnlessClockLost`). Both functions for the debug page fail when no case was
taken back, and `calcScoreDebug` would divide by zero for a patch that stops no
case (`DebugMasksFit` shows that there is none). They also fail for a change of
a rule "held for n": `tap_to_frontend_view_ta` is given the location
(`views.py:548`, `:650`), and looks for a clock by it (`translator.py:623`), a
column that devices have not. The concrete replay of a changed condition ignores
the condition added (`DebugSystem.applyAction`). An episode that began with the
device in its target state and that a rule changed counts as covered without any
rule (`CommandsTrue` allows it). `suggestadd` always answers 500 the first time,
because `listTimingCandidates` makes a set of `None`. An alternative without
earlier feedback, an entry that is gone and a condition of an opposite rule the
page does not know all end in exceptions.

*Translation and editor.* Going back from an edit and adding a new rule
overwrites the rule that was opened, even one of another task
(`OverwritesExplained` counts that as the use of the click on Edit). A second
click on Save before the answer comes makes a second rule. Parameters that
arrive late can be set in the clause of another device (`ClausesFit` excludes
two requests at once), and the page keeps an earlier list when two calls overlap
(`ShownRulesRun`). A parameter of 0 counts as missing. Negative thresholds lose
their sign on the way to the analyses (`SeenAsRun` excludes them), `<=` is shown
as `<`, and of two devices with one name the first is meant when a formula comes
back. In the tutorial the session is the template's, while Home I/O runs the
user's own copy.

## 5. Proofs

Every theorem is of the form `Spec => []P`, of an action property, or of the
refinement, for all values of the constants that the module's assumptions
allow. The assumptions (`TimerAssumption`, `TapDictAssumption`,
`BuildAssumption`, `RequestAssumption`, `UploadAssumption`,
`RuleListAssumption`, `SpanAssumption`) are the types of the constants. Three say
more. `TranslationAssumption`: devices of one name are of one type, since a name
stands for those of capability and parameter too (`dev_name.cap_par` in
`trigger_to_autotap_statement`). `EditorAssumption`: the rules there in the beginning are of the kind the
editor makes, since rules are made there, or copied from such by `createusers`.
`TraceAssumption`: `timing_tup` has nothing twice (`IsInjective`), since the
views make a list of a set of it. `suggestdebug`, called the first time, does not
(`autotap/views.py:491`), nor does the command `review`: there, rules with the
same timer have each event of it twice, and the theorems say nothing of that. Every inductive invariant
below was an invariant of a TLC run on the instance before it was proved, and
most of their parts come from counterexamples that TLC found to a smaller one.

**TapSystemProofs** proves, for all sets of variables and values, all timers and
all rule sets, the safety results that `rule_semantics` checks on an instance
(the times are natural numbers, which `int(t_exp.split('#')[0])` yields). The
invariant is `IInv == TypeOK /\ StateTimersMeasure /\ EventTimersMeasure`.
`TypeOK` alone is inductive: each operator leads from fields to fields
(`ApplyActionType`, `ApplyTickType`, ...), where the point is that a countdown by
the *smallest* running timer never passes zero; that minimum exists because the
natural numbers are well-founded (`LeastElement`). The timer properties need each
other's history: `HistoryAction` and `HistoryTime` show that one step keeps
`held` and `ago` in step with the timers; the second needs that the time that
passes is at most what any running timer has left. `TickExpires` and
`PartialTickInvisible`, the parts of `TicksExact`, follow from the types and from
what the minimum is (`SmallestTimer`, `EventTimerLeft`, `StateTimerLeft`). The
lemmas about the operators of `TapSemantics` are in `TapSemanticsProofs`.

**TransitionSystemBuildProofs** proves that a construction that ends has built
exactly the semantics. The invariant says of the construction under way what
`Exact` says of the finished one: every transition is a step of the semantics
between the listed states (`TransAreSteps`); every state but the first was
entered from an earlier one (`StatesEntered`); each step of a state that has been handled is a
transition, one of the state in hand may also still be waiting in the loop
(`StepsAreLeft`, `StepsAreTaken`); no quiet state is twice in the list
(`QuietOnce`), which is what `getIndex` is for; and between two states there is
one action (`OneAction`). The steps of a state are put in order by a recursive
function, `Selected`, and what it returns is shown with a least index at which
it would be wrong (`SelectedElements`), not by an induction theorem. `Sound`,
`Complete` and `QuietStatesOnce` hold for all rules. `OneActionBetweenStates`
does not: two rules that wait at the same time and trigger themselves again lead
from a state to the same state, and `_getAction` finds only the first. The rules
of the run do not do that; `OneSelfTrigger`, the hypothesis of `BuiltExact`,
excludes it. The number of rules that wait in a
state that is not quiet is what tells the others apart (`StepsDiffer`). That the
construction ends stays with TLC (`BuildTerminates`).

**RuleStoreProofs** proves `EventMatchesAction` for any set of requests and any
`MaxState`: the event and the action of a rule, in the table, in an answer and in
a copy, come from one request, however the statements interleave. It is not
inductive by itself, because a request writes back, shows or copies a row it read
earlier. `IInv == RulesPaired /\ ReqsPaired` says the same of the rows that
requests hold.

It also proves `OnlyDeletesRemove`: an edit deletes the event and the action it
has fetched, with their cascades, long after it has fetched them, and still no
rule goes with them. The inductive invariant adds who can have written what: a
request writes its event and action into one rule only, when it creates or saves
it, so that this rule is the only one that can have them (`RulesOwned`), and the
row a request has fetched belongs to its own rule (`RowsOwned`); after the save
of an edit it belongs to no rule at all (`OldGone`), since other requests save
rows of their own. A cascade from a state's trigger reaches no rule, because
states are never events (`ReqsSound`). `Afters` says which statement follows
which in the scripts of `RuleStore`.

The other safety properties of `rule_store` are `TypeOK`, `AloneWrites`,
`ShownTrue` and `OrphansExplained`. `WInv` is the invariant, beside the two
above:

- `Typed`, `Keyed`: numbers, words and rows; every foreign key refers to a row,
  and the event and action that a request is about to put into a rule are there.
  Without `Keyed` a save could fail for a reason that nobody has caused.
- `StatesOwned`: the states a request has made are in the rule it writes or in
  none. So the cascade from the triggers that one request drops reaches no
  other rule's states.
- `Sole`: a request that is still marked alone has no other writer of its rule
  beside it. It is kept because an arriving request marks every request it
  meets.
- `AloneFind`: at each statement, a request that is alone finds in its rule what
  it left there (`Lone`). This is where the order of the statements of
  `user_edit_esrule` and `user_delete_esrule` matters.
- `AsExpected`: a rule is as its last writers leave it, until a writer of it has
  begun to change it (`Past`). `AloneWrites` is this at the end of a request.
- `ReadersRight`: what a reader holds of a rule that has not been written while
  it reads is as it is in the table; `ShownTrue` is this when the reader answers.
- `FailuresExplained`: a query fails only if a rule was written meanwhile, and a
  write that is alone only as an edit of a rule that is not there.
- `Orphans`: as long as every request was alone and none has failed, an event or
  an action without a rule is one that a request still holds, to put it into a
  rule or to delete it.

The proof goes by the statement a request is at, and for the others by
`OthersKept`: a statement of one request disturbs only the requests on the same
rule, and those are marked.

**TraceUploadProofs** proves every safety property of `trace_upload`, for any
number of threads, readers, chunks and incidents, an impatient connector
included.

- `CachedIsLogged` (no entry is only in a cache): the invariant adds the lists
  that threads hold, for a thread writes to the cache a list that it read before
  others changed the table. That rows are only ever added makes it inductive.
- `ChunksWhole` (whatever is lost, what a reader rebuilds is made of whole
  chunks of one upload): `Tied` says that everyone who carries a token of an upload (a
  cached list, a thread, the connector, a row) means the same entries by it, and
  `MInv` that every list in a cache or in a thread's hands is a sequence of whole
  chunks (`CacheMade`, `ThreadMade`, `TraceMade`). It holds for overlapping
  requests as well.
- `UploadComplete` and `FlagClearedCovered` need more, as long as no request was
  sent before the last one was answered: at most one thread is then at work
  (`Single`), it works on the request the connector waits for (`SentRight`), and the
  list has the chunks up to that one, in order (`ThreadRight`, `TraceRight`).
  `ClimbsAll` concludes from "each chunk follows its predecessor" that all chunks
  are there, by the least one that would be missing. When an upload is over
  (`Over`) nobody is left who could clear the flag again, except for a trace
  of a single chunk (see section 4).
- A rebuilt trace is sorted by time and row, by the rank of each row
  (`RowRanks`), so that `RowsByTime` has each row once whatever the times are
  (`RowsByTimeRows`).

**InformalSystemProofs** proves the types, what the list of events says, and the
refinement, for any capabilities, values and lists of rules.

- `ReplayReachesState`: replaying the list of events leads to the state of the
  simulation. The state before the n-th event is a choice among functions in the
  model and a statement about the last event that set a capability in the proof
  (`LastIs`, `BeforeAppend`), again by least and greatest elements.
- `DueRulesRun`: every action in the list is from outside or caused by a rule
  that was due, and a rule that was due runs before the next event from outside.
  The invariant adds that a rule that waits was triggered since the last event
  from outside (`Waits`), and that one that was triggered waits or has run (`Runs`).
  The theorem is about rules without negated conditions; finding 1 is what happens
  otherwise, and the run `negated_conditions` has a trace of it.
- `Spec => AgreesWithIoTSystem`, about the simulation of plain rules: one value
  triggers each, and no condition is negated. `ActionsAgree` is the heart: an
  action leads from corresponding states to corresponding states, because the
  conditions agree (`PlainConditions`), the triggers agree (`PlainTriggers`) and
  no rule of the mapped system is without trigger. The invariant adds that no bit
  is set when an event comes, which `IoTSystem` requires of its environment.

**TimeClipsProofs** proves every property of `trace_and_clips`, for any
capabilities, timers, clocks, length of a day, span, and number and times of
events. What is inserted into a trace is built up by loops, so that the
properties, which speak of the finished trace, are inductive only with what
holds in the middle of a loop. `TraceInv` says:

- `Types`, `Unused`, `Kinds`, `Timely`: what the lists consist of, which events
  can be in them yet, and that these are in the order of time and in the range
  of the trace. `Changing`: only the first event of a log may change nothing.
- `Chain`: the state of each event is what the event before it leads to, in the
  trace and in the list that will replace it; `Progress` says that the new list
  ends with the action last treated, so that what is inserted in the state of
  the next action (`pre_condition` is copied) continues the chain.
- `Timing`: the timers that have fired are those of the events that were held
  long enough up to the action last treated (`Ended`), each once, and the timer
  that is waiting is the one of the last event of its capability (`Runs`). Each
  of `timing_tup` adds timers of its own, and this is where it matters that
  none is in the list twice. `Merging`: each of them is either still waiting to
  be inserted or inserted, never both, and what waits is later than what was
  treated, so that the order is kept and none is left over: a timer that ends
  in the instant of the last action is inserted before it.
- `Clocking`: the new list without clock events is the trace up to the action
  last treated, and has each time of the clock before that action once, except
  those after a change of the day (`ClockIn`).

`TraceEnhanced` (`EnhancedTrue`) is what `TraceInv` says when a loop has ended, and
`NothingLost` (`EventsKept`) compares the list that is handed over with the
trace it was made from. For the clips, `ClipInv` adds `Finding` and `Found`: a
time looked at lies at least `Span` after the start of the range it is in, and
the middles of different ranges are apart although the ranges overlap; without
this margin nothing would follow about the next range, which begins before the
time that opened it. That a clip keeps all its events (`EpisodesTrue`) needs
`Chain` and `Changing`: `generate_clip` runs the constructor of a trace again,
which leaves out events that change nothing, and there are none
(`InsideNeeded`). The state at a time (`TrueState`), which is defined by the last
write of each capability, is compared with the chain of states by the least event
where they would differ (`TraceStates`).

The filters and sorted sets of the code are written with sets of indices in
`Trace` (`Ordered`, `Picked`, `ByTime`) and not with `SelectSeq` and `SortSeq`:
the provers know nothing of those, which are recursive. `PickedElements` and
its relatives are the lemmas about them.

**RuleEditorProofs** proves what `rule_editor` checks, for any devices, values,
tasks, rules already there, clicks and calls in flight. Three invariants about
the pages are proved one on top of the other; each has a lemma per click, per answer of the
backend and per answer that arrives.

- `TInv`, for `EditorTypeOK` and `ClausesFit`: beside the types it says that while
  a clause is being chosen, every call for parameters in flight is for its device
  (`AskedOK`), and once its form is there, its parameter is one of that device
  (`ChosenOK`): this is what `completeParameterSelect`, which puts together what
  two pages know, relies on. `tangled` records that calls for two devices were in
  flight at once, which it excludes. That ids stay below the bound needs that the
  rules in the table and those that calls will still make are counted together.
- `CInv`, for `OverwritesExplained`: `credit`, the clicks on Edit less the
  overwrites, is at least the number of calls in flight that will overwrite the
  rule, plus one while it is being edited. Without these terms a late save could
  use up the credit of the click that comes next.
- `SInv`, for `ShownRulesRun`: on the rules page, if calls about the list did not
  overlap, there is at most one of them in flight, and it makes the list that of
  the page's task (`Relist`); if there is none, the list is already so (`Alone`). A
  deletion is one of these calls: its answer lists the location of the session,
  which is the page's only because the rule, being on the list, is there when it
  is answered, so that `check_access_to_location` has compared the two.

A call that is in flight when the address is opened anew may have reached the
backend or not. `Kept` says that the calls in flight afterwards are some of
those before, and all counts and statements above survive leaving calls out.

`TranslationsAgree` needs no invariant: it is about the functions of
`RuleTranslation`, and proved of them for every device, number and time. An
event is read from its table as it was saved (`EventBack`, by `TimeBack`), a
condition or an action makes the same statement whichever way it comes
(`RowBack`); a statement holds in a trace where its Home I/O clause does in the
house (`SeenHolds`), and is shown as the clause it was made of (`ClauseBack`) or
as one that holds less, at its threshold (`SuggestionShown`). `HoldsAs` and
`ComparatorBack` are what is said of negation: the first says that turning the
comparator is the same as negating what it compares, the second that `!=`
becomes a negated `=` and comes back. That the first device of a name exists is
`LeastElement` again.

Only model-checked:

- The liveness properties (`CascadeEnds`, `BuildTerminates`, `ClickAnswered`):
  fairness and `ENABLED` are out of the prover's reach.
- `Repair`, `TraceAnalysis`, `Synthesis`, `SynthParSystem` and `AnalysisViews`:
  what they evaluate is defined by recursive operators and by folds over traces
  and formulas, and saying what those return for every input takes induction
  over the data.

## 6. Not modelled

*External.* z3, spot and the Boolean minimiser are modelled by what their
callers rely on; the connector and Home I/O by the protocol of the views.

*Floating-point heuristics.* Correlations that choose candidates, clustering,
decision trees and their scores are constants or left out.

*Data and layout.* Channel library, device tables, JSON, HTML, presentation,
deployment, and the parser of plain logs (`log/LogSystem.py`), which no view and
no analysis of traces uses.

*Code that nothing reaches.* The view `fix` and the safety-property views, which
call functions or use columns that are gone; `views_no_csrf.py`, `st_util.py`;
`fe_create_esrules` and `fe_change_esrules`, `addRules`, `changeRules`, which no
page calls; `get_revert_for_location`, `get_revert_action`,
`get_manual_changes`; `suggestadd`'s follow-up, whose entry the first call never
makes; `translate_time_clip`, `merge_times`, `introduceHumanBehaviorToTrace`
(which throws dice, for tests); the LTL graphs of `Analyze.py` (lines 20-194)
and the variants of `SynthParSystem` that split its formulas or have timers
(`SynthParSystemSplit`, `SynthTimeSystem`, `SynthTimeSystemSplit`) or change an
existing rule (`ModifyParSystem`), which only tests use; parts of the frontend for safety
properties, metadata and history clauses, sets, colours and other services than
Home I/O, which has no such devices. `StateLog.CURRENT`, which the switches of
the devices' page show, is written by nothing that is alive, and the task page
no longer waits for monitored devices (`task.component.ts:77`).

*Within the components.* Numeric and set-valued channels in the repair and the
synthesis; users, login and logout; the audit records, which are written and
never read.
