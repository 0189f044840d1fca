------------------------------ MODULE Synthesis ------------------------------
(***************************************************************************)
(* Patches to rules: the rules that autotapta's PatchSystem finds for the  *)
(* episodes the users did by hand, the changes of one condition that       *)
(* DebugSystem finds for the cases the users took back, and the scores     *)
(* they are ranked by.                                                     *)
(*                                                                         *)
(* The code writes rules with symbols for what may be chosen, runs them    *)
(* over the episodes and cases, and lets a solver enumerate the symbols'   *)
(* values that satisfy the targets.  Here the choices are sets and a       *)
(* target is a condition on them; each solution comes with its mask, what  *)
(* the model the solver found says of every case and episode.              *)
(***************************************************************************)
EXTENDS TraceAnalysis, TLC

Tap(trigger, cond, action) == [trigger |-> trigger, cond |-> cond, action |-> action]
Statement(var, val) == [var |-> var, val |-> val]
NoStatement == [var |-> "", val |-> FALSE]
NoTap == Tap(AtClock(NoTime), <<>>, NoStatement)

Count(bits) == Cardinality({k \in DOMAIN bits : bits[k]})
\* math.ceil(n * rate), the rate in percent
Share(n, percent) == (n * percent + 99) \div 100

(***************************************************************************)
(* Running rules over an episode.  fires(e, s) says whether an entry fires *)
(* a rule in state s, passes(from, to, s) whether time does.               *)
(***************************************************************************)
\* resetInitState: what a log has not told of is FALSE.
InitState(init) == [v \in Vars |-> IF v \in DOMAIN init THEN init[v] ELSE FALSE]

Replay(ep, action, fires(_, _), passes(_, _, _)) ==
    LET does(e) == e.var = action.var /\ e.val = action.val
        log == SelectSeq(ep.log, LAMBDA e : ~does(e))
        acted(s) == [s EXCEPT ![action.var] = action.val]
        waited(from, to, s) == IF passes(from, to, s) THEN acted(s) ELSE s
        applied(e, s) ==
            LET seen == [s EXCEPT ![e.var] = e.val]
            IN  IF e.kind = "clock" THEN s ELSE IF fires(e, s) THEN acted(seen) ELSE seen
        from(i) == IF i = 1 THEN ep.start ELSE log[i - 1].t
        state[i \in 0 .. Len(log)] ==
            IF i = 0 THEN InitState(ep.init)
            ELSE applied(log[i], waited(from(i), log[i].t, state[i - 1]))
    IN  waited(from(Len(log) + 1), ep.end, state[Len(log)])

(***************************************************************************)
(* New rules                                                               *)
(***************************************************************************)
\* The conditions over vars: one value at most for each.
Conditions(vars) ==
    UNION {LET seq == SelectSeq(Fields, LAMBDA v : v \in shown)
           IN  {[k \in DOMAIN seq |-> Statement(seq[k], value[seq[k]])] :
                   value \in [shown -> BOOLEAN]} : shown \in SUBSET vars}

\* The triggers of a SymbRule but for the clock's
Triggers(trigVars, timings) ==
    {Event(v, b) : v \in trigVars, b \in BOOLEAN}
    \union {HeldFor(x[1], b, x[2]) : x \in timings, b \in BOOLEAN}

\* getSyntaxConstraints: one trigger, and no condition on its variable
TriggeredRules(trigVars, timings, condVars, action) ==
    UNION {{Tap(g, c, action) : c \in Conditions(condVars \ {g.var})} :
              g \in Triggers(trigVars, timings)}

\* The rules that the rule of a PatchSystem can become
PatchSystem(trigVars, timings, condVars, action) ==
    TriggeredRules(trigVars, timings, condVars, action)
    \union {Tap(AtClock(n), c, action) : n \in 0 .. Day - 1, c \in Conditions(condVars)}

\* SymbRule.trigger, SymbRule.timePass
SymbFires(tap, e, s) ==
    /\ Matches(What(e), tap.trigger) /\ CondHolds(tap, s)
    /\ e.kind = "held" \/ ~Holds(tap.trigger, s)
SymbPasses(tap, from, to, s) ==
    /\ tap.trigger.kind = "clock" /\ CondHolds(tap, s)
    /\ ClockTimes(tap.trigger.n, from, to) # {}

\* Does a new rule bring the episode to the target?  (PatchSystem's applyAction and timePass)
Automates(tap, ep) ==
    LET fires(e, s) == SymbFires(tap, e, s)
        passes(from, to, s) == SymbPasses(tap, from, to, s)
    IN  Holds(tap.action, Replay(ep, tap.action, fires, passes))

\* synthesizeRuleGeneral, with the share of the episodes in counted as the target.  The
\* solver finds one time for the clock rules that have the same conditions.
NewRules(episodes, counted, trigVars, timings, condVars, action, percent) ==
    LET enough(tap) == Cardinality({k \in counted : Automates(tap, episodes[k])})
                          >= Share(Cardinality(counted), percent)
        solved == {tap \in PatchSystem(trigVars, timings, condVars, action) : enough(tap)}
        clock == {tap \in solved : tap.trigger.kind = "clock"}
    IN  IF episodes = <<>> THEN {}
        ELSE (solved \ clock)
             \union {CHOOSE tap \in clock : tap.cond = c : c \in {tap.cond : tap \in clock}}

(***************************************************************************)
(* Changed conditions.  A patch is a record [mode, rule, cond, new, tap].  *)
(***************************************************************************)
Patch(mode, rule, cond, new, tap) ==
    [mode |-> mode, rule |-> rule, cond |-> cond, new |-> new, tap |-> tap]
ConditionsOf(taps) == UNION {{<<i, j>> : j \in DOMAIN taps[i].cond} : i \in DOMAIN taps}

\* What the solver chooses from: a rule, the condition of a rule to hide, a new condition
DebugSystem(taps, condVars) ==
    [tap_sel |-> DOMAIN taps, tap_cond_sel |-> ConditionsOf(taps),
     new_cond |-> {Statement(v, b) : v \in condVars, b \in BOOLEAN}]

\* DebugSystem.getConstraintsForDeleting, ...ForModifying and ...ForAdding, which alone
\* respects the rules the user asked to change.
Deletions(sys) ==
    {Patch("delete-condition", x[1], x[2], NoStatement, NoTap) : x \in sys.tap_cond_sel}
Modifications(sys, taps) ==
    {Patch("modify-condition", x[1], x[2], Opposite(taps[x[1]].cond[x[2]]), NoTap) :
        x \in sys.tap_cond_sel}
Additions(sys, rules) ==
    {Patch("add-condition", i, 0, cond, NoTap) : i \in sys.tap_sel \cap rules, cond \in sys.new_cond}

\* ChangedRule.trigger: the rule without the condition that the patch hides.
ShownFires(tap, hidden, what, state) ==
    /\ Matches(what, tap.trigger)
    /\ \A j \in DOMAIN tap.cond \ hidden : Holds(tap.cond[j], state)
    /\ tap.trigger.kind = "event" => ~Holds(tap.trigger, state)
Hidden(p, i) == IF p.mode # "add-condition" /\ p.rule = i THEN {p.cond} ELSE {}

\* DebugSystem.testIfRuleTriggered
StillFires(taps, p, c) ==
    \E i \in DOMAIN taps :
        /\ ShownFires(taps[i], Hidden(p, i), c.event, c.pre)
        /\ p.rule = i /\ p.mode # "delete-condition" => Holds(p.new, c.pre)

\* DebugSystem's applyAction, which forgets the new condition; its timePass does nothing.
AutomatesChanged(taps, p, ep, action) ==
    LET fires(e, s) == \E i \in DOMAIN taps : ShownFires(taps[i], Hidden(p, i), What(e), s)
        passes(from, to, s) == FALSE
    IN  Holds(action, Replay(ep, action, fires, passes))

\* The patches the solver is asked for, one mode after the other
ConditionChanges(taps, condVars, rules) ==
    LET sys == DebugSystem(taps, condVars)
    IN  Deletions(sys) \union Modifications(sys, taps) \union Additions(sys, rules)

\* fixByChangingCondition, for a percentage of the episodes, of the cases taken back and
\* of the others
ChangedConditions(episodes, cases, reverts, taps, condVars, rules, action, rate) ==
    LET mask(p) == [k \in DOMAIN cases |-> StillFires(taps, p, cases[k])]
                   \o [k \in DOMAIN episodes |-> AutomatesChanged(taps, p, episodes[k], action)]
        back == {k \in DOMAIN cases : reverts[k]}
        stay == DOMAIN cases \ back
        n == Len(cases)
        fixes(m) ==
            \/ /\ back # {}
               /\ Cardinality({k \in back : ~m[k]}) >= Share(Cardinality(back), rate.revert)
               /\ Cardinality({k \in stay : m[k]}) >= Share(Cardinality(stay), rate.remaining)
            \/ /\ episodes # <<>>
               /\ Count(SubSeq(m, n + 1, Len(m))) >= Share(Len(episodes), rate.fn)
        all == {[patch |-> p, mask |-> mask(p)] :
                   p \in ConditionChanges(taps, condVars, rules)}
    IN  IF cases = <<>> /\ episodes = <<>> THEN {} ELSE {x \in all : fixes(x.mask)}

\* debugRuleGeneral: what it finds without looking at episodes
DebugPatches(cases, reverts, taps, rate) ==
    LET back == {k \in DOMAIN cases : reverts[k]}
        stay == DOMAIN cases \ back
        few == Share(Cardinality(back), rate)
        sys == DebugSystem(taps, {})
        fixes(p) ==
            /\ Cardinality({k \in back : ~StillFires(taps, p, cases[k])}) >= Min({3, few})
            /\ Cardinality({k \in stay : StillFires(taps, p, cases[k])})
                  >= Share(Cardinality(stay), rate)
    IN  {p \in Deletions(sys) \union Modifications(sys, taps) : fixes(p)}

\* modify_patch_to_taps: the new condition comes to the one it was to replace.
ModifiedTaps(taps, p) == [taps EXCEPT ![p.rule].cond = Append(@, p.new)]
\* delete_patch_to_taps, where index is None: no rule of a deletion is selected
DeletedTaps(taps, p) == taps
PatchedForDebug(taps, p) ==
    IF p.mode = "modify-condition" THEN ModifiedTaps(taps, p) ELSE DeletedTaps(taps, p)

(***************************************************************************)
(* fixByAddingOrDeletingRule.  synthesizeRuleGeneral is given the list of  *)
(* rules where it expects the mask of episodes that count: zip stops at    *)
(* the shorter of the two, so that no episode beyond the number of rules   *)
(* counts, and none at all where there is no rule yet.                     *)
(***************************************************************************)
Counted(episodes, taps) == {k \in DOMAIN episodes : k <= Len(taps)}

AddedRules(episodes, cases, taps, trigVars, timings, condVars, action, rate) ==
    LET mask(tap) == [k \in DOMAIN cases |-> TRUE]
                     \o [k \in DOMAIN episodes |-> Automates(tap, episodes[k])]
    IN  {[patch |-> Patch("add-rule", 0, 0, NoStatement, tap), mask |-> mask(tap)] :
            tap \in NewRules(episodes, Counted(episodes, taps), trigVars, timings, condVars,
                             action, rate.fn)}

\* apply_tap_patch
Apply(taps, p) ==
    CASE p.mode = "add-rule" -> Append(taps, p.tap)
      [] p.mode = "add-condition" -> [taps EXCEPT ![p.rule].cond = Append(@, p.new)]
      [] p.mode = "delete-condition" -> [taps EXCEPT ![p.rule].cond = RemoveAt(@, p.cond)]
      [] p.mode = "modify-condition" -> [taps EXCEPT ![p.rule].cond[p.cond] = p.new]

(***************************************************************************)
(* Scores                                                                  *)
(***************************************************************************)
\* As it would be if one rule that does not fire were enough
NoLongerFireAll(cases, taps) ==
    [k \in DOMAIN cases |->
        ~\A i \in DOMAIN taps : CondHolds(taps[i], cases[k].pre)
                                /\ Matches(cases[k].event, taps[i].trigger)]
\* calcScoreDebug's mask: the cases that no rule fires in any more
NoLongerFire(cases, taps) ==
    [k \in DOMAIN cases |->
        ~\E i \in DOMAIN taps : CondHolds(taps[i], cases[k].pre)
                                /\ Matches(cases[k].event, taps[i].trigger)]

\* calcScoreTapDebug's walk through the times and the slots, which are sorted
OutsideSlots(times, slots) ==
    LET skipped(from, t) == {m \in from .. Len(slots) : \A x \in from .. m : slots[x].end < t}
        at[k \in 0 .. Len(times)] ==
            IF k = 0 THEN 1 ELSE at[k - 1] + Cardinality(skipped(at[k - 1], times[k]))
        inside(k) == /\ at[k] <= Len(slots)
                     /\ slots[at[k]].start <= times[k] /\ times[k] <= slots[at[k]].end
    IN  ToSet(times) \ {times[k] : k \in {k \in DOMAIN times : inside(k)}}

\* As it would be without sorting
SlotsAsGiven(episodes) ==
    [k \in DOMAIN episodes |-> [start |-> episodes[k].start, end |-> episodes[k].end]]
SortedSlots(episodes) ==
    SortSeq([k \in DOMAIN episodes |-> [start |-> episodes[k].start, end |-> episodes[k].end]],
            LAMBDA a, b : a.start < b.start \/ (a.start = b.start /\ a.end < b.end))

\* calcScoreTapDebug
Meta(tr, taps, mask, reverts, episodes, existing) ==
    LET cases == Cases(tr, taps, TRUE)
        times == [k \in DOMAIN cases |-> cases[k].t]
        back == {k \in DOMAIN reverts : reverts[k]}
        outside == OutsideSlots(times, SortedSlots(episodes)) \ existing
    IN  [FP_fixed |-> Cardinality({k \in back : ~mask[k]}),
         TP_cancelled |-> Cardinality({k \in DOMAIN reverts \ back : ~mask[k]}),
         FN_fixed |-> Count(SubSeq(mask, Len(reverts) + 1, Len(mask))),
         outside_fn |-> outside,
         inside_fn |-> ToSet(times) \ (existing \union outside)]
=============================================================================
