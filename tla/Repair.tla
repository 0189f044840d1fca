------------------------------- MODULE Repair -------------------------------
(***************************************************************************)
(* The repair of rules in iot-autotap/autotapmc/analyze/Fix.py: given      *)
(* rules and a property "these conditions never hold together" (the ltl    *)
(* 'F(a & b)' of the error), generateCompactFix splits the rules by the    *)
(* states they run in, deletes those that lead into the error, and answers *)
(* with the rules that are left and new ones for the events that lead      *)
(* there, each with the actions that may be chosen for it.                 *)
(*                                                                         *)
(* A transition system is the set of fields that TapSemantics reaches      *)
(* (TransitionSystemBuild shows that the construction finds them).  Rules  *)
(* with the same trigger, condition and action count once, although the    *)
(* code gives them different names.                                        *)
(***************************************************************************)
EXTENDS Integers, Sequences, FiniteSets

CONSTANTS
    Var, Val, EventTimer, StateTimer,   \* as in TapSemantics
    External,                           \* variables no rule can set
    TapLists,                           \* the rules to repair, sets of taps
    Errors                              \* properties: sets of conditions

(* The semantics of n rules over the capabilities caps.                    *)
Sem(caps, n) == INSTANCE TapSemantics WITH Var <- caps, NTap <- n

VARIABLES
    taps,      \* the rules given
    error,     \* the conditions that must not hold together
    caps,      \* the capabilities the transition system has
    stage,     \* how far the repair is
    system,    \* the rules of the present transition system
    patches    \* the answer: records [trigger, condition, action]

vars == <<taps, error, caps, stage, system, patches>>

-----------------------------------------------------------------------------
(* Transition systems                                                      *)
Listed(rules) ==
    LET list[S \in SUBSET rules] ==
            IF S = {} THEN <<>>
            ELSE LET r == CHOOSE r \in S : TRUE IN <<r>> \o list[S \ {r}]
    IN  list[rules]

Triggered(f) == \E n \in DOMAIN f.trigger_dict : f.trigger_dict[n]

(* The steps from a field, as _BFS adds them.                              *)
Steps(cs, list, f) ==
    LET n == Len(list)
        set == [kind: {"set"}, var: cs, val: Val]
        enabled == {a \in set : Sem(cs, n)!Enabled(f, a)}
    IN  IF Triggered(f)
        THEN {[src |-> f, act |-> [kind |-> "rule", rule |-> list[k]],
               dst |-> Sem(cs, n)!ApplyRule(f, list, k)] : k \in {k \in 1..n : f.trigger_dict[k]}}
        ELSE {[src |-> f, act |-> a, dst |-> Sem(cs, n)!ApplyAction(f, list, a)] : a \in enabled}
             \cup IF Sem(cs, n)!RunningTimers(f) = {} THEN {}
                  ELSE {[src |-> f, act |-> Sem(cs, n)!TickTarget(f),
                         dst |-> Sem(cs, n)!ApplyTick(f, list)]}

RECURSIVE Explored(_, _, _, _)
Explored(cs, list, edges, pool) ==
    LET new == UNION {Steps(cs, list, f) : f \in pool}
        known == {e.src : e \in edges} \cup pool
    IN  IF pool = {} THEN edges
        ELSE Explored(cs, list, edges \cup new, {e.dst : e \in new} \ known)

(* All variables start with 0.                                             *)
InitField(cs, list) == Sem(cs, Len(list))!InitialField([v \in cs |-> 0], list)
Edges(cs, rules) ==
    LET list == Listed(rules) IN Explored(cs, list, {}, {InitField(cs, list)})

(* getApList and getAllAp: the literals of a field, without trigger bits.  *)
FullCondition(f) ==
    {[on |-> "channel", var |-> v, holds |-> {f.channel_dict[v]}] : v \in DOMAIN f.channel_dict}
    \cup {[on |-> "#", timer |-> i, neg |-> f.timer_type1_dict[i] = 0] :
              i \in DOMAIN f.timer_type1_dict}
    \cup {[on |-> "*", timer |-> i, neg |-> f.timer_type2_dict[i] # 0] :
              i \in DOMAIN f.timer_type2_dict}

(* _getLTLReq: what the property's automaton asks of a state it accepts.   *)
Satisfied(f) == error \subseteq FullCondition(f)

(* The automaton of 'F(error)' looks at states without pending rules only, *)
(* and the product has an edge from its first state to every state: it has *)
(* all edges that do not start in an error.                                *)
Wrong(f) == ~ Triggered(f) /\ Satisfied(f)
ProductEdges(edges) == {e \in edges : ~ Wrong(e.src)}
BadEdges(edges) == {e \in ProductEdges(edges) : Wrong(e.dst)}
OtherEdges(edges) == ProductEdges(edges) \ BadEdges(edges)

-----------------------------------------------------------------------------
Init ==
    /\ taps \in TapLists
    /\ error \in Errors
    /\ caps = {} /\ stage = "given" /\ system = {} /\ patches = {}

(* getChannelList: the capabilities of the property and of the triggers    *)
(* and conditions of rules that set one of them, and those rules.          *)
CapsOf(condition) ==
    {c.var : c \in {c \in condition : c.on = "channel"}}
    \cup {StateTimer[c.timer].var : c \in {c \in condition : c.on = "*"}}
    \cup {EventTimer[c.timer].var : c \in {c \in condition : c.on = "#"}}
TriggerCap(trigger) == IF trigger.kind = "set" THEN trigger.var
                       ELSE IF trigger.kind = "tick*" THEN StateTimer[trigger.timer].var
                       ELSE EventTimer[trigger.timer].var

RECURSIVE CapList(_)
CapList(list) ==
    LET more == UNION {{TriggerCap(r.trigger)} \cup CapsOf(r.condition) :
                          r \in {r \in taps : r.action.var \in list}}
    IN  IF more \subseteq list THEN list ELSE CapList(list \cup more)

GetChannelList ==
    /\ stage = "given"
    /\ caps' = CapList(CapsOf(error))
    /\ system' = {r \in taps : r.action.var \in caps'}
    /\ stage' = "listed"
    /\ UNCHANGED <<taps, error, patches>>

(* Slip: the literals of the state the rule runs in.                       *)
SplitLate ==
    LET edges == Edges(caps, system)
    IN  /\ stage = "listed"
        /\ system' = {[r.act.rule EXCEPT !.condition = FullCondition(r.src)] :
                         r \in {r \in edges : r.act.kind = "rule"}}
        /\ stage' = "split"
        /\ UNCHANGED <<taps, error, caps, patches>>

(* _fixPreProcessing: one rule for every transition of a rule, with the    *)
(* literals of the state before the one the rule runs in.                  *)
FixPreProcessing ==
    LET edges == Edges(caps, system)
    IN  /\ stage = "listed"
        /\ system' = UNION {{[r.act.rule EXCEPT !.condition = FullCondition(e.src)] :
                                r \in {r \in edges : r.src = e.dst /\ r.act.kind = "rule"}} :
                             e \in edges}
        /\ stage' = "split"
        /\ UNCHANGED <<taps, error, caps, patches>>

(* _fixRuleEdges: while rules lead into the error, they are deleted.       *)
RulesToBlame == {e.act.rule : e \in {e \in BadEdges(Edges(caps, system)) : e.act.kind = "rule"}}
FixRuleEdges ==
    /\ stage = "split" /\ RulesToBlame # {}
    /\ system' = system \ RulesToBlame
    /\ UNCHANGED <<taps, error, caps, stage, patches>>

-----------------------------------------------------------------------------
(* _fixConditionGenerator                                                  *)
(* The actions that lead out of the error: getAction(ext=False), and the   *)
(* label that does not satisfy _getLTLReq.                                 *)
Accepted(f) ==
    LET list == Listed(system)
        set == [kind: {"set"}, var: caps \ External, val: Val]
    IN  {a \in set : /\ Sem(caps, Len(list))!Enabled(f, a)
                     /\ ~ Satisfied(Sem(caps, Len(list))!ApplyAction(f, list, a))}

ToFix(edges) ==
    {[trigger |-> e.act, condition |-> FullCondition(e.src), actions |-> Accepted(e.dst)] :
        e \in BadEdges(edges)}
Kept ==
    {[trigger |-> r.trigger, condition |-> r.condition, actions |-> {r.action}] : r \in system}
(* Where an event needs no rule                                            *)
ToLeave(edges, trigger) ==
    {FullCondition(e.src) : e \in {e \in OtherEdges(edges) :
                                       e.act = trigger /\ ~ Triggered(e.dst)}}

(* qmPreProcess and qmAlgorithm: the smallest sets of the shortest         *)
(* conjunctions that cover ones and none of zeros.                         *)
Primes(ones, zeros) ==
    LET cubes == {q \in UNION {SUBSET c : c \in ones} : \A z \in zeros : ~ q \subseteq z}
    IN  {q \in cubes : \A p \in cubes : p \subseteq q => p = q}
Covers(ones, zeros) ==
    LET primes == Primes(ones, zeros)
        covers == {C \in SUBSET primes : \A c \in ones : \E q \in C : q \subseteq c}
    IN  {C \in covers : \A D \in covers : Cardinality(C) <= Cardinality(D)}

(* _fixRegualarEdge: for each trigger, the conditions of all its entries   *)
(* made shorter, and the actions that all of them have.  Slip: the actions *)
(* that one of them has.                                                   *)
Conditions(entries) == {x.condition : x \in entries}
AllActions(entries) == UNION {x.actions : x \in entries}
CommonActions(entries) == {a \in UNION {x.actions : x \in entries} :
                              \A x \in entries : a \in x.actions}

FixRegularEdges ==
    LET edges == Edges(caps, system)
        entries == ToFix(edges) \cup Kept
        triggers == {x.trigger : x \in entries}
        of(g) == {x \in entries : x.trigger = g}
        covers(g) == Covers(Conditions(of(g)), ToLeave(edges, g) \ Conditions(of(g)))
    IN  /\ stage = "split" /\ RulesToBlame = {}
        /\ \E choice \in [triggers -> UNION {covers(g) : g \in triggers}] :
              /\ \A g \in triggers : choice[g] \in covers(g)
              /\ patches' = UNION {{[trigger |-> g, condition |-> c,
                                     actions |-> CommonActions(of(g))] : c \in choice[g]} :
                                      g \in triggers}
        /\ stage' = "done"
        /\ UNCHANGED <<taps, error, caps, system>>

Next == GetChannelList \/ FixPreProcessing \/ FixRuleEdges \/ FixRegularEdges

Spec == Init /\ [][Next]_vars

-----------------------------------------------------------------------------
(* The edges that lead from the fields F on, over edges of this set only.  *)
RECURSIVE From(_, _)
From(edges, F) ==
    LET next == {e \in edges : e.src \in F}
    IN  IF next = {} THEN {} ELSE next \cup From(edges \ next, {e.dst : e \in next})

(* What rules run after an edge until none is pending, in any order.       *)
Cascade(edges, e) == From({c \in edges : Triggered(c.src)}, {e.dst})

(* What rules do to a home: from which state an event leads to which, when *)
(* all rules have run.                                                     *)
Settled(edges, e) ==
    {FullCondition(f) : f \in {f \in {e.dst} \cup {c.dst : c \in Cascade(edges, e)} :
                                   ~ Triggered(f)}}
Effect(edges, e) ==
    [from |-> FullCondition(e.src), event |-> e.act, to |-> Settled(edges, e)]
Behaviour(edges) == {Effect(edges, e) : e \in {e \in edges : ~ Triggered(e.src)}}

(* _fixPreProcessing may split rules only: the parts do together what the  *)
(* rules did, for every event in every state, also when several of them    *)
(* become pending at once or set each other off.                           *)
SplitSame ==
    [][FixPreProcessing =>
          Behaviour(Edges(caps, system')) = Behaviour(Edges(caps, system))]_vars

(* The rules a user makes of the answer: one action for each patch that    *)
(* has any to choose from.                                                 *)
Offered == {p \in patches : p.actions # {}}
Picks ==
    {pick \in [Offered -> UNION {p.actions : p \in Offered}] :
        \A p \in Offered : pick[p] \in p.actions}
Applied(pick) ==
    {[trigger |-> p.trigger, condition |-> p.condition, action |-> pick[p]] : p \in Offered}

(* A trigger that needs different actions in different states: none serves *)
(* every rule that is left for it and every way it has into the error.     *)
(* The answer has no rule for it, and cannot be held to anything there.    *)
Lost ==
    LET bad == BadEdges(Edges(caps, system))
        serves(a, g) == /\ \A r \in system : r.trigger = g => r.action = a
                        /\ \A e \in bad : e.act = g => a \in Accepted(e.dst)
    IN  {g \in {p.trigger : p \in patches} :
            \A a \in [kind: {"set"}, var: caps, val: Val] : ~ serves(a, g)}

(* What happens on an edge: the event, or the action of the rule that runs. *)
Cause(e) == IF e.act.kind = "rule" THEN e.act.rule.action ELSE e.act

(* The repair works: from a start outside the error, the edges of the new  *)
(* rules never let the home come to rest in it, as long as nothing in lost *)
(* happens.                                                                *)
RepairedSafe(edges, start, lost) ==
    ~ Wrong(start) =>
        \A e \in From({e \in edges : Cause(e) \notin lost}, {start}) : ~ Wrong(e.dst)

(* What worked: an event led to no error, nothing in lost happened on the  *)
(* way, and every rule that ran changed something. (Conditions are made    *)
(* shorter as if all triggers were events: what a rule sets that is set    *)
(* already may now set off another.)                                       *)
Worked(lost) ==
    LET given == Edges(caps, {r \in taps : r.action.var \in caps})
        changes(c) == c.src.channel_dict[Cause(c).var] # Cause(c).val
        tried == {e \in given :
                     /\ ~ Triggered(e.src) /\ Cause(e) \notin lost
                     /\ \A c \in Cascade(given, e) : changes(c) /\ Cause(c) \notin lost}
    IN  {b \in {Effect(given, e) : e \in tried} :
            \A c \in {b.from} \cup b.to : ~ error \subseteq c}

(* What worked still works: where the home with the new rules gets into    *)
(* the state and the event comes, they do exactly what the given ones did. *)
KeepsWorked(edges, worked) ==
    LET now == Behaviour(edges)
    IN  \A b \in worked :
            (\E c \in now : c.from = b.from /\ c.event = b.event) => b \in now

(* The rules handed out repair the error and nothing else, whatever action *)
(* the user takes for each patch.                                          *)
RepairCorrect ==
    stage = "done" =>
        LET lost == Lost
            worked == Worked(lost)
        IN  \A pick \in Picks :
                LET edges == Edges(caps, Applied(pick))
                    start == InitField(caps, Listed(Applied(pick)))
                IN  RepairedSafe(edges, start, lost) /\ KeepsWorked(edges, worked)
=============================================================================
