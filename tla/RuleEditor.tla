----------------------------- MODULE RuleEditor ------------------------------
(***************************************************************************)
(* The rule editor: the pages of the Angular application on which a user   *)
(* in control mode lists, creates, edits and deletes rules, the service    *)
(* all pages share (user-data.service.ts), the calls in flight, and what   *)
(* the backend makes of them. The views are one step each here: how their  *)
(* statements interleave is the subject of RuleStore. The rules page is    *)
(* opened in a tab of its own, next to the page of the task; both have the *)
(* session of the browser, which says in which location the user is.       *)
(*                                                                         *)
(* The selectors of the zone, the device and the capability are one page,  *)
(* "select". The devices offered are of type "bin", and the value chosen   *)
(* is always the same. A call that answers with an error has no effect on  *)
(* the page, and neither a call nor an answer is lost otherwise.           *)
(***************************************************************************)
EXTENDS RuleTranslation, SequencesExt

CONSTANTS
    Readable, Writeable,  \* the devices offered for triggers, and for actions
    Tasks,                \* the tasks, each with a scenario and a location
    FirstRules,           \* the rules there are in the beginning
    MaxRules,             \* bound: how many rules there ever are
    MaxClauses,           \* bound: the clauses of an ifClause
    MaxCalls,             \* bound: calls in flight
    MaxClicks             \* bound: what the user does, opening pages of tasks included

(* A row of a rule that this editor has made: its parameter is one of its  *)
(* device.                                                                 *)
Made(row) == row.device \in DOMAIN Devices /\ row.par = row.device
MadeRule(row) ==
    /\ row.loc \in Tasks /\ Made(row.Etrigger) /\ Made(row.action)
    /\ row.Striggers \in Seq(Members(row.Striggers)) /\ Len(row.Striggers) < MaxClauses
    /\ \A state \in Members(row.Striggers) : Made(state)

ASSUME EditorAssumption ==
    /\ Readable \cup Writeable \subseteq {d \in DOMAIN Devices : Type(d) = "bin"}
    /\ Tasks \subseteq Nat \ {0}
    /\ FirstRules \in Seq(Members(FirstRules)) /\ Len(FirstRules) <= MaxRules
    /\ \A row \in Members(FirstRules) : MadeRule(row)
    /\ MaxRules \in Nat /\ MaxClauses \in Nat /\ MaxCalls \in Nat \ {0} /\ MaxClicks \in Nat

VARIABLES
    rule,        \* the ESRule rows, by id
    next_id,     \* the next id of a rule
    session,     \* the task of location_token in the session
    scenario,    \* currentscenario of the user
    arriving,    \* the task whose page has been asked for, 0 for none
    clicks,      \* how often the user has done something
    tab,         \* the page of the tab, its component and the service
    calls,       \* the calls in flight, in the order they were sent
    credit,      \* history: how often Edit was clicked for a rule, less the edits made
    meant,       \* history: the conditions of a rule the page has sent
    tangled,     \* history: parameters of two devices were in flight at once
    overlapped   \* history: so were two calls the list of rules depends on

server == <<rule, next_id, session, scenario, arriving>>
history == <<credit, meant, tangled, overlapped>>
vars == <<server, clicks, tab, calls, history>>

NoRule == [none |-> "rule"]      \* null, or deleted
NoClause == [none |-> "clause"]  \* the same, and a hole in an array
NoRules == [id \in {} |-> NoRule]
NoAnswer == [none |-> "answer"]
Saved == [status |-> 201]

Kinds == {"rules", "full", "params", "form", "new", "delete", "token"}
Listing == {"rules", "new", "delete"}
Choosing == {"params", "form"}
Pages == {"login", "rules", "create", "select", "params"}

-----------------------------------------------------------------------------
check_access_to_location(loc) == loc = session

(* What the backend answers: fe_all_rules_helper, fe_get_full_rule and     *)
(* hio_get_rules_and_devs                                                  *)
fe_all_rules(loc) == [id \in {i \in DOMAIN rule : rule[i].loc = loc} |-> rule[id]]
FullRule(row) ==
    [ifClause |-> <<Loaded(row.Etrigger, TRUE)>> \o
                  [i \in DOMAIN row.Striggers |-> Loaded(row.Striggers[i], FALSE)],
     thenClause |-> <<LoadedAction(row.action)>>]
HomeIORule(row) ==
    [trigger |-> HomeIOClause(row.Etrigger),
     conditions |-> [i \in DOMAIN row.Striggers |-> HomeIOClause(row.Striggers[i])],
     action |-> HomeIOAction(row.action)]

(* The conditions that are saved before one cannot be                      *)
SavedStates(conditions) ==
    LET n == CHOOSE n \in 0 .. Len(conditions) :
                /\ \A i \in 1 .. n : Storable(conditions[i])
                /\ n < Len(conditions) => ~Storable(conditions[n + 1])
    IN  [i \in 1 .. n |-> Stored(conditions[i])]

-----------------------------------------------------------------------------
(* Calls. The answer to one that depends on a component is dropped when    *)
(* the component is gone, and every answer when the application is (lost). *)
Call(kind, args, live) ==
    [kind |-> kind, args |-> args, answer |-> NoAnswer, live |-> live, lost |-> FALSE]
RulesCall(live) == Call("rules", [loc |-> "session"], live)
InFlight(cs, kinds) == {i \in DOMAIN cs : cs[i].kind \in kinds}
Left(cs) == [i \in DOMAIN cs |-> [cs[i] EXCEPT !.live = FALSE]]

(* The calls are cs, and one that is sent now.                             *)
Send(cs, call) ==
    /\ Len(cs) < MaxCalls
    /\ calls' = Append(cs, call)
    /\ tangled' = (tangled \/ /\ call.kind \in Choosing
                              /\ \E i \in InFlight(cs, Choosing) : cs[i].args # call.args)
    /\ overlapped' = IF call.kind \notin Listing THEN overlapped
                     ELSE InFlight(cs, Listing) # {} \/ (overlapped /\ call.kind # "rules")
Quiet(cs) == calls' = cs /\ UNCHANGED <<tangled, overlapped>>

(* What the backend still gets of the calls when the page is left          *)
Abandoned(cs) ==
    LET sent == {i \in InFlight(cs, {"new", "delete"}) : cs[i].answer = NoAnswer}
        Received == {is \in BoundedSeq(sent, Len(cs)) :
                       \A k, l \in DOMAIN is : k < l => is[k] < is[l]}
    IN  {[k \in DOMAIN is |-> [cs[is[k]] EXCEPT !.live = FALSE, !.lost = TRUE]] : is \in Received}

(* stageRule                                                               *)
Staged(staged) == IF staged = NoRule THEN [ifClause |-> <<>>, thenClause |-> <<>>] ELSE staged

(* A page that is entered has a component of its own: what the one before  *)
(* listed or loaded is gone.                                               *)
Entered(t, page) == [t EXCEPT !.page = page, !.list = NoRules, !.loaded = FALSE]

(* The constructors of the pages                                           *)
EnterRules(t, cs) ==
    /\ tab' = Entered(t, "rules")
    /\ Send(Left(cs), RulesCall(TRUE))

EnterCreate(t, cs) ==
    /\ tab' = [Entered(t, "create") EXCEPT !.stopLoadingEdit = TRUE, !.staged = Staged(@)]
    /\ IF t.editingRuleID # 0 /\ ~t.stopLoadingEdit
       THEN Send(Left(cs), Call("full", [id |-> t.editingRuleID, loc |-> t.current_loc], FALSE))
       ELSE Quiet(Left(cs))

(* The route is the same for all parameters: the component stays.          *)
EnterParams(t, cs, device) ==
    IF t.page = "params" THEN tab' = t /\ Quiet(cs)
    ELSE /\ tab' = Entered(t, "params")
         /\ Send(Left(cs), Call("form", device, TRUE))

(* The application as it is loaded with a page                             *)
Loading(page) ==
    [page |-> page, list |-> NoRules, current_loc |-> -1, staged |-> NoRule,
     editing |-> FALSE, editingRuleID |-> 0, stopLoadingEdit |-> TRUE,
     objectType |-> "trigger", objectIndex |-> 0, clause |-> NoClause, loaded |-> FALSE]

Init ==
    /\ rule = FirstRules /\ next_id = Len(FirstRules) + 1
    /\ \E task \in Tasks : session = task /\ scenario = task
    /\ arriving = 0 /\ clicks = 0
    /\ tab = Loading("rules")
    /\ calls = <<RulesCall(TRUE)>>
    /\ credit = [id \in 1 .. MaxRules |-> 0]
    /\ meant = [id \in 1 .. MaxRules |->
                  IF id \in DOMAIN FirstRules THEN Len(FirstRules[id].Striggers) ELSE 0]
    /\ tangled = FALSE /\ overlapped = FALSE

-----------------------------------------------------------------------------
(* The clicks                                                              *)

(* The address of the site: what was staged or in flight is gone, and the  *)
(* login page asks who the user is.                                        *)
OpenSite ==
    /\ tab' = Loading("login")
    /\ \E left \in Abandoned(calls) : Send(left, Call("token", [loc |-> "session"], FALSE))
    /\ UNCHANGED <<server, credit, meant>>

gotoCreate ==
    /\ tab.page = "rules"
    /\ EnterCreate([tab EXCEPT !.staged = NoRule], calls)
    /\ UNCHANGED <<server, credit, meant>>

editRule(id) ==
    /\ tab.page = "rules" /\ id \in DOMAIN tab.list
    /\ EnterCreate([tab EXCEPT !.editingRuleID = id, !.editing = TRUE,
                               !.stopLoadingEdit = FALSE], calls)
    /\ credit' = [credit EXCEPT ![id] = IF @ > MaxCalls THEN @ ELSE @ + 1]
    /\ UNCHANGED <<server, meant>>

deleteRule(id) ==
    /\ tab.page = "rules" /\ id \in DOMAIN tab.list
    /\ Send(calls, Call("delete", [id |-> id, loc |-> tab.current_loc], TRUE))
    /\ UNCHANGED <<server, tab, credit, meant>>

goToRulesHome ==
    /\ tab.page = "create"
    /\ EnterRules(tab, calls)
    /\ UNCHANGED <<server, credit, meant>>

(* It goes through the rules page, whose component asks for the rules.     *)
reloadForRuleClear ==
    /\ tab.page = "create"
    /\ tab' = [tab EXCEPT !.stopLoadingEdit = TRUE, !.staged = Staged(NoRule)]
    /\ Send(Left(calls), RulesCall(FALSE))
    /\ UNCHANGED <<server, credit, meant>>

(* fe_devs_with_loc lists no devices if the session is elsewhere.          *)
EnteredSelect == [Entered(tab, "select") EXCEPT !.loaded = check_access_to_location(tab.current_loc)]

(* Index 0 stands for -1: a clause to add.                                 *)
gotoZoneSelector(type, index) ==
    /\ tab.page = "create"
    /\ IF type = "trigger"
       THEN IF index = 0 THEN Len(tab.staged.ifClause) < MaxClauses
            ELSE index \in DOMAIN tab.staged.ifClause
       ELSE index = 0
    /\ tab' = [EnteredSelect EXCEPT !.objectType = type, !.objectIndex = index]
    /\ Quiet(Left(calls))
    /\ UNCHANGED <<server, credit, meant>>

dev_has_valid_cap(device, type) ==
    IF type = "trigger" THEN device \in Readable ELSE device \in Writeable
OfferedDevices(type) == {d \in DOMAIN Devices : dev_has_valid_cap(d, type)}

(* Slip: the clause chosen before stays.                                   *)
SelectedKept(clause, device) == IF clause = NoClause THEN [device |-> device, par |-> 0] ELSE clause
Selected(clause, device) == [device |-> device, par |-> 0]

gotoParameterConfiguration(device) ==
    /\ tab.page = "select" /\ tab.loaded
    /\ device \in OfferedDevices(tab.objectType)
    /\ tab' = [tab EXCEPT !.clause = Selected(tab.clause, device)]
    /\ Send(calls, Call("params", device, FALSE))
    /\ UNCHANGED <<server, credit, meant>>

Back ==
    \/ /\ tab.page = "select"
       /\ EnterCreate(tab, calls)
       /\ UNCHANGED <<server, credit, meant>>
    \/ /\ tab.page = "params"
       /\ tab' = EnteredSelect
       /\ Quiet(Left(calls))
       /\ UNCHANGED <<server, credit, meant>>

(* ifClause[index] = clause, which may leave a hole                        *)
Put(seq, index, clause) ==
    IF index = 0 THEN Append(seq, clause)
    ELSE [i \in 1 .. (IF index > Len(seq) THEN index ELSE Len(seq)) |->
            IF i = index THEN clause ELSE IF i \in DOMAIN seq THEN seq[i] ELSE NoClause]
Filled(clause) ==
    [device |-> clause.device, par |-> clause.par, comparator |-> "=", value |-> "tval",
     timeValue |-> NoTime]
addClauseToRule(staged) ==
    IF tab.objectType = "trigger"
    THEN [staged EXCEPT !.ifClause = Put(@, tab.objectIndex, Filled(tab.clause))]
    ELSE [staged EXCEPT !.thenClause = <<Filled(tab.clause)>>]

(* Without a staged rule there is an exception, after the clause is gone.  *)
completeParameterSelect ==
    /\ tab.page = "params" /\ tab.loaded /\ tab.clause # NoClause
    /\ IF tab.staged = NoRule
       THEN tab' = [tab EXCEPT !.clause = NoClause] /\ Quiet(calls)
       ELSE /\ Len(addClauseToRule(tab.staged).ifClause) <= MaxClauses
            /\ EnterCreate([tab EXCEPT !.clause = NoClause, !.staged = addClauseToRule(@)], calls)
    /\ UNCHANGED <<server, credit, meant>>

(* Slip: any staged rule is good enough.                                   *)
RuleIsStaged == tab.staged # NoRule
stagedRuleIsValid ==
    tab.staged # NoRule /\ tab.staged.ifClause # <<>> /\ tab.staged.thenClause # <<>>

(* Slip: editing stays set.                                                *)
AfterFinishStillEditing(t) == t
AfterFinish(t) == [t EXCEPT !.editing = FALSE]

finishRule ==
    /\ tab.page = "create" /\ stagedRuleIsValid
    /\ tab.editing \/ next_id + Cardinality(InFlight(calls, {"new"})) <= MaxRules
    /\ tab' = AfterFinish(tab)
    /\ Send(calls, Call("new", [rule |-> tab.staged, loc |-> tab.current_loc,
                                id |-> IF tab.editing THEN tab.editingRuleID ELSE 0], FALSE))
    /\ UNCHANGED <<server, credit, meant>>

-----------------------------------------------------------------------------
(* The backend                                                             *)
Waiting(i, kind) == i \in DOMAIN calls /\ calls[i].kind = kind /\ calls[i].answer = NoAnswer
Answer(i, answer) ==
    calls' = IF calls[i].lost THEN RemoveAt(calls, i) ELSE [calls EXCEPT ![i].answer = answer]
Refuse(i) == calls' = RemoveAt(calls, i)
RulesAnswer == [loc |-> session, rules |-> fe_all_rules(session)]

AnswerRules(i) ==
    /\ Waiting(i, "rules")
    /\ Answer(i, RulesAnswer)
    /\ UNCHANGED <<server, tab, history>>

fe_get_loc_token(i) ==
    /\ Waiting(i, "token")
    /\ Answer(i, [locid |-> session])
    /\ UNCHANGED <<server, tab, history>>

fe_get_full_rule(i) ==
    /\ Waiting(i, "full")
    /\ IF check_access_to_location(calls[i].args.loc) /\ calls[i].args.id \in DOMAIN rule
       THEN Answer(i, FullRule(rule[calls[i].args.id])) ELSE Refuse(i)
    /\ UNCHANGED <<server, tab, history>>

(* An edit of a rule there is not fails, see RuleStore. A clause without   *)
(* "timeValue" fails too, when all before it is saved.                     *)
fe_create_esrule(i) ==
    /\ Waiting(i, "new")
    /\ LET new == calls[i].args
           id == IF new.id = 0 THEN next_id ELSE new.id
           conditions == Tail(new.rule.ifClause)
           row == [loc |-> IF new.id = 0 THEN new.loc ELSE rule[id].loc,
                   Etrigger |-> Stored(Head(new.rule.ifClause)),
                   Striggers |-> SavedStates(conditions),
                   action |-> StoredAction(Head(new.rule.thenClause))]
       IN  IF \/ ~check_access_to_location(new.loc)
              \/ ~Storable(Head(new.rule.ifClause))
              \/ new.id \notin DOMAIN rule \cup {0}
           THEN Refuse(i) /\ UNCHANGED <<rule, next_id, credit, meant>>
           ELSE /\ rule' = [other \in DOMAIN rule \cup {id} |->
                              IF other = id THEN row ELSE rule[other]]
                /\ next_id' = IF new.id = 0 THEN next_id + 1 ELSE next_id
                /\ IF Len(row.Striggers) = Len(conditions) THEN Answer(i, Saved) ELSE Refuse(i)
                /\ credit' = IF new.id = 0 THEN credit ELSE [credit EXCEPT ![id] = @ - 1]
                /\ meant' = [meant EXCEPT ![id] = Len(conditions)]
    /\ UNCHANGED <<session, scenario, arriving, tab, tangled, overlapped>>

(* Without the rule the access is not checked, and the answer is the rules *)
(* of the session.                                                         *)
fe_delete_rule(i) ==
    /\ Waiting(i, "delete")
    /\ LET id == calls[i].args.id
           left == [other \in DOMAIN rule \ {id} |-> rule[other]]
       IN  IF id \in DOMAIN rule /\ ~check_access_to_location(calls[i].args.loc)
           THEN Refuse(i) /\ UNCHANGED rule
           ELSE /\ rule' = left
                /\ Answer(i, [rules |-> [other \in {o \in DOMAIN left : left[o].loc = session}
                                           |-> left[other]]])
    /\ UNCHANGED <<next_id, session, scenario, arriving, tab, history>>

(* The page of a task: fe_get_scenario_info saves the user, and the        *)
(* session is saved with the answer.                                       *)
OpenTask(task) ==
    /\ arriving = 0
    /\ arriving' = task /\ scenario' = task
    /\ UNCHANGED <<rule, next_id, session, tab, calls, history>>

SaveSession ==
    /\ arriving # 0
    /\ session' = arriving /\ arriving' = 0
    /\ UNCHANGED <<rule, next_id, scenario, tab, calls, history>>

-----------------------------------------------------------------------------
(* The answers arrive.                                                     *)
Answered(i, kind) == i \in DOMAIN calls /\ calls[i].kind = kind /\ calls[i].answer # NoAnswer

(* Slip: the list of the page is not replaced.                             *)
ListedBefore(t, call) == t
Listed(t, call) == IF call.live THEN [t EXCEPT !.list = call.answer.rules] ELSE t

RulesArrive(i) ==
    /\ Answered(i, "rules")
    /\ tab' = [Listed(tab, calls[i]) EXCEPT !.current_loc = calls[i].answer.loc]
    /\ Quiet(RemoveAt(calls, i))
    /\ UNCHANGED <<server, credit, meant>>

(* The login page goes on to the rules.                                    *)
TokenArrives(i) ==
    /\ Answered(i, "token")
    /\ EnterRules([tab EXCEPT !.current_loc = calls[i].answer.locid], RemoveAt(calls, i))
    /\ UNCHANGED <<server, credit, meant>>

FullRuleArrives(i) ==
    /\ Answered(i, "full")
    /\ tab' = [tab EXCEPT !.staged = calls[i].answer]
    /\ Quiet(RemoveAt(calls, i))
    /\ UNCHANGED <<server, credit, meant>>

(* fe_get_params answers the same at any time.                             *)
ParamsArrive(i) ==
    /\ Waiting(i, "params")
    /\ EnterParams(tab, RemoveAt(calls, i), calls[i].args)
    /\ UNCHANGED <<server, credit, meant>>

(* Without a clause there is an exception before the form is set up.       *)
FormArrives(i) ==
    /\ Waiting(i, "form")
    /\ tab' = IF tab.clause = NoClause THEN tab
              ELSE [tab EXCEPT !.clause.par = calls[i].args, !.loaded = @ \/ calls[i].live]
    /\ Quiet(RemoveAt(calls, i))
    /\ UNCHANGED <<server, credit, meant>>

(* On the rules page the router has nothing to do.                         *)
NewRuleArrives(i) ==
    /\ Answered(i, "new")
    /\ LET t == [tab EXCEPT !.staged = NoRule]
       IN  IF tab.page = "rules" THEN tab' = t /\ Quiet(RemoveAt(calls, i))
           ELSE EnterRules(t, RemoveAt(calls, i))
    /\ UNCHANGED <<server, credit, meant>>

DeleteArrives(i) ==
    /\ Answered(i, "delete")
    /\ tab' = Listed(tab, calls[i])
    /\ Quiet(RemoveAt(calls, i))
    /\ UNCHANGED <<server, credit, meant>>

Click ==
    \/ gotoCreate \/ goToRulesHome \/ reloadForRuleClear \/ Back
    \/ \E id \in 1 .. MaxRules : editRule(id) \/ deleteRule(id)
    \/ \E type \in {"trigger", "action"}, index \in 0 .. MaxClauses : gotoZoneSelector(type, index)
    \/ \E device \in DOMAIN Devices : gotoParameterConfiguration(device)
    \/ completeParameterSelect \/ finishRule \/ OpenSite
    \/ \E task \in Tasks : OpenTask(task)

Next ==
    \/ clicks < MaxClicks /\ clicks' = clicks + 1 /\ Click
    \/ /\ UNCHANGED clicks
       /\ \/ \E i \in 1 .. MaxCalls :
                \/ AnswerRules(i) \/ fe_get_loc_token(i) \/ fe_get_full_rule(i)
                \/ fe_create_esrule(i) \/ fe_delete_rule(i)
                \/ RulesArrive(i) \/ TokenArrives(i) \/ FullRuleArrives(i) \/ ParamsArrive(i) \/ FormArrives(i)
                \/ NewRuleArrives(i) \/ DeleteArrives(i)
          \/ SaveSession

Spec == Init /\ [][Next]_vars
-----------------------------------------------------------------------------
StagedRule(staged) ==
    /\ Len(staged.ifClause) <= MaxClauses /\ Len(staged.thenClause) <= 1
    /\ \A clause \in Members(staged.ifClause \o staged.thenClause) :
          \/ clause = NoClause
          \/ clause.device \in DOMAIN Devices /\ clause.par \in DOMAIN Devices

(* The state is well formed. A rule is sent only if it has an event and an *)
(* action (stagedRuleIsValid), and the rules have a location each.         *)
EditorTypeOK ==
    /\ DOMAIN rule \subseteq 1 .. (next_id - 1) /\ next_id \in 1 .. (MaxRules + 1)
    /\ session \in Tasks /\ scenario \in Tasks /\ arriving \in Tasks \cup {0}
    /\ \A id \in DOMAIN rule : rule[id].loc \in Tasks /\ Len(rule[id].Striggers) < MaxClauses
    /\ tab.page \in Pages /\ DOMAIN tab.list \subseteq 1 .. (next_id - 1)
    /\ tab.current_loc \in Tasks \cup {-1}
    /\ tab.staged = NoRule \/ StagedRule(tab.staged)
    /\ tab.editing => tab.editingRuleID \in 1 .. (next_id - 1)
    /\ Len(calls) <= MaxCalls
    /\ \A i \in DOMAIN calls :
          /\ calls[i].kind \in Kinds
          /\ calls[i].kind = "new" => /\ StagedRule(calls[i].args.rule)
                                      /\ calls[i].args.rule.ifClause # <<>>
                                      /\ calls[i].args.rule.thenClause # <<>>

(* No rule is overwritten more often than its Edit was clicked, whatever   *)
(* the user does in between and however late the answers are. (It need not *)
(* be the last rule that was edited that the user means to save.)          *)
OverwritesExplained == \A id \in DOMAIN credit : credit[id] >= 0

(* The parameter of a clause is one of the device of that clause, although *)
(* the page that sets it, and the answers it waits for, know the device    *)
(* from the address and the clause from the service; unless parameters of  *)
(* two devices were asked for at the same time.                            *)
ClausesFit ==
    ~tangled /\ tab.staged # NoRule =>
        \A clause \in Members(tab.staged.ifClause \o tab.staged.thenClause) :
            clause # NoClause => clause.par = clause.device

(* The rules page shows the rules that Home I/O runs, and as it runs them: *)
(* once nothing is in flight, if the page is of the task last opened, and  *)
(* no two calls that concern the list were in flight at the same time.     *)
ShownRulesRun ==
    tab.page = "rules" /\ calls = <<>> /\ arriving = 0
            /\ tab.current_loc = session /\ ~overlapped =>
        LET running == fe_all_rules(scenario)
        IN  /\ DOMAIN tab.list = DOMAIN running
            /\ \A id \in DOMAIN running : HomeIORule(tab.list[id]) = HomeIORule(running[id])

(* Whatever rule users write, the analysis, Home I/O and the browser that  *)
(* sends it take it to mean the same (SeenAsRun), and what the analysis    *)
(* makes of it or suggests is shown as it is meant (ComesBack). Neither    *)
(* depends on the state, so they are looked at before the first click.     *)
TranslationsAgree == clicks = 0 => SeenAsRun /\ ComesBack

(* "to edit a rule, need to get all of its intricacies"                    *)
(* (rule-creator.component.ts:32): a rule that was saved has as many       *)
(* conditions as the page showed when it was.                              *)
ConditionsKept == \A id \in DOMAIN rule : Len(rule[id].Striggers) = meant[id]
=============================================================================
