----------------------------- MODULE RuleStore ------------------------------
(***************************************************************************)
(* The rule tables of the Django backend (backend/models.py) under the     *)
(* requests that create, edit, delete and list rules (backend/views.py),   *)
(* and under createusers, which copies a template's rules for a new user.  *)
(* No view opens a transaction, so every save, delete and query of a view  *)
(* commits by itself, and those of concurrent requests interleave: a step  *)
(* of this module is one of them. Steps are taken together only when the   *)
(* rows of the first are referred to by no table before the second; and a  *)
(* trigger is read with its conditions, which are complete here (RuleEditor*)
(* is about the others).                                                   *)
(*                                                                         *)
(* A row that a request inserts is named after the request: <<r, 0>> is    *)
(* the trigger made from ifClause[0], <<r, i>> the one made from           *)
(* ifClause[i], and r itself the action made from thenClause.              *)
(***************************************************************************)
EXTENDS Naturals, FiniteSets, SequencesExt

CONSTANTS
    Request,     \* the requests
    Earlier,     \* the request, long answered, that made the rule there is
    MaxState     \* how many states an ifClause has besides the event

ASSUME RequestAssumption == Earlier \notin Request /\ MaxState \in Nat

VARIABLES
    rule,        \* the ESRule rows, by id
    trigger,     \* the Trigger rows
    action,      \* the Action rows
    next_id,     \* the next id of a rule
    req,         \* the local state of every request
    expected     \* history: the rows there should be, for the ids this is clear of

vars == <<rule, trigger, action, next_id, req, expected>>

Source == Request \cup {Earlier}
Trigger == Source \X (0..MaxState)
ESRule == [Etrigger: Trigger, action: Source, Striggers: SUBSET Trigger]
Modes == {"create", "edit", "delete", "read", "copy"}

RuleIds == 1..(next_id - 1)

(* What a request whose ifClause has n states makes of a rule.             *)
States(r, n) == {<<r, i>> : i \in 1..n}
Content(r, n) == [Etrigger |-> <<r, 0>>, action |-> r, Striggers |-> States(r, n)]
NoRow == Content(Earlier, 0)

-----------------------------------------------------------------------------
(* The statements of the views, in their order. A loop is one word of the  *)
(* script, which is left when it has nothing more to do.                   *)
ReadScript == <<"list_rules", "read_rule", "read_event", "read_states", "read_action", "answer">>

CopyScript == <<"list_rows", "take_rule", "copy_event", "copy_action", "copy_states", "answer">>

CreateScript == <<"insert_rows", "create_rule", "add_states">>

(* Slips: the original rows are deleted before the new ones are saved; the *)
(* original states stay.                                                   *)
EditScriptDeleteFirst ==
    <<"insert_rows", "get_rule", "fetch_rows", "delete_event", "delete_action",
      "save_rule", "list_states", "drop_states", "add_states">>
EditScriptKeepStates ==
    <<"insert_rows", "get_rule", "fetch_rows", "save_rule", "delete_event",
      "delete_action", "add_states">>
EditScript ==
    <<"insert_rows", "get_rule", "fetch_rows", "save_rule", "delete_event",
      "delete_action", "list_states", "drop_states", "add_states">>

(* Slip: the action is left behind.                                        *)
DeleteScriptKeepAction ==
    <<"find_rule", "get_rule", "list_states", "drop_states", "fetch_event",
      "delete_event", "delete_rule">>
DeleteScript ==
    <<"find_rule", "get_rule", "list_states", "drop_states", "fetch_event",
      "delete_event", "fetch_action", "delete_action", "delete_rule">>

Script(mode) ==
    CASE mode = "create" -> CreateScript \o ReadScript
      [] mode = "edit" -> EditScript \o ReadScript
      [] mode = "delete" -> DeleteScript \o ReadScript
      [] mode = "read" -> ReadScript
      [] mode = "copy" -> CopyScript

After(me) ==
    LET script == Script(me.mode)
    IN  script[SelectInSeq(script, LAMBDA pc : pc = me.pc) + 1]

Shown == [id: RuleIds, row: ESRule]

NotBegun == [pc |-> "begin", mode |-> "read", id |-> 0, states |-> 0, added |-> 0,
             row |-> NoRow, rows |-> {}, todo |-> {}, ids |-> {}, shown |-> {},
             busy |-> {}, alone |-> TRUE, failed_at |-> "none"]

(* The rows a rule refers to exist: the foreign keys of the tables.        *)
TypeOK ==
    /\ DOMAIN rule \subseteq RuleIds
    /\ trigger \subseteq Trigger /\ action \subseteq Source
    /\ \A id \in DOMAIN rule :
          /\ rule[id] \in ESRule
          /\ rule[id].Striggers \cup {rule[id].Etrigger} \subseteq trigger
          /\ rule[id].action \in action
    /\ DOMAIN expected \subseteq RuleIds
    /\ \A id \in DOMAIN expected : expected[id] \subseteq ESRule
    /\ \A r \in Request :
          /\ req[r].mode \in Modes
          /\ req[r].pc \in {"begin", "done", "failed"} \cup Range(Script(req[r].mode))
          /\ req[r].id \in 0..(next_id - 1)
          /\ req[r].row \in ESRule
          /\ req[r].rows \cup req[r].shown \subseteq Shown
          /\ req[r].todo \subseteq Trigger
          /\ req[r].ids \cup req[r].busy \subseteq RuleIds

Init ==
    \E n \in 0..MaxState :
        /\ rule = <<Content(Earlier, n)>>
        /\ trigger = {<<Earlier, 0>>} \cup States(Earlier, n)
        /\ action = {Earlier}
        /\ next_id = 2
        /\ req = [r \in Request |-> NotBegun]
        /\ expected = <<{Content(Earlier, n)}>>

-----------------------------------------------------------------------------
RestrictRules(ids) == [id \in ids |-> rule[id]]
PutRule(id, row) ==
    [other \in DOMAIN rule \cup {id} |-> IF other = id THEN row ELSE rule[other]]

(* What ON DELETE CASCADE leaves when rows are deleted. Slip: the rules    *)
(* keep an Etrigger that is gone.                                          *)
DeleteTriggersOnly(ts) ==
    /\ trigger' = trigger \ ts
    /\ rule' = [id \in DOMAIN rule |-> [rule[id] EXCEPT !.Striggers = @ \ ts]]

DeleteTriggers(ts) ==
    /\ trigger' = trigger \ ts
    /\ rule' = [id \in {i \in DOMAIN rule : rule[i].Etrigger \notin ts} |->
                   [rule[id] EXCEPT !.Striggers = @ \ ts]]

DeleteActions(as) ==
    /\ action' = action \ as
    /\ rule' = RestrictRules({id \in DOMAIN rule : rule[id].action \notin as})

-----------------------------------------------------------------------------
Queries == Range(ReadScript) \cup Range(CopyScript)
Reading(r) == req[r].pc \in Queries
Writing(r) == req[r].mode # "read" /\ ~ Reading(r)
                 /\ req[r].pc \notin {"begin", "done", "failed"}
Writers(id) == {r \in Request : Writing(r) /\ req[r].id = id}

Wrote(r) == IF req[r].mode = "delete" THEN {} ELSE {Content(r, req[r].states)}
Clear(id, rows) ==
    [other \in DOMAIN expected \cup {id} |-> IF other = id THEN rows ELSE expected[other]]
Unclear(id) == [other \in DOMAIN expected \ {id} |-> expected[other]]

(* The request goes on with its next statement, its local state now me. A  *)
(* write that was alone on its rule from beginning to end is what the rule *)
(* is expected to be from then on.                                         *)
Advance(r, me) ==
    LET pc == After(req[r])
    IN  /\ req' = [req EXCEPT ![r] = [me EXCEPT !.pc = pc]]
        /\ expected' = IF Writing(r) /\ pc = "list_rules"
                       THEN IF me.alone THEN Clear(me.id, Wrote(r)) ELSE Unclear(me.id)
                       ELSE expected

(* An exception no one catches: the answer is 500.                         *)
Fail(r) ==
    /\ req' = [req EXCEPT ![r] = [NotBegun EXCEPT
                  !.pc = "failed", !.failed_at = req[r].pc, !.mode = req[r].mode,
                  !.id = req[r].id, !.alone = req[r].alone, !.busy = req[r].busy]]
    /\ expected' = IF Writing(r) /\ ~ req[r].alone THEN Unclear(req[r].id) ELSE expected

Tables == <<rule, trigger, action, next_id>>

(* A request arrives. An edit or a delete names a rule there is or was.    *)
Begin(r, mode, id, n) ==
    /\ req[r].pc = "begin"
    /\ IF mode \in {"edit", "delete"} THEN id \in RuleIds ELSE id = 0
    /\ mode \in {"delete", "read", "copy"} => n = 0
    /\ LET others == IF id = 0 THEN {} ELSE Writers(id)
       IN  req' = [q \in Request |->
              IF q = r THEN [NotBegun EXCEPT !.pc = Head(Script(mode)), !.mode = mode,
                                !.id = id, !.states = n, !.alone = (others = {})]
              ELSE IF q \in others THEN [req[q] EXCEPT !.alone = FALSE]
              ELSE IF Reading(q) /\ id # 0 THEN [req[q] EXCEPT !.busy = @ \cup {id}]
              ELSE req[q]]
    /\ UNCHANGED <<Tables, expected>>

(* clause_to_trigger(event) and clause_to_action(action_c).                *)
InsertRows(r) ==
    /\ req[r].pc = "insert_rows"
    /\ trigger' = trigger \cup {<<r, 0>>}
    /\ action' = action \cup {r}
    /\ Advance(r, req[r])
    /\ UNCHANGED <<rule, next_id>>

CreateRule(r) ==
    /\ req[r].pc = "create_rule"
    /\ rule' = PutRule(next_id, Content(r, 0))
    /\ next_id' = next_id + 1
    /\ req' = [req EXCEPT ![r].pc = After(req[r]), ![r].id = next_id]
    /\ UNCHANGED <<trigger, action, expected>>

(* Rule.objects.get of a delete. Without the rule only the rules are read. *)
FindRule(r) ==
    /\ req[r].pc = "find_rule"
    /\ IF req[r].id \in DOMAIN rule THEN Advance(r, req[r])
       ELSE /\ req' = [req EXCEPT ![r].pc = "list_rules"]
            /\ UNCHANGED expected
    /\ UNCHANGED Tables

(* ESRule.objects.get or rule.esrule. An edit that does not find the rule  *)
(* is started again to create it, and pops thenClause once more: IndexError.*)
GetRule(r) ==
    /\ req[r].pc = "get_rule"
    /\ IF req[r].id \in DOMAIN rule
       THEN Advance(r, [req[r] EXCEPT !.row = rule[req[r].id]])
       ELSE Fail(r)
    /\ UNCHANGED Tables

(* rule.Etrigger and rule.action of the row that was read.                 *)
FetchRows(r) ==
    /\ req[r].pc = "fetch_rows"
    /\ IF req[r].row.Etrigger \in trigger /\ req[r].row.action \in action
       THEN Advance(r, req[r]) ELSE Fail(r)
    /\ UNCHANGED Tables

FetchEvent(r) ==
    /\ req[r].pc \in {"fetch_event", "read_event"}
    /\ IF req[r].row.Etrigger \in trigger THEN Advance(r, req[r]) ELSE Fail(r)
    /\ UNCHANGED Tables

FetchAction(r) ==
    /\ req[r].pc = "fetch_action"
    /\ IF req[r].row.action \in action THEN Advance(r, req[r]) ELSE Fail(r)
    /\ UNCHANGED Tables

(* Slip: only the event is assigned.                                       *)
SavedEventOnly(r, row) == [row EXCEPT !.Etrigger = <<r, 0>>]

(* rule.save() writes all fields, and inserts the row again when it is     *)
(* gone, then without states.                                              *)
Saved(r, row) == [row EXCEPT !.Etrigger = <<r, 0>>, !.action = r]

SaveRule(r) ==
    /\ req[r].pc = "save_rule"
    /\ LET id == req[r].id
           row == IF id \in DOMAIN rule THEN rule[id]
                  ELSE [req[r].row EXCEPT !.Striggers = {}]
       IN  rule' = PutRule(id, Saved(r, row))
    /\ Advance(r, req[r])
    /\ UNCHANGED <<trigger, action, next_id>>

DeleteEvent(r) ==
    /\ req[r].pc = "delete_event"
    /\ DeleteTriggers({req[r].row.Etrigger})
    /\ Advance(r, req[r])
    /\ UNCHANGED <<action, next_id>>

DeleteAction(r) ==
    /\ req[r].pc = "delete_action"
    /\ DeleteActions({req[r].row.action})
    /\ Advance(r, req[r])
    /\ UNCHANGED <<trigger, next_id>>

(* rule.Striggers.all(), evaluated once.                                   *)
StatesOf(id) == IF id \in DOMAIN rule THEN rule[id].Striggers ELSE {}

ListStates(r) ==
    /\ req[r].pc = "list_states"
    /\ Advance(r, [req[r] EXCEPT !.todo = StatesOf(req[r].id)])
    /\ UNCHANGED Tables

(* Striggers.remove(st), which only an edit calls, and st.delete().        *)
DropState(r) ==
    /\ req[r].pc = "drop_states"
    /\ \E st \in req[r].todo :
          /\ DeleteTriggers({st})
          /\ req' = [req EXCEPT ![r].todo = @ \ {st}]
    /\ UNCHANGED <<action, next_id, expected>>

StatesDropped(r) ==
    /\ req[r].pc = "drop_states"
    /\ req[r].todo = {}
    /\ Advance(r, req[r])
    /\ UNCHANGED Tables

(* clause_to_trigger(state) and Striggers.add(s_trig), which violates a    *)
(* foreign key when the rule is gone.                                      *)
AddState(r) ==
    /\ req[r].pc = "add_states"
    /\ req[r].added < req[r].states
    /\ LET s_trig == <<r, req[r].added + 1>>
           id == req[r].id
       IN  /\ trigger' = trigger \cup {s_trig}
           /\ IF id \in DOMAIN rule
              THEN /\ rule' = [rule EXCEPT ![id].Striggers = @ \cup {s_trig}]
                   /\ req' = [req EXCEPT ![r].added = @ + 1]
                   /\ UNCHANGED expected
              ELSE Fail(r) /\ UNCHANGED rule
    /\ UNCHANGED <<action, next_id>>

StatesAdded(r) ==
    /\ req[r].pc = "add_states"
    /\ req[r].added = req[r].states
    /\ Advance(r, req[r])
    /\ UNCHANGED Tables

DeleteRule(r) ==
    /\ req[r].pc = "delete_rule"
    /\ rule' = RestrictRules(DOMAIN rule \ {req[r].id})
    /\ Advance(r, req[r])
    /\ UNCHANGED <<trigger, action, next_id>>

-----------------------------------------------------------------------------
(* fe_all_rules_helper, which every write calls for the record too, and    *)
(* the queries of the Home I/O connector.                                  *)
BeingWritten == {req[q].id : q \in {p \in Request : Writing(p)}} \ {0}

ListRules(r) ==
    /\ req[r].pc = "list_rules"
    /\ Advance(r, [req[r] EXCEPT !.ids = DOMAIN rule, !.busy = BeingWritten])
    /\ UNCHANGED Tables

Current(me) == CHOOSE id \in me.ids : \A other \in me.ids : id <= other

ReadRule(r) ==
    /\ req[r].pc = "read_rule"
    /\ req[r].ids # {}
    /\ IF Current(req[r]) \in DOMAIN rule
       THEN Advance(r, [req[r] EXCEPT !.row = rule[Current(req[r])]])
       ELSE Fail(r)
    /\ UNCHANGED Tables

ReadStates(r) ==
    /\ req[r].pc = "read_states"
    /\ Advance(r, [req[r] EXCEPT !.row.Striggers = StatesOf(Current(req[r]))])
    /\ UNCHANGED Tables

(* Slip: the rule is fetched again for its action.                         *)
ReadActionAgain(me) ==
    IF Current(me) \in DOMAIN rule THEN rule[Current(me)].action ELSE me.row.action

(* rule.esrule.action, of the rule that was fetched for the event.         *)
ReadActionOf(me) == me.row.action

ReadAction(r) ==
    /\ req[r].pc = "read_action"
    /\ LET me == req[r]
           shown == [id |-> Current(me), row |-> [me.row EXCEPT !.action = ReadActionOf(me)]]
       IN  IF shown.row.action \in action
           THEN /\ req' = [req EXCEPT ![r].pc = "read_rule", ![r].row = NoRow,
                              ![r].shown = @ \cup {shown}, ![r].ids = @ \ {shown.id}]
                /\ UNCHANGED expected
           ELSE Fail(r)
    /\ UNCHANGED Tables

(* createusers takes the rows of the rules from one query, and of each the *)
(* event, the action and the states there are when their turn comes. What  *)
(* it inserts is in a location that is new. An exception leaves the user   *)
(* with the rules copied until then.                                       *)
ListRows(r) ==
    /\ req[r].pc = "list_rows"
    /\ Advance(r, [req[r] EXCEPT !.rows = {[id |-> id, row |-> rule[id]] : id \in DOMAIN rule},
                                 !.busy = BeingWritten])
    /\ UNCHANGED Tables

TakeRule(r) ==
    /\ req[r].pc = "take_rule"
    /\ \E next \in req[r].rows :
          /\ \A other \in req[r].rows : next.id <= other.id
          /\ Advance(r, [req[r] EXCEPT !.ids = {next.id}, !.row = next.row, !.rows = @ \ {next}])
    /\ UNCHANGED Tables

(* deep_copy_trigger(esrule.Etrigger) and deep_copy_action(esrule.action)  *)
CopyEvent(r) ==
    /\ req[r].pc = "copy_event"
    /\ IF req[r].row.Etrigger \in trigger THEN Advance(r, req[r]) ELSE Fail(r)
    /\ UNCHANGED Tables

CopyAction(r) ==
    /\ req[r].pc = "copy_action"
    /\ IF req[r].row.action \in action THEN Advance(r, req[r]) ELSE Fail(r)
    /\ UNCHANGED Tables

CopyStates(r) ==
    /\ req[r].pc = "copy_states"
    /\ LET me == req[r]
           id == Current(me)
           copy == [id |-> id, row |-> [me.row EXCEPT !.Striggers = StatesOf(id)]]
       IN  req' = [req EXCEPT ![r].pc = "take_rule", ![r].row = NoRow,
                              ![r].shown = @ \cup {copy}, ![r].ids = {}]
    /\ UNCHANGED <<Tables, expected>>

AllRead(r) ==
    /\ req[r].pc \in {"read_rule", "take_rule"}
    /\ req[r].ids = {} /\ req[r].rows = {}
    /\ req' = [req EXCEPT ![r].pc = "answer"]
    /\ UNCHANGED <<Tables, expected>>

Answer(r) ==
    /\ req[r].pc = "answer"
    /\ req' = [req EXCEPT ![r] = [NotBegun EXCEPT !.pc = "done", !.mode = req[r].mode,
                                     !.id = req[r].id, !.alone = req[r].alone]]
    /\ UNCHANGED <<Tables, expected>>

Next ==
    \E r \in Request :
        \/ \E mode \in Modes, id \in 0..(next_id - 1), n \in 0..MaxState : Begin(r, mode, id, n)
        \/ InsertRows(r) \/ CreateRule(r) \/ SaveRule(r) \/ DeleteRule(r)
        \/ FindRule(r) \/ GetRule(r) \/ FetchRows(r) \/ FetchEvent(r) \/ FetchAction(r)
        \/ DeleteEvent(r) \/ DeleteAction(r)
        \/ ListStates(r) \/ DropState(r) \/ StatesDropped(r)
        \/ AddState(r) \/ StatesAdded(r)
        \/ ListRules(r) \/ ReadRule(r) \/ ReadStates(r) \/ ReadAction(r)
        \/ ListRows(r) \/ TakeRule(r) \/ CopyEvent(r) \/ CopyAction(r) \/ CopyStates(r)
        \/ AllRead(r) \/ Answer(r)

Spec == Init /\ [][Next]_vars

-----------------------------------------------------------------------------
(* A rule whose last write overlapped with no other write to it is, while  *)
(* nobody writes it, exactly what that write asked for: its event, its     *)
(* action, all its states and none of an earlier version, or no rule at    *)
(* all after a delete; whatever is done to other rules at the same time,   *)
(* and even when earlier writes left a mixture behind.                     *)
AloneWritesWhole ==
    \A id \in DOMAIN expected :
        Writers(id) = {} => expected[id] = {rule[i] : i \in DOMAIN rule \cap {id}}

(* Requests that write a rule at the same time can mix their states, but   *)
(* never the event of the one with the action of the other.                *)
EventMatchesAction == \A id \in DOMAIN rule : rule[id].Etrigger = <<rule[id].action, 0>>

(* Nor is such a pair ever shown to a reader, although the reader fetches  *)
(* the rule, the event and the action in statements of their own.          *)
ShownTogether ==
    \A r \in Request : \A shown \in req[r].shown :
        shown.row.Etrigger = <<shown.row.action, 0>>

(* A reader shows a rule as it is, and createusers copies it as it is, if  *)
(* the rule is not written while it is read: only writes to that rule can  *)
(* make them show a part of it.                                            *)
ShownWhole ==
    \A r \in Request : \A shown \in req[r].shown :
        shown.id \in DOMAIN expected \ req[r].busy => expected[shown.id] = {shown.row}

(* Readers are shown, and users are given, rules that there are.           *)
ShownTrue == ShownTogether /\ ShownWhole

(* Rows that no rule refers to are left behind only by requests that       *)
(* failed or that overlapped with another write to their rule.             *)
Referred == UNION {rule[id].Striggers \cup {rule[id].Etrigger} : id \in DOMAIN rule}
OrphansExplained ==
    (\A r \in Request : ~ Writing(r) /\ req[r].alone /\ req[r].pc # "failed") =>
        /\ trigger = Referred
        /\ action = {rule[id].action : id \in DOMAIN rule}

(* A write that is alone on its rule fails for one reason only: it is the  *)
(* edit of a rule that has been deleted.                                   *)
AloneSucceeds ==
    \A r \in Request :
        req[r].pc = "failed" /\ req[r].alone /\ req[r].failed_at \notin Queries =>
            req[r].mode = "edit" /\ req[r].failed_at = "get_rule"

(* A reader fails, and a user is created with a part of the rules, only if *)
(* one of the rules is written meanwhile.                                  *)
ReadersSucceed ==
    \A r \in Request :
        req[r].pc = "failed" /\ req[r].failed_at \in Queries => req[r].busy # {}

(* A write that is alone on its rule does what it was asked to, and no     *)
(* request fails without another one that writes.                          *)
AloneWrites == AloneWritesWhole /\ AloneSucceeds /\ ReadersSucceed

(* A rule disappears only by a delete of it. An edit deletes the trigger   *)
(* and the action the rule had, and the deletion cascades to every rule    *)
(* that still refers to them.                                              *)
OnlyDeletesRemove ==
    [][\A id \in DOMAIN rule \ DOMAIN rule' :
          \E r \in Writers(id) : req[r].mode = "delete"]_vars
=============================================================================
