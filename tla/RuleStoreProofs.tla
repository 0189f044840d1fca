-------------------------- MODULE RuleStoreProofs ---------------------------
(***************************************************************************)
(* Theorems about RuleStore, for any number of concurrent requests: what   *)
(* is in a rule comes from one request, only deletes remove rules, a write *)
(* that is alone on its rule does what it was asked to, readers are shown  *)
(* rules that there are, and rows without a rule are left behind only by   *)
(* requests that failed or overlapped.                                     *)
(***************************************************************************)
EXTENDS RuleStore, SequenceTheorems, WellFoundedInduction, TLAPS

(* The event and the action of a row were made by the same request.        *)
Paired(row) ==
    /\ DOMAIN row = {"Etrigger", "action", "Striggers"}
    /\ row.Etrigger = <<row.action, 0>>

Fields == {"pc", "mode", "id", "states", "added", "row", "rows", "todo", "ids",
           "shown", "busy", "alone", "failed_at"}

(* What a request has read and what it shows is paired too: it may be old, *)
(* but it is of one version of a rule.                                     *)
ReqPaired(me) ==
    /\ DOMAIN me = Fields
    /\ Paired(me.row)
    /\ \A shown \in me.rows \cup me.shown : Paired(shown.row)

(* The inductive invariant. EventMatchesAction alone is not inductive for  *)
(* a reader: ShownTogether rests on the row it has fetched.                *)
RulesPaired == \A id \in DOMAIN rule : Paired(rule[id])
ReqsPaired == DOMAIN req = Request /\ \A r \in Request : ReqPaired(req[r])
IInv == RulesPaired /\ ReqsPaired

(* The new row of a request is paired.                                     *)
LEMMA ContentPaired == \A r, n : Paired(Content(r, n))
  BY DEF Paired, Content

(* The local state of a request before it arrives is paired.               *)
LEMMA NotBegunPaired == ReqPaired(NotBegun)
  BY ContentPaired DEF ReqPaired, NotBegun, NoRow, Fields

(* Going on to the next statement with a paired local state leaves all     *)
(* local states paired ...                                                 *)
LEMMA AdvancePaired ==
  ASSUME ReqsPaired, NEW r \in Request, NEW me, ReqPaired(me), Advance(r, me)
  PROVE  ReqsPaired'
<1> DEFINE pc == After(req[r])
<1>1. req' = [req EXCEPT ![r] = [me EXCEPT !.pc = pc]]
  BY DEF Advance
<1> HIDE DEF pc
<1>2. ReqPaired([me EXCEPT !.pc = pc])
  BY DEF ReqPaired, Fields
<1>3. QED
  BY <1>1, <1>2 DEF ReqsPaired

(* ... or failing.                                                         *)
LEMMA FailPaired ==
  ASSUME ReqsPaired, NEW r \in Request, Fail(r)
  PROVE  ReqsPaired'
<1> DEFINE me == [NotBegun EXCEPT !.pc = "failed", !.failed_at = req[r].pc,
                     !.mode = req[r].mode, !.id = req[r].id, !.alone = req[r].alone,
                     !.busy = req[r].busy]
<1>1. req' = [req EXCEPT ![r] = me]
  BY DEF Fail
<1>2. ReqPaired(me)
  BY ContentPaired DEF ReqPaired, NotBegun, NoRow, Fields
<1>3. QED
  BY <1>1, <1>2 DEF ReqsPaired

(* What deletes cascade to does not change the rules that remain.          *)
LEMMA CascadePaired ==
  ASSUME RulesPaired, NEW rows, DeleteTriggers(rows) \/ DeleteActions(rows)
  PROVE  RulesPaired'
<1>1. CASE DeleteTriggers(rows)
  <2>1. SUFFICES ASSUME NEW id \in DOMAIN rule'
                 PROVE  Paired(rule'[id])
    BY DEF RulesPaired
  <2>2. id \in DOMAIN rule /\ rule'[id] = [rule[id] EXCEPT !.Striggers = @ \ rows]
    BY <1>1, <2>1 DEF DeleteTriggers
  <2>3. Paired(rule[id])
    BY <2>2 DEF RulesPaired
  <2>4. QED
    BY <2>2, <2>3 DEF Paired
<1>2. CASE DeleteActions(rows)
  BY <1>2 DEF DeleteActions, RestrictRules, RulesPaired
<1>3. QED
  BY <1>1, <1>2

(* A paired row in the table keeps it paired.                              *)
LEMMA PutPaired ==
  ASSUME RulesPaired, NEW id, NEW row, Paired(row), rule' = PutRule(id, row)
  PROVE  RulesPaired'
  BY DEF RulesPaired, PutRule

(* Initially there is one rule, and no request has read anything.          *)
LEMMA InitPaired == Init => IInv
  BY ContentPaired, NotBegunPaired DEF Init, IInv, RulesPaired, ReqsPaired

(* A request arrives.                                                      *)
LEMMA BeginPaired ==
  ASSUME IInv, NEW r \in Request, NEW mode, NEW id, NEW n, Begin(r, mode, id, n)
  PROVE  IInv'
<1> DEFINE others == IF id = 0 THEN {} ELSE Writers(id)
           begun == [NotBegun EXCEPT !.pc = Head(Script(mode)), !.mode = mode,
                        !.id = id, !.states = n, !.alone = (others = {})]
<1>1. req' = [q \in Request |->
                IF q = r THEN begun
                ELSE IF q \in others THEN [req[q] EXCEPT !.alone = FALSE]
                ELSE IF Reading(q) /\ id # 0 THEN [req[q] EXCEPT !.busy = @ \cup {id}]
                ELSE req[q]]
  BY Zenon DEF Begin
<1>2. ReqPaired(begun)
  <2>1. begun.row = NoRow /\ begun.rows = {} /\ begun.shown = {} /\ DOMAIN begun = Fields
    BY DEF NotBegun, Fields
  <2>2. QED
    BY <2>1, ContentPaired DEF ReqPaired, NoRow
<1> HIDE DEF begun, others
<1>3. ASSUME NEW q \in Request
      PROVE  /\ ReqPaired(req[q])
             /\ ReqPaired([req[q] EXCEPT !.alone = FALSE])
             /\ ReqPaired([req[q] EXCEPT !.busy = @ \cup {id}])
  BY DEF IInv, ReqsPaired, ReqPaired, Fields
<1>4. ReqsPaired'
  BY <1>1, <1>2, <1>3 DEF ReqsPaired
<1>5. RulesPaired'
  BY DEF Begin, Tables, IInv, RulesPaired
<1>6. QED
  BY <1>4, <1>5 DEF IInv

(* The statements that change no table and go on, or fail: the row that is *)
(* read is one of the table, and the states that are read do not matter.   *)
LEMMA QueryPaired ==
  ASSUME IInv, NEW r \in Request,
         \/ FindRule(r) \/ GetRule(r) \/ FetchRows(r) \/ FetchEvent(r) \/ FetchAction(r)
         \/ ListStates(r) \/ StatesDropped(r) \/ StatesAdded(r)
         \/ ListRules(r) \/ ReadRule(r) \/ ReadStates(r) \/ ListRows(r) \/ CopyEvent(r) \/ CopyAction(r)
         \/ AllRead(r) \/ Answer(r)
  PROVE  IInv'
<1> USE DEF IInv
<1>1. RulesPaired'
  BY DEF RulesPaired, Tables, FindRule, GetRule, FetchRows, FetchEvent, FetchAction,
         ListStates, StatesDropped, StatesAdded, ListRules, ReadRule, ReadStates,
         ListRows, CopyEvent, CopyAction, AllRead, Answer
<1>2. ReqPaired(req[r])
  BY DEF ReqsPaired
<1>3. CASE FindRule(r)
  <2>1. CASE Advance(r, req[r])
    BY <1>1, <1>2, <2>1, AdvancePaired
  <2>2. CASE req' = [req EXCEPT ![r].pc = "list_rules"]
    <3>1. ReqPaired([req[r] EXCEPT !.pc = "list_rules"])
      BY <1>2 DEF ReqPaired, Fields
    <3>2. QED
      BY <1>1, <2>2, <3>1 DEF ReqsPaired
  <2>3. QED
    BY <1>3, <2>1, <2>2 DEF FindRule
<1>4. CASE GetRule(r) \/ ReadRule(r)
  <2>1. PICK id : Fail(r) \/ (id \in DOMAIN rule /\ Advance(r, [req[r] EXCEPT !.row = rule[id]]))
    BY <1>4 DEF GetRule, ReadRule
  <2>2. CASE Fail(r)
    BY <1>1, <2>2, FailPaired
  <2>3. CASE id \in DOMAIN rule /\ Advance(r, [req[r] EXCEPT !.row = rule[id]])
    <3>1. ReqPaired([req[r] EXCEPT !.row = rule[id]])
      BY <1>2, <2>3 DEF ReqPaired, Fields, RulesPaired
    <3>2. QED
      BY <1>1, <2>3, <3>1, AdvancePaired
  <2>4. QED
    BY <2>1, <2>2, <2>3
<1>5. CASE \/ FetchRows(r) \/ FetchEvent(r) \/ FetchAction(r) \/ CopyEvent(r) \/ CopyAction(r)
          \/ StatesDropped(r) \/ StatesAdded(r)
  <2>1. Advance(r, req[r]) \/ Fail(r)
    BY <1>5 DEF FetchRows, FetchEvent, FetchAction, CopyEvent, CopyAction, StatesDropped, StatesAdded
  <2>2. QED
    BY <1>1, <1>2, <2>1, AdvancePaired, FailPaired
<1>6. CASE ListStates(r)
  <2>1. PICK states : Advance(r, [req[r] EXCEPT !.todo = states])
    BY <1>6 DEF ListStates
  <2>2. ReqPaired([req[r] EXCEPT !.todo = states])
    BY <1>2 DEF ReqPaired, Fields
  <2>3. QED
    BY <1>1, <2>1, <2>2, AdvancePaired
<1>7. CASE ListRules(r)
  <2>1. PICK ids, busy : Advance(r, [req[r] EXCEPT !.ids = ids, !.busy = busy])
    BY <1>7 DEF ListRules
  <2>2. ReqPaired([req[r] EXCEPT !.ids = ids, !.busy = busy])
    BY <1>2 DEF ReqPaired, Fields
  <2>3. QED
    BY <1>1, <2>1, <2>2, AdvancePaired
<1>8. CASE ReadStates(r)
  <2>1. PICK states : Advance(r, [req[r] EXCEPT !.row.Striggers = states])
    BY <1>8 DEF ReadStates
  <2>2. ReqPaired([req[r] EXCEPT !.row.Striggers = states])
    BY <1>2 DEF ReqPaired, Fields, Paired
  <2>3. QED
    BY <1>1, <2>1, <2>2, AdvancePaired
<1>9. CASE AllRead(r)
  <2>1. ReqPaired([req[r] EXCEPT !.pc = "answer"])
    BY <1>2 DEF ReqPaired, Fields
  <2>2. QED
    BY <1>1, <1>9, <2>1 DEF AllRead, ReqsPaired
<1>10. CASE Answer(r)
  <2> DEFINE me == [NotBegun EXCEPT !.pc = "done", !.mode = req[r].mode,
                       !.id = req[r].id, !.alone = req[r].alone]
  <2>1. me.row = NoRow /\ me.rows = {} /\ me.shown = {} /\ DOMAIN me = Fields
    BY DEF NotBegun, Fields
  <2>2. req' = [req EXCEPT ![r] = me]
    BY <1>10 DEF Answer
  <2> HIDE DEF me
  <2>3. ReqPaired(me)
    BY <2>1, ContentPaired DEF ReqPaired, NoRow
  <2>4. QED
    BY <1>1, <2>2, <2>3 DEF ReqsPaired
<1>11. CASE ListRows(r)
  <2> DEFINE rows == {[id |-> id, row |-> rule[id]] : id \in DOMAIN rule}
  <2>1. PICK busy : Advance(r, [req[r] EXCEPT !.rows = rows, !.busy = busy])
    BY <1>11 DEF ListRows
  <2>2. \A listed \in rows : Paired(listed.row)
    BY DEF RulesPaired
  <2> HIDE DEF rows
  <2>3. ReqPaired([req[r] EXCEPT !.rows = rows, !.busy = busy])
    BY <1>2, <2>2 DEF ReqPaired, Fields
  <2>4. QED
    BY <1>1, <2>1, <2>3, AdvancePaired
<1>12. QED
  BY <1>3, <1>4, <1>5, <1>6, <1>7, <1>8, <1>9, <1>10, <1>11

(* The reader has fetched event and action of one row.                     *)
LEMMA ReadActionPaired ==
  ASSUME IInv, NEW r \in Request, ReadAction(r)
  PROVE  IInv'
<1> DEFINE me == req[r]
           shown == [id |-> Current(me), row |-> [me.row EXCEPT !.action = ReadActionOf(me)]]
<1>1. RulesPaired'
  BY DEF IInv, RulesPaired, ReadAction, Tables
<1>2. ReqPaired(me)
  BY DEF IInv, ReqsPaired
<1>3. Paired(shown.row)
  BY <1>2 DEF ReqPaired, Paired, ReadActionOf
<1>4. CASE Fail(r)
  BY <1>1, <1>4, FailPaired DEF IInv
<1>5. CASE req' = [req EXCEPT ![r].pc = "read_rule", ![r].row = NoRow,
                      ![r].shown = @ \cup {shown}, ![r].ids = @ \ {shown.id}]
  <2>1. req' = [req EXCEPT ![r] = [me EXCEPT !.pc = "read_rule", !.row = NoRow,
                      !.shown = @ \cup {shown}, !.ids = @ \ {shown.id}]]
    BY <1>5 DEF IInv, ReqsPaired
  <2> HIDE DEF shown
  <2>2. ReqPaired([me EXCEPT !.pc = "read_rule", !.row = NoRow,
                      !.shown = @ \cup {shown}, !.ids = @ \ {shown.id}])
    BY <1>2, <1>3, ContentPaired DEF ReqPaired, Fields, NoRow
  <2> HIDE DEF me
  <2>3. QED
    BY <1>1, <2>1, <2>2 DEF IInv, ReqsPaired
<1>6. QED
  BY <1>4, <1>5 DEF ReadAction

(* The rules of a template are copied from rows that were in the table.    *)
LEMMA CopyPaired ==
  ASSUME IInv, NEW r \in Request, TakeRule(r) \/ CopyStates(r)
  PROVE  IInv'
<1> DEFINE me == req[r]
<1>1. RulesPaired'
  BY DEF IInv, RulesPaired, TakeRule, CopyStates, Tables
<1>2. ReqPaired(me)
  BY DEF IInv, ReqsPaired
<1>3. CASE TakeRule(r)
  <2>1. PICK next \in me.rows :
           Advance(r, [me EXCEPT !.ids = {next.id}, !.row = next.row, !.rows = @ \ {next}])
    BY <1>3 DEF TakeRule
  <2>2. ReqPaired([me EXCEPT !.ids = {next.id}, !.row = next.row, !.rows = @ \ {next}])
    BY <1>2 DEF ReqPaired, Fields
  <2>3. QED
    BY <1>1, <2>1, <2>2, AdvancePaired DEF IInv
<1>4. CASE CopyStates(r)
  <2> DEFINE id == Current(me)
             copy == [id |-> id, row |-> [me.row EXCEPT !.Striggers = StatesOf(id)]]
             copied == [me EXCEPT !.pc = "take_rule", !.row = NoRow,
                           !.shown = @ \cup {copy}, !.ids = {}]
  <2>1. req' = [req EXCEPT ![r] = copied]
    BY <1>4 DEF CopyStates, IInv, ReqsPaired
  <2>2. Paired(copy.row)
    BY <1>2 DEF ReqPaired, Paired
  <2> HIDE DEF copy
  <2>3. ReqPaired(copied)
    BY <1>2, <2>2, ContentPaired DEF ReqPaired, Fields, NoRow
  <2> HIDE DEF copied, me
  <2>4. QED
    BY <1>1, <2>1, <2>3 DEF IInv, ReqsPaired
<1>5. QED
  BY <1>3, <1>4

(* The statements that write a table.                                      *)
LEMMA WritePaired ==
  ASSUME IInv, NEW r \in Request,
         \/ InsertRows(r) \/ CreateRule(r) \/ SaveRule(r) \/ DeleteRule(r)
         \/ DeleteEvent(r) \/ DeleteAction(r) \/ DropState(r) \/ AddState(r)
  PROVE  IInv'
<1> USE DEF IInv
<1>1. ReqPaired(req[r])
  BY DEF ReqsPaired
<1>2. CASE InsertRows(r)
  BY <1>1, <1>2, AdvancePaired DEF InsertRows, RulesPaired
<1>3. CASE CreateRule(r)
  <2>1. RulesPaired'
    BY <1>3, ContentPaired, PutPaired DEF CreateRule
  <2>2. PICK pc : req' = [req EXCEPT ![r].pc = pc, ![r].id = next_id]
    BY <1>3 DEF CreateRule
  <2>3. ReqPaired([req[r] EXCEPT !.pc = pc, !.id = next_id])
    BY <1>1 DEF ReqPaired, Fields
  <2>4. QED
    BY <2>1, <2>2, <2>3 DEF ReqsPaired
<1>4. CASE SaveRule(r)
  <2> DEFINE id == req[r].id
             row == IF id \in DOMAIN rule THEN rule[id]
                    ELSE [req[r].row EXCEPT !.Striggers = {}]
  <2>1. rule' = PutRule(id, Saved(r, row)) /\ Advance(r, req[r])
    BY <1>4 DEF SaveRule
  <2>2. Paired(row)
    BY <1>1 DEF RulesPaired, ReqPaired, Paired
  <2> HIDE DEF row
  <2>3. Paired(Saved(r, row))
    BY <2>2 DEF Paired, Saved
  <2>4. QED
    BY <1>1, <2>1, <2>3, PutPaired, AdvancePaired
<1>5. CASE DeleteRule(r)
  BY <1>1, <1>5, AdvancePaired DEF DeleteRule, RestrictRules, RulesPaired
<1>6. CASE DeleteEvent(r)
  BY <1>1, <1>6, CascadePaired, AdvancePaired DEF DeleteEvent
<1>7. CASE DeleteAction(r)
  BY <1>1, <1>7, CascadePaired, AdvancePaired DEF DeleteAction
<1>8. CASE DropState(r)
  <2>1. PICK st : DeleteTriggers({st}) /\ req' = [req EXCEPT ![r].todo = @ \ {st}]
    BY <1>8 DEF DropState
  <2>2. ReqPaired([req[r] EXCEPT !.todo = @ \ {st}])
    BY <1>1 DEF ReqPaired, Fields
  <2>3. QED
    BY <2>1, <2>2, CascadePaired DEF ReqsPaired
<1>9. CASE AddState(r)
  <2> DEFINE id == req[r].id
             s_trig == <<r, req[r].added + 1>>
  <2>1. CASE Fail(r) /\ UNCHANGED rule
    BY <2>1, FailPaired DEF RulesPaired
  <2>2. CASE /\ rule' = [rule EXCEPT ![id].Striggers = @ \cup {s_trig}]
             /\ req' = [req EXCEPT ![r].added = @ + 1]
    <3>1. RulesPaired'
      BY <2>2 DEF RulesPaired, Paired
    <3>2. ReqPaired([req[r] EXCEPT !.added = @ + 1])
      BY <1>1 DEF ReqPaired, Fields
    <3>3. QED
      BY <2>2, <3>1, <3>2 DEF ReqsPaired
  <2>3. QED
    BY <1>9, <2>1, <2>2 DEF AddState
<1>10. QED
  BY <1>2, <1>3, <1>4, <1>5, <1>6, <1>7, <1>8, <1>9

(* Every step preserves the invariant.                                     *)
LEMMA NextPaired == IInv /\ [Next]_vars => IInv'
<1> SUFFICES ASSUME IInv, [Next]_vars PROVE IInv'
  OBVIOUS
<1>1. CASE UNCHANGED vars
  BY <1>1 DEF vars, IInv, RulesPaired, ReqsPaired
<1>2. ASSUME Next PROVE IInv'
  BY <1>2, BeginPaired, QueryPaired, ReadActionPaired, CopyPaired, WritePaired, Zenon DEF Next
<1>3. QED
  BY <1>1, <1>2

(* The event and the action of every rule were made by one request, and    *)
(* readers are only ever shown such pairs, however many requests edit,     *)
(* delete and read the rules at the same time.                             *)
THEOREM EventsMatchActions == Spec => [](EventMatchesAction /\ ShownTogether)
<1>1. IInv => EventMatchesAction /\ ShownTogether
  BY DEF IInv, RulesPaired, ReqsPaired, ReqPaired, Paired, EventMatchesAction, ShownTogether
<1>2. QED
  BY <1>1, InitPaired, NextPaired, PTL DEF Spec
-----------------------------------------------------------------------------
(* Only a delete of a rule removes it: the cascades of what edits delete   *)
(* reach no rule. An edit deletes the event and the action it has found in *)
(* its rule after it has put its own there; that no rule refers to them    *)
(* any more rests on who may ever have written them where.                 *)

(* The words of the scripts, by mode                                       *)
ReadWords == {"list_rules", "read_rule", "read_event", "read_states", "read_action", "answer"}
CopyWords == {"list_rows", "take_rule", "copy_event", "copy_action", "copy_states", "answer"}
CreateWords == {"insert_rows", "create_rule", "add_states"}
EditWords == {"insert_rows", "get_rule", "fetch_rows", "save_rule", "delete_event",
              "delete_action", "list_states", "drop_states", "add_states"}
DeleteWords == {"find_rule", "get_rule", "list_states", "drop_states", "fetch_event",
                "delete_event", "fetch_action", "delete_action", "delete_rule"}
Words == ReadWords \cup CopyWords \cup CreateWords \cup EditWords \cup DeleteWords

(* A request is where its script may be.                                   *)
Placed(me) ==
    \/ me.pc \in {"begin", "done", "failed"}
    \/ me.mode \in {"create", "edit", "delete", "read"} /\ me.pc \in ReadWords
    \/ me.mode = "copy" /\ me.pc \in CopyWords
    \/ me.mode = "create" /\ me.pc \in CreateWords
    \/ me.mode = "edit" /\ me.pc \in EditWords
    \/ me.mode = "delete" /\ me.pc \in DeleteWords

(* It has written its event and action into a rule, if it ever does: from  *)
(* then on it writes no other rows there.                                  *)
Past(me) == me.pc \notin {"begin", "insert_rows", "find_rule", "get_rule", "fetch_rows",
                          "save_rule", "create_rule"}

(* Only the rule of id can have the event and the action that q has made.  *)
Owner(reqs, q, id) ==
    \/ q = Earlier /\ id = 1
    \/ q \in Request /\ reqs[q].id = id /\ Past(reqs[q])

(* It holds the row of its rule that it has fetched.                       *)
Holding(me) ==
    \/ me.mode = "edit" /\ me.pc \in {"fetch_rows", "save_rule", "delete_event", "delete_action"}
    \/ me.mode = "delete" /\ me.pc \in {"list_states", "drop_states", "fetch_event",
                                        "delete_event", "fetch_action", "delete_action"}
(* ... and has replaced it.                                                *)
Replaced(me) == me.mode = "edit" /\ me.pc \in {"delete_event", "delete_action"}

(* States are no events.                                                   *)
NoEvents(ts) == \A q : <<q, 0>> \notin ts

(* The inductive invariant, besides IInv of RuleStoreProofs.               *)
ReqSound(me) ==
    /\ Placed(me)
    /\ NoEvents(me.todo) /\ me.added \in Nat
RulesOwned == \A id \in DOMAIN rule : Owner(req, rule[id].action, id) /\ NoEvents(rule[id].Striggers)
ReqsSound == \A r \in Request : ReqSound(req[r])
RowsOwned == \A r \in Request : Holding(req[r]) => Owner(req, req[r].row.action, req[r].id)
OldGone == \A r \in Request : Replaced(req[r]) =>
               \A id \in DOMAIN rule : rule[id].action # req[r].row.action
DInv == RulesOwned /\ ReqsSound /\ RowsOwned /\ OldGone
-----------------------------------------------------------------------------
(* The scripts                                                             *)

(* What a sequence is made of after it is joined to another.               *)
LEMMA Joined ==
  ASSUME NEW S, NEW s \in Seq(S), NEW t \in Seq(S)
  PROVE  /\ Len(s \o t) = Len(s) + Len(t)
         /\ DOMAIN (s \o t) = 1 .. Len(s) + Len(t)
         /\ \A k \in 1 .. Len(s) : (s \o t)[k] = s[k]
         /\ \A k \in 1 .. Len(t) : (s \o t)[Len(s) + k] = t[k]
<1>1. /\ s \o t \in Seq(S)
      /\ Len(s \o t) = Len(s) + Len(t)
      /\ \A i \in 1 .. Len(s) + Len(t) : (s \o t)[i] = IF i <= Len(s) THEN s[i] ELSE t[i - Len(s)]
  BY ConcatProperties
<1>2. Len(s) \in Nat /\ Len(t) \in Nat
  OBVIOUS
<1>3. DOMAIN (s \o t) = 1 .. Len(s \o t)
  BY <1>1
<1>4. ASSUME NEW k \in 1 .. Len(s) PROVE (s \o t)[k] = s[k]
  BY <1>1, <1>2
<1>5. ASSUME NEW k \in 1 .. Len(t) PROVE (s \o t)[Len(s) + k] = t[k]
  <2> DEFINE i == Len(s) + k
  <2>1. i \in 1 .. Len(s) + Len(t) /\ ~(i <= Len(s)) /\ i - Len(s) = k
    BY <1>2
  <2>2. (s \o t)[i] = t[i - Len(s)]
    BY <1>1, <2>1
  <2>3. QED
    BY <2>1, <2>2
<1>6. QED
  BY <1>1, <1>3, <1>4, <1>5

(* The word after one of a script that ends with the one of reading        *)
LEMMA JoinedWords ==
  ASSUME NEW S, ReadScript \in Seq(S), NEW w \in Seq(S), NEW me, Script(me.mode) = w \o ReadScript,
         \A i, j \in 1 .. Len(w) : w[i] = w[j] => i = j,
         \A i \in 1 .. Len(w) : w[i] \notin ReadWords
  PROVE  /\ \A k \in 1 .. Len(w) - 1 : me.pc = w[k] => After(me) = w[k + 1]
         /\ me.pc = w[Len(w)] /\ w # <<>> => After(me) = "list_rules"
         /\ \A k \in 1 .. 5 : me.pc = ReadScript[k] => After(me) = ReadScript[k + 1]
<1> DEFINE s == w \o ReadScript
           n == Len(w)
<1>1. Len(ReadScript) = 6
  BY DEF ReadScript
<1>2. n \in Nat
  OBVIOUS
<1>3. /\ Len(s) = n + 6
      /\ \A k \in 1 .. n : s[k] = w[k]
      /\ \A k \in 1 .. 6 : s[n + k] = ReadScript[k]
  <2>1. /\ Len(s) = n + Len(ReadScript)
        /\ \A k \in 1 .. n : s[k] = w[k]
        /\ \A k \in 1 .. Len(ReadScript) : s[n + k] = ReadScript[k]
    BY Joined
  <2> HIDE DEF s
  <2>2. QED
    BY <1>1, <2>1
<1>4. \A i, j \in 1 .. 6 : ReadScript[i] = ReadScript[j] => i = j
  BY DEF ReadScript
<1>5. \A i \in 1 .. 6 : ReadScript[i] \in ReadWords
  BY DEF ReadScript, ReadWords
<1> HIDE DEF s, n
<1>6. ASSUME NEW i \in 1 .. n + 6, NEW j \in 1 .. n + 6, s[i] = s[j]
      PROVE  i = j
  <2>1. CASE i <= n /\ j <= n
    <3>1. i \in 1 .. Len(w) /\ j \in 1 .. Len(w) /\ w[i] = w[j]
      BY <1>2, <1>3, <1>6, <2>1 DEF n
    <3>2. QED
      BY <3>1
  <2>2. CASE i > n /\ j > n
    <3>1. i - n \in 1 .. 6 /\ j - n \in 1 .. 6 /\ n + (i - n) = i /\ n + (j - n) = j
      BY <1>2, <2>2
    <3>2. ReadScript[i - n] = ReadScript[j - n]
      BY <1>3, <1>6, <3>1
    <3>3. i - n = j - n
      BY <1>4, <3>1, <3>2
    <3>4. QED
      BY <1>2, <3>3
  <2>3. ASSUME NEW a \in 1 .. n, NEW b \in n + 1 .. n + 6 PROVE s[a] # s[b]
    <3>1. b - n \in 1 .. 6 /\ n + (b - n) = b
      BY <1>2
    <3>2. s[b] \in ReadWords
      BY <1>3, <1>5, <3>1
    <3>3. QED
      BY <1>3, <3>2 DEF n
  <2>4. QED
    BY <1>2, <1>6, <2>1, <2>2, <2>3
<1>7. ASSUME NEW k \in 1 .. n + 6, me.pc = s[k] PROVE After(me) = s[k + 1]
  <2> DEFINE I == {i \in 1 .. Len(s) : s[i] = me.pc}
  <2>1. s = Script(me.mode)
    BY DEF s
  <2>2. I = {k}
    BY <1>2, <1>3, <1>6, <1>7
  <2>3. Min(I) = k
    BY <2>2 DEF Min
  <2>4. SelectInSeq(s, LAMBDA pc : pc = me.pc) = k
    BY <2>2, <2>3 DEF SelectInSeq
  <2>5. QED
    BY <2>1, <2>4 DEF After
<1>8. ASSUME NEW k \in 1 .. n - 1, me.pc = w[k] PROVE After(me) = w[k + 1]
  <2>1. k \in 1 .. n /\ k + 1 \in 1 .. n /\ k \in 1 .. n + 6
    BY <1>2
  <2>2. QED
    BY <1>3, <1>7, <1>8, <2>1
<1>9. ASSUME me.pc = w[n], w # <<>> PROVE After(me) = "list_rules"
  <2>1. n \in 1 .. n /\ n \in 1 .. n + 6
    BY <1>2, <1>9 DEF n
  <2>2. After(me) = s[n + 1]
    BY <1>3, <1>7, <1>9, <2>1
  <2>3. s[n + 1] = ReadScript[1]
    BY <1>3
  <2>4. QED
    BY <2>2, <2>3 DEF ReadScript
<1>10. ASSUME NEW k \in 1 .. 5, me.pc = ReadScript[k] PROVE After(me) = ReadScript[k + 1]
  <2>1. k \in 1 .. 6 /\ k + 1 \in 1 .. 6 /\ n + k \in 1 .. n + 6 /\ (n + k) + 1 = n + (k + 1)
    BY <1>2
  <2>2. After(me) = s[(n + k) + 1]
    BY <1>3, <1>7, <1>10, <2>1
  <2>3. QED
    BY <1>3, <2>1, <2>2
<1>11. QED
  BY <1>8, <1>9, <1>10 DEF n

(* The word after one of a script that stands alone                        *)
LEMMA ScriptWords ==
  ASSUME NEW me, NEW s, s = Script(me.mode), Len(s) = 6,
         \A i, j \in 1 .. 6 : s[i] = s[j] => i = j
  PROVE  \A k \in 1 .. 6 : me.pc = s[k] => After(me) = s[k + 1]
<1> SUFFICES ASSUME NEW k \in 1 .. 6, me.pc = s[k] PROVE After(me) = s[k + 1]
  OBVIOUS
<1> DEFINE I == {i \in 1 .. Len(s) : s[i] = me.pc}
<1>1. I = {k}
  OBVIOUS
<1>2. Min(I) = k
  BY <1>1 DEF Min
<1>3. SelectInSeq(s, LAMBDA pc : pc = me.pc) = k
  BY <1>1, <1>2 DEF SelectInSeq
<1>4. QED
  BY <1>3 DEF After

(* The word of a mode that follows another                                 *)
Following(mode, pc) ==
    CASE pc = "insert_rows" -> IF mode = "create" THEN "create_rule" ELSE "get_rule"
      [] pc = "create_rule" -> "add_states"
      [] pc = "find_rule" -> "get_rule"
      [] pc = "get_rule" -> IF mode = "edit" THEN "fetch_rows" ELSE "list_states"
      [] pc = "fetch_rows" -> "save_rule"
      [] pc = "save_rule" -> "delete_event"
      [] pc = "fetch_event" -> "delete_event"
      [] pc = "delete_event" -> IF mode = "edit" THEN "delete_action" ELSE "fetch_action"
      [] pc = "fetch_action" -> "delete_action"
      [] pc = "delete_action" -> IF mode = "edit" THEN "list_states" ELSE "delete_rule"
      [] pc = "list_states" -> "drop_states"
      [] pc = "drop_states" -> IF mode = "edit" THEN "add_states" ELSE "fetch_event"
      [] pc \in {"add_states", "delete_rule"} -> "list_rules"
      [] pc = "list_rules" -> "read_rule"
      [] pc = "read_rule" -> "read_event"
      [] pc = "read_event" -> "read_states"
      [] pc = "read_states" -> "read_action"
      [] pc = "list_rows" -> "take_rule"
      [] pc = "take_rule" -> "copy_event"
      [] pc = "copy_event" -> "copy_action"
      [] pc = "copy_action" -> "copy_states"
      [] OTHER -> "answer"

(* The request has not begun, is over or about to answer.                  *)
Ended == {"begin", "done", "failed", "answer"}

(* ReadScript is a sequence of words.                                      *)
LEMMA ReadSeq == ReadScript \in Seq(Words)
  BY DEF ReadScript, Words, ReadWords

(* A request to create a rule goes on as Following says.                   *)
LEMMA AfterCreate ==
  ASSUME NEW me, me.mode = "create", Placed(me), me.pc \notin Ended
  PROVE  After(me) = Following(me.mode, me.pc)
<1> DEFINE w == CreateScript
<1>1. Script(me.mode) = w \o ReadScript
  BY DEF Script
<1>2. w \in Seq(Words)
  BY DEF CreateScript, Words, CreateWords
<1>3. Len(w) = 3 /\ w[1] = "insert_rows" /\ w[2] = "create_rule" /\ w[3] = "add_states" /\ w # <<>>
  BY DEF CreateScript
<1>4. \A i, j \in 1 .. Len(w) : w[i] = w[j] => i = j
  BY <1>3
<1>5. \A i \in 1 .. Len(w) : w[i] \notin ReadWords
  BY <1>3 DEF ReadWords
<1> HIDE DEF w
<1>6. /\ \A k \in 1 .. Len(w) - 1 : me.pc = w[k] => After(me) = w[k + 1]
      /\ me.pc = w[Len(w)] /\ w # <<>> => After(me) = "list_rules"
      /\ \A k \in 1 .. 5 : me.pc = ReadScript[k] => After(me) = ReadScript[k + 1]
  BY <1>1, <1>2, <1>4, <1>5, ReadSeq, JoinedWords
<1>7. QED
  BY <1>3, <1>6 DEF Placed, ReadWords, CreateWords, Ended, Following, ReadScript

(* A request to edit a rule goes on as Following says.                     *)
LEMMA AfterEdit ==
  ASSUME NEW me, me.mode = "edit", Placed(me), me.pc \notin Ended
  PROVE  After(me) = Following(me.mode, me.pc)
<1> DEFINE w == EditScript
<1>1. Script(me.mode) = w \o ReadScript
  BY DEF Script
<1>2. w \in Seq(Words)
  BY DEF EditScript, Words, EditWords
<1>3. /\ Len(w) = 9 /\ w[1] = "insert_rows" /\ w[2] = "get_rule"
      /\ w[3] = "fetch_rows" /\ w[4] = "save_rule" /\ w[5] = "delete_event"
      /\ w[6] = "delete_action" /\ w[7] = "list_states" /\ w[8] = "drop_states"
      /\ w[9] = "add_states" /\ w # <<>>
  BY DEF EditScript
<1>4. \A i, j \in 1 .. Len(w) : w[i] = w[j] => i = j
  BY <1>3
<1>5. \A i \in 1 .. Len(w) : w[i] \notin ReadWords
  BY <1>3 DEF ReadWords
<1> HIDE DEF w
<1>6. /\ \A k \in 1 .. Len(w) - 1 : me.pc = w[k] => After(me) = w[k + 1]
      /\ me.pc = w[Len(w)] /\ w # <<>> => After(me) = "list_rules"
      /\ \A k \in 1 .. 5 : me.pc = ReadScript[k] => After(me) = ReadScript[k + 1]
  BY <1>1, <1>2, <1>4, <1>5, ReadSeq, JoinedWords
<1>7. QED
  BY <1>3, <1>6 DEF Placed, ReadWords, EditWords, Ended, Following, ReadScript

(* A request to delete a rule goes on as Following says.                   *)
LEMMA AfterDelete ==
  ASSUME NEW me, me.mode = "delete", Placed(me), me.pc \notin Ended
  PROVE  After(me) = Following(me.mode, me.pc)
<1> DEFINE w == DeleteScript
<1>1. Script(me.mode) = w \o ReadScript
  BY DEF Script
<1>2. w \in Seq(Words)
  BY DEF DeleteScript, Words, DeleteWords
<1>3. /\ Len(w) = 9 /\ w[1] = "find_rule" /\ w[2] = "get_rule"
      /\ w[3] = "list_states" /\ w[4] = "drop_states" /\ w[5] = "fetch_event"
      /\ w[6] = "delete_event" /\ w[7] = "fetch_action" /\ w[8] = "delete_action"
      /\ w[9] = "delete_rule" /\ w # <<>>
  BY DEF DeleteScript
<1>4. \A i, j \in 1 .. Len(w) : w[i] = w[j] => i = j
  BY <1>3
<1>5. \A i \in 1 .. Len(w) : w[i] \notin ReadWords
  BY <1>3 DEF ReadWords
<1> HIDE DEF w
<1>6. /\ \A k \in 1 .. Len(w) - 1 : me.pc = w[k] => After(me) = w[k + 1]
      /\ me.pc = w[Len(w)] /\ w # <<>> => After(me) = "list_rules"
      /\ \A k \in 1 .. 5 : me.pc = ReadScript[k] => After(me) = ReadScript[k + 1]
  BY <1>1, <1>2, <1>4, <1>5, ReadSeq, JoinedWords
<1>7. QED
  BY <1>3, <1>6 DEF Placed, ReadWords, DeleteWords, Ended, Following, ReadScript

(* A request to list or to copy rules goes on as Following says.           *)
LEMMA AfterReadOrCopy ==
  ASSUME NEW me, me.mode \in {"read", "copy"}, Placed(me), me.pc \notin Ended
  PROVE  After(me) = Following(me.mode, me.pc)
<1> DEFINE s == Script(me.mode)
<1>1. CASE me.mode = "read"
  <2>1. s = ReadScript
    BY <1>1 DEF Script
  <2>2. /\ Len(s) = 6 /\ s[1] = "list_rules" /\ s[2] = "read_rule" /\ s[3] = "read_event"
        /\ s[4] = "read_states" /\ s[5] = "read_action" /\ s[6] = "answer"
    BY <2>1 DEF ReadScript
  <2>3. \A i, j \in 1 .. 6 : s[i] = s[j] => i = j
    BY <2>2
  <2>4. s = Script(me.mode)
    OBVIOUS
  <2> HIDE DEF s
  <2>5. \A k \in 1 .. 6 : me.pc = s[k] => After(me) = s[k + 1]
    BY <2>2, <2>3, <2>4, ScriptWords
  <2>6. QED
    BY <1>1, <2>2, <2>5 DEF Placed, ReadWords, Ended, Following
<1>2. CASE me.mode = "copy"
  <2>1. s = CopyScript
    BY <1>2 DEF Script
  <2>2. /\ Len(s) = 6 /\ s[1] = "list_rows" /\ s[2] = "take_rule" /\ s[3] = "copy_event"
        /\ s[4] = "copy_action" /\ s[5] = "copy_states" /\ s[6] = "answer"
    BY <2>1 DEF CopyScript
  <2>3. \A i, j \in 1 .. 6 : s[i] = s[j] => i = j
    BY <2>2
  <2>4. s = Script(me.mode)
    OBVIOUS
  <2> HIDE DEF s
  <2>5. \A k \in 1 .. 6 : me.pc = s[k] => After(me) = s[k + 1]
    BY <2>2, <2>3, <2>4, ScriptWords
  <2>6. QED
    BY <1>2, <2>2, <2>5 DEF Placed, CopyWords, Ended, Following
<1>3. QED
  BY <1>1, <1>2

(* Every request goes on as Following says.                                *)
LEMMA Afters ==
  ASSUME NEW me, Placed(me), me.pc \notin Ended
  PROVE  After(me) = Following(me.mode, me.pc)
<1>1. me.mode \in {"create", "edit", "delete", "read", "copy"}
  BY DEF Placed, Ended
<1>2. QED
  BY <1>1, AfterCreate, AfterEdit, AfterDelete, AfterReadOrCopy

-----------------------------------------------------------------------------
(* What steps have in common                                               *)

(* Only one rule can have the event and the action of a request.           *)
LEMMA OneOwned ==
  ASSUME NEW q, NEW id, NEW other, Owner(req, q, id), Owner(req, q, other)
  PROVE  id = other
  BY RequestAssumption DEF Owner

(* A request that goes on keeps what is its own.                           *)
LEMMA OwnerStays ==
  ASSUME DOMAIN req = Request, NEW r \in Request, NEW me, req' = [req EXCEPT ![r] = me],
         Past(req[r]) => Past(me) /\ me.id = req[r].id,
         NEW q, NEW id, Owner(req, q, id)
  PROVE  Owner(req', q, id)
  BY DEF Owner

(* A step that leaves the rules the actions they have.                     *)
LEMMA Kept ==
  ASSUME IInv, DInv, NEW r \in Request, NEW me, req' = [req EXCEPT ![r] = me],
         ReqSound(me), Past(req[r]) => Past(me) /\ me.id = req[r].id,
         \A id \in DOMAIN rule' :
            id \in DOMAIN rule /\ rule'[id].action = rule[id].action /\ NoEvents(rule'[id].Striggers),
         Holding(me) => Owner(req, me.row.action, me.id),
         Replaced(me) => Replaced(req[r]) /\ me.row = req[r].row
  PROVE  DInv'
<1>1. DOMAIN req = Request
  BY DEF IInv, ReqsPaired
<1>2. ASSUME NEW q, NEW id, Owner(req, q, id) PROVE Owner(req', q, id)
  BY <1>1, <1>2, OwnerStays
<1>3. RulesOwned'
  BY <1>2 DEF DInv, RulesOwned
<1>4. ReqsSound'
  BY <1>1 DEF DInv, ReqsSound
<1>5. RowsOwned'
  <2> SUFFICES ASSUME NEW q \in Request, Holding(req'[q])
               PROVE  Owner(req', req'[q].row.action, req'[q].id)
    BY DEF RowsOwned
  <2>1. Owner(req, req'[q].row.action, req'[q].id)
    BY <1>1 DEF DInv, RowsOwned
  <2>2. QED
    BY <1>2, <2>1
<1>6. OldGone'
  BY <1>1 DEF DInv, OldGone
<1>7. QED
  BY <1>3, <1>4, <1>5, <1>6 DEF DInv

(* A step that puts a rule with the request's own action into the table.   *)
LEMMA Written ==
  ASSUME IInv, DInv, NEW r \in Request, NEW me, req' = [req EXCEPT ![r] = me],
         ReqSound(me), ~ Past(req[r]), Past(me),
         NEW row, row.action = r, NoEvents(row.Striggers), rule' = PutRule(me.id, row),
         Holding(me) => Holding(req[r]) /\ me.row = req[r].row /\ me.id = req[r].id
  PROVE  DInv'
<1>1. DOMAIN req = Request
  BY DEF IInv, ReqsPaired
<1>2. ASSUME NEW q, NEW id, Owner(req, q, id) PROVE Owner(req', q, id) /\ q # r
  <2>1. Owner(req', q, id)
    BY <1>1, <1>2, OwnerStays
  <2>2. q # r
    BY <1>2, RequestAssumption DEF Owner
  <2>3. QED
    BY <2>1, <2>2
<1>3. /\ DOMAIN rule' = DOMAIN rule \cup {me.id}
      /\ rule'[me.id] = row
      /\ \A id \in DOMAIN rule' \ {me.id} : id \in DOMAIN rule /\ rule'[id] = rule[id]
  BY DEF PutRule
<1>4. Owner(req', r, me.id)
  BY <1>1 DEF Owner
<1>5. RulesOwned'
  <2> SUFFICES ASSUME NEW id \in DOMAIN rule'
               PROVE  Owner(req', rule'[id].action, id) /\ NoEvents(rule'[id].Striggers)
    BY DEF RulesOwned
  <2>1. CASE id = me.id
    BY <1>3, <1>4, <2>1
  <2>2. CASE id # me.id
    BY <1>2, <1>3, <2>2 DEF DInv, RulesOwned
  <2>3. QED
    BY <2>1, <2>2
<1>6. ReqsSound'
  BY <1>1 DEF DInv, ReqsSound
<1>7. ASSUME NEW q \in Request, Holding(req'[q])
      PROVE  Owner(req, req'[q].row.action, req'[q].id)
  BY <1>1, <1>7 DEF DInv, RowsOwned
<1>8. RowsOwned'
  BY <1>2, <1>7 DEF RowsOwned
<1>9. OldGone'
  <2> SUFFICES ASSUME NEW q \in Request, Replaced(req'[q]), NEW id \in DOMAIN rule'
               PROVE  rule'[id].action # req'[q].row.action
    BY DEF OldGone
  <2>1. Owner(req, req'[q].row.action, req'[q].id)
    BY <1>7 DEF Replaced, Holding
  <2>2. CASE id = me.id
    BY <1>2, <1>3, <2>1, <2>2
  <2>3. CASE id # me.id /\ q # r
    BY <1>1, <1>3, <2>3 DEF DInv, OldGone
  <2>4. CASE id # me.id /\ q = r
    <3>1. req'[q] = me
      BY <1>1, <2>4
    <3>2. Owner(req, rule'[id].action, id)
      BY <1>3, <2>4 DEF DInv, RulesOwned
    <3>3. QED
      BY <2>1, <2>4, <3>1, <3>2, OneOwned
  <2>5. QED
    BY <2>2, <2>3, <2>4
<1>10. QED
  BY <1>5, <1>6, <1>8, <1>9 DEF DInv

(* The rules that there are after a step had the same actions before.      *)
Rest == \A id \in DOMAIN rule' :
            /\ id \in DOMAIN rule /\ rule'[id].action = rule[id].action
            /\ NoEvents(rule'[id].Striggers)

(* A step that leaves the table alone satisfies Rest.                      *)
LEMMA SameRules == ASSUME DInv, UNCHANGED rule PROVE Rest
  BY DEF DInv, RulesOwned, Rest

(* A cascade only removes rules.                                           *)
LEMMA CascadeRest ==
  ASSUME DInv, NEW rows, DeleteTriggers(rows) \/ DeleteActions(rows)
  PROVE  Rest
<1>1. CASE DeleteTriggers(rows)
  <2> SUFFICES ASSUME NEW id \in DOMAIN rule'
               PROVE  /\ id \in DOMAIN rule /\ rule'[id].action = rule[id].action
                      /\ NoEvents(rule'[id].Striggers)
    BY DEF Rest
  <2>1. id \in DOMAIN rule /\ rule'[id] = [rule[id] EXCEPT !.Striggers = @ \ rows]
    BY <1>1 DEF DeleteTriggers
  <2>2. NoEvents(rule[id].Striggers)
    BY <2>1 DEF DInv, RulesOwned
  <2>3. QED
    BY <2>1, <2>2 DEF NoEvents
<1>2. CASE DeleteActions(rows)
  BY <1>2 DEF DeleteActions, RestrictRules, Rest, DInv, RulesOwned
<1>3. QED
  BY <1>1, <1>2

(* A request goes on with its next statement.                              *)
LEMMA Onward ==
  ASSUME IInv, DInv, Rest, NEW r \in Request, NEW me, Advance(r, me),
         DOMAIN me = Fields, me.pc = req[r].pc, me.mode = req[r].mode, me.id = req[r].id,
         NoEvents(me.todo), me.added \in Nat,
         req[r].pc \notin Ended \cup {"create_rule", "save_rule"},
         \/ req[r].pc # "get_rule" /\ me.row = req[r].row
         \/ req[r].pc = "get_rule" /\ Owner(req, me.row.action, me.id)
         \/ req[r].pc \in ReadWords \cup CopyWords
  PROVE  DInv'
<1> DEFINE pc == Following(req[r].mode, req[r].pc)
           new == [me EXCEPT !.pc = pc]
<1>1. ReqSound(req[r]) /\ Placed(req[r]) /\ (Holding(req[r]) => Owner(req, req[r].row.action, req[r].id))
  BY DEF DInv, ReqsSound, ReqSound, RowsOwned
<1>2. req' = [req EXCEPT ![r] = new]
  BY <1>1, Afters DEF Advance
<1>3. /\ new.pc = pc /\ new.mode = req[r].mode /\ new.id = req[r].id /\ new.row = me.row
      /\ new.todo = me.todo /\ new.added = me.added
  BY DEF Fields
<1> HIDE DEF new
<1>4. ReqSound(new)
  BY <1>1, <1>3 DEF ReqSound, Placed, Following, Ended, ReadWords, CopyWords, CreateWords,
        EditWords, DeleteWords
<1>5. Past(req[r]) => Past(new)
  BY <1>1, <1>3 DEF Past, Placed, Following, Ended, ReadWords, CopyWords, CreateWords,
        EditWords, DeleteWords
<1>6. Replaced(new) => Replaced(req[r]) /\ new.row = req[r].row
  BY <1>1, <1>3 DEF Replaced, Placed, Following, Ended, ReadWords, CopyWords, CreateWords,
        EditWords, DeleteWords
<1>7. Holding(new) => \/ Holding(req[r]) /\ new.row = req[r].row
                      \/ req[r].pc = "get_rule"
  BY <1>1, <1>3 DEF Holding, Placed, Following, Ended, ReadWords, CopyWords, CreateWords,
        EditWords, DeleteWords
<1>8. Holding(new) => Owner(req, new.row.action, new.id)
  BY <1>1, <1>3, <1>7 DEF ReadWords, CopyWords
<1>9. QED
  BY <1>2, <1>3, <1>4, <1>5, <1>6, <1>8, Kept DEF Rest

(* It fails.                                                               *)
LEMMA Failed ==
  ASSUME IInv, DInv, Rest, NEW r \in Request, Fail(r)
  PROVE  DInv'
<1> DEFINE new == [NotBegun EXCEPT !.pc = "failed", !.failed_at = req[r].pc,
                      !.mode = req[r].mode, !.id = req[r].id, !.alone = req[r].alone,
                      !.busy = req[r].busy]
<1>1. req' = [req EXCEPT ![r] = new]
  BY DEF Fail
<1>2. new.pc = "failed" /\ new.id = req[r].id /\ new.todo = {} /\ new.added = 0
  BY DEF NotBegun
<1> HIDE DEF new
<1>3. ReqSound(new) /\ Past(new) /\ ~ Holding(new) /\ ~ Replaced(new)
  BY <1>2 DEF ReqSound, Placed, NoEvents, Past, Holding, Replaced
<1>4. QED
  BY <1>1, <1>2, <1>3, Kept DEF Rest

-----------------------------------------------------------------------------
(* Every step keeps the invariant                                          *)

(* The invariant holds at first.                                           *)
LEMMA InitOwned == Init => DInv
<1> SUFFICES ASSUME Init PROVE DInv
  OBVIOUS
<1>1. PICK n \in 0 .. MaxState : rule = <<Content(Earlier, n)>> /\ req = [r \in Request |-> NotBegun]
  BY DEF Init
<1>2. /\ NotBegun.pc = "begin" /\ NotBegun.mode = "read" /\ NotBegun.todo = {} /\ NotBegun.added = 0
  BY DEF NotBegun
<1>3. ReqSound(NotBegun) /\ ~ Holding(NotBegun) /\ ~ Replaced(NotBegun)
  BY <1>2 DEF ReqSound, Placed, NoEvents, Holding, Replaced
<1>4. NoEvents(States(Earlier, n))
  BY <1>1, RequestAssumption DEF NoEvents, States
<1>5. DOMAIN rule = {1} /\ rule[1] = Content(Earlier, n)
  BY <1>1
<1>6. RulesOwned
  BY <1>4, <1>5 DEF RulesOwned, Content, Owner
<1>7. ReqsSound /\ RowsOwned /\ OldGone
  BY <1>1, <1>3 DEF ReqsSound, RowsOwned, OldGone
<1>8. QED
  BY <1>6, <1>7 DEF DInv

(* A request arrives: it owns nothing yet, and others are only marked.     *)
LEMMA BeginOwned ==
  ASSUME IInv, DInv, NEW r \in Request, NEW mode \in Modes, NEW id, NEW n, Begin(r, mode, id, n)
  PROVE  DInv'
<1> DEFINE others == IF id = 0 THEN {} ELSE Writers(id)
           begun == [NotBegun EXCEPT !.pc = Head(Script(mode)), !.mode = mode,
                        !.id = id, !.states = n, !.alone = (others = {})]
<1>1. /\ DOMAIN req = Request /\ DOMAIN req' = Request
      /\ req'[r] = begun
      /\ \A q \in Request \ {r} : \/ req'[q] = [req[q] EXCEPT !.alone = FALSE]
                                  \/ req'[q] = [req[q] EXCEPT !.busy = @ \cup {id}]
                                  \/ req'[q] = req[q]
  BY Zenon DEF Begin, IInv, ReqsPaired
<1>2. rule' = rule /\ req[r].pc = "begin"
  BY DEF Begin, Tables
<1>3. ASSUME NEW q \in Request \ {r}
      PROVE  /\ req'[q].pc = req[q].pc /\ req'[q].mode = req[q].mode /\ req'[q].id = req[q].id
             /\ req'[q].row = req[q].row /\ req'[q].todo = req[q].todo /\ req'[q].added = req[q].added
  <2>1. DOMAIN req[q] = Fields
    BY DEF IInv, ReqsPaired, ReqPaired
  <2>2. QED
    BY <1>1, <2>1 DEF Fields
<1>4. /\ begun.pc = Head(Script(mode)) /\ begun.mode = mode /\ begun.id = id
      /\ begun.todo = {} /\ begun.added = 0
  BY DEF NotBegun
<1> HIDE DEF begun
<1>5. /\ mode = "create" => begun.pc = "insert_rows"
      /\ mode = "edit" => begun.pc = "insert_rows"
      /\ mode = "delete" => begun.pc = "find_rule"
      /\ mode = "read" => begun.pc = "list_rules"
      /\ mode = "copy" => begun.pc = "list_rows"
  BY <1>4 DEF Script, ReadScript, CopyScript, CreateScript, EditScript, DeleteScript
<1>6. ReqSound(begun) /\ ~ Holding(begun) /\ ~ Replaced(begun)
  BY <1>4, <1>5 DEF Modes, ReqSound, Placed, NoEvents, Holding, Replaced, ReadWords, CopyWords,
        CreateWords, EditWords, DeleteWords
<1>7. ASSUME NEW q, NEW other, Owner(req, q, other) PROVE Owner(req', q, other)
  <2>1. q # r
    BY <1>2, <1>7, RequestAssumption DEF Owner, Past
  <2>2. QED
    BY <1>3, <1>7, <2>1 DEF Owner, Past
<1>8. ASSUME NEW q \in Request \ {r}
      PROVE  /\ ReqSound(req'[q]) /\ (Holding(req'[q]) => Holding(req[q]))
             /\ Replaced(req'[q]) => Replaced(req[q])
  BY <1>3 DEF DInv, ReqsSound, ReqSound, Placed, Holding, Replaced
<1>9. RulesOwned'
  BY <1>2, <1>7 DEF DInv, RulesOwned
<1>10. ReqsSound'
  BY <1>1, <1>6, <1>8 DEF ReqsSound
<1>11. ASSUME NEW q \in Request, Holding(req'[q]) PROVE Owner(req', req'[q].row.action, req'[q].id)
  <2>1. q # r
    BY <1>1, <1>6, <1>11
  <2>2. Owner(req, req[q].row.action, req[q].id)
    BY <1>8, <1>11, <2>1 DEF DInv, RowsOwned
  <2>3. QED
    BY <1>3, <1>7, <2>1, <2>2
<1>12. RowsOwned'
  BY <1>11 DEF RowsOwned
<1>13. OldGone'
  BY <1>1, <1>2, <1>3, <1>6, <1>8 DEF DInv, OldGone
<1>14. QED
  BY <1>9, <1>10, <1>12, <1>13 DEF DInv

(* What is known of a request                                              *)
LEMMA Known ==
  ASSUME IInv, DInv, NEW r \in Request
  PROVE  /\ DOMAIN req = Request /\ DOMAIN req[r] = Fields
         /\ ReqSound(req[r]) /\ Placed(req[r]) /\ NoEvents(req[r].todo) /\ req[r].added \in Nat
  BY DEF IInv, ReqsPaired, ReqPaired, DInv, ReqsSound, ReqSound

(* A request has read something; what it writes is as it was.              *)
Reread(me, new) ==
    /\ DOMAIN new = Fields /\ new.pc = me.pc /\ new.mode = me.mode /\ new.id = me.id
    /\ new.todo = me.todo /\ new.added = me.added

(* The statements that change no rule                                      *)
LEMMA QueryOwned ==
  ASSUME IInv, DInv, NEW r \in Request,
         \/ InsertRows(r) \/ FindRule(r) \/ GetRule(r) \/ FetchRows(r) \/ FetchEvent(r)
         \/ FetchAction(r) \/ ListStates(r) \/ StatesDropped(r) \/ StatesAdded(r)
         \/ ListRules(r) \/ ReadRule(r) \/ ReadStates(r) \/ ListRows(r) \/ TakeRule(r)
         \/ CopyEvent(r) \/ CopyAction(r)
  PROVE  DInv'
<1>1. Rest
  BY SameRules DEF InsertRows, FindRule, GetRule, FetchRows, FetchEvent, FetchAction, ListStates,
        StatesDropped, StatesAdded, ListRules, ReadRule, ReadStates, ListRows, TakeRule,
        CopyEvent, CopyAction, Tables
<1>2. /\ DOMAIN req = Request /\ DOMAIN req[r] = Fields
      /\ ReqSound(req[r]) /\ Placed(req[r]) /\ NoEvents(req[r].todo) /\ req[r].added \in Nat
  BY Known
<1>3. CASE FindRule(r)
  <2>1. CASE Advance(r, req[r])
    BY <1>1, <1>2, <1>3, <2>1, Onward DEF FindRule, Ended
  <2>2. CASE req' = [req EXCEPT ![r].pc = "list_rules"]
    <3> DEFINE new == [req[r] EXCEPT !.pc = "list_rules"]
    <3>1. req' = [req EXCEPT ![r] = new]
      BY <2>2
    <3>2. /\ new.pc = "list_rules" /\ new.mode = req[r].mode /\ new.id = req[r].id
          /\ new.todo = req[r].todo /\ new.added = req[r].added
      BY <1>2 DEF Fields
    <3> HIDE DEF new
    <3>3. req[r].pc = "find_rule" /\ req[r].mode = "delete"
      BY <1>2, <1>3 DEF FindRule, Placed, ReadWords, CopyWords, CreateWords, EditWords, DeleteWords
    <3>4. ReqSound(new) /\ Past(new) /\ ~ Replaced(new)
      BY <1>2, <3>2, <3>3 DEF ReqSound, Placed, ReadWords, Past, Replaced
    <3>5. ~ Holding(new)
      BY <3>2 DEF Holding
    <3>6. QED
      BY <1>1, <3>1, <3>2, <3>4, <3>5, Kept DEF Rest
  <2>3. QED
    BY <1>3, <2>1, <2>2 DEF FindRule
<1>4. CASE GetRule(r)
  <2>1. CASE Fail(r)
    BY <1>1, <2>1, Failed
  <2>2. CASE req[r].id \in DOMAIN rule /\ Advance(r, [req[r] EXCEPT !.row = rule[req[r].id]])
    <3> DEFINE me == [req[r] EXCEPT !.row = rule[req[r].id]]
    <3>1. /\ DOMAIN me = Fields /\ me.pc = req[r].pc /\ me.mode = req[r].mode /\ me.id = req[r].id
          /\ me.todo = req[r].todo /\ me.added = req[r].added /\ me.row = rule[req[r].id]
      BY <1>2 DEF Fields
    <3>2. Advance(r, me)
      BY <2>2
    <3> HIDE DEF me
    <3>3. Owner(req, me.row.action, me.id)
      BY <2>2, <3>1 DEF DInv, RulesOwned
    <3>4. QED
      BY <1>1, <1>2, <1>4, <3>1, <3>2, <3>3, Onward DEF GetRule, Ended
  <2>3. QED
    BY <1>4, <2>1, <2>2 DEF GetRule
<1>5. CASE \/ InsertRows(r) \/ FetchRows(r) \/ FetchEvent(r) \/ FetchAction(r)
          \/ StatesDropped(r) \/ StatesAdded(r) \/ CopyEvent(r) \/ CopyAction(r)
  <2>1. /\ Advance(r, req[r]) \/ Fail(r)
        /\ req[r].pc \notin Ended \cup {"create_rule", "save_rule", "get_rule"}
    BY <1>5 DEF InsertRows, FetchRows, FetchEvent, FetchAction, StatesDropped, StatesAdded,
          CopyEvent, CopyAction, Ended
  <2>2. QED
    BY <1>1, <1>2, <2>1, Onward, Failed
<1>6. CASE ListStates(r)
  <2> DEFINE me == [req[r] EXCEPT !.todo = StatesOf(req[r].id)]
  <2>1. /\ DOMAIN me = Fields /\ me.pc = req[r].pc /\ me.mode = req[r].mode /\ me.id = req[r].id
        /\ me.todo = StatesOf(req[r].id) /\ me.added = req[r].added /\ me.row = req[r].row
    BY <1>2 DEF Fields
  <2>2. Advance(r, me) /\ req[r].pc = "list_states"
    BY <1>6 DEF ListStates
  <2> HIDE DEF me
  <2>3. NoEvents(me.todo)
    BY <2>1 DEF StatesOf, DInv, RulesOwned, NoEvents
  <2>4. QED
    BY <1>1, <1>2, <2>1, <2>2, <2>3, Onward DEF Ended
<1>7. CASE ListRules(r) \/ ReadRule(r) \/ ReadStates(r) \/ ListRows(r) \/ TakeRule(r)
  <2>1. CASE Fail(r)
    BY <1>1, <2>1, Failed
  <2>2. ASSUME ~ Fail(r) PROVE \E me : Reread(req[r], me) /\ Advance(r, me)
    <3>1. CASE ListRules(r)
      <4>1. PICK ids, busy : Advance(r, [req[r] EXCEPT !.ids = ids, !.busy = busy])
        BY <3>1 DEF ListRules
      <4>2. Reread(req[r], [req[r] EXCEPT !.ids = ids, !.busy = busy])
        BY <1>2 DEF Reread, Fields
      <4>3. QED
        BY <4>1, <4>2
    <3>2. CASE ReadRule(r)
      <4>1. PICK row : Advance(r, [req[r] EXCEPT !.row = row])
        BY <2>2, <3>2 DEF ReadRule
      <4>2. Reread(req[r], [req[r] EXCEPT !.row = row])
        BY <1>2 DEF Reread, Fields
      <4>3. QED
        BY <4>1, <4>2
    <3>3. CASE ReadStates(r)
      <4>1. PICK states : Advance(r, [req[r] EXCEPT !.row.Striggers = states])
        BY <3>3 DEF ReadStates
      <4>2. Reread(req[r], [req[r] EXCEPT !.row.Striggers = states])
        BY <1>2 DEF Reread, Fields
      <4>3. QED
        BY <4>1, <4>2
    <3>4. CASE ListRows(r)
      <4>1. PICK rows, busy : Advance(r, [req[r] EXCEPT !.rows = rows, !.busy = busy])
        BY <3>4 DEF ListRows
      <4>2. Reread(req[r], [req[r] EXCEPT !.rows = rows, !.busy = busy])
        BY <1>2 DEF Reread, Fields
      <4>3. QED
        BY <4>1, <4>2
    <3>5. CASE TakeRule(r)
      <4>1. PICK ids, row, rows :
               Advance(r, [req[r] EXCEPT !.ids = ids, !.row = row, !.rows = rows])
        BY <3>5 DEF TakeRule
      <4>2. Reread(req[r], [req[r] EXCEPT !.ids = ids, !.row = row, !.rows = rows])
        BY <1>2 DEF Reread, Fields
      <4>3. QED
        BY <4>1, <4>2
    <3>6. QED
      BY <1>7, <3>1, <3>2, <3>3, <3>4, <3>5
  <2>3. CASE ~ Fail(r)
    <3>1. PICK me : Reread(req[r], me) /\ Advance(r, me)
      BY <2>2, <2>3
    <3>2. /\ DOMAIN me = Fields /\ me.pc = req[r].pc /\ me.mode = req[r].mode /\ me.id = req[r].id
          /\ me.todo = req[r].todo /\ me.added = req[r].added
      BY <3>1 DEF Reread
    <3>3. Advance(r, me)
      BY <3>1
    <3>4. req[r].pc \in {"list_rules", "read_rule", "read_states", "list_rows", "take_rule"}
      BY <1>7 DEF ListRules, ReadRule, ReadStates, ListRows, TakeRule
    <3>5. req[r].pc \notin Ended \cup {"create_rule", "save_rule"}
      BY <3>4 DEF Ended
    <3>6. req[r].pc \in ReadWords \cup CopyWords
      BY <3>4 DEF ReadWords, CopyWords
    <3>7. QED
      BY <1>1, <1>2, <3>2, <3>3, <3>5, <3>6, Onward
  <2>4. QED
    BY <2>1, <2>3
<1>8. QED
  BY <1>3, <1>4, <1>5, <1>6, <1>7

(* What a reader or a copy does at the end of a rule, and at the end       *)
LEMMA ReadOwned ==
  ASSUME IInv, DInv, NEW r \in Request,
         ReadAction(r) \/ CopyStates(r) \/ AllRead(r) \/ Answer(r)
  PROVE  DInv'
<1>1. Rest
  BY SameRules DEF ReadAction, CopyStates, AllRead, Answer, Tables
<1>2. /\ DOMAIN req = Request /\ DOMAIN req[r] = Fields
      /\ ReqSound(req[r]) /\ Placed(req[r]) /\ NoEvents(req[r].todo) /\ req[r].added \in Nat
  BY Known
<1>3. ASSUME NEW new, req' = [req EXCEPT ![r] = new], ~ Fail(r),
             new.pc \in {"read_rule", "take_rule", "answer", "done"}, new.id = req[r].id,
             NoEvents(new.todo), new.added \in Nat, Placed(new)
      PROVE  DInv'
  <2>1. ReqSound(new) /\ Past(new)
    BY <1>3 DEF ReqSound, Past
  <2>2. ~ Holding(new) /\ ~ Replaced(new)
    BY <1>3 DEF Holding, Replaced
  <2>3. QED
    BY <1>1, <1>3, <2>1, <2>2, Kept DEF Rest
<1>4. CASE Fail(r)
  BY <1>1, <1>4, Failed
<1>5. CASE ReadAction(r) /\ ~ Fail(r)
  <2>1. PICK shown, ids :
           req' = [req EXCEPT ![r].pc = "read_rule", ![r].row = NoRow, ![r].shown = shown,
                              ![r].ids = ids]
    BY <1>5 DEF ReadAction
  <2> DEFINE new == [req[r] EXCEPT !.pc = "read_rule", !.row = NoRow, !.shown = shown, !.ids = ids]
  <2>2. req' = [req EXCEPT ![r] = new]
    BY <1>2, <2>1
  <2>3. /\ new.pc = "read_rule" /\ new.mode = req[r].mode /\ new.id = req[r].id
        /\ new.todo = req[r].todo /\ new.added = req[r].added
    BY <1>2 DEF Fields
  <2> HIDE DEF new
  <2>4. Placed(new)
    BY <1>2, <1>5, <2>3 DEF ReadAction, Placed, ReadWords, CopyWords, CreateWords, EditWords, DeleteWords
  <2>5. QED
    BY <1>2, <1>3, <1>5, <2>2, <2>3, <2>4
<1>6. CASE CopyStates(r) /\ ~ Fail(r)
  <2>1. PICK shown :
           req' = [req EXCEPT ![r].pc = "take_rule", ![r].row = NoRow, ![r].shown = shown,
                              ![r].ids = {}]
    BY <1>6 DEF CopyStates
  <2> DEFINE new == [req[r] EXCEPT !.pc = "take_rule", !.row = NoRow, !.shown = shown, !.ids = {}]
  <2>2. req' = [req EXCEPT ![r] = new]
    BY <1>2, <2>1
  <2>3. /\ new.pc = "take_rule" /\ new.mode = req[r].mode /\ new.id = req[r].id
        /\ new.todo = req[r].todo /\ new.added = req[r].added
    BY <1>2 DEF Fields
  <2> HIDE DEF new
  <2>4. Placed(new)
    BY <1>2, <1>6, <2>3 DEF CopyStates, Placed, ReadWords, CopyWords, CreateWords, EditWords, DeleteWords
  <2>5. QED
    BY <1>2, <1>3, <1>6, <2>2, <2>3, <2>4
<1>7. CASE AllRead(r) /\ ~ Fail(r)
  <2> DEFINE new == [req[r] EXCEPT !.pc = "answer"]
  <2>1. req' = [req EXCEPT ![r] = new]
    BY <1>7 DEF AllRead
  <2>2. /\ new.pc = "answer" /\ new.mode = req[r].mode /\ new.id = req[r].id
        /\ new.todo = req[r].todo /\ new.added = req[r].added
    BY <1>2 DEF Fields
  <2> HIDE DEF new
  <2>3. Placed(new)
    BY <1>2, <1>7, <2>2 DEF AllRead, Placed, ReadWords, CopyWords, CreateWords, EditWords, DeleteWords
  <2>4. QED
    BY <1>2, <1>3, <1>7, <2>1, <2>2, <2>3
<1>8. CASE Answer(r) /\ ~ Fail(r)
  <2> DEFINE new == [NotBegun EXCEPT !.pc = "done", !.mode = req[r].mode, !.id = req[r].id,
                        !.alone = req[r].alone]
  <2>1. req' = [req EXCEPT ![r] = new]
    BY <1>8 DEF Answer
  <2>2. new.pc = "done" /\ new.id = req[r].id /\ new.todo = {} /\ new.added = 0
    BY DEF NotBegun
  <2> HIDE DEF new
  <2>3. Placed(new) /\ NoEvents(new.todo) /\ new.added \in Nat
    BY <2>2 DEF Placed, NoEvents
  <2>4. QED
    BY <1>3, <1>8, <2>1, <2>2, <2>3
<1>9. QED
  BY <1>4, <1>5, <1>6, <1>7, <1>8

(* The statements that change rules                                        *)
LEMMA WriteOwned ==
  ASSUME IInv, DInv, NEW r \in Request,
         \/ CreateRule(r) \/ SaveRule(r) \/ DeleteRule(r) \/ DeleteEvent(r) \/ DeleteAction(r)
         \/ DropState(r) \/ AddState(r)
  PROVE  DInv'
<1>1. /\ DOMAIN req = Request /\ DOMAIN req[r] = Fields
      /\ ReqSound(req[r]) /\ Placed(req[r]) /\ NoEvents(req[r].todo) /\ req[r].added \in Nat
  BY Known
<1>2. CASE CreateRule(r)
  <2> DEFINE new == [req[r] EXCEPT !.pc = "add_states", !.id = next_id]
  <2>1. req[r].mode = "create"
    BY <1>1, <1>2 DEF CreateRule, Placed, ReadWords, CopyWords, CreateWords, EditWords, DeleteWords
  <2>2. After(req[r]) = "add_states"
    BY <1>1, <1>2, Afters DEF CreateRule, Ended, Following
  <2>3. req' = [req EXCEPT ![r] = new]
    BY <1>1, <1>2, <2>2 DEF CreateRule
  <2>4. /\ new.pc = "add_states" /\ new.mode = req[r].mode /\ new.id = next_id
        /\ new.todo = req[r].todo /\ new.added = req[r].added
    BY <1>1 DEF Fields
  <2>5. rule' = PutRule(next_id, Content(r, 0)) /\ req[r].pc = "create_rule"
    BY <1>2 DEF CreateRule
  <2> HIDE DEF new
  <2>6. ReqSound(new)
    BY <1>1, <2>1, <2>4 DEF ReqSound, Placed, CreateWords
  <2>7. Past(new) /\ ~ Past(req[r]) /\ ~ Holding(new)
    BY <2>1, <2>4, <2>5 DEF Past, Holding
  <2>8. Content(r, 0).action = r /\ NoEvents(Content(r, 0).Striggers)
    BY DEF Content, NoEvents, States
  <2>9. QED
    BY <2>3, <2>4, <2>5, <2>6, <2>7, <2>8, Written
<1>3. CASE SaveRule(r)
  <2> DEFINE id == req[r].id
             old == IF id \in DOMAIN rule THEN rule[id]
                    ELSE [req[r].row EXCEPT !.Striggers = {}]
             new == [req[r] EXCEPT !.pc = "delete_event"]
  <2>1. req[r].pc = "save_rule" /\ req[r].mode = "edit"
    BY <1>1, <1>3 DEF SaveRule, Placed, ReadWords, CopyWords, CreateWords, EditWords, DeleteWords
  <2>2. After(req[r]) = "delete_event"
    BY <1>1, <2>1, Afters DEF Ended, Following
  <2>3. req' = [req EXCEPT ![r] = new]
    BY <1>3, <2>2 DEF SaveRule, Advance
  <2>4. /\ new.pc = "delete_event" /\ new.mode = req[r].mode /\ new.id = id
        /\ new.todo = req[r].todo /\ new.added = req[r].added /\ new.row = req[r].row
    BY <1>1 DEF Fields
  <2>5. rule' = PutRule(id, Saved(r, old))
    BY <1>3 DEF SaveRule
  <2>6. DOMAIN old = {"Etrigger", "action", "Striggers"} /\ NoEvents(old.Striggers)
    BY <1>1 DEF IInv, RulesPaired, ReqsPaired, ReqPaired, Paired, DInv, RulesOwned, NoEvents
  <2> HIDE DEF new, old
  <2>7. Saved(r, old).action = r /\ NoEvents(Saved(r, old).Striggers)
    BY <2>6 DEF Saved
  <2>8. ReqSound(new)
    BY <1>1, <2>1, <2>4 DEF ReqSound, Placed, EditWords
  <2>9. Past(new) /\ ~ Past(req[r]) /\ Holding(req[r])
    BY <2>1, <2>4 DEF Past, Holding
  <2>10. QED
    BY <2>3, <2>4, <2>5, <2>7, <2>8, <2>9, Written
<1>4. CASE DeleteRule(r) \/ DeleteEvent(r) \/ DeleteAction(r)
  <2>1. Rest
    <3>1. CASE DeleteRule(r)
      BY <3>1 DEF DeleteRule, RestrictRules, Rest, DInv, RulesOwned
    <3>2. QED
      BY <1>4, <3>1, CascadeRest DEF DeleteEvent, DeleteAction
  <2>2. Advance(r, req[r]) /\ req[r].pc \in {"delete_rule", "delete_event", "delete_action"}
    BY <1>4 DEF DeleteRule, DeleteEvent, DeleteAction
  <2>3. QED
    BY <1>1, <2>1, <2>2, Onward DEF Ended
<1>5. CASE DropState(r)
  <2>1. PICK st : DeleteTriggers({st}) /\ req' = [req EXCEPT ![r].todo = @ \ {st}]
    BY <1>5 DEF DropState
  <2>2. Rest
    BY <2>1, CascadeRest
  <2> DEFINE new == [req[r] EXCEPT !.todo = @ \ {st}]
  <2>3. req' = [req EXCEPT ![r] = new]
    BY <1>1, <2>1
  <2>4. /\ new.pc = req[r].pc /\ new.mode = req[r].mode /\ new.id = req[r].id
        /\ new.todo = req[r].todo \ {st} /\ new.added = req[r].added /\ new.row = req[r].row
    BY <1>1 DEF Fields
  <2> HIDE DEF new
  <2>5. NoEvents(new.todo)
    BY <1>1, <2>4 DEF NoEvents
  <2>6. ReqSound(new) /\ (Past(req[r]) => Past(new)) /\ (Holding(new) => Holding(req[r]))
        /\ (Replaced(new) => Replaced(req[r]))
    BY <1>1, <2>4, <2>5 DEF ReqSound, Placed, Past, Holding, Replaced
  <2>7. Holding(new) => Owner(req, new.row.action, new.id)
    BY <2>4, <2>6 DEF DInv, RowsOwned
  <2>8. QED
    BY <2>2, <2>3, <2>4, <2>6, <2>7, Kept DEF Rest
<1>6. CASE AddState(r)
  <2> DEFINE id == req[r].id
             s_trig == <<r, req[r].added + 1>>
  <2>1. CASE Fail(r) /\ UNCHANGED rule
    BY <2>1, SameRules, Failed
  <2>2. CASE /\ id \in DOMAIN rule
             /\ rule' = [rule EXCEPT ![id].Striggers = @ \cup {s_trig}]
             /\ req' = [req EXCEPT ![r].added = @ + 1]
    <3> DEFINE new == [req[r] EXCEPT !.added = @ + 1]
    <3>1. req' = [req EXCEPT ![r] = new]
      BY <1>1, <2>2
    <3>2. /\ new.pc = "add_states" /\ new.mode = req[r].mode /\ new.id = req[r].id
          /\ new.todo = req[r].todo /\ new.added = req[r].added + 1
      BY <1>1, <1>6 DEF Fields, AddState
    <3>3. req[r].pc = "add_states"
      BY <1>6 DEF AddState
    <3> HIDE DEF new
    <3>4. ReqSound(new) /\ (Past(req[r]) => Past(new))
      BY <1>1, <3>2, <3>3 DEF ReqSound, Placed, Past
    <3>5. ~ Holding(new) /\ ~ Replaced(new)
      BY <3>2 DEF Holding, Replaced
    <3>6. \A q : <<q, 0>> # s_trig
      BY <1>1
    <3> HIDE DEF s_trig
    <3>7. ASSUME NEW other \in DOMAIN rule'
          PROVE  /\ other \in DOMAIN rule /\ rule'[other].action = rule[other].action
                 /\ NoEvents(rule'[other].Striggers)
      <4>1. /\ other \in DOMAIN rule /\ NoEvents(rule[other].Striggers)
            /\ DOMAIN rule[other] = {"Etrigger", "action", "Striggers"}
        BY <2>2 DEF DInv, RulesOwned, IInv, RulesPaired, Paired
      <4>2. \/ rule'[other] = rule[other]
            \/ rule'[other] = [rule[other] EXCEPT !.Striggers = @ \cup {s_trig}]
        BY <2>2
      <4>3. QED
        BY <3>6, <4>1, <4>2 DEF NoEvents
    <3>8. QED
      BY <3>1, <3>2, <3>4, <3>5, <3>7, Kept
  <2>3. QED
    BY <1>6, <2>1, <2>2 DEF AddState
<1>7. QED
  BY <1>2, <1>3, <1>4, <1>5, <1>6

(* Every step preserves the invariant.                                     *)
LEMMA NextOwned == IInv /\ DInv /\ [Next]_vars => DInv'
<1> SUFFICES ASSUME IInv, DInv, [Next]_vars PROVE DInv'
  OBVIOUS
<1>1. CASE UNCHANGED vars
  BY <1>1 DEF vars, DInv, RulesOwned, ReqsSound, RowsOwned, OldGone
<1>2. ASSUME Next PROVE DInv'
  BY <1>2, BeginOwned, QueryOwned, ReadOwned, WriteOwned, Zenon DEF Next
<1>3. QED
  BY <1>1, <1>2
-----------------------------------------------------------------------------
(* What a step may remove                                                  *)
Removed == DOMAIN rule \ DOMAIN rule'

(* A request that deletes rows it has not replaced is one to delete a rule. *)
LEMMA Deleting ==
  ASSUME NEW r \in Request, Placed(req[r]),
         req[r].pc \in {"delete_event", "delete_action", "delete_rule"}, ~ Replaced(req[r])
  PROVE  req[r].mode = "delete" /\ Writing(r)
<1>1. req[r].mode = "delete"
  BY DEF Placed, Replaced, ReadWords, CopyWords, CreateWords, EditWords, DeleteWords
<1>2. Queries = ReadWords \cup CopyWords
  <2>1. Range(ReadScript) = ReadWords
    BY DEF Range, ReadScript, ReadWords
  <2>2. Range(CopyScript) = CopyWords
    BY DEF Range, CopyScript, CopyWords
  <2>3. QED
    BY <2>1, <2>2 DEF Queries
<1>3. QED
  BY <1>1, <1>2 DEF Writing, Reading, ReadWords, CopyWords

(* A rule that a step removes is one that a request is about to delete.    *)
LEMMA StepDeletes ==
  ASSUME IInv, DInv, [Next]_vars, NEW id \in Removed
  PROVE  \E r \in Writers(id) : req[r].mode = "delete"
<1>1. PICK r \in Request : DeleteRule(r) \/ DeleteEvent(r) \/ DeleteAction(r) \/ DropState(r)
  <2>1. CASE UNCHANGED vars
    BY <2>1 DEF vars, Removed
  <2>2. ASSUME NEW r \in Request, CreateRule(r) \/ SaveRule(r) \/ AddState(r) PROVE FALSE
    BY <2>2 DEF Removed, CreateRule, SaveRule, AddState, PutRule
  <2>3. ASSUME NEW r \in Request,
               \/ \E mode \in Modes, other \in 0..(next_id - 1), n \in 0..MaxState : Begin(r, mode, other, n)
               \/ InsertRows(r) \/ FindRule(r) \/ GetRule(r) \/ FetchRows(r) \/ FetchEvent(r)
               \/ FetchAction(r) \/ ListStates(r) \/ StatesDropped(r) \/ StatesAdded(r)
               \/ ListRules(r) \/ ReadRule(r) \/ ReadStates(r) \/ ReadAction(r)
               \/ ListRows(r) \/ TakeRule(r) \/ CopyEvent(r) \/ CopyAction(r) \/ CopyStates(r)
               \/ AllRead(r) \/ Answer(r)
        PROVE  FALSE
    <3>1. rule' = rule
      BY <2>3 DEF Begin, InsertRows, FindRule, GetRule, FetchRows, FetchEvent, FetchAction,
            ListStates, StatesDropped, StatesAdded, ListRules, ReadRule, ReadStates, ReadAction,
            ListRows, TakeRule, CopyEvent, CopyAction, CopyStates, AllRead, Answer, Tables
    <3>2. QED
      BY <3>1 DEF Removed
  <2>4. CASE Next
    BY <2>2, <2>3, <2>4, Zenon DEF Next
  <2>5. QED
    BY <2>1, <2>4
<1>2. /\ id \in DOMAIN rule /\ id \notin DOMAIN rule'
      /\ Owner(req, rule[id].action, id) /\ Paired(rule[id]) /\ Paired(req[r].row)
  BY DEF Removed, DInv, RulesOwned, IInv, RulesPaired, ReqsPaired, ReqPaired
<1>3. Placed(req[r]) /\ NoEvents(req[r].todo)
  BY Known
<1>4. CASE DeleteRule(r)
  <2>1. id = req[r].id /\ req[r].pc = "delete_rule"
    BY <1>2, <1>4 DEF DeleteRule, RestrictRules
  <2>2. ~ Replaced(req[r])
    BY <2>1 DEF Replaced
  <2>3. QED
    BY <1>3, <2>1, <2>2, Deleting DEF Writers
<1>5. CASE DeleteEvent(r) \/ DeleteAction(r)
  <2>1. req[r].pc \in {"delete_event", "delete_action"} /\ rule[id].action = req[r].row.action
    BY <1>2, <1>5 DEF DeleteEvent, DeleteAction, DeleteTriggers, DeleteActions, RestrictRules, Paired
  <2>2. ~ Replaced(req[r])
    BY <1>2, <2>1 DEF DInv, OldGone
  <2>3. req[r].mode = "delete" /\ Writing(r)
    BY <1>3, <2>1, <2>2, Deleting
  <2>4. Owner(req, req[r].row.action, req[r].id)
    BY <2>1, <2>3 DEF DInv, RowsOwned, Holding
  <2>5. id = req[r].id
    BY <1>2, <2>1, <2>4, OneOwned
  <2>6. QED
    BY <2>3, <2>5 DEF Writers
<1>6. CASE DropState(r)
  <2>1. PICK st \in req[r].todo : DeleteTriggers({st})
    BY <1>6 DEF DropState
  <2>2. rule[id].Etrigger = st
    BY <1>2, <2>1 DEF DeleteTriggers
  <2>3. QED
    BY <1>2, <1>3, <2>1, <2>2 DEF Paired, NoEvents
<1>7. QED
  BY <1>1, <1>4, <1>5, <1>6

(* A rule is removed only by a request to delete it, however many requests *)
(* create, edit, delete, list and copy rules at the same time: the events  *)
(* and actions that an edit deletes are never those of a rule by then,     *)
(* although it has fetched the row it takes them from long before.         *)
THEOREM OnlyDeletes == Spec => OnlyDeletesRemove
<1>1. Init => IInv /\ DInv
  BY InitPaired, InitOwned
<1>2. IInv /\ DInv /\ [Next]_vars => (IInv /\ DInv)'
  BY NextPaired, NextOwned
<1>3. IInv /\ DInv /\ [Next]_vars =>
         [\A id \in DOMAIN rule \ DOMAIN rule' : \E r \in Writers(id) : req[r].mode = "delete"]_vars
  BY StepDeletes DEF Removed
<1>4. QED
  BY <1>1, <1>2, <1>3, PTL DEF Spec, OnlyDeletesRemove
-----------------------------------------------------------------------------
(* Whole rules                                                             *)

(* Numbers, and the words at which a request has a rule of its own.        *)
WriteWords == CreateWords \cup EditWords \cup DeleteWords
Unnamed == {"insert_rows", "create_rule"}

ReqTyped(me) ==
    /\ me.mode \in Modes
    /\ me.id \in 0..(next_id - 1) /\ me.states \in 0..MaxState /\ me.added \in 0..me.states
    /\ me.mode \in {"edit", "delete"} => me.id # 0
    /\ me.mode = "create" /\ me.pc \in Unnamed => me.id = 0
    /\ me.mode = "create" /\ me.pc = "add_states" => me.id # 0
    /\ me.row \in ESRule /\ me.todo \subseteq Trigger
    /\ me.pc \in Unnamed => me.todo = {}
    /\ me.pc \in WriteWords \ {"add_states"} => me.added = 0
    /\ me.pc = "begin" => me.alone
    /\ me.rows \cup me.shown \subseteq Shown
    /\ me.ids \cup me.busy \subseteq RuleIds
Typed ==
    /\ next_id \in Nat \ {0}
    /\ DOMAIN rule \subseteq RuleIds /\ trigger \subseteq Trigger /\ action \subseteq Source
    /\ \A id \in DOMAIN rule : rule[id] \in ESRule
    /\ DOMAIN expected \subseteq RuleIds
    /\ \A id \in DOMAIN expected : expected[id] \subseteq ESRule
    /\ \A r \in Request : ReqTyped(req[r])

(* A request has inserted its own event and action, which no rule has yet. *)
Inserted(me) ==
    \/ me.mode = "create" /\ me.pc = "create_rule"
    \/ me.mode = "edit" /\ me.pc \in {"get_rule", "fetch_rows", "save_rule"}

(* The foreign keys hold, and the rows that requests will put into rules   *)
(* are there.                                                              *)
Keyed ==
    /\ \A id \in DOMAIN rule :
          /\ rule[id].Etrigger \in trigger /\ rule[id].Striggers \subseteq trigger
          /\ rule[id].action \in action
    /\ \A r \in Request : Inserted(req[r]) => <<r, 0>> \in trigger /\ r \in action

(* Only the rule of id can have the states that a request has made.        *)
StatesOwned ==
    /\ \A id \in DOMAIN rule : \A st \in rule[id].Striggers : Owner(req, st[1], id)
    /\ \A r \in Request : \A st \in req[r].todo : Owner(req, st[1], req[r].id)

(* A request that is alone has no other writer of its rule beside it ...   *)
Sole ==
    \A r, q \in Request :
        /\ Writing(r) /\ req[r].alone /\ req[r].id # 0
        /\ Writing(q) /\ req[q].id = req[r].id
        => q = r

(* ... and finds in it what it has left there.                             *)
Lone(rules, acts, r, me) ==
    LET row == rules[me.id]
    IN  /\ me.mode = "edit" /\ me.pc \in {"fetch_rows", "save_rule"} =>
              me.id \in DOMAIN rules /\ row = me.row
        /\ \/ me.mode = "edit" /\ me.pc \in {"delete_event", "delete_action", "list_states",
                                             "drop_states", "add_states"}
           \/ me.mode = "create" /\ me.pc = "add_states"
           => me.id \in DOMAIN rules /\ row.action = r
        /\ me.pc = "drop_states" => row.Striggers = me.todo
        /\ me.pc = "add_states" => row.Striggers = States(r, me.added)
        /\ me.mode = "delete" /\ me.pc = "get_rule" => me.id \in DOMAIN rules
        /\ me.mode = "delete" /\ me.pc \in {"list_states", "drop_states", "fetch_event",
                                            "delete_event"} =>
              me.id \in DOMAIN rules /\ row.action = me.row.action
        /\ me.mode = "delete" /\ me.pc \in {"fetch_event", "delete_event"} => row.Striggers = {}
        /\ me.pc \in {"fetch_action", "delete_rule"} \/ (me.mode = "delete" /\ me.pc = "delete_action")
              => me.id \notin DOMAIN rules
        /\ me.pc = "fetch_action" => me.row.action \in acts
AloneFind ==
    \A r \in Request : Writing(r) /\ req[r].alone => Lone(rule, action, r, req[r])

(* What a rule is expected to be it is, until a writer of it has begun to  *)
(* change it.                                                              *)
Rows(rules, id) == {rules[i] : i \in DOMAIN rules \cap {id}}
AsExpected ==
    \A id \in DOMAIN expected :
        (\A w \in Writers(id) : ~ Past(req[w])) => expected[id] = Rows(rule, id)

(* What a reader has of a rule that was not written while it reads is as   *)
(* it is.                                                                  *)
Calm(id) == id \in DOMAIN rule /\ Writers(id) = {}
Midway == {"read_event", "read_states", "read_action", "copy_event", "copy_action", "copy_states"}
Reads(me) ==
    /\ \A id \in me.ids \ me.busy : Calm(id)
    /\ \A read \in me.rows \cup me.shown :
          read.id \notin me.busy => Calm(read.id) /\ read.row = rule[read.id]
    /\ me.pc \in Midway => /\ Current(me) \in me.ids
                           /\ Current(me) \notin me.busy => me.row = rule[Current(me)]
    /\ me.pc \notin ReadWords \cup CopyWords \/ me.pc \in {"list_rules", "list_rows"} =>
          me.ids = {} /\ me.rows = {} /\ me.shown = {}
ReadersRight == \A r \in Request : Reads(req[r])

FailureExplained(me) ==
    me.pc = "failed" =>
        IF me.failed_at \in Queries THEN me.busy # {}
        ELSE me.alone => me.mode = "edit" /\ me.failed_at = "get_rule"
FailuresExplained == \A r \in Request : FailureExplained(req[r])

(* The rows without a rule that a request still knows of.                  *)
Clean == \A r \in Request : req[r].alone /\ req[r].pc # "failed"
OwnTrigger(r, me, t) ==
    \/ Inserted(me) /\ t = <<r, 0>>
    \/ me.mode = "edit" /\ me.pc = "delete_event" /\ t = me.row.Etrigger
OwnAction(r, me, a) ==
    \/ Inserted(me) /\ a = r
    \/ /\ \/ me.mode = "edit" /\ me.pc \in {"delete_event", "delete_action"}
          \/ me.mode = "delete" /\ me.pc \in {"fetch_action", "delete_action"}
       /\ a = me.row.action
Orphans ==
    Clean =>
        /\ \A t \in trigger :
              \/ \E id \in DOMAIN rule : t = rule[id].Etrigger \/ t \in rule[id].Striggers
              \/ \E r \in Request : OwnTrigger(r, req[r], t)
        /\ \A a \in action :
              \/ \E id \in DOMAIN rule : a = rule[id].action
              \/ \E r \in Request : OwnAction(r, req[r], a)

WInv ==
    /\ Typed /\ Keyed /\ StatesOwned /\ Sole /\ AloneFind /\ AsExpected
    /\ ReadersRight /\ FailuresExplained /\ Orphans
-----------------------------------------------------------------------------
(* Ids and rows                                                            *)

(* The order of the natural numbers, as a relation                         *)
LessThanNat == OpToRel(<, Nat)

(* A nonempty set of natural numbers has a least element.                  *)
LEMMA LeastElement ==
  ASSUME NEW S, S \subseteq Nat, S # {}
  PROVE  \E m \in S : \A n \in S : m <= n
<1>1. IsWellFoundedOn(LessThanNat, Nat)
  BY NatLessThanWellFounded, Zenon DEF LessThanNat
<1>2. LessThanNat = {ss \in Nat \X Nat : ss[1] < ss[2]}
  BY Zenon DEF OpToRel, LessThanNat
<1>3. PICK m \in S : \A n \in S : <<n, m>> \notin LessThanNat
  BY <1>1, WFMin
<1>4. ASSUME NEW n \in S PROVE ~ (n < m)
  <2>1. <<n, m>> \notin LessThanNat
    BY <1>3
  <2>2. QED
    BY <1>2, <2>1
<1>5. QED
  BY <1>3, <1>4

(* A reader goes on with one of the rules it still has to read.            *)
LEMMA CurrentThere ==
  ASSUME NEW me, me.ids \subseteq Nat, me.ids # {}
  PROVE  Current(me) \in me.ids
<1>1. \E id \in me.ids : \A other \in me.ids : id <= other
  BY LeastElement
<1>2. QED
  BY <1>1, Zenon DEF Current

(* It is the one there is.                                                 *)
LEMMA CurrentOnly == ASSUME NEW me, NEW id \in Nat, me.ids = {id} PROVE Current(me) = id
<1>1. Current(me) \in me.ids
  BY CurrentThere
<1>2. QED
  BY <1>1

(* Ids stay ids ...                                                        *)
LEMMA MoreIds ==
  ASSUME NEW m \in Nat, NEW n \in Nat, m <= n
  PROVE  1..(m - 1) \subseteq 1..(n - 1) /\ 0..(m - 1) \subseteq 0..(n - 1)
<1>1. ASSUME NEW k, k \in 1..(m - 1) PROVE k \in 1..(n - 1)
  BY <1>1
<1>2. ASSUME NEW k, k \in 0..(m - 1) PROVE k \in 0..(n - 1)
  BY <1>2
<1>3. QED
  BY <1>1, <1>2

(* ... and 0 is the only one that is not of a rule.                        *)
LEMMA RealIds ==
  ASSUME NEW m \in Nat \ {0}
  PROVE  /\ (0..(m - 1)) \ {0} = 1..(m - 1) /\ 1..(m - 1) \subseteq Nat /\ m \notin 0..(m - 1)
         /\ m \in 1..((m + 1) - 1) /\ m \in 0..((m + 1) - 1)
  OBVIOUS

(* The row that requests begin with                                        *)
LEMMA NoRowTyped == NoRow \in ESRule
<1>1. States(Earlier, 0) = {}
  BY DEF States
<1>2. <<Earlier, 0>> \in Trigger /\ Earlier \in Source
  BY RequestAssumption DEF Trigger, Source
<1>3. QED
  BY <1>1, <1>2 DEF NoRow, Content, ESRule
-----------------------------------------------------------------------------
(* What steps have in common                                               *)

(* The words of reading                                                    *)
LEMMA QueryWords == Queries = ReadWords \cup CopyWords
<1>1. Range(ReadScript) = ReadWords
  BY DEF Range, ReadScript, ReadWords
<1>2. Range(CopyScript) = CopyWords
  BY DEF Range, CopyScript, CopyWords
<1>3. QED
  BY <1>1, <1>2 DEF Queries

(* A request writes at the words of writing.                               *)
LEMMA WritingWords ==
  ASSUME NEW me, Placed(me)
  PROVE  (me.mode # "read" /\ ~ me.pc \in Queries /\ me.pc \notin {"begin", "done", "failed"})
            <=> me.pc \in WriteWords
  BY QueryWords DEF Placed, WriteWords, ReadWords, CopyWords, CreateWords, EditWords, DeleteWords

(* Everything is known of the requests before and after a step.            *)
Before == IInv /\ DInv
Afterwards == IInv' /\ DInv'

(* Where requests are                                                      *)
LEMMA WhereTheyAre ==
  ASSUME Before, Afterwards, NEW r \in Request
  PROVE  /\ DOMAIN req = Request /\ DOMAIN req[r] = Fields /\ Placed(req[r])
         /\ DOMAIN req' = Request /\ DOMAIN req'[r] = Fields /\ Placed(req'[r])
         /\ Writing(r) <=> req[r].pc \in WriteWords
         /\ Writing(r)' <=> req'[r].pc \in WriteWords
<1>1. /\ DOMAIN req = Request /\ DOMAIN req[r] = Fields /\ Placed(req[r])
      /\ DOMAIN req' = Request /\ DOMAIN req'[r] = Fields /\ Placed(req'[r])
  BY DEF Before, Afterwards, IInv, ReqsPaired, ReqPaired, DInv, ReqsSound, ReqSound
<1>2. Writing(r) <=> req[r].pc \in WriteWords
  BY <1>1, WritingWords, Zenon DEF Writing, Reading
<1>3. Writing(r)' <=> req'[r].pc \in WriteWords
  <2>1. Writing(r)' <=> (req'[r].mode # "read" /\ ~ req'[r].pc \in Queries
                           /\ req'[r].pc \notin {"begin", "done", "failed"})
    BY DEF Writing, Reading
  <2>2. QED
    BY <1>1, <2>1, WritingWords, Zenon
<1>4. QED
  BY <1>1, <1>2, <1>3

(* The other requests are where they were.                                 *)
OthersSame(r) == DOMAIN req' = Request /\ \A q \in Request \ {r} : req'[q] = req[q]

(* What a request has when it goes on ...                                  *)
LEMMA Advanced ==
  ASSUME Before, NEW r \in Request, NEW me, Advance(r, me), req[r].pc \notin Ended, DOMAIN me = Fields
  PROVE  /\ OthersSame(r)
         /\ req'[r].pc = Following(req[r].mode, req[r].pc)
         /\ \A f \in Fields \ {"pc"} : req'[r][f] = me[f]
<1>1. DOMAIN req = Request /\ Placed(req[r])
  BY DEF Before, IInv, ReqsPaired, DInv, ReqsSound, ReqSound
<1>2. req' = [req EXCEPT ![r] = [me EXCEPT !.pc = Following(req[r].mode, req[r].pc)]]
  BY <1>1, Afters DEF Advance
<1> DEFINE pc == Following(req[r].mode, req[r].pc)
<1> HIDE DEF pc
<1>3. req'[r] = [me EXCEPT !.pc = pc] /\ OthersSame(r)
  BY <1>1, <1>2 DEF OthersSame, pc
<1>4. QED
  BY <1>3 DEF Fields, pc

(* ... or fails.                                                           *)
LEMMA Failing ==
  ASSUME Before, NEW r \in Request, Fail(r)
  PROVE  /\ OthersSame(r)
         /\ req'[r].pc = "failed" /\ req'[r].failed_at = req[r].pc /\ req'[r].mode = req[r].mode
         /\ req'[r].id = req[r].id /\ req'[r].alone = req[r].alone /\ req'[r].busy = req[r].busy
         /\ req'[r].row = NoRow /\ req'[r].rows = {} /\ req'[r].todo = {} /\ req'[r].ids = {}
         /\ req'[r].shown = {} /\ req'[r].states = 0 /\ req'[r].added = 0
<1> DEFINE new == [NotBegun EXCEPT !.pc = "failed", !.failed_at = req[r].pc,
                      !.mode = req[r].mode, !.id = req[r].id, !.alone = req[r].alone,
                      !.busy = req[r].busy]
<1>1. DOMAIN req = Request
  BY DEF Before, IInv, ReqsPaired
<1>2. req' = [req EXCEPT ![r] = new]
  BY DEF Fail
<1>3. /\ new.pc = "failed" /\ new.failed_at = req[r].pc /\ new.mode = req[r].mode
      /\ new.id = req[r].id /\ new.alone = req[r].alone /\ new.busy = req[r].busy
      /\ new.row = NoRow /\ new.rows = {} /\ new.todo = {} /\ new.ids = {}
      /\ new.shown = {} /\ new.states = 0 /\ new.added = 0
  BY DEF NotBegun
<1> HIDE DEF new
<1>4. req'[r] = new /\ OthersSame(r)
  BY <1>1, <1>2 DEF OthersSame
<1>5. QED
  BY <1>3, <1>4

(* The rest of a step other than the arrival of a request                  *)
Step(r) ==
    \/ InsertRows(r) \/ CreateRule(r) \/ SaveRule(r) \/ DeleteRule(r)
    \/ FindRule(r) \/ GetRule(r) \/ FetchRows(r) \/ FetchEvent(r) \/ FetchAction(r)
    \/ DeleteEvent(r) \/ DeleteAction(r)
    \/ ListStates(r) \/ DropState(r) \/ StatesDropped(r)
    \/ AddState(r) \/ StatesAdded(r)
    \/ ListRules(r) \/ ReadRule(r) \/ ReadStates(r) \/ ReadAction(r)
    \/ ListRows(r) \/ TakeRule(r) \/ CopyEvent(r) \/ CopyAction(r) \/ CopyStates(r)
    \/ AllRead(r) \/ Answer(r)

Stepped(r) ==
    /\ OthersSame(r)
    /\ req'[r].alone = req[r].alone /\ req'[r].mode = req[r].mode
    /\ Writing(r)' => Writing(r)
    /\ req[r].pc # "failed"
    /\ \/ /\ req'[r].id = req[r].id /\ next_id' = next_id /\ req[r].pc # "create_rule"
          /\ Past(req[r]) => Past(req'[r])
       \/ /\ req[r].pc = "create_rule" /\ Writing(r)
          /\ req'[r].id = next_id /\ next_id' = next_id + 1

(* A request that goes on with its next statement steps.                   *)
LEMMA AdvanceSteps ==
  ASSUME Before, Afterwards, NEW r \in Request, NEW me, Advance(r, me),
         req[r].pc \notin Ended \cup {"create_rule"}, DOMAIN me = Fields,
         me.alone = req[r].alone, me.mode = req[r].mode, me.id = req[r].id, next_id' = next_id
  PROVE  Stepped(r)
<1>1. /\ OthersSame(r)
      /\ req'[r].pc = Following(req[r].mode, req[r].pc)
      /\ req'[r].alone = req[r].alone /\ req'[r].mode = req[r].mode /\ req'[r].id = req[r].id
  BY Advanced DEF Fields
<1>2. /\ Placed(req[r]) /\ Writing(r) <=> req[r].pc \in WriteWords
      /\ Writing(r)' <=> req'[r].pc \in WriteWords
  BY WhereTheyAre
<1>3. Writing(r)' => Writing(r)
  BY <1>1, <1>2 DEF Following, Ended, Placed, WriteWords, ReadWords, CopyWords, CreateWords, EditWords, DeleteWords
<1>4. Past(req[r]) => Past(req'[r])
  BY <1>1, <1>2 DEF Following, Ended, Placed, Past, ReadWords, CopyWords, CreateWords, EditWords, DeleteWords
<1>5. QED
  BY <1>1, <1>3, <1>4 DEF Stepped, Ended

(* A request that fails steps.                                             *)
LEMMA FailSteps ==
  ASSUME Before, Afterwards, NEW r \in Request, Fail(r), req[r].pc \notin {"failed", "create_rule"},
         next_id' = next_id
  PROVE  Stepped(r)
<1>1. /\ OthersSame(r) /\ req'[r].pc = "failed"
      /\ req'[r].alone = req[r].alone /\ req'[r].mode = req[r].mode /\ req'[r].id = req[r].id
  BY Failing
<1>2. Writing(r)' <=> req'[r].pc \in WriteWords
  BY WhereTheyAre
<1>3. ~ Writing(r)' /\ Past(req'[r])
  BY <1>1, <1>2 DEF Past, WriteWords, CreateWords, EditWords, DeleteWords
<1>4. QED
  BY <1>1, <1>3 DEF Stepped

(* Every other step.                                                       *)
LEMMA Stepping ==
  ASSUME Before, Afterwards, NEW r \in Request, Step(r)
  PROVE  Stepped(r)
<1> DEFINE me == req[r]
<1>1. /\ DOMAIN req = Request /\ DOMAIN me = Fields /\ Placed(me)
      /\ Placed(req'[r])
      /\ Writing(r) <=> me.pc \in WriteWords
      /\ Writing(r)' <=> req'[r].pc \in WriteWords
  BY WhereTheyAre
<1>2. CASE \/ InsertRows(r) \/ SaveRule(r) \/ DeleteRule(r) \/ DeleteEvent(r) \/ DeleteAction(r)
          \/ StatesDropped(r) \/ StatesAdded(r)
  <2>1. Advance(r, me) /\ me.pc \notin Ended \cup {"create_rule"} /\ next_id' = next_id
    BY <1>2 DEF InsertRows, SaveRule, DeleteRule, DeleteEvent, DeleteAction, StatesDropped,
          StatesAdded, Tables, Ended
  <2>2. QED
    BY <1>1, <2>1, AdvanceSteps
<1>3. CASE FetchRows(r) \/ FetchEvent(r) \/ FetchAction(r) \/ CopyEvent(r) \/ CopyAction(r)
  <2>1. Advance(r, me) \/ Fail(r)
    BY <1>3 DEF FetchRows, FetchEvent, FetchAction, CopyEvent, CopyAction
  <2>2. me.pc \notin Ended \cup {"create_rule"} /\ me.pc # "failed" /\ next_id' = next_id
    BY <1>3 DEF FetchRows, FetchEvent, FetchAction, CopyEvent, CopyAction, Tables, Ended
  <2>3. QED
    BY <1>1, <2>1, <2>2, AdvanceSteps, FailSteps
<1>4. CASE GetRule(r) \/ ReadRule(r)
  <2>1. PICK row : Fail(r) \/ Advance(r, [me EXCEPT !.row = row])
    BY <1>4 DEF GetRule, ReadRule
  <2>2. me.pc \notin Ended \cup {"create_rule"} /\ me.pc # "failed" /\ next_id' = next_id
    BY <1>4 DEF GetRule, ReadRule, Tables, Ended
  <2> DEFINE new == [me EXCEPT !.row = row]
  <2>3. DOMAIN new = Fields /\ new.alone = me.alone /\ new.mode = me.mode /\ new.id = me.id
    BY <1>1 DEF Fields
  <2> HIDE DEF new
  <2>4. CASE Advance(r, new)
    BY <2>2, <2>3, <2>4, AdvanceSteps
  <2>5. CASE Fail(r)
    BY <2>2, <2>5, FailSteps
  <2>6. QED
    BY <2>1, <2>4, <2>5 DEF new
<1>5. CASE ListStates(r) \/ ListRules(r) \/ ReadStates(r) \/ ListRows(r) \/ TakeRule(r)
  <2>1. \E new : /\ Advance(r, new)
                 /\ DOMAIN new = Fields /\ new.alone = me.alone /\ new.mode = me.mode
                 /\ new.id = me.id
    <3>1. CASE ListStates(r)
      <4> DEFINE new == [me EXCEPT !.todo = StatesOf(me.id)]
      <4>1. Advance(r, new)
        BY <3>1 DEF ListStates
      <4>2. DOMAIN new = Fields /\ new.alone = me.alone /\ new.mode = me.mode /\ new.id = me.id
        BY <1>1 DEF Fields
      <4> HIDE DEF new
      <4>3. QED
        BY <4>1, <4>2
    <3>2. CASE ListRules(r)
      <4> DEFINE new == [me EXCEPT !.ids = DOMAIN rule, !.busy = BeingWritten]
      <4>1. Advance(r, new)
        BY <3>2 DEF ListRules
      <4>2. DOMAIN new = Fields /\ new.alone = me.alone /\ new.mode = me.mode /\ new.id = me.id
        BY <1>1 DEF Fields
      <4> HIDE DEF new
      <4>3. QED
        BY <4>1, <4>2
    <3>3. CASE ReadStates(r)
      <4> DEFINE new == [me EXCEPT !.row.Striggers = StatesOf(Current(me))]
      <4>1. Advance(r, new)
        BY <3>3 DEF ReadStates
      <4>2. DOMAIN new = Fields /\ new.alone = me.alone /\ new.mode = me.mode /\ new.id = me.id
        BY <1>1 DEF Fields
      <4> HIDE DEF new
      <4>3. QED
        BY <4>1, <4>2
    <3>4. CASE ListRows(r)
      <4>1. PICK rows : Advance(r, [me EXCEPT !.rows = rows, !.busy = BeingWritten])
        BY <3>4 DEF ListRows
      <4> DEFINE new == [me EXCEPT !.rows = rows, !.busy = BeingWritten]
      <4>2. DOMAIN new = Fields /\ new.alone = me.alone /\ new.mode = me.mode /\ new.id = me.id
        BY <1>1 DEF Fields
      <4> HIDE DEF new
      <4>3. QED
        BY <4>1, <4>2 DEF new
    <3>5. CASE TakeRule(r)
      <4>1. PICK next : Advance(r, [me EXCEPT !.ids = {next.id}, !.row = next.row, !.rows = @ \ {next}])
        BY <3>5 DEF TakeRule
      <4> DEFINE new == [me EXCEPT !.ids = {next.id}, !.row = next.row, !.rows = @ \ {next}]
      <4>2. DOMAIN new = Fields /\ new.alone = me.alone /\ new.mode = me.mode /\ new.id = me.id
        BY <1>1 DEF Fields
      <4> HIDE DEF new
      <4>3. QED
        BY <4>1, <4>2 DEF new
    <3>6. QED
      BY <1>5, <3>1, <3>2, <3>3, <3>4, <3>5
  <2>2. me.pc \notin Ended \cup {"create_rule"} /\ next_id' = next_id
    BY <1>5 DEF ListStates, ListRules, ReadStates, ListRows, TakeRule, Tables, Ended
  <2>3. QED
    BY <2>1, <2>2, AdvanceSteps
<1>6. CASE FindRule(r)
  <2>1. me.pc = "find_rule" /\ next_id' = next_id
    BY <1>6 DEF FindRule, Tables
  <2>2. CASE Advance(r, me)
    BY <1>1, <2>1, <2>2, AdvanceSteps DEF Ended
  <2>3. CASE req' = [req EXCEPT ![r].pc = "list_rules"]
    <3>1. OthersSame(r) /\ req'[r] = [me EXCEPT !.pc = "list_rules"]
      BY <1>1, <2>3 DEF OthersSame
    <3>2. /\ req'[r].pc = "list_rules" /\ req'[r].alone = me.alone /\ req'[r].mode = me.mode
          /\ req'[r].id = me.id
      BY <1>1, <3>1 DEF Fields
    <3>3. ~ Writing(r)' /\ Past(req'[r])
      BY <1>1, <3>2 DEF Past, WriteWords, CreateWords, EditWords, DeleteWords
    <3>4. QED
      BY <2>1, <3>1, <3>2, <3>3 DEF Stepped
  <2>4. QED
    BY <1>6, <2>2, <2>3 DEF FindRule
<1>7. CASE CreateRule(r)
  <2>1. /\ me.pc = "create_rule" /\ next_id' = next_id + 1
        /\ req' = [req EXCEPT ![r].pc = After(me), ![r].id = next_id]
    BY <1>7 DEF CreateRule
  <2>2. OthersSame(r) /\ req'[r] = [me EXCEPT !.pc = After(me), !.id = next_id]
    BY <1>1, <2>1 DEF OthersSame
  <2>3. req'[r].alone = me.alone /\ req'[r].mode = me.mode /\ req'[r].id = next_id
    BY <1>1, <2>2 DEF Fields
  <2>4. Writing(r)
    BY <1>1, <2>1 DEF WriteWords, CreateWords
  <2>5. QED
    BY <2>1, <2>2, <2>3, <2>4 DEF Stepped
<1>8. CASE DropState(r)
  <2>1. PICK st : req' = [req EXCEPT ![r].todo = @ \ {st}]
    BY <1>8 DEF DropState
  <2>2. OthersSame(r) /\ req'[r] = [me EXCEPT !.todo = @ \ {st}]
    BY <1>1, <2>1 DEF OthersSame
  <2>3. /\ req'[r].alone = me.alone /\ req'[r].mode = me.mode /\ req'[r].id = me.id
        /\ req'[r].pc = me.pc
    BY <1>1, <2>2 DEF Fields
  <2>4. me.pc = "drop_states" /\ next_id' = next_id
    BY <1>8 DEF DropState
  <2>5. QED
    BY <1>1, <2>2, <2>3, <2>4 DEF Stepped, Past
<1>9. CASE AddState(r)
  <2>1. me.pc = "add_states" /\ next_id' = next_id
    BY <1>9 DEF AddState
  <2>2. CASE Fail(r)
    BY <2>1, <2>2, FailSteps
  <2>3. CASE req' = [req EXCEPT ![r].added = @ + 1]
    <3>1. OthersSame(r) /\ req'[r] = [me EXCEPT !.added = @ + 1]
      BY <1>1, <2>3 DEF OthersSame
    <3>2. /\ req'[r].alone = me.alone /\ req'[r].mode = me.mode /\ req'[r].id = me.id
          /\ req'[r].pc = me.pc
      BY <1>1, <3>1 DEF Fields
    <3>3. QED
      BY <1>1, <2>1, <3>1, <3>2 DEF Stepped, Past
  <2>4. QED
    BY <1>9, <2>2, <2>3 DEF AddState
<1>10. CASE ReadAction(r)
  <2>1. me.pc = "read_action" /\ next_id' = next_id
    BY <1>10 DEF ReadAction, Tables
  <2>2. CASE Fail(r)
    BY <2>1, <2>2, FailSteps
  <2>3. CASE ~ Fail(r)
    <3>1. PICK shown, ids : req' = [req EXCEPT ![r].pc = "read_rule", ![r].row = NoRow,
                              ![r].shown = shown, ![r].ids = ids]
      BY <1>10, <2>3 DEF ReadAction
    <3>2. OthersSame(r) /\ req'[r] = [me EXCEPT !.pc = "read_rule", !.row = NoRow,
                                         !.shown = shown, !.ids = ids]
      BY <1>1, <3>1 DEF OthersSame
    <3>3. /\ req'[r].alone = me.alone /\ req'[r].mode = me.mode /\ req'[r].id = me.id
          /\ req'[r].pc = "read_rule"
      BY <1>1, <3>2 DEF Fields
    <3>4. QED
      BY <1>1, <2>1, <3>2, <3>3 DEF Stepped, Past, WriteWords, CreateWords, EditWords, DeleteWords
  <2>4. QED
    BY <2>2, <2>3
<1>11. CASE CopyStates(r)
  <2>1. me.pc = "copy_states" /\ next_id' = next_id
    BY <1>11 DEF CopyStates, Tables
  <2>2. PICK shown : req' = [req EXCEPT ![r].pc = "take_rule", ![r].row = NoRow,
                            ![r].shown = shown, ![r].ids = {}]
    BY <1>11 DEF CopyStates
  <2>3. OthersSame(r) /\ req'[r] = [me EXCEPT !.pc = "take_rule", !.row = NoRow,
                                       !.shown = shown, !.ids = {}]
    BY <1>1, <2>2 DEF OthersSame
  <2>4. /\ req'[r].alone = me.alone /\ req'[r].mode = me.mode /\ req'[r].id = me.id
        /\ req'[r].pc = "take_rule"
    BY <1>1, <2>3 DEF Fields
  <2>5. QED
    BY <1>1, <2>1, <2>3, <2>4 DEF Stepped, Past, WriteWords, CreateWords, EditWords, DeleteWords
<1>12. CASE AllRead(r)
  <2>1. me.pc \in {"read_rule", "take_rule"} /\ next_id' = next_id /\ req' = [req EXCEPT ![r].pc = "answer"]
    BY <1>12 DEF AllRead, Tables
  <2>2. OthersSame(r) /\ req'[r] = [me EXCEPT !.pc = "answer"]
    BY <1>1, <2>1 DEF OthersSame
  <2>3. /\ req'[r].alone = me.alone /\ req'[r].mode = me.mode /\ req'[r].id = me.id
        /\ req'[r].pc = "answer"
    BY <1>1, <2>2 DEF Fields
  <2>4. QED
    BY <1>1, <2>1, <2>2, <2>3 DEF Stepped, Past, WriteWords, CreateWords, EditWords, DeleteWords
<1>13. CASE Answer(r)
  <2> DEFINE new == [NotBegun EXCEPT !.pc = "done", !.mode = me.mode, !.id = me.id, !.alone = me.alone]
  <2>1. me.pc = "answer" /\ next_id' = next_id /\ req' = [req EXCEPT ![r] = new]
    BY <1>13 DEF Answer, Tables
  <2>2. OthersSame(r) /\ req'[r] = new
    BY <1>1, <2>1 DEF OthersSame
  <2>3. new.alone = me.alone /\ new.mode = me.mode /\ new.id = me.id /\ new.pc = "done"
    BY DEF NotBegun
  <2> HIDE DEF new
  <2>4. QED
    BY <1>1, <2>1, <2>2, <2>3 DEF Stepped, Past, WriteWords, CreateWords, EditWords, DeleteWords
<1>14. QED
  BY <1>2, <1>3, <1>4, <1>5, <1>6, <1>7, <1>8, <1>9, <1>10, <1>11, <1>12, <1>13, Zenon DEF Step

(* A step changes no other rule than that of the request, and deletes no   *)
(* other rows than those that only this rule can have.                     *)
SameAt(id) ==
    /\ id \in DOMAIN rule' <=> id \in DOMAIN rule
    /\ id \in DOMAIN rule => rule'[id] = rule[id]
Touched(r) ==
    /\ \A id : id # req'[r].id => SameAt(id)
    /\ ~ Writing(r) => UNCHANGED <<rule, trigger, action>>
    /\ \A t \in trigger \ trigger' : Owner(req, t[1], req[r].id)
    /\ \A a \in action \ action' : Owner(req, a, req[r].id)

(* What triggers that only one rule can have cascade to is that rule.      *)
LEMMA CascadeTouches ==
  ASSUME Before, Typed, StatesOwned, NEW id, NEW ts, \A t \in ts : Owner(req, t[1], id), DeleteTriggers(ts)
  PROVE  \A other : other # id => SameAt(other)
<1> SUFFICES ASSUME NEW other, other # id PROVE SameAt(other)
  OBVIOUS
<1>1. CASE other \in DOMAIN rule
  <2>1. /\ DOMAIN rule[other] = {"Etrigger", "action", "Striggers"}
        /\ rule[other].Etrigger = <<rule[other].action, 0>>
        /\ Owner(req, rule[other].action, other)
        /\ \A st \in rule[other].Striggers : Owner(req, st[1], other)
    BY <1>1 DEF Before, IInv, RulesPaired, Paired, DInv, RulesOwned, StatesOwned
  <2>2. rule[other].Etrigger[1] = rule[other].action
    BY <2>1
  <2>3. rule[other].Etrigger \notin ts
    BY <2>1, <2>2, OneOwned
  <2>4. rule[other].Striggers \ ts = rule[other].Striggers
    BY <2>1, OneOwned
  <2>5. other \in DOMAIN rule' /\ rule'[other] = [rule[other] EXCEPT !.Striggers = @ \ ts]
    BY <1>1, <2>3 DEF DeleteTriggers
  <2>6. rule'[other] = rule[other]
    <3>1. rule[other] \in ESRule
      BY <1>1 DEF Typed
    <3> DEFINE states == rule[other].Striggers \ ts
    <3>2. rule'[other] = [rule[other] EXCEPT !.Striggers = states] /\ states = rule[other].Striggers
      BY <2>4, <2>5
    <3> HIDE DEF states
    <3>3. QED
      BY <3>1, <3>2 DEF ESRule
  <2>7. QED
    BY <1>1, <2>5, <2>6 DEF SameAt
<1>2. CASE other \notin DOMAIN rule
  BY <1>2 DEF DeleteTriggers, SameAt
<1>3. QED
  BY <1>1, <1>2

(* Every step touches what is the request's own.                           *)
LEMMA Touching ==
  ASSUME Before, Afterwards, Typed, StatesOwned, NEW r \in Request, Step(r)
  PROVE  Touched(r)
<1> DEFINE me == req[r]
<1>1. Stepped(r)
  BY Stepping
<1>2. Placed(me) /\ (Writing(r) <=> me.pc \in WriteWords) /\ Paired(me.row)
  <2>1. Paired(me.row)
    BY DEF Before, IInv, ReqsPaired, ReqPaired
  <2>2. QED
    BY <2>1, WhereTheyAre
<1>3. ASSUME me.pc # "create_rule" PROVE req'[r].id = me.id
  BY <1>1, <1>3 DEF Stepped
<1>4. CASE UNCHANGED <<rule, trigger, action>>
  BY <1>4 DEF Touched, SameAt
<1>5. CASE InsertRows(r)
  <2>1. me.pc = "insert_rows" /\ rule' = rule /\ trigger \subseteq trigger' /\ action \subseteq action'
    BY <1>5 DEF InsertRows
  <2>2. QED
    BY <1>2, <2>1 DEF Touched, SameAt, WriteWords, CreateWords
<1>6. CASE CreateRule(r) \/ SaveRule(r)
  <2>1. /\ me.pc \in {"create_rule", "save_rule"} /\ trigger' = trigger /\ action' = action
        /\ \E row : rule' = PutRule(req'[r].id, row)
    <3>1. CASE CreateRule(r)
      BY <1>1, <3>1 DEF CreateRule, Stepped
    <3>2. CASE SaveRule(r)
      BY <1>3, <3>2 DEF SaveRule
    <3>3. QED
      BY <1>6, <3>1, <3>2
  <2>2. ASSUME NEW id, id # req'[r].id PROVE SameAt(id)
    BY <2>1, <2>2 DEF PutRule, SameAt
  <2>3. QED
    BY <1>2, <2>1, <2>2 DEF Touched, WriteWords, CreateWords, EditWords
<1>7. CASE DeleteRule(r)
  <2>1. me.pc = "delete_rule" /\ trigger' = trigger /\ action' = action /\ req'[r].id = me.id
    BY <1>3, <1>7 DEF DeleteRule
  <2>2. ASSUME NEW id, id # me.id PROVE SameAt(id)
    BY <1>7, <2>2 DEF DeleteRule, RestrictRules, SameAt
  <2>3. QED
    BY <1>2, <2>1, <2>2 DEF Touched, WriteWords, DeleteWords
<1>8. CASE DeleteEvent(r)
  <2>1. me.pc = "delete_event" /\ action' = action /\ req'[r].id = me.id /\ DeleteTriggers({me.row.Etrigger})
    BY <1>3, <1>8 DEF DeleteEvent
  <2>2. Owner(req, me.row.action, me.id)
    BY <1>2, <2>1 DEF Before, DInv, RowsOwned, Holding, Placed, ReadWords, CopyWords, CreateWords,
          EditWords, DeleteWords
  <2>3. \A t \in {me.row.Etrigger} : Owner(req, t[1], me.id)
    BY <1>2, <2>2 DEF Paired
  <2>4. \A other : other # me.id => SameAt(other)
    BY <2>1, <2>3, CascadeTouches
  <2>5. trigger \ trigger' \subseteq {me.row.Etrigger}
    BY <2>1 DEF DeleteTriggers
  <2>6. QED
    BY <1>2, <2>1, <2>3, <2>4, <2>5 DEF Touched, WriteWords, DeleteWords
<1>9. CASE DropState(r)
  <2>1. PICK st \in me.todo : DeleteTriggers({st})
    BY <1>9 DEF DropState
  <2>2. me.pc = "drop_states" /\ action' = action /\ req'[r].id = me.id
    BY <1>3, <1>9 DEF DropState
  <2>3. \A t \in {st} : Owner(req, t[1], me.id)
    BY <2>1 DEF StatesOwned
  <2>4. \A other : other # me.id => SameAt(other)
    BY <2>1, <2>3, CascadeTouches
  <2>5. trigger \ trigger' \subseteq {st}
    BY <2>1 DEF DeleteTriggers
  <2>6. QED
    BY <1>2, <2>2, <2>3, <2>4, <2>5 DEF Touched, WriteWords, DeleteWords
<1>10. CASE DeleteAction(r)
  <2>1. me.pc = "delete_action" /\ trigger' = trigger /\ req'[r].id = me.id /\ DeleteActions({me.row.action})
    BY <1>3, <1>10 DEF DeleteAction
  <2>2. Owner(req, me.row.action, me.id)
    BY <1>2, <2>1 DEF Before, DInv, RowsOwned, Holding, Placed, ReadWords, CopyWords, CreateWords,
          EditWords, DeleteWords
  <2>3. ASSUME NEW other, other # me.id PROVE SameAt(other)
    <3>1. CASE other \in DOMAIN rule
      <4>1. Owner(req, rule[other].action, other)
        BY <3>1 DEF Before, DInv, RulesOwned
      <4>2. rule[other].action # me.row.action
        BY <2>2, <2>3, <4>1, OneOwned
      <4>3. QED
        BY <2>1, <3>1, <4>2 DEF DeleteActions, RestrictRules, SameAt
    <3>2. CASE other \notin DOMAIN rule
      BY <2>1, <3>2 DEF DeleteActions, RestrictRules, SameAt
    <3>3. QED
      BY <3>1, <3>2
  <2>4. action \ action' \subseteq {me.row.action}
    BY <2>1 DEF DeleteActions
  <2>5. QED
    BY <1>2, <2>1, <2>2, <2>3, <2>4 DEF Touched, WriteWords, DeleteWords
<1>11. CASE AddState(r)
  <2>1. me.pc = "add_states" /\ action' = action /\ trigger \subseteq trigger' /\ req'[r].id = me.id
    BY <1>3, <1>11 DEF AddState
  <2>2. ASSUME NEW id, id # me.id PROVE SameAt(id)
    BY <1>11, <2>2 DEF AddState, SameAt
  <2>3. QED
    BY <1>2, <2>1, <2>2 DEF Touched, WriteWords, CreateWords
<1>12. CASE \/ FindRule(r) \/ GetRule(r) \/ FetchRows(r) \/ FetchEvent(r) \/ FetchAction(r)
           \/ ListStates(r) \/ StatesDropped(r) \/ StatesAdded(r)
           \/ ListRules(r) \/ ReadRule(r) \/ ReadStates(r) \/ ReadAction(r)
           \/ ListRows(r) \/ TakeRule(r) \/ CopyEvent(r) \/ CopyAction(r) \/ CopyStates(r)
           \/ AllRead(r) \/ Answer(r)
  <2>1. UNCHANGED <<rule, trigger, action>>
    BY <1>12 DEF FindRule, GetRule, FetchRows, FetchEvent, FetchAction, ListStates, StatesDropped,
          StatesAdded, ListRules, ReadRule, ReadStates, ReadAction, ListRows, TakeRule, CopyEvent,
          CopyAction, CopyStates, AllRead, Answer, Tables
  <2>2. QED
    BY <1>4, <2>1
<1>13. QED
  BY <1>5, <1>6, <1>7, <1>8, <1>9, <1>10, <1>11, <1>12, Zenon DEF Step

(* What is said of one request in the invariants                           *)
Own(r) ==
    /\ ReqTyped(req[r])
    /\ Inserted(req[r]) => <<r, 0>> \in trigger /\ r \in action
    /\ \A st \in req[r].todo : Owner(req, st[1], req[r].id)
    /\ Writing(r) /\ req[r].alone => Lone(rule, action, r, req[r])
    /\ Reads(req[r])
    /\ FailureExplained(req[r])

(* The invariants say it of every request.                                 *)
LEMMA Owned == ASSUME WInv, NEW r \in Request PROVE Own(r)
  BY DEF WInv, Typed, Keyed, StatesOwned, AloneFind, ReadersRight, FailuresExplained, Own

(* What a request has made stays its own.                                  *)
LEMMA OwnerStep ==
  ASSUME NEW r \in Request, Stepped(r), NEW q, NEW id, Owner(req, q, id)
  PROVE  Owner(req', q, id)
  BY DEF Stepped, OthersSame, Owner, Past

(* A rule that is not written is not by the end of a step.                 *)
LEMMA CalmStays ==
  ASSUME Before, Afterwards, Typed, NEW r \in Request, Stepped(r), Touched(r), NEW id, Calm(id)
  PROVE  Calm(id)' /\ rule'[id] = rule[id]
<1>1. id \in DOMAIN rule /\ id \in 1 .. next_id - 1 /\ next_id \in Nat
  BY DEF Calm, Typed, RuleIds
<1>2. ASSUME NEW q \in Request, Writing(q)', req'[q].id = id PROVE FALSE
  <2>1. CASE q # r
    <3>1. Writing(q) /\ req[q].id = id
      BY <1>2, <2>1 DEF Stepped, OthersSame, Writing, Reading
    <3>2. QED
      BY <3>1 DEF Calm, Writers
  <2>2. CASE q = r
    <3>1. Writing(r) /\ req[r].id = id
      BY <1>1, <1>2, <2>2 DEF Stepped
    <3>2. QED
      BY <3>1 DEF Calm, Writers
  <2>3. QED
    BY <2>1, <2>2
<1>3. Writers(id)' = {}
  BY <1>2 DEF Writers
<1>4. SameAt(id)
  <2>1. CASE id # req'[r].id
    BY <2>1 DEF Touched
  <2>2. CASE id = req'[r].id
    <3>1. req[r].id = id
      BY <1>1, <2>2 DEF Stepped
    <3>2. ~ Writing(r)
      BY <3>1 DEF Calm, Writers
    <3>3. QED
      BY <3>2 DEF Touched, SameAt
  <2>3. QED
    BY <2>1, <2>2
<1>5. QED
  BY <1>1, <1>3, <1>4 DEF Calm, SameAt

(* The words at which a request that writes has a rule that may be there.  *)
LEMMA LoneSame ==
  ASSUME NEW rules, NEW others, NEW acts, NEW left, NEW r, NEW me, Placed(me), me.pc \in WriteWords,
         me.mode = "create" => me.pc = "add_states",
         me.id \in DOMAIN others <=> me.id \in DOMAIN rules,
         me.id \in DOMAIN rules => others[me.id] = rules[me.id],
         me.pc = "fetch_action" /\ me.row.action \in acts => me.row.action \in left,
         Lone(rules, acts, r, me)
  PROVE  Lone(others, left, r, me)
  BY DEF Lone, Placed, WriteWords, ReadWords, CopyWords, CreateWords, EditWords, DeleteWords

(* Every step leaves the other requests what they have.                    *)
LEMMA OthersKept ==
  ASSUME Before, Afterwards, WInv, NEW r \in Request, Stepped(r), Touched(r), NEW q \in Request, q # r
  PROVE  Own(q)'
<1> DEFINE me == req[q]
<1>1. Own(q)
  BY Owned
<1>2. req'[q] = me
  BY DEF Stepped, OthersSame
<1>3. Placed(me) /\ (Writing(q) <=> me.pc \in WriteWords) /\ (Writing(q)' <=> me.pc \in WriteWords)
  BY <1>2, WhereTheyAre
<1>4. Typed /\ Sole /\ next_id \in Nat
  BY DEF WInv, Typed
<1>5. ReqTyped(req[q])'
  <2>1. next_id' \in {next_id, next_id + 1}
    BY DEF Stepped
  <2>2. RuleIds \subseteq RuleIds' /\ 0..(next_id - 1) \subseteq 0..(next_id' - 1)
    <3>1. next_id \in Nat /\ next_id' \in Nat /\ next_id <= next_id'
      BY <1>4, <2>1
    <3>2. QED
      BY <3>1, MoreIds DEF RuleIds
  <2>3. Shown \subseteq Shown'
    <3>1. Shown' = [id: RuleIds', row: ESRule]
      BY DEF Shown, ESRule
    <3>2. SUFFICES ASSUME NEW shown \in Shown PROVE shown \in Shown'
      OBVIOUS
    <3>3. shown \in [id: RuleIds, row: ESRule]
      BY DEF Shown
    <3>4. QED
      BY <2>2, <3>1, <3>3
  <2>4. ReqTyped(me)
    BY <1>1 DEF Own
  <2>5. QED
    BY <1>2, <2>2, <2>3, <2>4 DEF ReqTyped
<1>6. ASSUME Inserted(me) PROVE <<q, 0>> \in trigger' /\ q \in action'
  <2>1. <<q, 0>> \in trigger /\ q \in action
    BY <1>1, <1>6 DEF Own
  <2>2. ~ Owner(req, q, req[r].id)
    BY <1>6, RequestAssumption DEF Inserted, Owner, Past
  <2>3. <<q, 0>>[1] = q
    OBVIOUS
  <2>4. QED
    BY <2>1, <2>2, <2>3 DEF Touched
<1>7. ASSUME NEW st \in me.todo PROVE Owner(req', st[1], me.id)
  <2>1. Owner(req, st[1], me.id)
    BY <1>1 DEF Own
  <2>2. QED
    BY <2>1, OwnerStep
<1>8. ASSUME Writing(q), me.alone PROVE Lone(rule', action', q, me)
  <2>1. Lone(rule, action, q, me)
    BY <1>1, <1>8 DEF Own
  <2>2. CASE me.mode = "create" /\ me.pc # "add_states"
    BY <1>3, <1>8, <2>2 DEF Lone, Placed, WriteWords, ReadWords, CopyWords, CreateWords
  <2>3. CASE ~ (me.mode = "create" /\ me.pc # "add_states")
    <3>1. me.id # 0 /\ me.id \in 0 .. next_id - 1
      BY <1>1, <1>3, <1>8, <2>3 DEF Own, ReqTyped, Placed, WriteWords, ReadWords, CopyWords,
            CreateWords, EditWords, DeleteWords
    <3>2. Writing(r) => req[r].id # me.id
      BY <1>4, <1>8, <3>1 DEF Sole
    <3>3. SameAt(me.id)
      <4>1. CASE ~ Writing(r)
        BY <4>1 DEF Touched, SameAt
      <4>2. CASE Writing(r)
        <5>1. me.id # req'[r].id
          BY <1>4, <3>1, <3>2, <4>2 DEF Stepped
        <5>2. QED
          BY <5>1 DEF Touched
      <4>3. QED
        BY <4>1, <4>2
    <3>4. ASSUME me.pc = "fetch_action", me.row.action \in action PROVE me.row.action \in action'
      <4>1. Holding(me)
        BY <1>3, <3>4 DEF Holding, Placed, ReadWords, CopyWords, CreateWords, EditWords, DeleteWords
      <4>2. Owner(req, me.row.action, me.id)
        BY <4>1 DEF Before, DInv, RowsOwned
      <4>3. me.row.action \notin action' => Writing(r) /\ Owner(req, me.row.action, req[r].id)
        BY <3>4 DEF Touched
      <4>4. QED
        BY <3>2, <4>2, <4>3, OneOwned
    <3>5. QED
      BY <1>3, <1>8, <2>1, <2>3, <3>3, <3>4, LoneSame DEF SameAt
  <2>4. QED
    BY <2>2, <2>3
<1>9. Reads(me)'
  <2>1. Reads(me)
    BY <1>1 DEF Own
  <2>2. ASSUME NEW id, Calm(id) PROVE Calm(id)' /\ rule'[id] = rule[id]
    BY <1>4, <2>2, CalmStays
  <2>3. ASSUME NEW id \in me.ids \ me.busy PROVE Calm(id)' /\ rule'[id] = rule[id]
    BY <2>1, <2>2 DEF Reads
  <2>4. ASSUME NEW read \in me.rows \cup me.shown, read.id \notin me.busy
        PROVE  Calm(read.id)' /\ read.row = rule'[read.id]
    BY <2>1, <2>2, <2>4 DEF Reads
  <2>5. ASSUME me.pc \in Midway
        PROVE  Current(me) \in me.ids /\ (Current(me) \notin me.busy => me.row = rule'[Current(me)])
    BY <2>1, <2>3, <2>5 DEF Reads
  <2>6. QED
    BY <1>2, <2>1, <2>3, <2>4, <2>5 DEF Reads
<1>10. FailureExplained(me)
  BY <1>1 DEF Own
<1>11. QED
  BY <1>2, <1>3, <1>5, <1>6, <1>7, <1>8, <1>9, <1>10 DEF Own
-----------------------------------------------------------------------------
(* Readers                                                                 *)

(* What a reader has stays right when the tables are as they were.         *)
LEMMA ReaderKeeps ==
  ASSUME Before, Afterwards, WInv, NEW r \in Request, Stepped(r), Touched(r),
         UNCHANGED <<rule, trigger, action>>, req[r].pc \in ReadWords \cup CopyWords,
         NEW new, req'[r] = new, new.pc \in (ReadWords \cup CopyWords \cup {"done", "failed"})
                                               \ {"list_rules", "list_rows"},
         \/ new.states = req[r].states /\ new.added = req[r].added /\ new.todo = req[r].todo
         \/ new.states = 0 /\ new.added = 0 /\ new.todo = {},
         new.row \in ESRule, new.rows \cup new.shown \subseteq Shown,
         new.ids \cup new.busy \subseteq RuleIds,
         Reads(new), FailureExplained(new)
  PROVE  Own(r)'
<1> DEFINE me == req[r]
<1>1. Own(r) /\ Typed
  BY Owned DEF WInv
<1>2. /\ Placed(new) /\ ~ Writing(r)' /\ new.id = me.id /\ new.mode = me.mode /\ next_id' = next_id
  <2>1. ~ Writing(r)'
    BY WhereTheyAre DEF WriteWords, ReadWords, CopyWords, CreateWords, EditWords, DeleteWords
  <2>2. QED
    BY <2>1, WhereTheyAre DEF Stepped, ReadWords, CopyWords
<1>3. ReqTyped(req[r])'
  <2>1. RuleIds' = RuleIds
    BY <1>2 DEF RuleIds
  <2>2. Shown' = Shown
    BY <2>1 DEF Shown, ESRule
  <2>3. ReqTyped(me) /\ (new.states = 0 /\ new.added = 0 => new.states \in 0..MaxState /\ new.added \in 0..new.states)
    BY <1>1, RequestAssumption DEF Own
  <2>4. new.states \in 0..MaxState /\ new.added \in 0..new.states /\ new.todo \subseteq Trigger
    BY <2>3 DEF ReqTyped
  <2>5. /\ new.pc \notin Unnamed /\ new.pc # "add_states" /\ new.pc \notin WriteWords
        /\ new.pc # "begin"
    BY DEF Unnamed, ReadWords, CopyWords, WriteWords, CreateWords, EditWords, DeleteWords
  <2>6. /\ new.id \in 0..(next_id' - 1)
        /\ new.mode \in Modes /\ (new.mode \in {"edit", "delete"} => new.id # 0)
    BY <1>2, <2>3 DEF ReqTyped
  <2>7. QED
    BY <2>1, <2>2, <2>4, <2>5, <2>6 DEF ReqTyped
<1>4. ~ Inserted(new)
  BY DEF Inserted, ReadWords, CopyWords
<1>5. ASSUME NEW st \in new.todo PROVE Owner(req', st[1], new.id)
  <2>1. Owner(req, st[1], new.id)
    BY <1>1, <1>2 DEF Own
  <2>2. QED
    BY <2>1, OwnerStep
<1>6. Reads(new)'
  <2>1. ASSUME NEW id, Calm(id) PROVE Calm(id)'
    BY <1>1, <2>1, CalmStays
  <2>2. QED
    BY <2>1 DEF Reads
<1>7. Reads(req[r])'
  BY <1>6 DEF Reads, Current
<1>8. QED
  BY <1>2, <1>3, <1>4, <1>5, <1>7 DEF Own

(* What is known of a reader                                               *)
LEMMA ReaderKnown ==
  ASSUME Before, WInv, NEW r \in Request
  PROVE  /\ DOMAIN req[r] = Fields /\ Reads(req[r])
         /\ req[r].row \in ESRule /\ DOMAIN req[r].row = {"Etrigger", "action", "Striggers"}
         /\ req[r].rows \cup req[r].shown \subseteq Shown
         /\ req[r].ids \cup req[r].busy \subseteq RuleIds
         /\ RuleIds \subseteq Nat /\ DOMAIN rule \subseteq RuleIds
         /\ \A id \in DOMAIN rule : rule[id] \in ESRule
<1>1. Own(r) /\ Typed
  BY Owned DEF WInv
<1>2. RuleIds \subseteq Nat
  BY <1>1, RealIds DEF Typed, RuleIds
<1>3. DOMAIN req[r] = Fields /\ DOMAIN req[r].row = {"Etrigger", "action", "Striggers"}
  BY DEF Before, IInv, ReqsPaired, ReqPaired, Paired
<1>4. QED
  BY <1>1, <1>2, <1>3 DEF Own, ReqTyped, Typed

(* A reader fails only when what it reads is being written.                *)
LEMMA ReaderFails ==
  ASSUME Before, Afterwards, WInv, NEW r \in Request, Stepped(r), Touched(r),
         UNCHANGED <<rule, trigger, action>>, req[r].pc \in ReadWords \cup CopyWords,
         Fail(r), req[r].busy # {}
  PROVE  Own(r)'
<1> DEFINE new == req'[r]
<1>1. /\ new.pc = "failed" /\ new.failed_at = req[r].pc /\ new.mode = req[r].mode
      /\ new.id = req[r].id /\ new.alone = req[r].alone /\ new.busy = req[r].busy
      /\ new.row = NoRow /\ new.rows = {} /\ new.todo = {} /\ new.ids = {}
      /\ new.shown = {} /\ new.states = 0 /\ new.added = 0
  BY Failing
<1>2. req[r].busy \subseteq RuleIds
  BY ReaderKnown
<1>3. req[r].pc \in Queries
  BY QueryWords
<1> HIDE DEF new
<1>4. Reads(new)
  BY <1>1 DEF Reads, Midway
<1>5. FailureExplained(new)
  BY <1>1, <1>3 DEF FailureExplained
<1>6. QED
  BY <1>1, <1>2, <1>4, <1>5, NoRowTyped, ReaderKeeps DEF new

(* The statements of fe_all_rules_helper that change only the local state  *)
LEMMA ReadKeeps ==
  ASSUME Before, Afterwards, WInv, NEW r \in Request, Stepped(r), Touched(r),
         ListRules(r) \/ ReadRule(r) \/ ReadStates(r) \/ ListRows(r) \/ TakeRule(r)
  PROVE  Own(r)'
<1> DEFINE me == req[r]
           new == req'[r]
<1>1. /\ DOMAIN me = Fields /\ Reads(me)
      /\ me.row \in ESRule /\ DOMAIN me.row = {"Etrigger", "action", "Striggers"}
      /\ me.rows \cup me.shown \subseteq Shown
      /\ me.ids \cup me.busy \subseteq RuleIds
      /\ RuleIds \subseteq Nat /\ DOMAIN rule \subseteq RuleIds
      /\ \A id \in DOMAIN rule : rule[id] \in ESRule
  BY ReaderKnown
<1>2. UNCHANGED <<rule, trigger, action>>
  BY DEF ListRules, ReadRule, ReadStates, ListRows, TakeRule, Tables
<1>3. BeingWritten \subseteq RuleIds /\ \A id \in RuleIds \ BeingWritten : Writers(id) = {}
  <2>1. \A q \in Request : req[q].id \in 0..(next_id - 1)
    BY Owned DEF Own, ReqTyped
  <2>2. next_id \in Nat \ {0}
    BY DEF WInv, Typed
  <2>3. (0..(next_id - 1)) \ {0} = RuleIds /\ 0 \notin RuleIds
    BY <2>2, RealIds DEF RuleIds
  <2>4. QED
    BY <2>1, <2>3 DEF BeingWritten, Writers
<1>4. CASE ListRules(r)
  <2> DEFINE to == [me EXCEPT !.ids = DOMAIN rule, !.busy = BeingWritten]
  <2>1. Advance(r, to) /\ me.pc = "list_rules"
    BY <1>4 DEF ListRules
  <2>2. /\ DOMAIN to = Fields /\ to.ids = DOMAIN rule /\ to.busy = BeingWritten
        /\ \A f \in Fields \ {"ids", "busy"} : to[f] = me[f]
    BY <1>1 DEF Fields
  <2> HIDE DEF to
  <2>3. new.pc = "read_rule" /\ \A f \in Fields \ {"pc"} : new[f] = to[f]
    BY <2>1, <2>2, Advanced DEF Ended, Following
  <2>4. /\ new.ids = DOMAIN rule /\ new.busy = BeingWritten /\ new.rows = {} /\ new.shown = {}
        /\ new.row = me.row
        /\ new.states = me.states /\ new.added = me.added /\ new.todo = me.todo
    BY <1>1, <2>1, <2>2, <2>3 DEF Fields, Reads
  <2> HIDE DEF new
  <2>5. Reads(new)
    BY <1>1, <1>3, <2>3, <2>4 DEF Reads, Midway, Calm, ReadWords
  <2>6. FailureExplained(new)
    BY <2>3 DEF FailureExplained
  <2>7. QED
    BY <1>1, <1>2, <1>3, <2>1, <2>3, <2>4, <2>5, <2>6, ReaderKeeps DEF new, ReadWords
<1>5. CASE ListRows(r)
  <2> DEFINE rows == {[id |-> id, row |-> rule[id]] : id \in DOMAIN rule}
             to == [me EXCEPT !.rows = rows, !.busy = BeingWritten]
  <2>1. Advance(r, to) /\ me.pc = "list_rows"
    BY <1>5 DEF ListRows
  <2>2. rows \subseteq Shown /\ \A read \in rows : read.id \in DOMAIN rule /\ read.row = rule[read.id]
    BY <1>1 DEF Shown
  <2> HIDE DEF rows
  <2>3. /\ DOMAIN to = Fields /\ to.rows = rows /\ to.busy = BeingWritten
        /\ \A f \in Fields \ {"rows", "busy"} : to[f] = me[f]
    BY <1>1 DEF Fields
  <2> HIDE DEF to
  <2>4. new.pc = "take_rule" /\ \A f \in Fields \ {"pc"} : new[f] = to[f]
    BY <2>1, <2>3, Advanced DEF Ended, Following
  <2>5. /\ new.ids = {} /\ new.busy = BeingWritten /\ new.rows = rows /\ new.shown = {}
        /\ new.row = me.row
        /\ new.states = me.states /\ new.added = me.added /\ new.todo = me.todo
    BY <1>1, <2>1, <2>3, <2>4 DEF Fields, Reads
  <2> HIDE DEF new
  <2>6. Reads(new)
    BY <1>1, <1>3, <2>2, <2>4, <2>5 DEF Reads, Midway, Calm, CopyWords
  <2>7. FailureExplained(new)
    BY <2>4 DEF FailureExplained
  <2>8. QED
    BY <1>1, <1>2, <1>3, <2>1, <2>2, <2>4, <2>5, <2>6, <2>7, ReaderKeeps DEF new, CopyWords
<1>6. CASE ReadRule(r)
  <2>1. me.pc = "read_rule" /\ me.ids # {}
    BY <1>6 DEF ReadRule
  <2>2. Current(me) \in me.ids
    BY <1>1, <2>1, CurrentThere
  <2>3. CASE Current(me) \in DOMAIN rule
    <3> DEFINE to == [me EXCEPT !.row = rule[Current(me)]]
    <3>1. Advance(r, to)
      BY <1>6, <2>3 DEF ReadRule
    <3>2. /\ DOMAIN to = Fields /\ to.row = rule[Current(me)]
          /\ \A f \in Fields \ {"row"} : to[f] = me[f]
      BY <1>1 DEF Fields
    <3> HIDE DEF to
    <3>3. new.pc = "read_event" /\ \A f \in Fields \ {"pc"} : new[f] = to[f]
      BY <2>1, <3>1, <3>2, Advanced DEF Ended, Following
    <3>4. /\ new.ids = me.ids /\ new.busy = me.busy /\ new.rows = me.rows /\ new.shown = me.shown
          /\ new.row = rule[Current(me)] /\ new.row \in ESRule
          /\ new.states = me.states /\ new.added = me.added /\ new.todo = me.todo
      BY <1>1, <2>3, <3>2, <3>3 DEF Fields
    <3>5. Current(new) = Current(me)
      BY <3>4, Zenon DEF Current
    <3> HIDE DEF new
    <3>6. Reads(new)
      BY <1>1, <2>1, <2>2, <3>3, <3>4, <3>5 DEF Reads, ReadWords
    <3>7. FailureExplained(new)
      BY <3>3 DEF FailureExplained
    <3>8. QED
      BY <1>1, <1>2, <2>1, <3>3, <3>4, <3>6, <3>7, ReaderKeeps DEF new, ReadWords
  <2>4. CASE Current(me) \notin DOMAIN rule
    <3>1. Fail(r)
      BY <1>6, <2>4 DEF ReadRule
    <3>2. Current(me) \in me.busy
      BY <1>1, <2>2, <2>4 DEF Reads, Calm
    <3>3. QED
      BY <1>2, <2>1, <3>1, <3>2, ReaderFails DEF ReadWords
  <2>5. QED
    BY <2>3, <2>4
<1>7. CASE ReadStates(r)
  <2> DEFINE row == [me.row EXCEPT !.Striggers = StatesOf(Current(me))]
             to == [me EXCEPT !.row = row]
  <2>1. Advance(r, to) /\ me.pc = "read_states"
    BY <1>1, <1>7 DEF ReadStates, Fields
  <2>2. /\ Current(me) \in me.ids
        /\ Current(me) \notin me.busy => /\ me.row = rule[Current(me)] /\ Current(me) \in DOMAIN rule
    BY <1>1, <2>1 DEF Reads, Midway, Calm
  <2>3. row \in ESRule /\ (Current(me) \notin me.busy => row = rule[Current(me)])
    BY <1>1, <2>2 DEF StatesOf, ESRule
  <2> HIDE DEF row
  <2>4. /\ DOMAIN to = Fields /\ to.row = row
        /\ \A f \in Fields \ {"row"} : to[f] = me[f]
    BY <1>1 DEF Fields
  <2> HIDE DEF to
  <2>5. new.pc = "read_action" /\ \A f \in Fields \ {"pc"} : new[f] = to[f]
    BY <2>1, <2>4, Advanced DEF Ended, Following
  <2>6. /\ new.ids = me.ids /\ new.busy = me.busy /\ new.rows = me.rows /\ new.shown = me.shown
        /\ new.row = row
        /\ new.states = me.states /\ new.added = me.added /\ new.todo = me.todo
    BY <2>4, <2>5 DEF Fields
  <2>7. Current(new) = Current(me)
    BY <2>6, Zenon DEF Current
  <2> HIDE DEF new
  <2>8. Reads(new)
    BY <1>1, <2>1, <2>2, <2>3, <2>5, <2>6, <2>7 DEF Reads, ReadWords
  <2>9. FailureExplained(new)
    BY <2>5 DEF FailureExplained
  <2>10. QED
    BY <1>1, <1>2, <2>1, <2>3, <2>5, <2>6, <2>8, <2>9, ReaderKeeps DEF new, ReadWords
<1>8. CASE TakeRule(r)
  <2>1. PICK next \in me.rows : Advance(r, [me EXCEPT !.ids = {next.id}, !.row = next.row, !.rows = @ \ {next}])
    BY <1>8 DEF TakeRule
  <2> DEFINE to == [me EXCEPT !.ids = {next.id}, !.row = next.row, !.rows = @ \ {next}]
  <2>2. Advance(r, to) /\ me.pc = "take_rule"
    BY <1>8, <2>1 DEF TakeRule
  <2>3. /\ DOMAIN to = Fields /\ to.ids = {next.id} /\ to.row = next.row /\ to.rows = me.rows \ {next}
        /\ \A f \in Fields \ {"ids", "row", "rows"} : to[f] = me[f]
    BY <1>1 DEF Fields
  <2> HIDE DEF to
  <2>4. new.pc = "copy_event" /\ \A f \in Fields \ {"pc"} : new[f] = to[f]
    BY <2>2, <2>3, Advanced DEF Ended, Following
  <2>5. /\ new.ids = {next.id} /\ new.busy = me.busy /\ new.rows = me.rows \ {next} /\ new.shown = me.shown
        /\ new.row = next.row
        /\ new.states = me.states /\ new.added = me.added /\ new.todo = me.todo
    BY <2>3, <2>4 DEF Fields
  <2>6. next.id \in RuleIds /\ next.row \in ESRule
    BY <1>1 DEF Shown
  <2> HIDE DEF new
  <2>7. Current(new) = next.id
    BY <1>1, <2>5, <2>6, CurrentOnly
  <2>8. Reads(new)
    BY <1>1, <2>1, <2>2, <2>4, <2>5, <2>7 DEF Reads, CopyWords
  <2>9. FailureExplained(new)
    BY <2>4 DEF FailureExplained
  <2>10. QED
    BY <1>1, <1>2, <2>2, <2>4, <2>5, <2>6, <2>8, <2>9, ReaderKeeps DEF new, CopyWords
<1>9. QED
  BY <1>4, <1>5, <1>6, <1>7, <1>8

(* A reader looks at a row of its rule that is there, unless it is written. *)
LEMMA RowsRead ==
  ASSUME Before, WInv, NEW r \in Request, req[r].pc \in Midway, req[r].busy = {}
  PROVE  req[r].row.Etrigger \in trigger /\ req[r].row.action \in action
<1>1. Calm(Current(req[r])) /\ req[r].row = rule[Current(req[r])]
  BY ReaderKnown DEF Reads
<1>2. QED
  BY <1>1 DEF Calm, WInv, Keyed

(* The statements that look for a row, and go on when they find it         *)
LEMMA FetchKeeps ==
  ASSUME Before, Afterwards, WInv, NEW r \in Request, Stepped(r), Touched(r),
         (FetchEvent(r) /\ req[r].pc = "read_event") \/ CopyEvent(r) \/ CopyAction(r)
  PROVE  Own(r)'
<1> DEFINE me == req[r]
           new == req'[r]
<1>1. /\ DOMAIN me = Fields /\ Reads(me) /\ me.row \in ESRule
      /\ me.rows \cup me.shown \subseteq Shown
      /\ me.ids \cup me.busy \subseteq RuleIds
  BY ReaderKnown
<1>2. UNCHANGED <<rule, trigger, action>> /\ me.pc \in {"read_event", "copy_event", "copy_action"}
  BY DEF FetchEvent, CopyEvent, CopyAction, Tables
<1>3. CASE Fail(r)
  <2>1. me.busy # {}
    <3>1. me.row.Etrigger \notin trigger \/ me.row.action \notin action \/ Advance(r, me)
      BY DEF FetchEvent, CopyEvent, CopyAction
    <3>2. ~ Advance(r, me)
      <4>1. Advance(r, me) => new.pc # "failed"
        BY <1>1, <1>2, Advanced DEF Ended, Following
      <4>2. new.pc = "failed"
        BY <1>3, Failing
      <4>3. QED
        BY <4>1, <4>2
    <3>3. QED
      BY <1>2, <3>1, <3>2, RowsRead DEF Midway
  <2>2. QED
    BY <1>2, <1>3, <2>1, ReaderFails DEF ReadWords, CopyWords
<1>4. CASE Advance(r, me)
  <2>1. new.pc \in {"read_states", "copy_action", "copy_states"} /\ \A f \in Fields \ {"pc"} : new[f] = me[f]
    BY <1>1, <1>2, <1>4, Advanced DEF Ended, Following
  <2>2. /\ new.ids = me.ids /\ new.busy = me.busy /\ new.rows = me.rows /\ new.shown = me.shown
        /\ new.row = me.row
        /\ new.states = me.states /\ new.added = me.added /\ new.todo = me.todo
    BY <2>1 DEF Fields
  <2>3. Current(new) = Current(me)
    BY <2>2, Zenon DEF Current
  <2> HIDE DEF new
  <2>4. Reads(new)
    BY <1>1, <1>2, <2>1, <2>2, <2>3 DEF Reads, Midway, ReadWords, CopyWords
  <2>5. FailureExplained(new)
    BY <2>1 DEF FailureExplained
  <2>6. QED
    BY <1>1, <1>2, <2>1, <2>2, <2>4, <2>5, ReaderKeeps DEF new, ReadWords, CopyWords
<1>5. QED
  BY <1>3, <1>4 DEF FetchEvent, CopyEvent, CopyAction

(* A reader shows what it has read of a rule.                              *)
LEMMA ReadActionKeeps ==
  ASSUME Before, Afterwards, WInv, NEW r \in Request, Stepped(r), Touched(r), ReadAction(r)
  PROVE  Own(r)'
<1> DEFINE me == req[r]
           new == req'[r]
           shown == [id |-> Current(me), row |-> [me.row EXCEPT !.action = ReadActionOf(me)]]
<1>1. /\ DOMAIN me = Fields /\ Reads(me) /\ me.row \in ESRule
      /\ me.rows \cup me.shown \subseteq Shown
      /\ me.ids \cup me.busy \subseteq RuleIds
      /\ DOMAIN req = Request
  BY ReaderKnown, WhereTheyAre
<1>2. UNCHANGED <<rule, trigger, action>> /\ me.pc = "read_action"
  BY DEF ReadAction, Tables
<1>3. shown.id = Current(me) /\ shown.row = me.row
  BY <1>1 DEF ReadActionOf, ESRule
<1>4. Current(me) \in me.ids /\ (Current(me) \notin me.busy => Calm(Current(me)) /\ me.row = rule[Current(me)])
  BY <1>1, <1>2 DEF Reads, Midway
<1>5. shown \in Shown
  BY <1>1, <1>3, <1>4 DEF Shown
<1>6. \/ me.row.action \in action /\ req' = [req EXCEPT ![r].pc = "read_rule", ![r].row = NoRow,
                      ![r].shown = @ \cup {shown}, ![r].ids = @ \ {shown.id}]
      \/ me.row.action \notin action /\ Fail(r)
  BY <1>3 DEF ReadAction
<1> HIDE DEF shown
<1>7. CASE me.row.action \notin action /\ Fail(r)
  <2>1. me.busy # {}
    BY <1>2, <1>7, RowsRead DEF Midway
  <2>2. QED
    BY <1>2, <1>7, <2>1, ReaderFails DEF ReadWords
<1>8. CASE req' = [req EXCEPT ![r].pc = "read_rule", ![r].row = NoRow,
                      ![r].shown = @ \cup {shown}, ![r].ids = @ \ {shown.id}]
  <2>1. new = [me EXCEPT !.pc = "read_rule", !.row = NoRow, !.shown = @ \cup {shown}, !.ids = @ \ {shown.id}]
    BY <1>1, <1>8
  <2>2. /\ new.pc = "read_rule" /\ new.ids = me.ids \ {shown.id} /\ new.busy = me.busy
        /\ new.rows = me.rows /\ new.shown = me.shown \cup {shown} /\ new.row = NoRow
        /\ new.states = me.states /\ new.added = me.added /\ new.todo = me.todo
    BY <1>1, <2>1 DEF Fields
  <2> HIDE DEF new
  <2>3. Reads(new)
    BY <1>1, <1>2, <1>3, <1>4, <2>2 DEF Reads, Midway, ReadWords
  <2>4. FailureExplained(new)
    BY <2>2 DEF FailureExplained
  <2>5. QED
    BY <1>1, <1>2, <1>5, <2>2, <2>3, <2>4, NoRowTyped, ReaderKeeps DEF new, ReadWords
<1>9. QED
  BY <1>6, <1>7, <1>8

(* A copy of a rule is made with the states it has then.                   *)
LEMMA CopyStatesKeeps ==
  ASSUME Before, Afterwards, WInv, NEW r \in Request, Stepped(r), Touched(r), CopyStates(r)
  PROVE  Own(r)'
<1> DEFINE me == req[r]
           new == req'[r]
           id == Current(me)
           row == [me.row EXCEPT !.Striggers = StatesOf(id)]
           copy == [id |-> id, row |-> row]
<1>1. /\ DOMAIN me = Fields /\ Reads(me) /\ me.row \in ESRule
      /\ me.rows \cup me.shown \subseteq Shown
      /\ me.ids \cup me.busy \subseteq RuleIds
      /\ \A other \in DOMAIN rule : rule[other] \in ESRule
      /\ DOMAIN req = Request
  BY ReaderKnown, WhereTheyAre
<1>2. UNCHANGED <<rule, trigger, action>> /\ me.pc = "copy_states"
  BY DEF CopyStates, Tables
<1>3. id \in me.ids /\ (id \notin me.busy => Calm(id) /\ me.row = rule[id] /\ id \in DOMAIN rule)
  BY <1>1, <1>2 DEF Reads, Midway, Calm
<1>4. row \in ESRule /\ (id \notin me.busy => row = rule[id])
  BY <1>1, <1>3 DEF StatesOf, ESRule
<1>5. req' = [req EXCEPT ![r].pc = "take_rule", ![r].row = NoRow,
                ![r].shown = @ \cup {copy}, ![r].ids = {}]
  BY DEF CopyStates
<1> HIDE DEF row
<1>6. copy \in Shown /\ copy.id = id /\ copy.row = row
  BY <1>1, <1>3, <1>4 DEF Shown
<1> HIDE DEF copy
<1>7. new = [me EXCEPT !.pc = "take_rule", !.row = NoRow, !.shown = @ \cup {copy}, !.ids = {}]
  BY <1>1, <1>5
<1>8. /\ new.pc = "take_rule" /\ new.ids = {} /\ new.busy = me.busy
      /\ new.rows = me.rows /\ new.shown = me.shown \cup {copy} /\ new.row = NoRow
      /\ new.states = me.states /\ new.added = me.added /\ new.todo = me.todo
  BY <1>1, <1>7 DEF Fields
<1> HIDE DEF new
<1>9. Reads(new)
  BY <1>1, <1>2, <1>3, <1>4, <1>6, <1>8 DEF Reads, Midway, CopyWords
<1>10. FailureExplained(new)
  BY <1>8 DEF FailureExplained
<1>11. QED
  BY <1>1, <1>2, <1>6, <1>8, <1>9, <1>10, NoRowTyped, ReaderKeeps DEF new, CopyWords

(* The end of a request                                                    *)
LEMMA AnswerKeeps ==
  ASSUME Before, Afterwards, WInv, NEW r \in Request, Stepped(r), Touched(r), AllRead(r) \/ Answer(r)
  PROVE  Own(r)'
<1> DEFINE me == req[r]
           new == req'[r]
<1>1. /\ DOMAIN me = Fields /\ Reads(me) /\ me.row \in ESRule
      /\ me.rows \cup me.shown \subseteq Shown
      /\ me.ids \cup me.busy \subseteq RuleIds
      /\ DOMAIN req = Request
  BY ReaderKnown, WhereTheyAre
<1>2. UNCHANGED <<rule, trigger, action>> /\ me.pc \in {"read_rule", "take_rule", "answer"}
  BY DEF AllRead, Answer, Tables
<1>3. CASE AllRead(r)
  <2>1. new = [me EXCEPT !.pc = "answer"]
    BY <1>1, <1>3 DEF AllRead
  <2>2. /\ new.pc = "answer" /\ new.ids = me.ids /\ new.busy = me.busy
        /\ new.rows = me.rows /\ new.shown = me.shown /\ new.row = me.row
        /\ new.states = me.states /\ new.added = me.added /\ new.todo = me.todo
    BY <1>1, <2>1 DEF Fields
  <2> HIDE DEF new
  <2>3. Reads(new)
    BY <1>1, <1>2, <2>2 DEF Reads, Midway, ReadWords, CopyWords
  <2>4. FailureExplained(new)
    BY <2>2 DEF FailureExplained
  <2>5. QED
    BY <1>1, <1>2, <2>2, <2>3, <2>4, ReaderKeeps DEF new, ReadWords, CopyWords
<1>4. CASE Answer(r)
  <2> DEFINE end == [NotBegun EXCEPT !.pc = "done", !.mode = me.mode, !.id = me.id, !.alone = me.alone]
  <2>1. new = end
    BY <1>1, <1>4 DEF Answer
  <2>2. /\ end.pc = "done" /\ end.ids = {} /\ end.busy = {} /\ end.rows = {} /\ end.shown = {}
        /\ end.row = NoRow /\ end.states = 0 /\ end.added = 0 /\ end.todo = {}
    BY DEF NotBegun
  <2> HIDE DEF new, end
  <2>3. Reads(new)
    BY <2>1, <2>2 DEF Reads, Midway
  <2>4. FailureExplained(new)
    BY <2>1, <2>2 DEF FailureExplained
  <2>5. QED
    BY <1>2, <2>1, <2>2, <2>3, <2>4, NoRowTyped, ReaderKeeps DEF new, ReadWords, CopyWords
<1>5. QED
  BY <1>3, <1>4
-----------------------------------------------------------------------------
(* Writers                                                                 *)

(* What is known of a writer                                               *)
LEMMA WriterKnown ==
  ASSUME Before, Afterwards, WInv, NEW r \in Request, req[r].pc \in WriteWords
  PROVE  /\ DOMAIN req = Request /\ DOMAIN req[r] = Fields /\ Placed(req[r]) /\ Writing(r)
         /\ req[r].ids = {} /\ req[r].rows = {} /\ req[r].shown = {}
         /\ req[r].busy \subseteq RuleIds
         /\ req[r].row \in ESRule /\ req[r].row.Etrigger = <<req[r].row.action, 0>>
         /\ req[r].alone => Lone(rule, action, r, req[r])
         /\ \A id \in DOMAIN rule :
               /\ rule[id] \in ESRule /\ rule[id].Etrigger = <<rule[id].action, 0>>
               /\ rule[id].Etrigger \in trigger /\ rule[id].action \in action
<1>1. Own(r) /\ Typed /\ Keyed
  BY Owned DEF WInv
<1>2. DOMAIN req = Request /\ DOMAIN req[r] = Fields /\ Placed(req[r]) /\ Writing(r)
  BY WhereTheyAre
<1>3. req[r].pc \notin ReadWords \cup CopyWords
  BY DEF WriteWords, ReadWords, CopyWords, CreateWords, EditWords, DeleteWords
<1>4. /\ req[r].row.Etrigger = <<req[r].row.action, 0>>
      /\ \A id \in DOMAIN rule : rule[id].Etrigger = <<rule[id].action, 0>>
  BY DEF Before, IInv, ReqsPaired, ReqPaired, RulesPaired, Paired
<1>5. req[r].ids = {} /\ req[r].rows = {} /\ req[r].shown = {}
  BY <1>1, <1>3 DEF Own, Reads
<1>6. QED
  BY <1>1, <1>2, <1>4, <1>5 DEF Own, ReqTyped, Typed, Keyed

(* What a writer has stays right.                                          *)
LEMMA WriterKeeps ==
  ASSUME Before, Afterwards, WInv, NEW r \in Request, Stepped(r), Touched(r),
         req[r].pc \in WriteWords \ {"create_rule"},
         NEW new, req'[r] = new, new.pc \in (WriteWords \cup {"list_rules"}) \ {"insert_rows"},
         new.ids = req[r].ids, new.rows = req[r].rows, new.shown = req[r].shown, new.busy = req[r].busy,
         new.states = req[r].states, new.added \in 0..new.states,
         new.pc \in WriteWords \ {"add_states"} => new.added = 0,
         new.row \in ESRule, new.todo \subseteq Trigger, new.pc = "create_rule" => new.todo = {},
         \A st \in new.todo : Owner(req, st[1], new.id),
         new.mode = "create" /\ new.pc = "create_rule" => new.id = 0,
         new.mode = "create" /\ new.pc = "add_states" => new.id # 0,
         Inserted(new) => <<r, 0>> \in trigger' /\ r \in action',
         new.pc \in WriteWords /\ new.alone => Lone(rule', action', r, new)
  PROVE  Own(r)'
<1> DEFINE me == req[r]
<1>1. Own(r) /\ Typed
  BY Owned DEF WInv
<1>2. /\ Placed(new) /\ (Writing(r)' <=> new.pc \in WriteWords) /\ new.id = me.id /\ new.mode = me.mode
      /\ next_id' = next_id
  BY WhereTheyAre DEF Stepped
<1>3. me.ids = {} /\ me.rows = {} /\ me.shown = {} /\ me.busy \subseteq RuleIds
  BY WriterKnown
<1>4. ReqTyped(req[r])'
  <2>1. RuleIds' = RuleIds
    BY <1>2 DEF RuleIds
  <2>2. ReqTyped(me)
    BY <1>1 DEF Own
  <2>3. /\ new.id \in 0..(next_id' - 1) /\ new.states \in 0..MaxState
        /\ new.mode \in Modes /\ (new.mode \in {"edit", "delete"} => new.id # 0)
    BY <1>2, <2>2 DEF ReqTyped
  <2>4. (new.pc \in Unnamed => new.pc = "create_rule") /\ new.pc # "begin"
    BY DEF Unnamed, WriteWords, CreateWords, EditWords, DeleteWords
  <2>5. QED
    BY <1>3, <2>1, <2>3, <2>4 DEF ReqTyped
<1>5. \A st \in new.todo : Owner(req', st[1], new.id)
  BY OwnerStep
<1>6. Reads(req[r])'
  <2>1. new.pc \notin Midway /\ new.ids = {} /\ new.rows = {} /\ new.shown = {}
    BY <1>3 DEF Midway, WriteWords, CreateWords, EditWords, DeleteWords
  <2>2. QED
    BY <2>1 DEF Reads
<1>7. FailureExplained(new)
  BY DEF FailureExplained, WriteWords, CreateWords, EditWords, DeleteWords
<1>8. QED
  BY <1>2, <1>4, <1>5, <1>6, <1>7 DEF Own

(* A writer fails as it may.                                               *)
LEMMA WriterFails ==
  ASSUME Before, Afterwards, WInv, NEW r \in Request, Stepped(r), Touched(r),
         req[r].pc \in WriteWords \ {"create_rule"}, Fail(r),
         req[r].alone => req[r].mode = "edit" /\ req[r].pc = "get_rule"
  PROVE  Own(r)'
<1> DEFINE me == req[r]
           new == req'[r]
<1>1. /\ new.pc = "failed" /\ new.failed_at = me.pc /\ new.mode = me.mode
      /\ new.id = me.id /\ new.alone = me.alone /\ new.busy = me.busy
      /\ new.row = NoRow /\ new.rows = {} /\ new.todo = {} /\ new.ids = {}
      /\ new.shown = {} /\ new.states = 0 /\ new.added = 0
  BY Failing
<1>2. Own(r) /\ me.busy \subseteq RuleIds
  BY Owned, WriterKnown
<1>3. ~ Writing(r)' /\ next_id' = next_id
  <2>1. ~ Writing(r)'
    BY <1>1, WhereTheyAre DEF WriteWords, CreateWords, EditWords, DeleteWords
  <2>2. QED
    BY <2>1 DEF Stepped
<1> HIDE DEF new
<1>4. ReqTyped(req[r])'
  <2>1. RuleIds' = RuleIds
    BY <1>3 DEF RuleIds
  <2>2. ReqTyped(me)
    BY <1>2 DEF Own
  <2>3. /\ new.id \in 0..(next_id' - 1)
        /\ new.mode \in Modes /\ (new.mode \in {"edit", "delete"} => new.id # 0)
    BY <1>1, <1>3, <2>2 DEF ReqTyped
  <2>4. new.states \in 0..MaxState /\ new.added \in 0..new.states
    BY <1>1, RequestAssumption
  <2>5. /\ new.pc \notin Unnamed /\ new.pc # "add_states" /\ new.pc \notin WriteWords
        /\ new.pc # "begin"
    BY <1>1 DEF Unnamed, WriteWords, CreateWords, EditWords, DeleteWords
  <2>6. new.rows \cup new.shown = {} /\ new.ids \cup new.busy \subseteq RuleIds' /\ new.todo \subseteq Trigger
    BY <1>1, <1>2, <2>1
  <2>7. QED
    BY <1>1, <2>3, <2>4, <2>5, <2>6, NoRowTyped DEF ReqTyped, new
<1>5. ~ Inserted(new) /\ new.pc \notin Midway
  BY <1>1 DEF Inserted, Midway
<1>6. Reads(req[r])'
  BY <1>1, <1>5 DEF Reads, new
<1>7. me.pc \notin Queries
  BY QueryWords DEF WriteWords, ReadWords, CopyWords, CreateWords, EditWords, DeleteWords
<1>8. FailureExplained(new)
  BY <1>1, <1>7 DEF FailureExplained
<1>9. QED
  BY <1>1, <1>3, <1>4, <1>5, <1>6, <1>8 DEF Own, new

(* What a writer has when it goes on                                       *)
LEMMA WriterOn ==
  ASSUME Before, Afterwards, WInv, NEW r \in Request, req[r].pc \in WriteWords,
         NEW to, DOMAIN to = Fields, Advance(r, to), \A f \in Fields \ {"row", "todo"} : to[f] = req[r][f]
  PROVE  /\ req'[r].pc = Following(req[r].mode, req[r].pc) /\ req'[r].mode = req[r].mode
         /\ req'[r].id = req[r].id /\ req'[r].states = req[r].states /\ req'[r].added = req[r].added
         /\ req'[r].ids = req[r].ids /\ req'[r].rows = req[r].rows /\ req'[r].shown = req[r].shown
         /\ req'[r].busy = req[r].busy /\ req'[r].alone = req[r].alone
         /\ req'[r].row = to.row /\ req'[r].todo = to.todo
<1>1. req[r].pc \notin Ended
  BY DEF Ended, WriteWords, CreateWords, EditWords, DeleteWords
<1>2. req'[r].pc = Following(req[r].mode, req[r].pc) /\ \A f \in Fields \ {"pc"} : req'[r][f] = to[f]
  BY <1>1, Advanced
<1>3. QED
  BY <1>2 DEF Fields

(* It keeps what it has right if its own rule is what it should be.        *)
LEMMA WriterGoesOn ==
  ASSUME Before, Afterwards, WInv, NEW r \in Request, Stepped(r), Touched(r),
         req[r].pc \in WriteWords \ {"create_rule"},
         NEW to, DOMAIN to = Fields, Advance(r, to), \A f \in Fields \ {"row", "todo"} : to[f] = req[r][f],
         to.row \in ESRule, to.todo \subseteq Trigger,
         \A st \in to.todo : Owner(req, st[1], req[r].id),
         req[r].pc = "insert_rows" => to.todo = req[r].todo /\ <<r, 0>> \in trigger' /\ r \in action',
         req[r].pc \in {"get_rule", "fetch_rows"} => UNCHANGED <<trigger, action>>,
         req'[r].pc \in WriteWords /\ req[r].alone => Lone(rule', action', r, req'[r])
  PROVE  Own(r)'
<1> DEFINE me == req[r]
           new == req'[r]
<1>1. /\ new.pc = Following(me.mode, me.pc) /\ new.mode = me.mode /\ new.id = me.id
      /\ new.states = me.states /\ new.added = me.added /\ new.ids = me.ids /\ new.rows = me.rows
      /\ new.shown = me.shown /\ new.busy = me.busy /\ new.alone = me.alone
      /\ new.row = to.row /\ new.todo = to.todo
  BY WriterOn
<1>2. Own(r) /\ Placed(me)
  BY Owned, WhereTheyAre
<1>3. new.pc \in (WriteWords \cup {"list_rules"}) \ {"insert_rows"}
  BY <1>1, <1>2 DEF Following, Placed, WriteWords, ReadWords, CopyWords, CreateWords, EditWords, DeleteWords
<1>4. new.added \in 0..new.states /\ (new.pc \in WriteWords \ {"add_states"} => new.added = 0)
  <2>1. me.added \in 0..me.states /\ (me.pc \in WriteWords \ {"add_states"} => me.added = 0)
    BY <1>2 DEF Own, ReqTyped
  <2>2. me.pc = "add_states" => new.pc = "list_rules"
    BY <1>1 DEF Following
  <2>3. QED
    BY <1>1, <2>1, <2>2 DEF WriteWords, CreateWords, EditWords, DeleteWords
<1>5. /\ new.pc = "create_rule" => me.pc = "insert_rows" /\ me.mode = "create"
      /\ new.mode = "create" => new.pc # "add_states"
      /\ Inserted(new) => (Inserted(me) /\ me.pc \in {"get_rule", "fetch_rows"}) \/ me.pc = "insert_rows"
  BY <1>1, <1>2 DEF Following, Inserted, Placed, ReadWords, CopyWords, CreateWords, EditWords, DeleteWords
<1>6. /\ new.pc = "create_rule" => new.todo = {}
      /\ new.mode = "create" /\ new.pc = "create_rule" => new.id = 0
  BY <1>1, <1>2, <1>5 DEF Own, ReqTyped, Unnamed
<1>7. Inserted(new) => <<r, 0>> \in trigger' /\ r \in action'
  BY <1>2, <1>5 DEF Own
<1> HIDE DEF new
<1>8. QED
  BY <1>1, <1>3, <1>4, <1>5, <1>6, <1>7, WriterKeeps DEF new

(* A writer that has no states makes none.                                 *)
LEMMA StatesGrow ==
  ASSUME NEW r, NEW n \in Nat
  PROVE  States(r, 0) = {} /\ States(r, n + 1) = States(r, n) \cup {<<r, n + 1>>}
  BY DEF States

(* The statements of writers that look for rows, and go on to find them    *)
LEMMA LookKeeps ==
  ASSUME Before, Afterwards, WInv, NEW r \in Request, Stepped(r), Touched(r),
         \/ FetchRows(r) \/ (FetchEvent(r) /\ req[r].pc = "fetch_event") \/ FetchAction(r)
         \/ StatesDropped(r) \/ StatesAdded(r) \/ InsertRows(r) \/ DeleteRule(r)
  PROVE  Own(r)'
<1> DEFINE me == req[r]
           new == req'[r]
<1>1. me.pc \in {"fetch_rows", "fetch_event", "fetch_action", "drop_states", "add_states",
                 "insert_rows", "delete_rule"}
  BY DEF FetchRows, FetchEvent, FetchAction, StatesDropped, StatesAdded, InsertRows, DeleteRule
<1>2. me.pc \in WriteWords \ {"create_rule"}
  BY <1>1 DEF WriteWords, CreateWords, EditWords, DeleteWords
<1>3. /\ DOMAIN me = Fields /\ Placed(me) /\ me.row.Etrigger = <<me.row.action, 0>>
      /\ me.alone => Lone(rule, action, r, me)
      /\ \A id \in DOMAIN rule :
            /\ rule[id].Etrigger = <<rule[id].action, 0>>
            /\ rule[id].Etrigger \in trigger /\ rule[id].action \in action
  BY <1>2, WriterKnown
<1>4. Own(r)
  BY Owned
<1>5. CASE Fail(r) /\ (FetchRows(r) \/ FetchEvent(r) \/ FetchAction(r)) /\ ~ Advance(r, me)
  <2>1. ASSUME me.alone PROVE FALSE
    <3>1. Lone(rule, action, r, me)
      BY <1>3, <2>1
    <3>2. CASE FetchRows(r)
      BY <1>3, <1>5, <3>1, <3>2 DEF FetchRows, Lone, Placed, ReadWords, CopyWords, CreateWords,
            EditWords, DeleteWords
    <3>3. CASE FetchEvent(r)
      BY <1>1, <1>3, <1>5, <3>1, <3>3 DEF FetchEvent, Lone, Placed, ReadWords, CopyWords, CreateWords,
            EditWords, DeleteWords
    <3>4. CASE FetchAction(r)
      BY <1>5, <3>1, <3>4 DEF FetchAction, Lone
    <3>5. QED
      BY <1>5, <3>2, <3>3, <3>4
  <2>2. QED
    BY <1>2, <1>5, <2>1, WriterFails
<1>6. CASE Advance(r, me)
  <2>1. \A f \in Fields \ {"row", "todo"} : me[f] = me[f]
    OBVIOUS
  <2>2. /\ new.pc = Following(me.mode, me.pc) /\ new.mode = me.mode /\ new.id = me.id
        /\ new.added = me.added /\ new.row = me.row /\ new.todo = me.todo
    BY <1>2, <1>3, <1>6, WriterOn
  <2>3. me.row \in ESRule /\ me.todo \subseteq Trigger /\ \A st \in me.todo : Owner(req, st[1], me.id)
    BY <1>4 DEF Own, ReqTyped
  <2>4. me.pc = "insert_rows" => <<r, 0>> \in trigger' /\ r \in action'
    BY DEF InsertRows, FetchRows, FetchEvent, FetchAction, StatesDropped, StatesAdded, DeleteRule
  <2>5. me.pc = "fetch_rows" => UNCHANGED <<trigger, action>>
    BY DEF InsertRows, FetchRows, FetchEvent, FetchAction, StatesDropped, StatesAdded, DeleteRule, Tables
  <2>6. ASSUME new.pc \in WriteWords, me.alone PROVE Lone(rule', action', r, new)
    <3>1. rule' = rule /\ (me.pc # "insert_rows" => action' = action) /\ me.pc \notin {"add_states", "delete_rule"}
          /\ (me.pc = "drop_states" => me.todo = {}) /\ (me.pc = "fetch_action" => me.row.action \in action)
      <4>1. new.pc # "list_rules"
        BY <2>6 DEF WriteWords, CreateWords, EditWords, DeleteWords
      <4>2. me.pc \notin {"add_states", "delete_rule"}
        BY <2>2, <4>1 DEF Following
      <4>3. QED
        BY <1>3, <2>6, <4>2 DEF InsertRows, FetchRows, FetchEvent, FetchAction, StatesDropped,
              StatesAdded, DeleteRule, Tables, Lone
    <3>2. Lone(rule, action, r, me)
      BY <1>3, <2>6
    <3>3. CASE me.pc = "insert_rows"
      BY <1>3, <2>2, <3>3 DEF Lone, Following, Placed, ReadWords, CopyWords, CreateWords, EditWords, DeleteWords
    <3>4. CASE me.pc = "fetch_rows"
      BY <1>3, <2>2, <3>1, <3>2, <3>4 DEF Lone, Following, Placed, ReadWords, CopyWords, CreateWords,
            EditWords, DeleteWords
    <3>5. CASE me.pc \in {"fetch_event", "fetch_action"}
      BY <1>3, <2>2, <3>1, <3>2, <3>5 DEF Lone, Following, Placed, ReadWords, CopyWords, CreateWords,
            EditWords, DeleteWords
    <3>6. CASE me.pc = "drop_states"
      <4>1. me.added = 0 /\ States(r, 0) = {}
        BY <1>2, <1>4, <3>6, StatesGrow DEF Own, ReqTyped
      <4>2. QED
        BY <1>3, <2>2, <3>1, <3>2, <3>6, <4>1 DEF Lone, Following, Placed, ReadWords, CopyWords, CreateWords,
            EditWords, DeleteWords
    <3>7. QED
      BY <1>1, <3>1, <3>3, <3>4, <3>5, <3>6
  <2>7. QED
    BY <1>1, <1>2, <1>3, <1>6, <2>1, <2>3, <2>4, <2>5, <2>6, WriterGoesOn
<1>7. QED
  BY <1>5, <1>6 DEF FetchRows, FetchEvent, FetchAction, StatesDropped, StatesAdded, InsertRows, DeleteRule

(* The statements of writers that read a rule                              *)
LEMMA GetKeeps ==
  ASSUME Before, Afterwards, WInv, NEW r \in Request, Stepped(r), Touched(r),
         FindRule(r) \/ GetRule(r) \/ ListStates(r)
  PROVE  Own(r)'
<1> DEFINE me == req[r]
           new == req'[r]
<1>1. me.pc \in {"find_rule", "get_rule", "list_states"} /\ UNCHANGED <<rule, trigger, action>>
  BY DEF FindRule, GetRule, ListStates, Tables
<1>2. me.pc \in WriteWords \ {"create_rule"}
  BY <1>1 DEF WriteWords, CreateWords, EditWords, DeleteWords
<1>3. /\ DOMAIN me = Fields /\ Placed(me) /\ DOMAIN req = Request
      /\ me.alone => Lone(rule, action, r, me)
      /\ \A id \in DOMAIN rule : rule[id] \in ESRule
  BY <1>2, WriterKnown
<1>4. /\ me.row \in ESRule /\ me.todo \subseteq Trigger /\ \A st \in me.todo : Owner(req, st[1], me.id)
      /\ me.added = 0 /\ 0 \in 0..me.states
  <2>1. me.added \in 0..me.states /\ me.added = 0
    BY <1>1, <1>2, Owned DEF Own, ReqTyped
  <2>2. QED
    BY <2>1, Owned DEF Own, ReqTyped
<1>5. CASE FindRule(r) /\ me.id \in DOMAIN rule
  <2>1. Advance(r, me) /\ me.pc = "find_rule"
    BY <1>5 DEF FindRule
  <2>2. \A f \in Fields \ {"row", "todo"} : me[f] = me[f]
    OBVIOUS
  <2>3. new.pc = "get_rule" /\ new.mode = me.mode /\ new.id = me.id
    BY <1>2, <1>3, <2>1, WriterOn DEF Following
  <2>4. me.mode = "delete"
    BY <1>3, <2>1 DEF Placed, ReadWords, CopyWords, CreateWords, EditWords
  <2>5. Lone(rule', action', r, new)
    BY <1>1, <1>5, <2>3, <2>4 DEF Lone
  <2>6. QED
    BY <1>2, <1>3, <1>4, <2>1, <2>2, <2>5, WriterGoesOn
<1>6. CASE FindRule(r) /\ me.id \notin DOMAIN rule
  <2>1. req' = [req EXCEPT ![r].pc = "list_rules"] /\ me.pc = "find_rule"
    BY <1>6 DEF FindRule
  <2>2. new = [me EXCEPT !.pc = "list_rules"]
    BY <1>3, <2>1
  <2>3. /\ new.pc = "list_rules" /\ new.mode = me.mode /\ new.id = me.id
        /\ new.states = me.states /\ new.added = me.added /\ new.ids = me.ids /\ new.rows = me.rows
        /\ new.shown = me.shown /\ new.busy = me.busy /\ new.alone = me.alone
        /\ new.row = me.row /\ new.todo = me.todo
    BY <1>3, <2>2 DEF Fields
  <2> HIDE DEF new
  <2>4. ~ Inserted(new) /\ new.pc \notin WriteWords
    BY <2>3 DEF Inserted, WriteWords, CreateWords, EditWords, DeleteWords
  <2>5. QED
    BY <1>2, <1>4, <2>3, <2>4, WriterKeeps DEF new
<1>7. CASE GetRule(r) /\ me.id \in DOMAIN rule
  <2> DEFINE to == [me EXCEPT !.row = rule[me.id]]
  <2>1. Advance(r, to) /\ me.pc = "get_rule"
    BY <1>7 DEF GetRule
  <2>2. /\ DOMAIN to = Fields /\ to.row = rule[me.id] /\ to.todo = me.todo
        /\ \A f \in Fields \ {"row", "todo"} : to[f] = me[f]
    BY <1>3 DEF Fields
  <2> HIDE DEF to
  <2>3. /\ new.pc = Following(me.mode, me.pc) /\ new.mode = me.mode /\ new.id = me.id
        /\ new.row = rule[me.id]
    BY <1>2, <2>1, <2>2, WriterOn
  <2>4. me.mode = "edit" \/ me.mode = "delete"
    BY <1>3, <2>1 DEF Placed, ReadWords, CopyWords, CreateWords
  <2>5. new.pc = (IF me.mode = "edit" THEN "fetch_rows" ELSE "list_states")
    BY <2>1, <2>3 DEF Following
  <2>6. Lone(rule', action', r, new)
    BY <1>1, <1>7, <2>3, <2>4, <2>5 DEF Lone
  <2>7. QED
    BY <1>1, <1>2, <1>3, <1>4, <1>7, <2>1, <2>2, <2>6, WriterGoesOn
<1>8. CASE GetRule(r) /\ me.id \notin DOMAIN rule
  <2>1. Fail(r) /\ me.pc = "get_rule"
    BY <1>8 DEF GetRule
  <2>2. me.alone => me.mode = "edit"
    BY <1>3, <1>8, <2>1 DEF Lone, Placed, ReadWords, CopyWords, CreateWords
  <2>3. QED
    BY <1>2, <2>1, <2>2, WriterFails
<1>9. CASE ListStates(r)
  <2> DEFINE to == [me EXCEPT !.todo = StatesOf(me.id)]
  <2>1. Advance(r, to) /\ me.pc = "list_states"
    BY <1>9 DEF ListStates
  <2>2. /\ DOMAIN to = Fields /\ to.row = me.row /\ to.todo = StatesOf(me.id)
        /\ \A f \in Fields \ {"row", "todo"} : to[f] = me[f]
    BY <1>3 DEF Fields
  <2> HIDE DEF to
  <2>3. /\ new.pc = "drop_states" /\ new.mode = me.mode /\ new.id = me.id
        /\ new.row = me.row /\ new.todo = StatesOf(me.id)
    BY <1>2, <2>1, <2>2, WriterOn DEF Following
  <2>4. StatesOf(me.id) \subseteq Trigger /\ \A st \in StatesOf(me.id) : Owner(req, st[1], me.id)
    BY <1>3 DEF StatesOf, ESRule, WInv, StatesOwned
  <2>5. ASSUME me.alone PROVE Lone(rule', action', r, new)
    <3>1. me.id \in DOMAIN rule /\ Lone(rule, action, r, me)
      BY <1>3, <2>1, <2>5 DEF Lone, Placed, ReadWords, CopyWords, CreateWords
    <3>2. QED
      BY <1>1, <2>1, <2>3, <3>1 DEF Lone, StatesOf
  <2>6. QED
    BY <1>2, <1>4, <2>1, <2>2, <2>4, <2>5, WriterGoesOn
<1>10. QED
  BY <1>5, <1>6, <1>7, <1>8, <1>9

(* The statements that delete the old event and the old action             *)
LEMMA DeleteKeeps ==
  ASSUME Before, Afterwards, WInv, NEW r \in Request, Stepped(r), Touched(r),
         DeleteEvent(r) \/ DeleteAction(r)
  PROVE  Own(r)'
<1> DEFINE me == req[r]
           new == req'[r]
<1>1. me.pc \in {"delete_event", "delete_action"} /\ Advance(r, me)
  BY DEF DeleteEvent, DeleteAction
<1>2. me.pc \in WriteWords \ {"create_rule"}
  BY <1>1 DEF WriteWords, EditWords
<1>3. /\ DOMAIN me = Fields /\ Placed(me) /\ me.row.Etrigger = <<me.row.action, 0>>
      /\ me.alone => Lone(rule, action, r, me)
      /\ \A id \in DOMAIN rule :
            /\ rule[id] \in ESRule /\ rule[id].Etrigger = <<rule[id].action, 0>>
            /\ rule[id].Etrigger \in trigger /\ rule[id].action \in action
  BY <1>2, WriterKnown
<1>4. /\ me.row \in ESRule /\ me.todo \subseteq Trigger /\ \A st \in me.todo : Owner(req, st[1], me.id)
  BY Owned DEF Own, ReqTyped
<1>5. \A f \in Fields \ {"row", "todo"} : me[f] = me[f]
  OBVIOUS
<1>6. /\ new.pc = Following(me.mode, me.pc) /\ new.mode = me.mode /\ new.id = me.id /\ new.row = me.row
  BY <1>1, <1>2, <1>3, <1>5, WriterOn
<1>7. me.mode = "edit" \/ me.mode = "delete"
  BY <1>1, <1>3 DEF Placed, ReadWords, CopyWords, CreateWords
<1>8. me.mode = "edit" => \A id \in DOMAIN rule : rule[id].action # me.row.action
  BY <1>1 DEF Before, DInv, OldGone, Replaced
<1>9. ASSUME me.alone PROVE Lone(rule', action', r, new)
  <2>1. CASE DeleteEvent(r) /\ me.mode = "edit"
    <3>1. me.id \in DOMAIN rule /\ rule[me.id].action = r
      BY <1>3, <1>9, <2>1 DEF Lone, DeleteEvent
    <3>2. rule[me.id].Etrigger # me.row.Etrigger
      BY <1>3, <1>8, <2>1, <3>1
    <3>3. /\ me.id \in DOMAIN rule'
          /\ rule'[me.id] = [rule[me.id] EXCEPT !.Striggers = @ \ {me.row.Etrigger}]
      BY <2>1, <3>1, <3>2 DEF DeleteEvent, DeleteTriggers
    <3>4. rule'[me.id].action = r
      BY <1>3, <3>1, <3>3 DEF ESRule
    <3>5. new.pc = "delete_action"
      BY <1>6, <2>1 DEF DeleteEvent, Following
    <3>6. QED
      BY <1>6, <2>1, <3>3, <3>4, <3>5 DEF Lone
  <2>2. CASE DeleteEvent(r) /\ me.mode = "delete"
    <3>1. me.id \in DOMAIN rule /\ rule[me.id].action = me.row.action
      BY <1>3, <1>9, <2>2 DEF Lone, DeleteEvent
    <3>2. me.id \notin DOMAIN rule' /\ action' = action /\ me.row.action \in action
      BY <1>3, <2>2, <3>1 DEF DeleteEvent, DeleteTriggers
    <3>3. new.pc = "fetch_action"
      BY <1>6, <2>2 DEF DeleteEvent, Following
    <3>4. QED
      BY <1>6, <2>2, <3>2, <3>3 DEF Lone
  <2>3. CASE DeleteAction(r) /\ me.mode = "edit"
    <3>1. me.id \in DOMAIN rule /\ rule[me.id].action = r
      BY <1>3, <1>9, <2>3 DEF Lone, DeleteAction
    <3>2. me.id \in DOMAIN rule' /\ rule'[me.id] = rule[me.id]
      BY <1>8, <2>3, <3>1 DEF DeleteAction, DeleteActions, RestrictRules
    <3>3. new.pc = "list_states"
      BY <1>6, <2>3 DEF DeleteAction, Following
    <3>4. QED
      BY <1>6, <2>3, <3>1, <3>2, <3>3 DEF Lone
  <2>4. CASE DeleteAction(r) /\ me.mode = "delete"
    <3>1. me.id \notin DOMAIN rule
      BY <1>3, <1>9, <2>4 DEF Lone, DeleteAction
    <3>2. me.id \notin DOMAIN rule'
      BY <2>4, <3>1 DEF DeleteAction, DeleteActions, RestrictRules
    <3>3. new.pc = "delete_rule"
      BY <1>6, <2>4 DEF DeleteAction, Following
    <3>4. QED
      BY <1>6, <2>4, <3>2, <3>3 DEF Lone
  <2>5. QED
    BY <1>7, <2>1, <2>2, <2>3, <2>4
<1>10. QED
  BY <1>1, <1>2, <1>3, <1>4, <1>5, <1>9, WriterGoesOn

(* The statements that put a row or states into a rule, or take states out *)
LEMMA PutKeeps ==
  ASSUME Before, Afterwards, WInv, NEW r \in Request, Stepped(r), Touched(r),
         SaveRule(r) \/ DropState(r) \/ AddState(r)
  PROVE  Own(r)'
<1> DEFINE me == req[r]
           new == req'[r]
<1>1. me.pc \in {"save_rule", "drop_states", "add_states"}
  BY DEF SaveRule, DropState, AddState
<1>2. me.pc \in WriteWords \ {"create_rule"}
  BY <1>1 DEF WriteWords, EditWords
<1>3. /\ DOMAIN me = Fields /\ Placed(me) /\ DOMAIN req = Request
      /\ me.alone => Lone(rule, action, r, me)
      /\ \A id \in DOMAIN rule : rule[id] \in ESRule
  BY <1>2, WriterKnown
<1>4. /\ me.row \in ESRule /\ me.todo \subseteq Trigger /\ \A st \in me.todo : Owner(req, st[1], me.id)
      /\ me.added \in 0..me.states /\ me.states \in Nat
      /\ me.pc = "drop_states" => me.added = 0
      /\ me.pc = "add_states" /\ me.mode = "create" => me.id # 0
  <2>1. ReqTyped(me) /\ \A st \in me.todo : Owner(req, st[1], me.id)
    BY Owned DEF Own
  <2>2. me.states \in 0..MaxState /\ me.added \in 0..me.states
    BY <2>1 DEF ReqTyped
  <2>3. me.states \in Nat
    BY <2>2, RequestAssumption
  <2>4. QED
    BY <1>2, <2>1, <2>2, <2>3 DEF ReqTyped
<1>5. CASE SaveRule(r)
  <2> DEFINE row == IF me.id \in DOMAIN rule THEN rule[me.id] ELSE [me.row EXCEPT !.Striggers = {}]
  <2>1. rule' = PutRule(me.id, Saved(r, row)) /\ Advance(r, me) /\ me.pc = "save_rule"
    BY <1>5 DEF SaveRule
  <2>2. row \in ESRule
    BY <1>3, <1>4 DEF ESRule
  <2> HIDE DEF row
  <2>3. me.id \in DOMAIN rule' /\ rule'[me.id].action = r
    BY <2>1, <2>2 DEF PutRule, Saved, ESRule
  <2>4. \A f \in Fields \ {"row", "todo"} : me[f] = me[f]
    OBVIOUS
  <2>5. new.pc = "delete_event" /\ new.mode = me.mode /\ new.id = me.id
    BY <1>2, <1>3, <2>1, <2>4, WriterOn DEF Following
  <2>6. me.mode = "edit"
    BY <1>3, <2>1 DEF Placed, ReadWords, CopyWords, CreateWords, DeleteWords
  <2>7. Lone(rule', action', r, new)
    BY <2>3, <2>5, <2>6 DEF Lone
  <2>8. QED
    BY <1>2, <1>3, <1>4, <2>1, <2>4, <2>7, WriterGoesOn
<1>6. CASE DropState(r)
  <2>1. PICK st \in me.todo : DeleteTriggers({st}) /\ req' = [req EXCEPT ![r].todo = @ \ {st}]
    BY <1>6 DEF DropState
  <2>2. me.pc = "drop_states" /\ action' = action
    BY <1>6 DEF DropState
  <2>3. new = [me EXCEPT !.todo = @ \ {st}]
    BY <1>3, <2>1
  <2>4. /\ new.pc = "drop_states" /\ new.mode = me.mode /\ new.id = me.id
        /\ new.states = me.states /\ new.added = me.added /\ new.ids = me.ids /\ new.rows = me.rows
        /\ new.shown = me.shown /\ new.busy = me.busy /\ new.alone = me.alone
        /\ new.row = me.row /\ new.todo = me.todo \ {st}
    BY <1>3, <2>2, <2>3 DEF Fields
  <2> HIDE DEF new
  <2>5. ASSUME me.alone PROVE Lone(rule', action', r, new)
    <3>1. Lone(rule, action, r, me) /\ me.id \in DOMAIN rule /\ rule[me.id].Striggers = me.todo
      BY <1>3, <2>2, <2>5 DEF Lone, Placed, ReadWords, CopyWords, CreateWords
    <3>2. rule[me.id].Etrigger # st
      <4>1. rule[me.id].Etrigger = <<rule[me.id].action, 0>> /\ NoEvents(me.todo)
        BY <3>1, Known DEF Before, IInv, RulesPaired, Paired
      <4>2. QED
        BY <2>1, <4>1 DEF NoEvents
    <3>3. me.id \in DOMAIN rule' /\ rule'[me.id] = [rule[me.id] EXCEPT !.Striggers = @ \ {st}]
      BY <2>1, <3>1, <3>2 DEF DeleteTriggers
    <3>4. rule'[me.id].Striggers = new.todo /\ rule'[me.id].action = rule[me.id].action
      BY <1>3, <2>4, <3>1, <3>3 DEF ESRule
    <3>5. QED
      BY <2>2, <2>4, <3>1, <3>3, <3>4 DEF Lone
  <2>6. ~ Inserted(new)
    BY <2>4 DEF Inserted
  <2>7. QED
    BY <1>2, <1>4, <2>2, <2>4, <2>5, <2>6, WriterKeeps DEF new
<1>7. CASE AddState(r) /\ me.id \notin DOMAIN rule
  <2>1. Fail(r) /\ me.pc = "add_states"
    BY <1>7 DEF AddState
  <2>2. ~ me.alone
    BY <1>3, <1>7, <2>1 DEF Lone, Placed, ReadWords, CopyWords, DeleteWords
  <2>3. QED
    BY <1>2, <2>1, <2>2, WriterFails
<1>8. CASE AddState(r) /\ me.id \in DOMAIN rule
  <2> DEFINE s_trig == <<r, me.added + 1>>
  <2>1. /\ me.pc = "add_states" /\ me.added < me.states /\ action' = action
        /\ rule' = [rule EXCEPT ![me.id].Striggers = @ \cup {s_trig}]
        /\ req' = [req EXCEPT ![r].added = @ + 1]
    BY <1>8 DEF AddState
  <2> HIDE DEF s_trig
  <2>2. new = [me EXCEPT !.added = @ + 1]
    BY <1>3, <2>1
  <2>3. /\ new.pc = "add_states" /\ new.mode = me.mode /\ new.id = me.id
        /\ new.states = me.states /\ new.added = me.added + 1 /\ new.ids = me.ids /\ new.rows = me.rows
        /\ new.shown = me.shown /\ new.busy = me.busy /\ new.alone = me.alone
        /\ new.row = me.row /\ new.todo = me.todo
    BY <1>3, <2>1, <2>2 DEF Fields
  <2> HIDE DEF new
  <2>4. me.id \in DOMAIN rule' /\ rule'[me.id] = [rule[me.id] EXCEPT !.Striggers = @ \cup {s_trig}]
    BY <1>8, <2>1
  <2>5. rule'[me.id].action = rule[me.id].action /\ rule'[me.id].Striggers = rule[me.id].Striggers \cup {s_trig}
    BY <1>3, <1>8, <2>4 DEF ESRule
  <2>6. ASSUME me.alone PROVE Lone(rule', action', r, new)
    <3>1. rule[me.id].action = r /\ rule[me.id].Striggers = States(r, me.added) /\ me.mode # "delete"
      BY <1>3, <2>1, <2>6 DEF Lone, Placed, ReadWords, CopyWords, DeleteWords
    <3>2. rule'[me.id].Striggers = States(r, new.added)
      BY <1>4, <2>3, <2>5, <3>1, StatesGrow DEF s_trig
    <3>3. QED
      BY <2>3, <2>4, <2>5, <3>1, <3>2 DEF Lone
  <2>7. ~ Inserted(new) /\ new.added \in 0..new.states
    BY <1>4, <2>1, <2>3 DEF Inserted
  <2>8. QED
    BY <1>2, <1>4, <2>1, <2>3, <2>6, <2>7, WriterKeeps DEF new
<1>9. QED
  BY <1>5, <1>6, <1>7, <1>8

(* A rule is created: it is the request's own.                             *)
LEMMA CreateKeeps ==
  ASSUME Before, Afterwards, WInv, NEW r \in Request, Stepped(r), Touched(r), CreateRule(r)
  PROVE  Own(r)'
<1> DEFINE me == req[r]
           new == req'[r]
<1>1. /\ me.pc = "create_rule" /\ rule' = PutRule(next_id, Content(r, 0)) /\ next_id' = next_id + 1
      /\ req' = [req EXCEPT ![r].pc = After(me), ![r].id = next_id]
  BY DEF CreateRule
<1>2. me.pc \in WriteWords
  BY <1>1 DEF WriteWords, CreateWords
<1>3. /\ DOMAIN me = Fields /\ Placed(me) /\ DOMAIN req = Request
      /\ me.ids = {} /\ me.rows = {} /\ me.shown = {} /\ me.busy \subseteq RuleIds
  BY <1>2, WriterKnown
<1>4. me.mode = "create" /\ After(me) = "add_states"
  BY <1>1, <1>3, Afters DEF Placed, ReadWords, CopyWords, EditWords, DeleteWords, Ended, Following
<1>5. /\ me.row \in ESRule /\ me.todo = {} /\ me.states \in 0..MaxState
      /\ me.added \in 0..me.states /\ me.added = 0
  BY <1>1, <1>2, Owned DEF Own, ReqTyped, Unnamed
<1>6. new = [me EXCEPT !.pc = "add_states", !.id = next_id]
  BY <1>1, <1>3, <1>4
<1>7. /\ new.pc = "add_states" /\ new.mode = "create" /\ new.id = next_id
      /\ new.states = me.states /\ new.added = me.added /\ new.ids = me.ids /\ new.rows = me.rows
      /\ new.shown = me.shown /\ new.busy = me.busy
      /\ new.row = me.row /\ new.todo = me.todo
  BY <1>3, <1>4, <1>6 DEF Fields
<1> HIDE DEF new
<1>8. next_id \in Nat \ {0}
  BY DEF WInv, Typed
<1>9. ReqTyped(req[r])'
  <2>1. new.id \in 0..(next_id' - 1)
    BY <1>1, <1>7, <1>8, RealIds
  <2>2. RuleIds \subseteq RuleIds'
    <3>1. next_id \in Nat /\ next_id' \in Nat /\ next_id <= next_id'
      BY <1>1, <1>8
    <3>2. QED
      BY <3>1, MoreIds DEF RuleIds
  <2>3. QED
    BY <1>3, <1>5, <1>7, <1>8, <2>1, <2>2 DEF ReqTyped, Unnamed, Modes, new
<1>10. ~ Inserted(new)
  BY <1>7 DEF Inserted
<1>11. Lone(rule', action', r, new)
  <2>1. rule'[next_id] = Content(r, 0) /\ next_id \in DOMAIN rule'
    BY <1>1 DEF PutRule
  <2>2. QED
    BY <1>5, <1>7, <2>1 DEF Lone, Content
<1>12. Reads(req[r])'
  BY <1>3, <1>7 DEF Reads, Midway, new
<1>13. FailureExplained(new)
  BY <1>7 DEF FailureExplained
<1>14. QED
  BY <1>5, <1>7, <1>9, <1>10, <1>11, <1>12, <1>13 DEF Own, new

(* Every request has after a step what it should have.                     *)
LEMMA AllKept ==
  ASSUME Before, Afterwards, WInv, NEW r \in Request, Step(r)
  PROVE  \A q \in Request : Own(q)'
<1>1. Stepped(r) /\ Touched(r)
  BY Stepping, Touching DEF WInv
<1>2. \A q \in Request \ {r} : Own(q)'
  BY <1>1, OthersKept
<1>3. FetchEvent(r) => req[r].pc \in {"fetch_event", "read_event"}
  BY DEF FetchEvent
<1>4. Own(r)'
  <2>1. CASE \/ InsertRows(r) \/ CreateRule(r) \/ SaveRule(r) \/ DeleteRule(r)
            \/ FindRule(r) \/ GetRule(r) \/ FetchRows(r) \/ FetchAction(r)
            \/ DeleteEvent(r) \/ DeleteAction(r)
            \/ ListStates(r) \/ DropState(r) \/ StatesDropped(r)
            \/ AddState(r) \/ StatesAdded(r)
    BY <1>1, <2>1, LookKeeps, CreateKeeps, PutKeeps, GetKeeps, DeleteKeeps
  <2>2. CASE \/ ListRules(r) \/ ReadRule(r) \/ ReadStates(r) \/ ReadAction(r)
            \/ ListRows(r) \/ TakeRule(r) \/ CopyEvent(r) \/ CopyAction(r) \/ CopyStates(r)
            \/ AllRead(r) \/ Answer(r)
    BY <1>1, <2>2, ReadKeeps, FetchKeeps, ReadActionKeeps, CopyStatesKeeps, AnswerKeeps
  <2>3. CASE FetchEvent(r)
    BY <1>1, <1>3, <2>3, LookKeeps, FetchKeeps
  <2>4. QED
    BY <2>1, <2>2, <2>3, Zenon DEF Step
<1>5. QED
  BY <1>2, <1>4
-----------------------------------------------------------------------------
(* The rules                                                               *)

(* Requests that are alone stay so.                                        *)
LEMMA SoleKept ==
  ASSUME Before, Afterwards, WInv, NEW r \in Request, Stepped(r)
  PROVE  Sole'
<1> SUFFICES ASSUME NEW p \in Request, NEW q \in Request,
                    Writing(p)', req'[p].alone, req'[p].id # 0, Writing(q)', req'[q].id = req'[p].id
             PROVE  q = p
  BY DEF Sole
<1>1. ASSUME NEW o \in Request
      PROVE  /\ Writing(o)' => Writing(o)
             /\ req'[o].alone = req[o].alone
             /\ o # r => req'[o].id = req[o].id
  BY <1>1 DEF Stepped, OthersSame, Writing, Reading
<1>2. \A o \in Request : req[o].id \in 0..(next_id - 1)
  BY Owned DEF Own, ReqTyped
<1>3. next_id \notin 0..(next_id - 1)
  BY RealIds DEF WInv, Typed
<1>4. CASE req'[r].id = req[r].id
  BY <1>1, <1>4 DEF WInv, Sole
<1>5. CASE req'[r].id = next_id
  <2>1. CASE p # r /\ q # r
    BY <1>1, <2>1 DEF WInv, Sole
  <2>2. CASE p = r \/ q = r
    BY <1>1, <1>2, <1>3, <1>5, <2>2
  <2>3. QED
    BY <2>1, <2>2
<1>6. QED
  BY <1>4, <1>5 DEF Stepped

(* A rule that is there has the rows it refers to, and the states that     *)
(* only it can have.                                                       *)
RuleRight(id, row, ts, as, reqs) ==
    /\ row \in ESRule
    /\ row.Etrigger \in ts /\ row.Striggers \subseteq ts /\ row.action \in as
    /\ \A st \in row.Striggers : Owner(reqs, st[1], id)
TablesRight ==
    /\ next_id \in Nat \ {0} /\ DOMAIN rule \subseteq RuleIds
    /\ trigger \subseteq Trigger /\ action \subseteq Source
    /\ \A id \in DOMAIN rule : RuleRight(id, rule[id], trigger, action, req)

(* The invariants say so.                                                  *)
LEMMA TablesAre == ASSUME WInv PROVE TablesRight
  BY DEF WInv, Typed, Keyed, StatesOwned, TablesRight, RuleRight

(* What deletes cascade to leaves the tables right ...                     *)
LEMMA CascadeRight ==
  ASSUME TablesRight, NEW r \in Request, Stepped(r), next_id' = next_id,
         NEW rows, \/ DeleteTriggers(rows) /\ action' = action
                   \/ DeleteActions(rows) /\ trigger' = trigger
  PROVE  TablesRight'
<1>1. ASSUME NEW id \in DOMAIN rule'
      PROVE  id \in DOMAIN rule /\ RuleRight(id, rule'[id], trigger', action', req')
  <2>1. id \in DOMAIN rule
    BY DEF DeleteTriggers, DeleteActions, RestrictRules
  <2>2. /\ rule[id] \in ESRule /\ rule[id].Etrigger \in trigger /\ rule[id].action \in action
        /\ rule[id].Striggers \subseteq trigger /\ \A st \in rule[id].Striggers : Owner(req', st[1], id)
    BY <2>1, OwnerStep DEF TablesRight, RuleRight
  <2>3. CASE DeleteTriggers(rows) /\ action' = action
    <3>1. rule'[id] = [rule[id] EXCEPT !.Striggers = @ \ rows] /\ rule[id].Etrigger \notin rows
          /\ trigger' = trigger \ rows
      BY <2>1, <2>3 DEF DeleteTriggers
    <3>2. /\ rule'[id] \in ESRule /\ rule'[id].Etrigger = rule[id].Etrigger
          /\ rule'[id].action = rule[id].action /\ rule'[id].Striggers = rule[id].Striggers \ rows
      BY <2>2, <3>1 DEF ESRule
    <3>3. QED
      BY <2>1, <2>2, <2>3, <3>1, <3>2 DEF RuleRight
  <2>4. CASE DeleteActions(rows) /\ trigger' = trigger
    <3>1. rule'[id] = rule[id] /\ rule[id].action \notin rows /\ action' = action \ rows
      BY <2>1, <2>4 DEF DeleteActions, RestrictRules
    <3>2. QED
      BY <2>1, <2>2, <2>4, <3>1 DEF RuleRight
  <2>5. QED
    BY <2>3, <2>4
<1>2. RuleIds' = RuleIds /\ trigger' \subseteq trigger /\ action' \subseteq action
  BY DEF RuleIds, DeleteTriggers, DeleteActions
<1>3. QED
  BY <1>1, <1>2 DEF TablesRight

(* ... and so does a row that is put into the table.                       *)
LEMMA PutRight ==
  ASSUME TablesRight, NEW r \in Request, Stepped(r), trigger' = trigger, action' = action,
         next_id' \in {next_id, next_id + 1}, NEW id \in RuleIds', NEW row, rule' = PutRule(id, row),
         RuleRight(id, row, trigger, action, req')
  PROVE  TablesRight'
<1>1. ASSUME NEW other \in DOMAIN rule'
      PROVE  /\ other \in DOMAIN rule \cup {id}
             /\ RuleRight(other, rule'[other], trigger', action', req')
  <2>1. CASE other = id
    BY <2>1 DEF PutRule
  <2>2. CASE other # id
    <3>1. other \in DOMAIN rule /\ rule'[other] = rule[other]
      BY <2>2 DEF PutRule
    <3>2. QED
      BY <3>1, OwnerStep DEF TablesRight, RuleRight
  <2>3. QED
    BY <2>1, <2>2
<1>2. RuleIds \subseteq RuleIds' /\ next_id' \in Nat \ {0}
  <2>1. next_id \in Nat /\ next_id' \in Nat /\ next_id <= next_id' /\ next_id' # 0
    BY DEF TablesRight
  <2>2. QED
    BY <2>1, MoreIds DEF RuleIds
<1>3. QED
  BY <1>1, <1>2 DEF TablesRight

(* Every step leaves the tables right.                                     *)
LEMMA TablesKept ==
  ASSUME Before, Afterwards, WInv, NEW r \in Request, Stepped(r), Step(r)
  PROVE  TablesRight'
<1> DEFINE me == req[r]
<1>1. TablesRight
  BY TablesAre
<1>2. Placed(me) /\ Own(r)
  BY WhereTheyAre, Owned
<1>3. ASSUME UNCHANGED <<rule, next_id>>, trigger \subseteq trigger', action \subseteq action',
             trigger' \subseteq Trigger, action' \subseteq Source
      PROVE  TablesRight'
  <2>1. RuleIds' = RuleIds
    BY <1>3 DEF RuleIds
  <2>2. \A id \in DOMAIN rule : RuleRight(id, rule[id], trigger', action', req')
    BY <1>1, <1>3, OwnerStep DEF TablesRight, RuleRight
  <2>3. QED
    BY <1>1, <1>3, <2>1, <2>2 DEF TablesRight
<1>4. /\ r \in Source /\ <<r, 0>> \in Trigger
      /\ \A n \in 1..MaxState : <<r, n>> \in Trigger
  BY RequestAssumption DEF Source, Trigger
<1>5. CASE InsertRows(r)
  BY <1>1, <1>3, <1>4, <1>5 DEF InsertRows, TablesRight
<1>6. CASE CreateRule(r)
  <2>1. /\ me.pc = "create_rule" /\ rule' = PutRule(next_id, Content(r, 0)) /\ next_id' = next_id + 1
        /\ trigger' = trigger /\ action' = action
    BY <1>6 DEF CreateRule
  <2>2. <<r, 0>> \in trigger /\ r \in action
    BY <1>2, <2>1 DEF Own, Inserted, Placed, ReadWords, CopyWords, EditWords, DeleteWords
  <2>3. States(r, 0) = {}
    BY StatesGrow
  <2>4. RuleRight(next_id, Content(r, 0), trigger, action, req')
    BY <1>4, <2>2, <2>3 DEF RuleRight, Content, ESRule
  <2>5. next_id \in RuleIds'
    BY <1>1, <2>1, RealIds DEF RuleIds, TablesRight
  <2>6. QED
    BY <1>1, <2>1, <2>4, <2>5, PutRight
<1>7. CASE SaveRule(r)
  <2> DEFINE row == IF me.id \in DOMAIN rule THEN rule[me.id] ELSE [me.row EXCEPT !.Striggers = {}]
  <2>1. /\ rule' = PutRule(me.id, Saved(r, row)) /\ me.pc = "save_rule"
        /\ trigger' = trigger /\ action' = action /\ next_id' = next_id
    BY <1>7 DEF SaveRule
  <2>2. me.mode = "edit" /\ <<r, 0>> \in trigger /\ r \in action
    BY <1>2, <2>1 DEF Own, Inserted, Placed, ReadWords, CopyWords, CreateWords, DeleteWords
  <2>3. row \in ESRule /\ row.Striggers \subseteq trigger /\ \A st \in row.Striggers : Owner(req', st[1], me.id)
    <3>1. CASE me.id \in DOMAIN rule
      BY <1>1, <3>1, OwnerStep DEF TablesRight, RuleRight
    <3>2. CASE me.id \notin DOMAIN rule
      BY <1>2, <3>2 DEF Own, ReqTyped, ESRule
    <3>3. QED
      BY <3>1, <3>2
  <2> HIDE DEF row
  <2>4. RuleRight(me.id, Saved(r, row), trigger, action, req')
    BY <1>4, <2>2, <2>3 DEF RuleRight, Saved, ESRule
  <2>5. me.id \in RuleIds'
    <3>1. me.id \in 0..(next_id - 1) /\ me.id # 0
      BY <1>2, <2>2 DEF Own, ReqTyped
    <3>2. QED
      BY <1>1, <2>1, <3>1, RealIds DEF RuleIds, TablesRight
  <2>6. QED
    BY <1>1, <2>1, <2>4, <2>5, PutRight
<1>8. CASE DeleteRule(r)
  <2>1. /\ UNCHANGED <<trigger, action, next_id>>
        /\ \A id \in DOMAIN rule' : id \in DOMAIN rule /\ rule'[id] = rule[id]
    BY <1>8 DEF DeleteRule, RestrictRules
  <2>2. RuleIds' = RuleIds
    BY <2>1 DEF RuleIds
  <2>3. \A id \in DOMAIN rule' : RuleRight(id, rule'[id], trigger', action', req')
    BY <1>1, <2>1, OwnerStep DEF TablesRight, RuleRight
  <2>4. QED
    BY <1>1, <2>1, <2>2, <2>3 DEF TablesRight
<1>9. CASE DeleteEvent(r) \/ DeleteAction(r)
  BY <1>1, <1>9, CascadeRight DEF DeleteEvent, DeleteAction
<1>10. CASE DropState(r)
  BY <1>1, <1>10, CascadeRight DEF DropState
<1>11. CASE AddState(r)
  <2> DEFINE s_trig == <<r, me.added + 1>>
  <2>1. /\ me.pc = "add_states" /\ me.added < me.states /\ trigger' = trigger \cup {s_trig}
        /\ action' = action /\ next_id' = next_id
    BY <1>11 DEF AddState
  <2>2. s_trig \in Trigger
    <3>1. me.states \in 0..MaxState /\ me.added \in 0..me.states
      BY <1>2 DEF Own, ReqTyped
    <3>2. me.added + 1 \in 1..MaxState
      BY <2>1, <3>1, RequestAssumption
    <3>3. QED
      BY <1>4, <3>2
  <2>3. CASE me.id \notin DOMAIN rule
    <3>1. rule' = rule
      BY <1>11, <2>3 DEF AddState
    <3>2. QED
      BY <1>1, <1>3, <2>1, <2>2, <3>1 DEF TablesRight
  <2>4. CASE me.id \in DOMAIN rule
    <3>1. rule' = [rule EXCEPT ![me.id].Striggers = @ \cup {s_trig}]
      BY <1>11, <2>4 DEF AddState
    <3>2. s_trig[1] = r
      OBVIOUS
    <3> HIDE DEF s_trig
    <3>3. Owner(req', r, me.id)
      BY <2>1, OwnerStep DEF Owner, Past
    <3>4. ASSUME NEW id \in DOMAIN rule'
          PROVE  id \in DOMAIN rule /\ RuleRight(id, rule'[id], trigger', action', req')
      <4>1. /\ rule[id] \in ESRule /\ rule[id].Etrigger \in trigger /\ rule[id].action \in action
            /\ rule[id].Striggers \subseteq trigger /\ \A st \in rule[id].Striggers : Owner(req', st[1], id)
            /\ id \in DOMAIN rule
        BY <1>1, <3>1, OwnerStep DEF TablesRight, RuleRight
      <4>2. CASE id # me.id
        BY <2>1, <3>1, <4>1, <4>2 DEF RuleRight
      <4>3. CASE id = me.id
        <5>1. rule'[id] = [rule[id] EXCEPT !.Striggers = @ \cup {s_trig}]
          BY <2>4, <3>1, <4>3
        <5>2. /\ rule'[id] \in ESRule /\ rule'[id].Etrigger = rule[id].Etrigger
              /\ rule'[id].action = rule[id].action /\ rule'[id].Striggers = rule[id].Striggers \cup {s_trig}
          BY <2>2, <4>1, <5>1 DEF ESRule
        <5>3. QED
          BY <2>1, <3>2, <3>3, <4>1, <4>3, <5>2 DEF RuleRight
      <4>4. QED
        BY <4>2, <4>3
    <3>5. RuleIds' = RuleIds
      BY <2>1 DEF RuleIds
    <3>6. QED
      BY <1>1, <2>1, <2>2, <3>4, <3>5 DEF TablesRight
  <2>5. QED
    BY <2>3, <2>4
<1>12. CASE \/ FindRule(r) \/ GetRule(r) \/ FetchRows(r) \/ FetchEvent(r) \/ FetchAction(r)
           \/ ListStates(r) \/ StatesDropped(r) \/ StatesAdded(r)
           \/ ListRules(r) \/ ReadRule(r) \/ ReadStates(r) \/ ReadAction(r)
           \/ ListRows(r) \/ TakeRule(r) \/ CopyEvent(r) \/ CopyAction(r) \/ CopyStates(r)
           \/ AllRead(r) \/ Answer(r)
  <2>1. UNCHANGED <<rule, trigger, action, next_id>>
    BY <1>12 DEF FindRule, GetRule, FetchRows, FetchEvent, FetchAction, ListStates, StatesDropped,
          StatesAdded, ListRules, ReadRule, ReadStates, ReadAction, ListRows, TakeRule, CopyEvent,
          CopyAction, CopyStates, AllRead, Answer, Tables
  <2>2. QED
    BY <1>1, <1>3, <2>1 DEF TablesRight
<1>13. QED
  BY <1>5, <1>6, <1>7, <1>8, <1>9, <1>10, <1>11, <1>12, Zenon DEF Step
-----------------------------------------------------------------------------
(* What rules are expected to be                                           *)

(* The rule a request makes                                                *)
LEMMA ContentTyped ==
  ASSUME NEW r \in Source, NEW n \in 0..MaxState
  PROVE  Content(r, n) \in ESRule
<1>1. \A i \in 0..MaxState : <<r, i>> \in Trigger /\ r \in Source
  BY DEF Trigger
<1>2. \A i \in 1..n : i \in 0..MaxState
  BY RequestAssumption
<1>3. <<r, 0>> \in Trigger /\ States(r, n) \subseteq Trigger
  BY <1>1, <1>2, RequestAssumption DEF States
<1>4. QED
  BY <1>1, <1>3, RequestAssumption DEF Content, ESRule

(* The other rules are as expected if no writer of them is past.           *)
LEMMA OtherExpected ==
  ASSUME Before, Afterwards, WInv, NEW r \in Request, Stepped(r), Touched(r),
         NEW id \in DOMAIN expected, id # req'[r].id,
         \A w \in Writers(id)' : ~ Past(req'[w])
  PROVE  expected[id] = Rows(rule', id)
<1>1. ASSUME NEW w \in Writers(id) PROVE ~ Past(req[w])
  <2>1. w \in Request /\ Writing(w) /\ req[w].id = id
    BY DEF Writers
  <2>2. CASE w = r
    BY <2>1, <2>2 DEF Stepped, Past
  <2>3. CASE w # r
    <3>1. req'[w] = req[w]
      BY <2>1, <2>3 DEF Stepped, OthersSame
    <3>2. w \in Writers(id)'
      BY <2>1, <3>1 DEF Writers, Writing, Reading
    <3>3. QED
      BY <3>1, <3>2
  <2>4. QED
    BY <2>2, <2>3
<1>2. expected[id] = Rows(rule, id)
  BY <1>1 DEF WInv, AsExpected
<1>3. SameAt(id)
  BY DEF Touched
<1>4. QED
  BY <1>2, <1>3 DEF SameAt, Rows

(* Nothing else is expected, and the rule is as it was or no longer        *)
(* expected to be anything.                                                *)
LEMMA ExpectationStays ==
  ASSUME Before, Afterwards, WInv, NEW r \in Request, Stepped(r), Touched(r), expected' = expected,
         \/ Writing(r)' /\ Past(req'[r])
         \/ rule' = rule /\ (Writing(r) /\ Past(req[r]) => Writing(r)')
  PROVE  AsExpected'
<1> SUFFICES ASSUME NEW id \in DOMAIN expected, \A w \in Writers(id)' : ~ Past(req'[w])
             PROVE  expected[id] = Rows(rule', id)
  BY DEF AsExpected
<1>1. CASE id # req'[r].id
  BY <1>1, OtherExpected
<1>2. CASE id = req'[r].id
  <2>1. ~ (Writing(r)' /\ Past(req'[r]))
    BY <1>2 DEF Writers
  <2>2. req'[r].id = req[r].id /\ (Past(req[r]) => Past(req'[r]))
    <3>1. id \in 1..(next_id - 1) /\ next_id \in Nat \ {0}
      BY DEF WInv, Typed, RuleIds
    <3>2. id # next_id
      BY <3>1
    <3>3. QED
      BY <1>2, <3>2 DEF Stepped
  <2>3. ASSUME NEW w \in Writers(id) PROVE ~ Past(req[w])
    <3>1. w \in Request /\ Writing(w) /\ req[w].id = id
      BY DEF Writers
    <3>2. CASE w = r
      BY <2>1, <2>2, <3>1, <3>2
    <3>3. CASE w # r
      <4>1. req'[w] = req[w]
        BY <3>1, <3>3 DEF Stepped, OthersSame
      <4>2. w \in Writers(id)'
        BY <3>1, <4>1 DEF Writers, Writing, Reading
      <4>3. QED
        BY <4>1, <4>2
    <3>4. QED
      BY <3>2, <3>3
  <2>4. QED
    BY <2>1, <2>3 DEF WInv, AsExpected
<1>3. QED
  BY <1>1, <1>2

(* A write has ended: the rule is what it wrote, or no longer expected to  *)
(* be anything.                                                            *)
LEMMA ExpectationEnds ==
  ASSUME Before, Afterwards, WInv, NEW r \in Request, Stepped(r), Touched(r), req'[r].id = req[r].id,
         \/ expected' = Clear(req[r].id, Wrote(r)) /\ Rows(rule', req[r].id) = Wrote(r)
         \/ expected' = Unclear(req[r].id)
  PROVE  AsExpected'
<1> SUFFICES ASSUME NEW id \in DOMAIN expected', \A w \in Writers(id)' : ~ Past(req'[w])
             PROVE  expected'[id] = Rows(rule', id)
  BY DEF AsExpected
<1>1. CASE id # req[r].id
  <2>1. id \in DOMAIN expected /\ expected'[id] = expected[id]
    BY <1>1 DEF Clear, Unclear
  <2>2. QED
    BY <1>1, <2>1, OtherExpected
<1>2. CASE id = req[r].id
  BY <1>2 DEF Clear, Unclear
<1>3. QED
  BY <1>1, <1>2

(* What is expected is a rule or none.                                     *)
ExpectedTyped ==
    DOMAIN expected \subseteq RuleIds /\ \A id \in DOMAIN expected : expected[id] \subseteq ESRule
Expecting(r) ==
    \/ expected' = expected
    \/ Writing(r) /\ req[r].pc # "insert_rows" /\ req[r].pc # "create_rule"
          /\ expected' \in {Clear(req[r].id, Wrote(r)), Unclear(req[r].id)}

(* ... after every step.                                                   *)
LEMMA ExpectedKept ==
  ASSUME Before, Afterwards, WInv, NEW r \in Request, Stepped(r), Expecting(r)
  PROVE  ExpectedTyped'
<1>1. /\ ExpectedTyped /\ next_id \in Nat \ {0}
      /\ req[r].states \in 0..MaxState /\ req[r].id \in 0..(next_id - 1)
  BY Owned DEF WInv, Typed, ExpectedTyped, Own, ReqTyped
<1>2. RuleIds \subseteq RuleIds'
  <2>1. next_id' \in Nat /\ next_id \in Nat /\ next_id <= next_id'
    BY <1>1 DEF Stepped
  <2>2. QED
    BY <2>1, MoreIds DEF RuleIds
<1>3. CASE expected' = expected
  BY <1>1, <1>2, <1>3 DEF ExpectedTyped, ESRule
<1>4. CASE Writing(r) /\ req[r].pc # "insert_rows" /\ req[r].pc # "create_rule"
             /\ expected' \in {Clear(req[r].id, Wrote(r)), Unclear(req[r].id)}
  <2>1. req[r].id # 0
    BY <1>4, Owned, WhereTheyAre DEF Own, ReqTyped, Placed, WriteWords, ReadWords, CopyWords,
          CreateWords, EditWords, DeleteWords
  <2>2. req[r].id \in RuleIds
    BY <1>1, <2>1, RealIds DEF RuleIds
  <2>3. Wrote(r) \subseteq ESRule
    BY <1>1, ContentTyped DEF Wrote, Source
  <2>4. DOMAIN expected' \subseteq RuleIds /\ \A id \in DOMAIN expected' : expected'[id] \subseteq ESRule
    BY <1>1, <1>4, <2>2, <2>3 DEF ExpectedTyped, Clear, Unclear
  <2>5. QED
    BY <1>2, <2>4 DEF ExpectedTyped, ESRule
<1>5. QED
  BY <1>3, <1>4 DEF Expecting

(* What is expected after a statement                                      *)
LEMMA AdvanceExpects ==
  ASSUME Before, NEW r \in Request, NEW me, Advance(r, me), req[r].pc \notin Ended
  PROVE  expected' = IF Writing(r) /\ Following(req[r].mode, req[r].pc) = "list_rules"
                     THEN IF me.alone THEN Clear(me.id, Wrote(r)) ELSE Unclear(me.id)
                     ELSE expected
<1>1. Placed(req[r])
  BY DEF Before, DInv, ReqsSound, ReqSound
<1>2. QED
  BY <1>1, Afters DEF Advance

(* A failure leaves the rules as they were.                                *)
LEMMA FailureExpected ==
  ASSUME Before, Afterwards, WInv, NEW r \in Request, Stepped(r), Touched(r), Own(r)', Fail(r),
         rule' = rule, req[r].pc \notin {"insert_rows", "create_rule"}
  PROVE  AsExpected' /\ Expecting(r)
<1>1. /\ req'[r].pc = "failed" /\ req'[r].failed_at = req[r].pc /\ req'[r].alone = req[r].alone
      /\ req'[r].id = req[r].id
  BY Failing
<1>2. Writing(r) <=> req[r].pc \in WriteWords
  BY WhereTheyAre
<1>3. CASE Writing(r) /\ ~ req[r].alone
  <2>1. expected' = Unclear(req[r].id)
    BY <1>3 DEF Fail
  <2>2. AsExpected'
    BY <1>1, <2>1, ExpectationEnds
  <2>3. QED
    BY <1>3, <2>1, <2>2 DEF Expecting
<1>4. CASE ~ (Writing(r) /\ ~ req[r].alone)
  <2>1. expected' = expected
    BY <1>4 DEF Fail
  <2>2. Writing(r) => ~ Past(req[r])
    <3>1. SUFFICES ASSUME Writing(r) PROVE ~ Past(req[r])
      OBVIOUS
    <3>2. req[r].pc \notin Queries
      BY <1>2, <3>1, QueryWords DEF WriteWords, ReadWords, CopyWords, CreateWords, EditWords, DeleteWords
    <3>3. FailureExplained(req'[r])
      BY DEF Own
    <3>4. req[r].pc = "get_rule"
      BY <1>1, <1>4, <3>1, <3>2, <3>3 DEF FailureExplained
    <3>5. QED
      BY <3>4 DEF Past
  <2>3. AsExpected'
    BY <2>1, <2>2, ExpectationStays
  <2>4. QED
    BY <2>1, <2>3 DEF Expecting
<1>5. QED
  BY <1>3, <1>4

(* Readers leave the rules as they were.                                   *)
LEMMA ReadExpected ==
  ASSUME Before, Afterwards, WInv, NEW r \in Request, Stepped(r), Touched(r),
         \/ ListRules(r) \/ ReadRule(r) \/ ReadStates(r) \/ ReadAction(r)
         \/ ListRows(r) \/ TakeRule(r) \/ CopyEvent(r) \/ CopyAction(r) \/ CopyStates(r)
         \/ AllRead(r) \/ Answer(r) \/ (FetchEvent(r) /\ req[r].pc = "read_event")
  PROVE  AsExpected' /\ Expecting(r)
<1>1. /\ req[r].pc \in ReadWords \cup CopyWords
      /\ UNCHANGED rule
      /\ \/ \E me : Advance(r, me)
         \/ Fail(r)
         \/ UNCHANGED expected
  BY DEF ListRules, ReadRule, ReadStates, ReadAction, ListRows, TakeRule, CopyEvent, CopyAction,
        CopyStates, AllRead, Answer, FetchEvent, Tables, ReadWords, CopyWords
<1>2. ~ Writing(r)
  BY <1>1, WhereTheyAre DEF WriteWords, ReadWords, CopyWords, CreateWords, EditWords, DeleteWords
<1>3. expected' = expected
  BY <1>1, <1>2 DEF Advance, Fail
<1>4. QED
  BY <1>1, <1>2, <1>3, ExpectationStays DEF Expecting

(* The statements of a write before its last                               *)
LEMMA WriteExpected ==
  ASSUME Before, Afterwards, WInv, NEW r \in Request, Stepped(r), Touched(r), Own(r)',
         \/ InsertRows(r) \/ CreateRule(r) \/ SaveRule(r)
         \/ FindRule(r) \/ GetRule(r) \/ FetchRows(r) \/ FetchAction(r)
         \/ DeleteEvent(r) \/ DeleteAction(r)
         \/ ListStates(r) \/ DropState(r) \/ StatesDropped(r)
         \/ AddState(r) \/ (FetchEvent(r) /\ req[r].pc = "fetch_event")
  PROVE  AsExpected' /\ Expecting(r)
<1> DEFINE me == req[r]
           new == req'[r]
<1>1. me.pc \in WriteWords \ {"delete_rule"}
  BY DEF InsertRows, CreateRule, SaveRule, FindRule, GetRule, FetchRows, FetchAction, DeleteEvent,
        DeleteAction, ListStates, DropState, StatesDropped, AddState, FetchEvent,
        WriteWords, CreateWords, EditWords, DeleteWords
<1>2. /\ DOMAIN req = Request /\ DOMAIN me = Fields /\ Placed(me) /\ Placed(new)
      /\ Writing(r) /\ (Writing(r)' <=> new.pc \in WriteWords)
  BY <1>1, WhereTheyAre
<1>3. CASE Fail(r)
  <2>1. rule' = rule /\ me.pc \notin {"insert_rows", "create_rule"}
    <3>1. new.pc = "failed"
      BY <1>3, Failing
    <3>2. CASE FindRule(r) \/ GetRule(r) \/ FetchRows(r) \/ FetchAction(r) \/ ListStates(r)
               \/ StatesDropped(r) \/ AddState(r) \/ FetchEvent(r)
      <4>1. AddState(r) => rule' = rule
        <5>1. SUFFICES ASSUME AddState(r), me.id \in DOMAIN rule PROVE FALSE
          BY DEF AddState
        <5>2. req' = [req EXCEPT ![r].added = @ + 1] /\ me.pc = "add_states"
          BY <5>1 DEF AddState
        <5>3. new = [me EXCEPT !.added = @ + 1]
          BY <1>2, <5>2
        <5>4. new.pc = me.pc
          BY <1>2, <5>3 DEF Fields
        <5>5. QED
          BY <3>1, <5>2, <5>4
      <4>2. QED
        BY <3>2, <4>1 DEF FindRule, GetRule, FetchRows, FetchAction, ListStates, StatesDropped,
              AddState, FetchEvent, Tables
    <3>3. CASE InsertRows(r) \/ SaveRule(r) \/ DeleteEvent(r) \/ DeleteAction(r)
      <4>1. Advance(r, me) /\ me.pc \notin Ended
        BY <3>3 DEF InsertRows, SaveRule, DeleteEvent, DeleteAction, Ended
      <4>2. new.pc = Following(me.mode, me.pc)
        BY <1>2, <4>1, Advanced
      <4>3. QED
        BY <3>1, <3>3, <4>2 DEF Following, InsertRows, SaveRule, DeleteEvent, DeleteAction
    <3>4. CASE CreateRule(r)
      <4>1. req' = [req EXCEPT ![r].pc = After(me), ![r].id = next_id] /\ me.pc = "create_rule"
        BY <3>4 DEF CreateRule
      <4>2. After(me) = "add_states"
        BY <1>2, <4>1, Afters DEF Ended, Following
      <4>3. new = [me EXCEPT !.pc = "add_states", !.id = next_id]
        BY <1>2, <4>1, <4>2
      <4>4. new.pc = "add_states"
        BY <1>2, <4>3 DEF Fields
      <4>5. QED
        BY <3>1, <4>4
    <3>5. CASE DropState(r)
      <4>1. PICK st : req' = [req EXCEPT ![r].todo = @ \ {st}]
        BY <3>5 DEF DropState
      <4>2. new = [me EXCEPT !.todo = @ \ {st}]
        BY <1>2, <4>1
      <4>3. new.pc = me.pc /\ me.pc = "drop_states"
        BY <1>2, <3>5, <4>2 DEF Fields, DropState
      <4>4. QED
        BY <3>1, <4>3
    <3>6. QED
      BY <3>2, <3>3, <3>4, <3>5
  <2>2. QED
    BY <1>3, <2>1, FailureExpected
<1>4. CASE \E to : Advance(r, to) /\ DOMAIN to = Fields
  <2>1. PICK to : Advance(r, to) /\ DOMAIN to = Fields
    BY <1>4
  <2>2. /\ me.pc \notin Ended
        /\ new.pc = Following(me.mode, me.pc)
    <3>1. me.pc \notin Ended
      BY <1>1 DEF Ended, WriteWords, CreateWords, EditWords, DeleteWords
    <3>2. QED
      BY <2>1, <3>1, Advanced
  <2>3. me.pc # "add_states"
    <3>1. SUFFICES ASSUME AddState(r) PROVE FALSE
      BY DEF InsertRows, CreateRule, SaveRule, FindRule, GetRule, FetchRows, FetchAction, DeleteEvent,
             DeleteAction, ListStates, DropState, StatesDropped, AddState, FetchEvent
    <3>2. me.pc = "add_states" /\ (Fail(r) \/ req' = [req EXCEPT ![r].added = @ + 1])
      BY <3>1 DEF AddState
    <3>3. new.pc = "list_rules"
      BY <2>2, <3>2 DEF Following
    <3>4. CASE Fail(r)
      BY <3>3, <3>4, Failing
    <3>5. CASE req' = [req EXCEPT ![r].added = @ + 1]
      <4>1. new = [me EXCEPT !.added = @ + 1]
        BY <1>2, <3>5
      <4>2. new.pc = me.pc
        BY <1>2, <4>1 DEF Fields
      <4>3. QED
        BY <3>2, <3>3, <4>2
    <3>6. QED
      BY <3>2, <3>4, <3>5
  <2>4. new.pc \in WriteWords /\ new.pc # "list_rules"
    <3>1. \/ me.mode = "create" /\ me.pc \in CreateWords
          \/ me.mode = "edit" /\ me.pc \in EditWords
          \/ me.mode = "delete" /\ me.pc \in DeleteWords
      BY <1>1, <1>2 DEF Placed, WriteWords, ReadWords, CopyWords, CreateWords, EditWords, DeleteWords
    <3>2. new.pc \in WriteWords
      BY <1>1, <2>2, <2>3, <3>1 DEF Following, WriteWords, CreateWords, EditWords, DeleteWords
    <3>3. QED
      BY <3>2 DEF WriteWords, CreateWords, EditWords, DeleteWords
  <2>5. expected' = expected
    BY <2>1, <2>2, <2>4, AdvanceExpects
  <2>6. Past(new) \/ (rule' = rule /\ ~ Past(me))
    <3>1. CASE me.pc \in {"insert_rows", "find_rule", "get_rule", "fetch_rows"}
      BY <3>1 DEF InsertRows, CreateRule, SaveRule, FindRule, GetRule, FetchRows, FetchAction,
            DeleteEvent, DeleteAction, ListStates, DropState, StatesDropped, AddState, FetchEvent,
            Tables, Past
    <3>2. CASE me.pc \notin {"insert_rows", "find_rule", "get_rule", "fetch_rows"}
      BY <1>1, <1>2, <2>2, <3>2 DEF Following, Past, Placed, WriteWords, ReadWords, CopyWords,
            CreateWords, EditWords, DeleteWords
    <3>3. QED
      BY <3>1, <3>2
  <2>7. QED
    BY <1>2, <2>4, <2>5, <2>6, ExpectationStays DEF Expecting
<1>5. CASE CreateRule(r)
  <2>1. Placed(new) /\ new.id = next_id /\ expected' = expected
    <3>1. me.pc = "create_rule" /\ expected' = expected /\ next_id' = next_id + 1
      BY <1>5 DEF CreateRule
    <3>2. next_id \in Nat
      BY DEF WInv, Typed
    <3>3. QED
      BY <1>2, <3>1, <3>2 DEF Stepped
  <2>2. new.pc = "add_states"
    <3>1. req' = [req EXCEPT ![r].pc = After(me), ![r].id = next_id] /\ me.pc = "create_rule"
      BY <1>5 DEF CreateRule
    <3>2. After(me) = "add_states"
      BY <1>2, <3>1, Afters DEF Ended, Following
    <3>3. new = [me EXCEPT !.pc = "add_states", !.id = next_id]
      BY <1>2, <3>1, <3>2
    <3>4. QED
      BY <1>2, <3>3 DEF Fields
  <2>3. Writing(r)' /\ Past(new)
    BY <1>2, <2>2 DEF Past, WriteWords, CreateWords
  <2>4. QED
    BY <2>1, <2>3, ExpectationStays DEF Expecting
<1>6. CASE FindRule(r) /\ ~ Advance(r, me)
  <2>1. expected' = expected /\ rule' = rule /\ ~ Past(me)
    BY <1>6 DEF FindRule, Tables, Past
  <2>2. QED
    BY <2>1, ExpectationStays DEF Expecting
<1>7. CASE DropState(r)
  <2>1. PICK st : req' = [req EXCEPT ![r].todo = @ \ {st}]
    BY <1>7 DEF DropState
  <2>2. new = [me EXCEPT !.todo = @ \ {st}]
    BY <1>2, <2>1
  <2>3. new.pc = me.pc /\ me.pc = "drop_states" /\ expected' = expected
    BY <1>2, <1>7, <2>2 DEF Fields, DropState
  <2>4. Writing(r)' /\ Past(new)
    BY <1>2, <2>3 DEF Past, WriteWords, EditWords
  <2>5. QED
    BY <2>3, <2>4, ExpectationStays DEF Expecting
<1>8. CASE AddState(r) /\ ~ Fail(r)
  <2>1. req' = [req EXCEPT ![r].added = @ + 1] /\ me.pc = "add_states" /\ expected' = expected
    BY <1>8 DEF AddState
  <2>2. new = [me EXCEPT !.added = @ + 1]
    BY <1>2, <2>1
  <2>3. new.pc = "add_states"
    BY <1>2, <2>1, <2>2 DEF Fields
  <2>4. Writing(r)' /\ Past(new)
    BY <1>2, <2>3 DEF Past, WriteWords, EditWords
  <2>5. QED
    BY <2>1, <2>4, ExpectationStays DEF Expecting
<1>9. CASE \/ InsertRows(r) \/ SaveRule(r) \/ (FindRule(r) /\ Advance(r, me)) \/ FetchRows(r)
           \/ FetchAction(r) \/ DeleteEvent(r) \/ DeleteAction(r) \/ StatesDropped(r) \/ FetchEvent(r)
  <2>1. Advance(r, me) \/ Fail(r)
    BY <1>9 DEF InsertRows, SaveRule, FetchRows, FetchAction, DeleteEvent, DeleteAction,
          StatesDropped, FetchEvent
  <2>2. QED
    BY <1>2, <1>3, <1>4, <2>1
<1>10. CASE GetRule(r) \/ ListStates(r)
  <2>1. \/ Fail(r)
        \/ \E row : Advance(r, [me EXCEPT !.row = row])
        \/ \E todo : Advance(r, [me EXCEPT !.todo = todo])
    BY <1>10 DEF GetRule, ListStates
  <2>2. \A row : DOMAIN [me EXCEPT !.row = row] = Fields /\ DOMAIN [me EXCEPT !.todo = row] = Fields
    BY <1>2
  <2>3. QED
    BY <1>3, <1>4, <2>1, <2>2
<1>11. QED
  BY <1>3, <1>5, <1>6, <1>7, <1>8, <1>9, <1>10

(* The last statement of a write                                           *)
LEMMA EndExpected ==
  ASSUME Before, Afterwards, WInv, NEW r \in Request, Stepped(r), Touched(r), Own(r)',
         StatesAdded(r) \/ DeleteRule(r)
  PROVE  AsExpected' /\ Expecting(r)
<1> DEFINE me == req[r]
<1>1. Advance(r, me) /\ me.pc \in {"add_states", "delete_rule"}
  BY DEF StatesAdded, DeleteRule
<1>2. me.pc \in WriteWords
  BY <1>1 DEF WriteWords, CreateWords, DeleteWords
<1>3. /\ DOMAIN me = Fields /\ Placed(me) /\ Writing(r)
      /\ me.alone => Lone(rule, action, r, me)
      /\ \A id \in DOMAIN rule : rule[id] \in ESRule /\ rule[id].Etrigger = <<rule[id].action, 0>>
  BY <1>2, WriterKnown
<1>4. Following(me.mode, me.pc) = "list_rules" /\ me.pc \notin Ended
  BY <1>1 DEF Following, Ended
<1>5. expected' = IF me.alone THEN Clear(me.id, Wrote(r)) ELSE Unclear(me.id)
  BY <1>1, <1>3, <1>4, AdvanceExpects
<1>6. me.pc # "create_rule" /\ req'[r].id = me.id
  BY <1>1 DEF Stepped
<1>7. ASSUME me.alone PROVE Rows(rule', me.id) = Wrote(r)
  <2>1. CASE StatesAdded(r)
    <3>1. /\ me.id \in DOMAIN rule /\ rule[me.id].action = r /\ me.mode # "delete"
          /\ rule[me.id].Striggers = States(r, me.added) /\ me.added = me.states /\ rule' = rule
      BY <1>3, <1>7, <2>1 DEF StatesAdded, Tables, Lone, Placed, ReadWords, CopyWords, DeleteWords
    <3>2. rule[me.id] \in ESRule /\ rule[me.id].Etrigger = <<r, 0>>
      BY <1>3, <3>1
    <3>3. Content(r, me.states) \in ESRule
      BY ContentTyped, Owned DEF Own, ReqTyped, Source
    <3>4. rule[me.id] = Content(r, me.states)
      BY <3>1, <3>2, <3>3 DEF Content, ESRule
    <3>5. QED
      BY <3>1, <3>4 DEF Rows, Wrote
  <2>2. CASE DeleteRule(r)
    <3>1. me.mode = "delete" /\ me.id \notin DOMAIN rule'
      BY <1>3, <2>2 DEF DeleteRule, RestrictRules, Placed, ReadWords, CopyWords, CreateWords, EditWords
    <3>2. QED
      BY <3>1 DEF Rows, Wrote
  <2>3. QED
    BY <2>1, <2>2
<1>8. AsExpected'
  BY <1>5, <1>6, <1>7, ExpectationEnds
<1>9. QED
  BY <1>1, <1>3, <1>5, <1>8 DEF Expecting

(* Every step leaves what is expected right.                               *)
LEMMA AllExpected ==
  ASSUME Before, Afterwards, WInv, NEW r \in Request, Step(r)
  PROVE  AsExpected' /\ ExpectedTyped'
<1>1. Stepped(r) /\ Touched(r) /\ Own(r)'
  BY Stepping, Touching, AllKept DEF WInv
<1>2. FetchEvent(r) => req[r].pc \in {"fetch_event", "read_event"}
  BY DEF FetchEvent
<1>3. AsExpected' /\ Expecting(r)
  <2>1. CASE StatesAdded(r) \/ DeleteRule(r)
    BY <1>1, <2>1, EndExpected
  <2>2. CASE \/ InsertRows(r) \/ CreateRule(r) \/ SaveRule(r)
            \/ FindRule(r) \/ GetRule(r) \/ FetchRows(r) \/ FetchAction(r)
            \/ DeleteEvent(r) \/ DeleteAction(r)
            \/ ListStates(r) \/ DropState(r) \/ StatesDropped(r) \/ AddState(r)
    BY <1>1, <2>2, WriteExpected
  <2>3. CASE \/ ListRules(r) \/ ReadRule(r) \/ ReadStates(r) \/ ReadAction(r)
            \/ ListRows(r) \/ TakeRule(r) \/ CopyEvent(r) \/ CopyAction(r) \/ CopyStates(r)
            \/ AllRead(r) \/ Answer(r)
    BY <1>1, <2>3, ReadExpected
  <2>4. CASE FetchEvent(r)
    BY <1>1, <1>2, <2>4, WriteExpected, ReadExpected
  <2>5. QED
    BY <2>1, <2>2, <2>3, <2>4, Zenon DEF Step
<1>4. QED
  BY <1>1, <1>3, ExpectedKept
-----------------------------------------------------------------------------
(* Rows without a rule                                                     *)

(* A request or its rule still has a row.                                  *)
HasTrigger(rules, r, me, t) ==
    \/ OwnTrigger(r, me, t)
    \/ me.id \in DOMAIN rules /\ (t = rules[me.id].Etrigger \/ t \in rules[me.id].Striggers)
HasAction(rules, r, me, a) ==
    \/ OwnAction(r, me, a)
    \/ me.id \in DOMAIN rules /\ a = rules[me.id].action

(* No row gets lost that the request had or has made.                      *)
NoneLost(r) ==
    /\ \A t \in trigger' : t \notin trigger \/ HasTrigger(rule, r, req[r], t) =>
           HasTrigger(rule', r, req'[r], t)
    /\ \A a \in action' : a \notin action \/ HasAction(rule, r, req[r], a) =>
           HasAction(rule', r, req'[r], a)

(* Then none gets lost at all.                                             *)
LEMMA NoneOrphaned ==
  ASSUME Before, Afterwards, WInv, NEW r \in Request, Stepped(r), Touched(r),
         Clean' => NoneLost(r)
  PROVE  Orphans'
<1> SUFFICES ASSUME Clean'
             PROVE  /\ \A t \in trigger' :
                          \/ \E id \in DOMAIN rule' : t = rule'[id].Etrigger \/ t \in rule'[id].Striggers
                          \/ \E q \in Request : OwnTrigger(q, req'[q], t)
                    /\ \A a \in action' :
                          \/ \E id \in DOMAIN rule' : a = rule'[id].action
                          \/ \E q \in Request : OwnAction(q, req'[q], a)
  BY DEF Orphans, OwnTrigger, OwnAction, Inserted
<1>1. NoneLost(r)
  OBVIOUS
<1>2. Clean
  <2>1. ASSUME NEW q \in Request PROVE req[q].alone /\ req[q].pc # "failed"
    <3>1. req'[q].alone /\ req'[q].pc # "failed"
      BY DEF Clean
    <3>2. QED
      BY <3>1 DEF Stepped, OthersSame
  <2>2. QED
    BY <2>1 DEF Clean
<1>3. ASSUME NEW id \in DOMAIN rule
      PROVE  id = req[r].id \/ (id \in DOMAIN rule' /\ rule'[id] = rule[id])
  <2>1. id \in 1..(next_id - 1) /\ next_id \in Nat \ {0}
    BY DEF WInv, Typed, RuleIds
  <2>2. id # next_id
    BY <2>1
  <2>3. CASE id # req'[r].id
    BY <2>3 DEF Touched, SameAt
  <2>4. CASE id = req'[r].id
    BY <2>2, <2>4 DEF Stepped
  <2>5. QED
    BY <2>3, <2>4
<1>4. \A q \in Request \ {r} : req'[q] = req[q]
  BY DEF Stepped, OthersSame
<1>5. ASSUME NEW t \in trigger'
      PROVE  \/ \E id \in DOMAIN rule' : t = rule'[id].Etrigger \/ t \in rule'[id].Striggers
             \/ \E q \in Request : OwnTrigger(q, req'[q], t)
  <2>1. CASE t \notin trigger \/ HasTrigger(rule, r, req[r], t)
    <3>1. HasTrigger(rule', r, req'[r], t)
      BY <1>1, <2>1 DEF NoneLost
    <3>2. QED
      BY <3>1 DEF HasTrigger
  <2>2. CASE t \in trigger /\ ~ HasTrigger(rule, r, req[r], t)
    <3>1. CASE \E id \in DOMAIN rule : t = rule[id].Etrigger \/ t \in rule[id].Striggers
      <4>1. PICK id \in DOMAIN rule : t = rule[id].Etrigger \/ t \in rule[id].Striggers
        BY <3>1
      <4>2. id # req[r].id
        BY <2>2, <4>1 DEF HasTrigger
      <4>3. QED
        BY <1>3, <4>1, <4>2
    <3>2. CASE \E q \in Request : OwnTrigger(q, req[q], t)
      <4>1. PICK q \in Request : OwnTrigger(q, req[q], t)
        BY <3>2
      <4>2. q # r
        BY <2>2, <4>1 DEF HasTrigger
      <4>3. OwnTrigger(q, req'[q], t)
        BY <1>4, <4>1, <4>2
      <4>4. QED
        BY <4>3
    <3>3. QED
      BY <1>2, <2>2, <3>1, <3>2 DEF WInv, Orphans
  <2>3. QED
    BY <2>1, <2>2
<1>6. ASSUME NEW a \in action'
      PROVE  \/ \E id \in DOMAIN rule' : a = rule'[id].action
             \/ \E q \in Request : OwnAction(q, req'[q], a)
  <2>1. CASE a \notin action \/ HasAction(rule, r, req[r], a)
    <3>1. HasAction(rule', r, req'[r], a)
      BY <1>1, <2>1 DEF NoneLost
    <3>2. QED
      BY <3>1 DEF HasAction
  <2>2. CASE a \in action /\ ~ HasAction(rule, r, req[r], a)
    <3>1. CASE \E id \in DOMAIN rule : a = rule[id].action
      <4>1. PICK id \in DOMAIN rule : a = rule[id].action
        BY <3>1
      <4>2. id # req[r].id
        BY <2>2, <4>1 DEF HasAction
      <4>3. QED
        BY <1>3, <4>1, <4>2
    <3>2. CASE \E q \in Request : OwnAction(q, req[q], a)
      <4>1. PICK q \in Request : OwnAction(q, req[q], a)
        BY <3>2
      <4>2. q # r
        BY <2>2, <4>1 DEF HasAction
      <4>3. OwnAction(q, req'[q], a)
        BY <1>4, <4>1, <4>2
      <4>4. QED
        BY <4>3
    <3>3. QED
      BY <1>2, <2>2, <3>1, <3>2 DEF WInv, Orphans
  <2>3. QED
    BY <2>1, <2>2
<1>7. QED
  BY <1>5, <1>6

(* Statements of readers and writers that change no table                  *)
LEMMA QueriesOrphan ==
  ASSUME Before, Afterwards, WInv, NEW r \in Request, Stepped(r), Touched(r), Step(r),
         UNCHANGED <<rule, trigger, action>>, req'[r].pc # "failed",
         req[r].pc \notin {"insert_rows", "create_rule", "save_rule"},
         req[r].mode = "edit" => req[r].pc \notin {"delete_event", "delete_action"},
         req[r].mode = "delete" => req[r].pc # "delete_action"
  PROVE  NoneLost(r)
<1> DEFINE me == req[r]
           new == req'[r]
<1>1. new.id = me.id /\ new.mode = me.mode
  BY DEF Stepped
<1>2. DOMAIN req = Request /\ DOMAIN me = Fields /\ Placed(me)
  BY WhereTheyAre
<1>3. ASSUME me.mode = "edit" /\ me.pc \in {"get_rule", "fetch_rows"}
      PROVE  new.pc \in {"fetch_rows", "save_rule"}
  <2>1. GetRule(r) \/ FetchRows(r)
    BY <1>3 DEF Step, InsertRows, CreateRule, SaveRule, DeleteRule, FindRule, FetchEvent, FetchAction,
          DeleteEvent, DeleteAction, ListStates, DropState, StatesDropped, AddState, StatesAdded,
          ListRules, ReadRule, ReadStates, ReadAction, ListRows, TakeRule, CopyEvent, CopyAction,
          CopyStates, AllRead, Answer
  <2>2. ~ Fail(r)
    BY Failing
  <2>3. PICK row : Advance(r, [me EXCEPT !.row = row]) \/ Advance(r, me)
    BY <2>1, <2>2 DEF GetRule, FetchRows
  <2>4. DOMAIN [me EXCEPT !.row = row] = Fields
    BY <1>2
  <2>5. new.pc = Following(me.mode, me.pc)
    BY <1>2, <1>3, <2>3, <2>4, Advanced DEF Ended
  <2>6. QED
    BY <1>3, <2>5 DEF Following
<1>4. ASSUME me.mode = "delete" /\ me.pc = "fetch_action"
      PROVE  new.pc = "delete_action" /\ new.row = me.row
  <2>1. FetchAction(r)
    BY <1>4 DEF Step, InsertRows, CreateRule, SaveRule, DeleteRule, FindRule, FetchEvent, GetRule, FetchRows,
          DeleteEvent, DeleteAction, ListStates, DropState, StatesDropped, AddState, StatesAdded,
          ListRules, ReadRule, ReadStates, ReadAction, ListRows, TakeRule, CopyEvent, CopyAction,
          CopyStates, AllRead, Answer
  <2>2. ~ Fail(r)
    BY Failing
  <2>3. Advance(r, me)
    BY <2>1, <2>2 DEF FetchAction
  <2>4. new.pc = Following(me.mode, me.pc) /\ \A f \in Fields \ {"pc"} : new[f] = me[f]
    BY <1>2, <1>4, <2>3, Advanced DEF Ended
  <2>5. QED
    BY <1>4, <2>4 DEF Following, Fields
<1>5. ASSUME NEW t, HasTrigger(rule, r, me, t) PROVE HasTrigger(rule', r, new, t)
  <2>1. CASE OwnTrigger(r, me, t)
    <3>1. me.mode = "edit" /\ me.pc \in {"get_rule", "fetch_rows"} /\ t = <<r, 0>>
      BY <2>1 DEF OwnTrigger, Inserted
    <3>2. QED
      BY <1>1, <1>3, <3>1 DEF HasTrigger, OwnTrigger, Inserted
  <2>2. CASE ~ OwnTrigger(r, me, t)
    BY <1>1, <1>5, <2>2 DEF HasTrigger
  <2>3. QED
    BY <2>1, <2>2
<1>6. ASSUME NEW a, HasAction(rule, r, me, a) PROVE HasAction(rule', r, new, a)
  <2>1. CASE OwnAction(r, me, a)
    <3>1. CASE me.mode = "edit"
      <4>1. me.pc \in {"get_rule", "fetch_rows"} /\ a = r
        BY <2>1, <3>1 DEF OwnAction, Inserted
      <4>2. QED
        BY <1>1, <1>3, <3>1, <4>1 DEF HasAction, OwnAction, Inserted
    <3>2. CASE me.mode # "edit"
      <4>1. me.mode = "delete" /\ me.pc = "fetch_action" /\ a = me.row.action
        BY <2>1, <3>2 DEF OwnAction, Inserted
      <4>2. QED
        BY <1>1, <1>4, <4>1 DEF HasAction, OwnAction
    <3>3. QED
      BY <3>1, <3>2
  <2>2. CASE ~ OwnAction(r, me, a)
    BY <1>1, <1>6, <2>2 DEF HasAction
  <2>3. QED
    BY <2>1, <2>2
<1>7. QED
  BY <1>5, <1>6 DEF NoneLost

(* Statements that insert rows or put them into rules                      *)
LEMMA PutsOrphan ==
  ASSUME Before, Afterwards, WInv, NEW r \in Request, Stepped(r), Touched(r),
         req[r].alone, req'[r].pc # "failed",
         InsertRows(r) \/ CreateRule(r) \/ SaveRule(r) \/ AddState(r)
  PROVE  NoneLost(r)
<1> DEFINE me == req[r]
           new == req'[r]
<1>1. me.pc \in {"insert_rows", "create_rule", "save_rule", "add_states"}
  BY DEF InsertRows, CreateRule, SaveRule, AddState
<1>2. me.pc \in WriteWords
  BY <1>1 DEF WriteWords, CreateWords, EditWords
<1>3. /\ DOMAIN req = Request /\ DOMAIN me = Fields /\ Placed(me)
      /\ Lone(rule, action, r, me) /\ me.row \in ESRule
      /\ \A id \in DOMAIN rule : rule[id] \in ESRule
      /\ new.mode = me.mode
  BY <1>2, WriterKnown DEF Stepped
<1>4. CASE InsertRows(r)
  <2>1. /\ Advance(r, me) /\ me.pc = "insert_rows" /\ rule' = rule
        /\ trigger' = trigger \cup {<<r, 0>>} /\ action' = action \cup {r}
    BY <1>4 DEF InsertRows
  <2>2. new.pc = (IF me.mode = "create" THEN "create_rule" ELSE "get_rule") /\ new.id = me.id
    <3>1. new.pc = Following(me.mode, me.pc) /\ \A f \in Fields \ {"pc"} : new[f] = me[f]
      BY <1>3, <2>1, Advanced DEF Ended
    <3>2. QED
      BY <2>1, <3>1 DEF Following, Fields
  <2>3. Inserted(new)
    BY <1>3, <2>1, <2>2 DEF Inserted, Placed, ReadWords, CopyWords, DeleteWords
  <2>4. ~ Inserted(me)
    BY <2>1 DEF Inserted
  <2>5. QED
    BY <2>1, <2>2, <2>3, <2>4 DEF NoneLost, HasTrigger, HasAction, OwnTrigger, OwnAction
<1>5. CASE CreateRule(r)
  <2>1. /\ me.pc = "create_rule" /\ rule' = PutRule(next_id, Content(r, 0)) /\ next_id' = next_id + 1
        /\ trigger' = trigger /\ action' = action
    BY <1>5 DEF CreateRule
  <2>2. me.mode = "create" /\ me.id = 0 /\ new.id = next_id
    <3>1. me.mode = "create"
      BY <1>3, <2>1 DEF Placed, ReadWords, CopyWords, EditWords, DeleteWords
    <3>2. me.id = 0
      BY <2>1, <3>1, Owned DEF Own, ReqTyped, Unnamed
    <3>3. new.id = next_id
      BY <2>1 DEF Stepped
    <3>4. QED
      BY <3>1, <3>2, <3>3
  <2>3. me.id \notin DOMAIN rule
    <3>1. 0 \notin RuleIds
      BY RealIds DEF WInv, Typed, RuleIds
    <3>2. QED
      BY <2>2, <3>1 DEF WInv, Typed
  <2>4. /\ next_id \in DOMAIN rule' /\ rule'[next_id].Etrigger = <<r, 0>> /\ rule'[next_id].action = r
    BY <2>1 DEF PutRule, Content
  <2>5. QED
    BY <2>1, <2>2, <2>3, <2>4 DEF NoneLost, HasTrigger, HasAction, OwnTrigger, OwnAction
<1>6. CASE SaveRule(r)
  <2>1. /\ me.pc = "save_rule" /\ trigger' = trigger /\ action' = action
        /\ Advance(r, me)
    BY <1>6 DEF SaveRule
  <2>2. me.mode = "edit" /\ me.id \in DOMAIN rule /\ rule[me.id] = me.row
    BY <1>3, <2>1 DEF Lone, Placed, ReadWords, CopyWords, CreateWords, DeleteWords
  <2>3. rule' = PutRule(me.id, Saved(r, me.row))
    BY <1>6, <2>2 DEF SaveRule
  <2>4. /\ me.id \in DOMAIN rule' /\ rule'[me.id].Etrigger = <<r, 0>> /\ rule'[me.id].action = r
        /\ rule'[me.id].Striggers = me.row.Striggers
    BY <1>3, <2>3 DEF PutRule, Saved, ESRule
  <2>5. new.pc = "delete_event" /\ new.id = me.id /\ new.row = me.row
    BY <1>3, <2>1, Advanced DEF Ended, Following, Fields
  <2>6. ASSUME NEW t, HasTrigger(rule, r, me, t) PROVE HasTrigger(rule', r, new, t)
    <3>1. t = <<r, 0>> \/ t = me.row.Etrigger \/ t \in me.row.Striggers
      BY <2>1, <2>2, <2>6 DEF HasTrigger, OwnTrigger
    <3>2. QED
      BY <1>3, <2>2, <2>4, <2>5, <3>1 DEF HasTrigger, OwnTrigger
  <2>7. ASSUME NEW a, HasAction(rule, r, me, a) PROVE HasAction(rule', r, new, a)
    <3>1. a = r \/ a = me.row.action
      BY <2>1, <2>2, <2>7 DEF HasAction, OwnAction
    <3>2. QED
      BY <1>3, <2>2, <2>4, <2>5, <3>1 DEF HasAction, OwnAction
  <2>8. QED
    BY <2>1, <2>6, <2>7 DEF NoneLost
<1>7. CASE AddState(r)
  <2>1. me.pc = "add_states" /\ action' = action /\ trigger' = trigger \cup {<<r, me.added + 1>>}
    BY <1>7 DEF AddState
  <2>2. me.id \in DOMAIN rule
    BY <1>3, <2>1 DEF Lone, Placed, ReadWords, CopyWords, DeleteWords
  <2> DEFINE s_trig == <<r, me.added + 1>>
  <2>3. rule' = [rule EXCEPT ![me.id].Striggers = @ \cup {s_trig}] /\ new.id = me.id
    BY <1>7, <2>1, <2>2 DEF AddState, Stepped
  <2>4. trigger' = trigger \cup {s_trig}
    BY <2>1
  <2> HIDE DEF s_trig
  <2>5. /\ me.id \in DOMAIN rule' /\ rule'[me.id].Etrigger = rule[me.id].Etrigger
        /\ rule'[me.id].action = rule[me.id].action
        /\ rule'[me.id].Striggers = rule[me.id].Striggers \cup {s_trig}
    BY <1>3, <2>2, <2>3 DEF ESRule
  <2>6. \A t : ~ OwnTrigger(r, me, t) /\ ~ OwnAction(r, me, t)
    BY <2>1 DEF OwnTrigger, OwnAction, Inserted
  <2>7. QED
    BY <2>1, <2>3, <2>4, <2>5, <2>6 DEF NoneLost, HasTrigger, HasAction
<1>8. QED
  BY <1>4, <1>5, <1>6, <1>7

(* Statements that delete rows or take them out of rules                   *)
LEMMA DeletesOrphan ==
  ASSUME Before, Afterwards, WInv, NEW r \in Request, Stepped(r), Touched(r), Own(r)',
         req[r].alone, req'[r].pc # "failed",
         DeleteEvent(r) \/ DeleteAction(r) \/ DropState(r) \/ DeleteRule(r)
  PROVE  NoneLost(r)
<1> DEFINE me == req[r]
           new == req'[r]
<1>1. me.pc \in {"delete_event", "delete_action", "drop_states", "delete_rule"}
  BY DEF DeleteEvent, DeleteAction, DropState, DeleteRule
<1>2. me.pc \in WriteWords
  BY <1>1 DEF WriteWords, DeleteWords
<1>3. /\ DOMAIN req = Request /\ DOMAIN me = Fields /\ Placed(me)
      /\ Lone(rule, action, r, me) /\ me.row \in ESRule /\ me.row.Etrigger = <<me.row.action, 0>>
      /\ \A id \in DOMAIN rule : rule[id] \in ESRule /\ rule[id].Etrigger = <<rule[id].action, 0>>
      /\ new.mode = me.mode /\ new.id = me.id
  <2>1. new.mode = me.mode /\ new.id = me.id
    BY <1>1 DEF Stepped
  <2>2. QED
    BY <1>2, <2>1, WriterKnown
<1>4. me.mode \in {"edit", "delete"}
  BY <1>1, <1>3 DEF Placed, ReadWords, CopyWords, CreateWords
<1>5. me.mode = "edit" /\ me.pc \in {"delete_event", "delete_action"} =>
         \A id \in DOMAIN rule : rule[id].action # me.row.action
  BY DEF Before, DInv, OldGone, Replaced
<1>6. CASE DeleteEvent(r) /\ me.mode = "edit"
  <2>1. /\ me.pc = "delete_event" /\ Advance(r, me) /\ action' = action
        /\ DeleteTriggers({me.row.Etrigger})
    BY <1>6 DEF DeleteEvent
  <2>2. new.pc = "delete_action" /\ new.row = me.row
    <3>1. new.pc = Following(me.mode, me.pc) /\ \A f \in Fields \ {"pc"} : new[f] = me[f]
      BY <1>3, <2>1, Advanced DEF Ended
    <3>2. QED
      BY <1>6, <2>1, <3>1 DEF Following, Fields
  <2>3. me.id \in DOMAIN rule
    BY <1>3, <1>6, <2>1 DEF Lone
  <2>4. rule[me.id].Etrigger # me.row.Etrigger
    BY <1>3, <1>5, <1>6, <2>1, <2>3
  <2>5. /\ me.id \in DOMAIN rule' /\ trigger' = trigger \ {me.row.Etrigger}
        /\ rule'[me.id] = [rule[me.id] EXCEPT !.Striggers = @ \ {me.row.Etrigger}]
    BY <2>1, <2>3, <2>4 DEF DeleteTriggers
  <2>6. /\ rule'[me.id].Etrigger = rule[me.id].Etrigger /\ rule'[me.id].action = rule[me.id].action
        /\ rule'[me.id].Striggers = rule[me.id].Striggers \ {me.row.Etrigger}
    BY <1>3, <2>3, <2>5 DEF ESRule
  <2>7. ASSUME NEW t \in trigger', t \notin trigger \/ HasTrigger(rule, r, me, t)
        PROVE  HasTrigger(rule', r, new, t)
    <3>1. t \in trigger /\ t # me.row.Etrigger
      BY <2>5
    <3>2. ~ OwnTrigger(r, me, t)
      BY <2>1, <3>1 DEF OwnTrigger, Inserted
    <3>3. QED
      BY <1>3, <2>5, <2>6, <2>7, <3>1, <3>2 DEF HasTrigger
  <2>8. ASSUME NEW a, HasAction(rule, r, me, a) PROVE HasAction(rule', r, new, a)
    <3>1. a = me.row.action \/ a = rule[me.id].action
      BY <2>1, <2>8 DEF HasAction, OwnAction, Inserted
    <3>2. QED
      BY <1>3, <1>6, <2>2, <2>5, <2>6, <3>1 DEF HasAction, OwnAction
  <2>9. QED
    BY <2>1, <2>7, <2>8 DEF NoneLost
<1>7. CASE DeleteEvent(r) /\ me.mode = "delete"
  <2>1. /\ me.pc = "delete_event" /\ Advance(r, me) /\ action' = action
        /\ DeleteTriggers({me.row.Etrigger})
    BY <1>7 DEF DeleteEvent
  <2>2. new.pc = "fetch_action" /\ new.row = me.row
    <3>1. new.pc = Following(me.mode, me.pc) /\ \A f \in Fields \ {"pc"} : new[f] = me[f]
      BY <1>3, <2>1, Advanced DEF Ended
    <3>2. QED
      BY <1>7, <2>1, <3>1 DEF Following, Fields
  <2>3. /\ me.id \in DOMAIN rule /\ rule[me.id].action = me.row.action
        /\ rule[me.id].Striggers = {}
    BY <1>3, <1>7, <2>1 DEF Lone
  <2>4. rule[me.id].Etrigger = me.row.Etrigger /\ trigger' = trigger \ {me.row.Etrigger}
    BY <1>3, <2>1, <2>3 DEF DeleteTriggers
  <2>5. \A t : ~ OwnTrigger(r, me, t)
    BY <1>7, <2>1 DEF OwnTrigger, Inserted
  <2>6. \A t \in trigger' : t \in trigger /\ ~ HasTrigger(rule, r, me, t)
    BY <2>3, <2>4, <2>5 DEF HasTrigger
  <2>7. ASSUME NEW a, HasAction(rule, r, me, a) PROVE HasAction(rule', r, new, a)
    <3>1. a = me.row.action
      BY <1>7, <2>1, <2>3, <2>7 DEF HasAction, OwnAction, Inserted
    <3>2. QED
      BY <1>3, <1>7, <2>2, <3>1 DEF HasAction, OwnAction
  <2>8. QED
    BY <2>1, <2>6, <2>7 DEF NoneLost
<1>8. CASE DeleteAction(r) /\ me.mode = "edit"
  <2>1. me.pc = "delete_action" /\ trigger' = trigger /\ DeleteActions({me.row.action})
    BY <1>8 DEF DeleteAction
  <2>2. me.id \in DOMAIN rule
    BY <1>3, <1>8, <2>1 DEF Lone
  <2>3. me.id \in DOMAIN rule' /\ rule'[me.id] = rule[me.id] /\ action' = action \ {me.row.action}
    BY <1>5, <1>8, <2>1, <2>2 DEF DeleteActions, RestrictRules
  <2>4. \A t : ~ OwnTrigger(r, me, t) /\ (OwnAction(r, me, t) => t = me.row.action)
    BY <2>1 DEF OwnTrigger, OwnAction, Inserted
  <2>5. QED
    BY <1>3, <2>1, <2>2, <2>3, <2>4 DEF NoneLost, HasTrigger, HasAction
<1>9. CASE DeleteAction(r) /\ me.mode = "delete"
  <2>1. me.pc = "delete_action" /\ trigger' = trigger /\ DeleteActions({me.row.action})
    BY <1>9 DEF DeleteAction
  <2>2. me.id \notin DOMAIN rule
    BY <1>3, <1>9, <2>1 DEF Lone
  <2>3. action' = action \ {me.row.action}
    BY <2>1 DEF DeleteActions
  <2>4. \A t : ~ OwnTrigger(r, me, t) /\ (OwnAction(r, me, t) => t = me.row.action)
    BY <2>1 DEF OwnTrigger, OwnAction, Inserted
  <2>5. QED
    BY <2>1, <2>2, <2>3, <2>4 DEF NoneLost, HasTrigger, HasAction
<1>10. CASE DeleteRule(r)
  <2>1. me.pc = "delete_rule" /\ trigger' = trigger /\ action' = action
    BY <1>10 DEF DeleteRule
  <2>2. me.id \notin DOMAIN rule
    BY <1>3, <2>1 DEF Lone
  <2>3. \A t : ~ OwnTrigger(r, me, t) /\ ~ OwnAction(r, me, t)
    BY <2>1 DEF OwnTrigger, OwnAction, Inserted
  <2>4. QED
    BY <2>1, <2>2, <2>3 DEF NoneLost, HasTrigger, HasAction
<1>11. CASE DropState(r)
  <2>1. PICK st \in me.todo : DeleteTriggers({st})
    BY <1>11 DEF DropState
  <2>2. me.pc = "drop_states" /\ action' = action
    BY <1>11 DEF DropState
  <2>3. me.id \in DOMAIN rule
    BY <1>3, <1>4, <2>2 DEF Lone
  <2>4. rule[me.id].Etrigger # st
    <3>1. NoEvents(me.todo)
      BY Known DEF Before
    <3>2. QED
      BY <1>3, <2>1, <2>3, <3>1 DEF NoEvents
  <2>5. /\ me.id \in DOMAIN rule' /\ trigger' = trigger \ {st}
        /\ rule'[me.id] = [rule[me.id] EXCEPT !.Striggers = @ \ {st}]
    BY <2>1, <2>3, <2>4 DEF DeleteTriggers
  <2>6. /\ rule'[me.id].Etrigger = rule[me.id].Etrigger /\ rule'[me.id].action = rule[me.id].action
        /\ rule'[me.id].Striggers = rule[me.id].Striggers \ {st}
    BY <1>3, <2>3, <2>5 DEF ESRule
  <2>7. \A t : ~ OwnTrigger(r, me, t) /\ ~ OwnAction(r, me, t)
    BY <2>2 DEF OwnTrigger, OwnAction, Inserted
  <2>8. QED
    BY <1>3, <2>2, <2>5, <2>6, <2>7 DEF NoneLost, HasTrigger, HasAction
<1>12. QED
  BY <1>4, <1>6, <1>7, <1>8, <1>9, <1>10, <1>11

(* Every step leaves rows without a rule explained.                        *)
LEMMA AllOrphans ==
  ASSUME Before, Afterwards, WInv, NEW r \in Request, Step(r)
  PROVE  Orphans'
<1>1. Stepped(r) /\ Touched(r) /\ Own(r)'
  BY Stepping, Touching, AllKept DEF WInv
<1> SUFFICES ASSUME Clean' PROVE NoneLost(r)
  BY <1>1, NoneOrphaned
<1>2. req[r].alone /\ req'[r].pc # "failed"
  <2>1. req'[r].alone /\ req'[r].pc # "failed"
    BY DEF Clean
  <2>2. QED
    BY <1>1, <2>1 DEF Stepped
<1>3. CASE InsertRows(r) \/ CreateRule(r) \/ SaveRule(r) \/ AddState(r)
  BY <1>1, <1>2, <1>3, PutsOrphan
<1>4. CASE DeleteEvent(r) \/ DeleteAction(r) \/ DropState(r) \/ DeleteRule(r)
  BY <1>1, <1>2, <1>4, DeletesOrphan
<1>5. CASE \/ FindRule(r) \/ GetRule(r) \/ FetchRows(r) \/ FetchEvent(r) \/ FetchAction(r)
           \/ ListStates(r) \/ StatesDropped(r) \/ StatesAdded(r)
           \/ ListRules(r) \/ ReadRule(r) \/ ReadStates(r) \/ ReadAction(r)
           \/ ListRows(r) \/ TakeRule(r) \/ CopyEvent(r) \/ CopyAction(r) \/ CopyStates(r)
           \/ AllRead(r) \/ Answer(r)
  <2>1. /\ UNCHANGED <<rule, trigger, action>>
        /\ req[r].pc \notin {"insert_rows", "create_rule", "save_rule", "delete_event", "delete_action"}
    BY <1>5 DEF FindRule, GetRule, FetchRows, FetchEvent, FetchAction, ListStates, StatesDropped,
          StatesAdded, ListRules, ReadRule, ReadStates, ReadAction, ListRows, TakeRule, CopyEvent,
          CopyAction, CopyStates, AllRead, Answer, Tables
  <2>2. QED
    BY <1>1, <1>2, <2>1, QueriesOrphan
<1>6. QED
  BY <1>3, <1>4, <1>5, Zenon DEF Step
-----------------------------------------------------------------------------
(* A request arrives                                                       *)

(* What it changes of the requests: the new one knows nothing yet, the     *)
(* other writers of its rule are no longer alone, and readers know it.     *)
Fresh(me) ==
    /\ me.pc \in {"insert_rows", "find_rule", "list_rules", "list_rows"}
    /\ me.row = NoRow /\ me.added = 0
    /\ me.rows = {} /\ me.todo = {} /\ me.ids = {} /\ me.shown = {} /\ me.busy = {}
Noted == Fields \ {"alone", "busy"}
Marked(q, id) ==
    /\ \A f \in Noted : req'[q][f] = req[q][f]
    /\ req'[q].alone => req[q].alone /\ (q \in Writers(id) => id = 0)
    /\ ~ Writing(q) => req'[q].alone = req[q].alone
    /\ req'[q].busy = IF Reading(q) /\ id # 0 THEN req[q].busy \cup {id} ELSE req[q].busy

LEMMA Arriving ==
  ASSUME Before, Afterwards, NEW r \in Request, NEW mode \in Modes, NEW id, NEW n, Begin(r, mode, id, n)
  PROVE  /\ req[r].pc = "begin" /\ Fresh(req'[r])
         /\ req'[r].mode = mode /\ req'[r].id = id /\ req'[r].states = n
         /\ req'[r].pc = "insert_rows" <=> mode \in {"create", "edit"}
         /\ req'[r].pc = "find_rule" <=> mode = "delete"
         /\ req'[r].alone => id = 0 \/ Writers(id) = {}
         /\ \A q \in Request \ {r} : Marked(q, id)
         /\ UNCHANGED <<Tables, expected>>
<1> DEFINE others == IF id = 0 THEN {} ELSE Writers(id)
           begun == [NotBegun EXCEPT !.pc = Head(Script(mode)), !.mode = mode,
                        !.id = id, !.states = n, !.alone = (others = {})]
<1>1. /\ DOMAIN req = Request /\ DOMAIN req' = Request
      /\ req'[r] = begun
      /\ \A q \in Request \ {r} :
            req'[q] = IF q \in others THEN [req[q] EXCEPT !.alone = FALSE]
                      ELSE IF Reading(q) /\ id # 0 THEN [req[q] EXCEPT !.busy = @ \cup {id}]
                      ELSE req[q]
  BY Zenon DEF Begin, Before, IInv, ReqsPaired
<1>2. req[r].pc = "begin" /\ UNCHANGED <<Tables, expected>>
  BY DEF Begin
<1>3. /\ begun.pc = Head(Script(mode)) /\ begun.mode = mode /\ begun.id = id /\ begun.states = n
      /\ begun.alone <=> others = {}
      /\ begun.row = NoRow /\ begun.added = 0
      /\ begun.rows = {} /\ begun.todo = {} /\ begun.ids = {} /\ begun.shown = {} /\ begun.busy = {}
  BY DEF NotBegun
<1> HIDE DEF begun
<1>4. /\ mode = "create" => begun.pc = "insert_rows"
      /\ mode = "edit" => begun.pc = "insert_rows"
      /\ mode = "delete" => begun.pc = "find_rule"
      /\ mode = "read" => begun.pc = "list_rules"
      /\ mode = "copy" => begun.pc = "list_rows"
  BY <1>3 DEF Script, ReadScript, CopyScript, CreateScript, EditScript, DeleteScript
<1>5. /\ Fresh(begun)
      /\ begun.pc = "insert_rows" <=> mode \in {"create", "edit"}
      /\ begun.pc = "find_rule" <=> mode = "delete"
  BY <1>3, <1>4 DEF Fresh, Modes
<1>6. ASSUME NEW q \in Request \ {r} PROVE Marked(q, id)
  <2>1. DOMAIN req[q] = Fields
    BY DEF Before, IInv, ReqsPaired, ReqPaired
  <2>2. q \in others => Writing(q) /\ ~ Reading(q)
    BY DEF Writers, Writing
  <2>3. CASE q \in others
    <3>1. req'[q] = [req[q] EXCEPT !.alone = FALSE]
      BY <1>1, <2>3
    <3>2. req'[q].alone = FALSE /\ \A f \in Fields \ {"alone"} : req'[q][f] = req[q][f]
      BY <2>1, <3>1 DEF Fields
    <3>3. QED
      BY <2>2, <2>3, <3>2 DEF Marked, Noted, Fields
  <2>4. CASE q \notin others /\ Reading(q) /\ id # 0
    <3>1. req'[q] = [req[q] EXCEPT !.busy = @ \cup {id}]
      BY <1>1, <2>4
    <3>2. req'[q].busy = req[q].busy \cup {id} /\ \A f \in Fields \ {"busy"} : req'[q][f] = req[q][f]
      BY <2>1, <3>1 DEF Fields
    <3>3. QED
      BY <2>4, <3>2 DEF Marked, Noted, Fields
  <2>5. CASE q \notin others /\ ~ (Reading(q) /\ id # 0)
    <3>1. req'[q] = req[q]
      BY <1>1, <2>5
    <3>2. QED
      BY <2>5, <3>1 DEF Marked, Noted
  <2>6. QED
    BY <2>3, <2>4, <2>5
<1>7. QED
  BY <1>1, <1>2, <1>3, <1>5, <1>6

(* What the arrival of a request leaves as it is                           *)
LEMMA ArrivalKeeps ==
  ASSUME Before, Afterwards, WInv, NEW r \in Request, NEW mode \in Modes, NEW id \in 0..(next_id - 1),
         NEW n, Begin(r, mode, id, n)
  PROVE  /\ ~ Writing(r) /\ ~ Past(req[r])
         /\ \A q \in Request \ {r} : (Writing(q)' <=> Writing(q)) /\ (Reading(q)' <=> Reading(q))
         /\ \A q, i : Owner(req, q, i) => Owner(req', q, i)
         /\ \A i : Calm(i) /\ i # id => Calm(i)'
<1>1. /\ req[r].pc = "begin" /\ Fresh(req'[r])
      /\ req'[r].mode = mode /\ req'[r].id = id
      /\ \A q \in Request \ {r} : Marked(q, id)
      /\ UNCHANGED <<Tables, expected>>
  BY Arriving
<1>2. ~ Writing(r) /\ ~ Past(req[r])
  BY <1>1 DEF Writing, Past
<1>3. ASSUME NEW q \in Request \ {r}
      PROVE  /\ req'[q].pc = req[q].pc /\ req'[q].mode = req[q].mode /\ req'[q].id = req[q].id
             /\ Writing(q)' <=> Writing(q)
             /\ Reading(q)' <=> Reading(q)
  <2>1. req'[q].pc = req[q].pc /\ req'[q].mode = req[q].mode /\ req'[q].id = req[q].id
    BY <1>1 DEF Marked, Noted, Fields
  <2>2. QED
    BY <2>1 DEF Writing, Reading
<1>4. ASSUME NEW q, NEW i, Owner(req, q, i) PROVE Owner(req', q, i)
  <2>1. q # r
    BY <1>2, <1>4, RequestAssumption DEF Owner
  <2>2. QED
    BY <1>3, <1>4, <2>1 DEF Owner, Past
<1>5. ASSUME NEW i, Calm(i), i # id PROVE Calm(i)'
  <2>1. ASSUME NEW q \in Request, Writing(q)', req'[q].id = i PROVE FALSE
    <3>1. q # r
      BY <1>1, <1>5, <2>1
    <3>2. QED
      BY <1>3, <1>5, <2>1, <3>1 DEF Calm, Writers
  <2>2. rule' = rule
    BY <1>1 DEF Tables
  <2>3. QED
    BY <1>5, <2>1, <2>2 DEF Calm, Writers
<1>6. QED
  BY <1>2, <1>3, <1>4, <1>5

(* The requests there are keep what they have.                             *)
LEMMA ArrivalOthers ==
  ASSUME Before, Afterwards, WInv, NEW r \in Request, NEW mode \in Modes, NEW id \in 0..(next_id - 1),
         NEW n, Begin(r, mode, id, n), NEW q \in Request, q # r
  PROVE  Own(q)'
<1> DEFINE me == req[q]
           new == req'[q]
<1>1. Own(q) /\ Typed /\ Placed(me)
  BY Owned, WhereTheyAre DEF WInv
<1>2. Marked(q, id) /\ UNCHANGED <<Tables, expected>>
  BY Arriving
<1>3. /\ new.pc = me.pc /\ new.mode = me.mode /\ new.id = me.id /\ new.states = me.states
      /\ new.added = me.added /\ new.row = me.row /\ new.rows = me.rows /\ new.todo = me.todo
      /\ new.ids = me.ids /\ new.shown = me.shown /\ new.failed_at = me.failed_at
  BY <1>2 DEF Marked, Noted, Fields
<1>4. /\ Writing(q)' <=> Writing(q)
      /\ \A p, i : Owner(req, p, i) => Owner(req', p, i)
      /\ \A i : Calm(i) /\ i # id => Calm(i)'
  BY ArrivalKeeps
<1>5. rule' = rule /\ trigger' = trigger /\ action' = action /\ next_id' = next_id
  BY <1>2 DEF Tables
<1>6. id # 0 => id \in RuleIds
  BY <1>1, RealIds DEF Typed, RuleIds
<1>7. /\ new.busy = IF Reading(q) /\ id # 0 THEN me.busy \cup {id} ELSE me.busy
      /\ new.alone => me.alone
      /\ ~ Writing(q) => new.alone = me.alone
  BY <1>2 DEF Marked
<1> HIDE DEF new
<1>8. ReqTyped(req[q])'
  <2>1. RuleIds' = RuleIds
    BY <1>5 DEF RuleIds
  <2>2. Shown' = Shown
    BY <2>1 DEF Shown, ESRule
  <2>3. ReqTyped(me)
    BY <1>1 DEF Own
  <2>4. new.busy \subseteq RuleIds /\ (me.pc = "begin" => new.alone)
    BY <1>6, <1>7, <2>3 DEF ReqTyped, Writing
  <2>5. QED
    BY <1>3, <1>5, <2>1, <2>2, <2>3, <2>4 DEF ReqTyped, new
<1>9. Inserted(new) => <<q, 0>> \in trigger' /\ q \in action'
  BY <1>1, <1>3, <1>5 DEF Own, Inserted
<1>10. \A st \in new.todo : Owner(req', st[1], new.id)
  BY <1>1, <1>3, <1>4 DEF Own
<1>11. Writing(q)' /\ new.alone => Lone(rule', action', q, new)
  <2>1. SUFFICES ASSUME Writing(q)', new.alone PROVE Lone(rule', action', q, new)
    OBVIOUS
  <2>2. Lone(rule, action, q, me)
    BY <1>1, <1>4, <1>7, <2>1 DEF Own
  <2>3. QED
    BY <1>3, <1>5, <2>2 DEF Lone
<1>12. Reads(req[q])'
  <2>1. Reads(me) /\ Current(new) = Current(me)
    BY <1>1, <1>3, Zenon DEF Own, Current
  <2>2. CASE me.pc \in ReadWords \cup CopyWords
    <3>1. Reading(q)
      BY <2>2, QueryWords DEF Reading
    <3>2. ASSUME NEW i, Calm(i), i \notin new.busy PROVE Calm(i)'
      <4>1. 0 \notin DOMAIN rule
        BY <1>1, RealIds DEF Typed, RuleIds
      <4>2. i # id
        BY <1>7, <3>1, <3>2, <4>1 DEF Calm
      <4>3. QED
        BY <1>4, <3>2, <4>2
    <3>3. me.busy \subseteq new.busy
      BY <1>7
    <3>4. ASSUME NEW i \in new.ids \ new.busy PROVE Calm(i)'
      BY <1>3, <2>1, <3>2, <3>3 DEF Reads
    <3>5. ASSUME NEW read \in new.rows \cup new.shown, read.id \notin new.busy
          PROVE  Calm(read.id)' /\ read.row = rule'[read.id]
      BY <1>3, <1>5, <2>1, <3>2, <3>3, <3>5 DEF Reads
    <3>6. new.pc \in Midway =>
             /\ Current(new) \in new.ids
             /\ Current(new) \notin new.busy => new.row = rule'[Current(new)]
      BY <1>3, <1>5, <2>1, <3>3 DEF Reads
    <3>7. new.pc \notin ReadWords \cup CopyWords \/ new.pc \in {"list_rules", "list_rows"} =>
             new.ids = {} /\ new.rows = {} /\ new.shown = {}
      BY <1>3, <2>1 DEF Reads
    <3>8. QED
      BY <3>4, <3>5, <3>6, <3>7 DEF Reads, new
  <2>3. CASE me.pc \notin ReadWords \cup CopyWords
    <3>1. new.ids = {} /\ new.rows = {} /\ new.shown = {} /\ new.pc \notin Midway
      BY <1>3, <2>1, <2>3 DEF Reads, Midway, ReadWords, CopyWords
    <3>2. QED
      BY <3>1 DEF Reads, new
  <2>4. QED
    BY <2>2, <2>3
<1>13. FailureExplained(new)
  <2>1. FailureExplained(me)
    BY <1>1 DEF Own
  <2>2. me.busy \subseteq new.busy
    BY <1>7
  <2>3. QED
    BY <1>3, <1>7, <2>1, <2>2 DEF FailureExplained
<1>14. QED
  BY <1>8, <1>9, <1>10, <1>11, <1>12, <1>13 DEF Own, new

(* The new one knows nothing.                                              *)
LEMMA ArrivalOwn ==
  ASSUME Before, Afterwards, WInv, NEW r \in Request, NEW mode \in Modes, NEW id \in 0..(next_id - 1),
         NEW n \in 0..MaxState, Begin(r, mode, id, n)
  PROVE  Own(r)'
<1> DEFINE new == req'[r]
<1>1. /\ Fresh(new) /\ new.mode = mode /\ new.id = id /\ new.states = n
      /\ new.pc = "insert_rows" <=> mode \in {"create", "edit"}
      /\ new.pc = "find_rule" <=> mode = "delete"
      /\ UNCHANGED <<Tables, expected>>
  BY Arriving
<1>2. next_id' = next_id /\ next_id \in Nat \ {0}
  BY <1>1 DEF Tables, WInv, Typed
<1>3. IF mode \in {"edit", "delete"} THEN id # 0 ELSE id = 0
  <2>1. IF mode \in {"edit", "delete"} THEN id \in RuleIds ELSE id = 0
    BY DEF Begin
  <2>2. 0 \notin RuleIds
    BY <1>2, RealIds DEF RuleIds
  <2>3. QED
    BY <2>1, <2>2
<1> HIDE DEF new
<1>4. ReqTyped(req[r])'
  <2>1. /\ new.id \in 0..(next_id' - 1) /\ new.states \in 0..MaxState /\ new.added \in 0..new.states
        /\ new.added = 0
    BY <1>1, <1>2, RequestAssumption DEF Fresh
  <2>2. /\ new.mode \in Modes /\ (new.mode \in {"edit", "delete"} => new.id # 0)
        /\ new.mode = "create" => new.id = 0 /\ new.pc # "add_states"
    BY <1>1, <1>3 DEF Fresh
  <2>3. new.pc # "begin" /\ new.row \in ESRule /\ new.todo = {} /\ new.rows = {} /\ new.shown = {}
        /\ new.ids = {} /\ new.busy = {}
    BY <1>1, NoRowTyped DEF Fresh
  <2>4. QED
    BY <2>1, <2>2, <2>3 DEF ReqTyped, new
<1>5. ~ Inserted(new)
  BY <1>1 DEF Inserted, Fresh
<1>6. Lone(rule', action', r, new)
  BY <1>1 DEF Lone, Fresh
<1>7. Reads(req[r])'
  BY <1>1 DEF Reads, Midway, Fresh, new
<1>8. FailureExplained(new)
  BY <1>1 DEF FailureExplained, Fresh
<1>9. new.todo = {}
  BY <1>1 DEF Fresh
<1>10. QED
  BY <1>4, <1>5, <1>6, <1>7, <1>8, <1>9 DEF Own, new

(* The arrival of a request leaves everything right.                       *)
LEMMA ArrivalWhole ==
  ASSUME Before, Afterwards, WInv, NEW r \in Request, NEW mode \in Modes, NEW id \in 0..(next_id - 1),
         NEW n \in 0..MaxState, Begin(r, mode, id, n)
  PROVE  /\ \A q \in Request : Own(q)'
         /\ TablesRight' /\ Sole' /\ AsExpected' /\ ExpectedTyped' /\ Orphans'
<1>1. /\ req[r].pc = "begin" /\ Fresh(req'[r])
      /\ req'[r].mode = mode /\ req'[r].id = id /\ req'[r].states = n
      /\ req'[r].alone => id = 0 \/ Writers(id) = {}
      /\ \A q \in Request \ {r} : Marked(q, id)
      /\ UNCHANGED <<Tables, expected>>
  BY Arriving
<1>2. /\ ~ Writing(r) /\ ~ Past(req[r])
      /\ \A q \in Request \ {r} : Writing(q)' <=> Writing(q)
      /\ \A q, i : Owner(req, q, i) => Owner(req', q, i)
  BY ArrivalKeeps
<1>3. ASSUME NEW q \in Request \ {r}
      PROVE  /\ req'[q].pc = req[q].pc /\ req'[q].mode = req[q].mode /\ req'[q].id = req[q].id
             /\ req'[q].row = req[q].row
             /\ req'[q].alone => req[q].alone /\ (q \in Writers(id) => id = 0)
  BY <1>1 DEF Marked, Noted, Fields
<1>4. rule' = rule /\ trigger' = trigger /\ action' = action /\ next_id' = next_id /\ expected' = expected
  BY <1>1 DEF Tables
<1>5. RuleIds' = RuleIds
  BY <1>4 DEF RuleIds
<1>6. \A q \in Request : Own(q)'
  BY ArrivalOwn, ArrivalOthers
<1>7. TablesRight'
  <2>1. TablesRight
    BY TablesAre
  <2>2. ASSUME NEW i \in DOMAIN rule' PROVE RuleRight(i, rule'[i], trigger', action', req')
    BY <1>2, <1>4, <2>1 DEF TablesRight, RuleRight
  <2>3. QED
    BY <1>4, <1>5, <2>1, <2>2 DEF TablesRight
<1>8. Sole'
  <2> SUFFICES ASSUME NEW p \in Request, NEW q \in Request,
                      Writing(p)', req'[p].alone, req'[p].id # 0, Writing(q)', req'[q].id = req'[p].id
               PROVE  q = p
    BY DEF Sole
  <2>1. CASE p # r /\ q # r
    BY <1>2, <1>3, <2>1 DEF WInv, Sole
  <2>2. CASE p = r /\ q # r
    BY <1>1, <1>2, <1>3, <2>2 DEF Writers
  <2>3. CASE p # r /\ q = r
    <3>1. p \in Writers(id)
      BY <1>1, <1>2, <1>3, <2>3 DEF Writers
    <3>2. QED
      BY <1>1, <1>3, <2>3, <3>1
  <2>4. QED
    BY <2>1, <2>2, <2>3
<1>9. AsExpected'
  <2> SUFFICES ASSUME NEW i \in DOMAIN expected', \A w \in Writers(i)' : ~ Past(req'[w])
               PROVE  expected'[i] = Rows(rule', i)
    BY DEF AsExpected
  <2>1. ASSUME NEW w \in Writers(i) PROVE ~ Past(req[w])
    <3>1. w \in Request /\ Writing(w) /\ req[w].id = i /\ w # r
      BY <1>2 DEF Writers
    <3>2. w \in Writers(i)'
      BY <1>2, <1>3, <3>1 DEF Writers
    <3>3. QED
      BY <1>3, <3>1, <3>2 DEF Past
  <2>2. QED
    BY <1>4, <2>1 DEF WInv, AsExpected
<1>10. ExpectedTyped'
  BY <1>4, <1>5 DEF WInv, Typed, ExpectedTyped, ESRule
<1>11. Orphans'
  <2> SUFFICES ASSUME Clean'
               PROVE  /\ \A t \in trigger' :
                            \/ \E i \in DOMAIN rule' : t = rule'[i].Etrigger \/ t \in rule'[i].Striggers
                            \/ \E q \in Request : OwnTrigger(q, req'[q], t)
                      /\ \A a \in action' :
                            \/ \E i \in DOMAIN rule' : a = rule'[i].action
                            \/ \E q \in Request : OwnAction(q, req'[q], a)
    BY DEF Orphans, OwnTrigger, OwnAction, Inserted
  <2>1. Clean
    <3>1. req[r].alone /\ req[r].pc # "failed"
      BY <1>1, Owned DEF Own, ReqTyped
    <3>2. ASSUME NEW q \in Request \ {r} PROVE req[q].alone /\ req[q].pc # "failed"
      BY <1>3 DEF Clean
    <3>3. QED
      BY <3>1, <3>2 DEF Clean
  <2>2. \A t : ~ OwnTrigger(r, req[r], t) /\ ~ OwnAction(r, req[r], t)
    BY <1>1 DEF OwnTrigger, OwnAction, Inserted
  <2>3. \A q \in Request \ {r} : \A t :
           /\ OwnTrigger(q, req[q], t) => OwnTrigger(q, req'[q], t)
           /\ OwnAction(q, req[q], t) => OwnAction(q, req'[q], t)
    BY <1>3 DEF OwnTrigger, OwnAction, Inserted
  <2>4. /\ \A t \in trigger :
              \/ \E i \in DOMAIN rule : t = rule[i].Etrigger \/ t \in rule[i].Striggers
              \/ \E q \in Request \ {r} : OwnTrigger(q, req[q], t)
        /\ \A a \in action :
              \/ \E i \in DOMAIN rule : a = rule[i].action
              \/ \E q \in Request \ {r} : OwnAction(q, req[q], a)
    BY <2>1, <2>2 DEF WInv, Orphans
  <2>5. QED
    BY <1>4, <2>3, <2>4
<1>12. QED
  BY <1>6, <1>7, <1>8, <1>9, <1>10, <1>11
-----------------------------------------------------------------------------
(* The invariant                                                           *)

(* What is right of the requests and of the tables is all there is.        *)
LEMMA Assembled ==
  ASSUME \A r \in Request : Own(r)', TablesRight', Sole', AsExpected', ExpectedTyped', Orphans'
  PROVE  WInv'
<1>1. Typed'
  BY DEF Typed, TablesRight, RuleRight, ExpectedTyped, Own
<1>2. Keyed' /\ StatesOwned'
  BY DEF Keyed, StatesOwned, TablesRight, RuleRight, Own
<1>3. AloneFind' /\ ReadersRight' /\ FailuresExplained'
  BY DEF AloneFind, ReadersRight, FailuresExplained, Own
<1>4. QED
  BY <1>1, <1>2, <1>3 DEF WInv

(* Initially there is one rule, as it is expected to be.                   *)
LEMMA InitWhole == Init => WInv
<1> SUFFICES ASSUME Init PROVE WInv
  OBVIOUS
<1>1. PICK n \in 0..MaxState :
         /\ rule = <<Content(Earlier, n)>>
         /\ trigger = {<<Earlier, 0>>} \cup States(Earlier, n)
         /\ action = {Earlier} /\ next_id = 2
         /\ req = [r \in Request |-> NotBegun]
         /\ expected = <<{Content(Earlier, n)}>>
  BY DEF Init
<1> DEFINE row == Content(Earlier, n)
<1>2. row \in ESRule
  BY ContentTyped DEF Source
<1>3. /\ row.Etrigger = <<Earlier, 0>> /\ row.action = Earlier /\ row.Striggers = States(Earlier, n)
      /\ \A st \in States(Earlier, n) : st[1] = Earlier
  BY DEF Content, States
<1> HIDE DEF row
<1>4. /\ DOMAIN rule = {1} /\ rule[1] = row /\ DOMAIN expected = {1} /\ expected[1] = {row}
      /\ RuleIds = {1}
  BY <1>1 DEF RuleIds, row
<1>5. /\ NotBegun.pc = "begin" /\ NotBegun.mode = "read" /\ NotBegun.id = 0 /\ NotBegun.states = 0
      /\ NotBegun.added = 0 /\ NotBegun.row = NoRow /\ NotBegun.rows = {} /\ NotBegun.todo = {}
      /\ NotBegun.ids = {} /\ NotBegun.shown = {} /\ NotBegun.busy = {} /\ NotBegun.alone = TRUE
  BY DEF NotBegun
<1>6. /\ next_id \in Nat \ {0} /\ 0 \in 0..(next_id - 1) /\ 0 \in 0..MaxState /\ 0 \in 0..0
      /\ trigger \subseteq Trigger /\ action \subseteq Source
  BY <1>1, <1>2, <1>3, RequestAssumption DEF ESRule
<1>7. ASSUME NEW r \in Request
      PROVE  req[r] = NotBegun /\ ReqTyped(req[r]) /\ ~ Inserted(req[r]) /\ ~ Writing(r)
             /\ Reads(req[r]) /\ FailureExplained(req[r])
  <2>1. req[r] = NotBegun
    BY <1>1
  <2>2. ReqTyped(req[r])
    BY <1>5, <1>6, <2>1, NoRowTyped DEF ReqTyped, Modes, Unnamed, WriteWords, CreateWords, EditWords, DeleteWords
  <2>3. Reads(req[r])
    BY <1>5, <2>1 DEF Reads, Midway
  <2>4. QED
    BY <1>5, <2>1, <2>2, <2>3 DEF Inserted, Writing, FailureExplained
<1>8. Typed
  BY <1>2, <1>4, <1>6, <1>7 DEF Typed
<1>9. Keyed /\ StatesOwned
  <2>1. \A id \in DOMAIN rule : \A st \in rule[id].Striggers : Owner(req, st[1], id)
    BY <1>3, <1>4 DEF Owner
  <2>2. QED
    BY <1>1, <1>3, <1>4, <1>5, <1>7, <2>1 DEF Keyed, StatesOwned
<1>10. Sole /\ AloneFind /\ ReadersRight /\ FailuresExplained
  BY <1>7 DEF Sole, AloneFind, ReadersRight, FailuresExplained
<1>11. AsExpected
  BY <1>4 DEF AsExpected, Rows
<1>12. Orphans
  BY <1>1, <1>3, <1>4 DEF Orphans
<1>13. QED
  BY <1>8, <1>9, <1>10, <1>11, <1>12 DEF WInv

(* Nothing happens.                                                        *)
LEMMA StutterWhole == WInv /\ UNCHANGED vars => WInv'
<1> SUFFICES ASSUME WInv, UNCHANGED vars PROVE WInv'
  OBVIOUS
<1>1. /\ rule' = rule /\ trigger' = trigger /\ action' = action /\ next_id' = next_id /\ req' = req
      /\ expected' = expected
  BY DEF vars
<1>2. RuleIds' = RuleIds /\ Shown' = Shown
  BY <1>1 DEF RuleIds, Shown, ESRule
<1>3. \A r \in Request : Writing(r)' = Writing(r)
  BY <1>1 DEF Writing, Reading
<1>4. \A id : Writers(id)' = Writers(id)
  BY <1>1, <1>3 DEF Writers
<1>5. Typed'
  BY <1>1, <1>2 DEF WInv, Typed, ReqTyped, ESRule
<1>6. Keyed' /\ StatesOwned'
  BY <1>1 DEF WInv, Keyed, StatesOwned
<1>7. Sole' /\ AloneFind'
  BY <1>1, <1>3 DEF WInv, Sole, AloneFind
<1>8. AsExpected'
  BY <1>1, <1>4 DEF WInv, AsExpected
<1>9. ReadersRight'
  BY <1>1, <1>4 DEF WInv, ReadersRight, Reads, Calm
<1>10. FailuresExplained' /\ Orphans'
  BY <1>1 DEF WInv, FailuresExplained, Orphans, Clean
<1>11. QED
  BY <1>5, <1>6, <1>7, <1>8, <1>9, <1>10 DEF WInv

(* Every step keeps the invariant.                                         *)
LEMMA NextWhole == IInv /\ DInv /\ WInv /\ [Next]_vars => WInv'
<1> SUFFICES ASSUME IInv, DInv, WInv, [Next]_vars PROVE WInv'
  OBVIOUS
<1>1. Before /\ Afterwards
  BY NextPaired, NextOwned DEF Before, Afterwards
<1>2. CASE UNCHANGED vars
  BY <1>2, StutterWhole
<1>3. CASE Next
  <2>1. PICK r \in Request :
           \/ \E mode \in Modes, id \in 0..(next_id - 1), n \in 0..MaxState : Begin(r, mode, id, n)
           \/ Step(r)
    BY <1>3, Zenon DEF Next, Step
  <2>2. CASE Step(r)
    <3>1. Stepped(r)
      BY <1>1, <2>2, Stepping
    <3>2. (\A q \in Request : Own(q)') /\ TablesRight' /\ Sole'
      BY <1>1, <2>2, <3>1, AllKept, TablesKept, SoleKept
    <3>3. AsExpected' /\ ExpectedTyped' /\ Orphans'
      BY <1>1, <2>2, AllExpected, AllOrphans
    <3>4. QED
      BY <3>2, <3>3, Assembled
  <2>3. CASE \E mode \in Modes, id \in 0..(next_id - 1), n \in 0..MaxState : Begin(r, mode, id, n)
    <3>1. PICK mode \in Modes, id \in 0..(next_id - 1), n \in 0..MaxState : Begin(r, mode, id, n)
      BY <2>3
    <3>2. /\ \A q \in Request : Own(q)'
          /\ TablesRight' /\ Sole' /\ AsExpected' /\ ExpectedTyped' /\ Orphans'
      BY <1>1, <3>1, ArrivalWhole
    <3>3. QED
      BY <3>2, Assembled
  <2>4. QED
    BY <2>1, <2>2, <2>3
<1>4. QED
  BY <1>2, <1>3

(* It holds of every behaviour.                                            *)
LEMMA Always == Spec => [](IInv /\ DInv /\ WInv)
<1>1. Init => IInv /\ DInv /\ WInv
  BY InitPaired, InitOwned, InitWhole
<1>2. IInv /\ DInv /\ WInv /\ [Next]_vars => (IInv /\ DInv /\ WInv)'
  BY NextPaired, NextOwned, NextWhole
<1>3. QED
  BY <1>1, <1>2, PTL DEF Spec
-----------------------------------------------------------------------------
(* Theorems                                                                *)

(* Joining sequences loses no words.                                       *)
LEMMA JoinedRange ==
  ASSUME NEW S, NEW s \in Seq(S), NEW t \in Seq(S)
  PROVE  Range(s) \subseteq Range(s \o t) /\ Range(t) \subseteq Range(s \o t)
<1>1. /\ DOMAIN (s \o t) = 1 .. Len(s) + Len(t)
      /\ \A k \in 1 .. Len(s) : (s \o t)[k] = s[k]
      /\ \A k \in 1 .. Len(t) : (s \o t)[Len(s) + k] = t[k]
  BY Joined
<1>2. /\ DOMAIN s = 1 .. Len(s) /\ DOMAIN t = 1 .. Len(t) /\ Len(s) \in Nat /\ Len(t) \in Nat
  OBVIOUS
<1> DEFINE u == s \o t
<1> HIDE DEF u
<1>3. ASSUME NEW k \in DOMAIN s PROVE k \in DOMAIN u /\ u[k] = s[k]
  BY <1>1, <1>2 DEF u
<1>4. ASSUME NEW k \in DOMAIN t PROVE Len(s) + k \in DOMAIN u /\ u[Len(s) + k] = t[k]
  BY <1>1, <1>2 DEF u
<1>5. QED
  BY <1>3, <1>4 DEF Range, u

(* A request is at a word of its script.                                   *)
LEMMA PlacedInScript ==
  ASSUME NEW me, Placed(me)
  PROVE  me.pc \in {"begin", "done", "failed"} \cup Range(Script(me.mode))
<1>1. /\ ReadScript \in Seq(Words) /\ CreateScript \in Seq(Words) /\ EditScript \in Seq(Words)
      /\ DeleteScript \in Seq(Words)
  <2>1. CreateScript \in Seq(Words)
    BY DEF CreateScript, Words, CreateWords
  <2>2. EditScript \in Seq(Words)
    BY DEF EditScript, Words, EditWords
  <2>3. DeleteScript \in Seq(Words)
    BY DEF DeleteScript, Words, DeleteWords
  <2>4. QED
    BY <2>1, <2>2, <2>3, ReadSeq
<1>2. /\ Range(ReadScript) = ReadWords /\ Range(CopyScript) = CopyWords
      /\ Range(CreateScript) = CreateWords /\ Range(EditScript) = EditWords
      /\ Range(DeleteScript) = DeleteWords
  <2>1. Range(ReadScript) = ReadWords /\ Range(CopyScript) = CopyWords
    BY DEF Range, ReadScript, ReadWords, CopyScript, CopyWords
  <2>2. Range(CreateScript) = CreateWords
    BY DEF Range, CreateScript, CreateWords
  <2>3. Range(EditScript) = EditWords
    BY DEF Range, EditScript, EditWords
  <2>4. Range(DeleteScript) = DeleteWords
    BY DEF Range, DeleteScript, DeleteWords
  <2>5. QED
    BY <2>1, <2>2, <2>3, <2>4
<1>3. /\ CreateWords \cup ReadWords \subseteq Range(CreateScript \o ReadScript)
      /\ EditWords \cup ReadWords \subseteq Range(EditScript \o ReadScript)
      /\ DeleteWords \cup ReadWords \subseteq Range(DeleteScript \o ReadScript)
  BY <1>1, <1>2, JoinedRange
<1>4. CASE me.mode = "create"
  BY <1>3, <1>4 DEF Placed, Script
<1>5. CASE me.mode = "edit"
  BY <1>3, <1>5 DEF Placed, Script
<1>6. CASE me.mode = "delete"
  BY <1>3, <1>6 DEF Placed, Script
<1>7. CASE me.mode = "read"
  BY <1>2, <1>7 DEF Placed, Script
<1>8. CASE me.mode = "copy"
  BY <1>2, <1>8 DEF Placed, Script
<1>9. QED
  BY <1>4, <1>5, <1>6, <1>7, <1>8 DEF Placed

(* The foreign keys of the tables hold, and every request is in its script *)
(* with rows and ids there are (TypeOK).                                   *)
THEOREM TypeCorrect == Spec => []TypeOK
<1>1. IInv /\ DInv /\ WInv => TypeOK
  <2> SUFFICES ASSUME IInv, DInv, WInv PROVE TypeOK
    OBVIOUS
  <2>1. \A r \in Request : req[r].pc \in {"begin", "done", "failed"} \cup Range(Script(req[r].mode))
    BY PlacedInScript DEF DInv, ReqsSound, ReqSound
  <2>2. ASSUME NEW id \in DOMAIN rule
        PROVE  /\ rule[id] \in ESRule
               /\ rule[id].Striggers \cup {rule[id].Etrigger} \subseteq trigger
               /\ rule[id].action \in action
    BY DEF WInv, Typed, Keyed
  <2>3. ASSUME NEW r \in Request
        PROVE  /\ req[r].mode \in Modes /\ req[r].id \in 0..(next_id - 1) /\ req[r].row \in ESRule
               /\ req[r].rows \cup req[r].shown \subseteq Shown
               /\ req[r].todo \subseteq Trigger /\ req[r].ids \cup req[r].busy \subseteq RuleIds
    BY DEF WInv, Typed, ReqTyped
  <2>4. /\ DOMAIN rule \subseteq RuleIds /\ trigger \subseteq Trigger /\ action \subseteq Source
        /\ DOMAIN expected \subseteq RuleIds /\ \A id \in DOMAIN expected : expected[id] \subseteq ESRule
    BY DEF WInv, Typed
  <2>5. QED
    BY <2>1, <2>2, <2>3, <2>4 DEF TypeOK
<1>2. QED
  BY <1>1, Always, PTL

(* A write that is alone on its rule makes of it what it was asked to, for *)
(* any number of requests, and fails only when the rule it edits is gone;  *)
(* a reader fails only when a rule is written meanwhile (AloneWrites).     *)
THEOREM AloneWritesDone == Spec => []AloneWrites
<1>1. IInv /\ DInv /\ WInv => AloneWrites
  <2> SUFFICES ASSUME IInv, DInv, WInv PROVE AloneWrites
    OBVIOUS
  <2>1. AloneWritesWhole
    BY DEF WInv, AsExpected, Rows, AloneWritesWhole
  <2>2. AloneSucceeds /\ ReadersSucceed
    BY DEF WInv, FailuresExplained, FailureExplained, AloneSucceeds, ReadersSucceed
  <2>3. QED
    BY <2>1, <2>2 DEF AloneWrites
<1>2. QED
  BY <1>1, Always, PTL

(* What readers are shown and users are given is of one version of a rule, *)
(* and the rule as it is unless it was written meanwhile (ShownTrue).      *)
THEOREM ShownRules == Spec => []ShownTrue
<1>1. IInv /\ DInv /\ WInv => ShownTrue
  <2> SUFFICES ASSUME IInv, DInv, WInv PROVE ShownTrue
    OBVIOUS
  <2>1. ShownTogether
    BY DEF IInv, ReqsPaired, ReqPaired, Paired, ShownTogether
  <2>2. ShownWhole
    <3> SUFFICES ASSUME NEW r \in Request, NEW shown \in req[r].shown,
                        shown.id \in DOMAIN expected \ req[r].busy
                 PROVE  expected[shown.id] = {shown.row}
      BY DEF ShownWhole
    <3>1. Calm(shown.id) /\ shown.row = rule[shown.id]
      BY DEF WInv, ReadersRight, Reads
    <3>2. expected[shown.id] = Rows(rule, shown.id)
      BY <3>1 DEF WInv, AsExpected, Calm
    <3>3. QED
      BY <3>1, <3>2 DEF Calm, Rows
  <2>3. QED
    BY <2>1, <2>2 DEF ShownTrue
<1>2. QED
  BY <1>1, Always, PTL

(* As long as no request has failed or overlapped with another write to    *)
(* its rule, no row is left without a rule (OrphansExplained).             *)
THEOREM NoOrphans == Spec => []OrphansExplained
<1>1. IInv /\ DInv /\ WInv => OrphansExplained
  <2> SUFFICES ASSUME IInv, DInv, WInv,
                      \A r \in Request : ~ Writing(r) /\ req[r].alone /\ req[r].pc # "failed"
               PROVE  trigger = Referred /\ action = {rule[id].action : id \in DOMAIN rule}
    BY DEF OrphansExplained
  <2>1. Clean
    BY DEF Clean
  <2>2. ASSUME NEW r \in Request, NEW t PROVE ~ OwnTrigger(r, req[r], t) /\ ~ OwnAction(r, req[r], t)
    <3>1. Placed(req[r])
      BY DEF DInv, ReqsSound, ReqSound
    <3>2. req[r].pc \notin WriteWords
      BY <3>1, WritingWords, Zenon DEF Writing, Reading
    <3>3. QED
      BY <3>2 DEF OwnTrigger, OwnAction, Inserted, WriteWords, CreateWords, EditWords, DeleteWords
  <2>3. trigger \subseteq Referred /\ action \subseteq {rule[id].action : id \in DOMAIN rule}
    <3>1. /\ \A t \in trigger : \E id \in DOMAIN rule : t = rule[id].Etrigger \/ t \in rule[id].Striggers
          /\ \A a \in action : \E id \in DOMAIN rule : a = rule[id].action
      BY <2>1, <2>2 DEF WInv, Orphans
    <3>2. ASSUME NEW t \in trigger PROVE t \in Referred
      <4>1. PICK id \in DOMAIN rule : t = rule[id].Etrigger \/ t \in rule[id].Striggers
        BY <3>1
      <4>2. t \in rule[id].Striggers \cup {rule[id].Etrigger}
        BY <4>1
      <4>3. QED
        BY <4>2, Zenon DEF Referred
    <3>3. QED
      BY <3>1, <3>2
  <2>4. Referred \subseteq trigger /\ {rule[id].action : id \in DOMAIN rule} \subseteq action
    BY DEF WInv, Keyed, Referred
  <2>5. QED
    BY <2>3, <2>4
<1>2. QED
  BY <1>1, Always, PTL
=============================================================================
