--------------------------- MODULE RuleEditorProofs ---------------------------
(***************************************************************************)
(* Theorems about RuleEditor, for any devices, tasks and rules and for any *)
(* number of clicks and of calls in flight; and for any values about the   *)
(* forms of a clause (RuleTranslation).                                    *)
(***************************************************************************)
EXTENDS RuleEditor, SequenceTheorems, FiniteSetTheorems, WellFoundedInduction, TLAPS

IsSeq(s) == s \in Seq(Members(s))

(* Clauses and rows are of devices there are; and their parameters are of  *)
(* these devices, unless answers about parameters can have been mixed up   *)
(* (t, for tangled).                                                       *)
Of(c, t) == c.device \in DOMAIN Devices /\ c.par \in DOMAIN Devices /\ (t \/ c.par = c.device)
ClauseOK(c, t) == c = NoClause \/ Of(c, t)
StagedOK(st, t) ==
    /\ DOMAIN st = {"ifClause", "thenClause"}
    /\ IsSeq(st.ifClause) /\ Len(st.ifClause) <= MaxClauses
    /\ IsSeq(st.thenClause) /\ Len(st.thenClause) <= 1
    /\ \A c \in Members(st.ifClause) : ClauseOK(c, t)
    /\ \A c \in Members(st.thenClause) : c # NoClause /\ Of(c, t)
RuleOK(row, t) ==
    /\ row.loc \in Tasks /\ Of(row.Etrigger, t) /\ Of(row.action, t)
    /\ IsSeq(row.Striggers) /\ Len(row.Striggers) < MaxClauses
    /\ \A state \in Members(row.Striggers) : Of(state, t)

(* A call, and what it has brought                                         *)
CallFields == {"kind", "args", "answer", "live", "lost"}
AnswerOK(c, n, t) ==
    /\ c.kind = "rules" => c.answer.loc \in Tasks
    /\ c.kind \in {"rules", "delete"} => DOMAIN c.answer.rules \subseteq 1 .. (n - 1)
    /\ c.kind = "token" => c.answer.locid \in Tasks
    /\ c.kind = "full" => StagedOK(c.answer, t)
CallOK(c, n, t) ==
    /\ DOMAIN c = CallFields
    /\ c.kind \in Kinds /\ c.live \in BOOLEAN /\ c.lost \in BOOLEAN
    /\ c.kind = "new" => /\ StagedOK(c.args.rule, t)
                         /\ c.args.rule.ifClause # <<>> /\ c.args.rule.thenClause # <<>>
                         /\ c.args.id \in 0 .. (n - 1)
    /\ c.kind \in Choosing => c.args \in DOMAIN Devices
    /\ c.answer # NoAnswer => AnswerOK(c, n, t)

(* The clause that is being chosen is of the device whose parameters are   *)
(* asked for; and when the form is there, so is its parameter.             *)
ChosenOK(tb, t) ==
    tb.clause # NoClause =>
        /\ DOMAIN tb.clause = {"device", "par"}
        /\ tb.clause.device \in DOMAIN Devices
        /\ tb.page = "params" /\ tb.loaded => Of(tb.clause, t)
AskedOK(cs, tb, t) ==
    tb.clause # NoClause =>
        \A i \in InFlight(cs, Choosing) : t \/ cs[i].args = tb.clause.device
TabFields == {"page", "list", "current_loc", "staged", "editing", "editingRuleID",
              "stopLoadingEdit", "objectType", "objectIndex", "clause", "loaded"}
TabOK(tb, n, t) ==
    /\ DOMAIN tb = TabFields
    /\ tb.page \in Pages /\ DOMAIN tb.list \subseteq 1 .. (n - 1)
    /\ tb.current_loc \in Tasks \cup {-1}
    /\ tb.staged = NoRule \/ StagedOK(tb.staged, t)
    /\ tb.editing \in BOOLEAN /\ tb.loaded \in BOOLEAN /\ tb.objectIndex \in Nat
    /\ tb.editing => tb.editingRuleID \in 1 .. (n - 1)
    /\ ChosenOK(tb, t)

ServerOK ==
    /\ next_id \in 1 .. (MaxRules + 1) /\ DOMAIN rule \subseteq 1 .. (next_id - 1)
    /\ \A id \in DOMAIN rule : RuleOK(rule[id], tangled)
    /\ session \in Tasks /\ scenario \in Tasks /\ arriving \in Tasks \cup {0}
    /\ scenario = IF arriving = 0 THEN session ELSE arriving
    /\ tangled \in BOOLEAN /\ overlapped \in BOOLEAN
CallsOK(cs, n, t) ==
    /\ IsSeq(cs) /\ Len(cs) <= MaxCalls
    /\ \A i \in DOMAIN cs : CallOK(cs[i], n, t)

(* The calls that will save a rule, or make one (id 0)                     *)
Saving(cs, id) == {i \in DOMAIN cs : cs[i].kind = "new" /\ cs[i].answer = NoAnswer /\ cs[i].args.id = id}

TInv ==
    /\ ServerOK /\ TabOK(tab, next_id, tangled) /\ CallsOK(calls, next_id, tangled)
    /\ AskedOK(calls, tab, tangled)
    /\ next_id + Cardinality(Saving(calls, 0)) <= MaxRules + 1

(* A rule may still be saved by the calls in flight, and once more when it *)
(* is the one being edited.                                                *)
Editing(tb, id) == IF tb.editing /\ tb.editingRuleID = id THEN 1 ELSE 0
CInv ==
    /\ DOMAIN credit = 1 .. MaxRules
    /\ \A id \in 1 .. MaxRules :
          credit[id] \in Int /\ credit[id] >= Cardinality(Saving(calls, id)) + Editing(tab, id)

(* On the rules page, when the calls that concern the list came one after  *)
(* the other: the list is that of its task, or the only such call in flight*)
(* makes it so.                                                            *)
AllOf(r, loc) == [id \in {i \in DOMAIN r : r[i].loc = loc} |-> r[id]]
Relist(c, r, list, loc) ==
    /\ c.live /\ ~ c.lost
    /\ \/ c.kind = "rules" /\ (c.answer # NoAnswer => c.answer.rules = AllOf(r, c.answer.loc))
       \/ /\ c.kind = "delete" /\ c.answer = NoAnswer
          /\ list = AllOf(r, loc) /\ c.args.id \in DOMAIN list /\ c.args.loc = loc
       \/ c.kind = "delete" /\ c.answer # NoAnswer /\ c.answer.rules = AllOf(r, loc)
Alone(cs, r, list, loc) ==
    /\ \A i, j \in InFlight(cs, Listing) : i = j
    /\ \A i \in InFlight(cs, Listing) : Relist(cs[i], r, list, loc)
    /\ InFlight(cs, Listing) = {} => list = AllOf(r, loc)
SInv == tab.page = "rules" /\ ~ overlapped => Alone(calls, rule, tab.list, tab.current_loc)

-----------------------------------------------------------------------------
(* Sequences of calls                                                      *)

(* A call that is still in flight, of a page that may have been left       *)
Older(c, d) ==
    /\ DOMAIN c = CallFields
    /\ c.kind = d.kind /\ c.args = d.args /\ c.answer = d.answer
    /\ c.live \in {d.live, FALSE} /\ c.lost \in {d.lost, TRUE}
(* The calls cs are those of old, without some and without those at out.   *)
Kept(cs, old, out) ==
    /\ IsSeq(cs) /\ Len(cs) <= Len(old)
    /\ \E m \in [DOMAIN cs -> DOMAIN old \ out] :
          /\ \A k, l \in DOMAIN cs : m[k] = m[l] => k = l
          /\ \A k \in DOMAIN cs : Older(cs[k], old[m[k]])

(* What is a sequence is one of its members.                               *)
LEMMA SeqIs ==
  ASSUME NEW S, NEW s \in Seq(S)
  PROVE  IsSeq(s) /\ Len(s) \in Nat /\ DOMAIN s = 1 .. Len(s)
<1>1. Len(s) \in Nat /\ DOMAIN s = 1 .. Len(s) /\ s \in [1 .. Len(s) -> S]
  OBVIOUS
<1>2. s \in [1 .. Len(s) -> Members(s)]
  BY <1>1 DEF Members
<1>3. QED
  BY <1>1, <1>2 DEF IsSeq

(* Its length and its indices                                              *)
LEMMA SeqHas ==
  ASSUME NEW s, IsSeq(s)
  PROVE  Len(s) \in Nat /\ DOMAIN s = 1 .. Len(s) /\ s \in [1 .. Len(s) -> Members(s)]
  BY DEF IsSeq

(* A function on 1 .. n is a sequence.                                     *)
LEMMA SeqMade ==
  ASSUME NEW n \in Nat, NEW S, NEW s \in [1 .. n -> S]
  PROVE  IsSeq(s) /\ Len(s) = n /\ DOMAIN s = 1 .. n
<1>1. s \in Seq(S) /\ Len(s) = n
  OBVIOUS
<1>2. QED
  BY <1>1, SeqIs

(* RemoveAt leaves the others in their order.                              *)
LEMMA RemoveAtIs ==
  ASSUME NEW s, IsSeq(s), NEW i \in DOMAIN s
  PROVE  /\ IsSeq(RemoveAt(s, i)) /\ Len(RemoveAt(s, i)) = Len(s) - 1
         /\ DOMAIN RemoveAt(s, i) = 1 .. (Len(s) - 1)
         /\ \A k \in 1 .. (Len(s) - 1) : RemoveAt(s, i)[k] = s[IF k < i THEN k ELSE k + 1]
<1> DEFINE S == Members(s)  a == SubSeq(s, 1, i - 1)  b == SubSeq(s, i + 1, Len(s))
<1>1. s \in Seq(S) /\ Len(s) \in Nat /\ i \in 1 .. Len(s)
  BY SeqHas DEF IsSeq
<1>2. a \in Seq(S) /\ Len(a) = i - 1 /\ \A k \in 1 .. (i - 1) : a[k] = s[k]
  BY <1>1
<1>3. b \in Seq(S) /\ Len(b) = Len(s) - i /\ \A k \in 1 .. (Len(s) - i) : b[k] = s[i + k]
  BY <1>1
<1>4. RemoveAt(s, i) = a \o b
  BY DEF RemoveAt
<1> HIDE DEF S, a, b
<1>5. /\ a \o b \in Seq(S) /\ Len(a \o b) = Len(a) + Len(b)
      /\ \A k \in 1 .. (Len(a) + Len(b)) : (a \o b)[k] = IF k <= Len(a) THEN a[k] ELSE b[k - Len(a)]
  BY <1>2, <1>3, ConcatProperties
<1>6. Len(a) + Len(b) = Len(s) - 1 /\ Len(s) - 1 \in Nat
  BY <1>1, <1>2, <1>3
<1>8. \A k \in 1 .. (Len(s) - 1) : (a \o b)[k] = s[IF k < i THEN k ELSE k + 1]
  <2> SUFFICES ASSUME NEW k \in 1 .. (Len(s) - 1)
               PROVE  (a \o b)[k] = s[IF k < i THEN k ELSE k + 1]
    OBVIOUS
  <2>1. (a \o b)[k] = IF k <= i - 1 THEN a[k] ELSE b[k - (i - 1)]
    BY <1>2, <1>5, <1>6
  <2>2. CASE k < i
    <3>1. k \in 1 .. (i - 1)
      BY <1>1, <2>2
    <3>2. QED
      BY <1>2, <2>1, <2>2, <3>1
  <2>3. CASE ~ (k < i)
    <3>1. k - (i - 1) \in 1 .. (Len(s) - i) /\ ~ (k <= i - 1) /\ i + (k - (i - 1)) = k + 1
      BY <1>1, <2>3
    <3>2. b[k - (i - 1)] = s[i + (k - (i - 1))]
      BY <1>3, <3>1
    <3>3. QED
      BY <2>1, <2>3, <3>1, <3>2
  <2>4. QED
    BY <2>2, <2>3
<1>7. QED
  BY <1>4, <1>5, <1>6, <1>8, SeqIs

(* The members of a longer sequence                                        *)
LEMMA AppendIs ==
  ASSUME NEW s, IsSeq(s), NEW x
  PROVE  /\ IsSeq(Append(s, x)) /\ Len(Append(s, x)) = Len(s) + 1
         /\ DOMAIN Append(s, x) = 1 .. (Len(s) + 1)
         /\ \A k \in DOMAIN s : Append(s, x)[k] = s[k]
         /\ Append(s, x)[Len(s) + 1] = x
<1>1. s \in Seq(Members(s) \cup {x}) /\ Len(s) \in Nat /\ DOMAIN s = 1 .. Len(s)
  BY SeqHas
<1> DEFINE S == Members(s) \cup {x}
<1> HIDE DEF S
<1>2. s \in Seq(S) /\ x \in S
  BY <1>1 DEF S
<1>3. /\ Append(s, x) \in Seq(S) /\ Len(Append(s, x)) = Len(s) + 1
      /\ \A k \in 1 .. Len(s) : Append(s, x)[k] = s[k]
      /\ Append(s, x)[Len(s) + 1] = x
  BY <1>2
<1>4. IsSeq(Append(s, x)) /\ DOMAIN Append(s, x) = 1 .. Len(Append(s, x))
  BY <1>3, SeqIs
<1>5. QED
  BY <1>1, <1>3, <1>4

-----------------------------------------------------------------------------
(* Calls as they are                                                       *)
Proper(cs) ==
    /\ IsSeq(cs)
    /\ \A i \in DOMAIN cs : DOMAIN cs[i] = CallFields
LEMMA CallsProper ==
  ASSUME NEW cs, NEW n, NEW t, CallsOK(cs, n, t)
  PROVE  Proper(cs)
  BY DEF Proper, CallsOK, CallOK

(* Nothing happens to them.                                                *)
LEMMA KeptSame ==
  ASSUME NEW old, Proper(old)
  PROVE  Kept(old, old, {})
<1> DEFINE m == [k \in DOMAIN old |-> k]
<1>1. m \in [DOMAIN old -> DOMAIN old \ {}] /\ \A k \in DOMAIN old : m[k] = k
  OBVIOUS
<1>2. \A k \in DOMAIN old : Older(old[k], old[m[k]])
  BY DEF Older, Proper
<1>3. Len(old) <= Len(old)
  BY SeqHas DEF Proper
<1> HIDE DEF m
<1>4. QED
  BY <1>1, <1>2, <1>3 DEF Kept, Proper

(* One of them ends.                                                       *)
LEMMA KeptRemoved ==
  ASSUME NEW old, Proper(old), NEW i \in DOMAIN old
  PROVE  Kept(RemoveAt(old, i), old, {i})
<1> DEFINE cs == RemoveAt(old, i)
           m == [k \in DOMAIN cs |-> IF k < i THEN k ELSE k + 1]
<1>1. /\ IsSeq(cs) /\ Len(cs) = Len(old) - 1 /\ DOMAIN cs = 1 .. (Len(old) - 1)
      /\ \A k \in 1 .. (Len(old) - 1) : cs[k] = old[IF k < i THEN k ELSE k + 1]
  BY RemoveAtIs DEF Proper
<1>2. Len(old) \in Nat /\ DOMAIN old = 1 .. Len(old)
  BY SeqHas DEF Proper
<1> HIDE DEF cs
<1>3. m \in [DOMAIN cs -> DOMAIN old \ {i}] /\ \A k, l \in DOMAIN cs : m[k] = m[l] => k = l
  BY <1>1, <1>2
<1>4. \A k \in DOMAIN cs : Older(cs[k], old[m[k]])
  <2>1. \A k \in DOMAIN cs : cs[k] = old[m[k]] /\ m[k] \in DOMAIN old
    BY <1>1, <1>3
  <2> HIDE DEF m
  <2>2. \A k \in DOMAIN old : Older(old[k], old[k])
    BY DEF Older, Proper
  <2>3. QED
    BY <2>1, <2>2
<1> HIDE DEF m
<1>5. QED
  BY <1>1, <1>2, <1>3, <1>4 DEF Kept, cs

(* Their page is left.                                                     *)
LEMMA KeptLeft ==
  ASSUME NEW old, NEW out, NEW cs, Kept(cs, old, out)
  PROVE  Kept(Left(cs), old, out)
<1>1. PICK m \in [DOMAIN cs -> DOMAIN old \ out] :
          /\ \A k, l \in DOMAIN cs : m[k] = m[l] => k = l
          /\ \A k \in DOMAIN cs : Older(cs[k], old[m[k]])
  BY DEF Kept
<1>2. IsSeq(cs) /\ Len(cs) <= Len(old) /\ Len(cs) \in Nat /\ DOMAIN cs = 1 .. Len(cs)
  BY SeqHas DEF Kept
<1>3. Left(cs) \in [1 .. Len(cs) -> {[cs[i] EXCEPT !.live = FALSE] : i \in DOMAIN cs}]
  BY <1>2 DEF Left
<1>4. IsSeq(Left(cs)) /\ Len(Left(cs)) = Len(cs) /\ DOMAIN Left(cs) = DOMAIN cs
  BY <1>2, <1>3, SeqMade
<1>5. \A k \in DOMAIN cs : Older(Left(cs)[k], old[m[k]])
  <2> SUFFICES ASSUME NEW k \in DOMAIN cs
               PROVE  Older(Left(cs)[k], old[m[k]])
    OBVIOUS
  <2>1. Left(cs)[k] = [cs[k] EXCEPT !.live = FALSE]
    BY DEF Left
  <2>2. QED
    BY <1>1, <2>1 DEF Older, CallFields
<1>6. QED
  BY <1>1, <1>2, <1>4, <1>5 DEF Kept

(* The application is left.                                                *)
LEMMA KeptAbandoned ==
  ASSUME NEW old, Proper(old), NEW cs \in Abandoned(old)
  PROVE  Kept(cs, old, {})
<1> DEFINE sent == {i \in InFlight(old, {"new", "delete"}) : old[i].answer = NoAnswer}
<1>1. PICK is \in BoundedSeq(sent, Len(old)) :
          /\ \A k, l \in DOMAIN is : k < l => is[k] < is[l]
          /\ cs = [k \in DOMAIN is |-> [old[is[k]] EXCEPT !.live = FALSE, !.lost = TRUE]]
  BY DEF Abandoned
<1>2. sent \subseteq DOMAIN old
  BY DEF InFlight
<1>3. Len(old) \in Nat /\ DOMAIN old = 1 .. Len(old)
  BY SeqHas DEF Proper
<1>4. PICK n \in 0 .. Len(old) : is \in [1 .. n -> sent]
  BY <1>1 DEF BoundedSeq, SeqOf
<1> DEFINE S == {[old[i] EXCEPT !.live = FALSE, !.lost = TRUE] : i \in DOMAIN old}
<1> HIDE DEF sent
<1>5. n \in Nat /\ cs \in [1 .. n -> S] /\ DOMAIN cs = 1 .. n
  <2>1. n \in Nat /\ DOMAIN is = 1 .. n
    BY <1>3, <1>4
  <2>2. \A k \in 1 .. n : [old[is[k]] EXCEPT !.live = FALSE, !.lost = TRUE] \in S
    BY <1>2, <1>4
  <2>3. cs = [k \in 1 .. n |-> [old[is[k]] EXCEPT !.live = FALSE, !.lost = TRUE]]
    BY <1>1, <2>1
  <2> HIDE DEF S
  <2>4. QED
    BY <2>1, <2>2, <2>3
<1>6. IsSeq(cs) /\ Len(cs) = n
  BY <1>5, SeqMade
<1>7. is \in [DOMAIN cs -> DOMAIN old \ {}]
  BY <1>2, <1>4, <1>5
<1>8. \A k, l \in DOMAIN cs : is[k] = is[l] => k = l
  <2>1. \A k \in 1 .. n : is[k] \in Nat /\ k \in Int
    BY <1>2, <1>3, <1>4
  <2>2. \A k, l \in 1 .. n : k < l => is[k] < is[l]
    BY <1>1, <1>4
  <2>3. SUFFICES ASSUME NEW k \in 1 .. n, NEW l \in 1 .. n, is[k] = is[l], k # l
                 PROVE  FALSE
    BY <1>5
  <2>4. CASE k < l
    BY <2>1, <2>2, <2>3, <2>4
  <2>5. CASE l < k
    BY <2>1, <2>2, <2>3, <2>5
  <2>6. QED
    BY <2>1, <2>3, <2>4, <2>5
<1>9. \A k \in DOMAIN cs : Older(cs[k], old[is[k]])
  <2> SUFFICES ASSUME NEW k \in DOMAIN cs
               PROVE  Older(cs[k], old[is[k]])
    OBVIOUS
  <2>1. is[k] \in DOMAIN old
    BY <1>7
  <2>2. cs[k] = [old[is[k]] EXCEPT !.live = FALSE, !.lost = TRUE]
    BY <1>1, <1>4, <1>5
  <2>3. QED
    BY <2>1, <2>2 DEF Older, Proper, CallFields
<1>10. Len(cs) <= Len(old)
  BY <1>3, <1>4, <1>6
<1>11. QED
  BY <1>6, <1>7, <1>8, <1>9, <1>10 DEF Kept

-----------------------------------------------------------------------------
(* What is said of the calls stays true of those that are kept.            *)
LEMMA KeptOK ==
  ASSUME NEW old, NEW out, NEW cs, Kept(cs, old, out), NEW n, NEW t, CallsOK(old, n, t)
  PROVE  CallsOK(cs, n, t)
<1>1. PICK m \in [DOMAIN cs -> DOMAIN old \ out] : \A k \in DOMAIN cs : Older(cs[k], old[m[k]])
  BY DEF Kept
<1>2. \A k \in DOMAIN cs : CallOK(cs[k], n, t)
  <2> SUFFICES ASSUME NEW k \in DOMAIN cs
               PROVE  CallOK(cs[k], n, t)
    OBVIOUS
  <2>1. CallOK(old[m[k]], n, t) /\ Older(cs[k], old[m[k]])
    BY <1>1 DEF CallsOK
  <2>2. QED
    BY <2>1 DEF CallOK, AnswerOK, Older
<1>3. Len(cs) <= MaxCalls
  BY SeqHas, EditorAssumption DEF Kept, CallsOK
<1>4. QED
  BY <1>2, <1>3 DEF CallsOK, Kept

LEMMA KeptAsked ==
  ASSUME NEW old, NEW out, NEW cs, Kept(cs, old, out), NEW tb, NEW t, AskedOK(old, tb, t)
  PROVE  AskedOK(cs, tb, t)
<1>1. PICK m \in [DOMAIN cs -> DOMAIN old \ out] : \A k \in DOMAIN cs : Older(cs[k], old[m[k]])
  BY DEF Kept
<1>2. \A k \in InFlight(cs, Choosing) : m[k] \in InFlight(old, Choosing) /\ cs[k].args = old[m[k]].args
  BY <1>1 DEF InFlight, Older
<1>3. QED
  BY <1>2 DEF AskedOK

(* There are finitely many to save, and not more than before.              *)
LEMMA SavingFinite ==
  ASSUME NEW cs, IsSeq(cs), NEW id
  PROVE  IsFiniteSet(Saving(cs, id)) /\ Cardinality(Saving(cs, id)) \in Nat
<1>0. Len(cs) \in Nat /\ DOMAIN cs = 1 .. Len(cs)
  BY SeqHas
<1>1. IsFiniteSet(1 .. Len(cs)) /\ Saving(cs, id) \subseteq 1 .. Len(cs)
  BY <1>0, FS_Interval DEF Saving
<1>2. QED
  BY <1>1, FS_Subset, FS_CardinalityType

LEMMA KeptSaving ==
  ASSUME NEW old, IsSeq(old), NEW out, NEW cs, Kept(cs, old, out), NEW id
  PROVE  /\ Cardinality(Saving(cs, id)) <= Cardinality(Saving(old, id))
         /\ \A i \in out : i \in Saving(old, id) =>
                Cardinality(Saving(cs, id)) <= Cardinality(Saving(old, id)) - 1
<1>1. PICK m \in [DOMAIN cs -> DOMAIN old \ out] :
          /\ \A k, l \in DOMAIN cs : m[k] = m[l] => k = l
          /\ \A k \in DOMAIN cs : Older(cs[k], old[m[k]])
  BY DEF Kept
<1> DEFINE A == Saving(cs, id)  B == Saving(old, id) \ out  f == [k \in A |-> m[k]]
<1>2. IsFiniteSet(A) /\ IsFiniteSet(Saving(old, id))
      /\ Cardinality(A) \in Nat /\ Cardinality(Saving(old, id)) \in Nat
  BY SavingFinite DEF Kept
<1>3. \A k \in A : k \in DOMAIN cs /\ m[k] \in B
  BY <1>1 DEF Saving, Older
<1>4. \A k, l \in A : m[k] = m[l] => k = l
  BY <1>1, <1>3
<1> HIDE DEF A
<1>5. B \subseteq Saving(old, id) /\ IsFiniteSet(B)
  BY <1>2, FS_Subset
<1> HIDE DEF B
<1>6. f \in Injection(A, B)
  BY <1>3, <1>4 DEF Injection, IsInjective
<1>7. Cardinality(A) <= Cardinality(B)
  BY <1>2, <1>5, <1>6, FS_Injection
<1>8. Cardinality(B) \in Nat /\ Cardinality(B) <= Cardinality(Saving(old, id))
  BY <1>2, <1>5, FS_Subset, FS_CardinalityType
<1>9. ASSUME NEW i \in out, i \in Saving(old, id)
      PROVE  Cardinality(B) <= Cardinality(Saving(old, id)) - 1
  <2>1. B \subseteq Saving(old, id) \ {i}
    BY DEF B
  <2>2. Cardinality(Saving(old, id) \ {i}) = Cardinality(Saving(old, id)) - 1
        /\ IsFiniteSet(Saving(old, id) \ {i})
    BY <1>2, <1>9, FS_RemoveElement
  <2>3. QED
    BY <2>1, <2>2, FS_Subset
<1>10. QED
  BY <1>2, <1>7, <1>8, <1>9 DEF A
-----------------------------------------------------------------------------
(* What is true of fewer ids and untangled calls is true of more.          *)
LEMMA StagedMore ==
  ASSUME NEW st, NEW t, NEW t2, StagedOK(st, t), t => t2
  PROVE  StagedOK(st, t2)
<1>1. \A c : Of(c, t) => Of(c, t2)
  BY Zenon DEF Of
<1>2. \A c : ClauseOK(c, t) => ClauseOK(c, t2)
  BY <1>1, Zenon DEF ClauseOK
<1>3. QED
  BY <1>1, <1>2, Zenon DEF StagedOK

LEMMA RuleMore ==
  ASSUME NEW row, NEW t, NEW t2, RuleOK(row, t), t => t2
  PROVE  RuleOK(row, t2)
<1>1. \A c : Of(c, t) => Of(c, t2)
  BY Zenon DEF Of
<1>2. QED
  BY <1>1, Zenon DEF RuleOK

LEMMA CallMore ==
  ASSUME NEW c, NEW n \in Nat, NEW n2 \in Nat, n <= n2, NEW t, NEW t2, CallOK(c, n, t), t => t2
  PROVE  CallOK(c, n2, t2)
<1>1. 1 .. (n - 1) \subseteq 1 .. (n2 - 1) /\ 0 .. (n - 1) \subseteq 0 .. (n2 - 1)
  OBVIOUS
<1>2. ASSUME NEW st, StagedOK(st, t) PROVE StagedOK(st, t2)
  BY <1>2, StagedMore
<1>3. AnswerOK(c, n, t) => AnswerOK(c, n2, t2)
  BY <1>1, <1>2 DEF AnswerOK
<1>4. QED
  BY <1>1, <1>2, <1>3 DEF CallOK

LEMMA CallsMore ==
  ASSUME NEW cs, NEW n \in Nat, NEW n2 \in Nat, n <= n2, NEW t, NEW t2, CallsOK(cs, n, t), t => t2
  PROVE  CallsOK(cs, n2, t2)
<1>1. \A i \in DOMAIN cs : CallOK(cs[i], n2, t2)
  BY CallMore DEF CallsOK
<1>2. QED
  BY <1>1 DEF CallsOK

LEMMA TabMore ==
  ASSUME NEW tb, NEW n \in Nat, NEW n2 \in Nat, n <= n2, NEW t, NEW t2, TabOK(tb, n, t), t => t2
  PROVE  TabOK(tb, n2, t2)
<1>1. 1 .. (n - 1) \subseteq 1 .. (n2 - 1)
  OBVIOUS
<1>2. StagedOK(tb.staged, t) => StagedOK(tb.staged, t2)
  BY StagedMore
<1>3. ChosenOK(tb, t) => ChosenOK(tb, t2)
  BY Zenon DEF ChosenOK, Of
<1>4. QED
  BY <1>1, <1>2, <1>3 DEF TabOK

LEMMA AskedMore ==
  ASSUME NEW cs, NEW tb, NEW t, NEW t2, AskedOK(cs, tb, t), t => t2
  PROVE  AskedOK(cs, tb, t2)
  BY Zenon DEF AskedOK

-----------------------------------------------------------------------------
(* A call that is sent                                                     *)
LEMMA SavingAppend ==
  ASSUME NEW cs, IsSeq(cs), NEW call, NEW id
  PROVE  /\ ~ (call.kind = "new" /\ call.answer = NoAnswer /\ call.args.id = id) =>
               Saving(Append(cs, call), id) = Saving(cs, id)
         /\ call.kind = "new" /\ call.answer = NoAnswer /\ call.args.id = id =>
               Cardinality(Saving(Append(cs, call), id)) = Cardinality(Saving(cs, id)) + 1
<1>1. /\ Len(cs) \in Nat /\ DOMAIN cs = 1 .. Len(cs)
      /\ DOMAIN Append(cs, call) = 1 .. (Len(cs) + 1)
      /\ \A k \in DOMAIN cs : Append(cs, call)[k] = cs[k]
      /\ Append(cs, call)[Len(cs) + 1] = call
  BY SeqHas, AppendIs
<1> DEFINE new == Append(cs, call)
<1> HIDE DEF new
<1>2. 1 .. (Len(cs) + 1) = 1 .. Len(cs) \cup {Len(cs) + 1} /\ Len(cs) + 1 \notin 1 .. Len(cs)
  BY <1>1
<1>3. Saving(new, id) =
        Saving(cs, id) \cup
          {i \in {Len(cs) + 1} : call.kind = "new" /\ call.answer = NoAnswer /\ call.args.id = id}
  BY <1>1, <1>2 DEF Saving, new
<1>4. Len(cs) + 1 \notin Saving(cs, id)
  BY <1>1, <1>2 DEF Saving
<1>5. CASE call.kind = "new" /\ call.answer = NoAnswer /\ call.args.id = id
  <2>1. Saving(new, id) = Saving(cs, id) \cup {Len(cs) + 1}
    BY <1>3, <1>5
  <2>2. Cardinality(Saving(new, id)) = Cardinality(Saving(cs, id)) + 1
    BY <1>4, <2>1, SavingFinite, FS_AddElement
  <2>3. QED
    BY <1>5, <2>2 DEF new
<1>6. CASE ~ (call.kind = "new" /\ call.answer = NoAnswer /\ call.args.id = id)
  <2>1. Saving(new, id) = Saving(cs, id)
    BY <1>3, <1>6
  <2>2. QED
    BY <1>6, <2>1 DEF new
<1>7. QED
  BY <1>5, <1>6

(* Nothing but rules is saved by other calls.                              *)
LEMMA SavingOther ==
  ASSUME NEW old, IsSeq(old), NEW out, NEW cs, Kept(cs, old, out), NEW call, call.kind # "new", NEW id
  PROVE  /\ Cardinality(Saving(Append(cs, call), id)) <= Cardinality(Saving(old, id))
         /\ Cardinality(Saving(cs, id)) <= Cardinality(Saving(old, id))
  BY SavingAppend, KeptSaving DEF Kept

LEMMA SentOK ==
  ASSUME NEW cs, NEW n, NEW t, CallsOK(cs, n, t), Len(cs) < MaxCalls, NEW call, CallOK(call, n, t)
  PROVE  CallsOK(Append(cs, call), n, t)
<1>1. /\ Len(cs) \in Nat /\ DOMAIN cs = 1 .. Len(cs) /\ IsSeq(cs)
      /\ IsSeq(Append(cs, call)) /\ Len(Append(cs, call)) = Len(cs) + 1
      /\ DOMAIN Append(cs, call) = 1 .. (Len(cs) + 1)
      /\ \A k \in DOMAIN cs : Append(cs, call)[k] = cs[k]
      /\ Append(cs, call)[Len(cs) + 1] = call
  BY SeqHas, AppendIs DEF CallsOK
<1> DEFINE new == Append(cs, call)
<1>2. \A i \in DOMAIN new : CallOK(new[i], n, t)
  <2> SUFFICES ASSUME NEW i \in DOMAIN new
               PROVE  CallOK(new[i], n, t)
    OBVIOUS
  <2>1. CASE i \in DOMAIN cs
    BY <1>1, <2>1 DEF CallsOK
  <2>2. CASE i = Len(cs) + 1
    BY <1>1, <2>2
  <2>3. QED
    BY <1>1, <2>1, <2>2
<1>3. Len(cs) + 1 <= MaxCalls
  BY <1>1, EditorAssumption
<1>4. QED
  BY <1>1, <1>2, <1>3 DEF CallsOK

LEMMA SentAsked ==
  ASSUME NEW cs, IsSeq(cs), NEW tb, NEW t, AskedOK(cs, tb, t), NEW call,
         call.kind \in Choosing /\ tb.clause # NoClause => t \/ call.args = tb.clause.device
  PROVE  AskedOK(Append(cs, call), tb, t)
<1>1. /\ DOMAIN cs = 1 .. Len(cs) /\ Len(cs) \in Nat
      /\ DOMAIN Append(cs, call) = 1 .. (Len(cs) + 1)
      /\ \A k \in DOMAIN cs : Append(cs, call)[k] = cs[k]
      /\ Append(cs, call)[Len(cs) + 1] = call
  BY SeqHas, AppendIs
<1> DEFINE new == Append(cs, call)
<1> HIDE DEF new
<1>2. \A i \in DOMAIN new : (i \in DOMAIN cs /\ new[i] = cs[i]) \/ new[i] = call
  BY <1>1 DEF new
<1>3. AskedOK(new, tb, t)
  <2> SUFFICES ASSUME tb.clause # NoClause, NEW i \in InFlight(new, Choosing)
               PROVE  t \/ new[i].args = tb.clause.device
    BY DEF AskedOK
  <2>1. i \in DOMAIN new /\ new[i].kind \in Choosing
    BY DEF InFlight
  <2>2. CASE i \in DOMAIN cs /\ new[i] = cs[i]
    <3>1. i \in InFlight(cs, Choosing)
      BY <2>1, <2>2 DEF InFlight
    <3>2. QED
      BY <2>2, <3>1 DEF AskedOK
  <2>3. CASE new[i] = call
    BY <2>1, <2>3
  <2>4. QED
    BY <1>2, <2>1, <2>2, <2>3
<1>4. QED
  BY <1>3 DEF new

-----------------------------------------------------------------------------
(* Steps of the page: the server stays as it is.                           *)
LEMMA TParts ==
  ASSUME TInv
  PROVE  /\ next_id \in Nat /\ Proper(calls) /\ IsSeq(calls) /\ tangled \in BOOLEAN
         /\ TabOK(tab, next_id, tangled) /\ CallsOK(calls, next_id, tangled)
         /\ AskedOK(calls, tab, tangled) /\ ServerOK
         /\ Cardinality(Saving(calls, 0)) \in Nat
<1>1. next_id \in Nat
  BY EditorAssumption DEF TInv, ServerOK
<1>2. IsSeq(calls)
  BY DEF TInv, CallsOK
<1>3. QED
  BY <1>1, <1>2, CallsProper, SavingFinite DEF TInv, ServerOK

LEMMA ServerSame ==
  ASSUME ServerOK, UNCHANGED server, tangled' \in BOOLEAN, tangled => tangled', overlapped' \in BOOLEAN
  PROVE  ServerOK'
<1>1. \A id \in DOMAIN rule : RuleOK(rule[id], tangled')
  BY RuleMore DEF ServerOK
<1>2. QED
  BY <1>1 DEF ServerOK, server, RuleOK, Of

(* Nothing is sent.                                                        *)
LEMMA QuietOK ==
  ASSUME TInv, NEW out, NEW cs, Kept(cs, calls, out), Quiet(cs), UNCHANGED server,
         TabOK(tab', next_id, tangled), AskedOK(cs, tab', tangled)
  PROVE  TInv'
<1>1. calls' = cs /\ tangled' = tangled /\ overlapped' = overlapped /\ next_id' = next_id
  BY DEF Quiet, server
<1>2. ServerOK'
  BY <1>1, TParts, ServerSame DEF ServerOK
<1>3. CallsOK(cs, next_id, tangled)
  BY TParts, KeptOK
<1>4. Cardinality(Saving(cs, 0)) <= Cardinality(Saving(calls, 0)) /\ Cardinality(Saving(cs, 0)) \in Nat
  BY TParts, KeptSaving, SavingFinite DEF Kept
<1>5. next_id + Cardinality(Saving(cs, 0)) <= MaxRules + 1
  BY <1>4, TParts, EditorAssumption DEF TInv
<1>6. QED
  BY <1>1, <1>2, <1>3, <1>5 DEF TInv

(* Something is sent.                                                      *)
LEMMA SendTangles ==
  ASSUME TInv, NEW cs, NEW call, Send(cs, call)
  PROVE  /\ calls' = Append(cs, call) /\ Len(cs) < MaxCalls
         /\ tangled' \in BOOLEAN /\ (tangled => tangled') /\ overlapped' \in BOOLEAN
         /\ call.kind \in Choosing => \A i \in InFlight(cs, Choosing) : tangled' \/ cs[i].args = call.args
<1>1. tangled \in BOOLEAN /\ overlapped \in BOOLEAN
  BY DEF TInv, ServerOK
<1>2. QED
  BY <1>1 DEF Send

LEMMA SendOK ==
  ASSUME TInv, NEW out, NEW cs, Kept(cs, calls, out), NEW call, Send(cs, call), UNCHANGED server,
         TabOK(tab', next_id, tangled), AskedOK(cs, tab', tangled'),
         CallOK(call, next_id, tangled),
         call.kind \in Choosing /\ tab'.clause # NoClause => tangled' \/ call.args = tab'.clause.device,
         next_id + Cardinality(Saving(Append(cs, call), 0)) <= MaxRules + 1
  PROVE  TInv'
<1>1. /\ calls' = Append(cs, call) /\ Len(cs) < MaxCalls /\ next_id' = next_id
      /\ tangled' \in BOOLEAN /\ (tangled => tangled') /\ overlapped' \in BOOLEAN
  BY SendTangles DEF server
<1>2. ServerOK'
  BY <1>1, TParts, ServerSame
<1>3. CallsOK(Append(cs, call), next_id, tangled)
  BY <1>1, TParts, KeptOK, SentOK
<1>4. CallsOK(Append(cs, call), next_id, tangled')
  BY <1>1, <1>3, TParts, CallsMore
<1>5. AskedOK(Append(cs, call), tab', tangled')
  BY SentAsked DEF Kept
<1>6. TabOK(tab', next_id, tangled')
  BY <1>1, TParts, TabMore
<1>7. QED
  BY <1>1, <1>2, <1>4, <1>5, <1>6 DEF TInv

(* ... that saves no rule.                                                 *)
LEMMA SendOther ==
  ASSUME TInv, NEW out, NEW cs, Kept(cs, calls, out), NEW call, Send(cs, call), UNCHANGED server,
         TabOK(tab', next_id, tangled), AskedOK(cs, tab', tangled'),
         CallOK(call, next_id, tangled), call.kind # "new",
         call.kind \in Choosing /\ tab'.clause # NoClause => tangled' \/ call.args = tab'.clause.device
  PROVE  TInv'
<1>1. Cardinality(Saving(Append(cs, call), 0)) <= Cardinality(Saving(calls, 0))
  BY TParts, SavingOther
<1>2. IsSeq(Append(cs, call))
  BY AppendIs DEF Kept
<1>3. Cardinality(Saving(Append(cs, call), 0)) \in Nat
  BY <1>2, SavingFinite
<1>4. next_id + Cardinality(Saving(Append(cs, call), 0)) <= MaxRules + 1
  BY <1>1, <1>3, TParts, EditorAssumption DEF TInv
<1>5. QED
  BY <1>4, SendOK
-----------------------------------------------------------------------------
(* Pages                                                                   *)
LEMMA AskedSame ==
  ASSUME NEW cs, NEW tb, NEW tb2, NEW t, AskedOK(cs, tb, t), tb2.clause = tb.clause
  PROVE  AskedOK(cs, tb2, t)
  BY DEF AskedOK

LEMMA EnteredOK ==
  ASSUME NEW tb, NEW n, NEW t, TabOK(tb, n, t), NEW page \in Pages
  PROVE  /\ TabOK(Entered(tb, page), n, t)
         /\ Entered(tb, page).clause = tb.clause /\ Entered(tb, page).staged = tb.staged
         /\ Entered(tb, page).editing = tb.editing
         /\ Entered(tb, page).editingRuleID = tb.editingRuleID
         /\ Entered(tb, page).page = page
<1> DEFINE e == Entered(tb, page)
<1>1. DOMAIN NoRules = {}
  BY DEF NoRules
<1>2. DOMAIN tb = TabFields
  BY DEF TabOK
<1>3. /\ DOMAIN e = TabFields /\ e.page = page /\ e.list = NoRules /\ e.loaded = FALSE
      /\ e.current_loc = tb.current_loc /\ e.staged = tb.staged /\ e.editing = tb.editing
      /\ e.editingRuleID = tb.editingRuleID /\ e.objectIndex = tb.objectIndex
      /\ e.clause = tb.clause
  BY <1>2 DEF Entered, TabFields
<1> HIDE DEF e
<1>4. ChosenOK(e, t)
  BY <1>3 DEF TabOK, ChosenOK
<1>5. TabOK(e, n, t)
  BY <1>1, <1>3, <1>4 DEF TabOK
<1>6. QED
  BY <1>3, <1>5 DEF e

LEMMA StagedEmpty ==
  ASSUME NEW t
  PROVE  StagedOK([ifClause |-> <<>>, thenClause |-> <<>>], t)
<1>1. <<>> \in Seq({}) /\ Len(<<>>) = 0 /\ Members(<<>>) = {}
  BY DEF Members
<1>2. IsSeq(<<>>)
  BY <1>1 DEF IsSeq
<1>3. QED
  BY <1>1, <1>2, EditorAssumption DEF StagedOK

(* The staged rule is replaced.                                            *)
LEMMA StagedAnew ==
  ASSUME NEW tb, NEW n, NEW t, TabOK(tb, n, t), NEW st, st = NoRule \/ StagedOK(st, t)
  PROVE  /\ TabOK([tb EXCEPT !.staged = st], n, t)
         /\ [tb EXCEPT !.staged = st].clause = tb.clause
<1> DEFINE e == [tb EXCEPT !.staged = st]
<1>1. DOMAIN tb = TabFields
  BY DEF TabOK
<1>2. /\ DOMAIN e = TabFields /\ e.page = tb.page /\ e.list = tb.list /\ e.loaded = tb.loaded
      /\ e.current_loc = tb.current_loc /\ e.staged = st /\ e.editing = tb.editing
      /\ e.editingRuleID = tb.editingRuleID /\ e.objectIndex = tb.objectIndex
      /\ e.clause = tb.clause
  BY <1>1 DEF TabFields
<1> HIDE DEF e
<1>3. ChosenOK(e, t)
  BY <1>2 DEF TabOK, ChosenOK
<1>4. TabOK(e, n, t)
  BY <1>2, <1>3 DEF TabOK
<1>5. QED
  BY <1>2, <1>4 DEF e

(* What nothing is said of                                                 *)
LEMMA TabLike ==
  ASSUME NEW tb, NEW n, NEW t, TabOK(tb, n, t), NEW e,
         DOMAIN e = TabFields, e.page = tb.page, e.list = tb.list, e.loaded = tb.loaded,
         e.current_loc = tb.current_loc, e.staged = tb.staged, e.editing = tb.editing,
         e.editingRuleID = tb.editingRuleID, e.objectIndex = tb.objectIndex, e.clause = tb.clause
  PROVE  TabOK(e, n, t)
<1>1. ChosenOK(e, t)
  BY DEF TabOK, ChosenOK
<1>2. QED
  BY <1>1 DEF TabOK

(* The calls that pages send, but for that of a rule                       *)
LEMMA CallIs ==
  ASSUME NEW n, NEW t, NEW kind \in Kinds \ {"new"}, NEW args, NEW live \in BOOLEAN,
         kind \in Choosing => args \in DOMAIN Devices
  PROVE  /\ CallOK(Call(kind, args, live), n, t)
         /\ Call(kind, args, live).kind = kind /\ Call(kind, args, live).args = args
         /\ Call(kind, args, live).live = live /\ ~ Call(kind, args, live).lost
         /\ Call(kind, args, live).answer = NoAnswer
  BY DEF Call, CallOK, CallFields

LEMMA EnterRulesOK ==
  ASSUME TInv, NEW tb, TabOK(tb, next_id, tangled), NEW out, NEW cs, Kept(cs, calls, out),
         AskedOK(cs, tb, tangled), EnterRules(tb, cs), UNCHANGED server
  PROVE  TInv'
<1>1. Kept(Left(cs), calls, out)
  BY KeptLeft
<1> DEFINE call == RulesCall(TRUE)
<1>2. tab' = Entered(tb, "rules") /\ Send(Left(cs), call)
  BY DEF EnterRules
<1>3. CallOK(call, next_id, tangled) /\ call.kind = "rules"
  BY CallIs DEF RulesCall, Kinds, Choosing
<1>4. TabOK(tab', next_id, tangled) /\ tab'.clause = tb.clause
  BY <1>2, EnteredOK DEF Pages
<1>5. tangled => tangled'
  BY <1>2, SendTangles
<1>6. AskedOK(Left(cs), tab', tangled')
  <2>1. Kept(cs, cs, {}) => Kept(Left(cs), cs, {})
    BY KeptLeft
  <2>2. Proper(cs)
    BY TParts, KeptOK, CallsProper
  <2>3. AskedOK(Left(cs), tb, tangled)
    BY <2>1, <2>2, KeptSame, KeptAsked
  <2>4. QED
    BY <1>4, <1>5, <2>3, AskedSame, AskedMore
<1> HIDE DEF call
<1>7. QED
  BY <1>1, <1>2, <1>3, <1>4, <1>6, SendOther DEF Choosing

LEMMA LeftAsked ==
  ASSUME TInv, NEW out, NEW cs, Kept(cs, calls, out), NEW tb, NEW t, AskedOK(cs, tb, t)
  PROVE  AskedOK(Left(cs), tb, t)
<1>1. Proper(cs)
  BY TParts, KeptOK, CallsProper
<1>2. Kept(Left(cs), cs, {})
  BY <1>1, KeptSame, KeptLeft
<1>3. QED
  BY <1>2, KeptAsked

LEMMA EnterCreateOK ==
  ASSUME TInv, NEW tb, TabOK(tb, next_id, tangled), NEW out, NEW cs, Kept(cs, calls, out),
         AskedOK(cs, tb, tangled), EnterCreate(tb, cs), UNCHANGED server
  PROVE  TInv'
<1>1. Kept(Left(cs), calls, out)
  BY KeptLeft
<1> DEFINE e == Entered(tb, "create")
           f == [e EXCEPT !.stopLoadingEdit = TRUE, !.staged = Staged(@)]
<1>2. TabOK(e, next_id, tangled) /\ e.clause = tb.clause /\ e.staged = tb.staged
  BY EnteredOK DEF Pages
<1> HIDE DEF e
<1>3. Staged(e.staged) = NoRule \/ StagedOK(Staged(e.staged), tangled)
  BY <1>2, StagedEmpty DEF TabOK, Staged
<1> DEFINE g == [e EXCEPT !.staged = Staged(e.staged)]
<1>4. TabOK(g, next_id, tangled) /\ g.clause = tb.clause
  BY <1>2, <1>3, StagedAnew
<1>5. TabOK(f, next_id, tangled) /\ f.clause = tb.clause
  <2>1. DOMAIN e = TabFields
    BY <1>2 DEF TabOK
  <2>2. /\ DOMAIN f = TabFields /\ f.page = g.page /\ f.list = g.list /\ f.loaded = g.loaded
        /\ f.current_loc = g.current_loc /\ f.staged = g.staged /\ f.editing = g.editing
        /\ f.editingRuleID = g.editingRuleID /\ f.objectIndex = g.objectIndex
        /\ f.clause = g.clause
    <3> DEFINE h == [e EXCEPT !.stopLoadingEdit = TRUE]
    <3>1. /\ DOMAIN h = TabFields /\ h.page = e.page /\ h.list = e.list /\ h.loaded = e.loaded
          /\ h.current_loc = e.current_loc /\ h.staged = e.staged /\ h.editing = e.editing
          /\ h.editingRuleID = e.editingRuleID /\ h.objectIndex = e.objectIndex
          /\ h.clause = e.clause
      BY <2>1 DEF TabFields
    <3>2. f = [h EXCEPT !.staged = Staged(h.staged)]
      OBVIOUS
    <3> DEFINE st == Staged(e.staged)
    <3>3. f = [h EXCEPT !.staged = st] /\ g = [e EXCEPT !.staged = st]
      BY <3>1, <3>2
    <3> HIDE DEF h, f, g, st
    <3>4. /\ DOMAIN f = TabFields /\ f.page = e.page /\ f.list = e.list /\ f.loaded = e.loaded
          /\ f.current_loc = e.current_loc /\ f.staged = st /\ f.editing = e.editing
          /\ f.editingRuleID = e.editingRuleID /\ f.objectIndex = e.objectIndex
          /\ f.clause = e.clause
      BY <3>1, <3>3 DEF TabFields
    <3>5. /\ g.page = e.page /\ g.list = e.list /\ g.loaded = e.loaded
          /\ g.current_loc = e.current_loc /\ g.staged = st /\ g.editing = e.editing
          /\ g.editingRuleID = e.editingRuleID /\ g.objectIndex = e.objectIndex
          /\ g.clause = e.clause
      BY <2>1, <3>3 DEF TabFields
    <3>6. QED
      BY <3>4, <3>5
  <2> HIDE DEF f, g
  <2>3. QED
    BY <1>4, <2>2, TabLike
<1>6. tab' = f
  BY DEF EnterCreate, e
<1>7. AskedOK(Left(cs), f, tangled)
  BY <1>5, LeftAsked, AskedSame
<1> HIDE DEF f
<1>8. CASE Quiet(Left(cs))
  BY <1>1, <1>5, <1>6, <1>7, <1>8, QuietOK
<1>9. ASSUME NEW args, Send(Left(cs), Call("full", args, FALSE))
      PROVE  TInv'
  <2> DEFINE call == Call("full", args, FALSE)
  <2>1. CallOK(call, next_id, tangled) /\ call.kind = "full"
    BY CallIs DEF Kinds, Choosing
  <2>5. tangled => tangled'
    BY <1>9, SendTangles
  <2>2. AskedOK(Left(cs), f, tangled')
    BY <1>7, <2>5, AskedMore
  <2> HIDE DEF call
  <2>3. Send(Left(cs), call)
    BY <1>9 DEF call
  <2>4. QED
    BY <1>1, <1>5, <1>6, <2>1, <2>2, <2>3, SendOther DEF Choosing
<1>10. QED
  BY <1>8, <1>9 DEF EnterCreate
-----------------------------------------------------------------------------
(* The clicks                                                              *)
LEMMA OpenSiteT ==
  ASSUME TInv, OpenSite
  PROVE  TInv'
<1>1. PICK left \in Abandoned(calls) : Send(left, Call("token", [loc |-> "session"], FALSE))
  BY DEF OpenSite
<1> DEFINE call == Call("token", [loc |-> "session"], FALSE)
<1>2. Kept(left, calls, {})
  BY TParts, KeptAbandoned
<1>3. CallOK(call, next_id, tangled) /\ call.kind = "token"
  BY CallIs DEF Kinds, Choosing
<1>4. tab' = Loading("login") /\ UNCHANGED server
  BY DEF OpenSite
<1>5. DOMAIN NoRules = {}
  BY DEF NoRules
<1>6. TabOK(tab', next_id, tangled) /\ tab'.clause = NoClause
  BY <1>4, <1>5 DEF Loading, TabOK, TabFields, Pages, ChosenOK
<1>7. AskedOK(left, tab', tangled')
  BY <1>6 DEF AskedOK
<1>8. Send(left, call)
  BY <1>1
<1> HIDE DEF call
<1>9. QED
  BY <1>2, <1>3, <1>4, <1>6, <1>7, <1>8, SendOther DEF Choosing

LEMMA gotoCreateT ==
  ASSUME TInv, gotoCreate
  PROVE  TInv'
<1> DEFINE tb == [tab EXCEPT !.staged = NoRule]
<1>1. TabOK(tb, next_id, tangled) /\ tb.clause = tab.clause
  BY TParts, StagedAnew
<1>2. EnterCreate(tb, calls) /\ UNCHANGED server
  BY DEF gotoCreate
<1> HIDE DEF tb
<1>3. AskedOK(calls, tb, tangled)
  BY <1>1, TParts, AskedSame
<1>4. QED
  BY <1>1, <1>2, <1>3, TParts, KeptSame, EnterCreateOK

(* The rule that is edited                                                 *)
LEMMA EditedOK ==
  ASSUME NEW tb, NEW n, NEW t, TabOK(tb, n, t), NEW id \in 1 .. (n - 1)
  PROVE  LET e == [tb EXCEPT !.editingRuleID = id, !.editing = TRUE, !.stopLoadingEdit = FALSE]
         IN  /\ TabOK(e, n, t) /\ e.clause = tb.clause
             /\ e.editing = TRUE /\ e.editingRuleID = id
<1> DEFINE e == [tb EXCEPT !.editingRuleID = id, !.editing = TRUE, !.stopLoadingEdit = FALSE]
<1>1. DOMAIN tb = TabFields
  BY DEF TabOK
<1>2. /\ DOMAIN e = TabFields /\ e.page = tb.page /\ e.list = tb.list /\ e.loaded = tb.loaded
      /\ e.current_loc = tb.current_loc /\ e.staged = tb.staged /\ e.editing = TRUE
      /\ e.editingRuleID = id /\ e.objectIndex = tb.objectIndex /\ e.clause = tb.clause
  BY <1>1 DEF TabFields
<1> HIDE DEF e
<1>3. ChosenOK(e, t)
  BY <1>2 DEF TabOK, ChosenOK
<1>4. TabOK(e, n, t)
  BY <1>2, <1>3 DEF TabOK
<1>5. QED
  BY <1>2, <1>4 DEF e

LEMMA editRuleT ==
  ASSUME TInv, NEW id, editRule(id)
  PROVE  TInv'
<1> DEFINE tb == [tab EXCEPT !.editingRuleID = id, !.editing = TRUE, !.stopLoadingEdit = FALSE]
<1>1. TabOK(tab, next_id, tangled)
  BY TParts
<1>2. id \in 1 .. (next_id - 1)
  BY <1>1 DEF editRule, TabOK
<1>3. TabOK(tb, next_id, tangled) /\ tb.clause = tab.clause
  BY <1>1, <1>2, EditedOK
<1>4. EnterCreate(tb, calls) /\ UNCHANGED server
  BY DEF editRule
<1> HIDE DEF tb
<1>5. AskedOK(calls, tb, tangled)
  BY <1>3, TParts, AskedSame
<1>6. QED
  BY <1>3, <1>4, <1>5, TParts, KeptSame, EnterCreateOK

LEMMA deleteRuleT ==
  ASSUME TInv, NEW id, deleteRule(id)
  PROVE  TInv'
<1> DEFINE call == Call("delete", [id |-> id, loc |-> tab.current_loc], TRUE)
<1>1. CallOK(call, next_id, tangled) /\ call.kind = "delete"
  BY CallIs DEF Kinds, Choosing
<1>2. Send(calls, call) /\ UNCHANGED <<server, tab>>
  BY DEF deleteRule
<1> HIDE DEF call
<1>3. TabOK(tab', next_id, tangled)
  BY <1>2, TParts
<1>4. tangled => tangled'
  BY <1>2, SendTangles
<1>5. AskedOK(calls, tab', tangled')
  BY <1>2, <1>4, TParts, AskedMore
<1>6. UNCHANGED server
  BY <1>2
<1>7. QED
  BY <1>1, <1>2, <1>3, <1>5, <1>6, TParts, KeptSame, SendOther DEF Choosing

LEMMA goToRulesHomeT ==
  ASSUME TInv, goToRulesHome
  PROVE  TInv'
  BY TParts, KeptSame, EnterRulesOK DEF goToRulesHome

LEMMA reloadForRuleClearT ==
  ASSUME TInv, reloadForRuleClear
  PROVE  TInv'
<1> DEFINE st == Staged(NoRule)
           h == [tab EXCEPT !.stopLoadingEdit = TRUE]
           e == [h EXCEPT !.staged = st]
<1>1. StagedOK(st, tangled)
  BY StagedEmpty DEF Staged
<1>2. tab' = e /\ Send(Left(calls), RulesCall(FALSE)) /\ UNCHANGED server
  BY DEF reloadForRuleClear
<1>3. DOMAIN tab = TabFields
  BY TParts DEF TabOK
<1>4. TabOK(h, next_id, tangled) /\ h.clause = tab.clause
  <2>1. /\ DOMAIN h = TabFields /\ h.page = tab.page /\ h.list = tab.list /\ h.loaded = tab.loaded
        /\ h.current_loc = tab.current_loc /\ h.staged = tab.staged /\ h.editing = tab.editing
        /\ h.editingRuleID = tab.editingRuleID /\ h.objectIndex = tab.objectIndex
        /\ h.clause = tab.clause
    BY <1>3 DEF TabFields
  <2> HIDE DEF h
  <2>2. QED
    BY <2>1, TParts, TabLike
<1> HIDE DEF st, h
<1>5. TabOK(e, next_id, tangled) /\ e.clause = tab.clause
  BY <1>1, <1>4, StagedAnew
<1> HIDE DEF e
<1> DEFINE call == RulesCall(FALSE)
<1>6. CallOK(call, next_id, tangled) /\ call.kind = "rules"
  BY CallIs DEF RulesCall, Kinds, Choosing
<1>7. tangled => tangled'
  BY <1>2, SendTangles
<1>8. Kept(calls, calls, {}) /\ Kept(Left(calls), calls, {})
  BY TParts, KeptSame, KeptLeft
<1>9. AskedOK(Left(calls), tab', tangled')
  <2>1. AskedOK(Left(calls), tab, tangled)
    BY <1>8, TParts, LeftAsked
  <2>2. AskedOK(Left(calls), e, tangled)
    BY <2>1, <1>5, AskedSame
  <2>3. QED
    BY <1>2, <1>7, <2>2, AskedMore
<1>10. Send(Left(calls), call)
  BY <1>2
<1>11. TabOK(tab', next_id, tangled)
  BY <1>2, <1>5
<1> HIDE DEF call
<1>12. QED
  BY <1>2, <1>6, <1>8, <1>9, <1>10, <1>11, SendOther DEF Choosing

LEMMA SelectOK ==
  ASSUME TInv, NEW e, DOMAIN e = TabFields,
         e.page = "select", e.list = NoRules, e.loaded \in BOOLEAN,
         e.current_loc = tab.current_loc, e.staged = tab.staged, e.editing = tab.editing,
         e.editingRuleID = tab.editingRuleID, e.objectIndex \in Nat, e.clause = tab.clause
  PROVE  TabOK(e, next_id, tangled)
<1>1. DOMAIN NoRules = {}
  BY DEF NoRules
<1>2. TabOK(tab, next_id, tangled)
  BY TParts
<1>3. ChosenOK(e, tangled)
  BY <1>2 DEF TabOK, ChosenOK
<1>4. QED
  BY <1>1, <1>2, <1>3 DEF TabOK, Pages

LEMMA EnteredSelectIs ==
  ASSUME TInv
  PROVE  /\ DOMAIN EnteredSelect = TabFields /\ EnteredSelect.page = "select"
         /\ EnteredSelect.list = NoRules /\ EnteredSelect.loaded \in BOOLEAN
         /\ EnteredSelect.current_loc = tab.current_loc /\ EnteredSelect.staged = tab.staged
         /\ EnteredSelect.editing = tab.editing /\ EnteredSelect.editingRuleID = tab.editingRuleID
         /\ EnteredSelect.objectIndex = tab.objectIndex /\ tab.objectIndex \in Nat
         /\ EnteredSelect.clause = tab.clause
<1>1. DOMAIN tab = TabFields /\ tab.objectIndex \in Nat
  BY TParts DEF TabOK
<1> DEFINE b == check_access_to_location(tab.current_loc)
<1>2. b \in BOOLEAN
  BY DEF check_access_to_location
<1> HIDE DEF b
<1>3. EnteredSelect = [[tab EXCEPT !.page = "select", !.list = NoRules, !.loaded = FALSE]
                          EXCEPT !.loaded = b]
  BY DEF EnteredSelect, Entered, b
<1>4. QED
  BY <1>1, <1>2, <1>3 DEF TabFields

LEMMA LeftQuiet ==
  ASSUME TInv, Quiet(Left(calls)), UNCHANGED server, TabOK(tab', next_id, tangled),
         tab'.clause = tab.clause
  PROVE  TInv'
<1>1. Kept(calls, calls, {}) /\ Kept(Left(calls), calls, {})
  BY TParts, KeptSame, KeptLeft
<1>2. AskedOK(Left(calls), tab, tangled)
  BY <1>1, TParts, LeftAsked
<1>3. AskedOK(Left(calls), tab', tangled)
  BY <1>2, AskedSame
<1>4. QED
  BY <1>1, <1>3, QuietOK

LEMMA gotoZoneSelectorT ==
  ASSUME TInv, NEW type, NEW index \in Nat, gotoZoneSelector(type, index)
  PROVE  TInv'
<1> DEFINE s == EnteredSelect  e == [s EXCEPT !.objectType = type, !.objectIndex = index]
<1>1. tab' = e /\ Quiet(Left(calls)) /\ UNCHANGED server
  BY DEF gotoZoneSelector
<1>2. /\ DOMAIN s = TabFields /\ s.page = "select" /\ s.list = NoRules /\ s.loaded \in BOOLEAN
      /\ s.current_loc = tab.current_loc /\ s.staged = tab.staged /\ s.editing = tab.editing
      /\ s.editingRuleID = tab.editingRuleID /\ s.clause = tab.clause
  BY EnteredSelectIs
<1> HIDE DEF s
<1>3. /\ DOMAIN e = TabFields /\ e.page = "select" /\ e.list = NoRules /\ e.loaded \in BOOLEAN
      /\ e.current_loc = tab.current_loc /\ e.staged = tab.staged /\ e.editing = tab.editing
      /\ e.editingRuleID = tab.editingRuleID /\ e.clause = tab.clause /\ e.objectIndex = index
  BY <1>2 DEF TabFields
<1> HIDE DEF e
<1>4. TabOK(e, next_id, tangled)
  BY <1>3, SelectOK
<1>5. QED
  BY <1>1, <1>3, <1>4, LeftQuiet

(* The clause is replaced, or ended.                                       *)
LEMMA ClauseSet ==
  ASSUME NEW tb, NEW n, NEW t, TabOK(tb, n, t), NEW c,
         c # NoClause => DOMAIN c = {"device", "par"} /\ c.device \in DOMAIN Devices,
         c # NoClause /\ tb.page = "params" => Of(c, t),
         NEW e, e = [tb EXCEPT !.clause = c]
  PROVE  TabOK(e, n, t) /\ e.clause = c /\ e.staged = tb.staged
<1>1. DOMAIN tb = TabFields
  BY DEF TabOK
<1>2. /\ DOMAIN e = TabFields /\ e.page = tb.page /\ e.list = tb.list /\ e.loaded = tb.loaded
      /\ e.current_loc = tb.current_loc /\ e.staged = tb.staged /\ e.editing = tb.editing
      /\ e.editingRuleID = tb.editingRuleID /\ e.objectIndex = tb.objectIndex /\ e.clause = c
  BY <1>1 DEF TabFields
<1>3. ChosenOK(e, t)
  BY <1>2 DEF ChosenOK
<1>4. QED
  BY <1>2, <1>3 DEF TabOK

LEMMA gotoParameterConfigurationT ==
  ASSUME TInv, NEW device, gotoParameterConfiguration(device)
  PROVE  TInv'
<1> DEFINE c == [device |-> device, par |-> 0]
           call == Call("params", device, FALSE)
<1>1. device \in DOMAIN Devices /\ tab.page = "select"
  BY DEF gotoParameterConfiguration, OfferedDevices
<1>2. tab' = [tab EXCEPT !.clause = c] /\ Send(calls, call) /\ UNCHANGED server
  BY DEF gotoParameterConfiguration, Selected
<1>3. CallOK(call, next_id, tangled) /\ call.kind = "params" /\ call.args = device
  <2>1. "params" \in Kinds \ {"new"}
    BY DEF Kinds
  <2>2. \A args : Call("params", args, FALSE).kind = "params"
                  /\ Call("params", args, FALSE).args = args
    BY DEF Call
  <2>3. FALSE \in BOOLEAN
    OBVIOUS
  <2>4. CallOK(call, next_id, tangled)
    BY <1>1, <2>1, <2>3, CallIs
  <2>5. QED
    BY <2>2, <2>4
<1>4. TabOK(tab, next_id, tangled)
  BY TParts
<1>5. DOMAIN c = {"device", "par"} /\ c.device = device /\ c # NoClause
  BY DEF NoClause
<1> HIDE DEF c, call
<1>8. TabOK(tab', next_id, tangled) /\ tab'.clause = c
  BY <1>1, <1>2, <1>4, <1>5, ClauseSet
<1>9. \A i \in InFlight(calls, Choosing) : tangled' \/ calls[i].args = device
  BY <1>2, <1>3, SendTangles DEF Choosing
<1>10. AskedOK(calls, tab', tangled')
  BY <1>5, <1>8, <1>9 DEF AskedOK
<1>11. QED
  BY <1>2, <1>3, <1>5, <1>8, <1>10, TParts, KeptSame, SendOther

LEMMA BackT ==
  ASSUME TInv, Back
  PROVE  TInv'
<1>1. CASE EnterCreate(tab, calls) /\ UNCHANGED server
  BY <1>1, TParts, KeptSame, EnterCreateOK
<1>2. CASE tab' = EnteredSelect /\ Quiet(Left(calls)) /\ UNCHANGED server
  <2>1. TabOK(EnteredSelect, next_id, tangled) /\ EnteredSelect.clause = tab.clause
    BY EnteredSelectIs, SelectOK
  <2>2. QED
    BY <1>2, <2>1, LeftQuiet
<1>3. QED
  BY <1>1, <1>2 DEF Back
(* A clause is put into the staged rule.                                   *)
LEMMA PutOK ==
  ASSUME NEW s, IsSeq(s), NEW t, \A c \in Members(s) : ClauseOK(c, t), NEW clause, Of(clause, t),
         NEW index \in Nat
  PROVE  IsSeq(Put(s, index, clause)) /\ \A c \in Members(Put(s, index, clause)) : ClauseOK(c, t)
<1> DEFINE S == Members(s) \cup {clause, NoClause}
           n == IF index > Len(s) THEN index ELSE Len(s)
           p == [i \in 1 .. n |-> IF i = index THEN clause ELSE IF i \in DOMAIN s THEN s[i] ELSE NoClause]
<1>1. Len(s) \in Nat /\ DOMAIN s = 1 .. Len(s) /\ s \in [1 .. Len(s) -> Members(s)]
  BY SeqHas
<1>2. \A c \in S : ClauseOK(c, t)
  BY DEF ClauseOK
<1>3. CASE index = 0
  <2> DEFINE a == Append(s, clause)
  <2>1. /\ IsSeq(a) /\ DOMAIN a = 1 .. (Len(s) + 1)
        /\ \A k \in DOMAIN s : a[k] = s[k]
        /\ a[Len(s) + 1] = clause
    BY AppendIs
  <2> HIDE DEF a
  <2>2. \A k \in DOMAIN a : a[k] \in S
    BY <1>1, <2>1
  <2>3. Put(s, index, clause) = a
    BY <1>3 DEF Put, a
  <2>4. QED
    BY <1>2, <2>1, <2>2, <2>3 DEF Members
<1>4. CASE index # 0
  <2>1. n \in Nat /\ p \in [1 .. n -> S]
    BY <1>1
  <2>2. Put(s, index, clause) = p
    BY <1>4 DEF Put
  <2> HIDE DEF n, p, S
  <2>3. IsSeq(p) /\ \A k \in DOMAIN p : p[k] \in S
    BY <2>1, SeqMade
  <2>4. QED
    BY <1>2, <2>2, <2>3 DEF Members
<1>5. QED
  BY <1>3, <1>4

LEMMA FilledOK ==
  ASSUME NEW c, NEW t, Of(c, t)
  PROVE  Of(Filled(c), t) /\ Filled(c) # NoClause
<1>1. Filled(c).device = c.device /\ Filled(c).par = c.par
  BY DEF Filled
<1>2. "device" \in DOMAIN Filled(c) /\ "device" \notin DOMAIN NoClause
  BY DEF Filled, NoClause
<1>3. Of(Filled(c), t)
  BY <1>1, Zenon DEF Of
<1>4. QED
  BY <1>2, <1>3

LEMMA AddClauseOK ==
  ASSUME TInv, tab.staged # NoRule, Of(tab.clause, tangled),
         Len(addClauseToRule(tab.staged).ifClause) <= MaxClauses
  PROVE  StagedOK(addClauseToRule(tab.staged), tangled)
<1> DEFINE st == tab.staged  c == Filled(tab.clause)  new == addClauseToRule(st)
<1>1. StagedOK(st, tangled) /\ tab.objectIndex \in Nat
  BY TParts DEF TabOK
<1>2. Of(c, tangled) /\ c # NoClause
  BY FilledOK
<1> HIDE DEF c, st
<1>3. CASE tab.objectType = "trigger"
  <2> DEFINE p == Put(st.ifClause, tab.objectIndex, c)
  <2>1. IsSeq(p) /\ \A d \in Members(p) : ClauseOK(d, tangled)
    BY <1>1, <1>2, PutOK DEF StagedOK
  <2>2. new = [st EXCEPT !.ifClause = p]
    BY <1>3 DEF addClauseToRule, c
  <2> HIDE DEF p, new
  <2>3. DOMAIN new = {"ifClause", "thenClause"} /\ new.ifClause = p /\ new.thenClause = st.thenClause
    BY <1>1, <2>2 DEF StagedOK
  <2>4. Len(new.ifClause) <= MaxClauses
    BY DEF new, st
  <2>5. StagedOK(new, tangled)
    BY <1>1, <2>1, <2>3, <2>4 DEF StagedOK
  <2>6. QED
    BY <2>5 DEF new, st
<1>4. CASE tab.objectType # "trigger"
  <2> DEFINE p == <<c>>
  <2>1. IsSeq(p) /\ Len(p) = 1 /\ Members(p) = {c}
    <3>1. p \in Seq({c}) /\ Len(p) = 1 /\ DOMAIN p = {1} /\ p[1] = c
      OBVIOUS
    <3> HIDE DEF p
    <3>2. IsSeq(p)
      BY <3>1, SeqIs
    <3>3. Members(p) = {c}
      BY <3>1 DEF Members
    <3>4. QED
      BY <3>1, <3>2, <3>3
  <2>2. new = [st EXCEPT !.thenClause = p]
    BY <1>4 DEF addClauseToRule, c
  <2> HIDE DEF p, new
  <2>3. DOMAIN new = {"ifClause", "thenClause"} /\ new.ifClause = st.ifClause /\ new.thenClause = p
    BY <1>1, <2>2 DEF StagedOK
  <2>4. \A d \in Members(p) : d # NoClause /\ Of(d, tangled)
    BY <1>2, <2>1, Zenon
  <2>5. StagedOK(new, tangled)
    <3>1. /\ IsSeq(st.ifClause) /\ Len(st.ifClause) <= MaxClauses
          /\ \A d \in Members(st.ifClause) : ClauseOK(d, tangled)
      BY <1>1, Zenon DEF StagedOK
    <3>2. new.ifClause = st.ifClause
      BY <2>3
    <3>3. new.thenClause = p
      BY <2>3
    <3>4. IsSeq(p) /\ Len(p) <= 1
      BY <2>1
    <3>5. IsSeq(new.thenClause) /\ Len(new.thenClause) <= 1
      BY <3>3, <3>4, Zenon
    <3>6. \A d \in Members(new.thenClause) : d # NoClause /\ Of(d, tangled)
      BY <2>3, <2>4
    <3>7. QED
      BY <2>3, <3>1, <3>2, <3>5, <3>6 DEF StagedOK
  <2>6. QED
    BY <2>5 DEF new, st
<1>5. QED
  BY <1>3, <1>4

LEMMA completeParameterSelectT ==
  ASSUME TInv, completeParameterSelect
  PROVE  TInv'
<1> DEFINE e == [tab EXCEPT !.clause = NoClause]
<1>1. TabOK(tab, next_id, tangled)
  BY TParts
<1>2. TabOK(e, next_id, tangled) /\ e.clause = NoClause /\ e.staged = tab.staged
  BY <1>1, ClauseSet
<1>3. UNCHANGED server
  BY DEF completeParameterSelect
<1>4. CASE tab.staged = NoRule
  <2>1. tab' = e /\ Quiet(calls)
    BY <1>4 DEF completeParameterSelect
  <2> HIDE DEF e
  <2>2. AskedOK(calls, tab', tangled)
    BY <1>2, <2>1 DEF AskedOK
  <2>3. QED
    BY <1>2, <1>3, <2>1, <2>2, TParts, KeptSame, QuietOK
<1>5. CASE tab.staged # NoRule
  <2> DEFINE st == addClauseToRule(tab.staged)  f == [e EXCEPT !.staged = st]
             g == [tab EXCEPT !.clause = NoClause, !.staged = addClauseToRule(@)]
  <2>1. EnterCreate(g, calls) /\ Len(st.ifClause) <= MaxClauses
    BY <1>5 DEF completeParameterSelect
  <2>2. Of(tab.clause, tangled)
    BY <1>1 DEF completeParameterSelect, TabOK, ChosenOK
  <2>3. StagedOK(st, tangled)
    BY <1>5, <2>1, <2>2, AddClauseOK
  <2>4. f = g
    BY <1>2
  <2> HIDE DEF g, e, st
  <2>5. TabOK(f, next_id, tangled) /\ f.clause = NoClause
    BY <1>2, <2>3, StagedAnew
  <2> HIDE DEF f
  <2>6. AskedOK(calls, f, tangled)
    BY <2>5 DEF AskedOK
  <2>7. EnterCreate(f, calls)
    BY <2>1, <2>4
  <2>8. QED
    BY <1>3, <2>5, <2>6, <2>7, TParts, KeptSame, EnterCreateOK
<1>6. QED
  BY <1>4, <1>5
(* Finish ends the editing.                                                *)
LEMMA AfterFinishOK ==
  ASSUME NEW tb, NEW n, NEW t, TabOK(tb, n, t)
  PROVE  /\ TabOK(AfterFinish(tb), n, t) /\ AfterFinish(tb).clause = tb.clause
         /\ AfterFinish(tb).editing = FALSE /\ AfterFinish(tb).page = tb.page
         /\ AfterFinish(tb).list = tb.list /\ AfterFinish(tb).current_loc = tb.current_loc
<1> DEFINE e == [tb EXCEPT !.editing = FALSE]
<1>1. DOMAIN tb = TabFields
  BY DEF TabOK
<1>2. /\ DOMAIN e = TabFields /\ e.page = tb.page /\ e.list = tb.list /\ e.loaded = tb.loaded
      /\ e.current_loc = tb.current_loc /\ e.staged = tb.staged /\ e.editing = FALSE
      /\ e.objectIndex = tb.objectIndex /\ e.clause = tb.clause
  BY <1>1 DEF TabFields
<1>3. AfterFinish(tb) = e
  BY DEF AfterFinish
<1> HIDE DEF e
<1>4. ChosenOK(e, t)
  BY <1>2 DEF TabOK, ChosenOK
<1>5. TabOK(e, n, t)
  BY <1>2, <1>4 DEF TabOK
<1>6. QED
  BY <1>2, <1>3, <1>5

LEMMA SavingNew ==
  ASSUME NEW cs, IsSeq(cs), NEW id
  PROVE  /\ Cardinality(InFlight(cs, {"new"})) \in Nat
         /\ Cardinality(Saving(cs, id)) <= Cardinality(InFlight(cs, {"new"}))
<1>1. Len(cs) \in Nat /\ DOMAIN cs = 1 .. Len(cs)
  BY SeqHas
<1>2. Saving(cs, id) \subseteq InFlight(cs, {"new"}) /\ InFlight(cs, {"new"}) \subseteq 1 .. Len(cs)
  BY <1>1 DEF Saving, InFlight
<1>3. IsFiniteSet(InFlight(cs, {"new"}))
  <2>1. IsFiniteSet(1 .. Len(cs))
    BY <1>1, FS_Interval
  <2>2. QED
    BY <1>2, <2>1, FS_Subset
<1>4. QED
  BY <1>2, <1>3, FS_Subset, FS_CardinalityType

LEMMA finishRuleT ==
  ASSUME TInv, finishRule
  PROVE  TInv'
<1> DEFINE id == IF tab.editing THEN tab.editingRuleID ELSE 0
           args == [rule |-> tab.staged, loc |-> tab.current_loc, id |-> id]
           call == Call("new", args, FALSE)
<1>1. Send(calls, call) /\ tab' = AfterFinish(tab) /\ UNCHANGED server
  BY DEF finishRule
<1>2. TabOK(tab, next_id, tangled) /\ next_id \in Nat
  BY TParts
<1>3. TabOK(tab', next_id, tangled) /\ tab'.clause = tab.clause
  BY <1>1, <1>2, AfterFinishOK
<1>4. /\ StagedOK(tab.staged, tangled)
      /\ tab.staged.ifClause # <<>> /\ tab.staged.thenClause # <<>>
  BY <1>2 DEF finishRule, stagedRuleIsValid, TabOK
<1>5. id \in 0 .. (next_id - 1) /\ (tab.editing => id # 0)
  <2>1. next_id >= 1
    BY TParts, EditorAssumption DEF ServerOK
  <2>2. QED
    BY <1>2, <2>1 DEF TabOK
<1> HIDE DEF id
<1>6. /\ DOMAIN call = CallFields /\ call.kind = "new" /\ call.live = FALSE /\ call.lost = FALSE
      /\ call.answer = NoAnswer /\ call.args = args
  BY DEF Call, CallFields
<1>7. args.rule = tab.staged /\ args.id = id
  OBVIOUS
<1> HIDE DEF args, call
<1>8. CallOK(call, next_id, tangled)
  <2>1. StagedOK(call.args.rule, tangled)
    BY <1>4, <1>6, <1>7
  <2>2. call.args.rule.ifClause # <<>> /\ call.args.rule.thenClause # <<>>
    BY <1>4, <1>6, <1>7
  <2>3. call.args.id \in 0 .. (next_id - 1)
    BY <1>5, <1>6, <1>7
  <2>4. QED
    BY <1>6, <2>1, <2>2, <2>3 DEF CallOK, Kinds, Choosing
<1>9. tangled => tangled'
  BY <1>1, SendTangles
<1>10. AskedOK(calls, tab', tangled')
  BY <1>3, <1>9, TParts, AskedSame, AskedMore
<1>11. next_id + Cardinality(Saving(Append(calls, call), 0)) <= MaxRules + 1
  <2>1. Cardinality(Saving(calls, 0)) \in Nat /\ IsSeq(calls) /\ MaxRules \in Nat
    BY TParts, EditorAssumption
  <2>2. CASE tab.editing
    <3>1. Saving(Append(calls, call), 0) = Saving(calls, 0)
      BY <1>5, <1>6, <1>7, <2>1, <2>2, SavingAppend
    <3>2. QED
      BY <3>1 DEF TInv
  <2>3. CASE ~ tab.editing
    <3>1. next_id + Cardinality(InFlight(calls, {"new"})) <= MaxRules
      BY <2>3 DEF finishRule
    <3>2. id = 0
      BY <2>3 DEF id
    <3>3. Cardinality(Saving(Append(calls, call), 0)) = Cardinality(Saving(calls, 0)) + 1
      BY <1>6, <1>7, <2>1, <3>2, SavingAppend
    <3>4. /\ Cardinality(InFlight(calls, {"new"})) \in Nat
          /\ Cardinality(Saving(calls, 0)) <= Cardinality(InFlight(calls, {"new"}))
      BY <2>1, SavingNew
    <3>5. QED
      BY <1>2, <2>1, <3>1, <3>3, <3>4
  <2>4. QED
    BY <2>2, <2>3
<1>12. QED
  BY <1>1, <1>3, <1>6, <1>8, <1>10, <1>11, TParts, KeptSame, SendOK DEF Choosing
-----------------------------------------------------------------------------
(* The answers arrive                                                      *)
LEMMA ArriveParts ==
  ASSUME TInv, NEW i \in DOMAIN calls
  PROVE  /\ Kept(RemoveAt(calls, i), calls, {i}) /\ AskedOK(RemoveAt(calls, i), tab, tangled)
         /\ CallOK(calls[i], next_id, tangled)
<1>1. Kept(RemoveAt(calls, i), calls, {i})
  BY TParts, KeptRemoved
<1>2. QED
  BY <1>1, TParts, KeptAsked DEF CallsOK

LEMMA ListedOK ==
  ASSUME NEW tb, NEW n, NEW t, TabOK(tb, n, t), NEW c, CallOK(c, n, t),
         c.kind \in {"rules", "delete"}, c.answer # NoAnswer
  PROVE  /\ TabOK(Listed(tb, c), n, t) /\ Listed(tb, c).clause = tb.clause
         /\ Listed(tb, c).page = tb.page /\ Listed(tb, c).current_loc = tb.current_loc
         /\ Listed(tb, c).editing = tb.editing /\ Listed(tb, c).editingRuleID = tb.editingRuleID
         /\ Listed(tb, c).list = IF c.live THEN c.answer.rules ELSE tb.list
<1> DEFINE l == c.answer.rules  e == [tb EXCEPT !.list = l]
<1>1. DOMAIN tb = TabFields
  BY DEF TabOK
<1>2. DOMAIN l \subseteq 1 .. (n - 1)
  BY DEF CallOK, AnswerOK
<1> HIDE DEF l
<1>3. /\ DOMAIN e = TabFields /\ e.page = tb.page /\ e.list = l /\ e.loaded = tb.loaded
      /\ e.current_loc = tb.current_loc /\ e.staged = tb.staged /\ e.editing = tb.editing
      /\ e.editingRuleID = tb.editingRuleID /\ e.objectIndex = tb.objectIndex
      /\ e.clause = tb.clause
  BY <1>1 DEF TabFields
<1>4. Listed(tb, c) = IF c.live THEN e ELSE tb
  BY DEF Listed, l
<1> HIDE DEF e
<1>5. ChosenOK(e, t)
  BY <1>3 DEF TabOK, ChosenOK
<1>6. TabOK(e, n, t)
  BY <1>2, <1>3, <1>5 DEF TabOK
<1>7. CASE c.live
  BY <1>3, <1>4, <1>6, <1>7 DEF l
<1>8. CASE ~ c.live
  BY <1>4, <1>8
<1>9. QED
  BY <1>7, <1>8

LEMMA LocSet ==
  ASSUME NEW tb, NEW n, NEW t, TabOK(tb, n, t), NEW loc \in Tasks
  PROVE  LET e == [tb EXCEPT !.current_loc = loc]
         IN  /\ TabOK(e, n, t) /\ e.clause = tb.clause /\ e.page = tb.page /\ e.list = tb.list
             /\ e.editing = tb.editing /\ e.editingRuleID = tb.editingRuleID /\ e.current_loc = loc
<1> DEFINE e == [tb EXCEPT !.current_loc = loc]
<1>1. DOMAIN tb = TabFields
  BY DEF TabOK
<1>2. /\ DOMAIN e = TabFields /\ e.page = tb.page /\ e.list = tb.list /\ e.loaded = tb.loaded
      /\ e.current_loc = loc /\ e.staged = tb.staged /\ e.editing = tb.editing
      /\ e.editingRuleID = tb.editingRuleID /\ e.objectIndex = tb.objectIndex
      /\ e.clause = tb.clause
  BY <1>1 DEF TabFields
<1> HIDE DEF e
<1>3. ChosenOK(e, t)
  BY <1>2 DEF TabOK, ChosenOK
<1>4. TabOK(e, n, t)
  BY <1>2, <1>3 DEF TabOK
<1>5. QED
  BY <1>2, <1>4 DEF e

LEMMA RulesArriveT ==
  ASSUME TInv, NEW i, RulesArrive(i)
  PROVE  TInv'
<1> DEFINE c == calls[i]  l == Listed(tab, c)  loc == c.answer.loc
           e == [l EXCEPT !.current_loc = loc]
<1>1. /\ i \in DOMAIN calls /\ c.kind = "rules" /\ c.answer # NoAnswer
      /\ tab' = e /\ Quiet(RemoveAt(calls, i)) /\ UNCHANGED server
  BY DEF RulesArrive, Answered
<1>2. /\ Kept(RemoveAt(calls, i), calls, {i}) /\ AskedOK(RemoveAt(calls, i), tab, tangled)
      /\ CallOK(c, next_id, tangled) /\ TabOK(tab, next_id, tangled)
  BY <1>1, ArriveParts, TParts
<1> HIDE DEF c
<1>3. loc \in Tasks
  BY <1>1, <1>2 DEF CallOK, AnswerOK
<1>4. TabOK(l, next_id, tangled) /\ l.clause = tab.clause
  BY <1>1, <1>2, ListedOK
<1> HIDE DEF l, loc
<1>5. TabOK(e, next_id, tangled) /\ e.clause = tab.clause
  BY <1>3, <1>4, LocSet
<1> HIDE DEF e
<1>6. AskedOK(RemoveAt(calls, i), tab', tangled)
  BY <1>1, <1>2, <1>5, AskedSame
<1>7. QED
  BY <1>1, <1>2, <1>5, <1>6, QuietOK

LEMMA TokenArrivesT ==
  ASSUME TInv, NEW i, TokenArrives(i)
  PROVE  TInv'
<1> DEFINE c == calls[i]  loc == c.answer.locid  e == [tab EXCEPT !.current_loc = loc]
<1>1. /\ i \in DOMAIN calls /\ c.kind = "token" /\ c.answer # NoAnswer
      /\ EnterRules(e, RemoveAt(calls, i)) /\ UNCHANGED server
  BY DEF TokenArrives, Answered
<1>2. /\ Kept(RemoveAt(calls, i), calls, {i}) /\ AskedOK(RemoveAt(calls, i), tab, tangled)
      /\ CallOK(c, next_id, tangled) /\ TabOK(tab, next_id, tangled)
  BY <1>1, ArriveParts, TParts
<1> HIDE DEF c
<1>3. loc \in Tasks
  BY <1>1, <1>2 DEF CallOK, AnswerOK
<1> HIDE DEF loc
<1>4. TabOK(e, next_id, tangled) /\ e.clause = tab.clause
  BY <1>2, <1>3, LocSet
<1> HIDE DEF e
<1>5. AskedOK(RemoveAt(calls, i), e, tangled)
  BY <1>2, <1>4, AskedSame
<1>6. QED
  BY <1>1, <1>2, <1>4, <1>5, EnterRulesOK

LEMMA FullRuleArrivesT ==
  ASSUME TInv, NEW i, FullRuleArrives(i)
  PROVE  TInv'
<1> DEFINE c == calls[i]  st == c.answer  e == [tab EXCEPT !.staged = st]
<1>1. /\ i \in DOMAIN calls /\ c.kind = "full" /\ c.answer # NoAnswer
      /\ tab' = e /\ Quiet(RemoveAt(calls, i)) /\ UNCHANGED server
  BY DEF FullRuleArrives, Answered
<1>2. /\ Kept(RemoveAt(calls, i), calls, {i}) /\ AskedOK(RemoveAt(calls, i), tab, tangled)
      /\ CallOK(c, next_id, tangled) /\ TabOK(tab, next_id, tangled)
  BY <1>1, ArriveParts, TParts
<1> HIDE DEF c
<1>3. StagedOK(st, tangled)
  BY <1>1, <1>2 DEF CallOK, AnswerOK
<1> HIDE DEF st
<1>4. TabOK(e, next_id, tangled) /\ e.clause = tab.clause
  BY <1>2, <1>3, StagedAnew
<1> HIDE DEF e
<1>5. AskedOK(RemoveAt(calls, i), tab', tangled)
  BY <1>1, <1>2, <1>4, AskedSame
<1>6. QED
  BY <1>1, <1>2, <1>4, <1>5, QuietOK

LEMMA NewRuleArrivesT ==
  ASSUME TInv, NEW i, NewRuleArrives(i)
  PROVE  TInv'
<1> DEFINE e == [tab EXCEPT !.staged = NoRule]
<1>1. /\ i \in DOMAIN calls /\ UNCHANGED server
      /\ \/ tab' = e /\ Quiet(RemoveAt(calls, i))
         \/ EnterRules(e, RemoveAt(calls, i))
  BY DEF NewRuleArrives, Answered
<1>2. /\ Kept(RemoveAt(calls, i), calls, {i}) /\ AskedOK(RemoveAt(calls, i), tab, tangled)
      /\ TabOK(tab, next_id, tangled)
  BY <1>1, ArriveParts, TParts
<1>3. TabOK(e, next_id, tangled) /\ e.clause = tab.clause
  BY <1>2, StagedAnew
<1> HIDE DEF e
<1>4. AskedOK(RemoveAt(calls, i), e, tangled)
  BY <1>2, <1>3, AskedSame
<1>5. CASE tab' = e /\ Quiet(RemoveAt(calls, i))
  BY <1>1, <1>2, <1>3, <1>4, <1>5, QuietOK
<1>6. CASE EnterRules(e, RemoveAt(calls, i))
  BY <1>1, <1>2, <1>3, <1>4, <1>6, EnterRulesOK
<1>7. QED
  BY <1>1, <1>5, <1>6

LEMMA DeleteArrivesT ==
  ASSUME TInv, NEW i, DeleteArrives(i)
  PROVE  TInv'
<1> DEFINE c == calls[i]  e == Listed(tab, c)
<1>1. /\ i \in DOMAIN calls /\ c.kind = "delete" /\ c.answer # NoAnswer
      /\ tab' = e /\ Quiet(RemoveAt(calls, i)) /\ UNCHANGED server
  BY DEF DeleteArrives, Answered
<1>2. /\ Kept(RemoveAt(calls, i), calls, {i}) /\ AskedOK(RemoveAt(calls, i), tab, tangled)
      /\ CallOK(c, next_id, tangled) /\ TabOK(tab, next_id, tangled)
  BY <1>1, ArriveParts, TParts
<1> HIDE DEF c
<1>3. TabOK(e, next_id, tangled) /\ e.clause = tab.clause
  BY <1>1, <1>2, ListedOK
<1> HIDE DEF e
<1>4. AskedOK(RemoveAt(calls, i), tab', tangled)
  BY <1>1, <1>2, <1>3, AskedSame
<1>5. QED
  BY <1>1, <1>2, <1>3, <1>4, QuietOK

LEMMA ParamsArriveT ==
  ASSUME TInv, NEW i, ParamsArrive(i)
  PROVE  TInv'
<1> DEFINE device == calls[i].args  call == Call("form", device, TRUE)
<1>1. /\ i \in DOMAIN calls /\ calls[i].kind = "params" /\ UNCHANGED server
      /\ \/ tab' = tab /\ Quiet(RemoveAt(calls, i))
         \/ tab' = Entered(tab, "params") /\ Send(Left(RemoveAt(calls, i)), call)
  BY DEF ParamsArrive, Waiting, EnterParams
<1>2. /\ Kept(RemoveAt(calls, i), calls, {i}) /\ AskedOK(RemoveAt(calls, i), tab, tangled)
      /\ CallOK(calls[i], next_id, tangled) /\ TabOK(tab, next_id, tangled)
  BY <1>1, ArriveParts, TParts
<1>3. device \in DOMAIN Devices
  BY <1>1, <1>2 DEF CallOK, Choosing
<1>4. tab.clause # NoClause => tangled \/ device = tab.clause.device
  BY <1>1, TParts DEF AskedOK, InFlight, Choosing
<1>5. CASE tab' = tab /\ Quiet(RemoveAt(calls, i))
  BY <1>1, <1>2, <1>5, QuietOK
<1> HIDE DEF device
<1>6. CASE tab' = Entered(tab, "params") /\ Send(Left(RemoveAt(calls, i)), call)
  <2>1. CallOK(call, next_id, tangled) /\ call.kind = "form" /\ call.args = device
    <3>1. "form" \in Kinds \ {"new"}
      BY DEF Kinds
    <3>2. TRUE \in BOOLEAN
      OBVIOUS
    <3>3. CallOK(call, next_id, tangled)
      BY <1>3, <3>1, <3>2, CallIs
    <3>4. call.kind = "form" /\ call.args = device
      BY DEF Call
    <3>5. QED
      BY <3>3, <3>4
  <2> HIDE DEF call
  <2>2. TabOK(tab', next_id, tangled) /\ tab'.clause = tab.clause
    BY <1>2, <1>6, EnteredOK DEF Pages
  <2>3. tangled => tangled'
    BY <1>6, SendTangles
  <2>4. Kept(Left(RemoveAt(calls, i)), calls, {i})
    BY <1>2, KeptLeft
  <2>5. AskedOK(Left(RemoveAt(calls, i)), tab, tangled)
    BY <1>2, LeftAsked
  <2>6. AskedOK(Left(RemoveAt(calls, i)), tab', tangled')
    BY <2>2, <2>3, <2>5, AskedSame, AskedMore
  <2>7. tab'.clause # NoClause => tangled' \/ call.args = tab'.clause.device
    BY <1>4, <2>1, <2>2, <2>3
  <2>8. call.kind # "new"
    BY <2>1
  <2>9. QED
    BY <1>1, <1>6, <2>1, <2>2, <2>4, <2>6, <2>7, <2>8, SendOther
<1>7. QED
  BY <1>1, <1>5, <1>6

LEMMA FormArrivesT ==
  ASSUME TInv, NEW i, FormArrives(i)
  PROVE  TInv'
<1> DEFINE p == calls[i].args  live == calls[i].live
           e == [tab EXCEPT !.clause.par = p, !.loaded = @ \/ live]
<1>1. /\ i \in DOMAIN calls /\ calls[i].kind = "form" /\ UNCHANGED server
      /\ tab' = (IF tab.clause = NoClause THEN tab ELSE e) /\ Quiet(RemoveAt(calls, i))
  BY DEF FormArrives, Waiting
<1>2. /\ Kept(RemoveAt(calls, i), calls, {i}) /\ AskedOK(RemoveAt(calls, i), tab, tangled)
      /\ CallOK(calls[i], next_id, tangled) /\ TabOK(tab, next_id, tangled)
  BY <1>1, ArriveParts, TParts
<1>3. p \in DOMAIN Devices /\ live \in BOOLEAN
  BY <1>1, <1>2 DEF CallOK, Choosing
<1>4. tab.clause # NoClause => tangled \/ p = tab.clause.device
  BY <1>1, TParts DEF AskedOK, InFlight, Choosing
<1>5. CASE tab.clause = NoClause
  BY <1>1, <1>2, <1>5, QuietOK
<1> HIDE DEF p, live
<1>6. CASE tab.clause # NoClause
  <2> DEFINE c == [tab.clause EXCEPT !.par = p]
  <2>1. DOMAIN tab = TabFields /\ ChosenOK(tab, tangled)
    BY <1>2 DEF TabOK
  <2>2. /\ DOMAIN c = {"device", "par"} /\ c.device = tab.clause.device /\ c.par = p
        /\ c.device \in DOMAIN Devices
    BY <1>6, <2>1 DEF ChosenOK
  <2>3. e = [tab EXCEPT !.clause = c, !.loaded = tab.loaded \/ live]
    BY <2>1 DEF TabFields
  <2> HIDE DEF c
  <2>4. /\ DOMAIN e = TabFields /\ e.page = tab.page /\ e.list = tab.list
        /\ e.loaded = (tab.loaded \/ live)
        /\ e.current_loc = tab.current_loc /\ e.staged = tab.staged /\ e.editing = tab.editing
        /\ e.editingRuleID = tab.editingRuleID /\ e.objectIndex = tab.objectIndex
        /\ e.clause = c
    BY <2>1, <2>3 DEF TabFields
  <2> HIDE DEF e
  <2>5. Of(c, tangled)
    BY <1>3, <1>4, <1>6, <2>2, Zenon DEF Of
  <2>6. ChosenOK(e, tangled)
    BY <2>2, <2>4, <2>5 DEF ChosenOK
  <2>7. TabOK(e, next_id, tangled)
    BY <1>2, <1>3, <2>4, <2>6 DEF TabOK
  <2>8. tab' = e
    BY <1>1, <1>6
  <2>9. AskedOK(RemoveAt(calls, i), e, tangled)
    BY <1>2, <1>6, <2>2, <2>4 DEF AskedOK
  <2>10. QED
    BY <1>1, <1>2, <2>7, <2>8, <2>9, QuietOK
<1>7. QED
  BY <1>5, <1>6
-----------------------------------------------------------------------------
(* The backend                                                             *)

WithAnswer(cs, i, a) == [cs EXCEPT ![i].answer = a]

(* A call is answered, or ends without an answer: it saves nothing any     *)
(* more, and nothing else is saved that was not.                           *)
LEMMA AnsweredIs ==
  ASSUME NEW cs, Proper(cs), NEW i \in DOMAIN cs, NEW a
  PROVE  LET as == WithAnswer(cs, i, a)
         IN  /\ IsSeq(as) /\ Len(as) = Len(cs) /\ DOMAIN as = DOMAIN cs
             /\ \A k \in DOMAIN cs : k # i => as[k] = cs[k]
             /\ as[i] = [cs[i] EXCEPT !.answer = a]
             /\ DOMAIN as[i] = CallFields /\ as[i].kind = cs[i].kind /\ as[i].args = cs[i].args
             /\ as[i].live = cs[i].live /\ as[i].lost = cs[i].lost /\ as[i].answer = a
<1> DEFINE c == [cs[i] EXCEPT !.answer = a]  as == WithAnswer(cs, i, a)
<1>1. Len(cs) \in Nat /\ DOMAIN cs = 1 .. Len(cs) /\ cs \in [1 .. Len(cs) -> Members(cs)]
  BY SeqHas DEF Proper
<1>2. as = [cs EXCEPT ![i] = c]
  BY DEF WithAnswer
<1>3. DOMAIN cs[i] = CallFields
  BY DEF Proper
<1>4. /\ DOMAIN c = CallFields /\ c.kind = cs[i].kind /\ c.args = cs[i].args
      /\ c.live = cs[i].live /\ c.lost = cs[i].lost /\ c.answer = a
  BY <1>3 DEF CallFields
<1> HIDE DEF c, as
<1>5. as \in [1 .. Len(cs) -> Members(cs) \cup {c}]
  BY <1>1, <1>2
<1>6. /\ DOMAIN as = DOMAIN cs /\ as[i] = c
      /\ \A k \in DOMAIN cs : k # i => as[k] = cs[k]
  BY <1>1, <1>2
<1>7. IsSeq(as) /\ Len(as) = Len(cs)
  BY <1>1, <1>5, SeqMade
<1>8. QED
  BY <1>4, <1>6, <1>7 DEF c, as

LEMMA AnsweredOK ==
  ASSUME NEW cs, NEW n, NEW t, CallsOK(cs, n, t), NEW tb, AskedOK(cs, tb, t),
         NEW i \in DOMAIN cs, NEW a, a # NoAnswer, AnswerOK([cs[i] EXCEPT !.answer = a], n, t)
  PROVE  LET as == WithAnswer(cs, i, a)
         IN  /\ CallsOK(as, n, t) /\ AskedOK(as, tb, t)
             /\ \A id : Saving(as, id) = Saving(cs, id) \ {i}
<1> DEFINE as == WithAnswer(cs, i, a)
<1>1. Proper(cs)
  BY CallsProper
<1>2. /\ IsSeq(as) /\ Len(as) = Len(cs) /\ DOMAIN as = DOMAIN cs
      /\ \A k \in DOMAIN cs : k # i => as[k] = cs[k]
      /\ as[i] = [cs[i] EXCEPT !.answer = a]
      /\ DOMAIN as[i] = CallFields /\ as[i].kind = cs[i].kind /\ as[i].args = cs[i].args
      /\ as[i].live = cs[i].live /\ as[i].lost = cs[i].lost /\ as[i].answer = a
  BY <1>1, AnsweredIs
<1> HIDE DEF as
<1>3. AnswerOK(as[i], n, t)
  BY <1>2
<1>4. CallOK(as[i], n, t)
  BY <1>2, <1>3 DEF CallOK, CallsOK
<1>5. \A k \in DOMAIN as : CallOK(as[k], n, t)
  BY <1>2, <1>4 DEF CallsOK
<1>6. CallsOK(as, n, t)
  BY <1>2, <1>5 DEF CallsOK
<1>7. \A k \in DOMAIN as : as[k].kind = cs[k].kind /\ as[k].args = cs[k].args
  BY <1>2
<1>8. AskedOK(as, tb, t)
  BY <1>2, <1>7 DEF AskedOK, InFlight
<1>9. \A k \in DOMAIN as : (as[k].answer = NoAnswer) <=> (cs[k].answer = NoAnswer /\ k # i)
  BY <1>2
<1>10. \A id : Saving(as, id) = Saving(cs, id) \ {i}
  BY <1>2, <1>7, <1>9 DEF Saving
<1>11. QED
  BY <1>6, <1>8, <1>10 DEF as

LEMMA LessOne ==
  ASSUME NEW S, IsFiniteSet(S), NEW i
  PROVE  /\ Cardinality(S \ {i}) \in Nat /\ Cardinality(S \ {i}) <= Cardinality(S)
         /\ i \in S => Cardinality(S \ {i}) <= Cardinality(S) - 1
<1>1. Cardinality(S) \in Nat
  BY FS_CardinalityType
<1>2. CASE i \in S
  <2>1. Cardinality(S \ {i}) = Cardinality(S) - 1 /\ IsFiniteSet(S \ {i})
    BY <1>2, FS_RemoveElement
  <2>2. Cardinality(S \ {i}) \in Nat
    BY <2>1, FS_CardinalityType
  <2>3. QED
    BY <1>1, <2>1, <2>2
<1>3. CASE i \notin S
  <2>1. S \ {i} = S
    BY <1>3
  <2>2. QED
    BY <1>1, <1>3, <2>1
<1>4. QED
  BY <1>2, <1>3

LEMMA AnswerStep ==
  ASSUME TInv, NEW i \in DOMAIN calls, calls[i].answer = NoAnswer, NEW a, a # NoAnswer,
         Answer(i, a), NEW n \in Nat, next_id <= n, AnswerOK([calls[i] EXCEPT !.answer = a], n, tangled)
  PROVE  /\ CallsOK(calls', n, tangled) /\ AskedOK(calls', tab, tangled)
         /\ \A id : /\ Cardinality(Saving(calls', id)) \in Nat
                    /\ Cardinality(Saving(calls', id)) <= Cardinality(Saving(calls, id))
                    /\ i \in Saving(calls, id) =>
                          Cardinality(Saving(calls', id)) <= Cardinality(Saving(calls, id)) - 1
<1>1. Proper(calls) /\ CallsOK(calls, n, tangled) /\ AskedOK(calls, tab, tangled)
  BY TParts, CallsMore
<1>2. CASE calls' = RemoveAt(calls, i)
  <2>1. Kept(RemoveAt(calls, i), calls, {i})
    BY <1>1, KeptRemoved
  <2>2. CallsOK(calls', n, tangled) /\ AskedOK(calls', tab, tangled)
    BY <1>1, <1>2, <2>1, KeptOK, KeptAsked
  <2>3. \A id : Cardinality(Saving(RemoveAt(calls, i), id)) \in Nat
    BY <2>1, SavingFinite DEF Kept
  <2>4. \A id : /\ Cardinality(Saving(RemoveAt(calls, i), id)) <= Cardinality(Saving(calls, id))
                /\ i \in Saving(calls, id) =>
                      Cardinality(Saving(RemoveAt(calls, i), id)) <= Cardinality(Saving(calls, id)) - 1
    BY <1>1, <2>1, KeptSaving DEF Proper
  <2>5. QED
    BY <1>2, <2>2, <2>3, <2>4
<1>3. CASE calls' = [calls EXCEPT ![i].answer = a]
  <2> DEFINE as == WithAnswer(calls, i, a)
  <2>1. /\ CallsOK(as, n, tangled) /\ AskedOK(as, tab, tangled)
        /\ \A id : Saving(as, id) = Saving(calls, id) \ {i}
    BY <1>1, AnsweredOK
  <2>2. calls' = as
    BY <1>3 DEF WithAnswer
  <2> HIDE DEF as
  <2>3. \A id : IsFiniteSet(Saving(calls, id))
    BY <1>1, SavingFinite DEF Proper
  <2>4. \A id : /\ Cardinality(Saving(as, id)) \in Nat
                /\ Cardinality(Saving(as, id)) <= Cardinality(Saving(calls, id))
                /\ i \in Saving(calls, id) =>
                      Cardinality(Saving(as, id)) <= Cardinality(Saving(calls, id)) - 1
    BY <2>1, <2>3, LessOne
  <2>5. QED
    BY <2>1, <2>2, <2>4
<1>4. QED
  BY <1>2, <1>3 DEF Answer

LEMMA RefuseStep ==
  ASSUME TInv, NEW i \in DOMAIN calls, Refuse(i), NEW n \in Nat, next_id <= n
  PROVE  /\ CallsOK(calls', n, tangled) /\ AskedOK(calls', tab, tangled)
         /\ \A id : /\ Cardinality(Saving(calls', id)) \in Nat
                    /\ Cardinality(Saving(calls', id)) <= Cardinality(Saving(calls, id))
                    /\ i \in Saving(calls, id) =>
                          Cardinality(Saving(calls', id)) <= Cardinality(Saving(calls, id)) - 1
<1>1. Proper(calls) /\ CallsOK(calls, n, tangled) /\ AskedOK(calls, tab, tangled)
  BY TParts, CallsMore
<1>2. Kept(RemoveAt(calls, i), calls, {i}) /\ calls' = RemoveAt(calls, i)
  BY <1>1, KeptRemoved DEF Refuse
<1>3. CallsOK(calls', n, tangled) /\ AskedOK(calls', tab, tangled)
  BY <1>1, <1>2, KeptOK, KeptAsked
<1>4. \A id : Cardinality(Saving(RemoveAt(calls, i), id)) \in Nat
  BY <1>2, SavingFinite DEF Kept
<1>5. \A id : /\ Cardinality(Saving(RemoveAt(calls, i), id)) <= Cardinality(Saving(calls, id))
              /\ i \in Saving(calls, id) =>
                    Cardinality(Saving(RemoveAt(calls, i), id)) <= Cardinality(Saving(calls, id)) - 1
  BY <1>1, <1>2, KeptSaving DEF Proper
<1>6. QED
  BY <1>2, <1>3, <1>4, <1>5

(* The tables stay as they are, or lose a rule.                            *)
LEMMA BackendOK ==
  ASSUME TInv, CallsOK(calls', next_id, tangled), AskedOK(calls', tab, tangled),
         Cardinality(Saving(calls', 0)) \in Nat,
         Cardinality(Saving(calls', 0)) <= Cardinality(Saving(calls, 0)),
         DOMAIN rule' \subseteq DOMAIN rule, \A id \in DOMAIN rule' : rule'[id] = rule[id],
         UNCHANGED <<next_id, session, scenario, arriving, tab, tangled, overlapped>>
  PROVE  TInv'
<1>1. ServerOK'
  <2>1. \A id \in DOMAIN rule' : RuleOK(rule'[id], tangled)
    BY TParts DEF ServerOK
  <2>2. QED
    BY <2>1, TParts DEF ServerOK, RuleOK, Of
<1>2. next_id + Cardinality(Saving(calls', 0)) <= MaxRules + 1
  BY TParts, EditorAssumption DEF TInv
<1>3. QED
  BY <1>1, <1>2, TParts DEF TInv

LEMMA AnswerRulesT ==
  ASSUME TInv, NEW i, AnswerRules(i)
  PROVE  TInv'
<1> DEFINE a == RulesAnswer  c == [calls[i] EXCEPT !.answer = a]
<1>1. /\ i \in DOMAIN calls /\ calls[i].kind = "rules" /\ calls[i].answer = NoAnswer
      /\ Answer(i, a) /\ UNCHANGED <<server, tab, history>>
  BY DEF AnswerRules, Waiting
<1>2. /\ a.loc = session /\ a.rules = fe_all_rules(session)
      /\ "none" \notin DOMAIN a
  BY DEF RulesAnswer
<1>3. "none" \in DOMAIN NoAnswer
  BY DEF NoAnswer
<1> HIDE DEF a
<1>4. c.answer = a /\ c.kind = "rules"
  BY <1>1, TParts DEF Proper, CallFields
<1>5. DOMAIN fe_all_rules(session) \subseteq DOMAIN rule
  BY DEF fe_all_rules
<1> HIDE DEF c
<1>6. AnswerOK(c, next_id, tangled)
  BY <1>2, <1>4, <1>5, TParts DEF AnswerOK, ServerOK
<1>7. a # NoAnswer
  BY <1>2, <1>3
<1>8. AnswerOK([calls[i] EXCEPT !.answer = a], next_id, tangled)
  BY <1>6 DEF c
<1>9. next_id <= next_id
  BY TParts
<1>10. /\ CallsOK(calls', next_id, tangled) /\ AskedOK(calls', tab, tangled)
       /\ Cardinality(Saving(calls', 0)) \in Nat
       /\ Cardinality(Saving(calls', 0)) <= Cardinality(Saving(calls, 0))
  BY <1>1, <1>7, <1>8, <1>9, TParts, AnswerStep
<1>11. QED
  BY <1>1, <1>10, BackendOK DEF server, history

LEMMA fe_get_loc_tokenT ==
  ASSUME TInv, NEW i, fe_get_loc_token(i)
  PROVE  TInv'
<1> DEFINE a == [locid |-> session]  c == [calls[i] EXCEPT !.answer = a]
<1>1. /\ i \in DOMAIN calls /\ calls[i].kind = "token" /\ calls[i].answer = NoAnswer
      /\ Answer(i, a) /\ UNCHANGED <<server, tab, history>>
  BY DEF fe_get_loc_token, Waiting
<1>2. a.locid = session /\ "none" \notin DOMAIN a
  OBVIOUS
<1>3. "none" \in DOMAIN NoAnswer
  BY DEF NoAnswer
<1> HIDE DEF a
<1>4. c.answer = a /\ c.kind = "token"
  BY <1>1, TParts DEF Proper, CallFields
<1> HIDE DEF c
<1>6. AnswerOK(c, next_id, tangled)
  BY <1>2, <1>4, TParts DEF AnswerOK, ServerOK
<1>7. a # NoAnswer
  BY <1>2, <1>3
<1>8. AnswerOK([calls[i] EXCEPT !.answer = a], next_id, tangled)
  BY <1>6 DEF c
<1>9. next_id <= next_id
  BY TParts
<1>10. /\ CallsOK(calls', next_id, tangled) /\ AskedOK(calls', tab, tangled)
       /\ Cardinality(Saving(calls', 0)) \in Nat
       /\ Cardinality(Saving(calls', 0)) <= Cardinality(Saving(calls, 0))
  BY <1>1, <1>7, <1>8, <1>9, TParts, AnswerStep
<1>11. QED
  BY <1>1, <1>10, BackendOK DEF server, history

LEMMA fe_delete_ruleT ==
  ASSUME TInv, NEW i, fe_delete_rule(i)
  PROVE  TInv'
<1> DEFINE id == calls[i].args.id
           left == [other \in DOMAIN rule \ {id} |-> rule[other]]
           rs == [other \in {o \in DOMAIN left : left[o].loc = session} |-> left[other]]
           a == [rules |-> rs]  c == [calls[i] EXCEPT !.answer = a]
<1>1. /\ i \in DOMAIN calls /\ calls[i].kind = "delete" /\ calls[i].answer = NoAnswer
      /\ UNCHANGED <<next_id, session, scenario, arriving, tab, history>>
      /\ \/ Refuse(i) /\ UNCHANGED rule
         \/ rule' = left /\ Answer(i, a)
  BY DEF fe_delete_rule, Waiting
<1>2. next_id <= next_id /\ next_id \in Nat
  BY TParts
<1>3. CASE Refuse(i) /\ UNCHANGED rule
  <2>1. /\ CallsOK(calls', next_id, tangled) /\ AskedOK(calls', tab, tangled)
        /\ Cardinality(Saving(calls', 0)) \in Nat
        /\ Cardinality(Saving(calls', 0)) <= Cardinality(Saving(calls, 0))
    BY <1>1, <1>2, <1>3, RefuseStep
  <2>2. QED
    BY <1>1, <1>3, <2>1, BackendOK DEF history
<1>4. CASE rule' = left /\ Answer(i, a)
  <2>1. DOMAIN left \subseteq DOMAIN rule /\ \A o \in DOMAIN left : left[o] = rule[o]
    OBVIOUS
  <2>2. DOMAIN rs \subseteq DOMAIN left
    OBVIOUS
  <2> HIDE DEF left, rs
  <2>3. a.rules = rs /\ "none" \notin DOMAIN a
    OBVIOUS
  <2>4. "none" \in DOMAIN NoAnswer
    BY DEF NoAnswer
  <2> HIDE DEF a
  <2>5. c.answer = a /\ c.kind = "delete"
    BY <1>1, TParts DEF Proper, CallFields
  <2> HIDE DEF c
  <2>6. AnswerOK(c, next_id, tangled)
    BY <2>1, <2>2, <2>3, <2>5, TParts DEF AnswerOK, ServerOK
  <2>7. a # NoAnswer
    BY <2>3, <2>4
  <2>8. AnswerOK([calls[i] EXCEPT !.answer = a], next_id, tangled)
    BY <2>6 DEF c
  <2>9. Answer(i, a)
    BY <1>4
  <2>10. /\ CallsOK(calls', next_id, tangled) /\ AskedOK(calls', tab, tangled)
         /\ Cardinality(Saving(calls', 0)) \in Nat
         /\ Cardinality(Saving(calls', 0)) <= Cardinality(Saving(calls, 0))
    BY <1>1, <1>2, <2>7, <2>8, <2>9, AnswerStep
  <2>11. QED
    BY <1>1, <1>4, <2>1, <2>10, BackendOK DEF history
<1>5. QED
  BY <1>1, <1>3, <1>4
(* What is loaded of a rule, and what is stored of one                     *)
LEMMA LoadedOK ==
  ASSUME NEW row, NEW t, Of(row, t)
  PROVE  /\ Of(Loaded(row, TRUE), t) /\ Of(Loaded(row, FALSE), t)
         /\ Of(LoadedAction(row), t) /\ LoadedAction(row) # NoClause
<1>1. /\ Loaded(row, TRUE).device = row.device /\ Loaded(row, TRUE).par = row.par
      /\ Loaded(row, FALSE).device = row.device /\ Loaded(row, FALSE).par = row.par
      /\ LoadedAction(row).device = row.device /\ LoadedAction(row).par = row.par
  BY DEF Loaded, LoadedAction
<1>2. "device" \in DOMAIN LoadedAction(row) /\ "device" \notin DOMAIN NoClause
  BY DEF LoadedAction, NoClause
<1>3. Of(Loaded(row, TRUE), t) /\ Of(Loaded(row, FALSE), t) /\ Of(LoadedAction(row), t)
  BY <1>1, Zenon DEF Of
<1>4. QED
  BY <1>2, <1>3

LEMMA OneIs ==
  ASSUME NEW x
  PROVE  IsSeq(<<x>>) /\ Len(<<x>>) = 1 /\ DOMAIN <<x>> = 1 .. 1 /\ <<x>>[1] = x
<1>1. <<x>> \in Seq({x}) /\ Len(<<x>>) = 1 /\ DOMAIN <<x>> = 1 .. 1 /\ <<x>>[1] = x
  OBVIOUS
<1>2. IsSeq(<<x>>)
  BY <1>1, SeqIs
<1>3. QED
  BY <1>1, <1>2

LEMMA FullRuleOK ==
  ASSUME NEW row, NEW t, RuleOK(row, t)
  PROVE  StagedOK(FullRule(row), t)
<1> DEFINE event == Loaded(row.Etrigger, TRUE)
           states == [i \in DOMAIN row.Striggers |-> Loaded(row.Striggers[i], FALSE)]
           action == LoadedAction(row.action)
           a == <<event>>  b == <<action>>  full == FullRule(row)
           OKs == {c \in {event} \cup {states[i] : i \in DOMAIN states} : ClauseOK(c, t)}
<1>1. Of(event, t) /\ Of(action, t) /\ action # NoClause
  BY LoadedOK DEF RuleOK
<1>2. Len(row.Striggers) \in Nat /\ DOMAIN row.Striggers = 1 .. Len(row.Striggers)
      /\ Len(row.Striggers) < MaxClauses
  BY SeqHas DEF RuleOK
<1>3. \A i \in DOMAIN row.Striggers : Of(states[i], t)
  BY LoadedOK DEF RuleOK, Members
<1>4. states \in [1 .. Len(row.Striggers) -> OKs]
  BY <1>2, <1>3 DEF ClauseOK
<1>5. event \in OKs
  BY <1>1 DEF ClauseOK
<1>6. full = [ifClause |-> a \o states, thenClause |-> b]
  BY DEF FullRule
<1>7. \A c \in OKs : ClauseOK(c, t)
  OBVIOUS
<1> HIDE DEF event, states, action, full, OKs
<1>8. a \in Seq(OKs) /\ Len(a) = 1 /\ a[1] = event
  BY <1>5
<1>9. states \in Seq(OKs) /\ Len(states) = Len(row.Striggers)
  BY <1>2, <1>4
<1>10. IsSeq(b) /\ Len(b) = 1 /\ DOMAIN b = 1 .. 1 /\ b[1] = action
  BY OneIs
<1> HIDE DEF a, b
<1> DEFINE s == a \o states
<1>11. /\ s \in Seq(OKs) /\ Len(s) = 1 + Len(row.Striggers)
  BY <1>8, <1>9, ConcatProperties
<1> HIDE DEF s
<1>12. IsSeq(s) /\ Len(s) <= MaxClauses /\ \A k \in DOMAIN s : s[k] \in OKs
  BY <1>2, <1>11, SeqIs, EditorAssumption
<1>13. \A c \in Members(s) : ClauseOK(c, t)
  BY <1>7, <1>12 DEF Members
<1>14. \A c \in Members(b) : c # NoClause /\ Of(c, t)
  BY <1>1, <1>10 DEF Members
<1>15. DOMAIN full = {"ifClause", "thenClause"} /\ full.ifClause = s /\ full.thenClause = b
  BY <1>6 DEF s
<1>16. IsSeq(b) /\ Len(b) <= 1
  BY <1>10
<1>17. StagedOK(full, t)
  BY <1>12, <1>13, <1>14, <1>15, <1>16, Zenon DEF StagedOK
<1>18. QED
  BY <1>17 DEF full

LEMMA fe_get_full_ruleT ==
  ASSUME TInv, NEW i, fe_get_full_rule(i)
  PROVE  TInv'
<1> DEFINE id == calls[i].args.id  a == FullRule(rule[id])  c == [calls[i] EXCEPT !.answer = a]
<1>1. /\ i \in DOMAIN calls /\ calls[i].kind = "full" /\ calls[i].answer = NoAnswer
      /\ UNCHANGED <<server, tab, history>>
      /\ (id \in DOMAIN rule /\ Answer(i, a)) \/ Refuse(i)
  BY DEF fe_get_full_rule, Waiting
<1>2. next_id <= next_id /\ next_id \in Nat
  BY TParts
<1> HIDE DEF id
<1>3. CASE Refuse(i)
  <2>1. /\ CallsOK(calls', next_id, tangled) /\ AskedOK(calls', tab, tangled)
        /\ Cardinality(Saving(calls', 0)) \in Nat
        /\ Cardinality(Saving(calls', 0)) <= Cardinality(Saving(calls, 0))
    BY <1>1, <1>2, <1>3, RefuseStep
  <2>2. QED
    BY <1>1, <2>1, BackendOK DEF server, history
<1>4. CASE id \in DOMAIN rule /\ Answer(i, a)
  <2>1. StagedOK(a, tangled)
    BY <1>4, TParts, FullRuleOK DEF ServerOK
  <2>2. a # NoAnswer
    <3>1. "ifClause" \in DOMAIN a /\ "ifClause" \notin DOMAIN NoAnswer
      BY <2>1 DEF StagedOK, NoAnswer
    <3>2. QED
      BY <3>1
  <2>3. Answer(i, a)
    BY <1>4
  <2> HIDE DEF a
  <2>4. c.answer = a /\ c.kind = "full"
    BY <1>1, TParts DEF Proper, CallFields
  <2> HIDE DEF c
  <2>5. AnswerOK(c, next_id, tangled)
    BY <2>1, <2>4 DEF AnswerOK
  <2>6. AnswerOK([calls[i] EXCEPT !.answer = a], next_id, tangled)
    BY <2>5 DEF c
  <2>7. /\ CallsOK(calls', next_id, tangled) /\ AskedOK(calls', tab, tangled)
        /\ Cardinality(Saving(calls', 0)) \in Nat
        /\ Cardinality(Saving(calls', 0)) <= Cardinality(Saving(calls, 0))
    BY <1>1, <1>2, <2>2, <2>3, <2>6, AnswerStep
  <2>8. QED
    BY <1>1, <2>7, BackendOK DEF server, history
<1>5. QED
  BY <1>1, <1>3, <1>4

(* The order of the natural numbers, as a relation                         *)
LessThanNat == OpToRel(<, Nat)

(* A nonempty set of natural numbers has a least element.                  *)
LEMMA LeastElement ==
  ASSUME NEW S, S \subseteq Nat, S # {}
  PROVE  \E m \in S : \A n \in S : m <= n
<1>1. IsWellFoundedOn(LessThanNat, Nat)
  BY NatLessThanWellFounded, Zenon DEF LessThanNat
<1>2. LessThanNat = {ss \in Nat \X Nat : ss[1] < ss[2]}
  BY Zenon DEF OpToRel, LessThanNat
<1>3. PICK m \in S : \A n \in S : <<n, m>> \notin LessThanNat
  BY <1>1, WFMin
<1>4. ASSUME NEW n \in S PROVE ~ (n < m)
  <2>1. <<n, m>> \notin LessThanNat
    BY <1>3
  <2>2. QED
    BY <1>2, <2>1
<1>5. QED
  BY <1>4

(* The conditions are saved up to the first that cannot be.                *)
SavedUpTo(conditions, n) ==
    /\ \A i \in 1 .. n : Storable(conditions[i])
    /\ n < Len(conditions) => ~ Storable(conditions[n + 1])
LEMMA SavedStatesIs ==
  ASSUME NEW conditions, IsSeq(conditions)
  PROVE  \E n \in 0 .. Len(conditions) :
            /\ SavedUpTo(conditions, n)
            /\ SavedStates(conditions) = [i \in 1 .. n |-> Stored(conditions[i])]
<1> DEFINE n == CHOOSE n \in 0 .. Len(conditions) : SavedUpTo(conditions, n)
           Bad == {i \in 1 .. Len(conditions) : ~ Storable(conditions[i])}
<1>1. Len(conditions) \in Nat
  BY SeqHas
<1>2. \E m \in 0 .. Len(conditions) : SavedUpTo(conditions, m)
  <2>1. CASE Bad = {}
    <3>1. SavedUpTo(conditions, Len(conditions))
      BY <1>1, <2>1 DEF SavedUpTo
    <3>2. QED
      BY <1>1, <3>1
  <2>2. CASE Bad # {}
    <3>1. Bad \subseteq Nat
      BY <1>1
    <3>2. PICK m \in Bad : \A k \in Bad : m <= k
      BY <2>2, <3>1, LeastElement
    <3>3. m - 1 \in 0 .. Len(conditions) /\ (m - 1) + 1 = m /\ m \in 1 .. Len(conditions)
      BY <1>1, <3>2
    <3>4. \A k \in 1 .. (m - 1) : Storable(conditions[k])
      <4> SUFFICES ASSUME NEW k \in 1 .. (m - 1)
                   PROVE  Storable(conditions[k])
        OBVIOUS
      <4>1. k \in 1 .. Len(conditions) /\ ~ (m <= k)
        BY <1>1, <3>3
      <4>2. k \notin Bad
        BY <3>2, <4>1
      <4>3. QED
        BY <4>1, <4>2
    <3>5. ~ Storable(conditions[m])
      BY <3>2
    <3>6. SavedUpTo(conditions, m - 1)
      BY <3>3, <3>4, <3>5 DEF SavedUpTo
    <3>7. QED
      BY <3>3, <3>6
  <2>3. QED
    BY <2>1, <2>2
<1>3. n \in 0 .. Len(conditions) /\ SavedUpTo(conditions, n)
  BY <1>2
<1>4. SavedStates(conditions) = [i \in 1 .. n |-> Stored(conditions[i])]
  BY Zenon DEF SavedStates, SavedUpTo
<1> HIDE DEF n
<1>5. QED
  BY <1>3, <1>4
LEMMA StoredOK ==
  ASSUME NEW c, NEW t, Of(c, t)
  PROVE  Of(Stored(c), t) /\ Of(StoredAction(c), t)
<1>1. /\ Stored(c).device = c.device /\ Stored(c).par = c.par
      /\ StoredAction(c).device = c.device /\ StoredAction(c).par = c.par
  BY DEF Stored, StoredAction
<1>2. QED
  BY <1>1, Zenon DEF Of

LEMMA SplitIs ==
  ASSUME NEW s, IsSeq(s), s # <<>>
  PROVE  /\ 1 \in DOMAIN s /\ Head(s) = s[1]
         /\ IsSeq(Tail(s)) /\ Len(Tail(s)) = Len(s) - 1 /\ Len(Tail(s)) \in Nat
         /\ \A k \in 1 .. Len(Tail(s)) : Tail(s)[k] = s[k + 1] /\ k + 1 \in DOMAIN s
<1> DEFINE S == Members(s)
<1>1. s \in Seq(S) /\ Len(s) \in Nat /\ DOMAIN s = 1 .. Len(s)
  BY SeqHas DEF IsSeq
<1> HIDE DEF S
<1>2. Len(s) # 0
  BY <1>1
<1>3. Tail(s) \in Seq(S) /\ Len(Tail(s)) = Len(s) - 1
  BY <1>1
<1>4. IsSeq(Tail(s))
  BY <1>3, SeqIs
<1>5. \A k \in 1 .. (Len(s) - 1) : Tail(s)[k] = s[k + 1]
  BY <1>1
<1>6. QED
  BY <1>1, <1>2, <1>3, <1>4, <1>5

(* The row of a rule                                                       *)
NewRow(st, loc) ==
    [loc |-> loc, Etrigger |-> Stored(Head(st.ifClause)),
     Striggers |-> SavedStates(Tail(st.ifClause)), action |-> StoredAction(Head(st.thenClause))]
LEMMA NewRowOK ==
  ASSUME NEW st, NEW t, StagedOK(st, t), st.ifClause # <<>>, st.thenClause # <<>>,
         Storable(Head(st.ifClause)), NEW loc \in Tasks
  PROVE  RuleOK(NewRow(st, loc), t)
<1> DEFINE conditions == Tail(st.ifClause)  row == NewRow(st, loc)
<1>0. ~ Storable(NoClause)
  BY DEF Storable, NoClause
<1>1. \A c : ClauseOK(c, t) /\ Storable(c) => Of(Stored(c), t)
  BY <1>0, StoredOK DEF ClauseOK
<1>2. /\ 1 \in DOMAIN st.ifClause /\ Head(st.ifClause) = st.ifClause[1]
      /\ IsSeq(conditions) /\ Len(conditions) = Len(st.ifClause) - 1 /\ Len(conditions) \in Nat
      /\ \A k \in 1 .. Len(conditions) : conditions[k] = st.ifClause[k + 1] /\ k + 1 \in DOMAIN st.ifClause
  BY SplitIs DEF StagedOK
<1>3. 1 \in DOMAIN st.thenClause /\ Head(st.thenClause) = st.thenClause[1]
  BY SplitIs DEF StagedOK
<1>4. \A k \in DOMAIN st.ifClause : ClauseOK(st.ifClause[k], t)
  BY DEF StagedOK, Members
<1>5. Of(Stored(Head(st.ifClause)), t)
  BY <1>1, <1>2, <1>4
<1>6. Of(StoredAction(Head(st.thenClause)), t)
  BY <1>3, StoredOK DEF StagedOK, Members
<1>7. \A k \in 1 .. Len(conditions) : ClauseOK(conditions[k], t)
  BY <1>2, <1>4
<1> HIDE DEF conditions
<1>8. PICK n \in 0 .. Len(conditions) :
          /\ SavedUpTo(conditions, n)
          /\ SavedStates(conditions) = [i \in 1 .. n |-> Stored(conditions[i])]
  BY <1>2, SavedStatesIs
<1> DEFINE states == [i \in 1 .. n |-> Stored(conditions[i])]
<1>9. \A k \in 1 .. n : Of(states[k], t)
  BY <1>1, <1>2, <1>7, <1>8 DEF SavedUpTo
<1>10. states \in [1 .. n -> {c \in {states[k] : k \in 1 .. n} : Of(c, t)}] /\ n \in Nat
  BY <1>2, <1>9
<1> HIDE DEF states
<1>11. IsSeq(states) /\ Len(states) = n /\ DOMAIN states = 1 .. n
  BY <1>10, SeqMade
<1>12. \A c \in Members(states) : Of(c, t)
  BY <1>9, <1>11 DEF Members
<1>13. n < MaxClauses
  BY <1>2, <1>8, EditorAssumption DEF StagedOK
<1>14. /\ row.loc = loc /\ row.Etrigger = Stored(Head(st.ifClause))
       /\ row.Striggers = SavedStates(conditions) /\ row.action = StoredAction(Head(st.thenClause))
  BY DEF NewRow, conditions
<1>15. row.Striggers = states
  BY <1>8, <1>14 DEF states
<1> HIDE DEF row
<1>16. Len(row.Striggers) < MaxClauses
  BY <1>11, <1>13, <1>15
<1>17. RuleOK(row, t)
  BY <1>5, <1>6, <1>11, <1>12, <1>14, <1>15, <1>16, Zenon DEF RuleOK
<1>18. QED
  BY <1>17 DEF row

(* What it does: nothing, or a row is written.                             *)
CreateRefused(i) == Refuse(i) /\ UNCHANGED <<rule, next_id, credit, meant>>
CreateSaved(i) ==
    LET new == calls[i].args
        id == IF new.id = 0 THEN next_id ELSE new.id
        row == NewRow(new.rule, IF new.id = 0 THEN new.loc ELSE rule[id].loc)
    IN  /\ new.loc = session /\ Storable(Head(new.rule.ifClause)) /\ new.id \in DOMAIN rule \cup {0}
        /\ rule' = [other \in DOMAIN rule \cup {id} |-> IF other = id THEN row ELSE rule[other]]
        /\ next_id' = IF new.id = 0 THEN next_id + 1 ELSE next_id
        /\ Answer(i, Saved) \/ Refuse(i)
        /\ credit' = IF new.id = 0 THEN credit ELSE [credit EXCEPT ![id] = @ - 1]
LEMMA CreateIs ==
  ASSUME NEW i, fe_create_esrule(i)
  PROVE  /\ i \in DOMAIN calls /\ calls[i].kind = "new" /\ calls[i].answer = NoAnswer
         /\ UNCHANGED <<session, scenario, arriving, tab, tangled, overlapped>>
         /\ CreateRefused(i) \/ CreateSaved(i)
  BY DEF fe_create_esrule, Waiting, CreateRefused, CreateSaved, NewRow, check_access_to_location

LEMMA fe_create_esruleT ==
  ASSUME TInv, NEW i, fe_create_esrule(i)
  PROVE  TInv'
<1>1. /\ i \in DOMAIN calls /\ calls[i].kind = "new" /\ calls[i].answer = NoAnswer
      /\ UNCHANGED <<session, scenario, arriving, tab, tangled, overlapped>>
      /\ CreateRefused(i) \/ CreateSaved(i)
  BY CreateIs
<1>2. next_id <= next_id /\ next_id \in Nat
  BY TParts
<1>3. CASE CreateRefused(i)
  <2>1. /\ CallsOK(calls', next_id, tangled) /\ AskedOK(calls', tab, tangled)
        /\ Cardinality(Saving(calls', 0)) \in Nat
        /\ Cardinality(Saving(calls', 0)) <= Cardinality(Saving(calls, 0))
    BY <1>1, <1>2, <1>3, RefuseStep DEF CreateRefused
  <2>2. QED
    BY <1>1, <1>3, <2>1, BackendOK DEF CreateRefused
<1>4. CASE CreateSaved(i)
  <2> DEFINE new == calls[i].args
             id == IF new.id = 0 THEN next_id ELSE new.id
             loc == IF new.id = 0 THEN new.loc ELSE rule[id].loc
             row == NewRow(new.rule, loc)
             n == IF new.id = 0 THEN next_id + 1 ELSE next_id
  <2>1. /\ new.loc = session /\ Storable(Head(new.rule.ifClause)) /\ new.id \in DOMAIN rule \cup {0}
        /\ rule' = [other \in DOMAIN rule \cup {id} |-> IF other = id THEN row ELSE rule[other]]
        /\ next_id' = n /\ (Answer(i, Saved) \/ Refuse(i))
    BY <1>4 DEF CreateSaved
  <2>2. CallOK(calls[i], next_id, tangled)
    BY <1>1, TParts DEF CallsOK
  <2>3. /\ StagedOK(new.rule, tangled) /\ new.rule.ifClause # <<>> /\ new.rule.thenClause # <<>>
        /\ new.id \in 0 .. (next_id - 1)
    BY <1>1, <2>2 DEF CallOK
  <2>4. /\ n \in Nat /\ next_id <= n /\ id \in 1 .. (n - 1)
        /\ DOMAIN rule \subseteq 1 .. (n - 1)
    BY <1>2, <2>3, TParts, EditorAssumption DEF ServerOK
  <2>5. loc \in Tasks
    BY <2>1, TParts DEF ServerOK, RuleOK
  <2> HIDE DEF loc
  <2>6. RuleOK(row, tangled)
    BY <2>1, <2>3, <2>5, NewRowOK
  <2> HIDE DEF row
  <2>7. /\ CallsOK(calls', n, tangled) /\ AskedOK(calls', tab, tangled)
        /\ Cardinality(Saving(calls', 0)) \in Nat
        /\ Cardinality(Saving(calls', 0)) <= Cardinality(Saving(calls, 0))
        /\ i \in Saving(calls, 0) =>
              Cardinality(Saving(calls', 0)) <= Cardinality(Saving(calls, 0)) - 1
    <3> HIDE DEF n, id
    <3>1. CASE Refuse(i)
      BY <1>1, <2>4, <3>1, RefuseStep
    <3>2. CASE Answer(i, Saved)
      <4> DEFINE c == [calls[i] EXCEPT !.answer = Saved]
      <4>1. c.kind = "new"
        BY <1>1, TParts DEF Proper, CallFields
      <4> HIDE DEF c
      <4>2. AnswerOK(c, n, tangled)
        BY <4>1 DEF AnswerOK
      <4>3. AnswerOK([calls[i] EXCEPT !.answer = Saved], n, tangled)
        BY <4>2 DEF c
      <4>4. Saved # NoAnswer
        <5>1. "none" \notin DOMAIN Saved /\ "none" \in DOMAIN NoAnswer
          BY DEF Saved, NoAnswer
        <5>2. QED
          BY <5>1
      <4>5. QED
        BY <1>1, <2>4, <3>2, <4>3, <4>4, AnswerStep
    <3>3. QED
      BY <2>1, <3>1, <3>2
  <2>8. n + Cardinality(Saving(calls', 0)) <= MaxRules + 1
    <3>1. Cardinality(Saving(calls, 0)) \in Nat /\ MaxRules \in Nat
          /\ next_id + Cardinality(Saving(calls, 0)) <= MaxRules + 1
      BY TParts, EditorAssumption DEF TInv
    <3>2. new.id = 0 => i \in Saving(calls, 0)
      BY <1>1 DEF Saving
    <3>3. QED
      BY <1>2, <2>7, <3>1, <3>2
  <2>9. ServerOK'
    <3>1. \A o \in DOMAIN rule' : RuleOK(rule'[o], tangled)
      BY <2>1, <2>6, TParts DEF ServerOK
    <3>2. n \in 1 .. (MaxRules + 1)
      BY <2>4, <2>7, <2>8, EditorAssumption
    <3>3. DOMAIN rule' \subseteq 1 .. (n - 1)
      BY <2>1, <2>4
    <3>4. tangled' = tangled
      BY <1>1
    <3>5. \A o \in DOMAIN rule' : RuleOK(rule'[o], tangled')
      BY <3>1, <3>4
    <3> HIDE DEF n
    <3>6. /\ session' \in Tasks /\ scenario' \in Tasks /\ arriving' \in Tasks \cup {0}
          /\ scenario' = IF arriving' = 0 THEN session' ELSE arriving'
          /\ tangled' \in BOOLEAN /\ overlapped' \in BOOLEAN
      BY <1>1, TParts DEF ServerOK
    <3>7. next_id' \in 1 .. (MaxRules + 1) /\ DOMAIN rule' \subseteq 1 .. (next_id' - 1)
      BY <2>1, <3>2, <3>3
    <3>8. QED
      BY <3>5, <3>6, <3>7 DEF ServerOK, RuleOK, Of
  <2> HIDE DEF n
  <2>10. TabOK(tab, n, tangled)
    BY <1>2, <2>4, TParts, TabMore
  <2>11. QED
    BY <1>1, <2>1, <2>7, <2>8, <2>9, <2>10 DEF TInv
<1>5. QED
  BY <1>1, <1>3, <1>4

-----------------------------------------------------------------------------
(* The session, and all steps                                              *)
LEMMA SessionT ==
  ASSUME TInv, SaveSession \/ \E task \in Tasks : OpenTask(task)
  PROVE  TInv'
<1>1. /\ UNCHANGED <<rule, next_id, tab, calls, tangled, overlapped>>
      /\ session' \in Tasks /\ scenario' \in Tasks /\ arriving' \in Tasks \cup {0}
      /\ scenario' = IF arriving' = 0 THEN session' ELSE arriving'
  BY TParts, EditorAssumption DEF SaveSession, OpenTask, history, ServerOK
<1>2. ServerOK'
  BY <1>1, TParts DEF ServerOK, RuleOK, Of
<1>3. QED
  BY <1>1, <1>2, TParts DEF TInv

LEMMA QuietStepT ==
  ASSUME TInv, UNCHANGED <<server, tab, calls, tangled, overlapped>>
  PROVE  TInv'
<1>1. ServerOK'
  BY TParts DEF ServerOK, RuleOK, Of, server
<1>2. QED
  BY <1>1, TParts DEF TInv, server

(* The steps of Next, without the count of clicks                          *)
Step ==
    \/ Click
    \/ \E i \in 1 .. MaxCalls :
          \/ AnswerRules(i) \/ fe_get_loc_token(i) \/ fe_get_full_rule(i)
          \/ fe_create_esrule(i) \/ fe_delete_rule(i)
          \/ RulesArrive(i) \/ TokenArrives(i) \/ FullRuleArrives(i) \/ ParamsArrive(i) \/ FormArrives(i)
          \/ NewRuleArrives(i) \/ DeleteArrives(i)
    \/ SaveSession
LEMMA NextIsStep == Next => Step
  BY DEF Next, Step

LEMMA ClickT ==
  ASSUME TInv, Click
  PROVE  TInv'
<1>1. CASE gotoCreate BY <1>1, gotoCreateT
<1>2. CASE goToRulesHome BY <1>2, goToRulesHomeT
<1>3. CASE reloadForRuleClear BY <1>3, reloadForRuleClearT
<1>4. CASE Back BY <1>4, BackT
<1>5. CASE \E id \in 1 .. MaxRules : editRule(id) \/ deleteRule(id)
  BY <1>5, editRuleT, deleteRuleT
<1>6. CASE \E type \in {"trigger", "action"}, index \in 0 .. MaxClauses : gotoZoneSelector(type, index)
  <2>1. 0 .. MaxClauses \subseteq Nat
    BY EditorAssumption
  <2>2. QED
    BY <1>6, <2>1, gotoZoneSelectorT
<1>7. CASE \E device \in DOMAIN Devices : gotoParameterConfiguration(device)
  BY <1>7, gotoParameterConfigurationT
<1>8. CASE completeParameterSelect BY <1>8, completeParameterSelectT
<1>9. CASE finishRule BY <1>9, finishRuleT
<1>10. CASE OpenSite BY <1>10, OpenSiteT
<1>11. CASE \E task \in Tasks : OpenTask(task)
  BY <1>11, SessionT
<1>12. QED
  BY <1>1, <1>2, <1>3, <1>4, <1>5, <1>6, <1>7, <1>8, <1>9, <1>10, <1>11 DEF Click

LEMMA StepT ==
  ASSUME TInv, [Next]_vars
  PROVE  TInv'
<1>1. CASE Step
  <2>1. CASE Click BY <2>1, ClickT
  <2>2. CASE SaveSession BY <2>2, SessionT
  <2>3. ASSUME NEW i, AnswerRules(i) PROVE TInv' BY <2>3, AnswerRulesT
  <2>4. ASSUME NEW i, fe_get_loc_token(i) PROVE TInv' BY <2>4, fe_get_loc_tokenT
  <2>5. ASSUME NEW i, fe_get_full_rule(i) PROVE TInv' BY <2>5, fe_get_full_ruleT
  <2>6. ASSUME NEW i, fe_create_esrule(i) PROVE TInv' BY <2>6, fe_create_esruleT
  <2>7. ASSUME NEW i, fe_delete_rule(i) PROVE TInv' BY <2>7, fe_delete_ruleT
  <2>8. ASSUME NEW i, RulesArrive(i) PROVE TInv' BY <2>8, RulesArriveT
  <2>9. ASSUME NEW i, TokenArrives(i) PROVE TInv' BY <2>9, TokenArrivesT
  <2>10. ASSUME NEW i, FullRuleArrives(i) PROVE TInv' BY <2>10, FullRuleArrivesT
  <2>11. ASSUME NEW i, ParamsArrive(i) PROVE TInv' BY <2>11, ParamsArriveT
  <2>12. ASSUME NEW i, FormArrives(i) PROVE TInv' BY <2>12, FormArrivesT
  <2>13. ASSUME NEW i, NewRuleArrives(i) PROVE TInv' BY <2>13, NewRuleArrivesT
  <2>14. ASSUME NEW i, DeleteArrives(i) PROVE TInv' BY <2>14, DeleteArrivesT
  <2>15. QED
    BY <1>1, <2>1, <2>2, <2>3, <2>4, <2>5, <2>6, <2>7, <2>8, <2>9, <2>10, <2>11, <2>12, <2>13, <2>14
    DEF Step
<1>2. CASE UNCHANGED vars
  <2>1. UNCHANGED <<server, tab, calls, tangled, overlapped>>
    BY <1>2 DEF vars, history
  <2>2. QED
    BY <2>1, QuietStepT
<1>3. QED
  BY <1>1, <1>2, NextIsStep
LEMMA RowMade ==
  ASSUME NEW row, MadeRule(row)
  PROVE  RuleOK(row, FALSE)
<1>1. Of(row.Etrigger, FALSE) /\ Of(row.action, FALSE)
  BY DEF MadeRule, Made, Of
<1>2. \A state \in Members(row.Striggers) : Of(state, FALSE)
  BY DEF MadeRule, Made, Of
<1>3. QED
  BY <1>1, <1>2 DEF MadeRule, RuleOK, IsSeq

LEMMA InitT ==
  ASSUME Init
  PROVE  TInv
<1> DEFINE call == RulesCall(TRUE)
<1>1. /\ rule = FirstRules /\ next_id = Len(FirstRules) + 1 /\ tangled = FALSE /\ overlapped = FALSE
      /\ tab = Loading("rules") /\ calls = <<call>> /\ arriving = 0
      /\ session \in Tasks /\ scenario = session
  BY DEF Init
<1>2. IsSeq(FirstRules) /\ Len(FirstRules) <= MaxRules /\ MaxRules \in Nat /\ MaxCalls \in Nat \ {0}
      /\ \A row \in Members(FirstRules) : MadeRule(row)
  BY EditorAssumption DEF IsSeq
<1>3. Len(FirstRules) \in Nat /\ DOMAIN FirstRules = 1 .. Len(FirstRules)
  BY <1>2, SeqHas
<1>4. \A id \in DOMAIN rule : RuleOK(rule[id], tangled)
  BY <1>1, <1>2, RowMade DEF Members
<1>5. /\ next_id \in 1 .. (MaxRules + 1) /\ next_id \in Nat /\ next_id - 1 = Len(FirstRules)
      /\ DOMAIN rule \subseteq 1 .. (next_id - 1)
  BY <1>1, <1>2, <1>3
<1>6. ServerOK
  BY <1>1, <1>4, <1>5 DEF ServerOK
<1>7. DOMAIN NoRules = {}
  BY DEF NoRules
<1>8. TabOK(tab, next_id, tangled) /\ tab.clause = NoClause
  BY <1>1, <1>7 DEF Loading, TabOK, TabFields, Pages, ChosenOK
<1>9. CallOK(call, next_id, tangled) /\ call.kind = "rules"
  BY CallIs DEF RulesCall, Kinds, Choosing
<1> HIDE DEF call
<1>10. IsSeq(calls) /\ Len(calls) = 1 /\ DOMAIN calls = 1 .. 1 /\ calls[1] = call
  BY <1>1, OneIs
<1>11. CallsOK(calls, next_id, tangled)
  BY <1>2, <1>9, <1>10 DEF CallsOK
<1>12. AskedOK(calls, tab, tangled)
  BY <1>8 DEF AskedOK
<1>13. Saving(calls, 0) = {}
  BY <1>9, <1>10 DEF Saving
<1>14. Cardinality(Saving(calls, 0)) = 0
  BY <1>13, FS_EmptySet
<1>15. QED
  BY <1>2, <1>5, <1>6, <1>8, <1>11, <1>12, <1>14 DEF TInv

LEMMA AlwaysT == Spec => []TInv
<1>1. Init => TInv
  BY InitT
<1>2. TInv /\ [Next]_vars => TInv'
  BY StepT
<1>3. QED
  BY <1>1, <1>2, PTL DEF Spec

LEMMA StagedMembers ==
  ASSUME NEW st, NEW t, StagedOK(st, t)
  PROVE  /\ \A c \in Members(st.ifClause \o st.thenClause) : ClauseOK(c, t)
         /\ Len(st.ifClause) <= MaxClauses /\ Len(st.thenClause) <= 1
<1> DEFINE a == st.ifClause  b == st.thenClause
           S == Members(a) \cup Members(b)
<1>1. IsSeq(a) /\ IsSeq(b) /\ Len(a) <= MaxClauses /\ Len(b) <= 1
  BY DEF StagedOK
<1>2. \A c \in S : ClauseOK(c, t)
  BY DEF StagedOK, ClauseOK
<1> HIDE DEF a, b
<1>3. a \in Seq(S) /\ b \in Seq(S)
  BY <1>1, SeqHas DEF IsSeq
<1> HIDE DEF S
<1>4. a \o b \in Seq(S)
  BY <1>3, ConcatProperties
<1> DEFINE s == a \o b
<1> HIDE DEF s
<1>5. \A k \in DOMAIN s : s[k] \in S
  BY <1>4 DEF s
<1>6. \A c \in Members(s) : ClauseOK(c, t)
  BY <1>2, <1>5 DEF Members
<1>7. QED
  BY <1>1, <1>6 DEF s, a, b

(* The rules, the page and the calls stay well formed whatever the user    *)
(* does and in whatever order the answers come: what is sent as a rule has *)
(* an event and an action, and a rule that is edited has been made.        *)
THEOREM TypeCorrect == Spec => []EditorTypeOK
<1>1. TInv => EditorTypeOK
  <2> SUFFICES ASSUME TInv
               PROVE  EditorTypeOK
    OBVIOUS
  <2>1. \A st : StagedOK(st, tangled) => StagedRule(st)
    <3> SUFFICES ASSUME NEW st, StagedOK(st, tangled)
                 PROVE  StagedRule(st)
      OBVIOUS
    <3>1. \A c : ClauseOK(c, tangled) =>
              c = NoClause \/ (c.device \in DOMAIN Devices /\ c.par \in DOMAIN Devices)
      BY DEF ClauseOK, Of
    <3>2. /\ \A c \in Members(st.ifClause \o st.thenClause) : ClauseOK(c, tangled)
          /\ Len(st.ifClause) <= MaxClauses /\ Len(st.thenClause) <= 1
      BY StagedMembers
    <3>3. \A c \in Members(st.ifClause \o st.thenClause) :
              c = NoClause \/ (c.device \in DOMAIN Devices /\ c.par \in DOMAIN Devices)
      BY <3>1, <3>2
    <3>4. QED
      BY <3>2, <3>3, Zenon DEF StagedRule
  <2>2. /\ TabOK(tab, next_id, tangled) /\ CallsOK(calls, next_id, tangled) /\ ServerOK
    BY TParts
  <2>3. \A id \in DOMAIN rule : rule[id].loc \in Tasks /\ Len(rule[id].Striggers) < MaxClauses
    BY <2>2 DEF ServerOK, RuleOK
  <2>4. \A i \in DOMAIN calls :
          /\ calls[i].kind \in Kinds
          /\ calls[i].kind = "new" => /\ StagedRule(calls[i].args.rule)
                                      /\ calls[i].args.rule.ifClause # <<>>
                                      /\ calls[i].args.rule.thenClause # <<>>
    BY <2>1, <2>2 DEF CallsOK, CallOK
  <2>5. QED
    BY <2>1, <2>2, <2>3, <2>4 DEF EditorTypeOK, ServerOK, TabOK, CallsOK
<1>2. QED
  BY <1>1, AlwaysT, PTL

(* The parameter of a staged clause is one of its own device, unless       *)
(* parameters of two devices were asked for at the same time. The page     *)
(* that sets it takes the device from its address and the clause from the  *)
(* service the pages share: they agree, because each call for parameters   *)
(* in flight is for the device of the clause that is being chosen.         *)
THEOREM ClausesAlwaysFit == Spec => []ClausesFit
<1>1. TInv => ClausesFit
  <2> SUFFICES ASSUME TInv, ~ tangled, tab.staged # NoRule,
                      NEW clause \in Members(tab.staged.ifClause \o tab.staged.thenClause),
                      clause # NoClause
               PROVE  clause.par = clause.device
    BY DEF ClausesFit
  <2>1. StagedOK(tab.staged, tangled)
    BY TParts DEF TabOK
  <2>2. ClauseOK(clause, tangled)
    BY <2>1, StagedMembers
  <2>3. QED
    BY <2>2, Zenon DEF ClauseOK, Of
<1>2. QED
  BY <1>1, AlwaysT, PTL
-----------------------------------------------------------------------------
(* How often rules are overwritten                                         *)

(* No more is being saved after a step than was before it.                 *)
NoMoreSaved == \A id : Cardinality(Saving(calls', id)) <= Cardinality(Saving(calls, id))
SameEdited(t) == t.editing = tab.editing /\ t.editingRuleID = tab.editingRuleID

LEMMA SavingNat ==
  ASSUME TInv
  PROVE  \A id : Cardinality(Saving(calls, id)) \in Nat
  BY TParts, SavingFinite

LEMMA SavingNatAfter ==
  ASSUME TInv'
  PROVE  \A id : Cardinality(Saving(calls', id)) \in Nat
<1>1. IsSeq(calls')
  BY DEF TInv, CallsOK
<1>2. QED
  BY <1>1, SavingFinite

LEMMA CreditSame ==
  ASSUME TInv, TInv', CInv, UNCHANGED credit, NoMoreSaved,
         \A id : Editing(tab', id) = Editing(tab, id) \/ Editing(tab', id) = 0
  PROVE  CInv'
<1> SUFFICES ASSUME NEW id \in 1 .. MaxRules
             PROVE  credit[id] \in Int /\ credit[id] >= Cardinality(Saving(calls', id)) + Editing(tab', id)
  BY DEF CInv
<1>1. credit[id] \in Int /\ credit[id] >= Cardinality(Saving(calls, id)) + Editing(tab, id)
  BY DEF CInv
<1>2. Editing(tab, id) \in {0, 1} /\ Editing(tab', id) \in {0, 1}
  BY DEF Editing
<1>3. /\ Cardinality(Saving(calls, id)) \in Nat /\ Cardinality(Saving(calls', id)) \in Nat
      /\ Cardinality(Saving(calls', id)) <= Cardinality(Saving(calls, id))
  BY SavingNat, SavingNatAfter DEF NoMoreSaved
<1>4. Editing(tab', id) <= Editing(tab, id)
  BY <1>2
<1> DEFINE x == Cardinality(Saving(calls, id))  y == Cardinality(Saving(calls', id))
           e == Editing(tab, id)  f == Editing(tab', id)
<1> HIDE DEF x, y, e, f
<1>5. credit[id] >= y + f
  BY <1>1, <1>2, <1>3, <1>4 DEF x, y, e, f
<1>6. QED
  BY <1>1, <1>5 DEF y, f

LEMMA EditingSame ==
  ASSUME NEW t, SameEdited(t)
  PROVE  \A id : Editing(t, id) = Editing(tab, id)
  BY DEF SameEdited, Editing

LEMMA QuietNoMore ==
  ASSUME TInv, NEW out, NEW cs, Kept(cs, calls, out), Quiet(cs)
  PROVE  NoMoreSaved
<1>1. \A id : Cardinality(Saving(cs, id)) <= Cardinality(Saving(calls, id))
  BY TParts, KeptSaving
<1>2. QED
  BY <1>1 DEF NoMoreSaved, Quiet

LEMMA SendNoMore ==
  ASSUME TInv, NEW out, NEW cs, Kept(cs, calls, out), NEW call, Send(cs, call), call.kind # "new"
  PROVE  NoMoreSaved
<1>1. \A id : Cardinality(Saving(Append(cs, call), id)) <= Cardinality(Saving(calls, id))
  BY TParts, SavingOther
<1>2. QED
  BY <1>1 DEF NoMoreSaved, Send

LEMMA CallKinds ==
  \A args, live :
      /\ Call("rules", args, live).kind = "rules" /\ Call("full", args, live).kind = "full"
      /\ Call("params", args, live).kind = "params" /\ Call("form", args, live).kind = "form"
      /\ Call("delete", args, live).kind = "delete" /\ Call("token", args, live).kind = "token"
  BY DEF Call

LEMMA EnterRulesSaves ==
  ASSUME TInv, NEW t, TabOK(t, next_id, tangled), NEW out, NEW cs, Kept(cs, calls, out), EnterRules(t, cs)
  PROVE  NoMoreSaved /\ tab'.editing = t.editing /\ tab'.editingRuleID = t.editingRuleID
<1>1. Kept(Left(cs), calls, out) /\ Send(Left(cs), RulesCall(TRUE))
  BY KeptLeft DEF EnterRules
<1>2. RulesCall(TRUE).kind # "new"
  BY CallKinds DEF RulesCall
<1>3. NoMoreSaved
  BY <1>1, <1>2, SendNoMore
<1>4. tab' = Entered(t, "rules")
  BY DEF EnterRules
<1>5. QED
  BY <1>3, <1>4, EnteredOK DEF Pages

LEMMA EnterCreateSaves ==
  ASSUME TInv, NEW t, TabOK(t, next_id, tangled), NEW out, NEW cs, Kept(cs, calls, out), EnterCreate(t, cs)
  PROVE  NoMoreSaved /\ tab'.editing = t.editing /\ tab'.editingRuleID = t.editingRuleID
<1>1. Kept(Left(cs), calls, out)
  BY KeptLeft
<1>2. NoMoreSaved
  <2>1. CASE Quiet(Left(cs))
    BY <1>1, <2>1, QuietNoMore
  <2>2. ASSUME NEW args, Send(Left(cs), Call("full", args, FALSE))
        PROVE  NoMoreSaved
    <3>1. Call("full", args, FALSE).kind # "new"
      BY CallKinds
    <3>2. QED
      BY <1>1, <2>2, <3>1, SendNoMore
  <2>3. QED
    BY <2>1, <2>2 DEF EnterCreate
<1> DEFINE e == Entered(t, "create")
<1>3. DOMAIN e = TabFields /\ e.editing = t.editing /\ e.editingRuleID = t.editingRuleID
  BY EnteredOK DEF Pages, TabOK
<1>4. tab' = [e EXCEPT !.stopLoadingEdit = TRUE, !.staged = Staged(@)]
  BY DEF EnterCreate
<1> HIDE DEF e
<1>5. tab'.editing = e.editing /\ tab'.editingRuleID = e.editingRuleID
  BY <1>3, <1>4 DEF TabFields
<1>6. QED
  BY <1>2, <1>3, <1>5

(* The clicks: two of them concern rules that are saved.                   *)
LEMMA editRuleC ==
  ASSUME TInv, TInv', CInv, NEW id \in 1 .. MaxRules, editRule(id)
  PROVE  CInv'
<1> DEFINE tb == [tab EXCEPT !.editingRuleID = id, !.editing = TRUE, !.stopLoadingEdit = FALSE]
<1>1. TabOK(tab, next_id, tangled)
  BY TParts
<1>2. id \in 1 .. (next_id - 1)
  BY <1>1 DEF editRule, TabOK
<1>3. TabOK(tb, next_id, tangled) /\ tb.editing = TRUE /\ tb.editingRuleID = id
  <2>1. TabOK(tb, next_id, tangled)
    BY <1>1, <1>2, EditedOK
  <2>2. DOMAIN tab = TabFields
    BY <1>1 DEF TabOK
  <2>3. tb.editing = TRUE /\ tb.editingRuleID = id
    BY <2>2 DEF TabFields
  <2>4. QED
    BY <2>1, <2>3
<1>4. EnterCreate(tb, calls) /\ credit' = [credit EXCEPT ![id] = IF @ > MaxCalls THEN @ ELSE @ + 1]
  BY DEF editRule
<1> HIDE DEF tb
<1>5. NoMoreSaved /\ tab'.editing = TRUE /\ tab'.editingRuleID = id
  <2>1. Kept(calls, calls, {})
    BY TParts, KeptSame
  <2>2. NoMoreSaved /\ tab'.editing = tb.editing /\ tab'.editingRuleID = tb.editingRuleID
    BY <1>3, <1>4, <2>1, EnterCreateSaves
  <2>3. QED
    BY <1>3, <2>2
<1>6. DOMAIN credit' = 1 .. MaxRules
  BY <1>4 DEF CInv
<1>7. ASSUME NEW o \in 1 .. MaxRules
      PROVE  credit'[o] \in Int /\ credit'[o] >= Cardinality(Saving(calls', o)) + Editing(tab', o)
  <2> DEFINE x == Cardinality(Saving(calls, o))  y == Cardinality(Saving(calls', o))
  <2>1. x \in Nat /\ y \in Nat /\ y <= x
    BY <1>5, SavingNat, SavingNatAfter DEF NoMoreSaved
  <2>2. credit[o] \in Int /\ credit[o] >= x + Editing(tab, o) /\ Editing(tab, o) \in {0, 1}
    BY DEF CInv, Editing
  <2>3. x <= MaxCalls
    <3>1. Saving(calls, o) \subseteq 1 .. Len(calls) /\ Len(calls) \in Nat /\ Len(calls) <= MaxCalls
      BY TParts, SeqHas DEF Saving, CallsOK
    <3>2. IsFiniteSet(1 .. Len(calls)) /\ Cardinality(1 .. Len(calls)) = Len(calls)
      <4> DEFINE n == Len(calls)
      <4>1. n \in Nat
        BY <3>1
      <4> HIDE DEF n
      <4>2. IsFiniteSet(1 .. n) /\ Cardinality(1 .. n) = IF 1 > n THEN 0 ELSE n - 1 + 1
        BY <4>1, FS_Interval
      <4>3. Cardinality(1 .. n) = n
        BY <4>1, <4>2
      <4>4. QED
        BY <4>2, <4>3 DEF n
    <3>3. Cardinality(Saving(calls, o)) <= Cardinality(1 .. Len(calls))
      BY <3>1, <3>2, FS_Subset
    <3>4. x <= Len(calls)
      BY <3>2, <3>3
    <3> HIDE DEF x
    <3>5. QED
      BY <2>1, <3>1, <3>4, EditorAssumption
  <2> HIDE DEF x, y
  <2>4. CASE o = id
    <3>1. Editing(tab', o) = 1
      BY <1>5, <2>4 DEF Editing
    <3>2. credit'[o] = IF credit[o] > MaxCalls THEN credit[o] ELSE credit[o] + 1
      BY <1>4, <2>4 DEF CInv
    <3>3. credit'[o] \in Int /\ credit'[o] >= y + 1
      BY <2>1, <2>2, <2>3, <3>2, EditorAssumption
    <3>4. QED
      BY <3>1, <3>3 DEF y
  <2>5. CASE o # id
    <3>1. Editing(tab', o) = 0 /\ credit'[o] = credit[o]
      BY <1>4, <1>5, <2>5 DEF Editing, CInv
    <3>2. credit[o] >= y
      BY <2>1, <2>2
    <3>3. QED
      BY <2>1, <2>2, <3>1, <3>2 DEF y
  <2>6. QED
    BY <2>4, <2>5
<1>8. QED
  BY <1>6, <1>7 DEF CInv

LEMMA finishRuleC ==
  ASSUME TInv, TInv', CInv, finishRule
  PROVE  CInv'
<1> DEFINE id == IF tab.editing THEN tab.editingRuleID ELSE 0
           args == [rule |-> tab.staged, loc |-> tab.current_loc, id |-> id]
           call == Call("new", args, FALSE)
<1>1. Send(calls, call) /\ tab' = AfterFinish(tab) /\ UNCHANGED credit
  BY DEF finishRule
<1>2. TabOK(tab, next_id, tangled) /\ IsSeq(calls)
  BY TParts
<1>3. tab'.editing = FALSE
  BY <1>1, <1>2, AfterFinishOK
<1> HIDE DEF id
<1>4. call.kind = "new" /\ call.answer = NoAnswer /\ call.args.id = id
  BY DEF Call
<1> HIDE DEF call
<1>5. calls' = Append(calls, call)
  BY <1>1 DEF Send
<1>6. ASSUME NEW o \in 1 .. MaxRules
      PROVE  credit'[o] \in Int /\ credit'[o] >= Cardinality(Saving(calls', o)) + Editing(tab', o)
  <2> DEFINE x == Cardinality(Saving(calls, o))  y == Cardinality(Saving(calls', o))
  <2>1. x \in Nat /\ y \in Nat
    BY SavingNat, SavingNatAfter
  <2>2. credit[o] \in Int /\ credit[o] >= x + Editing(tab, o) /\ Editing(tab, o) \in {0, 1}
    BY DEF CInv, Editing
  <2>3. Editing(tab', o) = 0 /\ credit'[o] = credit[o]
    BY <1>1, <1>3 DEF Editing
  <2>4. CASE o = id
    <3>1. tab.editing /\ tab.editingRuleID = o
      BY <2>4 DEF id
    <3>2. Editing(tab, o) = 1
      BY <3>1 DEF Editing
    <3>3. y = x + 1
      BY <1>2, <1>4, <1>5, <2>4, SavingAppend
    <3> HIDE DEF x, y
    <3>4. credit[o] >= y
      BY <2>1, <2>2, <3>2, <3>3
    <3>5. QED
      BY <2>1, <2>2, <2>3, <3>4 DEF y
  <2>5. CASE o # id
    <3>1. y = x
      BY <1>2, <1>4, <1>5, <2>5, SavingAppend
    <3> HIDE DEF x, y
    <3>2. credit[o] >= y
      BY <2>1, <2>2, <3>1
    <3>3. QED
      BY <2>1, <2>2, <2>3, <3>2 DEF y
  <2>6. QED
    BY <2>4, <2>5
<1>7. QED
  BY <1>1, <1>6 DEF CInv
(* The other clicks, and the answers that arrive                           *)
LEMMA SameC ==
  ASSUME TInv, TInv', CInv, UNCHANGED credit, NoMoreSaved, SameEdited(tab')
  PROVE  CInv'
  BY CreditSame, EditingSame

LEMMA OpenSiteC ==
  ASSUME TInv, TInv', CInv, OpenSite
  PROVE  CInv'
<1>1. PICK left \in Abandoned(calls) : Send(left, Call("token", [loc |-> "session"], FALSE))
  BY DEF OpenSite
<1> DEFINE call == Call("token", [loc |-> "session"], FALSE)
<1>2. Kept(left, calls, {})
  BY TParts, KeptAbandoned
<1>3. call.kind # "new"
  BY CallKinds
<1>4. NoMoreSaved
  BY <1>1, <1>2, <1>3, SendNoMore
<1>5. tab'.editing = FALSE /\ UNCHANGED credit
  BY DEF OpenSite, Loading
<1>6. \A id : Editing(tab', id) = 0
  BY <1>5 DEF Editing
<1>7. QED
  BY <1>4, <1>5, <1>6, CreditSame

LEMMA CreateC ==
  ASSUME TInv, TInv', CInv, NEW t, TabOK(t, next_id, tangled), SameEdited(t),
         NEW out, NEW cs, Kept(cs, calls, out), EnterCreate(t, cs), UNCHANGED credit
  PROVE  CInv'
  BY EnterCreateSaves, SameC DEF SameEdited

LEMMA RulesC ==
  ASSUME TInv, TInv', CInv, NEW t, TabOK(t, next_id, tangled), SameEdited(t),
         NEW out, NEW cs, Kept(cs, calls, out), EnterRules(t, cs), UNCHANGED credit
  PROVE  CInv'
  BY EnterRulesSaves, SameC DEF SameEdited

LEMMA QuietC ==
  ASSUME TInv, TInv', CInv, SameEdited(tab'),
         NEW out, NEW cs, Kept(cs, calls, out), Quiet(cs), UNCHANGED credit
  PROVE  CInv'
  BY QuietNoMore, SameC

LEMMA SendC ==
  ASSUME TInv, TInv', CInv, SameEdited(tab'),
         NEW out, NEW cs, Kept(cs, calls, out), NEW call, Send(cs, call), call.kind # "new",
         UNCHANGED credit
  PROVE  CInv'
  BY SendNoMore, SameC

LEMMA KeptNow ==
  ASSUME TInv
  PROVE  Kept(calls, calls, {}) /\ Kept(Left(calls), calls, {}) /\ DOMAIN tab = TabFields
         /\ TabOK(tab, next_id, tangled) /\ SameEdited(tab)
  BY TParts, KeptSame, KeptLeft DEF TabOK, SameEdited

LEMMA gotoCreateC ==
  ASSUME TInv, TInv', CInv, gotoCreate
  PROVE  CInv'
<1> DEFINE t == [tab EXCEPT !.staged = NoRule]
<1>1. TabOK(t, next_id, tangled)
  BY TParts, StagedAnew
<1>2. SameEdited(t)
  BY KeptNow DEF SameEdited, TabFields
<1>3. EnterCreate(t, calls) /\ UNCHANGED credit
  BY DEF gotoCreate
<1> HIDE DEF t
<1>4. QED
  BY <1>1, <1>2, <1>3, KeptNow, CreateC

LEMMA deleteRuleC ==
  ASSUME TInv, TInv', CInv, NEW id, deleteRule(id)
  PROVE  CInv'
<1> DEFINE call == Call("delete", [id |-> id, loc |-> tab.current_loc], TRUE)
<1>1. Send(calls, call) /\ tab' = tab /\ UNCHANGED credit
  BY DEF deleteRule
<1>2. call.kind # "new"
  BY CallKinds
<1> HIDE DEF call
<1>3. SameEdited(tab')
  BY <1>1 DEF SameEdited
<1>4. QED
  BY <1>1, <1>2, <1>3, KeptNow, SendC

LEMMA reloadForRuleClearC ==
  ASSUME TInv, TInv', CInv, reloadForRuleClear
  PROVE  CInv'
<1> DEFINE st == Staged(NoRule)  call == RulesCall(FALSE)
<1>1. /\ tab' = [tab EXCEPT !.stopLoadingEdit = TRUE, !.staged = st]
      /\ Send(Left(calls), call) /\ UNCHANGED credit
  BY DEF reloadForRuleClear
<1>2. call.kind # "new"
  BY CallKinds DEF RulesCall
<1> HIDE DEF st, call
<1>3. SameEdited(tab')
  BY <1>1, KeptNow DEF SameEdited, TabFields
<1>4. QED
  BY <1>1, <1>2, <1>3, KeptNow, SendC

LEMMA gotoZoneSelectorC ==
  ASSUME TInv, TInv', CInv, NEW type, NEW index, gotoZoneSelector(type, index)
  PROVE  CInv'
<1> DEFINE s == EnteredSelect
<1>1. /\ tab' = [s EXCEPT !.objectType = type, !.objectIndex = index]
      /\ Quiet(Left(calls)) /\ UNCHANGED credit
  BY DEF gotoZoneSelector
<1>2. DOMAIN s = TabFields /\ s.editing = tab.editing /\ s.editingRuleID = tab.editingRuleID
  BY EnteredSelectIs
<1> HIDE DEF s
<1>3. SameEdited(tab')
  BY <1>1, <1>2 DEF SameEdited, TabFields
<1>4. QED
  BY <1>1, <1>3, KeptNow, QuietC

LEMMA gotoParameterConfigurationC ==
  ASSUME TInv, TInv', CInv, NEW device, gotoParameterConfiguration(device)
  PROVE  CInv'
<1> DEFINE c == Selected(tab.clause, device)  call == Call("params", device, FALSE)
<1>1. tab' = [tab EXCEPT !.clause = c] /\ Send(calls, call) /\ UNCHANGED credit
  BY DEF gotoParameterConfiguration
<1>2. call.kind # "new"
  BY CallKinds
<1> HIDE DEF c, call
<1>3. SameEdited(tab')
  BY <1>1, KeptNow DEF SameEdited, TabFields
<1>4. QED
  BY <1>1, <1>2, <1>3, KeptNow, SendC

LEMMA BackC ==
  ASSUME TInv, TInv', CInv, Back
  PROVE  CInv'
<1>1. CASE EnterCreate(tab, calls) /\ UNCHANGED credit
  BY <1>1, KeptNow, CreateC
<1>2. CASE tab' = EnteredSelect /\ Quiet(Left(calls)) /\ UNCHANGED credit
  <2>1. SameEdited(tab')
    BY <1>2, EnteredSelectIs DEF SameEdited
  <2>2. QED
    BY <1>2, <2>1, KeptNow, QuietC
<1>3. QED
  BY <1>1, <1>2 DEF Back

LEMMA completeParameterSelectC ==
  ASSUME TInv, TInv', CInv, completeParameterSelect
  PROVE  CInv'
<1> DEFINE e == [tab EXCEPT !.clause = NoClause]
<1>1. TabOK(tab, next_id, tangled) /\ DOMAIN tab = TabFields
  BY KeptNow
<1>2. TabOK(e, next_id, tangled) /\ e.clause = NoClause /\ e.staged = tab.staged
  BY <1>1, ClauseSet
<1>3. UNCHANGED credit
  BY DEF completeParameterSelect
<1>4. SameEdited(e) /\ DOMAIN e = TabFields
  BY <1>1 DEF SameEdited, TabFields
<1>5. CASE tab.staged = NoRule
  <2>1. tab' = e /\ Quiet(calls)
    BY <1>5 DEF completeParameterSelect
  <2> HIDE DEF e
  <2>2. QED
    BY <1>3, <1>4, <2>1, KeptNow, QuietC
<1>6. CASE tab.staged # NoRule
  <2> DEFINE st == addClauseToRule(tab.staged)  f == [e EXCEPT !.staged = st]
             g == [tab EXCEPT !.clause = NoClause, !.staged = addClauseToRule(@)]
  <2>1. EnterCreate(g, calls) /\ Len(st.ifClause) <= MaxClauses
    BY <1>6 DEF completeParameterSelect
  <2>2. Of(tab.clause, tangled)
    BY <1>1 DEF completeParameterSelect, TabOK, ChosenOK
  <2>3. StagedOK(st, tangled)
    BY <1>6, <2>1, <2>2, AddClauseOK
  <2>4. f = g
    BY <1>2
  <2> HIDE DEF g, e, st
  <2>5. TabOK(f, next_id, tangled)
    BY <1>2, <2>3, StagedAnew
  <2>6. SameEdited(f)
    BY <1>4 DEF SameEdited, TabFields
  <2> HIDE DEF f
  <2>7. EnterCreate(f, calls)
    BY <2>1, <2>4
  <2>8. QED
    BY <1>3, <2>5, <2>6, <2>7, KeptNow, CreateC
<1>7. QED
  BY <1>5, <1>6

LEMMA ClickC ==
  ASSUME TInv, TInv', CInv, Click
  PROVE  CInv'
<1>1. CASE gotoCreate BY <1>1, gotoCreateC
<1>2. CASE goToRulesHome
  <2>1. EnterRules(tab, calls) /\ UNCHANGED credit
    BY <1>2 DEF goToRulesHome
  <2>2. QED
    BY <2>1, KeptNow, RulesC
<1>3. CASE reloadForRuleClear BY <1>3, reloadForRuleClearC
<1>4. CASE Back BY <1>4, BackC
<1>5. CASE \E id \in 1 .. MaxRules : editRule(id) \/ deleteRule(id)
  BY <1>5, editRuleC, deleteRuleC
<1>6. CASE \E type \in {"trigger", "action"}, index \in 0 .. MaxClauses : gotoZoneSelector(type, index)
  BY <1>6, gotoZoneSelectorC
<1>7. CASE \E device \in DOMAIN Devices : gotoParameterConfiguration(device)
  BY <1>7, gotoParameterConfigurationC
<1>8. CASE completeParameterSelect BY <1>8, completeParameterSelectC
<1>9. CASE finishRule BY <1>9, finishRuleC
<1>10. CASE OpenSite BY <1>10, OpenSiteC
<1>11. CASE \E task \in Tasks : OpenTask(task)
  <2>1. UNCHANGED <<credit, calls, tab>>
    BY <1>11 DEF OpenTask, history
  <2>2. NoMoreSaved /\ SameEdited(tab')
    <3>1. \A id : Cardinality(Saving(calls, id)) <= Cardinality(Saving(calls, id))
      BY SavingNat
    <3>2. QED
      BY <2>1, <3>1 DEF NoMoreSaved, SameEdited
  <2>3. QED
    BY <2>1, <2>2, SameC
<1>12. QED
  BY <1>1, <1>2, <1>3, <1>4, <1>5, <1>6, <1>7, <1>8, <1>9, <1>10, <1>11 DEF Click
LEMMA ListedSame ==
  ASSUME TInv, NEW i \in DOMAIN calls, calls[i].kind \in {"rules", "delete"}, calls[i].answer # NoAnswer
  PROVE  TabOK(Listed(tab, calls[i]), next_id, tangled) /\ SameEdited(Listed(tab, calls[i]))
<1>1. CallOK(calls[i], next_id, tangled)
  BY ArriveParts
<1>2. QED
  BY <1>1, KeptNow, ListedOK DEF SameEdited

LEMMA RulesArriveC ==
  ASSUME TInv, TInv', CInv, NEW i, RulesArrive(i)
  PROVE  CInv'
<1> DEFINE l == Listed(tab, calls[i])  loc == calls[i].answer.loc
<1>1. /\ i \in DOMAIN calls /\ calls[i].kind = "rules" /\ calls[i].answer # NoAnswer
      /\ tab' = [l EXCEPT !.current_loc = loc] /\ Quiet(RemoveAt(calls, i)) /\ UNCHANGED credit
  BY DEF RulesArrive, Answered
<1>2. DOMAIN l = TabFields /\ SameEdited(l)
  BY <1>1, ListedSame DEF TabOK
<1> HIDE DEF l, loc
<1>3. SameEdited(tab')
  BY <1>1, <1>2 DEF SameEdited, TabFields
<1>4. QED
  BY <1>1, <1>3, ArriveParts, QuietC

LEMMA TokenArrivesC ==
  ASSUME TInv, TInv', CInv, NEW i, TokenArrives(i)
  PROVE  CInv'
<1> DEFINE c == calls[i]  loc == c.answer.locid  e == [tab EXCEPT !.current_loc = loc]
<1>1. /\ i \in DOMAIN calls /\ c.kind = "token" /\ c.answer # NoAnswer
      /\ EnterRules(e, RemoveAt(calls, i)) /\ UNCHANGED credit
  BY DEF TokenArrives, Answered
<1>2. CallOK(c, next_id, tangled)
  BY <1>1, ArriveParts
<1> HIDE DEF c
<1>3. loc \in Tasks
  BY <1>1, <1>2 DEF CallOK, AnswerOK
<1> HIDE DEF loc
<1>4. TabOK(e, next_id, tangled)
  BY <1>3, KeptNow, LocSet
<1>5. SameEdited(e)
  BY KeptNow DEF SameEdited, TabFields
<1> HIDE DEF e
<1>6. QED
  BY <1>1, <1>4, <1>5, ArriveParts, RulesC

LEMMA FullRuleArrivesC ==
  ASSUME TInv, TInv', CInv, NEW i, FullRuleArrives(i)
  PROVE  CInv'
<1> DEFINE st == calls[i].answer
<1>1. /\ i \in DOMAIN calls /\ tab' = [tab EXCEPT !.staged = st]
      /\ Quiet(RemoveAt(calls, i)) /\ UNCHANGED credit
  BY DEF FullRuleArrives, Answered
<1> HIDE DEF st
<1>2. SameEdited(tab')
  BY <1>1, KeptNow DEF SameEdited, TabFields
<1>3. QED
  BY <1>1, <1>2, ArriveParts, QuietC

LEMMA NewRuleArrivesC ==
  ASSUME TInv, TInv', CInv, NEW i, NewRuleArrives(i)
  PROVE  CInv'
<1> DEFINE e == [tab EXCEPT !.staged = NoRule]
<1>1. /\ i \in DOMAIN calls /\ UNCHANGED credit
      /\ \/ tab' = e /\ Quiet(RemoveAt(calls, i))
         \/ EnterRules(e, RemoveAt(calls, i))
  BY DEF NewRuleArrives, Answered
<1>2. TabOK(e, next_id, tangled)
  BY KeptNow, StagedAnew
<1>3. SameEdited(e)
  BY KeptNow DEF SameEdited, TabFields
<1> HIDE DEF e
<1>4. CASE tab' = e /\ Quiet(RemoveAt(calls, i))
  BY <1>1, <1>3, <1>4, ArriveParts, QuietC
<1>5. CASE EnterRules(e, RemoveAt(calls, i))
  BY <1>1, <1>2, <1>3, <1>5, ArriveParts, RulesC
<1>6. QED
  BY <1>1, <1>4, <1>5

LEMMA DeleteArrivesC ==
  ASSUME TInv, TInv', CInv, NEW i, DeleteArrives(i)
  PROVE  CInv'
<1>1. /\ i \in DOMAIN calls /\ calls[i].kind = "delete" /\ calls[i].answer # NoAnswer
      /\ tab' = Listed(tab, calls[i]) /\ Quiet(RemoveAt(calls, i)) /\ UNCHANGED credit
  BY DEF DeleteArrives, Answered
<1>2. SameEdited(tab')
  BY <1>1, ListedSame
<1>3. QED
  BY <1>1, <1>2, ArriveParts, QuietC

LEMMA ParamsArriveC ==
  ASSUME TInv, TInv', CInv, NEW i, ParamsArrive(i)
  PROVE  CInv'
<1> DEFINE call == Call("form", calls[i].args, TRUE)
<1>1. /\ i \in DOMAIN calls /\ UNCHANGED credit
      /\ \/ tab' = tab /\ Quiet(RemoveAt(calls, i))
         \/ tab' = Entered(tab, "params") /\ Send(Left(RemoveAt(calls, i)), call)
  BY DEF ParamsArrive, Waiting, EnterParams
<1>2. Kept(RemoveAt(calls, i), calls, {i}) /\ Kept(Left(RemoveAt(calls, i)), calls, {i})
  BY <1>1, ArriveParts, KeptLeft
<1>3. call.kind # "new"
  BY CallKinds
<1> HIDE DEF call
<1>4. SameEdited(tab')
  BY <1>1, KeptNow, EnteredOK DEF SameEdited, Pages
<1>5. QED
  BY <1>1, <1>2, <1>3, <1>4, QuietC, SendC

LEMMA FormArrivesC ==
  ASSUME TInv, TInv', CInv, NEW i, FormArrives(i)
  PROVE  CInv'
<1> DEFINE p == calls[i].args  live == calls[i].live
           e == [tab EXCEPT !.clause.par = p, !.loaded = @ \/ live]
<1>1. /\ i \in DOMAIN calls /\ UNCHANGED credit
      /\ tab' = (IF tab.clause = NoClause THEN tab ELSE e) /\ Quiet(RemoveAt(calls, i))
  BY DEF FormArrives, Waiting
<1> HIDE DEF p, live
<1>2. SameEdited(e)
  BY KeptNow DEF SameEdited, TabFields
<1> HIDE DEF e
<1>3. SameEdited(tab')
  BY <1>1, <1>2, KeptNow
<1>4. QED
  BY <1>1, <1>3, ArriveParts, QuietC

(* The backend                                                             *)
LEMMA AnswerSaves ==
  ASSUME TInv, NEW i \in DOMAIN calls, calls[i].answer = NoAnswer, NEW a,
         Answer(i, a) \/ Refuse(i)
  PROVE  /\ NoMoreSaved
         /\ a # NoAnswer => \A id : i \in Saving(calls, id) =>
                Cardinality(Saving(calls', id)) <= Cardinality(Saving(calls, id)) - 1
<1>1. Proper(calls) /\ IsSeq(calls)
  BY TParts
<1>2. CASE calls' = RemoveAt(calls, i)
  <2>1. Kept(RemoveAt(calls, i), calls, {i})
    BY <1>1, KeptRemoved
  <2>2. \A id : /\ Cardinality(Saving(RemoveAt(calls, i), id)) <= Cardinality(Saving(calls, id))
                /\ i \in Saving(calls, id) =>
                      Cardinality(Saving(RemoveAt(calls, i), id)) <= Cardinality(Saving(calls, id)) - 1
    BY <1>1, <2>1, KeptSaving
  <2>3. QED
    BY <1>2, <2>2 DEF NoMoreSaved
<1>3. CASE calls' = [calls EXCEPT ![i].answer = a]
  <2> DEFINE as == WithAnswer(calls, i, a)
  <2>1. calls' = as
    BY <1>3 DEF WithAnswer
  <2>2. /\ IsSeq(as) /\ Len(as) = Len(calls) /\ DOMAIN as = DOMAIN calls
        /\ \A k \in DOMAIN calls : k # i => as[k] = calls[k]
        /\ as[i] = [calls[i] EXCEPT !.answer = a]
        /\ DOMAIN as[i] = CallFields /\ as[i].kind = calls[i].kind /\ as[i].args = calls[i].args
        /\ as[i].live = calls[i].live /\ as[i].lost = calls[i].lost /\ as[i].answer = a
    BY <1>1, AnsweredIs
  <2> HIDE DEF as
  <2>3. \A id : Saving(as, id) \subseteq Saving(calls, id)
    BY <2>2 DEF Saving
  <2>4. ASSUME a # NoAnswer, NEW id
        PROVE  Saving(as, id) \subseteq Saving(calls, id) \ {i}
    <3>1. i \notin Saving(as, id)
      BY <2>2, <2>4 DEF Saving
    <3>2. QED
      BY <2>3, <3>1
  <2>5. \A id : IsFiniteSet(Saving(calls, id))
    BY <1>1, SavingFinite
  <2>6. \A id : Cardinality(Saving(as, id)) <= Cardinality(Saving(calls, id))
    BY <2>3, <2>5, FS_Subset
  <2>7. ASSUME a # NoAnswer, NEW id, i \in Saving(calls, id)
        PROVE  Cardinality(Saving(as, id)) <= Cardinality(Saving(calls, id)) - 1
    <3>1. IsFiniteSet(Saving(calls, id) \ {i})
          /\ Cardinality(Saving(calls, id) \ {i}) = Cardinality(Saving(calls, id)) - 1
      BY <2>5, <2>7, FS_RemoveElement
    <3>2. Saving(as, id) \subseteq Saving(calls, id) \ {i}
      BY <2>4, <2>7
    <3>3. Cardinality(Saving(as, id)) <= Cardinality(Saving(calls, id) \ {i})
      BY <3>1, <3>2, FS_Subset
    <3>4. QED
      BY <3>1, <3>3
  <2>8. QED
    BY <2>1, <2>6, <2>7 DEF NoMoreSaved
<1>4. QED
  BY <1>2, <1>3 DEF Answer, Refuse

LEMMA BackendC ==
  ASSUME TInv, TInv', CInv, NEW i \in DOMAIN calls, calls[i].answer = NoAnswer, NEW a,
         Answer(i, a) \/ Refuse(i), UNCHANGED <<credit, tab>>
  PROVE  CInv'
<1>1. NoMoreSaved
  BY AnswerSaves
<1>2. SameEdited(tab')
  BY DEF SameEdited
<1>3. QED
  BY <1>1, <1>2, SameC

(* A rule that is overwritten loses one credit, and one call that would    *)
(* overwrite it.                                                           *)
LEMMA fe_create_esruleC ==
  ASSUME TInv, TInv', CInv, NEW i, fe_create_esrule(i)
  PROVE  CInv'
<1>1. /\ i \in DOMAIN calls /\ calls[i].kind = "new" /\ calls[i].answer = NoAnswer
      /\ tab' = tab /\ (CreateRefused(i) \/ CreateSaved(i))
  BY CreateIs
<1>2. CASE CreateRefused(i)
  BY <1>1, <1>2, BackendC DEF CreateRefused
<1>3. CASE CreateSaved(i)
  <2> DEFINE id == calls[i].args.id
  <2>1. /\ id \in DOMAIN rule \cup {0} /\ (Answer(i, Saved) \/ Refuse(i))
        /\ credit' = IF id = 0 THEN credit ELSE [credit EXCEPT ![id] = @ - 1]
    BY <1>3 DEF CreateSaved
  <2> HIDE DEF id
  <2>2. CASE id = 0
    <3>1. credit' = credit
      BY <2>1, <2>2
    <3>2. QED
      BY <1>1, <2>1, <3>1, BackendC
  <2>3. CASE id # 0
    <3>1. Saved # NoAnswer
      <4>1. "none" \notin DOMAIN Saved /\ "none" \in DOMAIN NoAnswer
        BY DEF Saved, NoAnswer
      <4>2. QED
        BY <4>1
    <3>2. NoMoreSaved
      BY <1>1, <2>1, AnswerSaves
    <3>3. i \in Saving(calls, id)
      BY <1>1 DEF Saving, id
    <3>4. Cardinality(Saving(calls', id)) <= Cardinality(Saving(calls, id)) - 1
      BY <1>1, <2>1, <3>1, <3>3, AnswerSaves
    <3>5. credit' = [credit EXCEPT ![id] = @ - 1]
      BY <2>1, <2>3
    <3>6. DOMAIN credit' = 1 .. MaxRules
      BY <3>5 DEF CInv
    <3>7. ASSUME NEW o \in 1 .. MaxRules
          PROVE  credit'[o] \in Int /\ credit'[o] >= Cardinality(Saving(calls', o)) + Editing(tab', o)
      <4> DEFINE x == Cardinality(Saving(calls, o))  y == Cardinality(Saving(calls', o))
      <4>1. x \in Nat /\ y \in Nat /\ y <= x
        BY <3>2, SavingNat, SavingNatAfter DEF NoMoreSaved
      <4>2. credit[o] \in Int /\ credit[o] >= x + Editing(tab, o) /\ Editing(tab, o) \in {0, 1}
        BY DEF CInv, Editing
      <4>3. Editing(tab', o) = Editing(tab, o)
        BY <1>1
      <4>4. o = id => y <= x - 1
        BY <3>4
      <4>5. credit'[o] = IF o = id THEN credit[o] - 1 ELSE credit[o]
        BY <3>5 DEF CInv
      <4> HIDE DEF x, y
      <4>6. credit'[o] \in Int /\ credit'[o] >= y + Editing(tab, o)
        BY <4>1, <4>2, <4>4, <4>5
      <4>7. QED
        BY <4>3, <4>6 DEF y
    <3>8. QED
      BY <3>6, <3>7 DEF CInv
  <2>4. QED
    BY <2>2, <2>3
<1>4. QED
  BY <1>1, <1>2, <1>3

LEMMA OtherBackendC ==
  ASSUME TInv, TInv', CInv, NEW i,
         \/ AnswerRules(i) \/ fe_get_loc_token(i) \/ fe_get_full_rule(i) \/ fe_delete_rule(i)
  PROVE  CInv'
<1>1. /\ i \in DOMAIN calls /\ calls[i].answer = NoAnswer /\ UNCHANGED <<credit, tab>>
      /\ \E a : Answer(i, a) \/ Refuse(i)
  <2>1. CASE AnswerRules(i)
    BY <2>1 DEF AnswerRules, Waiting, history
  <2>2. CASE fe_get_loc_token(i)
    BY <2>2 DEF fe_get_loc_token, Waiting, history
  <2>3. CASE fe_get_full_rule(i)
    BY <2>3 DEF fe_get_full_rule, Waiting, history
  <2>4. CASE fe_delete_rule(i)
    BY <2>4 DEF fe_delete_rule, Waiting, history
  <2>5. QED
    BY <2>1, <2>2, <2>3, <2>4
<1>2. QED
  BY <1>1, BackendC

LEMMA StillC ==
  ASSUME TInv, TInv', CInv, UNCHANGED <<credit, calls, tab>>
  PROVE  CInv'
<1>1. NoMoreSaved
  <2>1. \A id : Cardinality(Saving(calls, id)) <= Cardinality(Saving(calls, id))
    BY SavingNat
  <2>2. QED
    BY <2>1 DEF NoMoreSaved
<1>2. SameEdited(tab')
  BY DEF SameEdited
<1>3. QED
  BY <1>1, <1>2, SameC

LEMMA StepC ==
  ASSUME TInv, TInv', CInv, [Next]_vars
  PROVE  CInv'
<1>1. CASE Step
  <2>1. CASE Click BY <2>1, ClickC
  <2>2. CASE SaveSession BY <2>2, StillC DEF SaveSession, history
  <2>3. ASSUME NEW i,
               \/ AnswerRules(i) \/ fe_get_loc_token(i) \/ fe_get_full_rule(i) \/ fe_delete_rule(i)
        PROVE  CInv'
    BY <2>3, OtherBackendC
  <2>4. ASSUME NEW i, fe_create_esrule(i) PROVE CInv' BY <2>4, fe_create_esruleC
  <2>5. ASSUME NEW i, RulesArrive(i) PROVE CInv' BY <2>5, RulesArriveC
  <2>6. ASSUME NEW i, TokenArrives(i) PROVE CInv' BY <2>6, TokenArrivesC
  <2>7. ASSUME NEW i, FullRuleArrives(i) PROVE CInv' BY <2>7, FullRuleArrivesC
  <2>8. ASSUME NEW i, ParamsArrive(i) PROVE CInv' BY <2>8, ParamsArriveC
  <2>9. ASSUME NEW i, FormArrives(i) PROVE CInv' BY <2>9, FormArrivesC
  <2>10. ASSUME NEW i, NewRuleArrives(i) PROVE CInv' BY <2>10, NewRuleArrivesC
  <2>11. ASSUME NEW i, DeleteArrives(i) PROVE CInv' BY <2>11, DeleteArrivesC
  <2>12. QED
    BY <1>1, <2>1, <2>2, <2>3, <2>4, <2>5, <2>6, <2>7, <2>8, <2>9, <2>10, <2>11 DEF Step
<1>2. CASE UNCHANGED vars
  BY <1>2, StillC DEF vars, history
<1>3. QED
  BY <1>1, <1>2, NextIsStep

LEMMA InitC ==
  ASSUME Init
  PROVE  CInv
<1> DEFINE call == RulesCall(TRUE)
<1>1. /\ calls = <<call>> /\ tab = Loading("rules") /\ credit = [id \in 1 .. MaxRules |-> 0]
  BY DEF Init
<1>2. call.kind # "new"
  BY CallKinds DEF RulesCall
<1> HIDE DEF call
<1>3. \A id : Saving(calls, id) = {}
  BY <1>1, <1>2, OneIs DEF Saving
<1>4. \A id : Cardinality(Saving(calls, id)) = 0
  BY <1>3, FS_EmptySet
<1>5. \A id : Editing(tab, id) = 0
  BY <1>1 DEF Loading, Editing
<1>6. QED
  BY <1>1, <1>4, <1>5 DEF CInv

(* No rule is overwritten more often than its Edit was clicked: each call  *)
(* in flight that will overwrite it, and the editing that may still send   *)
(* one, was begun with a click of its own.                                 *)
THEOREM OverwritesAlwaysExplained == Spec => []OverwritesExplained
<1>1. Init => TInv /\ CInv
  BY InitT, InitC
<1>2. TInv /\ CInv /\ [Next]_vars => TInv' /\ CInv'
  BY StepT, StepC
<1>3. TInv /\ CInv => OverwritesExplained
  <2> SUFFICES ASSUME TInv, CInv, NEW id \in DOMAIN credit
               PROVE  credit[id] >= 0
    BY DEF OverwritesExplained
  <2>1. /\ credit[id] \in Int /\ credit[id] >= Cardinality(Saving(calls, id)) + Editing(tab, id)
        /\ Editing(tab, id) \in {0, 1}
    BY DEF CInv, Editing
  <2>2. Cardinality(Saving(calls, id)) \in Nat
    BY SavingNat
  <2>3. QED
    BY <2>1, <2>2
<1>4. QED
  BY <1>1, <1>2, <1>3, PTL DEF Spec
-----------------------------------------------------------------------------
(* The list of the rules page                                              *)
LEMMA AllRulesIs == \A loc : fe_all_rules(loc) = AllOf(rule, loc)
  BY DEF fe_all_rules, AllOf

LEMMA AloneRemoved ==
  ASSUME NEW cs, IsSeq(cs), NEW r, NEW list, NEW loc, Alone(cs, r, list, loc),
         NEW i \in DOMAIN cs, cs[i].kind \notin Listing
  PROVE  Alone(RemoveAt(cs, i), r, list, loc)
<1> DEFINE new == RemoveAt(cs, i)
<1>1. Len(cs) \in Nat /\ DOMAIN cs = 1 .. Len(cs)
  BY SeqHas
<1>2. /\ DOMAIN new = 1 .. (Len(cs) - 1)
      /\ \A k \in 1 .. (Len(cs) - 1) : new[k] = cs[IF k < i THEN k ELSE k + 1]
  BY RemoveAtIs
<1> HIDE DEF new
<1> DEFINE f(k) == IF k < i THEN k ELSE k + 1
<1>3. \A k \in DOMAIN new : f(k) \in DOMAIN cs /\ new[k] = cs[f(k)]
  BY <1>1, <1>2
<1>4. \A k, l \in DOMAIN new : f(k) = f(l) => k = l
  BY <1>1, <1>2
<1>5. \A k \in DOMAIN cs : k # i => \E l \in DOMAIN new : f(l) = k
  <2> SUFFICES ASSUME NEW k \in DOMAIN cs, k # i
               PROVE  \E l \in DOMAIN new : f(l) = k
    OBVIOUS
  <2>1. CASE k < i
    <3>1. k \in DOMAIN new /\ f(k) = k
      BY <1>1, <1>2, <2>1
    <3>2. QED
      BY <3>1
  <2>2. CASE ~ (k < i)
    <3>1. k - 1 \in DOMAIN new /\ f(k - 1) = k
      BY <1>1, <1>2, <2>2
    <3>2. QED
      BY <3>1
  <2>3. QED
    BY <2>1, <2>2
<1> HIDE DEF f
<1>6. \A k \in InFlight(new, Listing) : f(k) \in InFlight(cs, Listing) /\ new[k] = cs[f(k)]
  BY <1>3 DEF InFlight
<1>7. InFlight(new, Listing) = {} => InFlight(cs, Listing) = {}
  <2> SUFFICES ASSUME NEW k \in InFlight(cs, Listing)
               PROVE  InFlight(new, Listing) # {}
    OBVIOUS
  <2>1. k \in DOMAIN cs /\ k # i /\ cs[k].kind \in Listing
    BY DEF InFlight
  <2>2. PICK l \in DOMAIN new : f(l) = k
    BY <1>5, <2>1
  <2>3. l \in InFlight(new, Listing)
    BY <1>3, <2>1, <2>2 DEF InFlight
  <2>4. QED
    BY <2>3
<1>8. \A k, l \in InFlight(new, Listing) : k = l
  <2>1. \A k \in InFlight(new, Listing) : k \in DOMAIN new
    BY DEF InFlight
  <2>2. QED
    BY <1>4, <1>6, <2>1 DEF Alone
<1>9. QED
  BY <1>6, <1>7, <1>8 DEF Alone, new

LEMMA AloneAnswered ==
  ASSUME NEW cs, Proper(cs), NEW r, NEW list, NEW loc, Alone(cs, r, list, loc),
         NEW i \in DOMAIN cs, cs[i].kind \notin Listing, NEW a
  PROVE  Alone(WithAnswer(cs, i, a), r, list, loc)
<1> DEFINE as == WithAnswer(cs, i, a)
<1>1. /\ IsSeq(as) /\ Len(as) = Len(cs) /\ DOMAIN as = DOMAIN cs
      /\ \A k \in DOMAIN cs : k # i => as[k] = cs[k]
      /\ as[i] = [cs[i] EXCEPT !.answer = a]
      /\ DOMAIN as[i] = CallFields /\ as[i].kind = cs[i].kind /\ as[i].args = cs[i].args
      /\ as[i].live = cs[i].live /\ as[i].lost = cs[i].lost /\ as[i].answer = a
  BY AnsweredIs
<1> HIDE DEF as
<1>2. InFlight(as, Listing) = InFlight(cs, Listing) /\ i \notin InFlight(cs, Listing)
  BY <1>1 DEF InFlight
<1>3. \A k \in InFlight(cs, Listing) : as[k] = cs[k]
  BY <1>1, <1>2 DEF InFlight
<1>4. QED
  BY <1>2, <1>3 DEF Alone, as

(* The only one has come, or is answered.                                  *)
LEMMA AloneEnded ==
  ASSUME NEW cs, IsSeq(cs), NEW r, NEW list, NEW loc, Alone(cs, r, list, loc),
         NEW i \in DOMAIN cs, cs[i].kind \in Listing
  PROVE  InFlight(RemoveAt(cs, i), Listing) = {}
<1> DEFINE new == RemoveAt(cs, i)
<1>1. Len(cs) \in Nat /\ DOMAIN cs = 1 .. Len(cs)
  BY SeqHas
<1>2. /\ DOMAIN new = 1 .. (Len(cs) - 1)
      /\ \A k \in 1 .. (Len(cs) - 1) : new[k] = cs[IF k < i THEN k ELSE k + 1]
  BY RemoveAtIs
<1> HIDE DEF new
<1>3. \A k \in DOMAIN cs : cs[k].kind \in Listing => k = i
  BY DEF Alone, InFlight
<1>4. ASSUME NEW k \in DOMAIN new PROVE new[k].kind \notin Listing
  <2> DEFINE l == IF k < i THEN k ELSE k + 1
  <2>1. l \in DOMAIN cs /\ l # i /\ new[k] = cs[l]
    BY <1>1, <1>2
  <2> HIDE DEF l
  <2>2. QED
    BY <1>3, <2>1
<1>5. QED
  BY <1>4 DEF InFlight, new

LEMMA AloneFilled ==
  ASSUME NEW cs, Proper(cs), NEW r, NEW list, NEW loc, Alone(cs, r, list, loc),
         NEW i \in DOMAIN cs, cs[i].kind \in Listing, NEW a, NEW r2,
         Relist([cs[i] EXCEPT !.answer = a], r2, list, loc)
  PROVE  Alone(WithAnswer(cs, i, a), r2, list, loc)
<1> DEFINE as == WithAnswer(cs, i, a)
<1>1. /\ IsSeq(as) /\ Len(as) = Len(cs) /\ DOMAIN as = DOMAIN cs
      /\ \A k \in DOMAIN cs : k # i => as[k] = cs[k]
      /\ as[i] = [cs[i] EXCEPT !.answer = a]
      /\ DOMAIN as[i] = CallFields /\ as[i].kind = cs[i].kind /\ as[i].args = cs[i].args
      /\ as[i].live = cs[i].live /\ as[i].lost = cs[i].lost /\ as[i].answer = a
  BY AnsweredIs
<1>2. Relist(as[i], r2, list, loc)
  BY <1>1
<1> HIDE DEF as
<1>3. InFlight(as, Listing) = {i}
  <2>1. \A k \in DOMAIN cs : as[k].kind = cs[k].kind
    BY <1>1
  <2>2. \A k \in DOMAIN cs : cs[k].kind \in Listing => k = i
    BY DEF Alone, InFlight
  <2>3. QED
    BY <1>1, <2>1, <2>2 DEF InFlight
<1>4. QED
  BY <1>2, <1>3 DEF Alone, as

(* Nothing was in flight when the only one was sent.                       *)
LEMMA AloneSent ==
  ASSUME NEW cs, IsSeq(cs), InFlight(cs, Listing) = {}, NEW call, NEW r, NEW list, NEW loc,
         Relist(call, r, list, loc), call.kind \in Listing
  PROVE  Alone(Append(cs, call), r, list, loc)
<1> DEFINE new == Append(cs, call)
<1>1. /\ Len(cs) \in Nat /\ DOMAIN cs = 1 .. Len(cs)
      /\ DOMAIN new = 1 .. (Len(cs) + 1)
      /\ \A k \in DOMAIN cs : new[k] = cs[k]
      /\ new[Len(cs) + 1] = call
  BY SeqHas, AppendIs
<1> HIDE DEF new
<1>2. InFlight(new, Listing) = {Len(cs) + 1}
  <2>1. \A k \in DOMAIN new : k \in DOMAIN cs \/ k = Len(cs) + 1
    BY <1>1
  <2>2. \A k \in DOMAIN cs : new[k].kind \notin Listing
    BY <1>1 DEF InFlight
  <2>3. Len(cs) + 1 \in DOMAIN new /\ new[Len(cs) + 1].kind \in Listing
    BY <1>1
  <2>4. QED
    BY <2>1, <2>2, <2>3 DEF InFlight
<1>3. QED
  BY <1>1, <1>2 DEF Alone, new

LEMMA AloneNone ==
  ASSUME NEW cs, NEW r, NEW list, NEW loc, InFlight(cs, Listing) = {}, list = AllOf(r, loc)
  PROVE  Alone(cs, r, list, loc)
  BY DEF Alone

(* The pages that list no rules                                            *)
LEMMA ElsewhereS ==
  ASSUME tab'.page # "rules"
  PROVE  SInv'
  BY DEF SInv

(* Nothing that concerns the list happens.                                 *)
LEMMA FrameS ==
  ASSUME TInv, SInv, UNCHANGED <<rule, overlapped>>,
         tab'.page = tab.page, tab'.list = tab.list, tab'.current_loc = tab.current_loc,
         \/ calls' = calls
         \/ \E i \in DOMAIN calls : /\ calls[i].kind \notin Listing
                                    /\ \/ calls' = RemoveAt(calls, i)
                                       \/ \E a : calls' = WithAnswer(calls, i, a)
  PROVE  SInv'
<1> SUFFICES ASSUME tab.page = "rules", ~ overlapped
             PROVE  Alone(calls', rule, tab.list, tab.current_loc)
  BY DEF SInv
<1>1. Alone(calls, rule, tab.list, tab.current_loc) /\ Proper(calls) /\ IsSeq(calls)
  BY TParts DEF SInv
<1>2. CASE calls' = calls
  BY <1>1, <1>2
<1>3. ASSUME NEW i \in DOMAIN calls, calls[i].kind \notin Listing, calls' = RemoveAt(calls, i)
      PROVE  Alone(calls', rule, tab.list, tab.current_loc)
  BY <1>1, <1>3, AloneRemoved
<1>4. ASSUME NEW i \in DOMAIN calls, calls[i].kind \notin Listing,
             NEW a, calls' = WithAnswer(calls, i, a)
      PROVE  Alone(calls', rule, tab.list, tab.current_loc)
  BY <1>1, <1>4, AloneAnswered
<1>5. QED
  BY <1>2, <1>3, <1>4

(* The page that lists the rules is entered.                               *)
LEMMA EnterRulesS ==
  ASSUME TInv, NEW t, NEW out, NEW cs, Kept(cs, calls, out), EnterRules(t, cs)
  PROVE  SInv'
<1> DEFINE call == RulesCall(TRUE)
<1>1. Send(Left(cs), call)
  BY DEF EnterRules
<1>2. call.kind = "rules" /\ call.answer = NoAnswer /\ call.live = TRUE /\ call.lost = FALSE
  BY DEF RulesCall, Call
<1> HIDE DEF call
<1>3. calls' = Append(Left(cs), call) /\ (~ overlapped' => InFlight(Left(cs), Listing) = {})
  BY <1>1, <1>2 DEF Send, Listing
<1>4. IsSeq(Left(cs))
  <2>1. Kept(Left(cs), calls, out)
    BY KeptLeft
  <2>2. QED
    BY <2>1 DEF Kept
<1>5. \A r, list, loc : Relist(call, r, list, loc) /\ call.kind \in Listing
  BY <1>2 DEF Relist, Listing
<1>6. \A r, list, loc : InFlight(Left(cs), Listing) = {} => Alone(Append(Left(cs), call), r, list, loc)
  BY <1>4, <1>5, AloneSent
<1>7. QED
  BY <1>3, <1>6 DEF SInv

LEMMA deleteRuleS ==
  ASSUME TInv, SInv, NEW id, deleteRule(id)
  PROVE  SInv'
<1> DEFINE call == Call("delete", [id |-> id, loc |-> tab.current_loc], TRUE)
<1>1. /\ tab.page = "rules" /\ id \in DOMAIN tab.list /\ Send(calls, call)
      /\ rule' = rule /\ tab' = tab
  BY DEF deleteRule, server
<1>2. /\ call.kind = "delete" /\ call.answer = NoAnswer /\ call.live = TRUE /\ call.lost = FALSE
      /\ call.args.id = id /\ call.args.loc = tab.current_loc
  BY DEF Call
<1> HIDE DEF call
<1>3. /\ calls' = Append(calls, call)
      /\ ~ overlapped' => ~ overlapped /\ InFlight(calls, Listing) = {}
  BY <1>1, <1>2, TParts DEF Send, Listing, ServerOK
<1> SUFFICES ASSUME ~ overlapped'
             PROVE  Alone(calls', rule, tab.list, tab.current_loc)
  BY <1>1 DEF SInv
<1>4. tab.list = AllOf(rule, tab.current_loc)
  BY <1>1, <1>3 DEF SInv, Alone
<1>5. Relist(call, rule, tab.list, tab.current_loc) /\ call.kind \in Listing
  BY <1>1, <1>2, <1>4 DEF Relist, Listing
<1>6. QED
  BY <1>3, <1>5, TParts, AloneSent

LEMMA EnterCreatePage ==
  ASSUME NEW t, DOMAIN t = TabFields, NEW cs, EnterCreate(t, cs)
  PROVE  tab'.page # "rules"
<1> DEFINE e == Entered(t, "create")  st == Staged(e.staged)
<1>1. DOMAIN e = TabFields /\ e.page = "create"
  BY DEF Entered, TabFields
<1>2. tab' = [e EXCEPT !.stopLoadingEdit = TRUE, !.staged = Staged(@)]
  BY DEF EnterCreate
<1> HIDE DEF e
<1>3. tab'.page = e.page
  BY <1>1, <1>2 DEF TabFields
<1>4. QED
  BY <1>1, <1>3

LEMMA completeParameterSelectPage ==
  ASSUME TInv, completeParameterSelect
  PROVE  tab'.page # "rules"
<1>1. DOMAIN tab = TabFields /\ tab.page = "params"
  BY KeptNow DEF completeParameterSelect
<1>2. CASE tab' = [tab EXCEPT !.clause = NoClause]
  BY <1>1, <1>2 DEF TabFields
<1> DEFINE st == addClauseToRule(tab.staged)
           t == [tab EXCEPT !.clause = NoClause, !.staged = addClauseToRule(@)]
<1>3. CASE EnterCreate(t, calls)
  <2>1. DOMAIN t = TabFields
    BY <1>1
  <2> HIDE DEF t
  <2>2. QED
    BY <1>3, <2>1, EnterCreatePage
<1>4. QED
  BY <1>2, <1>3 DEF completeParameterSelect

LEMMA ClickS ==
  ASSUME TInv, TInv', SInv, Click
  PROVE  SInv'
<1>0. DOMAIN tab = TabFields /\ DOMAIN EnteredSelect = TabFields /\ EnteredSelect.page = "select"
  BY KeptNow, EnteredSelectIs
<1>1. CASE gotoCreate
  <2> DEFINE t == [tab EXCEPT !.staged = NoRule]
  <2>1. DOMAIN t = TabFields /\ EnterCreate(t, calls)
    BY <1>0, <1>1 DEF gotoCreate
  <2> HIDE DEF t
  <2>2. QED
    BY <2>1, EnterCreatePage, ElsewhereS
<1>2. CASE goToRulesHome
  BY <1>2, KeptNow, EnterRulesS DEF goToRulesHome
<1>3. CASE reloadForRuleClear
  <2> DEFINE st == Staged(NoRule)
  <2>1. tab' = [tab EXCEPT !.stopLoadingEdit = TRUE, !.staged = st] /\ tab.page = "create"
    BY <1>3 DEF reloadForRuleClear
  <2> HIDE DEF st
  <2>2. tab'.page # "rules"
    BY <1>0, <2>1 DEF TabFields
  <2>3. QED
    BY <2>2, ElsewhereS
<1>4. CASE Back
  <2>1. tab'.page # "rules"
    BY <1>0, <1>4, EnterCreatePage DEF Back
  <2>2. QED
    BY <2>1, ElsewhereS
<1>5. ASSUME NEW id, editRule(id) PROVE SInv'
  <2> DEFINE t == [tab EXCEPT !.editingRuleID = id, !.editing = TRUE, !.stopLoadingEdit = FALSE]
  <2>1. DOMAIN t = TabFields /\ EnterCreate(t, calls)
    BY <1>0, <1>5 DEF editRule
  <2> HIDE DEF t
  <2>2. QED
    BY <2>1, EnterCreatePage, ElsewhereS
<1>6. ASSUME NEW id, deleteRule(id) PROVE SInv'
  BY <1>6, deleteRuleS
<1>7. ASSUME NEW type, NEW index, gotoZoneSelector(type, index) PROVE SInv'
  <2> DEFINE s == EnteredSelect
  <2>1. tab' = [s EXCEPT !.objectType = type, !.objectIndex = index]
    BY <1>7 DEF gotoZoneSelector
  <2>2. DOMAIN s = TabFields /\ s.page = "select"
    BY <1>0
  <2> HIDE DEF s
  <2>3. tab'.page # "rules"
    BY <2>1, <2>2 DEF TabFields
  <2>4. QED
    BY <2>3, ElsewhereS
<1>8. ASSUME NEW device, gotoParameterConfiguration(device) PROVE SInv'
  <2> DEFINE c == Selected(tab.clause, device)
  <2>1. tab' = [tab EXCEPT !.clause = c] /\ tab.page = "select"
    BY <1>8 DEF gotoParameterConfiguration
  <2> HIDE DEF c
  <2>2. tab'.page # "rules"
    BY <1>0, <2>1 DEF TabFields
  <2>3. QED
    BY <2>2, ElsewhereS
<1>9. CASE completeParameterSelect
  BY <1>9, completeParameterSelectPage, ElsewhereS
<1>10. CASE finishRule
  <2>1. tab'.page = tab.page /\ tab.page = "create"
    BY <1>10, KeptNow, AfterFinishOK DEF finishRule
  <2>2. QED
    BY <2>1, ElsewhereS
<1>11. CASE OpenSite
  <2>1. tab'.page = "login"
    BY <1>11 DEF OpenSite, Loading
  <2>2. QED
    BY <2>1, ElsewhereS
<1>12. ASSUME NEW task, OpenTask(task) PROVE SInv'
  <2>1. UNCHANGED <<rule, overlapped, tab, calls>>
    BY <1>12 DEF OpenTask, history
  <2>2. QED
    BY <2>1, FrameS
<1>13. QED
  BY <1>1, <1>2, <1>3, <1>4, <1>5, <1>6, <1>7, <1>8, <1>9, <1>10, <1>11, <1>12 DEF Click

-----------------------------------------------------------------------------
(* The answers, of which those about the list matter here                  *)

(* A call on the rules page that concerns the list is the only one, and    *)
(* makes the list what it should be.                                       *)
LEMMA OnlyOne ==
  ASSUME TInv, SInv, tab.page = "rules", ~ overlapped, NEW i \in DOMAIN calls,
         calls[i].kind \in Listing
  PROVE  /\ Alone(calls, rule, tab.list, tab.current_loc)
         /\ Relist(calls[i], rule, tab.list, tab.current_loc)
         /\ InFlight(RemoveAt(calls, i), Listing) = {}
<1>1. Alone(calls, rule, tab.list, tab.current_loc) /\ IsSeq(calls)
  BY TParts DEF SInv
<1>2. i \in InFlight(calls, Listing)
  BY DEF InFlight
<1>3. Relist(calls[i], rule, tab.list, tab.current_loc)
  BY <1>1, <1>2 DEF Alone
<1>4. QED
  BY <1>1, <1>3, AloneEnded

LEMMA AnswerRulesS ==
  ASSUME TInv, SInv, NEW i, AnswerRules(i)
  PROVE  SInv'
<1> DEFINE a == RulesAnswer
<1>1. /\ i \in DOMAIN calls /\ calls[i].kind = "rules" /\ calls[i].answer = NoAnswer
      /\ Answer(i, a) /\ UNCHANGED <<rule, tab, overlapped>>
  BY DEF AnswerRules, Waiting, server, history
<1>2. a.loc = session /\ a.rules = AllOf(rule, session)
  BY AllRulesIs DEF RulesAnswer
<1> HIDE DEF a
<1> SUFFICES ASSUME tab.page = "rules", ~ overlapped
             PROVE  Alone(calls', rule, tab.list, tab.current_loc)
  BY <1>1 DEF SInv
<1>3. /\ Alone(calls, rule, tab.list, tab.current_loc)
      /\ Relist(calls[i], rule, tab.list, tab.current_loc) /\ Proper(calls)
  BY <1>1, OnlyOne, TParts DEF Listing
<1>4. ~ calls[i].lost /\ calls[i].live
  BY <1>3 DEF Relist
<1>5. calls' = WithAnswer(calls, i, a)
  BY <1>1, <1>4 DEF Answer, WithAnswer
<1> DEFINE c == [calls[i] EXCEPT !.answer = a]
<1>6. c.kind = "rules" /\ c.live = calls[i].live /\ c.lost = calls[i].lost /\ c.answer = a
  BY <1>1, <1>3 DEF Proper, CallFields
<1> HIDE DEF c
<1>7. Relist(c, rule, tab.list, tab.current_loc)
  BY <1>2, <1>4, <1>6 DEF Relist
<1>8. QED
  BY <1>1, <1>3, <1>5, <1>7, AloneFilled DEF Listing, c

LEMMA fe_delete_ruleS ==
  ASSUME TInv, SInv, NEW i, fe_delete_rule(i)
  PROVE  SInv'
<1> DEFINE id == calls[i].args.id
           left == [other \in DOMAIN rule \ {id} |-> rule[other]]
           rs == [other \in {o \in DOMAIN left : left[o].loc = session} |-> left[other]]
           a == [rules |-> rs]  c == [calls[i] EXCEPT !.answer = a]
<1>1. /\ i \in DOMAIN calls /\ calls[i].kind = "delete" /\ calls[i].answer = NoAnswer
      /\ UNCHANGED <<tab, overlapped>>
      /\ \/ calls[i].args.loc # session /\ Refuse(i) /\ UNCHANGED rule
         \/ /\ id \in DOMAIN rule => calls[i].args.loc = session
            /\ rule' = left /\ Answer(i, a)
  BY DEF fe_delete_rule, Waiting, check_access_to_location, history
<1> SUFFICES ASSUME tab.page = "rules", ~ overlapped
             PROVE  Alone(calls', rule', tab.list, tab.current_loc)
  BY <1>1 DEF SInv
<1>2. /\ Alone(calls, rule, tab.list, tab.current_loc) /\ Proper(calls)
      /\ Relist(calls[i], rule, tab.list, tab.current_loc)
      /\ InFlight(RemoveAt(calls, i), Listing) = {}
  BY <1>1, OnlyOne, TParts DEF Listing
<1>3. /\ ~ calls[i].lost /\ calls[i].live /\ tab.list = AllOf(rule, tab.current_loc)
      /\ id \in DOMAIN tab.list /\ calls[i].args.loc = tab.current_loc
  BY <1>1, <1>2 DEF Relist
<1>4. id \in DOMAIN rule
  BY <1>3 DEF AllOf
<1>5. CASE Refuse(i) /\ UNCHANGED rule
  BY <1>2, <1>3, <1>5, AloneNone DEF Refuse
<1>6. CASE calls[i].args.loc = session /\ rule' = left /\ Answer(i, a)
  <2>1. rs = AllOf(left, session) /\ session = tab.current_loc
    BY <1>3, <1>6 DEF AllOf
  <2>2. calls' = WithAnswer(calls, i, a)
    BY <1>3, <1>6 DEF Answer, WithAnswer
  <2> HIDE DEF rs, left, id
  <2>3. a.rules = rs /\ a # NoAnswer
    <3>1. "none" \notin DOMAIN a /\ "none" \in DOMAIN NoAnswer
      BY DEF NoAnswer
    <3>2. a.rules = rs
      OBVIOUS
    <3>3. QED
      BY <3>1, <3>2
  <2> HIDE DEF a
  <2>4. c.kind = "delete" /\ c.live = calls[i].live /\ c.lost = calls[i].lost /\ c.answer = a
    BY <1>1, <1>2 DEF Proper, CallFields
  <2> HIDE DEF c
  <2>5. Relist(c, left, tab.list, tab.current_loc)
    BY <1>3, <2>1, <2>3, <2>4 DEF Relist
  <2>6. Alone(WithAnswer(calls, i, a), left, tab.list, tab.current_loc)
    BY <1>1, <1>2, <2>5, AloneFilled DEF Listing, c
  <2>7. QED
    BY <1>6, <2>2, <2>6
<1>7. QED
  BY <1>1, <1>4, <1>5, <1>6

LEMMA OtherBackendS ==
  ASSUME TInv, SInv, NEW i, fe_get_loc_token(i) \/ fe_get_full_rule(i)
  PROVE  SInv'
<1>1. /\ i \in DOMAIN calls /\ calls[i].kind \notin Listing /\ UNCHANGED <<rule, overlapped, tab>>
      /\ \E a : Answer(i, a) \/ Refuse(i)
  <2>1. CASE fe_get_loc_token(i)
    BY <2>1 DEF fe_get_loc_token, Waiting, history, server, Listing
  <2>2. CASE fe_get_full_rule(i)
    BY <2>2 DEF fe_get_full_rule, Waiting, history, server, Listing
  <2>3. QED
    BY <2>1, <2>2
<1>2. calls' = RemoveAt(calls, i) \/ \E a : calls' = WithAnswer(calls, i, a)
  BY <1>1 DEF Answer, Refuse, WithAnswer
<1>3. QED
  BY <1>1, <1>2, FrameS

(* On the rules page a rule is never being saved unless something else is  *)
(* in flight that concerns the list.                                       *)
LEMMA fe_create_esruleS ==
  ASSUME TInv, SInv, NEW i, fe_create_esrule(i)
  PROVE  SInv'
<1>1. /\ i \in DOMAIN calls /\ calls[i].kind = "new" /\ UNCHANGED <<tab, overlapped>>
  BY CreateIs
<1>2. ASSUME tab.page = "rules", ~ overlapped PROVE FALSE
  <2>1. Relist(calls[i], rule, tab.list, tab.current_loc)
    BY <1>1, <1>2, OnlyOne DEF Listing
  <2>2. QED
    BY <1>1, <2>1 DEF Relist
<1>3. QED
  BY <1>1, <1>2 DEF SInv

LEMMA RulesArriveS ==
  ASSUME TInv, SInv, NEW i, RulesArrive(i)
  PROVE  SInv'
<1> DEFINE c == calls[i]  l == Listed(tab, c)  loc == c.answer.loc
<1>1. /\ i \in DOMAIN calls /\ c.kind = "rules" /\ c.answer # NoAnswer
      /\ tab' = [l EXCEPT !.current_loc = loc] /\ calls' = RemoveAt(calls, i)
      /\ UNCHANGED <<rule, overlapped>>
  BY DEF RulesArrive, Answered, Quiet, server
<1>2. CallOK(c, next_id, tangled)
  BY <1>1, ArriveParts
<1>3. /\ DOMAIN l = TabFields /\ l.page = tab.page
      /\ l.list = IF c.live THEN c.answer.rules ELSE tab.list
  <2> HIDE DEF c
  <2>1. QED
    BY <1>1, <1>2, KeptNow, ListedOK DEF TabOK
<1> HIDE DEF l
<1>4. tab'.page = tab.page /\ tab'.list = l.list /\ tab'.current_loc = loc
  BY <1>1, <1>3 DEF TabFields
<1> SUFFICES ASSUME tab.page = "rules", ~ overlapped
             PROVE  Alone(calls', rule, tab'.list, tab'.current_loc)
  BY <1>1, <1>4 DEF SInv
<1>5. /\ Relist(c, rule, tab.list, tab.current_loc)
      /\ InFlight(RemoveAt(calls, i), Listing) = {}
  BY <1>1, OnlyOne DEF Listing
<1> HIDE DEF c
<1>6. c.live /\ c.answer.rules = AllOf(rule, loc)
  BY <1>1, <1>5 DEF Relist
<1>7. tab'.list = AllOf(rule, tab'.current_loc)
  BY <1>3, <1>4, <1>6
<1>8. QED
  BY <1>1, <1>5, <1>7, AloneNone

LEMMA DeleteArrivesS ==
  ASSUME TInv, SInv, NEW i, DeleteArrives(i)
  PROVE  SInv'
<1> DEFINE c == calls[i]  l == Listed(tab, c)
<1>1. /\ i \in DOMAIN calls /\ c.kind = "delete" /\ c.answer # NoAnswer
      /\ tab' = l /\ calls' = RemoveAt(calls, i) /\ UNCHANGED <<rule, overlapped>>
  BY DEF DeleteArrives, Answered, Quiet, server
<1>2. CallOK(c, next_id, tangled)
  BY <1>1, ArriveParts
<1>3. /\ l.page = tab.page /\ l.current_loc = tab.current_loc
      /\ l.list = IF c.live THEN c.answer.rules ELSE tab.list
  <2> HIDE DEF c
  <2>1. QED
    BY <1>1, <1>2, KeptNow, ListedOK
<1> HIDE DEF l
<1> SUFFICES ASSUME tab.page = "rules", ~ overlapped
             PROVE  Alone(calls', rule, tab'.list, tab'.current_loc)
  BY <1>1, <1>3 DEF SInv
<1>5. /\ Relist(c, rule, tab.list, tab.current_loc)
      /\ InFlight(RemoveAt(calls, i), Listing) = {}
  BY <1>1, OnlyOne DEF Listing
<1> HIDE DEF c
<1>6. c.live /\ c.answer.rules = AllOf(rule, tab.current_loc)
  BY <1>1, <1>5 DEF Relist
<1>7. tab'.list = AllOf(rule, tab'.current_loc)
  BY <1>1, <1>3, <1>6
<1>8. QED
  BY <1>1, <1>5, <1>7, AloneNone

LEMMA TokenArrivesS ==
  ASSUME TInv, SInv, NEW i, TokenArrives(i)
  PROVE  SInv'
<1>1. i \in DOMAIN calls /\ \E t : EnterRules(t, RemoveAt(calls, i))
  BY DEF TokenArrives, Answered
<1>2. QED
  BY <1>1, ArriveParts, EnterRulesS

LEMMA NewRuleArrivesS ==
  ASSUME TInv, SInv, NEW i, NewRuleArrives(i)
  PROVE  SInv'
<1> DEFINE t == [tab EXCEPT !.staged = NoRule]
<1>1. /\ i \in DOMAIN calls /\ calls[i].kind = "new"
      /\ \/ tab.page = "rules" /\ tab' = t /\ UNCHANGED overlapped
         \/ EnterRules(t, RemoveAt(calls, i))
  BY DEF NewRuleArrives, Answered, Quiet
<1>2. CASE tab.page = "rules" /\ tab' = t /\ UNCHANGED overlapped
  <2>1. ASSUME ~ overlapped PROVE FALSE
    <3>1. Relist(calls[i], rule, tab.list, tab.current_loc)
      BY <1>1, <1>2, <2>1, OnlyOne DEF Listing
    <3>2. QED
      BY <1>1, <3>1 DEF Relist
  <2>2. QED
    BY <1>2, <2>1 DEF SInv
<1> HIDE DEF t
<1>3. CASE EnterRules(t, RemoveAt(calls, i))
  BY <1>1, <1>3, ArriveParts, EnterRulesS
<1>4. QED
  BY <1>1, <1>2, <1>3

LEMMA FullRuleArrivesS ==
  ASSUME TInv, SInv, NEW i, FullRuleArrives(i)
  PROVE  SInv'
<1> DEFINE st == calls[i].answer
<1>1. /\ i \in DOMAIN calls /\ calls[i].kind = "full" /\ tab' = [tab EXCEPT !.staged = st]
      /\ calls' = RemoveAt(calls, i) /\ UNCHANGED <<rule, overlapped>>
  BY DEF FullRuleArrives, Answered, Quiet, server
<1> HIDE DEF st
<1>2. tab'.page = tab.page /\ tab'.list = tab.list /\ tab'.current_loc = tab.current_loc
  BY <1>1, KeptNow DEF TabFields
<1>3. calls[i].kind \notin Listing
  BY <1>1 DEF Listing
<1>4. QED
  BY <1>1, <1>2, <1>3, FrameS

LEMMA FormArrivesS ==
  ASSUME TInv, SInv, NEW i, FormArrives(i)
  PROVE  SInv'
<1> DEFINE p == calls[i].args  live == calls[i].live
           e == [tab EXCEPT !.clause.par = p, !.loaded = @ \/ live]
<1>1. /\ i \in DOMAIN calls /\ calls[i].kind = "form"
      /\ tab' = (IF tab.clause = NoClause THEN tab ELSE e)
      /\ calls' = RemoveAt(calls, i) /\ UNCHANGED <<rule, overlapped>>
  BY DEF FormArrives, Waiting, Quiet, server
<1> HIDE DEF p, live
<1>2. e.page = tab.page /\ e.list = tab.list /\ e.current_loc = tab.current_loc
  BY KeptNow DEF TabFields
<1> HIDE DEF e
<1>3. tab'.page = tab.page /\ tab'.list = tab.list /\ tab'.current_loc = tab.current_loc
  BY <1>1, <1>2
<1>4. calls[i].kind \notin Listing
  BY <1>1 DEF Listing
<1>5. QED
  BY <1>1, <1>3, <1>4, FrameS

LEMMA ParamsArriveS ==
  ASSUME TInv, SInv, NEW i, ParamsArrive(i)
  PROVE  SInv'
<1>1. tab' = Entered(tab, "params") \/ (tab' = tab /\ tab.page = "params")
  BY DEF ParamsArrive, EnterParams
<1>2. tab'.page = "params"
  BY <1>1, KeptNow, EnteredOK DEF Pages
<1>3. QED
  BY <1>2, ElsewhereS

LEMMA StepS ==
  ASSUME TInv, TInv', SInv, [Next]_vars
  PROVE  SInv'
<1>1. CASE Step
  <2>1. CASE Click BY <2>1, ClickS
  <2>2. CASE SaveSession BY <2>2, FrameS DEF SaveSession, history
  <2>3. ASSUME NEW i, AnswerRules(i) PROVE SInv' BY <2>3, AnswerRulesS
  <2>4. ASSUME NEW i, fe_get_loc_token(i) \/ fe_get_full_rule(i) PROVE SInv' BY <2>4, OtherBackendS
  <2>5. ASSUME NEW i, fe_create_esrule(i) PROVE SInv' BY <2>5, fe_create_esruleS
  <2>6. ASSUME NEW i, fe_delete_rule(i) PROVE SInv' BY <2>6, fe_delete_ruleS
  <2>7. ASSUME NEW i, RulesArrive(i) PROVE SInv' BY <2>7, RulesArriveS
  <2>8. ASSUME NEW i, TokenArrives(i) PROVE SInv' BY <2>8, TokenArrivesS
  <2>9. ASSUME NEW i, FullRuleArrives(i) PROVE SInv' BY <2>9, FullRuleArrivesS
  <2>10. ASSUME NEW i, ParamsArrive(i) PROVE SInv' BY <2>10, ParamsArriveS
  <2>11. ASSUME NEW i, FormArrives(i) PROVE SInv' BY <2>11, FormArrivesS
  <2>12. ASSUME NEW i, NewRuleArrives(i) PROVE SInv' BY <2>12, NewRuleArrivesS
  <2>13. ASSUME NEW i, DeleteArrives(i) PROVE SInv' BY <2>13, DeleteArrivesS
  <2>14. QED
    BY <1>1, <2>1, <2>2, <2>3, <2>4, <2>5, <2>6, <2>7, <2>8, <2>9, <2>10, <2>11, <2>12, <2>13 DEF Step
<1>2. CASE UNCHANGED vars
  BY <1>2, FrameS DEF vars, server, history
<1>3. QED
  BY <1>1, <1>2, NextIsStep

LEMMA InitS ==
  ASSUME Init
  PROVE  SInv
<1> DEFINE call == RulesCall(TRUE)
<1>1. calls = <<call>>
  BY DEF Init
<1>2. call.kind = "rules" /\ call.answer = NoAnswer /\ call.live = TRUE /\ call.lost = FALSE
  BY DEF RulesCall, Call
<1> HIDE DEF call
<1>3. InFlight(calls, Listing) = {1} /\ calls[1] = call
  BY <1>1, <1>2, OneIs DEF InFlight, Listing
<1>4. \A r, list, loc : Relist(call, r, list, loc)
  BY <1>2 DEF Relist
<1>5. QED
  BY <1>3, <1>4 DEF SInv, Alone

(* The rules page shows the rules that Home I/O runs, as it runs them, once*)
(* nothing is in flight, if no two calls that concern the list were: each  *)
(* of them, when alone, makes the list what it should be when it comes, a  *)
(* deletion too, although its answer is made of the location of the session*)
(* and not of that of the page.                                            *)
THEOREM ShownRulesAlwaysRun == Spec => []ShownRulesRun
<1>1. Init => TInv /\ SInv
  BY InitT, InitS
<1>2. TInv /\ SInv /\ [Next]_vars => TInv' /\ SInv'
  BY StepT, StepS
<1>3. TInv /\ SInv => ShownRulesRun
  <2> SUFFICES ASSUME TInv, SInv, tab.page = "rules", calls = <<>>, arriving = 0,
                      tab.current_loc = session, ~ overlapped
               PROVE  tab.list = fe_all_rules(scenario)
    BY DEF ShownRulesRun
  <2>1. Alone(calls, rule, tab.list, tab.current_loc) /\ InFlight(calls, Listing) = {}
    BY DEF SInv, InFlight
  <2>2. scenario = session
    BY TParts DEF ServerOK
  <2>3. QED
    BY <2>1, <2>2, AllRulesIs DEF Alone
<1>4. QED
  BY <1>1, <1>2, <1>3, PTL DEF Spec

-----------------------------------------------------------------------------
(* What a clause says in each of its forms                                 *)

(* What the types are, and the values of a device of each                  *)
LEMMA TypesAre ==
  ASSUME NEW d \in DOMAIN Devices
  PROVE  /\ Type(d) \in {"bin", "range", "time"}
         /\ Type(d) = "bin" => ValuesOf(d) = {"tval", "fval"}
         /\ Type(d) = "range" => ValuesOf(d) = Numbers
         /\ Type(d) = "time" => ValuesOf(d) = Minutes
         /\ Numbers \subseteq Int /\ Minutes \subseteq 0 .. 1439
<1>1. Type(d) \in {"bin", "range", "time"}
  BY TranslationAssumption DEF Type
<1>2. Numbers \subseteq Int /\ Minutes \subseteq 0 .. 1439
  BY TranslationAssumption
<1>3. /\ Type(d) = "bin" => ValuesOf(d) = {"tval", "fval"}
      /\ Type(d) = "range" => ValuesOf(d) = Numbers
      /\ Type(d) = "time" => ValuesOf(d) = Minutes
  BY <1>1 DEF ValuesOf
<1>4. QED
  BY <1>1, <1>2, <1>3

(* The device a name is found for has that name, and with it its type.     *)
LEMMA DeviceFound ==
  ASSUME NEW d \in DOMAIN Devices
  PROVE  LET e == DeviceNamed(Devices[d].name)
         IN  e \in DOMAIN Devices /\ Devices[e].name = Devices[d].name /\ Type(e) = Type(d)
<1> DEFINE nm == Devices[d].name
           Same == {e \in DOMAIN Devices : Devices[e].name = nm}
           First(e) == /\ Devices[e].name = nm
                       /\ \A other \in DOMAIN Devices : Devices[other].name = nm => e <= other
<1>1. DOMAIN Devices \subseteq Nat
  BY TranslationAssumption
<1>2. Same \subseteq Nat /\ Same # {}
  BY <1>1
<1>3. PICK m \in Same : \A n \in Same : m <= n
  BY <1>2, LeastElement
<1>4. m \in DOMAIN Devices /\ First(m)
  BY <1>3
<1>5. DeviceNamed(nm) = CHOOSE e \in DOMAIN Devices : First(e)
  BY DEF DeviceNamed
<1>6. DeviceNamed(nm) \in DOMAIN Devices /\ Devices[DeviceNamed(nm)].name = nm
  BY <1>4, <1>5
<1>7. QED
  BY <1>6, TranslationAssumption DEF Type

(* A time is the same after its way through hours, minutes and seconds.    *)
LEMMA TimeBack ==
  ASSUME NEW n \in Nat
  PROVE  SecondsOf(TimeOf(n)) = n /\ TimeOf(n) # NoTime
<1>1. /\ TimeOf(n).hours = n \div 3600 /\ TimeOf(n).minutes = (n \div 60) % 60
      /\ TimeOf(n).seconds = n % 60
  BY DEF TimeOf
<1>2. (n % 60) + ((n \div 60) % 60) * 60 + (n \div 3600) * 3600 = n
  OBVIOUS
<1>3. "hours" \in DOMAIN TimeOf(n) /\ "hours" \notin DOMAIN NoTime
  BY DEF TimeOf, NoTime
<1>4. SecondsOf(TimeOf(n)) = n
  BY <1>1, <1>2 DEF SecondsOf
<1>5. QED
  BY <1>3, <1>4

(* A clause in the editor, and what is stored of its time                  *)
LEMMA ClauseHas ==
  ASSUME NEW d \in DOMAIN Devices, NEW c \in ClausesOf(d)
  PROVE  /\ c = [device |-> d, par |-> d, comparator |-> c.comparator, value |-> c.value,
                 timeValue |-> c.timeValue]
         /\ c.device = d /\ c.par = d
         /\ c.comparator \in Comparators(d) /\ c.value \in ValuesOf(d)
         /\ \/ c.timeValue = NoTime /\ Stored(c).time_val = 0
            \/ \E n \in Nat \ {0} : /\ c.timeValue = TimeOf(n) /\ c.timeValue # NoTime
                                    /\ Stored(c).time_val = n
<1>1. /\ c = [device |-> d, par |-> d, comparator |-> c.comparator, value |-> c.value,
              timeValue |-> c.timeValue]
      /\ c.device = d /\ c.par = d
      /\ c.comparator \in Comparators(d) /\ c.value \in ValuesOf(d)
      /\ c.timeValue \in TimeValues
  BY DEF ClausesOf
<1>2. Stored(c).time_val = IF c.timeValue = NoTime THEN 0 ELSE SecondsOf(c.timeValue)
  BY DEF Stored
<1>3. CASE c.timeValue = NoTime
  BY <1>1, <1>2, <1>3
<1>4. CASE c.timeValue # NoTime
  <2>1. PICK n \in Holds : c.timeValue = TimeOf(n)
    BY <1>1, <1>4 DEF TimeValues
  <2>2. n \in Nat \ {0}
    BY TranslationAssumption
  <2>3. Stored(c).time_val = n
    BY <1>2, <1>4, <2>1, <2>2, TimeBack
  <2>4. QED
    BY <1>1, <1>4, <2>1, <2>2, <2>3
<1>5. QED
  BY <1>3, <1>4, <1>1

(* An event is read from its table as it was saved.                        *)
LEMMA EventBack ==
  ASSUME NEW d \in DOMAIN Devices, NEW c \in ClausesOf(d)
  PROVE  Loaded(Stored(c), TRUE) = c
<1>1. Loaded(Stored(c), TRUE)
        = [device |-> c.device, par |-> c.par, comparator |-> c.comparator, value |-> c.value,
           timeValue |-> IF Stored(c).time_val = 0 THEN NoTime ELSE TimeOf(Stored(c).time_val)]
  BY DEF Loaded, Stored
<1>2. c.timeValue = IF Stored(c).time_val = 0 THEN NoTime ELSE TimeOf(Stored(c).time_val)
  BY ClauseHas
<1> DEFINE t == IF Stored(c).time_val = 0 THEN NoTime ELSE TimeOf(Stored(c).time_val)
<1> HIDE DEF t
<1>3. Loaded(Stored(c), TRUE) = [device |-> d, par |-> d, comparator |-> c.comparator,
                                 value |-> c.value, timeValue |-> t]
  BY <1>1, ClauseHas DEF t
<1>4. c = [device |-> d, par |-> d, comparator |-> c.comparator, value |-> c.value,
           timeValue |-> c.timeValue]
  BY ClauseHas
<1>5. c.timeValue = t
  BY <1>2 DEF t
<1>6. QED
  BY <1>3, <1>4, <1>5

(* The fields of the statement made of a clause                            *)
ValueSeen(d, v) ==
    CASE Type(d) = "bin" -> v # "fval" [] Type(d) = "range" -> Unsigned(v)
      [] Type(d) = "time" -> v * 60
TimeSeen(clause) ==
    IF Storable(clause) /\ clause.timeValue # NoTime THEN SecondsOf(clause.timeValue) ELSE 0
LEMMA StatementHas ==
  ASSUME NEW c
  PROVE  /\ Statement(c) = [neg |-> c.comparator = "!=", name |-> Devices[c.device].name,
                            comp |-> IF c.comparator = "!=" THEN "=" ELSE c.comparator,
                            val |-> ValueSeen(c.par, c.value), time |-> TimeSeen(c)]
         /\ Statement(c).neg = (c.comparator = "!=")
         /\ Statement(c).name = Devices[c.device].name
         /\ Statement(c).comp = IF c.comparator = "!=" THEN "=" ELSE c.comparator
         /\ Statement(c).val = ValueSeen(c.par, c.value)
         /\ Statement(c).time = TimeSeen(c)
<1> DEFINE neg == c.comparator = "!="
           comp == IF c.comparator = "!=" THEN "=" ELSE c.comparator
           nm == Devices[c.device].name
           v == ValueSeen(c.par, c.value)
           t == TimeSeen(c)
<1>1. Statement(c) = [neg |-> neg, name |-> nm, comp |-> comp, val |-> v, time |-> t]
  BY Zenon DEF Statement, ValueSeen, TimeSeen
<1> HIDE DEF neg, comp, nm, v, t
<1>2. /\ Statement(c).neg = neg /\ Statement(c).comp = comp /\ Statement(c).name = nm
      /\ Statement(c).val = v /\ Statement(c).time = t
  BY <1>1
<1> USE DEF neg, comp, nm, v, t
<1>3. QED
  BY <1>1, <1>2, Zenon

(* A condition or an action, stored and read again or sent by the browser, *)
(* makes the same statement.                                               *)
LEMMA SameFields ==
  ASSUME NEW c, NEW e, c.comparator = e.comparator, c.device = e.device, c.par = e.par,
         c.value = e.value, TimeSeen(c) = TimeSeen(e)
  PROVE  Statement(c) = Statement(e)
<1>1. Statement(c) = [neg |-> c.comparator = "!=", name |-> Devices[c.device].name,
                      comp |-> IF c.comparator = "!=" THEN "=" ELSE c.comparator,
                      val |-> ValueSeen(c.par, c.value), time |-> TimeSeen(c)]
  BY StatementHas
<1>2. Statement(e) = [neg |-> e.comparator = "!=", name |-> Devices[e.device].name,
                      comp |-> IF e.comparator = "!=" THEN "=" ELSE e.comparator,
                      val |-> ValueSeen(e.par, e.value), time |-> TimeSeen(e)]
  BY StatementHas
<1>3. QED
  BY <1>1, <1>2, Zenon
LEMMA RowBack ==
  ASSUME NEW d \in DOMAIN Devices, NEW s \in ClausesOf(d), s.timeValue = NoTime
  PROVE  /\ Statement(Loaded(Stored(s), FALSE)) = Statement(s)
         /\ s.comparator = "=" => Statement(LoadedAction(StoredAction(s))) = Statement(s)
<1> DEFINE l == Loaded(Stored(s), FALSE)
           a == LoadedAction(StoredAction(s))
<1>1. /\ l.device = s.device /\ l.par = s.par /\ l.comparator = s.comparator
      /\ l.value = s.value /\ "timeValue" \notin DOMAIN l
  BY DEF Loaded, Stored
<1>2. /\ a.device = s.device /\ a.par = s.par /\ a.comparator = "="
      /\ a.value = s.value /\ "timeValue" \notin DOMAIN a
  BY DEF LoadedAction, StoredAction
<1> HIDE DEF l, a
<1>3. TimeSeen(l) = 0 /\ TimeSeen(a) = 0 /\ TimeSeen(s) = 0
  BY <1>1, <1>2 DEF TimeSeen, Storable
<1>4. Statement(l) = Statement(s)
  BY <1>1, <1>3, SameFields
<1>5. s.comparator = "=" => Statement(a) = Statement(s)
  BY <1>2, <1>3, SameFields
<1>6. QED
  BY <1>4, <1>5 DEF l, a

(* The clause that shows a statement, by the type of its device            *)
ComparatorShown(d, f) ==
    IF Type(d) = "bin" THEN "=" ELSE IF Type(d) = "time" THEN Comparator(f)
    ELSE Offered(Comparator(f))
ValueShown(d, f) ==
    IF Type(d) = "bin" THEN IF f.val = ~ f.neg THEN "tval" ELSE "fval"
    ELSE IF Type(d) = "time" THEN (f.val \div 60) % 3600 ELSE f.val
LEMMA ShownClause ==
  ASSUME NEW d \in DOMAIN Devices, NEW f, f.name = Devices[d].name
  PROVE  LET g == ClauseOf(f)
         IN  /\ g.device = DeviceNamed(Devices[d].name) /\ g.par = g.device
             /\ g.comparator = ComparatorShown(d, f) /\ g.value = ValueShown(d, f)
             /\ g = [device |-> g.device, par |-> g.device, comparator |-> g.comparator,
                     value |-> g.value]
<1> DEFINE e == DeviceNamed(Devices[d].name)
           g == ClauseOf(f)
           comp == ComparatorShown(d, f)
           v == ValueShown(d, f)
<1>1. Type(e) = Type(d)
  BY DeviceFound
<1>2. g = IF Type(e) = "time" THEN ClockClause(e, f) ELSE RegularClause(e, f)
  BY DEF ClauseOf, SimpleClause
<1>3. g = [device |-> e, par |-> e, comparator |-> comp, value |-> v]
  <2> HIDE DEF e, g
  <2>1. CASE Type(d) = "time"
    <3>1. "time" # "bin"
      OBVIOUS
    <3>2. comp = Comparator(f) /\ v = (f.val \div 60) % 3600
      BY <2>1, <3>1 DEF ComparatorShown, ValueShown
    <3> HIDE DEF comp, v
    <3>3. ClockClause(e, f) = [device |-> e, par |-> e, comparator |-> comp, value |-> v]
      BY <3>2 DEF ClockClause
    <3>4. QED
      BY <1>1, <1>2, <2>1, <3>3
  <2>2. CASE Type(d) = "bin"
    <3>1. "time" # "bin"
      OBVIOUS
    <3>2. RegularClause(e, f) = [device |-> e, par |-> e, comparator |-> comp, value |-> v]
      BY <1>1, <2>2, Zenon DEF RegularClause, ComparatorShown, ValueShown
    <3>3. QED
      BY <1>1, <1>2, <2>2, <3>1, <3>2
  <2>3. CASE Type(d) \notin {"bin", "time"}
    <3>1. Type(d) # "bin" /\ Type(d) # "time" /\ Type(e) # "bin"
      BY <1>1, <2>3
    <3>2. RegularClause(e, f) = [device |-> e, par |-> e, comparator |-> Offered(Comparator(f)),
                                 value |-> f.val]
      BY <3>1, Zenon DEF RegularClause
    <3>3. comp = Offered(Comparator(f)) /\ v = f.val
      BY <3>1 DEF ComparatorShown, ValueShown
    <3>4. QED
      BY <1>1, <1>2, <3>1, <3>2, <3>3
  <2>4. QED
    BY <2>1, <2>2, <2>3
<1> HIDE DEF e, g, comp, v
<1>4. g.device = e /\ g.par = e /\ g.comparator = comp /\ g.value = v
  BY <1>3
<1>5. QED
  BY <1>3, <1>4 DEF e, g, comp, v

(* The comparator of a clause is shown again as it was.                    *)
LEMMA ComparatorBack ==
  ASSUME NEW c, c.comparator \in {"=", "!=", "<", ">"}
  PROVE  /\ Comparator(Statement(c)) = c.comparator
         /\ Offered(Comparator(Statement(c))) = c.comparator
<1>1. /\ Statement(c).neg = (c.comparator = "!=")
      /\ Statement(c).comp = IF c.comparator = "!=" THEN "=" ELSE c.comparator
  BY StatementHas
<1>2. CASE c.comparator = "!="
  <2>1. Statement(c).neg /\ Statement(c).comp = "="
    BY <1>1, <1>2
  <2>2. Comparator(Statement(c)) = Negated("=")
    BY <2>1, Zenon DEF Comparator
  <2>3. Negated("=") = "!="
    BY DEF Negated
  <2>4. QED
    BY <1>2, <2>2, <2>3 DEF Offered
<1>3. CASE c.comparator # "!="
  <2>1. ~ Statement(c).neg /\ Statement(c).comp = c.comparator
    BY <1>1, <1>3
  <2>2. Comparator(Statement(c)) = c.comparator
    BY <2>1, Zenon DEF Comparator
  <2>3. QED
    BY <2>2 DEF Offered
<1>4. QED
  BY <1>2, <1>3

(* A time of the day is shown as it was before it was made seconds.        *)
LEMMA MinutesBack ==
  ASSUME NEW d, NEW f, NEW v, Type(d) = "time", v \in Minutes, f.val = v * 60
  PROVE  ValueShown(d, f) = v
<1>1. v \in 0 .. 1439
  BY TranslationAssumption
<1>2. f.val \in Int /\ f.val \div 60 = v
  BY <1>1
<1>3. (f.val \div 60) % 3600 = v
  BY <1>1, <1>2
<1>4. ValueShown(d, f) = (f.val \div 60) % 3600
  BY DEF ValueShown
<1>5. QED
  BY <1>3, <1>4

(* A clause comes back from the analysis as it was, but for its sign and   *)
(* on the first device of its name.                                        *)
LEMMA ClauseBack ==
  ASSUME NEW d \in DOMAIN Devices, NEW c, c.device \in DOMAIN Devices, c.par = c.device,
         Devices[c.device].name = Devices[d].name,
         c.comparator \in Comparators(d), c.value \in ValuesOf(d)
  PROVE  LET g == ClauseOf(Statement(c))
         IN  /\ g.device = DeviceNamed(Devices[d].name) /\ g.par = g.device
             /\ g.comparator = c.comparator
             /\ g.value = IF Type(d) = "range" THEN Unsigned(c.value) ELSE c.value
             /\ g = [device |-> g.device, par |-> g.device, comparator |-> g.comparator,
                     value |-> g.value]
<1> DEFINE f == Statement(c)
           g == ClauseOf(f)
<1>1. Type(c.par) = Type(d)
  BY TranslationAssumption DEF Type
<1>2. f.name = Devices[d].name /\ f.val = ValueSeen(c.par, c.value)
      /\ f.neg = (c.comparator = "!=")
  BY StatementHas
<1>3. c.comparator \in {"=", "!=", "<", ">"} /\ (Type(d) = "bin" => c.comparator = "=")
  BY DEF Comparators
<1>4. Comparator(f) = c.comparator /\ Offered(Comparator(f)) = c.comparator
  BY <1>3, ComparatorBack
<1> HIDE DEF f
<1>5. /\ g.device = DeviceNamed(Devices[d].name) /\ g.par = g.device
      /\ g.comparator = ComparatorShown(d, f) /\ g.value = ValueShown(d, f)
      /\ g = [device |-> g.device, par |-> g.device, comparator |-> g.comparator,
              value |-> g.value]
  BY <1>2, ShownClause
<1> HIDE DEF g
<1>6. g.comparator = c.comparator
  BY <1>3, <1>4, <1>5 DEF ComparatorShown
<1>7. g.value = IF Type(d) = "range" THEN Unsigned(c.value) ELSE c.value
  <2>1. CASE Type(d) = "bin"
    <3>1. f.neg = FALSE /\ f.val = (c.value # "fval") /\ c.value \in {"tval", "fval"}
      <4>1. f.neg = FALSE
        BY <1>2, <1>3, <2>1
      <4>2. c.value \in {"tval", "fval"}
        BY <2>1, TypesAre
      <4>3. ValueSeen(c.par, c.value) = (c.value # "fval")
        BY <1>1, <2>1, Zenon DEF ValueSeen
      <4>4. QED
        BY <1>2, <4>1, <4>2, <4>3, Zenon
    <3>2. CASE c.value = "tval"
      <4>1. f.val = TRUE
        BY <3>1, <3>2
      <4>2. f.val = ~ f.neg
        BY <3>1, <4>1, Zenon
      <4>3. ValueShown(d, f) = "tval"
        BY <2>1, <4>2, Zenon DEF ValueShown
      <4>4. QED
        BY <1>5, <2>1, <3>2, <4>3
    <3>3. CASE c.value = "fval"
      <4>1. f.val = FALSE
        BY <3>1, <3>3
      <4>2. ~ (f.val = ~ f.neg)
        BY <3>1, <4>1, Zenon
      <4>3. ValueShown(d, f) = "fval"
        BY <2>1, <4>2, Zenon DEF ValueShown
      <4>4. QED
        BY <1>5, <2>1, <3>3, <4>3
    <3>4. QED
      BY <3>1, <3>2, <3>3
  <2>2. CASE Type(d) = "range"
    <3>1. f.val = Unsigned(c.value)
      BY <1>1, <1>2, <2>2 DEF ValueSeen
    <3>2. ValueShown(d, f) = f.val
      BY <2>2 DEF ValueShown
    <3>3. QED
      BY <1>5, <2>2, <3>1, <3>2
  <2>3. CASE Type(d) = "time"
    <3>1. f.val = c.value * 60 /\ c.value \in Minutes
      BY <1>1, <1>2, <2>3, TypesAre DEF ValueSeen
    <3>2. ValueShown(d, f) = c.value
      BY <2>3, <3>1, MinutesBack, Zenon
    <3>3. QED
      BY <1>5, <2>3, <3>2
  <2>4. QED
    BY <2>1, <2>2, <2>3, TypesAre
<1>8. QED
  BY <1>5, <1>6, <1>7 DEF f, g

(* Comparing                                                               *)
Orders == {"=", "!=", "<", ">", "<=", ">="}
LEMMA CompareIs ==
  ASSUME NEW x, NEW y
  PROVE  /\ Compare(x, "=", y) <=> x = y
         /\ Compare(x, "!=", y) <=> x # y
         /\ Compare(x, "<", y) <=> x < y
         /\ Compare(x, ">", y) <=> x > y
         /\ Compare(x, "<=", y) <=> x <= y
         /\ Compare(x, ">=", y) <=> x >= y
         /\ \A comp \in Orders : Compare(x, comp, y) \in BOOLEAN
<1>1. ASSUME NEW comp \in Orders PROVE Compare(x, comp, y) \in BOOLEAN
  <2>1. /\ (x = y) \in BOOLEAN /\ (x # y) \in BOOLEAN /\ (x < y) \in BOOLEAN
        /\ (x > y) \in BOOLEAN /\ (x <= y) \in BOOLEAN /\ (x >= y) \in BOOLEAN
    OBVIOUS
  <2>2. \/ Compare(x, comp, y) = (x = y) \/ Compare(x, comp, y) = (x # y)
        \/ Compare(x, comp, y) = (x < y) \/ Compare(x, comp, y) = (x > y)
        \/ Compare(x, comp, y) = (x <= y) \/ Compare(x, comp, y) = (x >= y)
    BY DEF Compare, Orders
  <2>3. QED
    BY <2>1, <2>2, Zenon
<1>2. QED
  BY <1>1 DEF Compare

LEMMA CompareMinutes ==
  ASSUME NEW x \in Int, NEW y \in Int, NEW comp \in Orders
  PROVE  Compare(x * 60, comp, y * 60) <=> Compare(x, comp, y)
<1>1. /\ x * 60 = y * 60 <=> x = y
      /\ x * 60 < y * 60 <=> x < y
      /\ x * 60 > y * 60 <=> x > y
      /\ x * 60 <= y * 60 <=> x <= y
      /\ x * 60 >= y * 60 <=> x >= y
  OBVIOUS
<1> DEFINE X == x * 60  Y == y * 60
<1> HIDE DEF X, Y
<1>2. Compare(X, comp, Y) <=> Compare(x, comp, y)
  BY <1>1, CompareIs DEF Orders, X, Y
<1>3. QED
  BY <1>2 DEF X, Y

(* A negated statement holds where its negated comparator does.            *)
LEMMA HoldsAs ==
  ASSUME NEW f, NEW x, f.neg \in BOOLEAN,
         \/ f.comp = "="
         \/ f.comp \in {"<", ">", "<=", ">="} /\ x \in Int /\ f.val \in Int
  PROVE  StatementHolds(f, x) <=> Compare(x, Comparator(f), f.val)
<1> DEFINE y == f.val
<1>1. /\ Negated("=") = "!=" /\ Negated("<") = ">=" /\ Negated(">") = "<="
      /\ Negated("<=") = ">" /\ Negated(">=") = "<"
  BY DEF Negated
<1>2. Compare(x, f.comp, y) \in BOOLEAN
  BY CompareIs DEF Orders
<1> HIDE DEF y
<1>3. CASE f.neg
  <2>1. Comparator(f) = Negated(f.comp)
    BY <1>3, Zenon DEF Comparator
  <2>2. StatementHolds(f, x) <=> ~ Compare(x, f.comp, y)
    <3>1. f.neg = TRUE
      BY <1>3
    <3>2. QED
      BY <1>2, <3>1, Zenon DEF StatementHolds, y
  <2>3. Compare(x, Negated(f.comp), y) <=> ~ Compare(x, f.comp, y)
    <3>1. CASE f.comp = "="
      <4>1. Compare(x, "!=", y) <=> ~ Compare(x, "=", y)
        BY CompareIs
      <4>2. QED
        BY <1>1, <3>1, <4>1
    <3>2. CASE f.comp \in {"<", ">", "<=", ">="} /\ x \in Int /\ y \in Int
      <4>1. /\ Compare(x, ">=", y) <=> ~ Compare(x, "<", y)
            /\ Compare(x, "<=", y) <=> ~ Compare(x, ">", y)
        BY <3>2, CompareIs
      <4>2. QED
        BY <1>1, <3>2, <4>1
    <3>3. QED
      BY <3>1, <3>2 DEF y
  <2>4. QED
    BY <2>1, <2>2, <2>3, Zenon DEF y
<1>4. CASE ~ f.neg
  <2>1. Comparator(f) = f.comp
    BY <1>4, Zenon DEF Comparator
  <2>2. f.neg = FALSE
    BY <1>4
  <2>3. QED
    BY <1>2, <2>1, <2>2, Zenon DEF StatementHolds, y
<1>5. QED
  BY <1>3, <1>4

(* The values of a device of type "bin", as the analysis and as Home I/O   *)
(* see them                                                                *)
LEMMA BinValues ==
  ASSUME NEW d \in DOMAIN Devices, NEW v \in ValuesOf(d), Type(d) = "bin"
  PROVE  /\ v \in {"tval", "fval"} /\ ValueSeen(d, v) = (v = "tval")
         /\ InTrace(d, v) = (v = "tval") /\ HomeIOValue(d, v) = (v = "tval")
<1>1. v \in {"tval", "fval"}
  BY TypesAre
<1>2. (v # "fval") = (v = "tval")
  BY <1>1
<1>3. ValueSeen(d, v) = (v # "fval")
  BY Zenon DEF ValueSeen
<1>4. InTrace(d, v) = (v = "tval") /\ HomeIOValue(d, v) = (v = "tval")
  BY Zenon DEF InTrace, HomeIOValue
<1>5. QED
  BY <1>1, <1>2, <1>3, <1>4, Zenon

(* The other values are numbers                                            *)
LEMMA NumberValues ==
  ASSUME NEW d \in DOMAIN Devices, NEW v \in ValuesOf(d), Type(d) # "bin"
  PROVE  /\ v \in Int /\ HomeIOValue(d, v) = v
         /\ Type(d) = "range" => InTrace(d, v) = v /\ ValueSeen(d, v) = Unsigned(v)
         /\ Type(d) = "time" => InTrace(d, v) = v * 60 /\ ValueSeen(d, v) = v * 60
<1>1. Type(d) = "range" \/ Type(d) = "time"
  BY TypesAre
<1>2. v \in Int
  BY <1>1, TypesAre
<1>3. Type(d) = "range" => InTrace(d, v) = v /\ ValueSeen(d, v) = Unsigned(v)
  BY DEF InTrace, ValueSeen
<1>4. Type(d) = "time" => InTrace(d, v) = v * 60 /\ ValueSeen(d, v) = v * 60
  BY DEF InTrace, ValueSeen
<1>5. HomeIOValue(d, v) = v
  BY Zenon DEF HomeIOValue
<1>6. QED
  BY <1>2, <1>3, <1>4, <1>5

(* The statement of a clause holds in the trace where its Home I/O clause  *)
(* holds in the house.                                                     *)
LEMMA SeenHolds ==
  ASSUME NEW d \in DOMAIN Devices, NEW c, c.device = d, c.par = d,
         c.comparator \in Comparators(d), c.value \in ValuesOf(d), Signless(c),
         NEW x \in ValuesOf(d)
  PROVE  StatementHolds(Statement(c), InTrace(d, x))
            <=> Compare(HomeIOValue(d, x), c.comparator, HomeIOValue(d, c.value))
<1> DEFINE f == Statement(c)
           v == c.value
           comp == c.comparator
<1>1. /\ f.neg = (comp = "!=") /\ f.comp = IF comp = "!=" THEN "=" ELSE comp
      /\ f.val = ValueSeen(d, v)
  BY StatementHas
<1>2. comp \in {"=", "!=", "<", ">"} /\ (Type(d) = "bin" => comp = "=")
  BY DEF Comparators
<1>3. Comparator(f) = comp
  BY <1>2, ComparatorBack
<1>4. Type(d) = "range" => v >= 0
  BY DEF Signless
<1>5. v \in ValuesOf(d)
  OBVIOUS
<1> HIDE DEF f, v, comp
<1>6. f.neg \in BOOLEAN
  BY <1>1, Zenon
<1>7. CASE Type(d) = "bin"
  <2>1. f.comp = "=" /\ comp = "="
    BY <1>1, <1>2, <1>7
  <2>2. StatementHolds(f, InTrace(d, x)) <=> Compare(InTrace(d, x), "=", f.val)
    <3>1. StatementHolds(f, InTrace(d, x)) <=> Compare(InTrace(d, x), Comparator(f), f.val)
      BY <1>6, <2>1, HoldsAs
    <3>2. QED
      BY <1>3, <2>1, <3>1, Zenon
  <2>3. /\ f.val = (v = "tval") /\ InTrace(d, x) = (x = "tval")
        /\ HomeIOValue(d, x) = (x = "tval") /\ HomeIOValue(d, v) = (v = "tval")
    BY <1>1, <1>5, <1>7, BinValues, Zenon
  <2>4. StatementHolds(f, InTrace(d, x))
          <=> Compare(HomeIOValue(d, x), comp, HomeIOValue(d, v))
    BY <2>1, <2>2, <2>3, Zenon
  <2>5. QED
    BY <2>4 DEF f, v, comp
<1>8. CASE Type(d) # "bin"
  <2>1. /\ v \in Int /\ x \in Int /\ HomeIOValue(d, x) = x /\ HomeIOValue(d, v) = v
        /\ Type(d) = "range" => InTrace(d, x) = x /\ f.val = Unsigned(v)
        /\ Type(d) = "time" => InTrace(d, x) = x * 60 /\ f.val = v * 60
        /\ Type(d) = "range" \/ Type(d) = "time"
    BY <1>1, <1>5, <1>8, NumberValues, TypesAre
  <2>2. Type(d) = "range" => f.val = v
    BY <1>4, <2>1 DEF Unsigned
  <2>3. f.val \in Int /\ InTrace(d, x) \in Int
    BY <2>1, <2>2
  <2>4. f.comp = "=" \/ f.comp \in {"<", ">", "<=", ">="}
    BY <1>1, <1>2
  <2>5. StatementHolds(f, InTrace(d, x)) <=> Compare(InTrace(d, x), comp, f.val)
    BY <1>3, <1>6, <2>3, <2>4, HoldsAs
  <2>6. Compare(InTrace(d, x), comp, f.val) <=> Compare(x, comp, v)
    <3>1. comp \in Orders
      BY <1>2 DEF Orders
    <3>2. CASE Type(d) = "range"
      BY <2>1, <2>2, <3>2
    <3>3. CASE Type(d) = "time"
      BY <2>1, <3>1, <3>3, CompareMinutes
    <3>4. QED
      BY <2>1, <3>2, <3>3
  <2>7. QED
    BY <2>1, <2>5, <2>6 DEF f, v, comp
<1>9. QED
  BY <1>7, <1>8

(* Of a command: the statement of an action is that of the command where   *)
(* it is on a device of its name, with its value.                          *)
LEMMA CommandFound ==
  ASSUME NEW d \in DOMAIN Devices, NEW v \in ValuesOf(d), Type(d) # "time",
         Type(d) = "range" => v >= 0,
         NEW o \in DOMAIN Devices, NEW w \in ValuesOf(o), Type(o) = "range" => w >= 0,
         NEW a, a.device = o, a.par = o, a.val = w
  PROVE  a \in RulesFor({a}, d, v) <=> Devices[o].name = Devices[d].name /\ w = v
<1> DEFINE f == Statement(LoadedAction(a))
           nm == Devices[o].name
           Cmd(u) == IF Type(d) = "bin" THEN u # "fval" ELSE Unsigned(u)
<1>1. f = [neg |-> FALSE, name |-> nm, comp |-> "=", val |-> ValueSeen(o, w), time |-> 0]
  <2> DEFINE l == LoadedAction(a)
  <2>1. l.device = o /\ l.par = o /\ l.comparator = "=" /\ l.value = w
        /\ "timeValue" \notin DOMAIN l
    BY DEF LoadedAction
  <2> HIDE DEF l
  <2>2. TimeSeen(l) = 0
    BY <2>1 DEF TimeSeen, Storable
  <2>3. "=" # "!="
    OBVIOUS
  <2>4. (l.comparator = "!=") = FALSE /\ (IF l.comparator = "!=" THEN "=" ELSE l.comparator) = "="
    BY <2>1
  <2>5. Statement(l) = [neg |-> l.comparator = "!=", name |-> Devices[l.device].name,
                        comp |-> IF l.comparator = "!=" THEN "=" ELSE l.comparator,
                        val |-> ValueSeen(l.par, l.value), time |-> TimeSeen(l)]
    BY StatementHas
  <2>6. QED
    BY <2>1, <2>2, <2>4, <2>5, Zenon DEF l
<1>2. CommandStatement(d, v) = [neg |-> FALSE, name |-> Devices[d].name, comp |-> "=",
                                time |-> 0, val |-> Cmd(v)]
  BY Zenon DEF CommandStatement
<1> DEFINE z == ValueSeen(o, w)
           u == Cmd(v)
<1>3. a \in RulesFor({a}, d, v) <=> f.name = Devices[d].name /\ f = CommandStatement(d, v)
  BY Zenon DEF RulesFor
<1> HIDE DEF f, z, u
<1>4. a \in RulesFor({a}, d, v) <=> nm = Devices[d].name /\ z = u
  <2>1. f = [neg |-> FALSE, name |-> nm, comp |-> "=", val |-> z, time |-> 0]
    BY <1>1 DEF z
  <2>2. CommandStatement(d, v) = [neg |-> FALSE, name |-> Devices[d].name, comp |-> "=",
                                  time |-> 0, val |-> u]
    BY <1>2 DEF u
  <2>3. f.name = nm /\ f.val = z
    BY <2>1
  <2>4. CommandStatement(d, v).val = u
    BY <2>2
  <2>5. nm = Devices[d].name /\ z = u => f = CommandStatement(d, v)
    BY <2>1, <2>2, Zenon
  <2>6. f = CommandStatement(d, v) => z = u
    BY <2>3, <2>4, Zenon
  <2>7. QED
    BY <1>3, <2>3, <2>5, <2>6, Zenon
<1>5. ASSUME nm = Devices[d].name PROVE z = u <=> w = v
  <2>1. Type(o) = Type(d)
    BY <1>5, TranslationAssumption DEF Type
  <2>2. CASE Type(d) = "bin"
    <3>1. w \in {"tval", "fval"} /\ v \in {"tval", "fval"}
      BY <2>1, <2>2, TypesAre
    <3>2. z = (w # "fval") /\ u = (v # "fval")
      BY <2>1, <2>2, Zenon DEF z, u, ValueSeen
    <3>3. (z = u) <=> ((w # "fval") <=> (v # "fval"))
      BY <3>2, Zenon
    <3>4. QED
      BY <3>1, <3>3
  <2>3. CASE Type(d) = "range"
    <3>1. w \in Int /\ v \in Int /\ w >= 0 /\ v >= 0
      BY <2>1, <2>3, TypesAre
    <3>2. z = Unsigned(w)
      BY <2>1, <2>3 DEF z, ValueSeen
    <3>3. u = Unsigned(v)
      BY <2>3 DEF u
    <3>4. QED
      BY <3>1, <3>2, <3>3 DEF Unsigned
  <2>4. QED
    BY <2>2, <2>3, TypesAre
<1>6. QED
  BY <1>4, <1>5

(* The three parts of a rule, read from the tables and sent by the browser *)
LEMMA ClauseTapIs ==
  ASSUME NEW a, NEW b, NEW t
  PROVE  ClauseTap([ifClause |-> <<a, b>>, thenClause |-> <<t>>])
            = [trigger |-> Statement(a), condition |-> {Statement(b)}, action |-> Statement(t)]
<1> DEFINE r == [ifClause |-> <<a, b>>, thenClause |-> <<t>>]
<1>1. /\ Head(r.ifClause) = a /\ Tail(r.ifClause) = <<b>> /\ Head(r.thenClause) = t
  OBVIOUS
<1>2. Members(<<b>>) = {b}
  BY DEF Members
<1>3. ClauseTap(r) = [trigger |-> Statement(Head(r.ifClause)),
                      condition |-> {Statement(c) : c \in Members(Tail(r.ifClause))},
                      action |-> Statement(Head(r.thenClause))]
  BY DEF ClauseTap
<1>4. {Statement(c) : c \in {b}} = {Statement(b)}
  BY Zenon
<1> HIDE DEF r
<1>5. ClauseTap(r) = [trigger |-> Statement(a), condition |-> {Statement(b)},
                      action |-> Statement(t)]
  BY <1>1, <1>2, <1>3, <1>4, Zenon
<1>6. QED
  BY <1>5 DEF r
LEMMA RuleTapIs ==
  ASSUME NEW row, NEW s, NEW a
  PROVE  RuleTap([Etrigger |-> row, Striggers |-> <<s>>, action |-> a])
            = [trigger |-> Statement(Loaded(row, TRUE)),
               condition |-> {Statement(Loaded(s, FALSE))},
               action |-> Statement(LoadedAction(a))]
<1> DEFINE r == [Etrigger |-> row, Striggers |-> <<s>>, action |-> a]
<1>1. r.Etrigger = row /\ r.Striggers = <<s>> /\ r.action = a
  OBVIOUS
<1>2. Members(<<s>>) = {s}
  BY DEF Members
<1>3. RuleTap(r) = [trigger |-> Statement(Loaded(r.Etrigger, TRUE)),
                    condition |-> {Statement(Loaded(e, FALSE)) : e \in Members(r.Striggers)},
                    action |-> Statement(LoadedAction(r.action))]
  BY DEF RuleTap
<1>4. {Statement(Loaded(e, FALSE)) : e \in {s}} = {Statement(Loaded(s, FALSE))}
  BY Zenon
<1> HIDE DEF r
<1>5. RuleTap(r) = [trigger |-> Statement(Loaded(row, TRUE)),
                    condition |-> {Statement(Loaded(s, FALSE))},
                    action |-> Statement(LoadedAction(a))]
  BY <1>1, <1>2, <1>3, <1>4, Zenon
<1>6. QED
  BY <1>5 DEF r

(* The analysis and Home I/O take a rule to mean the same.                 *)
LEMMA RulesSeenAsRun == SeenAsRun
<1> SUFFICES ASSUME NEW d \in DOMAIN Devices, NEW c \in ClausesOf(d), Signless(c)
             PROVE  LET row == Stored(c)
                        seen == Statement(Loaded(row, TRUE))
                        run == HomeIOClause(row)
                    IN  /\ \A x \in ValuesOf(d) :
                              StatementHolds(seen, InTrace(d, x))
                                  <=> Compare(HomeIOValue(d, x), run.comp, run.val)
                        /\ seen.time = run.hold_t
                        /\ \A other \in DOMAIN Devices :
                              \A s \in {s \in ClausesOf(other) :
                                            s.timeValue = NoTime /\ s.comparator = "="} :
                                  LET made == [Etrigger |-> row, Striggers |-> <<Stored(s)>>,
                                               action |-> StoredAction(s)]
                                      tap == RuleTap(made)
                                  IN  /\ tap = ClauseTap([ifClause |-> <<c, s>>,
                                                          thenClause |-> <<s>>])
                                      /\ HeldChannels(tap) =
                                             IF run.hold_t = 0 THEN {}
                                             ELSE {<<Devices[d].name, run.hold_t>>}
                                      /\ Signless(s) /\ Type(d) # "time" =>
                                            (made.action \in RulesFor({made.action}, d, c.value)
                                                <=> /\ Devices[other].name = Devices[d].name
                                                    /\ s.value = c.value)
  BY Zenon DEF SeenAsRun
<1> DEFINE row == Stored(c)
           seen == Statement(Loaded(row, TRUE))
           run == HomeIOClause(row)
<1>1. seen = Statement(c)
  BY EventBack
<1>2. /\ c.device = d /\ c.par = d /\ c.comparator \in Comparators(d) /\ c.value \in ValuesOf(d)
  BY ClauseHas
<1>3. run.comp = c.comparator /\ run.val = HomeIOValue(d, c.value) /\ run.hold_t = row.time_val
  BY <1>2 DEF HomeIOClause, Stored
<1>4. TimeSeen(c) = row.time_val
  <2>1. Storable(c)
    BY DEF Storable, ClausesOf
  <2>2. row.time_val = IF c.timeValue = NoTime THEN 0 ELSE SecondsOf(c.timeValue)
    BY DEF Stored
  <2>3. QED
    BY <2>1, <2>2 DEF TimeSeen
<1>5. Statement(c).time = TimeSeen(c) /\ Statement(c).name = Devices[d].name
  BY <1>2, StatementHas
<1>6. Type(d) = "range" => c.value >= 0
  BY <1>2 DEF Signless
<1> HIDE DEF row, seen, run
<1>7. ASSUME NEW x \in ValuesOf(d)
      PROVE  StatementHolds(seen, InTrace(d, x))
                <=> Compare(HomeIOValue(d, x), run.comp, run.val)
  BY <1>1, <1>2, <1>3, SeenHolds
<1>8. seen.time = run.hold_t
  BY <1>1, <1>3, <1>4, <1>5
<1>9. ASSUME NEW other \in DOMAIN Devices, NEW s \in ClausesOf(other),
             s.timeValue = NoTime, s.comparator = "="
      PROVE  LET made == [Etrigger |-> row, Striggers |-> <<Stored(s)>>,
                          action |-> StoredAction(s)]
                 tap == RuleTap(made)
             IN  /\ tap = ClauseTap([ifClause |-> <<c, s>>, thenClause |-> <<s>>])
                 /\ HeldChannels(tap) = IF run.hold_t = 0 THEN {}
                                        ELSE {<<Devices[d].name, run.hold_t>>}
                 /\ Signless(s) /\ Type(d) # "time" =>
                       (made.action \in RulesFor({made.action}, d, c.value)
                           <=> /\ Devices[other].name = Devices[d].name
                               /\ s.value = c.value)
  <2> DEFINE a == StoredAction(s)
             made == [Etrigger |-> row, Striggers |-> <<Stored(s)>>, action |-> a]
             tap == RuleTap(made)
  <2>1. tap = [trigger |-> seen, condition |-> {Statement(Loaded(Stored(s), FALSE))},
               action |-> Statement(LoadedAction(a))]
    BY RuleTapIs DEF seen
  <2>2. tap = [trigger |-> seen, condition |-> {Statement(s)}, action |-> Statement(s)]
    BY <1>9, <2>1, RowBack
  <2>3. tap = ClauseTap([ifClause |-> <<c, s>>, thenClause |-> <<s>>])
    BY <1>1, <2>2, ClauseTapIs
  <2>4. made.action = a
    OBVIOUS
  <2>5. a.device = other /\ a.par = other /\ a.val = s.value /\ s.value \in ValuesOf(other)
        /\ s.device = other
    BY ClauseHas DEF StoredAction
  <2> HIDE DEF a, made, tap
  <2>6. HeldChannels(tap) = IF run.hold_t = 0 THEN {} ELSE {<<Devices[d].name, run.hold_t>>}
    <3>1. tap.trigger = seen
      BY <2>2
    <3>2. QED
      BY <1>1, <1>5, <1>8, <3>1 DEF HeldChannels
  <2>7. ASSUME Signless(s), Type(d) # "time"
        PROVE  a \in RulesFor({a}, d, c.value)
                  <=> Devices[other].name = Devices[d].name /\ s.value = c.value
    <3>1. Type(other) = "range" => s.value >= 0
      BY <2>5, <2>7 DEF Signless
    <3>2. QED
      BY <1>2, <1>6, <2>5, <2>7, <3>1, CommandFound
  <2>8. QED
    BY <2>3, <2>4, <2>6, <2>7 DEF a, made, tap
<1>10. QED
  BY <1>7, <1>8, <1>9 DEF row, seen, run

(* What is suggested is shown at most, and at least where it does not hold *)
(* at its threshold.                                                       *)
LEMMA SuggestionShown ==
  ASSUME NEW d \in DOMAIN Devices, NEW f \in StatementsOf(d), NEW x \in ValuesOf(d)
  PROVE  LET suggested == StatementHolds(f, InTrace(d, x))
             shown == ClauseHolds(ClauseOf(f), x)
         IN  /\ shown => suggested
             /\ suggested /\ ~shown =>
                    Comparator(f) \in {"<=", ">="} /\ f.val = InTrace(d, x)
<1> DEFINE g == ClauseOf(f)
           suggested == StatementHolds(f, InTrace(d, x))
           shown == ClauseHolds(g, x)
<1>1. /\ f.neg \in BOOLEAN /\ f.name = Devices[d].name
      /\ f.comp \in {"=", "<", ">", "<=", ">="} /\ (Type(d) = "bin" => f.comp = "=")
  BY DEF StatementsOf
<1>2. PICK y \in ValuesOf(d) : f.val = InTrace(d, y) /\ (Type(d) = "range" => y >= 0)
  BY DEF StatementsOf
<1>3. g.comparator = ComparatorShown(d, f) /\ g.value = ValueShown(d, f)
  BY <1>1, ShownClause
<1>4. shown <=> Compare(x, g.comparator, g.value)
  BY DEF ClauseHolds
<1>5. Comparator(f) \in Orders /\ (f.comp = "=" => Comparator(f) = IF f.neg THEN "!=" ELSE "=")
  BY <1>1 DEF Comparator, Negated, Orders
<1> HIDE DEF g, suggested, shown
<1>6. CASE Type(d) = "bin"
  <2>1. g.comparator = "=" /\ g.value = IF f.val = ~ f.neg THEN "tval" ELSE "fval"
    BY <1>3, <1>6, Zenon DEF ComparatorShown, ValueShown
  <2>2. shown <=> x = g.value
    BY <1>4, <2>1, CompareIs
  <2>3. suggested <=> ((InTrace(d, x) = f.val) # f.neg)
    <3>1. Compare(InTrace(d, x), "=", f.val) = (InTrace(d, x) = f.val)
      BY DEF Compare
    <3>2. suggested <=> (Compare(InTrace(d, x), "=", f.val) # f.neg)
      BY <1>1, <1>6, Zenon DEF StatementHolds, suggested
    <3>3. QED
      BY <3>1, <3>2, Zenon
  <2>4. /\ InTrace(d, x) = (x = "tval") /\ f.val = (y = "tval")
        /\ x \in {"tval", "fval"} /\ y \in {"tval", "fval"}
    BY <1>2, <1>6, BinValues, Zenon
  <2>5. f.val \in BOOLEAN /\ InTrace(d, x) \in BOOLEAN
    BY <2>4, Zenon
  <2>6. x = "tval" <=> InTrace(d, x) = TRUE
    BY <2>4, Zenon
  <2>7. (f.val = ~ f.neg) <=> (f.val # f.neg)
    BY <1>1, <2>5, Zenon
  <2>8. x = g.value <=> (IF f.val # f.neg THEN x = "tval" ELSE x = "fval")
    BY <2>1, <2>7, Zenon
  <2>9. x = "fval" <=> InTrace(d, x) = FALSE
    <3>1. x = "fval" <=> ~ (x = "tval")
      BY <2>4
    <3>2. QED
      BY <2>4, <3>1, Zenon
  <2>10. (IF f.val # f.neg THEN InTrace(d, x) = TRUE ELSE InTrace(d, x) = FALSE)
            <=> ((InTrace(d, x) = f.val) # f.neg)
    <3> DEFINE i == InTrace(d, x)  v == f.val  n == f.neg
    <3>1. i \in BOOLEAN /\ v \in BOOLEAN /\ n \in BOOLEAN
      BY <1>1, <2>5
    <3> HIDE DEF i, v, n
    <3>2. (IF v # n THEN i = TRUE ELSE i = FALSE) <=> ((i = v) # n)
      BY <3>1, Zenon
    <3>3. QED
      BY <3>2, Zenon DEF i, v, n
  <2>11. shown <=> suggested
    BY <2>2, <2>3, <2>6, <2>8, <2>9, <2>10, Zenon
  <2>12. QED
    BY <2>11 DEF g, shown, suggested
<1>7. CASE Type(d) # "bin"
  <2>1. /\ x \in Int /\ y \in Int
        /\ Type(d) = "range" => InTrace(d, x) = x /\ f.val = y
        /\ Type(d) = "time" => InTrace(d, x) = x * 60 /\ f.val = y * 60
        /\ Type(d) = "range" \/ Type(d) = "time"
    BY <1>2, <1>7, NumberValues, TypesAre
  <2>2. f.val \in Int /\ InTrace(d, x) \in Int
    BY <2>1
  <2>3. suggested <=> Compare(InTrace(d, x), Comparator(f), f.val)
    BY <1>1, <2>2, HoldsAs DEF suggested
  <2>4. CASE Type(d) = "range"
    <3>1. g.comparator = Offered(Comparator(f)) /\ g.value = y
      BY <1>3, <2>1, <2>4 DEF ComparatorShown, ValueShown
    <3>2. shown <=> Compare(x, Offered(Comparator(f)), y)
      BY <1>4, <3>1
    <3>3. suggested <=> Compare(x, Comparator(f), y)
      BY <2>1, <2>3, <2>4
    <3> DEFINE comp == Comparator(f)
    <3> HIDE DEF comp
    <3>4. CASE comp \in {"<=", ">="}
      <4>1. /\ Compare(x, "<", y) => Compare(x, "<=", y)
            /\ Compare(x, ">", y) => Compare(x, ">=", y)
            /\ Compare(x, "<=", y) /\ ~ Compare(x, "<", y) => x = y
            /\ Compare(x, ">=", y) /\ ~ Compare(x, ">", y) => x = y
        BY <2>1, CompareIs
      <4>2. Offered(comp) = IF comp = ">=" THEN ">" ELSE "<"
        BY <3>4 DEF Offered
      <4>3. /\ shown => suggested
            /\ suggested /\ ~ shown => x = y
        BY <3>2, <3>3, <3>4, <4>1, <4>2 DEF comp
      <4>4. QED
        BY <2>1, <2>4, <3>4, <4>3 DEF g, shown, suggested, comp
    <3>5. CASE comp \notin {"<=", ">="}
      <4>1. Offered(comp) = comp
        BY <3>5 DEF Offered
      <4>2. shown <=> suggested
        BY <3>2, <3>3, <4>1 DEF comp
      <4>3. QED
        BY <4>2 DEF g, shown, suggested
    <3>6. QED
      BY <3>4, <3>5
  <2>5. CASE Type(d) = "time"
    <3>1. y \in Minutes
      BY <2>5, TypesAre
    <3>2. f.val = y * 60
      BY <2>1, <2>5
    <3>3. ValueShown(d, f) = y
      BY <2>5, <3>1, <3>2, MinutesBack, Zenon
    <3>4. ComparatorShown(d, f) = Comparator(f)
      BY <2>5 DEF ComparatorShown
    <3>5. shown <=> Compare(x, Comparator(f), y)
      BY <1>3, <1>4, <3>3, <3>4
    <3>6. suggested <=> Compare(x * 60, Comparator(f), y * 60)
      BY <2>1, <2>3, <2>5
    <3>7. shown <=> suggested
      BY <1>5, <2>1, <3>5, <3>6, CompareMinutes
    <3>8. QED
      BY <3>7 DEF g, shown, suggested
  <2>6. QED
    BY <2>1, <2>4, <2>5
<1>8. QED
  BY <1>6, <1>7

(* What users wrote and what is suggested comes back.                      *)
LEMMA RulesComeBack == ComesBack
<1> SUFFICES ASSUME NEW d \in DOMAIN Devices
             PROVE  /\ \A f \in StatementsOf(d), x \in ValuesOf(d) :
                          LET suggested == StatementHolds(f, InTrace(d, x))
                              shown == ClauseHolds(ClauseOf(f), x)
                          IN  /\ shown => suggested
                              /\ suggested /\ ~shown =>
                                    Comparator(f) \in {"<=", ">="} /\ f.val = InTrace(d, x)
                    /\ \A c \in ClausesOf(d), e \in ClausesOf(d) :
                          LET tap == ClauseTap([ifClause |-> <<e, c>>, thenClause |-> <<c>>])
                              shown == TapShown(tap)
                          IN  Showable(tap.trigger, TRUE) =>
                                  /\ Signless(e) => SameClause(shown.event, e)
                                  /\ Signless(c) => SameClause(shown.thenClause, c)
                                  /\ shown.states = {shown.thenClause}
                                  /\ ClauseOf(Statement(shown.event)) = shown.event
  BY Zenon DEF ComesBack
<1>1. ASSUME NEW c \in ClausesOf(d)
      PROVE  LET g == ClauseOf(Statement(c))
             IN  /\ Signless(c) => SameClause(g, c)
                 /\ ClauseOf(Statement(g)) = g
  <2> DEFINE g == ClauseOf(Statement(c))
             h == ClauseOf(Statement(g))
             first == DeviceNamed(Devices[d].name)
  <2>1. /\ c.device = d /\ c.par = d
        /\ c.comparator \in Comparators(d) /\ c.value \in ValuesOf(d)
    BY ClauseHas
  <2>2. /\ g.device = first /\ g.par = g.device /\ g.comparator = c.comparator
        /\ g.value = IF Type(d) = "range" THEN Unsigned(c.value) ELSE c.value
        /\ g = [device |-> g.device, par |-> g.device, comparator |-> g.comparator,
                value |-> g.value]
    BY <2>1, ClauseBack
  <2>3. /\ first \in DOMAIN Devices /\ Devices[first].name = Devices[d].name
        /\ Type(first) = Type(d)
    BY DeviceFound
  <2>4. ASSUME Signless(c) PROVE SameClause(g, c)
    <3>1. Type(d) = "range" => c.value >= 0 /\ c.value \in Int
      BY <2>1, <2>4, TypesAre DEF Signless
    <3>2. g.value = c.value
      BY <2>2, <3>1 DEF Unsigned
    <3>3. QED
      BY <2>1, <2>2, <2>3, <3>2 DEF SameClause
  <2> HIDE DEF g, first
  <2>5. h = g
    <3>1. Type(d) = "range" => c.value \in Int
      BY <2>1, TypesAre
    <3>2. Statement(g).name = Devices[d].name /\ Statement(g).val = ValueSeen(first, g.value)
      BY <2>2, <2>3, StatementHas
    <3>3. /\ h.device = first /\ h.par = h.device
          /\ h.comparator = ComparatorShown(d, Statement(g))
          /\ h.value = ValueShown(d, Statement(g))
          /\ h = [device |-> h.device, par |-> h.device, comparator |-> h.comparator,
                  value |-> h.value]
      BY <3>2, ShownClause DEF first
    <3>4. h.comparator = g.comparator /\ h.value = g.value
      <4>1. CASE Type(d) # "range"
        <5>1. g.value \in ValuesOf(d)
          BY <2>1, <2>2, <4>1
        <5>2. /\ h.comparator = g.comparator
              /\ h.value = IF Type(d) = "range" THEN Unsigned(g.value) ELSE g.value
          BY <2>1, <2>2, <2>3, <5>1, ClauseBack
        <5>3. QED
          BY <4>1, <5>2
      <4>2. CASE Type(d) = "range"
        <5>1. g.comparator \in {"=", "!=", "<", ">"}
          BY <2>1, <2>2 DEF Comparators
        <5>2. h.comparator = g.comparator
          BY <3>3, <4>2, <5>1, ComparatorBack DEF ComparatorShown
        <5>3. h.value = Unsigned(g.value)
          BY <2>3, <3>2, <3>3, <4>2 DEF ValueShown, ValueSeen
        <5>4. Unsigned(g.value) = g.value
          BY <2>2, <3>1, <4>2 DEF Unsigned
        <5>5. QED
          BY <5>2, <5>3, <5>4
      <4>3. QED
        BY <4>1, <4>2
    <3>5. QED
      BY <2>2, <3>3, <3>4
  <2>6. QED
    BY <2>4, <2>5 DEF g
<1>2. ASSUME NEW c \in ClausesOf(d), NEW e \in ClausesOf(d)
      PROVE  LET tap == ClauseTap([ifClause |-> <<e, c>>, thenClause |-> <<c>>])
                 shown == TapShown(tap)
             IN  /\ Signless(e) => SameClause(shown.event, e)
                 /\ Signless(c) => SameClause(shown.thenClause, c)
                 /\ shown.states = {shown.thenClause}
                 /\ ClauseOf(Statement(shown.event)) = shown.event
  <2> DEFINE tap == ClauseTap([ifClause |-> <<e, c>>, thenClause |-> <<c>>])
             shown == TapShown(tap)
  <2>1. tap = [trigger |-> Statement(e), condition |-> {Statement(c)}, action |-> Statement(c)]
    BY ClauseTapIs
  <2> HIDE DEF tap
  <2>2. tap.trigger = Statement(e) /\ tap.condition = {Statement(c)} /\ tap.action = Statement(c)
    BY <2>1
  <2>3. shown = [event |-> ClauseOf(tap.trigger), thenClause |-> ClauseOf(tap.action),
                 states |-> {ClauseOf(f) : f \in tap.condition}]
    BY DEF TapShown
  <2>4. {ClauseOf(f) : f \in {Statement(c)}} = {ClauseOf(Statement(c))}
    BY Zenon
  <2> HIDE DEF shown
  <2>5. /\ shown.event = ClauseOf(Statement(e)) /\ shown.thenClause = ClauseOf(Statement(c))
        /\ shown.states = {shown.thenClause}
    BY <2>2, <2>3, <2>4
  <2>6. /\ Signless(e) => SameClause(shown.event, e)
        /\ Signless(c) => SameClause(shown.thenClause, c)
        /\ ClauseOf(Statement(shown.event)) = shown.event
    BY <1>1, <2>5
  <2>7. QED
    BY <2>5, <2>6 DEF shown, tap
<1>3. QED
  BY <1>2, SuggestionShown

(* Whatever the devices, their values and the times are: a rule means the  *)
(* same to the analyses, to Home I/O and to the browser that sends it, what*)
(* users wrote comes back from the analyses as they wrote it, and what is  *)
(* suggested is shown as it is meant, but for its threshold.               *)
THEOREM TranslationsAlwaysAgree == Spec => []TranslationsAgree
<1>1. TranslationsAgree
  BY RulesSeenAsRun, RulesComeBack DEF TranslationsAgree
<1>2. QED
  BY <1>1, PTL
=============================================================================
