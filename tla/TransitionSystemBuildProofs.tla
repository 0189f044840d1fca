---------------------- MODULE TransitionSystemBuildProofs ----------------------
(* Proofs about TransitionSystemBuild, for every set of variables and      *)
(* values, all timers and all rule sets.                                   *)
EXTENDS TransitionSystemBuild, TapSemanticsProofs, SequenceTheorems, FiniteSetTheorems

(***************************************************************************)
(* The steps in order are the steps. Selected is a recursive function: it  *)
(* exists, and what it yields up to an index is known, because a least     *)
(* index at which this was not so would have no predecessor.               *)
(***************************************************************************)
UpTo(seq, set, n, F) ==
    F = [i \in 0..n |->
            IF i = 0 THEN <<>>
            ELSE IF seq[i] \in set THEN Append(F[i - 1], seq[i]) ELSE F[i - 1]]

(* The recursive function that Selected is made of exists.                 *)
LEMMA UpToExists ==
  ASSUME NEW seq, NEW set, NEW len \in Nat
  PROVE  \E F : UpTo(seq, set, len, F)
<1> DEFINE Missing == {n \in Nat : ~ \E F : UpTo(seq, set, n, F)}
<1>1. SUFFICES Missing = {}
  OBVIOUS
<1>2. SUFFICES ASSUME Missing # {} PROVE FALSE
  OBVIOUS
<1>3. PICK n \in Missing : \A m \in Missing : n <= m
  BY <1>2, LeastElement
<1>4. CASE n = 0
  <2>1. UpTo(seq, set, 0, [i \in 0..0 |-> <<>>])
    BY DEF UpTo
  <2>2. QED
    BY <1>3, <1>4, <2>1
<1>5. CASE n # 0
  <2>1. n \in Nat /\ n - 1 \in Nat /\ n - 1 \notin Missing
    BY <1>3, <1>5
  <2>2. PICK F : UpTo(seq, set, n - 1, F)
    BY <2>1
  <2> DEFINE last == IF seq[n] \in set THEN Append(F[n - 1], seq[n]) ELSE F[n - 1]
             G == [i \in 0..n |-> IF i = n THEN last ELSE F[i]]
  <2>3. ASSUME NEW i \in 0..n
        PROVE  G[i] = IF i = 0 THEN <<>>
                      ELSE IF seq[i] \in set THEN Append(G[i - 1], seq[i]) ELSE G[i - 1]
    <3>1. CASE i = n
      <4>1. G[n] = last /\ G[n - 1] = F[n - 1]
        BY <2>1
      <4>2. QED
        BY <1>5, <3>1, <4>1
    <3>2. CASE i # n
      <4>1. i \in 0..(n - 1) /\ G[i] = F[i]
        BY <2>1, <3>2
      <4>2. F[i] = IF i = 0 THEN <<>>
                   ELSE IF seq[i] \in set THEN Append(F[i - 1], seq[i]) ELSE F[i - 1]
        BY <2>2, <4>1 DEF UpTo
      <4>3. i # 0 => i - 1 \in 0..n /\ i - 1 # n /\ G[i - 1] = F[i - 1]
        BY <2>1, <4>1
      <4>4. QED
        BY <4>1, <4>2, <4>3
    <3>3. QED
      BY <3>1, <3>2
  <2>4. UpTo(seq, set, n, G)
    BY <2>3, Zenon DEF UpTo
  <2>5. QED
    BY <1>3, <2>4
<1>6. QED
  BY <1>4, <1>5

(* Selected yields a sequence of the elements that are in the set.         *)
LEMMA SelectedElements ==
  ASSUME NEW S, NEW seq \in Seq(S), NEW set
  PROVE  /\ Selected(seq, set) \in Seq(S)
         /\ Range(Selected(seq, set)) = {x \in Range(seq) : x \in set}
<1> DEFINE F == CHOOSE G : UpTo(seq, set, Len(seq), G)
<1>1. Len(seq) \in Nat /\ DOMAIN seq = 1..Len(seq)
  OBVIOUS
<1>2. UpTo(seq, set, Len(seq), F)
  BY <1>1, UpToExists
<1>3. Selected(seq, set) = F[Len(seq)]
  BY DEF Selected, UpTo
<1> HIDE DEF F
<1> DEFINE Right(i) == /\ F[i] \in Seq(S)
                       /\ \A x : x \in Range(F[i])
                                    <=> \E k \in 1..i : seq[k] = x /\ x \in set
           Wrong == {i \in 0..Len(seq) : ~ Right(i)}
<1> HIDE DEF Right
<1>4. Wrong = {}
  <2>1. SUFFICES ASSUME Wrong # {} PROVE FALSE
    OBVIOUS
  <2>2. Wrong \subseteq Nat
    BY <1>1
  <2>3. PICK n \in Wrong : \A m \in Wrong : n <= m
    BY <2>1, <2>2, LeastElement
  <2>4. F[n] = IF n = 0 THEN <<>>
               ELSE IF seq[n] \in set THEN Append(F[n - 1], seq[n]) ELSE F[n - 1]
    BY <1>2, <2>3 DEF UpTo
  <2>5. CASE n = 0
    <3>1. F[0] = <<>>
      BY <2>4, <2>5
    <3>2. Right(0)
      BY <3>1 DEF Range, Right
    <3>3. QED
      BY <2>3, <2>5, <3>2
  <2>6. CASE n # 0
    <3>1. n \in 1..Len(seq) /\ n - 1 \in 0..Len(seq) /\ n - 1 \notin Wrong
      BY <1>1, <2>3, <2>6
    <3>2. Right(n - 1) /\ seq[n] \in S
      BY <1>1, <3>1
    <3>3. CASE seq[n] \notin set
      <4>1. F[n] = F[n - 1]
        BY <2>4, <2>6, <3>3
      <4>2. \A x : (\E k \in 1..n : seq[k] = x /\ x \in set)
                      <=> \E k \in 1..(n - 1) : seq[k] = x /\ x \in set
        BY <3>1, <3>3
      <4>3. Right(n)
        BY <3>2, <4>1, <4>2 DEF Right
      <4>4. QED
        BY <2>3, <4>3
    <3>4. CASE seq[n] \in set
      <4>1. F[n] = Append(F[n - 1], seq[n])
        BY <2>4, <2>6, <3>4
      <4> DEFINE G == F[n - 1]
      <4>2. G \in Seq(S) /\ F[n] \in Seq(S)
        BY <3>2, <4>1 DEF Right
      <4>3. \A x : x \in Range(F[n]) <=> x \in Range(G) \/ x = seq[n]
        <5>1. /\ Len(F[n]) = Len(G) + 1 /\ Len(G) \in Nat
              /\ F[n][Len(G) + 1] = seq[n]
              /\ \A k \in 1..Len(G) : F[n][k] = G[k]
              /\ DOMAIN G = 1..Len(G) /\ DOMAIN F[n] = 1..(Len(G) + 1)
          BY <3>2, <4>1, <4>2
        <5> HIDE DEF G
        <5>2. QED
          BY <5>1 DEF Range
      <4>4. \A x : (\E k \in 1..n : seq[k] = x /\ x \in set)
                      <=> x = seq[n] \/ \E k \in 1..(n - 1) : seq[k] = x /\ x \in set
        BY <3>1, <3>4
      <4>5. Right(n)
        BY <3>2, <4>2, <4>3, <4>4 DEF Right
      <4>6. QED
        BY <2>3, <4>5
    <3>5. QED
      BY <3>3, <3>4
  <2>7. QED
    BY <2>5, <2>6
<1>5. Right(Len(seq))
  BY <1>1, <1>4
<1>6. QED
  BY <1>1, <1>3, <1>5 DEF Range, Right

-----------------------------------------------------------------------------
(* The steps of a field under some rules, those that are being explored or *)
(* not.                                                                    *)
StepsOf(taps, f) ==
    IF ActionTriggered(f)
    THEN {[act |-> [kind |-> "rule", rule |-> n], field |-> ApplyRule(f, taps, n)] :
             n \in {m \in Taps : f.trigger_dict[m]}}
    ELSE {[act |-> a, field |-> ApplyAction(f, taps, a)] :
             a \in {b \in Action : Enabled(f, b)}}
         \cup IF RunningTimers(f) = {} THEN {}
              ELSE {[act |-> TickTarget(f), field |-> ApplyTick(f, taps)]}

(* The steps of the semantics are those under the rules of the system.     *)
LEMMA StepsAreOf == \A f : Steps(f) = StepsOf(tap_dict, f)
  BY DEF Steps, StepsOf

(* A pending rule that runs leads from field to field.                     *)
LEMMA ApplyRuleType ==
  ASSUME NEW f \in Field, NEW taps \in TapDicts, NEW n \in Taps
  PROVE  taps[n].action \in Action /\ ApplyRule(f, taps, n) \in Field
<1>1. taps[n].action \in Action
  BY BuildAssumption DEF Tap
<1>2. ClearBit(f, taps, n) \in Field
  BY ClearBitType
<1>3. QED
  BY <1>1, <1>2, ApplyActionType DEF ApplyRule

(* The timer that a tick is named after exists.                            *)
LEMMA TickTargetType ==
  ASSUME NEW f \in Field, RunningTimers(f) # {}
  PROVE  TickTarget(f) \in TickEvent
  BY TickTargetExpires DEF Expiring, RunningTimers

(* A sequence of steps that are given by the elements of another sequence. *)
LEMMA MapIsSequence ==
  ASSUME NEW S, NEW T, NEW seq \in Seq(S), NEW g, DOMAIN g = DOMAIN seq,
         \A k \in DOMAIN seq : g[k] \in T, g = [k \in DOMAIN seq |-> g[k]]
  PROVE  g \in Seq(T)
<1>1. Len(seq) \in Nat /\ DOMAIN seq = 1..Len(seq)
  BY LenProperties
<1>2. g \in [1..Len(seq) -> T]
  BY <1>1
<1>3. QED
  BY <1>1, <1>2, SeqDef

(* _BFS looks at the steps of the semantics, and at no others.             *)
LEMMA StepsInOrderAreSteps ==
  ASSUME NEW f \in Field, tap_dict \in TapDicts
  PROVE  /\ StepsInOrder(f) \in Seq(Step)
         /\ Range(StepsInOrder(f)) = StepsOf(tap_dict, f)
<1>1. CASE ActionTriggered(f)
  <2> DEFINE all == [n \in Taps |-> n]
             set == {n \in Taps : f.trigger_dict[n]}
             pending == Selected(all, set)
             g == [k \in DOMAIN pending |->
                     [act |-> [kind |-> "rule", rule |-> pending[k]],
                      field |-> ApplyRule(f, tap_dict, pending[k])]]
  <2>1. all \in Seq(Taps) /\ Range(all) = Taps
    <3>1. all \in [1..NTap -> Taps] /\ NTap \in Nat
      BY TimerAssumption DEF Taps
    <3>2. all \in Seq(Taps)
      BY <3>1, SeqDef
    <3>3. QED
      BY <3>2 DEF Range
  <2>2. pending \in Seq(Taps) /\ Range(pending) = set
    BY <2>1, SelectedElements
  <2>3. StepsInOrder(f) = g
    BY <1>1 DEF StepsInOrder, RuleSteps
  <2> HIDE DEF pending
  <2>4. \A k \in DOMAIN pending : pending[k] \in Taps
    BY <2>2
  <2>5. \A k \in DOMAIN pending : g[k] \in Step
    BY <2>4, ApplyRuleType DEF Step, RuleAction
  <2>6. g \in Seq(Step)
    BY <2>2, <2>5, MapIsSequence
  <2>7. Range(g) = {[act |-> [kind |-> "rule", rule |-> n],
                     field |-> ApplyRule(f, tap_dict, n)] : n \in Range(pending)}
    BY DEF Range
  <2>8. QED
    BY <1>1, <2>2, <2>3, <2>6, <2>7 DEF StepsOf
<1>2. CASE ~ ActionTriggered(f)
  <2> DEFINE set == {a \in Action : Enabled(f, a)}
             enabled == Selected(ActionOrder, set)
             g == [k \in DOMAIN enabled |->
                     [act |-> enabled[k], field |-> ApplyAction(f, tap_dict, enabled[k])]]
  <2>1. ActionOrder \in Seq(Action) /\ Range(ActionOrder) = Action
    BY BuildAssumption DEF Range
  <2>2. enabled \in Seq(Action) /\ Range(enabled) = set
    BY <2>1, SelectedElements
  <2>3. ActionSteps(f) = g
    BY DEF ActionSteps
  <2> HIDE DEF enabled
  <2>4. \A k \in DOMAIN enabled : g[k] \in Step
    BY <2>2, ApplyActionType DEF Step
  <2>5. g \in Seq(Step)
    BY <2>2, <2>4, MapIsSequence
  <2>6. Range(g) = {[act |-> a, field |-> ApplyAction(f, tap_dict, a)] : a \in Range(enabled)}
    BY DEF Range
  <2> HIDE DEF g
  <2> DEFINE tick == [act |-> TickTarget(f), field |-> ApplyTick(f, tap_dict)]
  <2>7. CASE RunningTimers(f) = {}
    <3>1. StepsInOrder(f) = g \o <<>>
      BY <1>2, <2>3, <2>7 DEF StepsInOrder, TickSteps
    <3>2. StepsInOrder(f) = g
      BY <2>5, <3>1, ConcatEmptySeq
    <3>3. StepsOf(tap_dict, f) = Range(g)
      BY <1>2, <2>2, <2>6, <2>7 DEF StepsOf
    <3>4. QED
      BY <2>5, <3>2, <3>3
  <2>8. CASE RunningTimers(f) # {}
    <3>1. tick \in Step
      BY <2>8, TickTargetType, ApplyTickType DEF Step
    <3>2. StepsInOrder(f) = g \o <<tick>>
      BY <1>2, <2>3, <2>8 DEF StepsInOrder, TickSteps
    <3> HIDE DEF tick
    <3>3. <<tick>> \in Seq(Step) /\ Range(<<tick>>) = {tick}
      BY <3>1 DEF Range
    <3>4. /\ g \o <<tick>> \in Seq(Step)
          /\ Range(g \o <<tick>>) = Range(g) \cup {tick}
      <4>1. g \o <<tick>> \in Seq(Step)
        BY <2>5, <3>3, ConcatProperties
      <4>2. Range(g \o <<tick>>) = Range(g) \cup Range(<<tick>>)
        BY <2>5, <3>3, RangeConcatenation, Zenon
      <4>3. QED
        BY <3>3, <4>1, <4>2
    <3>5. StepsOf(tap_dict, f) = Range(g) \cup {tick}
      BY <1>2, <2>2, <2>6, <2>8 DEF StepsOf, tick
    <3>6. QED
      BY <3>2, <3>4, <3>5
  <2>9. QED
    BY <2>7, <2>8
<1>3. QED
  BY <1>1, <1>2

-----------------------------------------------------------------------------
(* Whether two rules at most one of which can trigger itself are the same. *)
OneSelfTrigger(taps) ==
    \A m, n \in Taps : CanTrigger(taps, m, m) /\ CanTrigger(taps, n, n) => m = n

(* Running a rule leaves the other pending rules pending; the rule itself  *)
(* is pending afterwards only if it can trigger itself.                    *)
LEMMA RuleBits ==
  ASSUME NEW f \in Field, NEW taps \in TapDicts, NEW n \in Taps
  PROVE  /\ \A m \in Taps \ {n} :
               f.trigger_dict[m] => ApplyRule(f, taps, n).trigger_dict[m]
         /\ ApplyRule(f, taps, n).trigger_dict[n] => CanTrigger(taps, n, n)
<1> DEFINE cleared == ClearBit(f, taps, n)
           action == taps[n].action
           bits == EventBits(cleared, taps, action)
           applied == [channel_dict |-> ChannelAfter(cleared, action),
                       timer_type1_dict |-> EventTimersAfter(cleared, action),
                       timer_type2_dict |-> StateTimersAfter(cleared, action),
                       trigger_dict |-> bits]
           after == StateBits(applied, taps)
<1>1. ApplyRule(f, taps, n).trigger_dict = after
  BY DEF ApplyRule, ApplyAction
<1>2. cleared.trigger_dict =
         [f.trigger_dict EXCEPT ![n] = /\ taps[n].trigger = NoTrigger
                                       /\ TapConditionSatisfied(f, taps[n])]
  BY DEF ClearBit, Field
<1>3. DOMAIN f.trigger_dict = Taps
  BY DEF Field
<1>4. /\ \A m \in Taps \ {n} : cleared.trigger_dict[m] = f.trigger_dict[m]
      /\ cleared.trigger_dict[n] => taps[n].trigger = NoTrigger
  BY <1>2, <1>3
<1> HIDE DEF cleared
<1>5. \A m \in Taps : /\ cleared.trigger_dict[m] => bits[m]
                      /\ bits[m] => cleared.trigger_dict[m] \/ taps[m].trigger = action
  BY DEF EventBits
<1>6. applied.trigger_dict = bits
  OBVIOUS
<1> HIDE DEF applied, bits
<1>7. \A m \in Taps : /\ bits[m] => after[m]
                      /\ after[m] => bits[m] \/ taps[m].trigger = NoTrigger
  BY <1>6 DEF StateBits
<1>8. QED
  BY <1>1, <1>4, <1>5, <1>7 DEF CanTrigger

(* Two steps of a field that lead to the same field are the same, unless   *)
(* they are two rules each of which has triggered itself.                  *)
LEMMA StepsDiffer ==
  ASSUME NEW f \in Field, NEW taps \in TapDicts, OneSelfTrigger(taps),
         NEW s \in StepsOf(taps, f), NEW u \in StepsOf(taps, f), s.field = u.field
  PROVE  s.act = u.act
<1>1. CASE ActionTriggered(f)
  <2>1. PICK m \in Taps : /\ f.trigger_dict[m]
                          /\ s = [act |-> [kind |-> "rule", rule |-> m],
                                  field |-> ApplyRule(f, taps, m)]
    BY <1>1 DEF StepsOf
  <2>2. PICK n \in Taps : /\ f.trigger_dict[n]
                          /\ u = [act |-> [kind |-> "rule", rule |-> n],
                                  field |-> ApplyRule(f, taps, n)]
    BY <1>1 DEF StepsOf
  <2>3. CASE m = n
    BY <2>1, <2>2, <2>3
  <2>4. CASE m # n
    <3>1. ApplyRule(f, taps, m) = ApplyRule(f, taps, n)
      BY <2>1, <2>2
    <3>2. ApplyRule(f, taps, m).trigger_dict[n] /\ ApplyRule(f, taps, n).trigger_dict[m]
      BY <2>1, <2>2, <2>4, RuleBits
    <3>3. CanTrigger(taps, m, m) /\ CanTrigger(taps, n, n)
      BY <3>1, <3>2, RuleBits
    <3>4. QED
      BY <2>4, <3>3 DEF OneSelfTrigger
  <2>5. QED
    BY <2>3, <2>4
<1>2. CASE ~ ActionTriggered(f)
  <2> DEFINE IsTick(step) == /\ RunningTimers(f) # {}
                             /\ step = [act |-> TickTarget(f), field |-> ApplyTick(f, taps)]
             IsAction(step) == \E a \in Action : /\ Enabled(f, a)
                                  /\ step = [act |-> a, field |-> ApplyAction(f, taps, a)]
  <2>1. (IsTick(s) \/ IsAction(s)) /\ (IsTick(u) \/ IsAction(u))
    BY <1>2 DEF StepsOf
  <2>2. \A step : IsTick(step) => step.field.channel_dict = f.channel_dict
    BY ApplyTickType
  <2>3. \A step : IsAction(step) =>
           /\ step.act \in Action /\ Enabled(f, step.act)
           /\ step.field.channel_dict = ChannelAfter(f, step.act)
    BY ApplyActionType
  <2>4. ASSUME NEW a \in Action, Enabled(f, a)
        PROVE  /\ ChannelAfter(f, a)[a.var] = a.val
               /\ ChannelAfter(f, a)[a.var] # f.channel_dict[a.var]
               /\ \A v \in Var \ {a.var} : ChannelAfter(f, a)[v] = f.channel_dict[v]
    BY <2>4 DEF ChannelAfter, Enabled, Field, Action
  <2>5. ASSUME NEW a \in Action, NEW b \in Action, a.var = b.var, a.val = b.val
        PROVE  a = b
    BY <2>5 DEF Action
  <2>6. CASE IsTick(s) /\ IsTick(u)
    BY <2>6
  <2>7. CASE IsAction(s) /\ IsAction(u)
    <3>1. ChannelAfter(f, s.act) = ChannelAfter(f, u.act)
      BY <2>3, <2>7
    <3>2. s.act \in Action /\ u.act \in Action /\ Enabled(f, s.act) /\ Enabled(f, u.act)
      BY <2>3, <2>7
    <3>3. s.act.var = u.act.var
      <4>1. u.act.var \in Var
        BY <3>2 DEF Action
      <4>2. QED
        BY <2>4, <3>1, <3>2, <4>1
    <3>4. s.act.val = u.act.val
      BY <2>4, <3>1, <3>2, <3>3
    <3>5. QED
      BY <2>5, <3>2, <3>3, <3>4
  <2>8. CASE IsAction(s) /\ IsTick(u)
    <3>1. /\ s.act \in Action /\ Enabled(f, s.act)
          /\ ChannelAfter(f, s.act) = f.channel_dict
      BY <2>2, <2>3, <2>8
    <3>2. QED
      BY <2>4, <3>1
  <2>9. CASE IsTick(s) /\ IsAction(u)
    <3>1. /\ u.act \in Action /\ Enabled(f, u.act)
          /\ ChannelAfter(f, u.act) = f.channel_dict
      BY <2>2, <2>3, <2>9
    <3>2. QED
      BY <2>4, <3>1
  <2>10. QED
    BY <2>1, <2>6, <2>7, <2>8, <2>9
<1>3. QED
  BY <1>1, <1>2

-----------------------------------------------------------------------------
(* The inductive invariant: what Exact says of the finished construction,  *)
(* said of one that is under way. The steps that are left are those of the *)
(* state that is looked at; those of a state that waits in the search pool *)
(* may all be missing.                                                     *)
TransAreSteps ==
    \A t \in trans_list :
        [act |-> t.act, field |-> state_list[t.dst]] \in StepsOf(tap_dict, state_list[t.src])

StatesEntered ==
    \A i \in DOMAIN state_list \ {1} : \E t \in trans_list : t.dst = i /\ t.src < i

StepsAreLeft == Range(steps) \subseteq StepsOf(tap_dict, state_list[state_t])

Linked(i, step) ==
    \E t \in trans_list : t.src = i /\ t.act = step.act /\ state_list[t.dst] = step.field

StepsAreTaken ==
    \A i \in DOMAIN state_list :
        \/ i \in Range(search_pool)
        \/ \A step \in StepsOf(tap_dict, state_list[i]) :
              (i = state_t /\ step \in Range(steps)) \/ Linked(i, step)

QuietOnce ==
    \A i, j \in DOMAIN state_list :
        state_list[i] = state_list[j] /\ ~ ActionTriggered(state_list[i]) => i = j

OneAction ==
    OneSelfTrigger(tap_dict) =>
        \A t, u \in trans_list : t.src = u.src /\ t.dst = u.dst => t = u

IInv ==
    /\ TypeOK
    /\ IsFiniteSet(trans_list)
    /\ TransAreSteps
    /\ StatesEntered
    /\ StepsAreLeft
    /\ StepsAreTaken
    /\ QuietOnce
    /\ OneAction

(* The construction begins with the initial field, which waits in the pool.*)
LEMMA InitIInv == Init => IInv
<1> SUFFICES ASSUME Init PROVE IInv
  OBVIOUS
<1>1. PICK channel_dict \in [Var -> Val] :
          state_list = <<InitialField(channel_dict, tap_dict)>>
  BY DEF Init
<1>2. state_list \in Seq(Field) /\ DOMAIN state_list = {1}
  <2>1. InitialField(channel_dict, tap_dict) \in Field
    BY InitialFieldType
  <2>2. QED
    BY <1>1, <2>1
<1>3. Range(search_pool) = {1} /\ Range(steps) = {}
  BY DEF Init, Range
<1>4. TypeOK
  <2>1. search_pool \in Seq(DOMAIN state_list) /\ steps \in Seq(Step)
    BY <1>2 DEF Init
  <2>2. QED
    BY <1>2, <2>1 DEF Init, TypeOK
<1>5. IsFiniteSet(trans_list)
  BY FS_EmptySet DEF Init
<1>6. QED
  BY <1>2, <1>3, <1>4, <1>5
     DEF Init, IInv, TransAreSteps, StatesEntered, StepsAreLeft, StepsAreTaken, QuietOnce,
         OneAction

(* getIndex finds the state with the field, if there is one.               *)
LEMMA GetIndexFinds ==
  ASSUME NEW field, state_list \in Seq(Field), StateExists(field)
  PROVE  /\ GetIndex(field) \in DOMAIN state_list
         /\ state_list[GetIndex(field)] = field
<1> DEFINE I == {i \in 1..Len(state_list) : state_list[i] = field}
<1>1. Len(state_list) \in Nat /\ DOMAIN state_list = 1..Len(state_list)
  OBVIOUS
<1>2. I # {} /\ I \subseteq Nat
  BY <1>1 DEF StateExists, Range
<1>3. \E m \in I : \A n \in I : m <= n
  BY <1>2, LeastElement
<1>4. GetIndex(field) = Min(I)
  BY <1>2 DEF GetIndex, SelectInSeq
<1>5. Min(I) \in I
  BY <1>3 DEF Min
<1>6. QED
  BY <1>1, <1>4, <1>5

(* A state from the pool: all its steps are to be taken now.               *)
LEMMA PopStateIInv == IInv /\ PopState => IInv'
<1> SUFFICES ASSUME IInv, PopState PROVE IInv'
  OBVIOUS
<1> DEFINE f == state_list[Last(search_pool)]
<1>1. /\ search_pool \in Seq(DOMAIN state_list) /\ search_pool # <<>>
      /\ state_list \in Seq(Field) /\ tap_dict \in TapDicts
  BY DEF IInv, TypeOK, PopState
<1>2. /\ Len(search_pool) \in Nat \ {0}
      /\ DOMAIN search_pool = 1..Len(search_pool)
      /\ Last(search_pool) \in DOMAIN state_list /\ f \in Field
  BY <1>1 DEF Last
<1>3. /\ state_t' = Last(search_pool) /\ steps' = StepsInOrder(f)
      /\ state_list' = state_list /\ trans_list' = trans_list /\ tap_dict' = tap_dict
      /\ search_pool' = Front(search_pool) /\ error' = error /\ steps = <<>>
  BY DEF PopState
<1>4. /\ Front(search_pool) \in Seq(DOMAIN state_list)
      /\ Range(search_pool) = Range(Front(search_pool)) \cup {Last(search_pool)}
  <2> DEFINE front == Front(search_pool)
  <2>1. /\ front \in Seq(DOMAIN state_list) /\ Len(front) = Len(search_pool) - 1
        /\ \A i \in 1..Len(front) : front[i] = search_pool[i]
        /\ DOMAIN front = 1..Len(front)
    BY <1>1, <1>2 DEF Front
  <2> HIDE DEF front
  <2>2. Range(search_pool) = Range(front) \cup {search_pool[Len(search_pool)]}
    BY <1>2, <2>1 DEF Range
  <2>3. QED
    BY <2>1, <2>2 DEF front, Last
<1>5. /\ StepsInOrder(f) \in Seq(Step)
      /\ Range(StepsInOrder(f)) = StepsOf(tap_dict, f)
  BY <1>1, <1>2, StepsInOrderAreSteps
<1>6. TypeOK'
  BY <1>2, <1>3, <1>4, <1>5 DEF IInv, TypeOK
<1>7. StepsAreLeft'
  BY <1>3, <1>5 DEF StepsAreLeft
<1>8. StepsAreTaken'
  <2>1. \A i, step : Linked(i, step)' <=> Linked(i, step)
    BY <1>3 DEF Linked
  <2>2. Range(steps) = {}
    BY <1>3 DEF Range
  <2>3. ASSUME NEW i \in DOMAIN state_list, i \notin Range(Front(search_pool))
        PROVE  \A step \in StepsOf(tap_dict, state_list[i]) :
                  (i = Last(search_pool) /\ step \in Range(StepsInOrder(f))) \/ Linked(i, step)
    <3>1. CASE i = Last(search_pool)
      BY <1>5, <3>1
    <3>2. CASE i # Last(search_pool)
      BY <1>4, <2>2, <2>3, <3>2 DEF IInv, StepsAreTaken
    <3>3. QED
      BY <3>1, <3>2
  <2>4. QED
    BY <1>3, <2>1, <2>3 DEF StepsAreTaken
<1>9. QED
  BY <1>3, <1>6, <1>7, <1>8
     DEF IInv, TransAreSteps, StatesEntered, QuietOnce, OneAction

(* What AddState and LinkState have in common: the next step of the state  *)
(* that is looked at is a step of the semantics; when it is linked, no     *)
(* state has lost one.                                                     *)
LEMMA NextStep ==
  ASSUME IInv, steps # <<>>
  PROVE  /\ Head(steps) \in Step /\ Head(steps) \in StepsOf(tap_dict, state_list[state_t])
         /\ Tail(steps) \in Seq(Step)
         /\ Range(steps) = Range(Tail(steps)) \cup {Head(steps)}
<1>1. steps \in Seq(Step)
  BY DEF IInv, TypeOK
<1> DEFINE tail == Tail(steps)
<1>2. /\ Len(steps) \in Nat \ {0} /\ DOMAIN steps = 1..Len(steps)
      /\ Head(steps) = steps[1] /\ Head(steps) \in Step
      /\ tail \in Seq(Step) /\ Len(tail) = Len(steps) - 1 /\ DOMAIN tail = 1..Len(tail)
      /\ \A i \in 1..Len(tail) : tail[i] = steps[i + 1]
  BY <1>1
<1> HIDE DEF tail
<1>3. Range(steps) = Range(tail) \cup {Head(steps)}
  <2>1. Range(steps) \subseteq Range(tail) \cup {Head(steps)}
    <3>1. SUFFICES ASSUME NEW i \in 1..Len(steps)
                   PROVE  steps[i] \in Range(tail) \cup {Head(steps)}
      BY <1>2 DEF Range
    <3>2. CASE i = 1
      BY <1>2, <3>2
    <3>3. CASE i # 1
      <4>1. i - 1 \in 1..Len(tail) /\ tail[i - 1] = steps[i]
        BY <1>2, <3>3
      <4>2. QED
        BY <1>2, <4>1 DEF Range
    <3>4. QED
      BY <3>2, <3>3
  <2>2. Range(tail) \cup {Head(steps)} \subseteq Range(steps)
    <3>1. \A i \in 1..Len(tail) : i + 1 \in 1..Len(steps) /\ tail[i] = steps[i + 1]
      BY <1>2
    <3>2. QED
      BY <1>2, <3>1 DEF Range
  <2>3. QED
    BY <2>1, <2>2
<1>4. QED
  BY <1>2, <1>3 DEF IInv, StepsAreLeft, tail

(* A new state, which is put in the pool and in which no step is missing   *)
(* that is not known to be.                                                *)
LEMMA AddStateIInv == IInv /\ AddState => IInv'
<1> SUFFICES ASSUME IInv, AddState PROVE IInv'
  OBVIOUS
<1> DEFINE step == Head(steps)
           new == Len(state_list) + 1
           t0 == [src |-> state_t, act |-> step.act, dst |-> new]
<1>1. /\ state_list' = Append(state_list, step.field)
      /\ search_pool' = Append(search_pool, new)
      /\ trans_list' = trans_list \cup {t0}
      /\ steps' = Tail(steps) /\ IsNew(step)
      /\ tap_dict' = tap_dict /\ state_t' = state_t /\ error' = error
  BY DEF AddState, AddTrans
<1>2. /\ step \in Step /\ step \in StepsOf(tap_dict, state_list[state_t])
      /\ Tail(steps) \in Seq(Step)
      /\ Range(steps) = Range(Tail(steps)) \cup {step}
  BY NextStep DEF AddState
<1>3. /\ state_list \in Seq(Field) /\ search_pool \in Seq(DOMAIN state_list)
      /\ state_t \in DOMAIN state_list
      /\ trans_list \subseteq Transition
      /\ \A t \in trans_list : {t.src, t.dst} \subseteq DOMAIN state_list
  BY DEF IInv, TypeOK
<1>4. /\ step.field \in Field /\ step.act \in Action \cup TickEvent \cup RuleAction
      /\ step = [act |-> step.act, field |-> step.field]
  BY <1>2 DEF Step
<1> HIDE DEF step
<1>5. /\ Len(state_list) \in Nat /\ DOMAIN state_list = 1..Len(state_list)
      /\ state_list' \in Seq(Field) /\ DOMAIN state_list' = DOMAIN state_list \cup {new}
      /\ \A i \in DOMAIN state_list : state_list'[i] = state_list[i] /\ i < new
      /\ state_list'[new] = step.field
      /\ new \in Nat /\ new \notin DOMAIN state_list
  BY <1>1, <1>3, <1>4
<1>6. /\ search_pool' \in Seq(DOMAIN state_list')
      /\ Range(search_pool') = Range(search_pool) \cup {new}
  <2>1. search_pool \in Seq(DOMAIN state_list')
    BY <1>3, <1>5, SeqMonotonic
  <2> DEFINE pool == Append(search_pool, new)
  <2>2. /\ pool \in Seq(DOMAIN state_list') /\ Len(pool) = Len(search_pool) + 1
        /\ \A i \in 1..Len(search_pool) : pool[i] = search_pool[i]
        /\ pool[Len(search_pool) + 1] = new
        /\ DOMAIN pool = 1..(Len(search_pool) + 1)
        /\ Len(search_pool) \in Nat /\ DOMAIN search_pool = 1..Len(search_pool)
    BY <1>5, <2>1
  <2> HIDE DEF pool
  <2>3. Range(pool) = Range(search_pool) \cup {new}
    BY <2>2 DEF Range
  <2>4. QED
    BY <1>1, <2>2, <2>3 DEF pool
<1>7. state_t \in Nat /\ t0 \in Transition
  BY <1>3, <1>4, <1>5 DEF Transition
<1>8. t0 \in trans_list' /\ t0.src = state_t /\ t0.act = step.act /\ t0.dst = new
  BY <1>1
<1>9. TypeOK'
  <2>1. \A t \in trans_list' : {t.src, t.dst} \subseteq DOMAIN state_list'
    BY <1>1, <1>3, <1>5
  <2>2. QED
    BY <1>1, <1>2, <1>3, <1>5, <1>6, <1>7, <2>1 DEF IInv, TypeOK
<1>10. IsFiniteSet(trans_list')
  BY <1>1, FS_AddElement DEF IInv
<1>11. TransAreSteps'
  <2>1. ASSUME NEW t \in trans_list'
        PROVE  [act |-> t.act, field |-> state_list'[t.dst]]
                  \in StepsOf(tap_dict', state_list'[t.src])
    <3>1. CASE t = t0
      BY <1>1, <1>2, <1>3, <1>4, <1>5, <3>1
    <3>2. CASE t \in trans_list
      BY <1>1, <1>3, <1>5, <3>2 DEF IInv, TransAreSteps
    <3>3. QED
      BY <1>1, <3>1, <3>2
  <2>2. QED
    BY <2>1 DEF TransAreSteps
<1>12. StatesEntered'
  <2>1. ASSUME NEW i \in DOMAIN state_list' \ {1}
        PROVE  \E t \in trans_list' : t.dst = i /\ t.src < i
    <3>1. CASE i = new
      BY <1>3, <1>5, <1>8, <3>1
    <3>2. CASE i # new
      BY <1>1, <1>5, <3>2 DEF IInv, StatesEntered
    <3>3. QED
      BY <3>1, <3>2
  <2>2. QED
    BY <2>1 DEF StatesEntered
<1>13. StepsAreLeft'
  BY <1>1, <1>2, <1>3, <1>5 DEF IInv, StepsAreLeft
<1>14. StepsAreTaken'
  <2>1. ASSUME NEW i \in DOMAIN state_list', i \notin Range(search_pool'),
               NEW s \in StepsOf(tap_dict', state_list'[i])
        PROVE  (i = state_t' /\ s \in Range(steps')) \/ Linked(i, s)'
    <3>1. /\ i \in DOMAIN state_list /\ i \notin Range(search_pool)
          /\ s \in StepsOf(tap_dict, state_list[i])
      BY <1>1, <1>5, <1>6, <2>1
    <3>2. (i = state_t /\ s \in Range(steps)) \/ Linked(i, s)
      BY <3>1 DEF IInv, StepsAreTaken
    <3>3. CASE Linked(i, s)
      BY <1>1, <1>3, <1>5, <3>3 DEF Linked
    <3>4. CASE i = state_t /\ s = step
      BY <1>5, <1>8, <3>4 DEF Linked
    <3>5. CASE i = state_t /\ s \in Range(Tail(steps))
      BY <1>1, <3>5
    <3>6. QED
      BY <1>2, <3>2, <3>3, <3>4, <3>5
  <2>2. QED
    BY <2>1 DEF StepsAreTaken
<1>15. QuietOnce'
  <2>1. ~ ActionTriggered(step.field) => \A i \in DOMAIN state_list : state_list[i] # step.field
    BY <1>1 DEF IsNew, StateExists, Range
  <2>2. ASSUME NEW i \in DOMAIN state_list', NEW j \in DOMAIN state_list',
               state_list'[i] = state_list'[j], ~ ActionTriggered(state_list'[i])
        PROVE  i = j
    <3>1. CASE i = new \/ j = new
      BY <1>5, <2>1, <2>2, <3>1
    <3>2. CASE i # new /\ j # new
      BY <1>5, <2>2, <3>2 DEF IInv, QuietOnce
    <3>3. QED
      BY <3>1, <3>2
  <2>3. QED
    BY <2>2 DEF QuietOnce
<1>16. OneAction'
  <2>1. ASSUME OneSelfTrigger(tap_dict), NEW t \in trans_list', NEW u \in trans_list',
               t.src = u.src, t.dst = u.dst
        PROVE  t = u
    <3>1. \A v \in trans_list : v.dst # new
      BY <1>3, <1>5
    <3>2. CASE t = t0 \/ u = t0
      BY <1>1, <2>1, <3>1, <3>2
    <3>3. CASE t \in trans_list /\ u \in trans_list
      BY <2>1, <3>3 DEF IInv, OneAction
    <3>4. QED
      BY <1>1, <3>2, <3>3
  <2>2. QED
    BY <1>1, <2>1 DEF OneAction
<1>17. QED
  BY <1>9, <1>10, <1>11, <1>12, <1>13, <1>14, <1>15, <1>16 DEF IInv

(* A known state: the step is linked to the first state with its field.    *)
LEMMA LinkStateIInv == IInv /\ LinkState => IInv'
<1> SUFFICES ASSUME IInv, LinkState PROVE IInv'
  OBVIOUS
<1> DEFINE step == Head(steps)
           known == GetIndex(step.field)
           t0 == [src |-> state_t, act |-> step.act, dst |-> known]
<1>1. /\ trans_list' = trans_list \cup {t0}
      /\ steps' = Tail(steps)
      /\ state_list' = state_list /\ search_pool' = search_pool
      /\ tap_dict' = tap_dict /\ state_t' = state_t /\ error' = error
  BY DEF LinkState, AddTrans
<1>2. /\ step \in Step /\ step \in StepsOf(tap_dict, state_list[state_t])
      /\ Tail(steps) \in Seq(Step)
      /\ Range(steps) = Range(Tail(steps)) \cup {step}
  BY NextStep DEF LinkState
<1>3. /\ state_list \in Seq(Field) /\ tap_dict \in TapDicts
      /\ state_t \in DOMAIN state_list /\ state_list[state_t] \in Field
      /\ trans_list \subseteq Transition
      /\ \A t \in trans_list : {t.src, t.dst} \subseteq DOMAIN state_list
  BY DEF IInv, TypeOK
<1>4. known \in DOMAIN state_list /\ state_list[known] = step.field
  BY <1>3, GetIndexFinds DEF LinkState
<1>5. /\ step.act \in Action \cup TickEvent \cup RuleAction
      /\ step = [act |-> step.act, field |-> step.field]
  BY <1>2 DEF Step
<1> HIDE DEF step, known
<1>6. state_t \in Nat /\ known \in Nat /\ t0 \in Transition
  BY <1>3, <1>4, <1>5 DEF Transition
<1>7. t0 \in trans_list' /\ t0.src = state_t /\ t0.act = step.act /\ t0.dst = known
  BY <1>1
<1>8. TypeOK'
  BY <1>1, <1>2, <1>3, <1>4, <1>6 DEF IInv, TypeOK
<1>9. IsFiniteSet(trans_list')
  BY <1>1, FS_AddElement DEF IInv
<1>10. TransAreSteps'
  <2>1. ASSUME NEW t \in trans_list'
        PROVE  [act |-> t.act, field |-> state_list[t.dst]]
                  \in StepsOf(tap_dict, state_list[t.src])
    <3>1. CASE t = t0
      BY <1>2, <1>4, <1>5, <3>1
    <3>2. CASE t \in trans_list
      BY <3>2 DEF IInv, TransAreSteps
    <3>3. QED
      BY <1>1, <3>1, <3>2
  <2>2. QED
    BY <1>1, <2>1 DEF TransAreSteps
<1>11. StatesEntered'
  BY <1>1 DEF IInv, StatesEntered
<1>12. StepsAreLeft'
  BY <1>1, <1>2 DEF IInv, StepsAreLeft
<1>13. StepsAreTaken'
  <2>1. ASSUME NEW i \in DOMAIN state_list, i \notin Range(search_pool),
               NEW s \in StepsOf(tap_dict, state_list[i])
        PROVE  (i = state_t /\ s \in Range(Tail(steps))) \/ Linked(i, s)'
    <3>1. (i = state_t /\ s \in Range(steps)) \/ Linked(i, s)
      BY <2>1 DEF IInv, StepsAreTaken
    <3>2. CASE Linked(i, s)
      BY <1>1, <3>2 DEF Linked
    <3>3. CASE i = state_t /\ s = step
      BY <1>1, <1>4, <1>7, <3>3 DEF Linked
    <3>4. QED
      BY <1>2, <3>1, <3>2, <3>3
  <2>2. QED
    BY <1>1, <2>1 DEF StepsAreTaken
<1>14. QuietOnce'
  BY <1>1 DEF IInv, QuietOnce
<1>15. OneAction'
  <2>1. ASSUME OneSelfTrigger(tap_dict), NEW t \in trans_list,
               t.src = state_t, t.dst = known
        PROVE  t = t0
    <3> DEFINE other == [act |-> t.act, field |-> state_list[t.dst]]
    <3>1. other \in StepsOf(tap_dict, state_list[state_t]) /\ other.field = step.field
      BY <1>4, <2>1 DEF IInv, TransAreSteps
    <3>2. other.act = step.act
      BY <1>2, <1>3, <2>1, <3>1, StepsDiffer
    <3>3. t.act = step.act /\ t \in Transition
      BY <1>3, <2>1, <3>2
    <3>4. QED
      BY <2>1, <3>3 DEF Transition
  <2>2. ASSUME OneSelfTrigger(tap_dict), NEW t \in trans_list', NEW u \in trans_list',
               t.src = u.src, t.dst = u.dst
        PROVE  t = u
    <3>1. CASE t = t0 \/ u = t0
      BY <1>1, <1>7, <2>1, <2>2, <3>1
    <3>2. CASE t \in trans_list /\ u \in trans_list
      BY <2>2, <3>2 DEF IInv, OneAction
    <3>3. QED
      BY <1>1, <3>1, <3>2
  <2>3. QED
    BY <1>1, <2>2 DEF OneAction
<1>16. QED
  BY <1>8, <1>9, <1>10, <1>11, <1>12, <1>13, <1>14, <1>15 DEF IInv

(* The invariant does not mention whether the construction was given up,   *)
(* but for its type.                                                       *)
LEMMA SameIInv ==
  ASSUME IInv, LookupFails \/ UNCHANGED vars
  PROVE  IInv'
<1>1. /\ UNCHANGED <<tap_dict, state_list, trans_list, search_pool, state_t, steps>>
      /\ error' \in BOOLEAN
  BY DEF LookupFails, vars, IInv, TypeOK
<1>2. TypeOK'
  BY <1>1 DEF IInv, TypeOK
<1>3. StepsAreTaken'
  BY <1>1 DEF IInv, StepsAreTaken, Linked
<1>4. QED
  BY <1>1, <1>2, <1>3
     DEF IInv, TransAreSteps, StatesEntered, StepsAreLeft, QuietOnce, OneAction

(* No step of the construction breaks the invariant.                       *)
LEMMA NextIInv == IInv /\ [Next]_vars => IInv'
  BY PopStateIInv, AddStateIInv, LinkStateIInv, SameIInv DEF Next

LEMMA Invariant == Spec => []IInv
  BY InitIInv, NextIInv, PTL DEF Spec

-----------------------------------------------------------------------------
(* As many elements as their images, if no two have the same.              *)
LEMMA AsManyImages ==
  ASSUME NEW S, NEW T, NEW f \in [S -> T], IsFiniteSet(S),
         \A x \in T : \E y \in S : x = f[y],
         \A x, y \in S : f[x] = f[y] => x = y
  PROVE  Cardinality(T) = Cardinality(S)
<1>1. f \in Surjection(S, T) /\ f \in Injection(S, T)
  BY DEF Surjection, Injection, IsInjective
<1>2. QED
  BY <1>1, FS_Surjection

(* When nothing waits and nothing is left, the invariant says that every   *)
(* step has been taken.                                                    *)
LEMMA FinishedExact ==
  ASSUME IInv
  PROVE  Sound /\ Complete /\ QuietStatesOnce
<1> SUFFICES ASSUME Finished PROVE Sound /\ Complete /\ QuietStatesOnce
  BY DEF Sound, Complete, QuietStatesOnce
<1>1. Range(search_pool) = {} /\ Range(steps) = {}
  BY DEF Finished, Range
<1>2. Sound
  BY StepsAreOf DEF Sound, IInv, TransAreSteps, StatesEntered
<1>3. Complete
  BY <1>1, StepsAreOf DEF Complete, IInv, StepsAreTaken, Linked
<1>4. QuietStatesOnce
  <2> DEFINE quiet == {i \in DOMAIN state_list : ~ ActionTriggered(state_list[i])}
             fields == {state_list[i] : i \in quiet}
             at == [i \in quiet |-> state_list[i]]
  <2>1. IsFiniteSet(quiet)
    <3>1. DOMAIN state_list = 1..Len(state_list) /\ Len(state_list) \in Nat
      BY DEF IInv, TypeOK
    <3>2. IsFiniteSet(DOMAIN state_list)
      BY <3>1, FS_Interval
    <3>3. QED
      BY <3>2, FS_Subset
  <2>2. at \in [quiet -> fields] /\ \A x \in fields : \E y \in quiet : x = at[y]
    OBVIOUS
  <2>3. \A x, y \in quiet : at[x] = at[y] => x = y
    BY DEF IInv, QuietOnce
  <2>4. Cardinality(fields) = Cardinality(quiet)
    <3> HIDE DEF quiet, fields, at
    <3>1. QED
      BY <2>1, <2>2, <2>3, AsManyImages
  <2>5. QED
    BY <2>4 DEF QuietStatesOnce
<1>5. QED
  BY <1>2, <1>3, <1>4

(* The same for the actions between states.                                *)
LEMMA FinishedOneAction ==
  ASSUME IInv, OneSelfTrigger(tap_dict)
  PROVE  OneActionBetweenStates
<1> DEFINE ends == {<<t.src, t.dst>> : t \in trans_list}
           of == [t \in trans_list |-> <<t.src, t.dst>>]
<1>1. of \in [trans_list -> ends] /\ \A x \in ends : \E t \in trans_list : x = of[t]
  OBVIOUS
<1>2. \A t, u \in trans_list : of[t] = of[u] => t = u
  BY DEF IInv, OneAction
<1>3. IsFiniteSet(trans_list)
  BY DEF IInv
<1>4. Cardinality(ends) = Cardinality(trans_list)
  <2> HIDE DEF ends, of
  <2>1. QED
    BY <1>1, <1>2, <1>3, AsManyImages
<1>5. QED
  BY <1>4 DEF OneActionBetweenStates

(* The lists, the pool and the transitions have their types: no transition *)
(* and no entry of the pool refers to a state that is not there.           *)
THEOREM TypeCorrect == Spec => []TypeOK
<1>1. IInv => TypeOK
  BY DEF IInv
<1>2. QED
  BY <1>1, Invariant, PTL

(* Whatever the rules are, if the construction comes to its end, then what *)
(* it has built has exactly the steps of the semantics, and each quiet     *)
(* state once.                                                             *)
THEOREM BuiltAsSemantics == Spec => [](Sound /\ Complete /\ QuietStatesOnce)
  BY Invariant, FinishedExact, PTL

(* It is exact, and _getAction finds the one action between two states, if *)
(* at most one rule can trigger itself. (Two rules that run at the same    *)
(* time and trigger themselves lead to the same state by two actions.)     *)
THEOREM BuiltExact == Spec => [](OneSelfTrigger(tap_dict) => Exact)
<1>1. IInv => (OneSelfTrigger(tap_dict) => Exact)
  BY FinishedExact, FinishedOneAction DEF Exact
<1>2. QED
  BY <1>1, Invariant, PTL
=============================================================================
