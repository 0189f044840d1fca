--------------------------- MODULE RuleTranslation ---------------------------
(***************************************************************************)
(* The four forms of a rule's clause and the functions between them: the   *)
(* clause of the browser's rule editor, the row of the Trigger, Condition  *)
(* or ActionCondition tables (backend/translator.py), the clause for the   *)
(* Home I/O connector, and the statement the trace analysis works with     *)
(* (autotap/translator.py), which comes back as a clause in a suggestion.  *)
(*                                                                         *)
(* A device has one capability with one parameter, as Home I/O's have, of  *)
(* one of three types: "bin" with the values "tval" and "fval", "range"    *)
(* with whole numbers, and "time", the clock's, in minutes. A statement    *)
(* names a device by its name, which stands for the names of capability    *)
(* and parameter too: devices of one name are of one type. Its thresholds  *)
(* are unsigned, and a time is in seconds. Labels, texts and channels are  *)
(* left out. A clause names its device and, on its own, the device whose   *)
(* parameter its value is of; one read from JSON has no field "timeValue"  *)
(* where the key is missing.                                               *)
(***************************************************************************)
EXTENDS Integers, Sequences, FiniteSets

CONSTANTS
    Devices,     \* the Device rows in order of id: [name, type]
    Numbers,     \* values of the devices of type "range"
    Minutes,     \* times of the day, in minutes
    Holds        \* how many seconds a state lasts before a timed event

ASSUME TranslationAssumption ==
    /\ Devices \in Seq({Devices[d] : d \in DOMAIN Devices})
    /\ \A d \in DOMAIN Devices : Devices[d].type \in {"bin", "range", "time"}
    /\ \A d, e \in DOMAIN Devices :
          Devices[d].name = Devices[e].name => Devices[d].type = Devices[e].type
    /\ Numbers \subseteq Int /\ Minutes \subseteq 0 .. 1439 /\ Holds \subseteq Nat \ {0}

Type(d) == Devices[d].type
ValuesOf(d) ==
    CASE Type(d) = "bin" -> {"tval", "fval"}
      [] Type(d) = "range" -> Numbers
      [] Type(d) = "time" -> Minutes
NoTime == [none |-> "timeValue"]     \* None, and null

-----------------------------------------------------------------------------
(* seconds_to_time, and time_to_int                                        *)
TimeOf(seconds) ==
    [hours |-> seconds \div 3600, minutes |-> (seconds \div 60) % 60, seconds |-> seconds % 60]
SecondsOf(time) == time.seconds + time.minutes * 60 + time.hours * 3600

(* clause_to_trigger: KeyError where there is no "timeValue"               *)
Storable(clause) == "timeValue" \in DOMAIN clause
Stored(clause) ==
    [device |-> clause.device, par |-> clause.par, comp |-> clause.comparator,
     val |-> clause.value,
     time_val |-> IF clause.timeValue = NoTime THEN 0 ELSE SecondsOf(clause.timeValue)]
(* clause_to_action                                                        *)
StoredAction(clause) == [device |-> clause.device, par |-> clause.par, val |-> clause.value]

(* trigger_to_clause: only events have a "timeValue"                       *)
Loaded(row, is_event) ==
    IF is_event
    THEN [device |-> row.device, par |-> row.par, comparator |-> row.comp, value |-> row.val,
          timeValue |-> IF row.time_val = 0 THEN NoTime ELSE TimeOf(row.time_val)]
    ELSE [device |-> row.device, par |-> row.par, comparator |-> row.comp, value |-> row.val]
(* action_to_clause                                                        *)
LoadedAction(row) ==
    [device |-> row.device, par |-> row.par, comparator |-> "=", value |-> row.val]

(* trigger_to_homeio_clause, action_to_homeio_clause                       *)
HomeIOValue(d, val) == IF Type(d) = "bin" THEN val = "tval" ELSE val
HomeIOClause(row) ==
    [dev |-> row.device, comp |-> row.comp, val |-> HomeIOValue(row.par, row.val),
     hold_t |-> row.time_val]     \* 0 for None
HomeIOAction(row) ==
    [dev |-> row.device, comp |-> "=", val |-> HomeIOValue(row.par, row.val)]

-----------------------------------------------------------------------------
(* _set_opt_to_autotap drops every "-", the sign of a number too           *)
Unsigned(n) == IF n < 0 THEN -n ELSE n

(* pv_clause_to_autotap_statement                                          *)
CommandStatement(d, val) ==
    [neg |-> FALSE, name |-> Devices[d].name, comp |-> "=", time |-> 0,
     val |-> IF Type(d) = "bin" THEN val # "fval" ELSE Unsigned(val)]

(* Slip: the clock's minutes are not made seconds.                         *)
StatementInMinutes(clause) ==
    [neg |-> clause.comparator = "!=", name |-> Devices[clause.device].name, time |-> 0,
     comp |-> IF clause.comparator = "!=" THEN "=" ELSE clause.comparator,
     val |-> IF Type(clause.par) = "bin" THEN clause.value # "fval" ELSE Unsigned(clause.value)]
(* trigger_to_autotap_statement. A "bin" clause is never with "!=" here:   *)
(* no label of such a capability offers a comparator.                      *)
Statement(clause) ==
    [neg |-> clause.comparator = "!=", name |-> Devices[clause.device].name,
     comp |-> IF clause.comparator = "!=" THEN "=" ELSE clause.comparator,
     val |-> CASE Type(clause.par) = "bin" -> clause.value # "fval"
               [] Type(clause.par) = "range" -> Unsigned(clause.value)
               [] Type(clause.par) = "time" -> clause.value * 60,
     time |-> IF Storable(clause) /\ clause.timeValue # NoTime
              THEN SecondsOf(clause.timeValue) ELSE 0]

(* translate_rule_into_autotap_tap of a stored rule, and                   *)
(* translate_clause_into_autotap_tap of one the browser sends              *)
Members(seq) == {seq[i] : i \in DOMAIN seq}
RuleTap(rule) ==
    [trigger |-> Statement(Loaded(rule.Etrigger, TRUE)),
     condition |-> {Statement(Loaded(row, FALSE)) : row \in Members(rule.Striggers)},
     action |-> Statement(LoadedAction(rule.action))]
ClauseTap(rule) ==
    [trigger |-> Statement(Head(rule.ifClause)),
     condition |-> {Statement(c) : c \in Members(Tail(rule.ifClause))},
     action |-> Statement(Head(rule.thenClause))]

(* get_rules_for_syntax: the rules whose action is the command             *)
RulesFor(actions, d, val) ==
    {row \in actions : LET f == Statement(LoadedAction(row))
                       IN  f.name = Devices[d].name /\ f = CommandStatement(d, val)}

(* generate_cap_time_list_from_tap                                         *)
HeldChannels(tap) ==
    IF tap.trigger.time = 0 THEN {} ELSE {<<tap.trigger.name, tap.trigger.time>>}

-----------------------------------------------------------------------------
(* _dev_name_to_autotap and index: the first device with that name         *)
DeviceNamed(name) ==
    CHOOSE d \in DOMAIN Devices :
        /\ Devices[d].name = name
        /\ \A other \in DOMAIN Devices : Devices[other].name = name => d <= other

Negated(comp) ==
    CASE comp = "=" -> "!=" [] comp = "<" -> ">=" [] comp = ">" -> "<="
      [] comp = "<=" -> ">" [] comp = ">=" -> "<"
Comparator(f) == IF f.neg THEN Negated(f.comp) ELSE f.comp

(* Slip: the sign of a negated strict comparison is not turned.            *)
OfferedUnturned(comp) == IF comp = ">=" THEN "<" ELSE IF comp = "<=" THEN ">" ELSE comp
(* The interface offers no comparison that includes the threshold.         *)
Offered(comp) == IF comp = ">=" THEN ">" ELSE IF comp = "<=" THEN "<" ELSE comp

(* _regular_statement_clause_generator                                     *)
RegularClause(d, f) ==
    IF Type(d) = "bin"
    THEN [device |-> d, par |-> d, comparator |-> "=",
          value |-> IF f.val = ~f.neg THEN "tval" ELSE "fval"]
    ELSE [device |-> d, par |-> d, comparator |-> Offered(Comparator(f)), value |-> f.val]
(* _clock_statement_clause_generator                                       *)
ClockClause(d, f) ==
    [device |-> d, par |-> d, comparator |-> Comparator(f), value |-> (f.val \div 60) % 3600]

(* autotap_simple_formula_to_clause                                        *)
SimpleClause(f) ==
    LET d == DeviceNamed(f.name)
    IN  IF Type(d) = "time" THEN ClockClause(d, f) ELSE RegularClause(d, f)

(* autotapta_formula_to_clause: the clock for a timed event is looked up   *)
(* by a location, which no device has.                                     *)
Showable(f, is_event) == f.time = 0 \/ ~is_event
ClauseOf(f) == SimpleClause(f)

(* tap_to_frontend_view_ta                                                 *)
TapShown(tap) ==
    [event |-> ClauseOf(tap.trigger), states |-> {ClauseOf(f) : f \in tap.condition},
     thenClause |-> ClauseOf(tap.action)]

-----------------------------------------------------------------------------
(* What clauses and statements are for: whether they hold of the value x   *)
Compare(x, comp, y) ==
    CASE comp = "=" -> x = y [] comp = "!=" -> x # y [] comp = "<" -> x < y
      [] comp = ">" -> x > y [] comp = "<=" -> x <= y [] comp = ">=" -> x >= y
ClauseHolds(clause, x) == Compare(x, clause.comparator, clause.value)
InTrace(d, x) ==
    CASE Type(d) = "bin" -> x = "tval" [] Type(d) = "range" -> x [] Type(d) = "time" -> x * 60
StatementHolds(f, x) == Compare(x, f.comp, f.val) # f.neg

Comparators(d) == IF Type(d) = "bin" THEN {"="} ELSE {"=", "!=", "<", ">"}
TimeValues == {NoTime} \cup {TimeOf(n) : n \in Holds}
ClausesOf(d) ==
    [device : {d}, par : {d}, comparator : Comparators(d), value : ValuesOf(d),
     timeValue : TimeValues]
(* What the analysis may suggest for a device, of the values there are     *)
StatementsOf(d) ==
    [neg : BOOLEAN, name : {Devices[d].name}, time : {0},
     comp : IF Type(d) = "bin" THEN {"="} ELSE {"=", "<", ">", "<=", ">="},
     val : {InTrace(d, x) : x \in {x \in ValuesOf(d) : Type(d) = "range" => x >= 0}}]
Signless(clause) == Type(clause.device) = "range" => clause.value >= 0

(* The analysis and Home I/O take a rule to mean the same: the statement   *)
(* of a stored clause holds in a trace just where its Home I/O clause      *)
(* holds in the house, for as long, unless its threshold is below zero.    *)
(* And it makes no difference whether the rule is read from the tables or  *)
(* sent by the browser. The rules found for a command of the devices' page *)
(* are those with that command for their action.                           *)
SeenAsRun ==
    \A d \in DOMAIN Devices : \A c \in {c \in ClausesOf(d) : Signless(c)} :
        LET row == Stored(c)
            seen == Statement(Loaded(row, TRUE))
            run == HomeIOClause(row)
        IN  /\ \A x \in ValuesOf(d) :
                  StatementHolds(seen, InTrace(d, x))
                      <=> Compare(HomeIOValue(d, x), run.comp, run.val)
            /\ seen.time = run.hold_t
            /\ \A other \in DOMAIN Devices :
                  \A s \in {s \in ClausesOf(other) : s.timeValue = NoTime /\ s.comparator = "="} :
                      LET rule == [Etrigger |-> row, Striggers |-> <<Stored(s)>>,
                                   action |-> StoredAction(s)]
                          tap == RuleTap(rule)
                      IN  /\ tap = ClauseTap([ifClause |-> <<c, s>>, thenClause |-> <<s>>])
                          /\ HeldChannels(tap) = IF run.hold_t = 0 THEN {}
                                                 ELSE {<<Devices[d].name, run.hold_t>>}
                          /\ Signless(s) /\ Type(d) # "time" =>
                                (rule.action \in RulesFor({rule.action}, d, c.value)
                                    <=> /\ Devices[other].name = Devices[d].name
                                        /\ s.value = c.value)

SameClause(a, b) ==
    /\ Devices[a.device].name = Devices[b.device].name
    /\ a.comparator = b.comparator /\ a.value = b.value

(* A suggestion shows no condition that holds where the suggested one does *)
(* not: it may hold at fewer values, not at the threshold itself. And what *)
(* a user wrote comes back from the analysis as it was, but for its sign   *)
(* and on the first device of its name, if it can be shown at all; what has*)
(* come back once comes back the same ever after.                          *)
ComesBack ==
    \A d \in DOMAIN Devices :
        /\ \A f \in StatementsOf(d), x \in ValuesOf(d) :
              LET suggested == StatementHolds(f, InTrace(d, x))
                  shown == ClauseHolds(ClauseOf(f), x)
              IN  /\ shown => suggested
                  /\ suggested /\ ~shown =>
                        Comparator(f) \in {"<=", ">="} /\ f.val = InTrace(d, x)
        /\ \A c \in ClausesOf(d), e \in ClausesOf(d) :
              LET tap == ClauseTap([ifClause |-> <<e, c>>, thenClause |-> <<c>>])
                  shown == TapShown(tap)
              IN  Showable(tap.trigger, TRUE) =>
                      /\ Signless(e) => SameClause(shown.event, e)
                      /\ Signless(c) => SameClause(shown.thenClause, c)
                      /\ shown.states = {shown.thenClause}
                      /\ ClauseOf(Statement(shown.event)) = shown.event
=============================================================================
