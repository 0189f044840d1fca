---------------------------- MODULE MCRuleEditor -----------------------------
(* RuleEditor with two lamps of one name, one of them read only, and the   *)
(* forms of clauses for them, a heater and the clock.                      *)
EXTENDS RuleEditor

MCDevices == <<[name |-> "lamp", type |-> "bin"], [name |-> "heater", type |-> "range"],
               [name |-> "clock", type |-> "time"], [name |-> "lamp", type |-> "bin"]>>
MCNumbers == {-5, 0, 5, 10}

Row(d) == [device |-> d, par |-> d, comp |-> "=", val |-> "tval", time_val |-> 0]
MCFirstRules ==
    <<[loc |-> 1, Etrigger |-> Row(4), Striggers |-> <<Row(1)>>,
       action |-> [device |-> 1, par |-> 1, val |-> "tval"]],
      [loc |-> 2, Etrigger |-> Row(4), Striggers |-> <<>>,
       action |-> [device |-> 1, par |-> 1, val |-> "tval"]]>>
=============================================================================
