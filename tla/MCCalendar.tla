------------------------------ MODULE MCCalendar ------------------------------
(***************************************************************************)
(* Instances of Calendar for TLC: a rule without an end and a rule that    *)
(* ends after two occurrences, every other day.                            *)
(***************************************************************************)
EXTENDS Calendar

Daily     == [every |-> 1, count |-> 0]
TwiceOnly == [every |-> 2, count |-> 2]
Rules     == {Daily, TwiceOnly}
==============================================================================
