---------------------------- MODULE MCTaskSeries -----------------------------
(* An instance of TaskSeries for TLC. *)
EXTENDS TaskSeries

\* Rule 1 recurs daily and five times in all, rule 2 is over after its anchor.
MCEvery == [r \in Rule |-> r]
MCCount == [r \in Rule |-> IF r = 1 THEN 5 ELSE 1]

\* A date: day 1, which is over at moment 4.
DayOne == {[at |-> 2, timed |-> FALSE]}
==============================================================================
