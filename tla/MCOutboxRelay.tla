---------------------------- MODULE MCOutboxRelay ----------------------------
(***************************************************************************)
(* Instances of OutboxRelay for TLC.  Row 1 is of a type two queues        *)
(* subscribe to, row 2 of one that nobody does, as is true of every domain *)
(* event at present.                                                       *)
(***************************************************************************)
EXTENDS OutboxRelay, DomainEvents

CONSTANTS r1, r2

TwoEvents == 1..2
MCQueue   == 1..2
MCRelay   == {r1, r2}

TypeOf     == [e \in TwoEvents |-> IF e = 1 THEN "VerificationPing" ELSE "TaskCreated"]
MCTopology ==
  {[q EXCEPT !.name = n, !.dlq = n] : q \in QueueTopology, n \in MCQueue}

TwoDestinations ==
  [e \in TwoEvents |-> {q.name : q \in ResolveDestinations(TypeOf[e], MCTopology)}]
==============================================================================
