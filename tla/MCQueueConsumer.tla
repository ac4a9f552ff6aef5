--------------------------- MODULE MCQueueConsumer ---------------------------
(* Instance of QueueConsumer for TLC: message 1 is a copy of event 1, and *)
(* message 3 does not parse.                                              *)
EXTENDS QueueConsumer

CONSTANTS p1, p2

MCEvent     == {1}
OneCopy     == {1, 3}
MCMalformed == {3}
OneEventOf  == [m \in {1} |-> 1]
MCPoller    == {p1, p2}
==============================================================================
