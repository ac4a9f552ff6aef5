--------------------------- MODULE MCEventDelivery ---------------------------
(***************************************************************************)
(* Instances of EventDelivery for TLC.  Row 1 is for the consumed queue    *)
(* and another one; each row has a message for every time it may be sent,  *)
(* which is once more than there are faults.                               *)
(***************************************************************************)
EXTENDS EventDelivery

CONSTANTS r1, p1

OneRow        == {1}
MCRelay       == {r1}
MCPoller      == {p1}
MCQueue       == 1 .. 2
MCDestinations == [e \in OneRow |-> MCQueue]
MCMessage     == 1 .. MaxFaults + 1
MCEventOf     == [m \in MCMessage |-> 1]
NoMalformed   == {}
==============================================================================
