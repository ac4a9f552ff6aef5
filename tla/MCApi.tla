-------------------------------- MODULE MCApi --------------------------------
(***************************************************************************)
(* Instances of Api for TLC.  ann uses one key twice: to add a member and  *)
(* to invite somebody to one family, to complete a task in each of two     *)
(* families, or to cancel an event and an occurrence in one family.        *)
(***************************************************************************)
EXTENDS Api

CONSTANTS p, q

Make(name, family, route) ==
  [name |-> name, user |-> "ann", family |-> family, route |-> route, key |-> "k"]

Added   == Make("added", "F", "addMember")
Invited == Make("invited", "F", "createInvitation")
DoneInF == Make("done in F", "F", "completeTask")
DoneInG == Make("done in G", "G", "completeTask")
CalledOff == Make("called off", "F", "cancelEvent")
Skipped   == Make("skipped", "F", "cancelOccurrence")

Uses  == {{Added, Invited}, {DoneInF, DoneInG}, {CalledOff, Skipped}}
Calls == UNION Uses

Changes == {"viewer", "none"}

TwoRequests == {p, q}
==============================================================================
