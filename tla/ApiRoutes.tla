------------------------------ MODULE ApiRoutes ------------------------------
(***************************************************************************)
(* The routes of the API (apps/api): what each asks of its caller before   *)
(* its handler runs, how it treats a repeated Idempotency-Key and what a   *)
(* repeated command does.                                                  *)
(*                                                                         *)
(*   needs   the capability checked after standing in the family;          *)
(*           "session" when a session is all, "nobody" when the route      *)
(*           authenticates in its own way                                  *)
(*   limits  whose requests share the route's rate limit                   *)
(*   key     what a stored answer is filed under besides the caller:       *)
(*           "bare" the key, "family" and "route" in addition, "none"      *)
(*           when the route ignores the header                             *)
(*   work    what its command does when it is run again: "create" makes    *)
(*           another thing, "version" is refused by the version it moved,  *)
(*           "settle" changes nothing more, "refuse" is refused by what it *)
(*           used up, "read" changes nothing at all                        *)
(***************************************************************************)
EXTENDS TLC

Route(needs, limits, key, work) ==
  [needs |-> needs, limits |-> limits, key |-> key, work |-> work]

User   == {"user"}
Source == {"source"}

TaskLists ==
  [listOpenTasks   |-> Route("tasks:read", User, "none", "read"),
   listTaskHistory |-> Route("tasks:read", User, "none", "read")]
TaskCreation == [createTask |-> Route("tasks:write", User, "route", "create")]
TaskDetail ==
  [getTask    |-> Route("tasks:read", User, "none", "read"),
   updateTask |-> Route("tasks:write", User, "route", "version")]
TaskTransitions ==
  [completeTask |-> Route("tasks:write", User, "route", "version"),
   reopenTask   |-> Route("tasks:write", User, "route", "version"),
   cancelTask   |-> Route("tasks:write", User, "route", "version")]
TaskAssignment ==
  [assignTask   |-> Route("tasks:write", User, "route", "settle"),
   unassignTask |-> Route("tasks:write", User, "route", "settle")]

\* The calendar is not exempt from the limit of the source.
EventReads ==
  [listOccurrences |-> Route("calendar:read", Source \cup User, "none", "read"),
   getEvent        |-> Route("calendar:read", Source, "none", "read")]
EventCreation == [createEvent |-> Route("calendar:write", Source \cup User, "route", "create")]
EventUpdate   == [updateEvent |-> Route("calendar:write", Source, "none", "settle")]
EventCancellation ==
  [cancelEvent          |-> Route("calendar:write", Source, "route", "settle"),
   cancelOccurrence     |-> Route("calendar:write", Source, "route", "settle"),
   rescheduleOccurrence |-> Route("calendar:write", Source, "none", "refuse")]

FamilyCreation == [createFamily |-> Route("session", Source, "bare", "create")]
FamilyDetails ==
  [listFamilies |-> Route("session", Source, "none", "read"),
   getFamily    |-> Route("family:read", Source, "none", "read"),
   updateFamily |-> Route("family:manage", Source, "none", "settle"),
   listMembers  |-> Route("members:read", Source, "none", "read")]
MemberAddition == [addMember |-> Route("members:add", Source, "family", "create")]
MemberDetail   == [readMember |-> Route("members:read", Source, "none", "read")]
Guardianships ==
  [grantGuardianship |-> Route("guardianship:manage", Source, "none", "settle"),
   endGuardianship   |-> Route("guardianship:manage", Source, "none", "refuse")]
InvitationCreation ==
  [createInvitation |->
     Route("members:manage", Source \cup {"family"}, "family", "create")]
Invitations ==
  [listInvitations  |-> Route("members:manage", Source, "none", "read"),
   revokeInvitation |-> Route("members:manage", Source, "none", "refuse"),
   acceptInvitation |-> Route("session", Source, "none", "settle")]
MemberChanges ==
  [changeMemberRole      |-> Route("members:manage", Source, "none", "settle"),
   removeMember          |-> Route("members:manage", Source, "none", "refuse"),
   transferOwnership     |-> Route("members:manage", Source, "none", "refuse"),
   requestFamilyDeletion |-> Route("family:delete", Source, "none", "settle")]

Registration ==
  [register           |-> Route("nobody", Source, "none", "refuse"),
   verifyEmail        |-> Route("nobody", Source, "none", "refuse"),
   resendVerification |-> Route("nobody", Source \cup {"account"}, "none", "create")]
SignIn == [login |-> Route("nobody", Source \cup {"account"}, "none", "create")]
Sessions ==
  [listSessions |-> Route("session", Source, "none", "read"),
   renewSession |-> Route("nobody", Source \cup {"session"}, "none", "refuse"),
   revokeSession |-> Route("session", Source, "none", "settle")]
Account ==
  [requestAccountDeletion |-> Route("session", Source, "none", "refuse"),
   exportAccountData      |-> Route("session", Source, "none", "read")]

\* What a role may do, as far as a route asks for it.
Role == {"owner", "adult", "extended", "viewer"}
HasCapability(role, capability) ==
  \/ role = "owner"
  \/ capability \in {"family:read", "members:read", "calendar:read", "tasks:read"}
  \/ capability \in {"calendar:write", "tasks:write"} /\ role # "viewer"
  \/ capability \in {"family:manage", "members:add"} /\ role = "adult"

Routes ==
  TaskLists @@ TaskCreation @@ TaskDetail @@ TaskTransitions @@ TaskAssignment
  @@ EventReads @@ EventCreation @@ EventUpdate @@ EventCancellation
  @@ FamilyCreation @@ FamilyDetails @@ MemberAddition @@ MemberDetail @@ Guardianships
  @@ InvitationCreation @@ Invitations @@ MemberChanges
  @@ Registration @@ SignIn @@ Sessions @@ Account

ASSUME RouteKinds ==
  \A route \in DOMAIN Routes :
    /\ Routes[route].key \in {"none", "bare", "family", "route"}
    /\ Routes[route].work \in {"create", "version", "settle", "refuse", "read"}

\* The routes whose keys are filed under the family alone, and under nothing.
ASSUME KeyKinds ==
  \A route \in DOMAIN Routes :
    /\ Routes[route].key = "family" <=> route \in {"addMember", "createInvitation"}
    /\ Routes[route].key = "bare" <=> route = "createFamily"

NeedsSession(route)  == Routes[route].needs # "nobody"
NeedsStanding(route) == Routes[route].needs \notin {"session", "nobody"}
==============================================================================
