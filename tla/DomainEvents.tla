---------------------------- MODULE DomainEvents ----------------------------
(***************************************************************************)
(* The integration events (packages/core/src/<context>/domain/events.ts):  *)
(* what each type is about and carries, which request or sweep appends it  *)
(* to the outbox with its own change, and the queues the relay sends it    *)
(* to.                                                                     *)
(*                                                                         *)
(* An event is the kind of its aggregate, the identifier in its payload    *)
(* that names the aggregate, and the other fields of the payload.          *)
(***************************************************************************)
EXTENDS ApiRoutes

About(aggregate, named, others) ==
  [aggregate |-> aggregate, named |-> named, payload |-> {named} \cup others]

UserRegistered        == About("User", "userId", {})
UserAuthenticated     == About("User", "userId", {"sessionId"})
UserDeletionRequested == About("User", "userId", {})

FamilyCreated     == About("Family", "familyId", {"ownerMemberId", "ownerUserId"})
MemberAdded       == About("FamilyMember", "memberId", {"familyId", "kind", "role", "userId"})
MemberRoleChanged == About("FamilyMember", "memberId", {"familyId", "fromRole", "toRole"})
\* The identifier of the user would outlive the erasure of the user.
MemberRemoved     == About("FamilyMember", "memberId", {"familyId", "hadUserId"})
GuardianshipEstablished ==
  About("FamilyMember", "childMemberId", {"familyId", "guardianMemberId"})
FamilyDeletionRequested == About("Family", "familyId", {"requestedByMemberId"})

EventCreated   == About("CalendarEvent", "eventId", {"familyId", "kind", "recurring"})
EventUpdated   == About("CalendarEvent", "eventId", {"familyId", "changed"})
EventCancelled == About("CalendarEvent", "eventId", {"familyId", "occurrenceId"})
OccurrenceMaterialised ==
  About("CalendarEvent", "eventId", {"familyId", "windowFrom", "windowTo", "count"})

TaskCreated   == About("Task", "taskId", {"familyId", "seriesId", "predecessorId", "dueKind"})
TaskAssigned  == About("Task", "taskId", {"familyId", "memberId"})
TaskUpdated   == About("Task", "taskId", {"familyId", "changed"})
TaskCompleted == About("Task", "taskId", {"familyId", "completedByMemberId"})
TaskCancelled == About("Task", "taskId", {"familyId", "scope"})
TaskOverdue   == About("Task", "taskId", {"familyId", "dueAt"})

IdentityEvents ==
  [UserRegistered |-> UserRegistered, UserAuthenticated |-> UserAuthenticated,
   UserDeletionRequested |-> UserDeletionRequested]
FamilyEvents ==
  [FamilyCreated |-> FamilyCreated, MemberAdded |-> MemberAdded,
   MemberRoleChanged |-> MemberRoleChanged, MemberRemoved |-> MemberRemoved,
   GuardianshipEstablished |-> GuardianshipEstablished,
   FamilyDeletionRequested |-> FamilyDeletionRequested]
CalendarEvents ==
  [EventCreated |-> EventCreated, EventUpdated |-> EventUpdated,
   EventCancelled |-> EventCancelled, OccurrenceMaterialised |-> OccurrenceMaterialised]
TaskEvents ==
  [TaskCreated |-> TaskCreated, TaskAssigned |-> TaskAssigned, TaskUpdated |-> TaskUpdated,
   TaskCompleted |-> TaskCompleted, TaskCancelled |-> TaskCancelled,
   TaskOverdue |-> TaskOverdue]

Events == IdentityEvents @@ FamilyEvents @@ CalendarEvents @@ TaskEvents

------------------------------------------------------------------------------
(* Fields by what they hold: identifiers, and values that describe nobody. *)

Identifiers ==
  {"userId", "sessionId", "deviceId", "familyId", "memberId", "invitationId",
   "guardianshipId", "eventId", "occurrenceId", "taskId", "seriesId"}
\* Identifiers by their part in the event.
Parts ==
  {"ownerUserId", "ownerMemberId", "childMemberId", "guardianMemberId",
   "requestedByMemberId", "completedByMemberId", "predecessorId"}
Values ==
  {"kind", "role", "fromRole", "toRole", "hadUserId", "recurring", "changed", "windowFrom",
   "windowTo", "count", "dueKind", "scope", "dueAt"}

------------------------------------------------------------------------------
(* Who appends what: the events a request, or a sweep, can leave in the    *)
(* outbox.  A closed task's successor is announced as created and not as   *)
(* assigned.                                                               *)

IdentityPublishes ==
  [register |-> {"UserRegistered"}, login |-> {"UserAuthenticated"},
   requestAccountDeletion |-> {"UserDeletionRequested"}]
FamilyPublishes ==
  [createFamily          |-> {"FamilyCreated", "MemberAdded"},
   addMember             |-> {"MemberAdded", "GuardianshipEstablished"},
   grantGuardianship     |-> {"GuardianshipEstablished"},
   acceptInvitation      |-> {"MemberAdded"},
   changeMemberRole      |-> {"MemberRoleChanged"},
   removeMember          |-> {"MemberRemoved"},
   transferOwnership     |-> {"MemberRoleChanged"},
   requestFamilyDeletion |-> {"FamilyDeletionRequested"}]
CalendarPublishes ==
  [createEvent      |-> {"EventCreated", "OccurrenceMaterialised"},
   updateEvent      |-> {"EventUpdated", "OccurrenceMaterialised"},
   cancelEvent      |-> {"EventCancelled"},
   cancelOccurrence |-> {"EventCancelled"}]
TaskPublishes ==
  [createTask   |-> {"TaskCreated", "TaskAssigned"},
   updateTask   |-> {"TaskUpdated"},
   completeTask |-> {"TaskCompleted", "TaskCreated"},
   reopenTask   |-> {"TaskUpdated"},
   cancelTask   |-> {"TaskCancelled", "TaskCreated"},
   assignTask   |-> {"TaskAssigned"},
   unassignTask |-> {"TaskUpdated"}]

Publishes == IdentityPublishes @@ FamilyPublishes @@ CalendarPublishes @@ TaskPublishes
SweepsPublish ==
  [materialiseHorizon |-> {"OccurrenceMaterialised"}, reportOverdue |-> {"TaskOverdue"}]

Published == UNION {Publishes[c] : c \in DOMAIN Publishes}
               \cup UNION {SweepsPublish[c] : c \in DOMAIN SweepsPublish}

\* The requests that change something and tell no other context of it.  A
\* reschedule is always refused.
Untold ==
  {"updateFamily", "endGuardianship", "createInvitation", "revokeInvitation",
   "verifyEmail", "resendVerification", "renewSession", "revokeSession",
   "rescheduleOccurrence"}

------------------------------------------------------------------------------
(* Where the relay sends an event. *)

QueueTopology ==
  {[name |-> "outbox-relay-verification", dlq |-> "outbox-relay-verification-dlq",
    maxReceiveCount |-> 5, subscribed |-> {"VerificationPing"}]}

ResolveDestinations(type, topology) == {q \in topology : type \in q.subscribed}

------------------------------------------------------------------------------
\* Every type is published by somebody and carries identifiers and values
\* only, its aggregate's among them (SC-011); it names the tenant its change
\* was made for; and whatever changes something is announced or known to be
\* silent.
ASSUME EventsTellWhoAndWhat ==
  /\ Published = DOMAIN Events
  /\ \A type \in DOMAIN Events :
       /\ Events[type].payload \subseteq Identifiers \cup Parts \cup Values
       /\ Events[type].named \in Identifiers \cup Parts
       /\ (type \in DOMAIN IdentityEvents) = ("familyId" \notin Events[type].payload)
  /\ {route \in DOMAIN Routes : Routes[route].work # "read"} = DOMAIN Publishes \cup Untold
  /\ DOMAIN Publishes \cap Untold = {}

\* FR-004: nobody subscribes to any of them yet; the relay's rows for them have
\* no destination.
ASSUME NobodySubscribes ==
  \A type \in DOMAIN Events : ResolveDestinations(type, QueueTopology) = {}
==============================================================================
