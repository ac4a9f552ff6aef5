---------------------------- MODULE ApiContracts ----------------------------
(***************************************************************************)
(* What a request can be told (packages/contracts, apps/api): the problems *)
(* each route's contract declares, the domain errors its command returns,  *)
(* and what its handler makes of them.  A command's error type is the      *)
(* whole taxonomy of packages/kernel/src/errors.ts, so nothing but the     *)
(* handlers' own branches ties the three together.                         *)
(*                                                                         *)
(* Problems are the wire's types without their namespace.                  *)
(***************************************************************************)
EXTENDS ApiRoutes

------------------------------------------------------------------------------
(* The contracts: the problems each route declares, besides the 404 that   *)
(* three of the contracts declare for all their routes.                    *)

Guarded(problems) == {"capability_required"} \cup problems
WithNotFound(routes) == [r \in DOMAIN routes |-> {"not_found"} \cup routes[r]]

ListErrors     == {"range_too_wide", "invalid_range"}
TaskFieldErrors ==
  {"unknown_time_zone", "invalid_due", "recurrence_invalid", "recurrence_unsupported",
   "recurrence_requires_due", "assignee_invalid"}
TaskConflicts  == {"invalid_transition", "version_conflict"}
EventWriteErrors ==
  {"invalid_time_range", "unknown_time_zone", "recurrence_invalid",
   "recurrence_unsupported", "recurrence_too_dense", "participant_invalid"}

TasksContract == WithNotFound(
  [listOpenTasks   |-> Guarded(ListErrors),
   listTaskHistory |-> Guarded(ListErrors),
   createTask      |-> Guarded(TaskFieldErrors),
   getTask         |-> Guarded({}),
   updateTask      |-> Guarded(TaskConflicts \cup TaskFieldErrors),
   completeTask    |-> Guarded(TaskConflicts),
   reopenTask      |-> Guarded(TaskConflicts),
   cancelTask      |-> Guarded(TaskConflicts),
   assignTask      |-> Guarded(TaskConflicts \cup {"assignee_invalid"}),
   unassignTask    |-> Guarded(TaskConflicts)])

CalendarContract == WithNotFound(
  [listOccurrences      |-> Guarded({"invalid_time_range", "range_too_wide"}),
   createEvent          |-> Guarded(EventWriteErrors),
   getEvent             |-> Guarded({}),
   updateEvent          |-> Guarded(EventWriteErrors),
   cancelEvent          |-> Guarded({}),
   cancelOccurrence     |-> Guarded({}),
   rescheduleOccurrence |-> Guarded({"occurrence_not_movable"})])

FamilyContract == WithNotFound(
  [createFamily |-> {"name_required"},
   listFamilies |-> {},
   getFamily    |-> {},
   updateFamily |-> Guarded({"name_required"}),
   listMembers  |-> Guarded({}),
   addMember    |-> Guarded({"name_required", "guardian_ineligible"}),
   readMember   |-> Guarded({"guardianship_required"}),
   grantGuardianship |-> Guarded({"guardian_ineligible"}),
   endGuardianship   |-> Guarded({"last_guardian"})])

MembershipContract == WithNotFound(
  [listInvitations   |-> Guarded({}),
   createInvitation  |-> Guarded({"already_member"}),
   revokeInvitation  |-> Guarded({"invitation_invalid"}),
   acceptInvitation  |-> {"invitation_email_mismatch", "invitation_invalid"},
   changeMemberRole  |-> Guarded({"last_guardian", "owner_required"}),
   removeMember      |-> Guarded({"last_guardian", "owner_required"}),
   transferOwnership |-> Guarded({"owner_ineligible"}),
   requestFamilyDeletion |-> Guarded({})])

IdentityContract ==
  [register           |-> {"email_unavailable", "weak_password"},
   verifyEmail        |-> {"verification_invalid"},
   resendVerification |-> {},
   login              |-> {"invalid_credentials", "not_verified", "throttled", "rate_limited"},
   listSessions       |-> {"session_invalid"},
   renewSession       |-> {"session_invalid"},
   revokeSession      |-> {"session_invalid", "not_found"},
   requestAccountDeletion |-> {"session_invalid"},
   exportAccountData      |-> {"session_invalid"}]

Contract ==
  TasksContract @@ CalendarContract @@ FamilyContract @@ MembershipContract
  @@ IdentityContract

------------------------------------------------------------------------------
(* The commands: the domain errors a request the contract lets through can *)
(* come to.  The names and roles the contract refuses by itself are not    *)
(* among them.                                                             *)

Recurring   == {"RecurrenceInvalid", "RecurrenceUnsupported"}
Locking     == {"NotFound", "VersionConflict"}
Transition  == {"InvalidTransition"}
DueErrors   == {"UnknownTimeZone", "InvalidDue", "RecurrenceRequiresDue"} \cup Recurring
RangeErrors == {"InvalidTimeRange", "RangeTooWide"}
EventErrors == {"InvalidTimeRange", "UnknownTimeZone", "RecurrenceTooDense",
                "ParticipantInvalid"} \cup Recurring

TaskCommands ==
  [listOpenTasks   |-> RangeErrors,
   listTaskHistory |-> RangeErrors,
   createTask      |-> DueErrors \cup {"AssigneeInvalid"},
   getTask         |-> {"NotFound"},
   updateTask      |-> Locking \cup Transition \cup DueErrors,
   completeTask    |-> Locking \cup Transition,
   reopenTask      |-> Locking \cup Transition,
   cancelTask      |-> Locking \cup Transition,
   assignTask      |-> {"NotFound", "AssigneeInvalid"} \cup Transition,
   unassignTask    |-> {"NotFound"} \cup Transition]

EventCommands ==
  [listOccurrences      |-> RangeErrors,
   createEvent          |-> EventErrors,
   getEvent             |-> {"NotFound"},
   updateEvent          |-> {"NotFound"} \cup EventErrors,
   cancelEvent          |-> {"NotFound"},
   cancelOccurrence     |-> {"NotFound"},
   rescheduleOccurrence |-> {"NotFound", "OccurrenceNotMovable"}]

FamilyCommands ==
  [createFamily |-> {"NameRequired"},
   listFamilies |-> {},
   getFamily    |-> {"NotFound"},
   updateFamily |-> {"NameRequired", "NotFound"},
   listMembers  |-> {},
   addMember    |-> {"NameRequired", "GuardianIneligible", "NotFound"},
   readMember   |-> {"NotFound", "GuardianshipRequired"},
   grantGuardianship |-> {"NotFound", "GuardianIneligible"},
   endGuardianship   |-> {"NotFound", "LastGuardian"},
   listInvitations   |-> {},
   createInvitation  |-> {"NotFound", "AlreadyMember"},
   revokeInvitation  |-> {"NotFound", "InvitationInvalid"},
   acceptInvitation  |-> {"InvitationInvalid", "InvitationEmailMismatch"},
   changeMemberRole  |-> {"NotFound", "LastGuardian", "GuardianIneligible", "OwnerRequired"},
   removeMember      |-> {"NotFound", "LastGuardian", "OwnerRequired"},
   transferOwnership |-> {"NotFound", "OwnerIneligible"},
   requestFamilyDeletion |-> {"NotFound"}]

IdentityCommands ==
  [register           |-> {"WeakPassword", "EmailAlreadyRegistered"},
   verifyEmail        |-> {"VerificationInvalid"},
   resendVerification |-> {},
   login              |-> {"Throttled", "InvalidCredentials", "AccountNotVerified"},
   listSessions       |-> {},
   renewSession       |-> {"SessionInvalid", "SessionReplayDetected"},
   revokeSession      |-> {"NotFound"},
   requestAccountDeletion |-> {"NotFound"},
   exportAccountData      |-> {"NotFound"}]

Errors == TaskCommands @@ EventCommands @@ FamilyCommands @@ IdentityCommands

------------------------------------------------------------------------------
(* The handlers: the problem each error becomes, and what is left of the   *)
(* others; "internal" is an exception nobody catches.                      *)

Handler(told, otherwise) == [told |-> told, otherwise |-> otherwise]

FieldError ==
  [UnknownTimeZone |-> "unknown_time_zone", InvalidDue |-> "invalid_due",
   RecurrenceInvalid |-> "recurrence_invalid",
   RecurrenceUnsupported |-> "recurrence_unsupported",
   RecurrenceRequiresDue |-> "recurrence_requires_due",
   AssigneeInvalid |-> "assignee_invalid", NotFound |-> "not_found"]
ConflictError ==
  [InvalidTransition |-> "invalid_transition", VersionConflict |-> "version_conflict",
   NotFound |-> "not_found"]
AssigneeError == [AssigneeInvalid |-> "assignee_invalid", NotFound |-> "not_found"]
ListError == [RangeTooWide |-> "range_too_wide", InvalidTimeRange |-> "invalid_range"]
WriteError ==
  [InvalidTimeRange |-> "invalid_time_range", UnknownTimeZone |-> "unknown_time_zone",
   RecurrenceInvalid |-> "recurrence_invalid",
   RecurrenceUnsupported |-> "recurrence_unsupported",
   RecurrenceTooDense |-> "recurrence_too_dense",
   ParticipantInvalid |-> "participant_invalid", NotFound |-> "not_found"]

Anything(problem) == Handler(<<>>, problem)

TaskHandlers ==
  [listOpenTasks   |-> Handler(ListError, "internal"),
   listTaskHistory |-> Handler(ListError, "internal"),
   createTask      |-> Handler(FieldError, "internal"),
   getTask         |-> Anything("not_found"),
   updateTask      |-> Handler(ConflictError @@ FieldError, "internal"),
   completeTask    |-> Handler(ConflictError, "internal"),
   reopenTask      |-> Handler(ConflictError, "internal"),
   cancelTask      |-> Handler(ConflictError, "internal"),
   assignTask      |-> Handler(ConflictError @@ AssigneeError, "internal"),
   unassignTask    |-> Handler(ConflictError, "internal")]

EventHandlers ==
  [listOccurrences |-> Handler([RangeTooWide |-> "range_too_wide",
                                InvalidTimeRange |-> "invalid_time_range"], "internal"),
   createEvent      |-> Handler(WriteError, "internal"),
   getEvent         |-> Anything("not_found"),
   updateEvent      |-> Handler(WriteError, "internal"),
   cancelEvent      |-> Anything("not_found"),
   cancelOccurrence |-> Anything("not_found"),
   rescheduleOccurrence |->
     Handler([OccurrenceNotMovable |-> "occurrence_not_movable"], "not_found")]

LastOrOwner == [LastGuardian |-> "last_guardian", OwnerRequired |-> "owner_required"]

FamilyHandlers ==
  [createFamily |-> Anything("name_required"),
   listFamilies |-> Anything("internal"),
   getFamily    |-> Anything("not_found"),
   updateFamily |-> Handler([NameRequired |-> "name_required"], "not_found"),
   listMembers  |-> Anything("internal"),
   addMember    |-> Handler([NameRequired |-> "name_required",
                             GuardianIneligible |-> "guardian_ineligible"], "not_found"),
   readMember   |-> Handler([GuardianshipRequired |-> "guardianship_required"], "not_found"),
   grantGuardianship |->
     Handler([GuardianIneligible |-> "guardian_ineligible"], "not_found"),
   endGuardianship   |-> Handler([LastGuardian |-> "last_guardian"], "not_found"),
   listInvitations   |-> Anything("internal"),
   createInvitation  |-> Handler([AlreadyMember |-> "already_member"], "not_found"),
   revokeInvitation  |-> Handler([InvitationInvalid |-> "invitation_invalid"], "not_found"),
   acceptInvitation  |-> Handler([InvitationEmailMismatch |-> "invitation_email_mismatch"],
                                 "invitation_invalid"),
   changeMemberRole  |-> Handler(LastOrOwner, "not_found"),
   removeMember      |-> Handler(LastOrOwner, "not_found"),
   transferOwnership |-> Handler([OwnerIneligible |-> "owner_ineligible"], "not_found"),
   requestFamilyDeletion |-> Anything("not_found")]

IdentityHandlers ==
  [register     |-> Handler([EmailAlreadyRegistered |-> "email_unavailable"], "weak_password"),
   verifyEmail  |-> Anything("verification_invalid"),
   resendVerification |-> Anything("internal"),
   login        |-> Handler([AccountNotVerified |-> "not_verified",
                             Throttled |-> "throttled"], "invalid_credentials"),
   listSessions  |-> Anything("internal"),
   renewSession  |-> Anything("session_invalid"),
   revokeSession |-> Anything("not_found"),
   requestAccountDeletion |-> Anything("session_invalid"),
   exportAccountData      |-> Anything("session_invalid")]

Handlers == TaskHandlers @@ EventHandlers @@ FamilyHandlers @@ IdentityHandlers

Problem(route, error) ==
  LET handler == Handlers[route]
  IN IF error \in DOMAIN handler.told THEN handler.told[error] ELSE handler.otherwise

\* The problems a handler can answer with.
Refusals(route) == {Problem(route, error) : error \in Errors[route]}

------------------------------------------------------------------------------
\* The three agree: every route has a contract and a handler, whatever error a
\* command returns becomes a problem its contract declares, and so does the
\* refusal of every capability that some role lacks.
ASSUME HandlersKeepTheContract ==
  /\ DOMAIN Routes = DOMAIN Contract /\ DOMAIN Routes = DOMAIN Errors
  /\ DOMAIN Routes = DOMAIN Handlers
  /\ \A route \in DOMAIN Routes :
       Refusals(route) \subseteq Contract[route] /\ Contract[route] \subseteq STRING \ {"none"}
  /\ \A route \in DOMAIN Routes : \A role \in Role :
       NeedsStanding(route) /\ ~HasCapability(role, Routes[route].needs)
         => "capability_required" \in Contract[route]
==============================================================================
