------------------------------ MODULE TaskSeries ------------------------------
(***************************************************************************)
(* The Tasks context (packages/core/src/tasks): the lifecycle of a task,   *)
(* the series a recurring task belongs to, optimistic versions, and the    *)
(* sweep that announces overdue tasks.                                     *)
(*                                                                         *)
(* Every command locks the one row it changes and works on what it reads   *)
(* under that lock, so a command is one step here.  The version a client   *)
(* expects, what a sweep discovered, and what an erasure found, may be     *)
(* stale by then.                                                          *)
(*                                                                         *)
(* Time is counted in half-days: day d starts at moment 2 * d.  A due is a *)
(* local reading: midnight for a date, any moment for a date with a time.  *)
(* A command reads its clock before it waits for its row, so the moment it *)
(* goes by may be an earlier one.                                          *)
(***************************************************************************)
EXTENDS Naturals, Sequences, FiniteSets

CONSTANTS
  Task,         \* task rows, in the order they are allocated
  Member,       \* family members a task can be assigned to
  Sweeper,      \* processes that run the overdue sweep
  Rule,         \* recurrence rules, numbered
  Every,        \* Every[r]: days from one scheduled date to the next
  Count,        \* Count[r]: COUNT of the rule, 0 when it has none
  DueInput,     \* dues a client gives
  Horizon,      \* bound: scheduled readings of a rule without COUNT
  MaxCreated,   \* bound: tasks members create; the others are successors
  Moments,      \* bound: moments the clock shows, its start among them
  MaxVersion,   \* bound: versions of a task, and so changes to it
  MaxChanges    \* bound: changes to tasks, all together

ASSUME TaskAssumption == Task \subseteq Nat \ {0} /\ Rule \subseteq Nat \ {0}
ASSUME RuleAssumption ==
  Every \in [Rule -> Nat \ {0}] /\ Count \in [Rule -> Nat]

\* A due is a date, which is its midnight, or a date with a time.
IsDue(due) ==
  /\ due \in [at : Nat \ {0}, timed : BOOLEAN]
  /\ ~due.timed => due.at % 2 = 0

ASSUME DueAssumption == \A due \in DueInput : IsDue(due)
ASSUME BoundAssumption ==
  /\ Horizon \in Nat /\ MaxCreated \in Nat
  /\ Moments \subseteq Nat /\ 0 \in Moments
  /\ MaxVersion \in Nat \ {0} /\ MaxChanges \in Nat

NoTask   == 0
NoRule   == 0
NoMoment == 0
NoDue    == [at |-> 0, timed |-> FALSE]

Status == {"unused", "open", "completed", "cancelled", "erased"}
Closed == {"completed", "cancelled"}

VARIABLES
  task,        \* the task table
  now,         \* the clock
  announced,   \* history: due moments TaskOverdue was published for, in order
  candidates,  \* what each sweep discovered and has not processed
  erasing,     \* the tasks a running family erasure has found
  gone,        \* members whose assignments were erased
  stopped      \* history: tasks cancelled with their series

vars == <<task, now, announced, candidates, erasing, gone, stopped>>

------------------------------------------------------------------------------
(* Dues and schedules *)

\* dueMomentOf: a date is due at the start of the next day.
DueMoment(due) == IF due.timed THEN due.at ELSE due.at + 2

\* dueLocalDateTime: the reading a series is anchored at.
AnchorOf(due) == due.at

\* The readings a rule produces from its anchor.
Scheduled(rule, anchor) ==
  LET last == IF Count[rule] = 0 THEN Horizon ELSE Count[rule] - 1
  IN {anchor + 2 * k * Every[rule] : k \in 0..last}

\* nextOccurrenceAfter: the first reading strictly after a moment, if any.
NextAfter(rule, anchor, moment) ==
  LET later == {at \in Scheduled(rule, anchor) : at > moment}
  IN IF later = {} THEN NoMoment
     ELSE CHOOSE at \in later : \A at2 \in later : at <= at2

\* A reading as a due of the given kind: a date forgets the time of day.
AsDue(at, timed) ==
  IF at = NoMoment THEN NoDue
  ELSE [at |-> IF timed THEN at ELSE 2 * (at \div 2), timed |-> timed]

Later(a, b) == IF a > b THEN a ELSE b

\* Mutant of SuccessorDue: the moment of closing is forgotten.
SuccessorDueFromDue(row, closedAt) ==
  IF ~row.head \/ row.rule = NoRule THEN NoDue
  ELSE AsDue(NextAfter(row.rule, row.anchor, DueMoment(row.due)), row.due.timed)

\* successorDueOf: only a recurring head has one, and only while its rule
\* lasts.  It is of the head's kind.
SuccessorDue(row, closedAt) ==
  IF ~row.head \/ row.rule = NoRule THEN NoDue
  ELSE AsDue(NextAfter(row.rule, row.anchor, Later(DueMoment(row.due), closedAt)),
             row.due.timed)

\* isOverdue: a condition of an open task, read against a clock.
IsOverdue(row, at) ==
  row.status = "open" /\ row.due # NoDue /\ DueMoment(row.due) <= at

\* needsOverdueReport.
NeedsReport(t, at) ==
  IsOverdue(task[t], at) /\ task[t].reported # DueMoment(task[t].due)

------------------------------------------------------------------------------
(* Rows *)

Blank == [status |-> "unused", due |-> NoDue, rule |-> NoRule,
          anchor |-> NoMoment, series |-> NoTask, pred |-> NoTask, head |-> FALSE,
          reported |-> NoMoment, assignees |-> {}, closedAt |-> NoMoment,
          version |-> 0]

Exists(t)  == task[t].status \notin {"unused", "erased"}
Existing   == {t \in Task : Exists(t)}
IsNext(t)  == /\ task[t].status = "unused"
              /\ \A u \in Task : u < t => task[u].status # "unused"

\* lockVisibleTask: the row is there, and at the version the client expects.
Locked(t, v) == Exists(t) /\ task[t].version = v

\* commit: every change a member makes is a new version.
Commit(row) == [row EXCEPT !.version = @ + 1]

\* The methods of a task: what it is afterwards.
NewTask(t, due, rule, who) ==
  [Blank EXCEPT !.status = "open", !.due = due, !.rule = rule,
     !.anchor = IF rule = NoRule THEN NoMoment ELSE AnchorOf(due),
     !.series = IF rule = NoRule THEN NoTask ELSE t,
     !.head = (rule # NoRule), !.assignees = who, !.version = 1]
SuccessorOf(t, head, due) ==
  [head EXCEPT !.status = "open", !.due = due, !.pred = t, !.head = TRUE,
               !.reported = NoMoment, !.closedAt = NoMoment, !.version = 1]
ClosedAs(row, status, at) == Commit([row EXCEPT !.status = status, !.closedAt = at])
Reopened(row)             == Commit([row EXCEPT !.status = "open", !.closedAt = NoMoment])
Assigned(row, m)          == Commit([row EXCEPT !.assignees = @ \cup {m}])
Unassigned(row, m)        == Commit([row EXCEPT !.assignees = @ \ {m}])
Relinquished(row)         == [row EXCEPT !.head = FALSE]
OverdueReported(row)      == [row EXCEPT !.reported = DueMoment(row.due)]

Put(t, row)    == task' = [task EXCEPT ![t] = row]
Insert(t, row) == IsNext(t) /\ Put(t, row)

\* The head gives up its flag and its successor takes it over.
HandOver(t, head, s, due) ==
  /\ IsNext(s)
  /\ task' = [task EXCEPT ![t] = Relinquished(head), ![s] = SuccessorOf(t, head, due)]

\* A close at the moment its command has read: of a head whose rule goes on,
\* with its successor.
CloseAs(t, status, spawn, at) ==
  LET closed == ClosedAs(task[t], status, at)
      due    == IF spawn THEN SuccessorDue(closed, at) ELSE NoDue
  IN IF due = NoDue THEN Put(t, closed)
     ELSE \E s \in Task : HandOver(t, closed, s, due)

\* A task is created at version 1; every later version is a change.
Changes == {c \in Task \X (1 .. MaxVersion) : c[2] < task[c[1]].version}

Editable(t) == task[t].version < MaxVersion /\ Cardinality(Changes) < MaxChanges

------------------------------------------------------------------------------
Init ==
  /\ task       = [t \in Task |-> Blank]
  /\ now        = 0
  /\ announced  = [t \in Task |-> <<>>]
  /\ candidates = [p \in Sweeper |-> {}]
  /\ erasing    = {}
  /\ gone       = {}
  /\ stopped    = {}

TimePasses ==
  /\ now' \in {at \in Moments : at > now}
  /\ UNCHANGED <<task, announced, candidates, erasing, gone, stopped>>

\* What a clock read earlier, or just now, may have shown.
ClockReadings == {at \in Moments : at <= now}

Created == {t \in Task : task[t].status # "unused" /\ task[t].pred = NoTask}

(* createTask: a task that recurs starts a series of its own. *)
Create(t, due, rule) ==
  /\ Cardinality(Created) < MaxCreated
  /\ rule # NoRule => due # NoDue
  /\ \E who \in SUBSET Member : Insert(t, NewTask(t, due, rule, who))
  /\ UNCHANGED <<now, announced, candidates, erasing, gone, stopped>>

\* Mutant of WithRule: any instance may define the series.
WithRuleAnywhere(t, due, rule) ==
  IF rule = task[t].rule THEN {[task[t] EXCEPT !.due = due]}
  ELSE IF rule = NoRule
       THEN {[task[t] EXCEPT !.due = due, !.rule = NoRule, !.anchor = NoMoment,
                             !.head = FALSE]}
       ELSE {[task[t] EXCEPT !.due = due, !.rule = rule, !.anchor = AnchorOf(due),
                !.series = IF @ = NoTask THEN t ELSE @, !.head = TRUE]}

\* The row with a new due and rule, as a set: empty when the edit is refused.
\* Only a head, or a task of no series, may change its rule; a task that loses
\* its rule is not a head any more, but stays in its series.
WithRule(t, due, rule) ==
  IF rule = task[t].rule THEN {[task[t] EXCEPT !.due = due]}
  ELSE IF task[t].series # NoTask /\ ~task[t].head THEN {}
  ELSE IF rule = NoRule
       THEN {[task[t] EXCEPT !.due = due, !.rule = NoRule, !.anchor = NoMoment,
                             !.head = FALSE]}
       ELSE {[task[t] EXCEPT !.due = due, !.rule = rule, !.anchor = AnchorOf(due),
                !.series = IF @ = NoTask THEN t ELSE @, !.head = TRUE]}

\* Task.update: only open tasks are edited, and one that recurs keeps a due.
Edited(t, due, rule) ==
  {Commit(row) : row \in {row \in WithRule(t, due, rule) :
     row.status = "open" /\ (row.rule # NoRule => row.due # NoDue)}}

(* updateTask, and its no-op: an edit that changes nothing saves nothing.  *)
(* An edit of the details alone is a new version of the same row.          *)
Update(t, v, due, rule) ==
  /\ Locked(t, v)
  /\ Editable(t)
  /\ \E row \in Edited(t, due, rule) : Put(t, row)
  /\ UNCHANGED <<now, announced, candidates, erasing, gone, stopped>>

Complete(t, v, at) ==
  /\ Locked(t, v)
  /\ Editable(t)
  /\ task[t].status = "open"
  /\ CloseAs(t, "completed", TRUE, at)
  /\ UNCHANGED <<now, announced, candidates, erasing, gone, stopped>>

(* Mutant of Cancel: an instance that is skipped has no successor. *)
CancelSpawningNothing(t, v, scope, at) ==
  /\ Locked(t, v)
  /\ Editable(t)
  /\ task[t].status = "open"
  /\ CloseAs(t, "cancelled", FALSE, at)
  /\ stopped' = IF scope = "series" THEN stopped \cup {t} ELSE stopped
  /\ UNCHANGED <<now, announced, candidates, erasing, gone>>

(* cancelTask: this instance, or the series with it. *)
Cancel(t, v, scope, at) ==
  /\ Locked(t, v)
  /\ Editable(t)
  /\ task[t].status = "open"
  /\ CloseAs(t, "cancelled", scope = "instance", at)
  /\ stopped' = IF scope = "series" THEN stopped \cup {t} ELSE stopped
  /\ UNCHANGED <<now, announced, candidates, erasing, gone>>

(* Mutant of Reopen: the instance defines its series again. *)
ReopenAsHead(t, v) ==
  /\ Locked(t, v)
  /\ Editable(t)
  /\ task[t].status = "completed"
  /\ Put(t, [Reopened(task[t]) EXCEPT !.head = (task[t].rule # NoRule)])
  /\ UNCHANGED <<now, announced, candidates, erasing, gone, stopped>>

(* reopenTask: never a head again if it was not one. *)
Reopen(t, v) ==
  /\ Locked(t, v)
  /\ Editable(t)
  /\ task[t].status = "completed"
  /\ Put(t, Reopened(task[t]))
  /\ UNCHANGED <<now, announced, candidates, erasing, gone, stopped>>

(* assignTask and unassignTask expect no version. *)
Assign(t, m) ==
  /\ Exists(t)
  /\ Editable(t)
  /\ task[t].status = "open"
  /\ m \notin task[t].assignees
  /\ Put(t, Assigned(task[t], m))
  /\ UNCHANGED <<now, announced, candidates, erasing, gone, stopped>>

(* Mutant of Unassign: the version stays. *)
UnassignQuietly(t, m) ==
  /\ Exists(t)
  /\ Editable(t)
  /\ task[t].status = "open"
  /\ m \in task[t].assignees
  /\ Put(t, [task[t] EXCEPT !.assignees = @ \ {m}])
  /\ UNCHANGED <<now, announced, candidates, erasing, gone, stopped>>

Unassign(t, m) ==
  /\ Exists(t)
  /\ Editable(t)
  /\ task[t].status = "open"
  /\ m \in task[t].assignees
  /\ Put(t, Unassigned(task[t], m))
  /\ UNCHANGED <<now, announced, candidates, erasing, gone, stopped>>

\* Nothing is left of a deleted row, but that the changes to it were made.
Erased(row) == [Blank EXCEPT !.status = "erased", !.version = row.version]

(* eraseTasksForFamily: one DELETE.  It deletes the rows its snapshot shows, *)
(* waiting for the commands that hold them; a row inserted meanwhile stays,  *)
(* and forgets a predecessor that went.                                      *)
EraseBegin ==
  /\ erasing = {}
  /\ Existing # {}
  /\ erasing' = Existing
  /\ UNCHANGED <<task, now, announced, candidates, gone, stopped>>

EraseEnd ==
  /\ erasing # {}
  /\ task' = [t \in Task |->
       IF t \in erasing THEN Erased(task[t])
       ELSE IF task[t].pred \in erasing THEN [task[t] EXCEPT !.pred = NoTask]
       ELSE task[t]]
  /\ erasing' = {}
  /\ UNCHANGED <<now, announced, candidates, gone, stopped>>

(* eraseTasksForMember: the assignments of a member go; no version changes. *)
EraseMember(m) ==
  /\ \E t \in Existing : m \in task[t].assignees
  /\ task' = [t \in Task |-> [task[t] EXCEPT !.assignees = @ \ {m}]]
  /\ gone' = gone \cup {m}
  /\ UNCHANGED <<now, announced, candidates, erasing, stopped>>

------------------------------------------------------------------------------
(* The overdue sweep *)

(* findTasksNeedingOverdueReport: a pass starts. *)
Discover(p) ==
  /\ candidates[p] = {}
  /\ \E t \in Task : NeedsReport(t, now)
  /\ candidates' = [candidates EXCEPT ![p] = {t \in Task : NeedsReport(t, now)}]
  /\ UNCHANGED <<task, now, announced, erasing, gone, stopped>>

(* Mutant of Report: what was discovered is announced. *)
ReportUnchecked(p, t, at) ==
  /\ t \in candidates[p]
  /\ candidates' = [candidates EXCEPT ![p] = @ \ {t}]
  /\ IF Exists(t) /\ task[t].due # NoDue
     THEN /\ Put(t, OverdueReported(task[t]))
          /\ announced' = [announced EXCEPT ![t] = Append(@, DueMoment(task[t].due))]
     ELSE UNCHANGED <<task, announced>>
  /\ UNCHANGED <<now, erasing, gone, stopped>>

(* reportOverdue: the predicate is checked again under the row lock, for    *)
(* the moment read before it; marker and event commit together.            *)
Report(p, t, at) ==
  /\ t \in candidates[p]
  /\ candidates' = [candidates EXCEPT ![p] = @ \ {t}]
  /\ IF NeedsReport(t, at)
     THEN /\ Put(t, OverdueReported(task[t]))
          /\ announced' = [announced EXCEPT ![t] = Append(@, DueMoment(task[t].due))]
     ELSE UNCHANGED <<task, announced>>
  /\ UNCHANGED <<now, erasing, gone, stopped>>

(* Mutant of ReportLost: the marker is saved although the event is not. *)
ReportLostMarked(p, S) ==
  /\ S # {}
  /\ S \subseteq candidates[p]
  /\ candidates' = [candidates EXCEPT ![p] = @ \ S]
  /\ task' = [t \in Task |-> IF t \in S /\ NeedsReport(t, now) THEN OverdueReported(task[t])
                                                          ELSE task[t]]
  /\ UNCHANGED <<now, announced, erasing, gone, stopped>>

(* One task fails and the pass goes on, or the process dies with the pass. *)
ReportLost(p, S) ==
  /\ S # {}
  /\ S \subseteq candidates[p]
  /\ candidates' = [candidates EXCEPT ![p] = @ \ S]
  /\ UNCHANGED <<task, now, announced, erasing, gone, stopped>>

------------------------------------------------------------------------------
Dues  == DueInput \cup {NoDue}
Rules == Rule \cup {NoRule}

MemberStep(t) ==
  \/ \E due \in Dues, rule \in Rules : Create(t, due, rule)
  \/ \E v \in 1..MaxVersion :
       \/ \E due \in Dues \cup {task[t].due}, rule \in Rules :
            Update(t, v, due, rule)
       \/ \E at \in ClockReadings :
            \/ Complete(t, v, at)
            \/ \E scope \in {"instance", "series"} : Cancel(t, v, scope, at)
       \/ Reopen(t, v)
  \/ \E m \in Member : Assign(t, m) \/ Unassign(t, m)

SweepStep(p) ==
  \/ Discover(p)
  \/ \E t \in Task, at \in ClockReadings : Report(p, t, at)
  \/ \E S \in SUBSET candidates[p] : ReportLost(p, S)

Next ==
  \/ TimePasses \/ EraseBegin \/ EraseEnd
  \/ \E m \in Member : EraseMember(m)
  \/ \E t \in Task : MemberStep(t)
  \/ \E p \in Sweeper : SweepStep(p)

\* The sweeps tick, and not every attempt to report a task fails or goes by a
\* moment that has passed, whichever process makes it.
Fairness ==
  /\ \A p \in Sweeper : WF_vars(Discover(p))
  /\ \A t \in Task : SF_vars(\E p \in Sweeper : Report(p, t, now))

Spec == Init /\ [][Next]_vars /\ Fairness

------------------------------------------------------------------------------
(* Properties *)

TaskRows == [status : Status, due : [at : Nat, timed : BOOLEAN], rule : Rules, anchor : Nat,
             series : Task \cup {NoTask}, pred : Task \cup {NoTask}, head : BOOLEAN,
             reported : Nat, assignees : SUBSET Member, closedAt : Nat,
             version : 0..MaxVersion]

(* The table's CHECKs: a task that recurs has a due, an anchor and a series,  *)
(* and a head recurs.                                                        *)
IsSound(row) ==
  /\ row.due = NoDue \/ IsDue(row.due)
  /\ row.rule # NoRule => row.due # NoDue /\ row.anchor # NoMoment /\ row.series # NoTask
  /\ row.head => row.rule # NoRule

TypeOK ==
  /\ task \in [Task -> TaskRows]
  /\ \A t \in Task : IsSound(task[t])
  /\ now \in Moments
  /\ announced \in [Task -> Seq(Nat)]
  /\ candidates \in [Sweeper -> SUBSET Task]
  /\ erasing \subseteq Task /\ gone \subseteq Member /\ stopped \subseteq Task

SameSeries(t, u) == task[t].series = task[u].series /\ task[t].series # NoTask

(* FR-019: one head per series, and it is the newest instance, whatever is   *)
(* reopened, re-dated or given another rule (task.aggregate.ts:362, 394).    *)
OneNewestHead ==
  \A t, u \in Existing :
    task[t].head /\ SameSeries(t, u) /\ t # u => ~task[u].head /\ u < t

(* FR-022: at most one successor per instance, across reopen-and-recomplete  *)
(* (close-task.command.ts:34).                                               *)
OneSuccessor ==
  \A t, u \in Existing :
    task[t].pred = task[u].pred /\ task[t].pred # NoTask => t = u

(* FR-020, FR-023: no instance is closed without its successor unless it is  *)
(* the head, and stopped with its series or at the end of its rule: an       *)
(* instance that is only skipped hands over (close-task.command.ts:29, 149). *)
NoGap ==
  \A t \in Existing :
    LET row == task[t] IN
    row.status \in Closed /\ row.rule # NoRule =>
      \/ \E u \in Existing : task[u].pred = t
      \/ /\ row.head
         /\ t \in stopped \/ SuccessorDue(row, row.closedAt) = NoDue

(* FR-021: a successor is due after its predecessor was due and after the    *)
(* moment it was closed at, by the clock the command read: dates missed      *)
(* before a late close are not created (successor.ts:13-16, 37).             *)
SuccessorStartsAhead ==
  [][\A t \in Task :
       ~Exists(t) /\ Exists(t)' /\ task'[t].pred # NoTask =>
         LET head == task'[task'[t].pred]
         IN DueMoment(task'[t].due) > Later(DueMoment(head.due), head.closedAt)]_vars

(* FR-011: a version names one state of a task, so a client whose expected   *)
(* version is still current changes the row it read.  The overdue marker and *)
(* the traces of erased rows change without one (task.aggregate.ts:129).     *)
Read(row) == [row EXCEPT !.reported = NoMoment, !.pred = NoTask,
                         !.assignees = @ \ gone]

VersionNamesState ==
  [][\A t \in Task : Exists(t) /\ Exists(t)' =>
       \/ task'[t].version > task[t].version
       \/ /\ task'[t].version = task[t].version
          /\ Read(task[t])' = [Read(task[t]) EXCEPT !.assignees = @ \ gone']
          /\ task'[t].pred \in {task[t].pred, NoTask}]_vars

(* FR-027: the same due moment is not announced again by a re-run or by a    *)
(* second sweep with the same discovery (report-overdue.command.ts:26).      *)
NotAnnouncedAgain ==
  \A t \in Task : \A i \in 1..(Len(announced[t]) - 1) :
    announced[t][i] # announced[t][i + 1]

LastAnnounced(t) ==
  IF announced[t] = <<>> THEN NoMoment ELSE announced[t][Len(announced[t])]

Owed(t) ==
  /\ task[t].status = "open"
  /\ task[t].due # NoDue
  /\ DueMoment(task[t].due) <= now
  /\ LastAnnounced(t) # DueMoment(task[t].due)

(* FR-026: a due moment that passes while its task is open is announced,     *)
(* unless the task is closed, re-dated or erased first.                      *)
EveryMissIsAnnounced == \A t \in Task : Owed(t) ~> ~Owed(t)
==============================================================================
