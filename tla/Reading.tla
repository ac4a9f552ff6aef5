-------------------------------- MODULE Reading --------------------------------
(***************************************************************************)
(* What a member reads of tasks, events and children (packages/core: the   *)
(* queries of tasks, calendar and family) while other members change them: *)
(* lists page by page, ranges, single records, each filtered by whom the   *)
(* reader is a guardian of, and the audit rows that are written with it.   *)
(*                                                                         *)
(* A reader's visibility is resolved in a transaction of its own.  A page  *)
(* of tasks is read by two statements of a READ COMMITTED transaction, the *)
(* ids first and the rows after; a range of events by one statement.       *)
(***************************************************************************)
EXTENDS Integers, FiniteSets

CONSTANTS
  Task,        \* task ids, in their order
  Event,       \* calendar_event ids
  Child,       \* the members whose records need a guardian
  Due,         \* due moments, the greatest for a task without a due date
  PageSize,    \* the limit of a page
  MaxChanges   \* bound: changes made while the reader reads

OwnRecord == 0   \* a child's family_member row, next to tasks and events
NoTask    == 0   \* no task follows the page

ASSUME IdAssumption ==
  /\ Task \subseteq Nat \ {OwnRecord} /\ Event \subseteq Nat \ {OwnRecord}
  /\ Task \cap Event = {} /\ Due \subseteq Nat
ASSUME BoundAssumption == PageSize \in Nat \ {0} /\ MaxChanges \in Nat

VARIABLES
  task,      \* task, with task_assignment
  parties,   \* event_participant: the children of each event
  guarded,   \* children the reader holds an active guardianship for
  request,   \* where the reader's request is
  walk,      \* the list the reader goes through page by page
  changes    \* changes so far, which bound the moments of closures

vars == <<task, parties, guarded, request, walk, changes>>

------------------------------------------------------------------------------
Absent  == [status |-> "absent", due |-> 0, closed |-> 0, names |-> {}]
Present == {t \in Task : task[t].status # "absent"}
IsOpen(t)   == task[t].status = "open"
IsClosed(t) == task[t].status \in {"completed", "cancelled"}

\* A child shown with, or named in an audit row about, a thing.
Shown(things, names) == UNION {{x} \X names[x] : x \in things}
Assignees    == [t \in Task |-> task[t].names]
Participants == parties
Rows(result, pairs) == {[about |-> x, result |-> result] : x \in pairs}

\* The order of a list, earliest due first or latest closed first.
OnList(list, t) == IF list = "open" THEN IsOpen(t) ELSE IsClosed(t)
Position(list, t) ==
  IF list = "open" THEN <<task[t].due, t>> ELSE <<-task[t].closed, -t>>
Precedes(a, b) == a[1] < b[1] \/ (a[1] = b[1] /\ a[2] < b[2])
First == <<-MaxChanges - 1, 0>>   \* no cursor

\* Mutant of Past: the tie-break on the id is left out of the keyset.
PastMoment(cursor, position) == cursor[1] < position[1]

Past(cursor, position) == Precedes(cursor, position)

\* Mutant of Matching: visibility is left to what is done with the rows.
MatchingUnfiltered(list, visible, cursor) ==
  {t \in Task : OnList(list, t) /\ Past(cursor, Position(list, t))}

\* listOpen and listClosed: past the cursor, every assignee visible.
Matching(list, visible, cursor) ==
  {t \in Task : /\ OnList(list, t) /\ Past(cursor, Position(list, t))
                /\ task[t].names \subseteq visible}

\* The rows a page has room for, and the last of them.
IsPage(items, list, all) ==
  /\ \A t \in items, u \in all \ items :
       Precedes(Position(list, t), Position(list, u))
  /\ \/ Cardinality(items) = PageSize
     \/ items = all /\ Cardinality(items) < PageSize
IsLast(t, items, list) ==
  \A u \in items \ {t} : Precedes(Position(list, u), Position(list, t))

\* listVisibleInRange and listHiddenParticipationsInRange: an event with one
\* hidden participant is not in the answer; who is hidden is told to the audit.
VisibleInRange(visible) == {e \in Event : parties[e] \subseteq visible}
HiddenInRange(visible)  == {x \in Shown(Event, Participants) : x[2] \notin visible}

\* auditPage: one row for each task shown with children the reader guards.
AuditPage(items, visible) ==
  Rows("granted", {x \in Shown(items, Assignees) : x[2] \in visible})

------------------------------------------------------------------------------
Idle   == [phase |-> "idle"]
NoPage == [items |-> {}, next |-> First, torn |-> FALSE, ofWalk |-> FALSE]
NoWalk == [list |-> "none", after |-> First, seen |-> [t \in Task |-> 0],
           steady |-> {}, slipped |-> FALSE, over |-> TRUE]

Init ==
  /\ task    = [t \in Task |-> Absent]
  /\ parties = [e \in Event |-> {}]
  /\ guarded \in SUBSET Child
  /\ request = Idle
  /\ walk    = NoWalk
  /\ changes = 0

Answering(visible, shown, rows, moved, page) ==
  [phase |-> "answering", visible |-> visible, shown |-> shown, rows |-> rows,
   moved |-> moved, page |-> page]

\* A client opens a list; what stays as it is until the last page is steady.
OpenList(list) ==
  /\ walk.over /\ request = Idle
  /\ walk' = [NoWalk EXCEPT !.list = list, !.over = FALSE,
                !.steady = {t \in Task : OnList(list, t) /\ task[t].names \subseteq guarded}]
  /\ UNCHANGED <<task, parties, guarded, request, changes>>

\* resolveVisibleMemberIds, before the reading transaction opens.
Resolve ==
  /\ request = Idle
  /\ request' = [phase |-> "resolved", visible |-> guarded]
  /\ UNCHANGED <<task, parties, guarded, walk, changes>>

\* One id more than the page holds is asked for, to know whether another page
\* follows: last is then the row that page starts after.
SelectPage(list) ==
  /\ request.phase = "resolved" /\ ~walk.over /\ walk.list = list
  /\ LET all == Matching(list, request.visible, walk.after)
     IN \E items \in SUBSET all, last \in Task \cup {NoTask} :
          /\ IsPage(items, list, all)
          /\ IF items = all THEN last = NoTask
                            ELSE last \in items /\ IsLast(last, items, list)
          /\ request' = [phase |-> "selected", visible |-> request.visible,
                         items |-> items, last |-> last, moved |-> {}]
  /\ UNCHANGED <<task, parties, guarded, walk, changes>>

ListOpenTasks   == SelectPage("open")
ListTaskHistory == SelectPage("closed")

\* loadInOrder, the page and its cursor, and auditPage: the rows as they are
\* now.  A cursor of the history cannot be made of a task that is open.
LoadPage ==
  /\ request.phase = "selected"
  /\ LET last    == request.last
         more    == last # NoTask
         visible == request.visible
     IN IF more /\ walk.list = "closed" /\ IsOpen(last)
          THEN request' = Idle
          ELSE request' = Answering(visible, Shown(request.items, Assignees),
                 AuditPage(request.items, visible), request.moved,
                 [items  |-> request.items, ofWalk |-> TRUE,
                  next   |-> IF more THEN Position(walk.list, last) ELSE First,
                  torn   |-> last \in request.moved])
  /\ UNCHANGED <<task, parties, guarded, walk, changes>>

\* listOccurrences: the visible events by one statement, the hidden by another.
ReadRange ==
  /\ request.phase = "resolved"
  /\ LET visible == request.visible
         pairs   == Shown(VisibleInRange(visible), Participants)
     IN request' = [Answering(visible, pairs, Rows("granted", pairs), {}, NoPage)
                      EXCEPT !.phase = "ranged"]
  /\ UNCHANGED <<task, parties, guarded, walk, changes>>

LookUpHidden ==
  /\ request.phase = "ranged"
  /\ request' = [request EXCEPT !.phase = "answering",
                    !.rows = @ \cup Rows("denied", HiddenInRange(request.visible))]
  /\ UNCHANGED <<task, parties, guarded, walk, changes>>

\* getTask and getEvent: the names the row came with decide.
Detail(x, names) ==
  LET pairs  == {x} \X names
      hidden == {p \in pairs : p[2] \notin request.visible}
  IN IF hidden = {}
       THEN Answering(request.visible, pairs, Rows("granted", pairs), {}, NoPage)
       ELSE Answering(request.visible, {}, Rows("denied", hidden), {}, NoPage)

GetTask(t) ==
  /\ request.phase = "resolved" /\ t \in Present
  /\ request' = Detail(t, task[t].names)
  /\ UNCHANGED <<task, parties, guarded, walk, changes>>

GetEvent(e) ==
  /\ request.phase = "resolved"
  /\ request' = Detail(e, parties[e])
  /\ UNCHANGED <<task, parties, guarded, walk, changes>>

\* readMember looks the guardianship up in the transaction that reads the child;
\* of a child who has been removed it tells, and records, nothing.
ReadMember(c) ==
  /\ request = Idle
  /\ LET pair == {<<OwnRecord, c>>}
     IN \/ request' = IF c \in guarded
             THEN Answering(guarded, pair, Rows("granted", pair), {}, NoPage)
             ELSE Answering(guarded, {}, Rows("denied", pair), {}, NoPage)
        \/ request' = Answering(guarded, {}, {}, {}, NoPage)
  /\ UNCHANGED <<task, parties, guarded, walk, changes>>

\* The audit rows commit and the answer goes out.
Answer ==
  /\ request.phase = "answering"
  /\ LET page == request.page
     IN walk' = IF ~page.ofWalk THEN walk
          ELSE [walk EXCEPT !.after   = page.next,
                            !.seen    = [t \in Task |-> IF t \in page.items /\ @[t] < 2
                                                          THEN @[t] + 1 ELSE @[t]],
                            !.slipped = @ \/ page.torn,
                            !.over    = page.next = First]
  /\ request' = Idle
  /\ UNCHANGED <<task, parties, guarded, changes>>

\* The transaction fails and takes its audit rows with it.
Fail ==
  /\ request # Idle /\ request' = Idle
  /\ UNCHANGED <<task, parties, guarded, walk, changes>>

------------------------------------------------------------------------------
(* What other members do meanwhile, seen from the tables (TaskSeries and     *)
(* Calendar have the whole of it).                                          *)

Changes == changes < MaxChanges /\ changes' = changes + 1
Moved(x) ==
  request' = IF request.phase = "selected" THEN [request EXCEPT !.moved = @ \cup {x}]
                                           ELSE request
ChangeTask(t, row) ==
  /\ Changes /\ Moved(t)
  /\ task' = [task EXCEPT ![t] = row]
  /\ walk' = [walk EXCEPT !.steady = @ \ {t}]
  /\ UNCHANGED <<parties, guarded>>

Create(t, due, names) ==
  /\ t \notin Present
  /\ ChangeTask(t, [status |-> "open", due |-> due, closed |-> 0, names |-> names])
Redate(t, due) ==
  /\ IsOpen(t) /\ due # task[t].due
  /\ ChangeTask(t, [task[t] EXCEPT !.due = due])
Assign(t, c) ==
  /\ IsOpen(t) /\ c \notin task[t].names
  /\ ChangeTask(t, [task[t] EXCEPT !.names = @ \cup {c}])
Unassign(t, c) ==
  /\ IsOpen(t) /\ c \in task[t].names
  /\ ChangeTask(t, [task[t] EXCEPT !.names = @ \ {c}])
\* The moment of a closure is read before the row is locked: it may be that of
\* another closure, or lie before it.
Close(t, status) ==
  /\ IsOpen(t)
  /\ \E moment \in 1 .. changes + 1 :
       ChangeTask(t, [task[t] EXCEPT !.status = status, !.closed = moment])
Reopen(t) ==
  /\ task[t].status = "completed"
  /\ ChangeTask(t, [task[t] EXCEPT !.status = "open", !.closed = 0])

ReplaceParticipants(e, names) ==
  /\ Changes /\ parties[e] # names
  /\ parties' = [parties EXCEPT ![e] = names]
  /\ UNCHANGED <<task, guarded, request, walk>>

\* A guardianship of the reader's is granted or ends.
GuardianshipChanges(c) ==
  /\ Changes
  /\ guarded' = IF c \in guarded THEN guarded \ {c} ELSE guarded \cup {c}
  /\ walk' = [walk EXCEPT !.steady = {t \in @ : c \notin task[t].names}]
  /\ UNCHANGED <<task, parties, request>>

Reads ==
  \/ OpenList("open") \/ OpenList("closed")
  \/ Resolve \/ ListOpenTasks \/ ListTaskHistory \/ LoadPage \/ ReadRange \/ LookUpHidden \/ Answer
  \/ \E t \in Task : GetTask(t)
  \/ \E e \in Event : GetEvent(e)
  \/ \E c \in Child : ReadMember(c)

OthersWrite ==
  \/ \E t \in Task :
       \/ \E due \in Due, names \in SUBSET Child : Create(t, due, names)
       \/ \E due \in Due : Redate(t, due)
       \/ \E c \in Child : Assign(t, c) \/ Unassign(t, c)
       \/ Close(t, "completed") \/ Close(t, "cancelled") \/ Reopen(t)
  \/ \E e \in Event, names \in SUBSET Child : ReplaceParticipants(e, names)
  \/ \E c \in Child : GuardianshipChanges(c)

Next == Reads \/ Fail \/ OthersWrite

Spec == Init /\ [][Next]_vars

------------------------------------------------------------------------------
\* Types; a closed task has its moment, and only a closed one.
TaskRows == [status : {"absent", "open", "completed", "cancelled"},
             due : Nat, closed : 0 .. MaxChanges, names : SUBSET Child]
Walks    == [list : {"none", "open", "closed"}, after : Int \X Int,
             seen : [Task -> 0 .. 2], steady : SUBSET Task,
             slipped : BOOLEAN, over : BOOLEAN]

Pages    == [items : SUBSET Task, next : Int \X Int, torn : BOOLEAN, ofWalk : BOOLEAN]
Pairs    == (Task \cup Event \cup {OwnRecord}) \X Child
Resolved == [phase : {"resolved"}, visible : SUBSET Child]
Selected == [phase : {"selected"}, visible : SUBSET Child, items : SUBSET Task,
             last : Task \cup {NoTask}, moved : SUBSET Task]
Answered == [phase : {"ranged", "answering"}, visible : SUBSET Child,
             shown : SUBSET Pairs, moved : SUBSET Task, page : Pages,
             rows : SUBSET [about : Pairs, result : {"granted", "denied"}]]

TypeOK ==
  /\ task \in [Task -> TaskRows] /\ changes \in 0 .. MaxChanges
  /\ \A t \in Task : IsClosed(t) <=> task[t].closed > 0
  /\ parties \in [Event -> SUBSET Child] /\ guarded \subseteq Child
  /\ request \in {Idle} \cup Resolved \cup Selected \cup Answered
  /\ walk \in Walks

\* FR-014, FR-016 and FR-015, FR-017: an answer names only children its reader
\* guarded when the request came in, each with the audit row that grants it and
\* none granted beside them; but a task that changed between the two statements
\* of a page is answered as it has become (listOpen filters, loadInOrder does
\* not).
ShownAsAudited ==
  request.phase = "answering" =>
    LET granted == {r.about : r \in {a \in request.rows : a.result = "granted"}}
    IN /\ granted \subseteq request.shown
       /\ \A x \in request.shown \ granted : x[1] \in request.moved
       /\ \A x \in granted : x[2] \in request.visible

\* FR-005, FR-006: whoever goes through a list page by page meets every task
\* that stays on it, and stays in its place and in sight, exactly once, whatever
\* is added, closed or re-dated around it; but the cursor is taken from the last
\* row as it was loaded, and a row that changed since it was selected may carry
\* it elsewhere.
PagesMissNothing ==
  \A t \in walk.steady :
    ~walk.slipped => IF walk.over THEN walk.seen[t] = 1 ELSE walk.seen[t] <= 1
==============================================================================
