---------------------------- MODULE ReadingProofs ----------------------------
(***************************************************************************)
(* Proofs about Reading, for every set of tasks, events and children, each *)
(* page size and every number of changes under way: types, answers that    *)
(* show no more than they record, and walks over the pages that meet every *)
(* steady task once.                                                       *)
(***************************************************************************)
EXTENDS TLAPS, Reading

\* a is b, or comes before it.
NotAfter(a, b) == a = b \/ Precedes(a, b)

\* The reader has not come to t yet.
Beyond(t) == Past(walk.after, Position(walk.list, t))

\* What is steady is on the list, and in sight of the reader and of the request
\* under way.
SteadyFine ==
  \A t \in walk.steady :
    /\ OnList(walk.list, t)
    /\ task[t].names \subseteq guarded
    /\ request # Idle => task[t].names \subseteq request.visible

\* What lies behind the cursor was met once, what lies ahead not at all.
SeenFine ==
  ~walk.slipped => \A t \in walk.steady :
    walk.seen[t] = (IF ~walk.over /\ Beyond(t) THEN 0 ELSE 1)

\* A page, whose cursor will be next, takes up what lies ahead of the reader
\* without a gap.
TakesUp(items, next) ==
  /\ next = First \/ Precedes(walk.after, next)
  /\ \A t \in walk.steady :
       /\ t \in items =>
            /\ Beyond(t)
            /\ next = First \/ NotAfter(Position(walk.list, t), next)
       /\ Beyond(t) /\ t \notin items =>
            next # First /\ Precedes(next, Position(walk.list, t))

Cursor == IF request.last = NoTask THEN First
                                   ELSE Position(walk.list, request.last)

SelectedFine ==
  request.phase = "selected" =>
    /\ ~walk.over
    /\ \A t \in request.items \ request.moved : task[t].names \subseteq request.visible
    /\ request.last \notin request.moved => TakesUp(request.items, Cursor)

AnsweringFine ==
  request.phase \in {"ranged", "answering"} /\ request.page.ofWalk =>
    /\ request.phase = "answering"
    /\ ~walk.over
    /\ ~request.page.torn => TakesUp(request.page.items, request.page.next)

GrantedIn(rows) == {r.about : r \in {a \in rows : a.result = "granted"}}
Granted == GrantedIn(request.rows)

\* What ShownAsAudited says, from the first of two statements on.
AuditFine ==
  request.phase \in {"ranged", "answering"} =>
    /\ Granted \subseteq request.shown
    /\ \A x \in request.shown \ Granted : x[1] \in request.moved
    /\ \A x \in Granted : x[2] \in request.visible

IInv == TypeOK /\ SteadyFine /\ SeenFine /\ SelectedFine /\ AnsweringFine /\ AuditFine

------------------------------------------------------------------------------
LEMMA PositionType ==
  ASSUME TypeOK, NEW t \in Task, NEW list
  PROVE  /\ Position(list, t) \in Int \X Int
         /\ Precedes(First, Position(list, t))
         /\ Position(list, t) # First
<1>1. task[t] \in TaskRows
  BY DEF TypeOK
<1>2. t \in Int /\ task[t].due \in Nat /\ task[t].closed \in 0 .. MaxChanges
  BY <1>1, IdAssumption DEF TaskRows
<1>. QED BY <1>2, BoundAssumption DEF Position, Precedes, First

LEMMA FirstType == First \in Int \X Int
BY BoundAssumption DEF First

LEMMA PrecedesOrders ==
  /\ \A a, b \in Int \X Int : Precedes(a, b) => a # b /\ ~Precedes(b, a)
  /\ \A a, b, c \in Int \X Int : Precedes(a, b) /\ Precedes(b, c) => Precedes(a, c)
  /\ \A a, b \in Int \X Int : a = b \/ Precedes(a, b) \/ Precedes(b, a)
BY DEF Precedes

LEMMA ShownPairs ==
  ASSUME NEW things, NEW names, NEW x \in Shown(things, names)
  PROVE  x[1] \in things /\ x[2] \in names[x[1]]
BY DEF Shown

LEMMA GrantedRows ==
  ASSUME NEW pairs, NEW rows
  PROVE  /\ GrantedIn(Rows("granted", pairs)) = pairs
         /\ GrantedIn(Rows("denied", pairs)) = {}
         /\ GrantedIn(rows \cup Rows("denied", pairs)) = GrantedIn(rows)
<1>1. \A r \in Rows("denied", pairs) : r.result # "granted"
  BY DEF Rows
<1>2. \A r \in Rows("granted", pairs) : r.result = "granted" /\ r.about \in pairs
  BY DEF Rows
<1>3. \A x \in pairs : \E r \in Rows("granted", pairs) : r.about = x
  <2>. SUFFICES ASSUME NEW x \in pairs
                PROVE  \E r \in Rows("granted", pairs) : r.about = x
    OBVIOUS
  <2>. DEFINE r == [about |-> x, result |-> "granted"]
  <2>1. r \in Rows("granted", pairs) /\ r.about = x
    BY DEF Rows
  <2>. QED BY <2>1
<1>4. GrantedIn(Rows("granted", pairs)) = pairs
  BY <1>2, <1>3 DEF GrantedIn
<1>. QED BY <1>1, <1>4 DEF GrantedIn

\* Steps that change the reader's request only.
OnlyRequest == UNCHANGED <<task, parties, guarded, walk, changes>>

LEMMA RequestStep ==
  ASSUME IInv, OnlyRequest,
         request' \in {Idle} \cup Resolved \cup Selected \cup Answered,
         request' # Idle => \A t \in walk.steady : task[t].names \subseteq request'.visible,
         SelectedFine', AnsweringFine', AuditFine'
  PROVE  IInv'
<1>1. TypeOK'
  BY DEF IInv, TypeOK, OnlyRequest, IsClosed
<1>2. SteadyFine'
  BY DEF IInv, SteadyFine, OnlyRequest, OnList, IsOpen, IsClosed
<1>3. SeenFine'
  BY DEF IInv, SeenFine, OnlyRequest, Beyond, Past, Position, Precedes
<1>. QED BY <1>1, <1>2, <1>3 DEF IInv

LEMMA FailStep == IInv /\ Fail => IInv'
<1>. SUFFICES ASSUME IInv, Fail PROVE IInv'
  OBVIOUS
<1>1. OnlyRequest /\ request' = Idle /\ request'.phase = "idle"
  BY DEF Fail, OnlyRequest, Idle
<1>2. SelectedFine' /\ AnsweringFine' /\ AuditFine'
  BY <1>1 DEF SelectedFine, AnsweringFine, AuditFine
<1>. QED BY <1>1, <1>2, RequestStep

LEMMA ResolveStep == IInv /\ Resolve => IInv'
<1>. SUFFICES ASSUME IInv, Resolve PROVE IInv'
  OBVIOUS
<1>1. /\ OnlyRequest
      /\ request' = [phase |-> "resolved", visible |-> guarded]
      /\ request'.phase = "resolved" /\ request'.visible = guarded
  BY DEF Resolve, OnlyRequest
<1>2. request' \in Resolved
  BY <1>1 DEF IInv, TypeOK, Resolved
<1>3. SelectedFine' /\ AnsweringFine' /\ AuditFine'
  BY <1>1 DEF SelectedFine, AnsweringFine, AuditFine
<1>4. \A t \in walk.steady : task[t].names \subseteq guarded
  BY DEF IInv, SteadyFine
<1>. QED BY <1>1, <1>2, <1>3, <1>4, RequestStep

\* What the phase of a request says of its fields.
LEMMA PhaseType ==
  ASSUME TypeOK
  PROVE  /\ request.phase = "resolved" => request \in Resolved
         /\ request.phase = "selected" => request \in Selected
         /\ request.phase \in {"ranged", "answering"} => request \in Answered
<1>1. Idle.phase = "idle"
  BY DEF Idle
<1>2. \A q \in Resolved : q.phase = "resolved"
  BY DEF Resolved
<1>3. \A q \in Selected : q.phase = "selected"
  BY DEF Selected
<1>4. \A q \in Answered : q.phase \in {"ranged", "answering"}
  BY DEF Answered
<1>. QED BY <1>1, <1>2, <1>3, <1>4 DEF TypeOK

LEMMA SelectStep ==
  ASSUME IInv, NEW list, SelectPage(list)
  PROVE  IInv'
<1>1. /\ OnlyRequest /\ request.phase = "resolved"
      /\ ~walk.over /\ walk.list = list
  BY DEF SelectPage, OnlyRequest
<1>2. request \in Resolved /\ request # Idle
  BY <1>1, PhaseType DEF IInv, Idle
<1>. DEFINE all == Matching(list, request.visible, walk.after)
<1>3. PICK items \in SUBSET all, last \in Task \cup {NoTask} :
        /\ IsPage(items, list, all)
        /\ IF items = all THEN last = NoTask
                          ELSE last \in items /\ IsLast(last, items, list)
        /\ request' = [phase |-> "selected", visible |-> request.visible,
                       items |-> items, last |-> last, moved |-> {}]
  BY DEF SelectPage
<1>4. /\ request'.phase = "selected" /\ request'.visible = request.visible
      /\ request'.items = items /\ request'.last = last /\ request'.moved = {}
  BY <1>3
<1>5. items \subseteq Task /\ all \subseteq Task
  BY DEF Matching
<1>6. request' \in Selected
  BY <1>2, <1>3, <1>5 DEF Selected, Resolved
<1>7. \A t \in all : Beyond(t) /\ task[t].names \subseteq request.visible
  BY <1>1 DEF Matching, Beyond
<1>8. \A t \in walk.steady : /\ t \in Task /\ task[t].names \subseteq request.visible
                             /\ Beyond(t) => t \in all
  BY <1>1, <1>2 DEF IInv, SteadyFine, TypeOK, Walks, Matching, Beyond
<1>9. \A t \in Task : /\ Position(list, t) \in Int \X Int
                      /\ Position(list, t) # First
  BY PositionType DEF IInv
<1>10. NoTask \notin Task
  BY IdAssumption DEF NoTask, OwnRecord
<1>. DEFINE next == IF last = NoTask THEN First ELSE Position(list, last)
<1>11. TakesUp(items, next)
  <2>1. CASE items = all
    BY <1>1, <1>3, <1>7, <1>8, <2>1 DEF TakesUp
  <2>2. CASE items # all
    <3>1. /\ last \in items /\ IsLast(last, items, list) /\ last # NoTask
          /\ next = Position(list, last)
      BY <1>3, <1>5, <1>10, <2>2
    <3>2. Precedes(walk.after, next)
      BY <1>1, <1>7, <3>1 DEF Beyond, Past
    <3>3. \A t \in items : NotAfter(Position(list, t), next)
      BY <3>1 DEF IsLast, NotAfter
    <3>4. \A t \in all \ items : Precedes(next, Position(list, t))
      BY <1>3, <3>1 DEF IsPage
    <3>. QED BY <1>1, <1>5, <1>7, <1>8, <1>9, <3>1, <3>2, <3>3, <3>4 DEF TakesUp
  <2>. QED BY <2>1, <2>2
<1>12. SelectedFine'
  <2>1. Cursor' = next
    BY <1>1, <1>4 DEF Cursor, OnlyRequest, Position, First
  <2>2. TakesUp(request.items, Cursor)'
    BY <1>1, <1>4, <1>11, <2>1
    DEF TakesUp, OnlyRequest, Beyond, Past, Position, NotAfter, Precedes, First
  <2>3. \A t \in items : task'[t].names \subseteq request'.visible
    BY <1>1, <1>4, <1>7 DEF OnlyRequest
  <2>4. ~walk'.over
    BY <1>1 DEF OnlyRequest
  <2>. QED BY <1>4, <2>2, <2>3, <2>4 DEF SelectedFine
<1>13. AnsweringFine' /\ AuditFine'
  BY <1>4 DEF AnsweringFine, AuditFine
<1>14. request' # Idle => \A t \in walk.steady : task[t].names \subseteq request'.visible
  BY <1>4, <1>8
<1>. QED BY <1>1, <1>6, <1>12, <1>13, <1>14, RequestStep

LEMMA LoadStep == IInv /\ LoadPage => IInv'
<1>. SUFFICES ASSUME IInv, LoadPage PROVE IInv'
  OBVIOUS
<1>1. OnlyRequest /\ request.phase = "selected"
  BY DEF LoadPage, OnlyRequest
<1>2. request \in Selected /\ request # Idle
  BY <1>1, PhaseType DEF IInv, Idle
<1>3. CASE request' = Idle
  <2>1. request'.phase = "idle"
    BY <1>3 DEF Idle
  <2>2. SelectedFine' /\ AnsweringFine' /\ AuditFine'
    BY <2>1 DEF SelectedFine, AnsweringFine, AuditFine
  <2>. QED BY <1>1, <1>3, <2>2, RequestStep
<1>4. CASE request' # Idle
  <2>. DEFINE shown == Shown(request.items, Assignees)
              page  == [items |-> request.items, ofWalk |-> TRUE, next |-> Cursor,
                        torn |-> request.last \in request.moved]
              rows  == AuditPage(request.items, request.visible)
  <2>1. request' = Answering(request.visible, shown, rows, request.moved, page)
    BY <1>4 DEF LoadPage, Cursor
  <2>2. /\ request'.phase = "answering" /\ request'.visible = request.visible
        /\ request'.shown = shown /\ request'.rows = rows
        /\ request'.moved = request.moved /\ request'.page = page
    BY <2>1 DEF Answering
  <2>3. request' \in Answered
    <3>1. Cursor \in Int \X Int
      BY <1>2, PositionType, FirstType DEF Cursor, IInv, Selected
    <3>2. page \in Pages
      BY <1>2, <3>1 DEF Pages, Selected
    <3>3. \A t \in request.items : Assignees[t] = task[t].names /\ task[t].names \subseteq Child
      BY <1>2 DEF Selected, Assignees, IInv, TypeOK, TaskRows
    <3>4. shown \subseteq Pairs
      BY <1>2, <3>3 DEF Shown, Pairs, Selected
    <3>5. rows \subseteq [about : Pairs, result : {"granted", "denied"}]
      BY <3>4 DEF AuditPage, Rows
    <3>. QED BY <1>2, <2>1, <3>2, <3>4, <3>5 DEF Answering, Answered, Selected
  <2>4. SelectedFine'
    BY <2>2 DEF SelectedFine
  <2>5. AnsweringFine'
    <3>1. ~page.torn => TakesUp(request.items, Cursor)
      BY <1>1 DEF IInv, SelectedFine
    <3>2. ~page.torn => TakesUp(request.page.items, request.page.next)'
      BY <1>1, <2>2, <3>1
      DEF TakesUp, OnlyRequest, Beyond, Past, Position, NotAfter, Precedes, First
    <3>3. ~walk'.over
      BY <1>1 DEF OnlyRequest, IInv, SelectedFine
    <3>. QED BY <2>2, <3>2, <3>3 DEF AnsweringFine
  <2>6. AuditFine'
    <3>1. Granted' = {x \in shown : x[2] \in request.visible}
      BY <2>2, GrantedRows DEF Granted, AuditPage
    <3>2. \A x \in shown : /\ x[1] \in request.items
                           /\ x[2] \in task[x[1]].names
      BY <1>2, ShownPairs DEF Assignees, Selected
    <3>3. \A t \in request.items \ request.moved : task[t].names \subseteq request.visible
      BY <1>1 DEF IInv, SelectedFine
    <3>. QED BY <2>2, <3>1, <3>2, <3>3 DEF AuditFine
  <2>7. \A t \in walk.steady : task[t].names \subseteq request'.visible
    BY <1>2, <2>2 DEF IInv, SteadyFine
  <2>. QED BY <1>1, <2>3, <2>4, <2>5, <2>6, <2>7, RequestStep
<1>. QED BY <1>3, <1>4

LEMMA RangeStep == IInv /\ ReadRange => IInv'
<1>. SUFFICES ASSUME IInv, ReadRange PROVE IInv'
  OBVIOUS
<1>. DEFINE pairs == Shown(VisibleInRange(request.visible), Participants)
            rows  == Rows("granted", pairs)
<1>1. OnlyRequest /\ request.phase = "resolved"
  BY DEF ReadRange, OnlyRequest
<1>2. request \in Resolved /\ request # Idle
  BY <1>1, PhaseType DEF IInv, Idle
<1>3. request' = [phase |-> "ranged", visible |-> request.visible, shown |-> pairs,
                  rows |-> rows, moved |-> {}, page |-> NoPage]
  BY DEF ReadRange, Answering
<1>4. \A x \in pairs : x[2] \in request.visible
  BY ShownPairs DEF VisibleInRange, Participants
<1>5. pairs \subseteq Pairs
  BY DEF Shown, VisibleInRange, Participants, Pairs, IInv, TypeOK
<1>6. NoPage \in Pages
  BY FirstType DEF NoPage, Pages
<1>7. rows \subseteq [about : Pairs, result : {"granted", "denied"}]
  BY <1>5 DEF Rows
<1>8. request' \in Answered
  BY <1>2, <1>3, <1>5, <1>6, <1>7 DEF Answered, Resolved
<1>9. SelectedFine' /\ AnsweringFine'
  BY <1>3 DEF SelectedFine, AnsweringFine, NoPage
<1>10. Granted' = pairs
  BY <1>3, GrantedRows DEF Granted
<1>11. AuditFine'
  BY <1>3, <1>4, <1>10 DEF AuditFine
<1>12. \A t \in walk.steady : task[t].names \subseteq request'.visible
  BY <1>2, <1>3 DEF IInv, SteadyFine
<1>. QED BY <1>1, <1>8, <1>9, <1>11, <1>12, RequestStep

LEMMA HiddenStep == IInv /\ LookUpHidden => IInv'
<1>. SUFFICES ASSUME IInv, LookUpHidden PROVE IInv'
  OBVIOUS
<1>. DEFINE hidden == Rows("denied", HiddenInRange(request.visible))
<1>1. /\ OnlyRequest /\ request.phase = "ranged"
      /\ request' = [request EXCEPT !.phase = "answering", !.rows = @ \cup hidden]
  BY DEF LookUpHidden, OnlyRequest
<1>2. request \in Answered /\ request # Idle
  BY <1>1, PhaseType DEF IInv, Idle
<1>3. /\ request'.phase = "answering" /\ request'.visible = request.visible
      /\ request'.shown = request.shown /\ request'.rows = request.rows \cup hidden
      /\ request'.moved = request.moved /\ request'.page = request.page
  BY <1>1, <1>2 DEF Answered
<1>4. HiddenInRange(request.visible) \subseteq Pairs
  BY DEF HiddenInRange, Shown, Participants, Pairs, IInv, TypeOK
<1>5. request' \in Answered
  <2>1. hidden \subseteq [about : Pairs, result : {"granted", "denied"}]
    BY <1>4 DEF Rows
  <2>. QED BY <1>1, <1>2, <2>1 DEF Answered
<1>6. AuditFine'
  <2>1. Granted' = Granted
    BY <1>3, GrantedRows DEF Granted
  <2>. QED BY <1>1, <1>3, <2>1 DEF IInv, AuditFine
<1>7. SelectedFine'
  BY <1>3 DEF SelectedFine
<1>8. AnsweringFine'
  BY <1>1, <1>3 DEF IInv, AnsweringFine
<1>. QED BY <1>1, <1>2, <1>3, <1>5, <1>6, <1>7, <1>8, RequestStep DEF IInv, SteadyFine

\* A single record: shown with its audit rows, or refused with them.
LEMMA DetailStep ==
  ASSUME IInv, OnlyRequest, NEW pairs, NEW visible,
         pairs \subseteq Pairs, visible \subseteq Child,
         \A t \in walk.steady : task[t].names \subseteq visible,
         \/ /\ \A x \in pairs : x[2] \in visible
            /\ request' = Answering(visible, pairs, Rows("granted", pairs), {}, NoPage)
         \/ \E hidden \in SUBSET pairs :
              request' = Answering(visible, {}, Rows("denied", hidden), {}, NoPage)
  PROVE  IInv'
<1>1. NoPage \in Pages
  BY FirstType DEF NoPage, Pages
<1>. DEFINE Told(shown, rows) ==
              /\ shown \subseteq pairs
              /\ request' = Answering(visible, shown, rows, {}, NoPage)
              /\ rows \subseteq [about : Pairs, result : {"granted", "denied"}]
              /\ GrantedIn(rows) = shown
              /\ \A x \in shown : x[2] \in visible
<1>2. PICK shown, rows : Told(shown, rows)
  <2>1. ASSUME NEW S \in SUBSET pairs, NEW word \in {"granted", "denied"}
        PROVE  Rows(word, S) \subseteq [about : Pairs, result : {"granted", "denied"}]
    BY DEF Rows
  <2>2. CASE /\ \A x \in pairs : x[2] \in visible
             /\ request' = Answering(visible, pairs, Rows("granted", pairs), {}, NoPage)
    <3>1. Told(pairs, Rows("granted", pairs))
      BY <2>1, <2>2, GrantedRows
    <3>. QED BY <3>1
  <2>3. ASSUME NEW hidden \in SUBSET pairs,
               request' = Answering(visible, {}, Rows("denied", hidden), {}, NoPage)
        PROVE  \E shown, rows : Told(shown, rows)
    <3>1. Told({}, Rows("denied", hidden))
      BY <2>1, <2>3, GrantedRows
    <3>. QED BY <3>1
  <2>. QED BY <2>2, <2>3
<1>3. /\ request'.phase = "answering" /\ request'.visible = visible
      /\ request'.shown = shown /\ request'.rows = rows
      /\ request'.moved = {} /\ request'.page.ofWalk = FALSE
  BY <1>2 DEF Answering, NoPage
<1>4. request' \in Answered
  BY <1>1, <1>2 DEF Answering, Answered
<1>5. SelectedFine' /\ AnsweringFine' /\ AuditFine'
  BY <1>2, <1>3 DEF SelectedFine, AnsweringFine, AuditFine, Granted
<1>. QED BY <1>3, <1>4, <1>5, RequestStep

LEMMA GetStep ==
  ASSUME IInv, OnlyRequest, request.phase = "resolved",
         NEW x \in Task \cup Event, NEW names \in SUBSET Child,
         request' = Detail(x, names)
  PROVE  IInv'
<1>. DEFINE pairs  == {x} \X names
            hidden == {p \in pairs : p[2] \notin request.visible}
<1>1. request \in Resolved /\ request # Idle
  BY PhaseType DEF IInv, Idle
<1>2. /\ pairs \subseteq Pairs /\ request.visible \subseteq Child
      /\ \A t \in walk.steady : task[t].names \subseteq request.visible
  BY <1>1 DEF Pairs, Resolved, IInv, SteadyFine
<1>3. CASE hidden = {}
  <2>1. request' = Answering(request.visible, pairs, Rows("granted", pairs), {}, NoPage)
    BY <1>3 DEF Detail
  <2>2. \A p \in pairs : p[2] \in request.visible
    BY <1>3
  <2>. QED BY <1>2, <2>1, <2>2, DetailStep
<1>4. CASE hidden # {}
  <2>1. request' = Answering(request.visible, {}, Rows("denied", hidden), {}, NoPage)
    BY <1>4 DEF Detail
  <2>2. hidden \in SUBSET pairs
    OBVIOUS
  <2>. HIDE DEF hidden
  <2>. QED BY <1>2, <2>1, <2>2, DetailStep
<1>. QED BY <1>3, <1>4

LEMMA MemberStep ==
  ASSUME IInv, NEW c \in Child, ReadMember(c)
  PROVE  IInv'
<1>. DEFINE pairs == {<<OwnRecord, c>>}
<1>1. OnlyRequest
  BY DEF ReadMember, OnlyRequest
<1>2. /\ pairs \subseteq Pairs /\ guarded \subseteq Child
      /\ \A t \in walk.steady : task[t].names \subseteq guarded
  BY DEF Pairs, IInv, SteadyFine, TypeOK
<1>5. CASE request' = Answering(guarded, {}, {}, {}, NoPage)
  <2>1. {} = Rows("denied", {}) /\ {} \subseteq Pairs
    BY DEF Rows
  <2>. QED BY <1>1, <1>2, <1>5, <2>1, DetailStep
<1>3. CASE c \in guarded /\ request' # Answering(guarded, {}, {}, {}, NoPage)
  <2>1. request' = Answering(guarded, pairs, Rows("granted", pairs), {}, NoPage)
    BY <1>3 DEF ReadMember
  <2>2. \A x \in pairs : x[2] \in guarded
    BY <1>3
  <2>. QED BY <1>1, <1>2, <2>1, <2>2, DetailStep
<1>4. CASE c \notin guarded /\ request' # Answering(guarded, {}, {}, {}, NoPage)
  <2>1. request' = Answering(guarded, {}, Rows("denied", pairs), {}, NoPage)
    BY <1>4 DEF ReadMember
  <2>. QED BY <1>1, <1>2, <2>1, DetailStep
<1>. QED BY <1>5, <1>3, <1>4

LEMMA AnswerStep == IInv /\ Answer => IInv'
<1>. SUFFICES ASSUME IInv, Answer PROVE IInv'
  OBVIOUS
<1>1. /\ UNCHANGED <<task, parties, guarded, changes>>
      /\ request.phase = "answering" /\ request' = Idle /\ request'.phase = "idle"
  BY DEF Answer, Idle
<1>2. request \in Answered /\ request.page \in Pages
  BY <1>1, PhaseType DEF IInv, Answered
<1>3. SelectedFine' /\ AnsweringFine' /\ AuditFine'
  BY <1>1 DEF SelectedFine, AnsweringFine, AuditFine
<1>4. walk \in Walks
  BY DEF IInv, TypeOK
<1>5. /\ walk' \in Walks /\ walk'.steady = walk.steady /\ walk'.list = walk.list
  <2>. DEFINE page == request.page
              seen == [t \in Task |-> IF t \in page.items /\ walk.seen[t] < 2
                                        THEN walk.seen[t] + 1 ELSE walk.seen[t]]
  <2>1. CASE ~page.ofWalk
    BY <1>4, <2>1 DEF Answer
  <2>2. CASE page.ofWalk
    <3>1. walk' = [walk EXCEPT !.after = page.next, !.seen = seen,
                     !.slipped = walk.slipped \/ page.torn, !.over = (page.next = First)]
      BY <1>4, <2>2 DEF Answer, Walks
    <3>2. seen \in [Task -> 0 .. 2]
      BY <1>4 DEF Walks
    <3>. HIDE DEF seen
    <3>3. page.next \in Int \X Int /\ (page.next = First) \in BOOLEAN
          /\ (walk.slipped \/ page.torn) \in BOOLEAN
      BY <1>2 DEF Pages
    <3>. QED BY <1>4, <3>1, <3>2, <3>3 DEF Walks
  <2>. QED BY <2>1, <2>2
<1>6. TypeOK'
  BY <1>1, <1>5 DEF IInv, TypeOK, IsClosed
<1>7. SteadyFine'
  BY <1>1, <1>5 DEF IInv, SteadyFine, OnList, IsOpen, IsClosed
<1>8. SeenFine'
  <2>1. CASE ~request.page.ofWalk
    BY <1>1, <2>1 DEF Answer, IInv, SeenFine, Beyond, Past, Position, Precedes
  <2>2. CASE request.page.ofWalk
    <3>. DEFINE page == request.page
    <3>1. /\ walk'.after = page.next
          /\ walk'.seen = [t \in Task |-> IF t \in page.items /\ walk.seen[t] < 2
                                            THEN walk.seen[t] + 1 ELSE walk.seen[t]]
          /\ walk'.slipped = (walk.slipped \/ page.torn)
          /\ walk'.over = (page.next = First)
      BY <1>4, <2>2 DEF Answer, Walks
    <3>2. SUFFICES ASSUME ~walk.slipped, ~page.torn, NEW t \in walk.steady
                   PROVE  walk'.seen[t] = (IF ~walk'.over /\ Beyond(t)' THEN 0 ELSE 1)
      BY <1>5, <3>1 DEF SeenFine
    <3>. DEFINE here == Position(walk.list, t)
    <3>3. /\ t \in Task /\ here \in Int \X Int /\ page.next \in Int \X Int
          /\ walk.after \in Int \X Int
      BY <1>2, <1>4, PositionType DEF IInv, Walks, Pages
    <3>4. ~walk.over /\ TakesUp(page.items, page.next)
      BY <1>1, <2>2, <3>2 DEF IInv, AnsweringFine
    <3>5. walk.seen[t] = (IF Beyond(t) THEN 0 ELSE 1)
      BY <3>2, <3>4 DEF IInv, SeenFine
    <3>6. Beyond(t)' <=> Precedes(page.next, here)
      BY <1>1, <1>5, <3>1 DEF Beyond, Past, Position, Precedes
    <3>7. Beyond(t) <=> Precedes(walk.after, here)
      BY DEF Beyond, Past
    <3>8. CASE t \in page.items
      <4>1. Beyond(t) /\ (page.next = First \/ NotAfter(here, page.next))
        BY <3>4, <3>8 DEF TakesUp
      <4>2. page.next = First \/ ~Precedes(page.next, here)
        BY <3>3, <4>1, PrecedesOrders DEF NotAfter
      <4>3. walk'.seen[t] = 1
        BY <3>1, <3>3, <3>5, <3>8, <4>1
      <4>. QED BY <3>1, <3>6, <4>2, <4>3
    <3>9. CASE t \notin page.items /\ Beyond(t)
      <4>1. page.next # First /\ Precedes(page.next, here)
        BY <3>4, <3>9 DEF TakesUp
      <4>. QED BY <3>1, <3>3, <3>5, <3>6, <3>9, <4>1
    <3>10. CASE t \notin page.items /\ ~Beyond(t)
      <4>1. page.next = First \/ ~Precedes(page.next, here)
        BY <3>3, <3>4, <3>7, <3>10, PrecedesOrders DEF TakesUp
      <4>. QED BY <3>1, <3>3, <3>5, <3>6, <3>10, <4>1
    <3>. QED BY <3>8, <3>9, <3>10
  <2>. QED BY <2>1, <2>2
<1>. QED BY <1>3, <1>6, <1>7, <1>8 DEF IInv

LEMMA OpenStep ==
  ASSUME IInv, NEW list \in {"open", "closed"}, OpenList(list)
  PROVE  IInv'
<1>1. /\ UNCHANGED <<task, parties, guarded, request, changes>>
      /\ request = Idle /\ request.phase = "idle"
  BY DEF OpenList, Idle
<1>2. SelectedFine' /\ AnsweringFine' /\ AuditFine'
  BY <1>1 DEF SelectedFine, AnsweringFine, AuditFine
<1>3. /\ walk'.list = list /\ walk'.after = First /\ walk'.over = FALSE
      /\ walk'.seen = [t \in Task |-> 0] /\ walk'.slipped = FALSE
      /\ walk'.steady = {t \in Task : OnList(list, t) /\ task[t].names \subseteq guarded}
      /\ walk' \in Walks
  <2>. DEFINE steady == {t \in Task : OnList(list, t) /\ task[t].names \subseteq guarded}
              seen   == [t \in Task |-> 0]
  <2>1. walk' = [list |-> list, after |-> First, seen |-> seen, steady |-> steady,
                 slipped |-> FALSE, over |-> FALSE]
    BY DEF OpenList, NoWalk
  <2>2. seen \in [Task -> 0 .. 2] /\ steady \in SUBSET Task
    OBVIOUS
  <2>. HIDE DEF steady, seen
  <2>3. walk' \in Walks
    BY <2>1, <2>2, FirstType DEF Walks
  <2>4. /\ walk'.list = list /\ walk'.after = First /\ walk'.over = FALSE
        /\ walk'.seen = seen /\ walk'.slipped = FALSE /\ walk'.steady = steady
    BY <2>1
  <2>. QED BY <2>3, <2>4 DEF steady, seen
<1>4. TypeOK'
  BY <1>1, <1>3 DEF IInv, TypeOK, IsClosed
<1>5. SteadyFine'
  BY <1>1, <1>3 DEF SteadyFine, OnList, IsOpen, IsClosed
<1>6. \A t \in Task : Precedes(First, Position(list, t))
  BY PositionType DEF IInv
<1>7. SeenFine'
  BY <1>1, <1>3, <1>6 DEF SeenFine, Beyond, Past, Position, Precedes, First
<1>. QED BY <1>2, <1>4, <1>5, <1>7 DEF IInv

LEMMA PartiesStep ==
  ASSUME IInv, NEW e \in Event, NEW names \in SUBSET Child, ReplaceParticipants(e, names)
  PROVE  IInv'
<1>1. /\ UNCHANGED <<task, guarded, request, walk>>
      /\ parties' = [parties EXCEPT ![e] = names] /\ changes' \in 0 .. MaxChanges
  BY BoundAssumption DEF ReplaceParticipants, Changes, IInv, TypeOK
<1>2. TypeOK'
  BY <1>1 DEF IInv, TypeOK, IsClosed
<1>. QED BY <1>1, <1>2
     DEF IInv, SteadyFine, SeenFine, SelectedFine, AnsweringFine, AuditFine, Granted,
         Cursor, TakesUp, Beyond, Past, Position, Precedes, NotAfter, First, OnList,
         IsOpen, IsClosed

LEMMA GuardStep ==
  ASSUME IInv, NEW c \in Child, GuardianshipChanges(c)
  PROVE  IInv'
<1>1. /\ UNCHANGED <<task, parties, request>> /\ changes' \in 0 .. MaxChanges
      /\ guarded' = IF c \in guarded THEN guarded \ {c} ELSE guarded \cup {c}
  BY BoundAssumption DEF GuardianshipChanges, Changes, IInv, TypeOK
<1>2. walk \in Walks
  BY DEF IInv, TypeOK
<1>3. /\ walk' \in Walks /\ walk'.list = walk.list /\ walk'.after = walk.after
      /\ walk'.seen = walk.seen /\ walk'.slipped = walk.slipped /\ walk'.over = walk.over
      /\ walk'.steady = {t \in walk.steady : c \notin task[t].names}
  BY <1>2 DEF GuardianshipChanges, Walks
<1>4. TypeOK'
  BY <1>1, <1>3 DEF IInv, TypeOK, IsClosed
<1>5. SteadyFine'
  BY <1>1, <1>3 DEF IInv, SteadyFine, OnList, IsOpen, IsClosed
<1>6. SeenFine'
  BY <1>1, <1>3 DEF IInv, SeenFine, Beyond, Past, Position, Precedes
<1>8. Cursor' = Cursor
  BY <1>1, <1>3 DEF Cursor, Position, First
<1>9. SelectedFine' /\ AnsweringFine'
  <2>1. TakesUp(request.items, Cursor) => TakesUp(request.items, Cursor)'
    BY <1>1, <1>3, <1>8 DEF TakesUp, Beyond, Past, Position, Precedes, NotAfter, First
  <2>2. TakesUp(request.page.items, request.page.next)
          => TakesUp(request.page.items, request.page.next)'
    BY <1>1, <1>3 DEF TakesUp, Beyond, Past, Position, Precedes, NotAfter, First
  <2>. QED BY <1>1, <1>3, <2>1, <2>2 DEF IInv, SelectedFine, AnsweringFine
<1>10. AuditFine'
  BY <1>1 DEF IInv, AuditFine, Granted
<1>. QED BY <1>4, <1>5, <1>6, <1>9, <1>10 DEF IInv

\* Another member changes a task.
LEMMA ChangeStep ==
  ASSUME IInv, NEW t \in Task, NEW row \in TaskRows, ChangeTask(t, row),
         row.status \in {"completed", "cancelled"} <=> row.closed > 0
  PROVE  IInv'
<1>1. /\ UNCHANGED <<parties, guarded>> /\ changes' \in 0 .. MaxChanges
      /\ task' = [task EXCEPT ![t] = row]
  BY BoundAssumption DEF ChangeTask, Changes, IInv, TypeOK
<1>2. walk \in Walks /\ task \in [Task -> TaskRows]
  BY DEF IInv, TypeOK
<1>3. /\ walk' \in Walks /\ walk'.list = walk.list /\ walk'.after = walk.after
      /\ walk'.seen = walk.seen /\ walk'.slipped = walk.slipped /\ walk'.over = walk.over
      /\ walk'.steady = walk.steady \ {t}
  BY <1>2 DEF ChangeTask, Walks
<1>4. /\ task' \in [Task -> TaskRows] /\ task'[t] = row
      /\ \A u \in Task \ {t} : task'[u] = task[u]
  BY <1>1, <1>2
<1>5. /\ request.phase # "selected" => request' = request
      /\ request.phase = "selected" =>
           request' = [request EXCEPT !.moved = request.moved \cup {t}]
  BY PhaseType DEF ChangeTask, Moved, IInv, Selected
<1>6. request.phase = "selected" =>
        /\ request \in Selected /\ request' \in Selected
        /\ request'.phase = "selected" /\ request'.visible = request.visible
        /\ request'.items = request.items /\ request'.last = request.last
        /\ request'.moved = request.moved \cup {t}
  BY <1>5, PhaseType DEF IInv, Selected
<1>7. TypeOK'
  <2>1. request' \in {Idle} \cup Resolved \cup Selected \cup Answered
    BY <1>5, <1>6 DEF IInv, TypeOK
  <2>2. \A u \in Task : IsClosed(u)' <=> task'[u].closed > 0
    BY <1>4 DEF IInv, TypeOK, IsClosed
  <2>3. parties' \in [Event -> SUBSET Child] /\ guarded' \subseteq Child
    BY <1>1 DEF IInv, TypeOK
  <2>. QED BY <1>1, <1>3, <1>4, <2>1, <2>2, <2>3 DEF TypeOK
<1>8. \A u \in walk'.steady :
        /\ u \in walk.steady /\ u \in Task /\ task'[u] = task[u]
        /\ Position(walk.list, u)' = Position(walk.list, u) /\ Beyond(u)' = Beyond(u)
  BY <1>2, <1>3, <1>4 DEF Walks, Position, Beyond, Past, Precedes
<1>9. SteadyFine'
  <2>1. ASSUME NEW u \in walk'.steady
        PROVE  /\ OnList(walk.list, u)' /\ task'[u].names \subseteq guarded'
               /\ request' # Idle => task'[u].names \subseteq request'.visible
    <3>1. OnList(walk.list, u)'
      BY <1>3, <1>8 DEF IInv, SteadyFine, OnList, IsOpen, IsClosed
    <3>2. request' # Idle => request # Idle /\ request'.visible = request.visible
      BY <1>5, <1>6 DEF Idle
    <3>. QED BY <1>1, <1>8, <3>1, <3>2 DEF IInv, SteadyFine
  <2>. QED BY <2>1 DEF SteadyFine
<1>10. SeenFine'
  BY <1>3, <1>8 DEF IInv, SeenFine
<1>11. First' = First /\ \A a, b : (NotAfter(a, b)' <=> NotAfter(a, b))
  BY DEF First, NotAfter, Precedes
<1>12. SelectedFine'
  <2>1. SUFFICES ASSUME request.phase = "selected" PROVE SelectedFine'
    BY <1>5 DEF SelectedFine
  <2>2. ~walk'.over
    BY <1>3, <2>1 DEF IInv, SelectedFine
  <2>3. \A u \in request'.items \ request'.moved :
          task'[u].names \subseteq request'.visible
    BY <1>4, <1>6, <2>1 DEF IInv, SelectedFine, Selected
  <2>4. ASSUME request'.last \notin request'.moved
        PROVE  TakesUp(request.items, Cursor)'
    <3>1. TakesUp(request.items, Cursor)
      BY <1>6, <2>1, <2>4 DEF IInv, SelectedFine
    <3>2. Cursor' = Cursor
      BY <1>3, <1>4, <1>6, <2>1, <2>4 DEF Cursor, Position, First, Selected
    <3>. QED BY <1>3, <1>6, <1>8, <2>1, <3>1, <3>2 DEF TakesUp, NotAfter, Precedes, First
  <2>. QED BY <2>2, <2>3, <2>4 DEF SelectedFine
<1>13. AnsweringFine'
  <2>1. SUFFICES ASSUME request.phase \in {"ranged", "answering"}, request' = request
                 PROVE  AnsweringFine'
    BY <1>5, <1>6 DEF AnsweringFine
  <2>2. TakesUp(request.page.items, request.page.next)
          => TakesUp(request.page.items, request.page.next)'
    BY <1>3, <1>8, <2>1 DEF TakesUp, NotAfter, Precedes, First
  <2>. QED BY <1>3, <2>1, <2>2 DEF IInv, AnsweringFine
<1>14. AuditFine'
  <2>1. SUFFICES ASSUME request.phase \in {"ranged", "answering"}, request' = request
                 PROVE  AuditFine'
    BY <1>5, <1>6 DEF AuditFine
  <2>. QED BY <2>1 DEF IInv, AuditFine, Granted
<1>. QED BY <1>7, <1>9, <1>10, <1>12, <1>13, <1>14 DEF IInv

LEMMA TaskStep ==
  ASSUME IInv, NEW t \in Task,
         \/ \E due \in Due, names \in SUBSET Child : Create(t, due, names)
         \/ \E due \in Due : Redate(t, due)
         \/ \E c \in Child : Assign(t, c) \/ Unassign(t, c)
         \/ Close(t, "completed") \/ Close(t, "cancelled") \/ Reopen(t)
  PROVE  IInv'
<1>1. /\ task[t] \in TaskRows /\ task[t].names \subseteq Child
      /\ IsOpen(t) => task[t].closed = 0
  BY DEF IInv, TypeOK, TaskRows, IsClosed, IsOpen
<1>2. changes < MaxChanges => changes + 1 \in 0 .. MaxChanges /\ changes + 1 > 0
  BY BoundAssumption DEF IInv, TypeOK
<1>3. 0 \in 0 .. MaxChanges /\ Due \subseteq Nat
  BY BoundAssumption, IdAssumption
<1>4. ASSUME NEW due \in Due, NEW names \in SUBSET Child, Create(t, due, names)
      PROVE  IInv'
  <2>. DEFINE row == [status |-> "open", due |-> due, closed |-> 0, names |-> names]
  <2>1. row \in TaskRows /\ row.status = "open" /\ row.closed = 0
    BY <1>3 DEF TaskRows
  <2>. QED BY <1>4, <2>1, ChangeStep DEF Create
<1>5. ASSUME NEW due \in Due, Redate(t, due)
      PROVE  IInv'
  <2>. DEFINE row == [task[t] EXCEPT !.due = due]
  <2>1. row \in TaskRows /\ row.status = "open" /\ row.closed = 0
    BY <1>1, <1>3, <1>5 DEF TaskRows, Redate, IsOpen
  <2>2. ChangeTask(t, row)
    BY <1>5 DEF Redate
  <2>. HIDE DEF row
  <2>. QED BY <2>1, <2>2, ChangeStep
<1>6. ASSUME NEW c \in Child, Assign(t, c) \/ Unassign(t, c)
      PROVE  IInv'
  <2>1. PICK names \in SUBSET Child :
          IsOpen(t) /\ ChangeTask(t, [task[t] EXCEPT !.names = names])
    <3>1. CASE Assign(t, c)
      <4>1. task[t].names \cup {c} \in SUBSET Child
        BY <1>1
      <4>. QED BY <1>1, <3>1, <4>1 DEF Assign, TaskRows
    <3>2. CASE Unassign(t, c)
      <4>1. task[t].names \ {c} \in SUBSET Child
        BY <1>1
      <4>. QED BY <1>1, <3>2, <4>1 DEF Unassign, TaskRows
    <3>. QED BY <1>6, <3>1, <3>2
  <2>. DEFINE row == [task[t] EXCEPT !.names = names]
  <2>2. row \in TaskRows /\ row.status = "open" /\ row.closed = 0
    BY <1>1, <2>1 DEF TaskRows, IsOpen
  <2>3. ChangeTask(t, row)
    BY <2>1
  <2>. HIDE DEF row
  <2>. QED BY <2>2, <2>3, ChangeStep
<1>7. ASSUME NEW status \in {"completed", "cancelled"}, Close(t, status)
      PROVE  IInv'
  <2>0. PICK moment \in 1 .. changes + 1 :
          ChangeTask(t, [task[t] EXCEPT !.status = status, !.closed = moment])
    BY <1>7 DEF Close
  <2>. DEFINE row == [task[t] EXCEPT !.status = status, !.closed = moment]
  <2>1. changes < MaxChanges
    BY <1>7 DEF Close, ChangeTask, Changes
  <2>5. moment \in 0 .. MaxChanges /\ moment > 0
    <3>1. changes \in Nat /\ MaxChanges \in Nat /\ changes + 1 <= MaxChanges
      BY <1>2, <2>1, BoundAssumption DEF IInv, TypeOK
    <3>2. moment \in Int /\ 1 <= moment /\ moment <= changes + 1
      BY <3>1
    <3>. HIDE DEF row
    <3>. QED BY <3>1, <3>2
  <2>2. row \in TaskRows /\ row.status = status /\ row.closed > 0
    BY <1>1, <2>5 DEF TaskRows
  <2>3. ChangeTask(t, row)
    BY <2>0
  <2>. HIDE DEF row
  <2>. QED BY <2>2, <2>3, ChangeStep
<1>8. ASSUME Reopen(t)
      PROVE  IInv'
  <2>. DEFINE row == [task[t] EXCEPT !.status = "open", !.closed = 0]
  <2>1. row \in TaskRows /\ row.status = "open" /\ row.closed = 0
    BY <1>1, <1>3 DEF TaskRows
  <2>2. ChangeTask(t, row)
    BY <1>8 DEF Reopen
  <2>. HIDE DEF row
  <2>. QED BY <2>1, <2>2, ChangeStep
<1>. QED BY <1>4, <1>5, <1>6, <1>7, <1>8

LEMMA StutterStep == IInv /\ UNCHANGED vars => IInv'
<1>. SUFFICES ASSUME IInv, UNCHANGED vars PROVE IInv'
  OBVIOUS
<1>1. OnlyRequest /\ request' = request
  BY DEF vars, OnlyRequest
<1>. QED BY <1>1
     DEF OnlyRequest, IInv, TypeOK, SteadyFine, SeenFine, SelectedFine, AnsweringFine,
         AuditFine, Granted, Cursor, TakesUp, Beyond, Past, Position, Precedes,
         NotAfter, First, OnList, IsOpen, IsClosed

LEMMA InitIInv == Init => IInv
<1>. SUFFICES ASSUME Init PROVE IInv
  OBVIOUS
<1>1. Idle.phase = "idle"
  BY DEF Idle
<1>2. 0 \in 0 .. MaxChanges
  BY BoundAssumption
<1>3. Absent \in TaskRows /\ Absent.status = "absent" /\ Absent.closed = 0
  BY <1>2 DEF Absent, TaskRows
<1>4. NoWalk \in Walks /\ NoWalk.steady = {}
  BY FirstType DEF NoWalk, Walks
<1>5. TypeOK
  BY <1>2, <1>3, <1>4 DEF Init, TypeOK, IsClosed
<1>. QED BY <1>1, <1>4, <1>5
     DEF Init, IInv, SteadyFine, SeenFine, SelectedFine, AnsweringFine, AuditFine

LEMMA NextIInv == IInv /\ [Next]_vars => IInv'
<1>. SUFFICES ASSUME IInv, [Next]_vars PROVE IInv'
  OBVIOUS
<1>1. CASE Reads
  <2>1. ASSUME NEW t \in Task, GetTask(t) PROVE IInv'
    <3>1. task[t].names \in SUBSET Child
      BY DEF IInv, TypeOK, TaskRows
    <3>. QED BY <2>1, <3>1, GetStep DEF GetTask, OnlyRequest
  <2>2. ASSUME NEW e \in Event, GetEvent(e) PROVE IInv'
    <3>1. parties[e] \in SUBSET Child
      BY DEF IInv, TypeOK
    <3>. QED BY <2>2, <3>1, GetStep DEF GetEvent, OnlyRequest
  <2>. QED BY <1>1, <2>1, <2>2, OpenStep, ResolveStep, SelectStep, LoadStep, RangeStep,
              HiddenStep, AnswerStep, MemberStep DEF Reads, ListOpenTasks, ListTaskHistory
<1>2. CASE OthersWrite
  BY <1>2, TaskStep, PartiesStep, GuardStep DEF OthersWrite
<1>. QED BY <1>1, <1>2, FailStep, StutterStep DEF Next

LEMMA Invariant == Spec => []IInv
BY InitIInv, NextIInv, PTL DEF Spec

\* Requests, pages and walks keep their types
\* (listOpenTasks, listTaskHistory, getTask).
THEOREM TypeCorrect == Spec => []TypeOK
BY Invariant, PTL DEF IInv

\* An answer shows what its audit rows grant, whatever others change meanwhile.
THEOREM ReadsAreAudited == Spec => []ShownAsAudited
<1>1. IInv => ShownAsAudited
  BY DEF IInv, AuditFine, ShownAsAudited, Granted, GrantedIn
<1>. QED BY <1>1, Invariant, PTL

\* A reader who follows nextCursor to the end of a list meets every task that
\* stays on it where it was, and none twice, unless the cursor's own task was
\* moved between its statements (task.repository.ts: the keysets of listOpen and
\* listClosed).
THEOREM PagesAreComplete == Spec => []PagesMissNothing
<1>1. IInv => PagesMissNothing
  <2>. SUFFICES ASSUME IInv, NEW t \in walk.steady, ~walk.slipped
                PROVE  IF walk.over THEN walk.seen[t] = 1 ELSE walk.seen[t] <= 1
    BY DEF PagesMissNothing
  <2>1. walk.seen[t] = (IF ~walk.over /\ Beyond(t) THEN 0 ELSE 1)
    BY DEF IInv, SeenFine
  <2>. QED BY <2>1
<1>. QED BY <1>1, Invariant, PTL

==============================================================================
