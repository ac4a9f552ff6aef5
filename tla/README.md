# A TLA+ model of the family platform

This directory models the parts of the family platform whose correctness depends
on order: background work that several processes share, messages that come twice,
requests that overlap, and rows that are read before they are written. The modules
are translated from the TypeScript source and from the SQL migrations; `PROJECT.json`
names, for every definition, the lines it stands for.

## The system

One API process (NestJS) and one worker process, over one PostgreSQL database, and
SQS-compatible queues (ElasticMQ outside production). Bounded contexts live in
`packages/core` as aggregates and commands; `packages/persistence` implements their
repositories. A command runs in one READ COMMITTED transaction whose row-level
security is scoped to one family; its domain events are rows of `outbox_event`,
committed with the change. The worker runs sweeps on timers, the outbox relay among
them.

| Component | State | Operations | What is hard | Correct when |
|---|---|---|---|---|
| Outbox relay (`apps/worker/src/relay`, `outbox-relay.repository.ts`) | `outbox_event.published_at`, row locks, alert flags in memory | measure lag, claim, send, mark, report | two relays, crash between send and mark, a claim transaction that times out while its loop goes on sending, failing broker | nothing is marked before it was delivered everywhere, no row is in two claims, every row is published, repeats have a cause |
| Queues and dead-letter queues (`elasticmq/queues.conf`, `sqs-message-publisher.ts`) | messages, visibility, receive counts | send, receive, delete, redrive, peek | redelivery, lost answers, receives that count without work | every message settles, a dead letter is noticed |
| Idempotent consumer (`sqs-consumer.ts`, `processed_event`) | the ledger | poll: receive, parse, look up, handle, record, delete | crash between any two calls, slow handlers, two copies at once | acknowledged means processed, a repeat is explained |
| Sweep scheduler (`apps/worker/src/scheduler`, `main.ts`) | timers, in-flight flags, last success | tick, skip, heartbeat, stall alert, stop | a pass outliving its cadence, a pass that never ends, stop racing passes | no overlap, stalls are alerted once and even while a pass hangs, a clean stop is quiet |
| Tasks (`core/src/tasks`) | `task`, assignments | create, update, complete, cancel, reopen, assign, erase | reopening inside a series, late and early closes, stale versions, erasure beside a close | one head per series, one successor, no gap, versions name states |
| Overdue sweep (`report-overdue-tasks.sweep.ts`) | the overdue marker | discover, report | discovery is stale when a task is reported; two sweeps | announced, and not again for the same moment |
| Family and membership (`core/src/family`) | members, guardianships, invitations, deletion request | twelve commands, standing, expiry sweep, erasure | reads nobody locks, whole-row saves, standing resolved earlier | one owner, every child guarded, deletion final |
| Identity (`core/src/identity`) | users, sessions, e-mail links | register, verify, sign in, renew, sign out, revoke, delete, three retention sweeps | whole-row saves without version, sessions beside deletion, replayed tokens | a superseded token stays shut, a deleted account keeps no session, ends are final |
| Calendar (`core/src/calendar`) | events, materialised occurrences, exceptions | create, update, cancel, reschedule, materialise, prune | horizon sweep beside edits, a prune that takes no event's lock | occurrences are those of the present rule and its exceptions |
| Reading (queries of tasks, calendar, family; `compliance`) | pages, cursors, audit rows | list page by page, range, detail, read a child | ids and rows are read by two statements, visibility by a transaction of its own | what is shown has its audit row; a list read to its end misses nothing |
| Recurrence (`kernel/src/recurrence`) | none | expand, next occurrence, zoned time | COUNT, UNTIL, clock changes, skipped periods | agrees with a reference definition |
| Request pipeline and idempotency keys (`apps/api`, `contracts`, `idempotency-key.repository.ts`) | rate counters, session, standing, stored answers | limits, guards, look up, run, save, answer | crash or a twin between run and save; one key for two things; a caller who left | a call is done once unless the store could not know; answers are one's own |
| Domain events (`core/src/*/domain/events.ts`) | none | which command appends which type, with which fields, for which queues | nothing ties the producers to the catalogue | every type is about one aggregate it names, and has a producer |
| Retention sweeps (`apps/worker/src/sweeps`, `main.ts`, `worker-env.ts`) | none of their own | erase, expire, prune, one-shot run | a boot with a bad environment | every sweep gets a cadence; its effect is an action of the context it changes |
| Units of work, mobile app, infrastructure | see `PROJECT.json` | | | not modelled, reasons there |

The contexts meet in four places. The API runs a command for a request its guards let
through and stores the answer under the client's key. Commands append to the outbox and
the relay takes the rows from there; the queue hands the relay's messages to consumers.
The scheduler runs the relay and the other sweeps. Everything else goes through the
database.

## Modules

Every module of a component with variables has its `TypeOK`; the runs spend their
properties on the others. It is proved of every module that has proofs.

**`AtLeastOnceOutbox`** says what an outbox promises and nothing of how: events commit,
are delivered any number of times, and are settled only when every subscribed queue
has them.

**`OutboxRelay`** is one tick after another of several relay processes. `MeasureLag`,
`Claim`, then per row `TakeRow`, `SendOk`/`SendFails`, `RowFinished`, and
`MarkAndCommit`, `Report`: the calls of `runOutboxRelaySweep` in their order. A
claim's rows are locked while `txOpen`; `TxAborts` ends the transaction under a loop
that goes on sending, and `Crash` loses the process anywhere. `published`,
`committed` and the locks are the table; `batch`, `todo`, `row`, `left`, `finished`
are the locals of one tick. `setbacks` is history: it counts how often a claimed row
went back.

**`QueueConsumer`** puts the broker (external: `place`, `visible`, `receives`) and the
pollers together. The phases of a poller are the awaits of `pollOnce`; `PollThrows` is
one of the three calls outside any `try` failing, before or after it took effect.
`slips` is history: the races and lost records that excuse repeated work. So are `told`,
the dead letters an alert told of or that lie beside one it told of, `overlooked`, those
that took the place of a letter removed since the last tick (`taken`) and those beside them.

**`EventDelivery`** is the way of an event through both. It extends `OutboxRelay` and
instantiates `QueueConsumer` for one queue, `Consumed`. A send of the relay that puts
another copy on `Consumed` is, in the same step, a message's `Send` there (`Arrival`),
also when the relay never hears of it; a tick of `Watcher` that reports looks at the
dead-letter queue, and its death forgets what it saw. Every other step is one of the two
alone. Nobody else sends to the queue. The other queues are counted by copies, as in
`OutboxRelay`. **`DeliveryPromise`** says what the whole promises one consumer: an event
is settled only when its queue holds it or it is recorded, let go only when recorded,
recorded only when its work was done, and the work is done once and once more for each
excuse. The refinement takes for `held` the events with a copy on the queue, on its
dead-letter queue or in an operator's hands, and `slips` for the excuses: the relay's
own repeats excuse nothing.

**`SweepScheduler`** keeps, per sweep, the timer, the guard flag beside the actual
number of passes, the ticks waiting for their heartbeat write, and the age of the last
success (ages beyond three cadences are one value). `Stop`, its deadline, the
disconnect after it and `Boot` follow `main.ts`. **`WorkerSweeps`** is what it runs:
the registry `SWEEPS`, the cadences `parseWorkerEnv` takes from an environment or the
issues it refuses to boot with, and the one-shot run, which stops at the first sweep
that throws. Its ASSUMEs (every boot has a cadence for each sweep; every event a
sweep can publish belongs to one of the registry) are evaluated by the scheduler's run.

**`DomainEvents`** is the catalogue of integration events: the aggregate, the payload,
the producing requests and sweeps, the subscribed queues. `Untold` lists the commands
that append nothing (ending a guardianship, renaming a family, invitations, session
changes). Its ASSUMEs are evaluated by the relay's and the scheduler's runs.

**`TaskSeries`** holds the task rows. Every command locks the one row it changes before it
reads it, so it is one action here, guarded by the version the client expects. Time is in
half-days so that a due date (midnight) and a due time differ. A command reads its clock
before it waits for the row, so the moment it closes or reports at is any the clock has
shown (`ClockReadings`). `stopped` is history: tasks cancelled with their series. Erasure
of a family is two actions, the snapshot of the DELETE and its end: a successor inserted
in between stays. Sweeps keep what they discovered and check it again under the lock.

**`Family`** is the opposite case: nothing is locked. A request is admitted with the
standing the guards resolved (`Admit`), reads its rows and decides what to write
(one action per command), and writes whole rows with its commit (`Commit`), which the
four partial unique indexes may refuse. What is decided and not yet written is
`request[p].writes`. The reads of one command are one step: an interleaving inside
them is left out. `raced` and `overwrote` are history: a request committed after one
it overlapped, and a member row was saved that had changed since it was read. `stray` holds
the invitations an overtaken request left pending in a family to be deleted.
`Uncovered` is what the guardian-coverage sweep counts.

**`Identity`** has requests of the same shape over users, links and sessions: read,
decide, save whole rows. A save is an upsert, so a row a sweep deleted can come back,
unless a foreign key or the unique address refuses it. The one lock that matters, the
user row that a deletion saves before it lists the sessions, is kept. Rows hold ages;
a tick is longer than a request.

**`Calendar`** has writers that lock the event row, read its occurrences, and commit what
they decided, and the sweep: `SweepPasses` extends one event after another, each in a
transaction that may fail, and prunes with a statement that waits for nobody's lock; each
uses a clock read at some moment of the pass, before it got that far. A rule is a step and
a count here, since **`Recurrence`** says what a rule means: `Expand`,
`NextOccurrenceAfter` and the zone arithmetic as functions, and beside them the definition
of RFC 5545 they are compared with. A behaviour of `Recurrence` expands one window after
another, as the horizon moves.

**`ApiRoutes`** is one table: for every route its rate limits, guards, use of the
idempotency key and kind of command. **`ApiContracts`** relates, for every route, the
problems the contract declares, the errors the command returns and what the handler makes
of them; its ASSUME says that whatever a handler answers is declared. **`Api`** moves a
request through them: `Send`, `Authenticate` (source limit, session), `Admit` (route
limits, standing, capability), `LookUp`, `RunCommand`, `Save`, `Deliver`. A call is what a
client wants done once; it sends it again until it has an answer to keep. `blind` is
history: calls whose key was looked up while their work was done and not stored.

**`Reading`** is one reader. The visibility is resolved first, a page is two statements
(ids, rows), a range two (visible, hidden), a detail one; the audit rows go out with
the answer. A page is a set here: the rows that match and precede every other one that
does, as many as the limit allows, with its last row for the cursor. Closing moments may
tie, since a command's clock is read before its row is locked. What the others do
is seen from the tables only.

`MC*` modules give the constants of their module values for TLC. The theorems stand
in modules of their own: `EventDeliveryProofs` has those of relay, consumer and path,
the others are `SweepSchedulerProofs`, `TaskSeriesProofs`, `FamilyProofs`,
`IdentityProofs`, `CalendarProofs`, `ApiProofs` and `ReadingProofs`.

How they fit. `Api` runs a command without its content, the context modules are those
commands; `Calendar` and `TaskSeries` use what `Recurrence` establishes; `OutboxRelay`
takes rows whose types and destinations `DomainEvents` has; `SweepScheduler` runs the
list in `WorkerSweeps`, whose effects are actions of `Identity`, `Family`, `Calendar`,
`TaskSeries` and `OutboxRelay`. Relay, queue and consumer are composed in
`EventDelivery`. The others are checked one by one: each module keeps of the others what
its own steps can observe.

## Runs

| Run | Shows | Instance |
|---|---|---|
| `OutboxRelay_relays` | `DuplicatesAccountedFor`, the refinement `RefinesOutbox`, and `EveryRowPublished` | two relays, a row for two queues and a row for none, two faults anywhere |
| `QueueConsumer_pollers` | `RepeatsAccountedFor`, `EveryMessageSettles`, `LetterIsFound` | two pollers, an event and a malformed message, two receives each, crashes and peeks at any time |
| `EventDelivery_path` | `NoEventVanishes`, the refinement `KeepsPromise`, and `EveryEventEnds` | a relay and a poller, a row for the consumed queue and another one, one fault of the relay, two receives, crashes of the poller at any time |
| `SweepScheduler_sweeps` | `NoOverlap`, `CleanStopIsQuiet`, `AlertedOnce`, `StallIsAlerted` | two sweeps of different cadence, hanging, failing and succeeding passes |
| `TaskSeries_tasks` | `OneNewestHead`, `OneSuccessor`, `NoGap`, `NotAnnouncedAgain`, `SuccessorStartsAhead`, `VersionNamesState`, `EveryMissIsAnnounced` | three tasks of one series under two rules, the first due on a date that is over at 4; a clock that shows 0 or 8; three changes by a member, two sweeps, erasure at any time |
| `Family_requests` | `OwnedUnlessOverwritten`, `GuardedUnlessRaced`, `DeletionFreezes` | two requests at once, six in all; founder, invited adult, child; two guardianships, one invitation |
| `Family_one_owner` | a finding, below | the same, four requests |
| `Identity_requests` | `SupersededStaysShut`, `DeletedKeepsNoSession`, `EndsAreFinal`, `DeletionCompletes` | two requests at once, six in all; one address, two accounts one after the other, two sessions, two links, three tokens |
| `Calendar_requests` | `OccurrencesFollowTheRule`, `CancellationSurvives`, `HorizonCatchesUp` | one event, a daily rule and a counted one, two requests at once, three in all, three days, one failing transaction |
| `Api_requests` | `DoneOnce`, `OneAnswerAKey`, `AnswersAreOnesOwn`, `GoneAreToldNothing`, `EveryCallIsAnswered` | two calls of one user under one key, in three ways: adding a member and inviting into one family, completing a task in each of two families, cancelling an event and an occurrence of one family; two requests at once, a limit of one, one fault |
| `Recurrence_windows` | `ExpandsTheRule`, `ExhaustedIsOver`, `NextIsNext` | fifteen series in London, New York and two zones of one offset, windows to the third year |
| `Reading_pages` | `ShownAsAudited`, `PagesMissNothing` | three tasks on pages of one, one event, one child, four changes |

Why these bounds are enough. Two relays, two pollers, two sweeps or two requests are what
a race needs; a third adds a repetition. In `OutboxRelay` a row with two destinations has
a state between them, the row without one shows that "sent everywhere" may be vacuous, and
two faults allow a fault during the recovery from one. In `QueueConsumer` two receives per
message allow one redelivery and then redrive. In `EventDelivery` the fault is a lost
answer, a lost transaction or a crash before or after the send, each of which brings a
second message of the same event while the first is waiting, in work, recorded or dead;
races within one side are what the two runs before it are for; the theorems of the path
hold for any number of pollers and faults. In `TaskSeries` three tasks are a chain of two
successors; three changes after the creation are a close, a reopening and another close or
an edit of the rule; one rule has five readings, the other none after its anchor, so that
a chain goes on and ends; the clock goes from before the first due moment to two readings
past it, so that a close is early, or so late that readings were missed, and two sweeps
may report the miss. Other clocks, rules and numbers of changes are left to the theorems,
which hold for any. In `Family` six requests are the shortest way to a child with two
guardians who both go; the requests differ in nothing but their names, so TLC takes them
as symmetric, and no liveness is asked there. In `Identity` six requests are a
registration, a verification and two sign-ins with room for a renewal beside a deletion;
the second account is one that takes the address of an erased one; three tokens are a
rotation, and a rotation of the other session. In `Calendar` a window of four days moves
twice, which is a prune and two extensions; a creation, a cancellation of one occurrence
and an overlapping edit are three requests. In `Api` one fault lies anywhere in either
request, and the key is the same for two things: on two routes that share a scope, on one
route in two families, and on two routes of one family that have scopes of their own
(`Plans`). In `Recurrence` the windows meet four clock changes, a leap day, month ends and
the end of every rule that has one. In `Reading` pages of one put every pair of neighbours
across a page break.

`MaxFaults`, `MaxCutoff`, `MaxWaiting`, `Horizon`, `MaxCreated`, `Moments`,
`MaxVersion`, `MaxServed`, `MaxToken`, `MaxDay`, `MaxFailures`, `MaxEffects`,
`MaxChanges`, `MaxWidth`, `MaxPeriods`, `MaxSteps`, `MaxOccurrences` and `Reach` bound
what the code leaves open or bounds much further out (`MaxPeriods` is 200 000 and
`MaxSteps` 64 there); `CHECK_DEADLOCK FALSE` stands where those bounds let a run come
to an end.

For each property of a passing run a mutant of a mapped definition (an operator
beside it, "Mutant of ...") makes TLC find it violated.

### Fairness

`OutboxRelay`: a tick that meets no fault goes on and a dead worker is restarted (the
scheduler awaits every tick; the container has a restart policy). Nothing makes a producer
append, and faults are finitely many, so `EveryRowPublished` says what happens once they
are over. `QueueConsumer`: polls go on, dead pollers restart, hidden messages reappear,
the relay ticks; strong fairness on a receive that contains a given message is the
broker's promise to hand out every visible message in the end. Handlers may fail for ever.
`EventDelivery`: the same of both, each of its steps taken with what the other side sees
of it. `SweepScheduler`: time passes, due timers fire, file writes settle, a stop whose
wait is over returns. Nothing makes a pass end. `TaskSeries`: every sweep discovers, and a
task that is discovered again and again is reported in the end by one of them (strong
fairness of each task's report, whoever makes it, by the present clock: not every attempt
fails or waits for its row until the clock has moved on). `Identity`: time passes, a
request ends one way or the other, the erasing sweep runs. `Calendar`: the sweep is called
again and again and a transaction ends, by commit or by its time limit. `Api`: the client
keeps asking, a request that arrived is handled to its end, rate windows pass. `Family`,
`Reading` and `Recurrence` state no liveness and need none.

## Proofs

Each theorem holds for every value of the constants that satisfies the named ASSUMEs
of its module: any number of processes, requests, tasks, sessions and rows, any bounds.
Where a run checks the same property, the run is the small instance of it; three
properties have no run of their own, since breaking one breaks another that is run:
`PublishedWasDelivered` is what `RefinesOutbox` asks of settling, `AckedWasProcessed` what
`KeepsPromise` asks of letting go, and a row in two open claims (`ClaimsAreExclusive`) is
sent twice with no setback to pay for it (`DuplicatesAccountedFor`). In every
module the proof is one inductive invariant (`IInv`; of the consumer `ConsumerInv`, of
the path `PathInv`), checked by TLC on the run's instance before it was proved, with one
lemma per action, or one for a group of actions that change the same things.

| Module | Theorem | States |
|---|---|---|
| `EventDeliveryProofs` | `NoEventLost` | `PublishedWasDelivered` |
| | `ExclusiveClaims` | `ClaimsAreExclusive` |
| | `DuplicatesArePaidFor` | `DuplicatesAccountedFor` |
| | `ImplementsAtLeastOnce` | `RefinesOutbox` |
| | `NoEventAckedUnprocessed` | `AckedWasProcessed` of `QueueConsumer` |
| | `EveryRepeatHasItsSlip` | `RepeatsAccountedFor` of `QueueConsumer` |
| | `NothingVanishes` | `NoEventVanishes` |
| | `PathKeepsPromise` | `KeepsPromise` |
| | `SidesKeepTheirOwn` | the invariants of both sides, of the path |
| `SweepSchedulerProofs` | `PassesNeverOverlap` | `NoOverlap` |
| | `QuietAfterCleanStop` | `CleanStopIsQuiet` |
| | `OneAlertAStall` | `AlertedOnce` |
| `TaskSeriesProofs` | `TheHeadIsNewest` | `OneNewestHead` |
| | `SpawnsAtMostOnce` | `OneSuccessor` |
| | `SeriesGoesOn` | `NoGap` |
| | `AnnouncedMomentsDiffer` | `NotAnnouncedAgain` |
| | `SuccessorsStartAhead` | `SuccessorStartsAhead` (action) |
| | `VersionsNameStates` | `VersionNamesState` (action) |
| `FamilyProofs` | `OneOwner` | `OwnedUnlessOverwritten` |
| | `EveryChildGuarded` | `GuardedUnlessRaced` |
| | `DeletionIsFinal` | `DeletionFreezes` (action) |
| `IdentityProofs` | `SupersededTokensOpenNothing` | `SupersededStaysShut` |
| | `DeletionEndsSessions` | `DeletedKeepsNoSession` |
| | `EndingsStay` | `EndsAreFinal` (action) |
| `CalendarProofs` | `RuleIsFollowed` | `OccurrencesFollowTheRule` |
| | `CancelledStaysCancelled` | `CancellationSurvives` (action) |
| `ApiProofs` | `EffectsHappenOnce` | `DoneOnce` |
| | `AKeyHasOneAnswer` | `OneAnswerAKey` |
| | `TheGoneLearnNothing` | `GoneAreToldNothing` |
| | `AnswersAreOfTheirCall` | `AnswersAreOnesOwn` |
| `ReadingProofs` | `ReadsAreAudited` | `ShownAsAudited` |
| | `PagesAreComplete` | `PagesMissNothing` |
| each | `TypeCorrect` (of the consumer `ConsumerTypes`) | `TypeOK` |

What the invariants add, and why the properties do not carry themselves:

*Relay.* A row is marked from `finished`, so `TickDelivered` says that a finished row
has a copy on each of its queues and the row in hand one on each queue no longer in
`left`; `TickShape` says in which phases a claim can be open. The refinement uses both:
a send is `Deliver` because the row in hand is committed, `MarkAndCommit` is `Settle`
because of `TickDelivered`, every other step stutters. Duplicates need a count of what
is still to come: `Paid` bounds the copies of a row on a queue together with the relays
that may still send it there (`MaySend`), with their transaction open or lost, by the
setbacks of the row and one for the claim that holds or has settled it.

*Consumer.* The order work, record, delete is `WorkBeforeRecord` and
`RecordBeforeDelete`. `WorkIsPaid` counts, with the work that was done, the pollers
about to do it once more: all but the first have their slips; and an event without a
record that nobody is working on has paid for the first too.

*Path.* Every step of `PathNext` is a step of the relay or none (`RelayMoves`) and a
step of the consumer or none (`ConsumerMoves`), so the invariants of the two hold on the
path as they stand. They say nothing of each other; `Joined` does: what the relay counts
as a copy on the queue has arrived there, nothing arrived but committed rows that
subscribe to it, and pollers hold only what arrived. With it the chain closes: marked
(`PublishedWasDelivered`), hence arrived, hence still there or deleted, hence recorded
(`AckedWasProcessed`). In the refinement a send is `Hold` or a stutter, marking is
`Settle` for the same reason, the handler's end is `Work` because `WorkIsPaid` counts the
poller that is about to do it, a deletion is `LetGo` or, while another copy is there, a
stutter, and dying over unrecorded work is an `Excuse`.

*Scheduler.* The guard flag equals the number of passes, the alert flag the number of
alerts of a stall, and a stop waits for exactly the sweeps in flight, which is what
makes its clean end quiet.

*Tasks.* `OneNewestHead` depends on the whole history of a series: rows are allocated
in order, a series bears the name of its first task, a predecessor has given up the
flag for good and is found by every erasure that finds its successor (`PredsStay`),
and whoever has no successor is the head (`OthersSucceeded`). A closed head is at
the end of its rule or in `stopped`, the tasks a member cancelled with their series
(`HeadsOver`); a cancellation of one instance puts nothing there, so it owes a successor.
That a rule has a least reading after a moment
(`LeastOf`) is proved by well-foundedness of the naturals, as is the next due moment's
lying ahead, for every rule. The marker equals the last announcement
(`MarkerTrue`).

*Family.* Nothing is locked, so the invariant speaks of what requests are about to
write. `KeepsOwner`: as long as the rows it replaces are the rows it read, a
transaction takes the owner away only if it brings one. `AllCovered` is stronger than
coverage: every guardianship has an active, eligible guardian, so letting one of two
go keeps the child covered; `KeepsCoverage` says it of the tables as a transaction
will leave them. Both hold until the request is `behind` one that raced it.
`DeletionFreezes` is said of each request by itself. `PromptFine`: a request that nobody
overtook, over a family that is to be deleted, can only take an invitation in `stray`, the
ones an overtaken request left pending after the deletion had voided the others.

*Identity.* A token is unique in the table and in what is about to be saved
(`TokensApart`): without the second half, two renewals of one session could bring a
superseded token back. `UserSaved` and `SessionSaved` say what a save may make of the
row that was read; the commit compares it with the row as it is, and `overwrote`
records where they differ. `ListsThem` uses the one lock: who holds the user row is
about to revoke every session of it that is open, so none is opened in between.

*Calendar.* A writer commits what it planned some time before, and in between a prune
may have run and the clock has moved. `Fits` says what a plan is worth until then: it
partitions the days its row produces in the window of the moment `t` it was made for,
and every stored row in the window of *now* is one it keeps or deletes; a row it keeps
may be missing only behind that window. The event's lock keeps everybody else from the
row, and pruning takes nothing in the window. `RunOut` says that a series without a
marker has its last occurrence behind the horizon, which is why `End` may move with
the clock; it rests on the only arithmetic in the proofs, that what is counted from
the start by steps is at most the last one (`Multiples`, `OverIsOver`). The run has one
length of events; the theorem has any.

*API.* `OnceFine` follows a key: who runs the command found no answer, and whatever was
done is stored or in the hands of one request; where another request was under way at
the look-up, the call is in `blind`. `StoredFine`: what a client was told is what is
stored. `WelcomeFine` follows the guards for a caller who has lost what it takes, or
gains it while under way. `OwnFine` says of every stored and every pending answer whose it
is; `OneKeyOneScope`, that two keyed calls of one user have one stored key only if they are
on one route of one family, or add to it in two ways (`SharesScope`). The ASSUME `KeyKinds`
says which routes have which kind of key, and TLC evaluates it on the actual table.

*Reading.* `SeenFine` says that a steady task was met once if it lies behind the cursor
and not at all if it lies ahead. It holds because a page under way `TakesUp` the list
without a gap: its rows lie ahead of the reader and not after its last row, and steady
tasks that lie ahead and are not on it lie after that row. That is true of the statement
that selects (`SelectedFine`) and stays true until the answer (`AnsweringFine`), since
changes under way take a task out of the steady ones, unless they move the last row
itself. That positions are totally ordered, by the id where the moments are equal, is
all that is needed of sorting. `AuditFine` is `ShownAsAudited` from the first of two
statements on.

Beyond the bounds, the ASSUMEs are: the relays and the guardianships are finitely many (a
sum over them is taken; each is a row or a process), `NoUser` is not a user, no request
has the name of the sweep or of nobody, the route table's kinds of keys (`RouteKinds`,
`KeyKinds`) and that handlers answer what the contract declares
(`HandlersKeepTheContract`), all evaluated by TLC on the actual table.

Model-checked only:

- liveness, which is out of the prover's reach: `EveryRowPublished`,
  `EveryMessageSettles`, `LetterIsFound`, `EveryEventEnds`,
  `StallIsAlerted`, `EveryMissIsAnnounced`,
  `DeletionCompletes`, `HorizonCatchesUp`, `EveryCallIsAnswered`;
- `Recurrence`: what an expansion computes for every rule needs induction over its
  periods (`ExpandsTheRule`, `ExhaustedIsOver`, `NextIsNext`).

## Findings

*Family.* `changeMemberRole` and `removeMember` save a member they read without a lock.
If `transferOwnership` to that member commits in between, the owner role is overwritten
and the family has no owner, although `specs/008-family-membership/spec.md:164` (SC-007)
says that every family has exactly one owner at every point in time. `Family_one_owner`
shows it; `OwnedUnlessOverwritten` says that nothing else takes the owner away.

Seen while modelling, visible in the definitions and not given a run of their own:

- *Relay.* A tick that finds the relay behind raises no lag alert when the queue depths
  cannot be read (`outbox-relay.sweep.ts:270`), which is when the broker is down.
- *Consumer.* A failing ledger or delete call rejects the whole poll and leaves the rest
  of its batch (`sqs-consumer.ts:109`), although the comment at `:75` promises otherwise.
- *Dead letters.* The alert is raised when a dead-letter queue was empty at the tick before
  (`outbox-relay.sweep.ts:175`, and `docs/staging-environment.md:100` says so), although
  `specs/011-outbox-relay/spec.md:61` asks for one when a message arrives there "for the
  first time for that message". A letter that comes beside one an alert told of is found
  with it; one that takes the place of a letter removed between two ticks is never alerted,
  by itself or by a newcomer beside it. `LetterIsFound` says that every other letter is.
- *Scheduler.* A sweep that has never succeeded since the worker started is never
  alerted (`scheduler.ts:267`, against FR-038 of `specs/010`).
- *Worker.* The one-shot run stops at the first sweep that throws, and the relay is the
  last. The coverage sweep counts guardianships, not whether the guardian is still an
  active adult. The heartbeat branch of `worker-env` cannot be reached; a queue name of
  blanks passes.
- *Tasks.* `successor.ts:37` takes the first reading strictly after the due moment. A
  task due on a date is due at the next midnight, which is the next daily reading, so a
  daily chore due on a date skips a day. The overdue marker forgets a moment that was
  announced before another.
- *Family.* Removing a child leaves its guardianships active and they count, so its
  guardian can never be removed or demoted (`remove-member.command.ts:49`). An adult
  removed while adding a child becomes its guardian; an acceptance overwrites a
  revocation; a rename overwrites a request for deletion.
- *Identity.* A sign-in that read the account before its deletion was requested saves
  it active again (`user.repository.ts:33`); `EndsAreFinal` and `DeletionCompletes`
  except exactly that overwriting.
  A renewal that read a live session before its revocation saves it live again
  (`session.aggregate.ts:124`); `EndsAreFinal` and `DeletedKeepsNoSession` except it.
- *Calendar.* An edit of a one-off event can lose its row to a prune that runs beside
  it; a range beyond the horizon answers with fewer occurrences than the rule has; a
  `now` read before a lock is waited for can set `materialised_through` back.
- *Reading.* `loadInOrder` reads the rows by id without the filter that selected them,
  so a task that changed in between is answered as it has become, and the cursor is
  taken from it; a task reopened in between makes the branch at `list-tasks.query.ts:148`
  that is called unreachable answer 500.
- *Keys.* `addMember` and `createInvitation` share a key scope
  (`family.controller.ts:333`, `:526`) although `common/idempotency.ts:19` says that two
  creating routes never collide: the hash of the route differs, and a difference is logged
  only. Whoever uses one key for both is told of the member when asking for the
  invitation, which is not made. The scopes of tasks and events leave the id out
  (`tasks.controller.ts:330`), so a second task completed under one key is answered with
  the first; `AnswersAreOnesOwn` names both cases; twins, or a crash between command and
  save, repeat a create, and the second save answers 500; `updateEvent` and
  `rescheduleOccurrence` ignore the key, and so does the acceptance of an invitation.
- *Contracts.* A role change of a child ends as 404 though the member exists; the 401
  of the session guard is declared by none of the family, task and calendar contracts
  and the 429 of the limits on sign-in only.

## Not modelled

*Inside modelled components.* The wording of logs and events, the counters of a poll and
of the depth alerts, lag measures, the audit rows of refused writes, e-mail and password
hashing, the export query, the household profile, and the erasure ports of Family and
Calendar (nothing calls them yet). Erasing a member's assignments is one step; a
completion that copied them before is left out. `Reading` takes the two statements of one
Prisma include as one. `Recurrence` does not read the text of a rule (`IsRule` is what the
parser lets through), counts in hours, is right from 1901 to 2099, and supposes no two
changes of a zone within 48 hours.

*Not modelled at all.* The unit of work and row-level security: their effect (one
family, READ COMMITTED, all or nothing) is the shape of every action here, and the
policies themselves are static SQL. Request and response schemas: pure validation. The
mobile app and design system: user interface. Build tooling and
`infrastructure/src/deploy.ts`, which migrates before it swaps containers on a staging
host: outside the running program.

## Plan

What the source does not need yet, or what is left out above:

1. The erasure ports of Family and Calendar, once something calls them.
2. Consumers beyond the one `pollOnce` loop, once a queue other than the verification
   queue has one: an instance of `EventDelivery` for each.
3. The audit rows of refused writes, beside the reads of `Reading`.
