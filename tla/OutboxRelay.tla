----------------------------- MODULE OutboxRelay -----------------------------
(***************************************************************************)
(* The outbox relay sweep (apps/worker/src/relay/outbox-relay.sweep.ts)    *)
(* over the outbox_event table and the queues it feeds.                    *)
(*                                                                         *)
(* Several relay processes may run at once: two workers during a deploy,   *)
(* or a worker beside the one-shot sweep CLI.  One tick measures the lag,  *)
(* claims the oldest unpublished unlocked rows in one transaction (FOR     *)
(* UPDATE SKIP LOCKED), sends each claimed row to its destinations in      *)
(* topology order, marks the rows that finished and commits; then it reads *)
(* the queue depths and reports.  The transaction dies alone when it       *)
(* outlives its 30 s limit or loses its connection: the row locks are      *)
(* gone, but the JavaScript loop inside it goes on sending.                *)
(*                                                                         *)
(* Rows are numbered by occurred_at.  Queues are numbered by their place   *)
(* in QUEUE_TOPOLOGY.                                                      *)
(***************************************************************************)
EXTENDS Naturals, FiniteSets

CONSTANTS
  Event,          \* outbox rows, numbered by occurred_at
  Queue,          \* queues, numbered by their place in QUEUE_TOPOLOGY
  Destinations,   \* Destinations[e]: the queues subscribed to e's event type
  Relay,          \* processes that run relay ticks
  BatchSize,      \* RELAY_BATCH_SIZE
  MaxFaults,      \* bound: crashes, lost transactions and broker errors
  MaxCutoff       \* bound: how far the lag threshold advances

ASSUME EventAssumption        == Event \subseteq Nat \ {0}
ASSUME QueueAssumption        == Queue \subseteq Nat
ASSUME DestinationsAssumption == Destinations \in [Event -> SUBSET Queue]
ASSUME RelayAssumption        == IsFiniteSet(Relay)
ASSUME BatchAssumption        == BatchSize \in Nat \ {0}
ASSUME BoundAssumption        == MaxFaults \in Nat /\ MaxCutoff \in Nat

NoRow == 0

Phase == {"idle", "claiming", "looping", "sending", "marking", "reporting",
          "down"}

VARIABLES
  committed,   \* rows whose producing transaction has committed
  published,   \* rows with published_at set
  copies,      \* copies[<<e, q>>]: messages for e ever put on queue q
  phase,       \* where each relay process is in its tick
  txOpen,      \* is the tick's claim transaction still open?
  batch,       \* rows returned by the tick's claim query
  todo,        \* rows of the batch the loop has not reached
  row,         \* row the loop is sending
  left,        \* destinations the row has not been sent to
  finished,    \* rows sent everywhere, to be marked
  lagSeen,     \* did the tick find a row older than the alert threshold?
  lagAlert,    \* lagAlertRaised, module state of each process
  cutoff,      \* rows up to this number are older than the threshold
  setbacks,    \* history: times a claimed row went back without being marked
  faults       \* history: faults so far, capped by MaxFaults

tickVars == <<batch, todo, row, left, finished>>
lagVars  == <<lagSeen, lagAlert, cutoff>>
vars == <<committed, published, copies, phase, txOpen, tickVars, lagVars,
          setbacks, faults>>

------------------------------------------------------------------------------
(* Helpers *)

IsLeast(x, S) == x \in S /\ \A y \in S : x <= y

\* Rows locked by the open claim transactions.
Locked == UNION {batch[r] : r \in {s \in Relay : txOpen[s]}}

Unpublished == committed \ published

\* Mutants of Claimable: no SKIP LOCKED; a claim that never looks at a row
\* again once it has failed.
ClaimableIgnoringLocks == Unpublished
ClaimableOnce          == {e \in Unpublished \ Locked : setbacks[e] = 0}

\* WHERE published_at IS NULL ... FOR UPDATE SKIP LOCKED
Claimable == Unpublished \ Locked

\* ORDER BY occurred_at LIMIT n
IsBatch(S) ==
  /\ S \subseteq Claimable
  /\ \A e \in S, f \in Claimable \ S : e < f
  /\ \/ Cardinality(S) = BatchSize
     \/ S = Claimable /\ Cardinality(S) < BatchSize

\* Rows the tick has claimed and neither marked nor given up.
InHand(r) == todo[r] \cup finished[r]
             \cup (IF row[r] = NoRow THEN {} ELSE {row[r]})

CountSetbacks(S) ==
  setbacks' = [e \in Event |-> setbacks[e] + (IF e \in S THEN 1 ELSE 0)]

Fault == faults < MaxFaults /\ faults' = faults + 1

GoTo(r, p) == phase' = [phase EXCEPT ![r] = p]

\* What a tick holds is local to one call of the sweep.
ForgetTick(r) ==
  /\ txOpen'   = [txOpen EXCEPT ![r] = FALSE]
  /\ batch'    = [batch EXCEPT ![r] = {}]
  /\ todo'     = [todo EXCEPT ![r] = {}]
  /\ row'      = [row EXCEPT ![r] = NoRow]
  /\ left'     = [left EXCEPT ![r] = {}]
  /\ finished' = [finished EXCEPT ![r] = {}]

------------------------------------------------------------------------------
Init ==
  /\ committed = {}
  /\ published = {}
  /\ copies    = [d \in Event \X Queue |-> 0]
  /\ phase     = [r \in Relay |-> "idle"]
  /\ txOpen    = [r \in Relay |-> FALSE]
  /\ batch     = [r \in Relay |-> {}]
  /\ todo      = [r \in Relay |-> {}]
  /\ row       = [r \in Relay |-> NoRow]
  /\ left      = [r \in Relay |-> {}]
  /\ finished  = [r \in Relay |-> {}]
  /\ lagSeen   = [r \in Relay |-> FALSE]
  /\ lagAlert  = [r \in Relay |-> FALSE]
  /\ cutoff    = 0
  /\ setbacks  = [e \in Event |-> 0]
  /\ faults    = 0

(* A command handler commits its aggregate and its outbox row together.    *)
(* occurred_at is taken when the transaction starts, so rows may become    *)
(* visible in any order.                                                   *)
Append(e) ==
  /\ e \notin committed
  /\ committed' = committed \cup {e}
  /\ UNCHANGED <<published, copies, phase, txOpen, tickVars, lagVars,
                 setbacks, faults>>

(* The clock moves on: one more row is older than the alert threshold. *)
TimePasses ==
  /\ cutoff < MaxCutoff
  /\ cutoff' = cutoff + 1
  /\ UNCHANGED <<committed, published, copies, phase, txOpen, tickVars,
                 lagSeen, lagAlert, setbacks, faults>>

(* A tick starts by measuring the lag, before it claims anything. *)
MeasureLag(r) ==
  /\ phase[r] = "idle"
  /\ GoTo(r, "claiming")
  /\ lagSeen' = [lagSeen EXCEPT ![r] = \E e \in Unpublished : e <= cutoff]
  /\ UNCHANGED <<committed, published, copies, txOpen, tickVars, lagAlert,
                 cutoff, setbacks, faults>>

(* The claim query of a new transaction; its rows stay locked until the    *)
(* transaction ends.                                                       *)
Claim(r) ==
  /\ phase[r] = "claiming"
  /\ \E S \in SUBSET Claimable :
       /\ IsBatch(S)
       /\ batch' = [batch EXCEPT ![r] = S]
       /\ todo'  = [todo EXCEPT ![r] = S]
  /\ txOpen' = [txOpen EXCEPT ![r] = TRUE]
  /\ GoTo(r, "looping")
  /\ UNCHANGED <<committed, published, copies, row, left, finished, lagVars,
                 setbacks, faults>>

(* The loop takes the next claimed row and resolves its destinations. *)
TakeRow(r) ==
  /\ phase[r] = "looping"
  /\ \E e \in todo[r] :
       /\ IsLeast(e, todo[r])
       /\ row'  = [row EXCEPT ![r] = e]
       /\ todo' = [todo EXCEPT ![r] = @ \ {e}]
       /\ left' = [left EXCEPT ![r] = Destinations[e]]
  /\ GoTo(r, "sending")
  /\ UNCHANGED <<committed, published, copies, txOpen, batch, finished,
                 lagVars, setbacks, faults>>

\* The broker accepts the message for the row's next destination.
Accept(r, q) ==
  copies' = [copies EXCEPT ![<<row[r], q>>] = @ + 1]

SendOk(r) ==
  /\ phase[r] = "sending"
  /\ \E q \in left[r] :
       /\ IsLeast(q, left[r])
       /\ Accept(r, q)
       /\ left' = [left EXCEPT ![r] = @ \ {q}]
  /\ UNCHANGED <<committed, published, phase, txOpen, batch, todo, row,
                 finished, lagVars, setbacks, faults>>

(* Mutant of SendFails: the row whose send failed is marked with the rest. *)
SendFailsYetFinished(r) ==
  /\ phase[r] = "sending"
  /\ Fault
  /\ left[r] # {}
  /\ finished' = [finished EXCEPT ![r] = @ \cup {row[r]}]
  /\ row'  = [row EXCEPT ![r] = NoRow]
  /\ left' = [left EXCEPT ![r] = {}]
  /\ GoTo(r, "looping")
  /\ UNCHANGED <<committed, published, copies, txOpen, batch, todo, lagVars,
                 setbacks>>

(* A send throws: the row is left for a later tick and the loop goes on    *)
(* with the next one.  The broker may have accepted the message and only   *)
(* the answer was lost.                                                    *)
SendFails(r) ==
  /\ phase[r] = "sending"
  /\ Fault
  /\ \E q \in left[r] :
       /\ IsLeast(q, left[r])
       /\ Accept(r, q) \/ UNCHANGED copies
  /\ row'  = [row EXCEPT ![r] = NoRow]
  /\ left' = [left EXCEPT ![r] = {}]
  /\ IF txOpen[r] THEN CountSetbacks({row[r]}) ELSE UNCHANGED setbacks
  /\ GoTo(r, "looping")
  /\ UNCHANGED <<committed, published, txOpen, batch, todo, finished,
                 lagVars>>

(* Every destination has the row, or it has none: it can be marked. *)
RowFinished(r) ==
  /\ phase[r] = "sending"
  /\ left[r] = {}
  /\ finished' = [finished EXCEPT ![r] = @ \cup {row[r]}]
  /\ row'      = [row EXCEPT ![r] = NoRow]
  /\ GoTo(r, "looping")
  /\ UNCHANGED <<committed, published, copies, txOpen, batch, todo, left,
                 lagVars, setbacks, faults>>

LoopEnds(r) ==
  /\ phase[r] = "looping"
  /\ todo[r] = {}
  /\ GoTo(r, "marking")
  /\ UNCHANGED <<committed, published, copies, txOpen, tickVars, lagVars,
                 setbacks, faults>>

(* Mutant of MarkAndCommit: the whole batch is marked, failed rows too. *)
MarkWholeBatch(r) ==
  /\ phase[r] = "marking"
  /\ txOpen[r]
  /\ published' = published \cup batch[r]
  /\ ForgetTick(r)
  /\ GoTo(r, "reporting")
  /\ UNCHANGED <<committed, copies, lagVars, setbacks, faults>>

(* The finished rows are marked and the claim transaction commits. *)
MarkAndCommit(r) ==
  /\ phase[r] = "marking"
  /\ txOpen[r]
  /\ published' = published \cup finished[r]
  /\ ForgetTick(r)
  /\ GoTo(r, "reporting")
  /\ UNCHANGED <<committed, copies, lagVars, setbacks, faults>>

(* Marking, or committing, on a transaction that is gone throws: the tick  *)
(* ends without reporting.                                                 *)
MarkThrows(r) ==
  /\ phase[r] = "marking"
  /\ ~txOpen[r]
  /\ ForgetTick(r)
  /\ GoTo(r, "idle")
  /\ UNCHANGED <<committed, published, copies, lagVars, setbacks, faults>>

(* The transaction exceeds 30 s or its connection drops: it is rolled back *)
(* and its locks are released while the loop, which only talks to the      *)
(* broker, carries on.                                                     *)
TxAborts(r) ==
  /\ txOpen[r]
  /\ Fault
  /\ txOpen' = [txOpen EXCEPT ![r] = FALSE]
  /\ CountSetbacks(InHand(r))
  /\ UNCHANGED <<committed, published, copies, phase, tickVars, lagVars>>

(* The queue depths are read, then the lag measured at the start of the    *)
(* tick is reported.                                                       *)
Report(r) ==
  /\ phase[r] = "reporting"
  /\ lagAlert' = [lagAlert EXCEPT ![r] = lagSeen[r]]
  /\ GoTo(r, "idle")
  /\ UNCHANGED <<committed, published, copies, txOpen, tickVars, lagSeen,
                 cutoff, setbacks, faults>>

(* Reading the depths throws: neither report runs. *)
ReportFails(r) ==
  /\ phase[r] = "reporting"
  /\ Fault
  /\ GoTo(r, "idle")
  /\ UNCHANGED <<committed, published, copies, txOpen, tickVars, lagVars,
                 setbacks>>

(* The process dies: an open claim is rolled back, module state is lost. *)
Crash(r) ==
  /\ phase[r] # "down"
  /\ Fault
  /\ IF txOpen[r] THEN CountSetbacks(InHand(r)) ELSE UNCHANGED setbacks
  /\ ForgetTick(r)
  /\ GoTo(r, "down")
  /\ lagSeen'  = [lagSeen EXCEPT ![r] = FALSE]
  /\ lagAlert' = [lagAlert EXCEPT ![r] = FALSE]
  /\ UNCHANGED <<committed, published, copies, cutoff>>

Restart(r) ==
  /\ phase[r] = "down"
  /\ GoTo(r, "idle")
  /\ UNCHANGED <<committed, published, copies, txOpen, tickVars, lagVars,
                 setbacks, faults>>

------------------------------------------------------------------------------
\* The steps of a tick that meets no fault.
TickStep(r) ==
  \/ MeasureLag(r) \/ Claim(r) \/ TakeRow(r) \/ SendOk(r) \/ RowFinished(r)
  \/ LoopEnds(r) \/ MarkAndCommit(r) \/ MarkThrows(r) \/ Report(r)

FaultStep(r) ==
  SendFails(r) \/ TxAborts(r) \/ ReportFails(r) \/ Crash(r)

Next ==
  \/ \E e \in Event : Append(e)
  \/ TimePasses
  \/ \E r \in Relay : TickStep(r) \/ FaultStep(r) \/ Restart(r)

\* The scheduler starts a tick every cadence and awaits it; the container
\* restarts a dead worker.  Nothing makes a producer append.
Fairness == \A r \in Relay : WF_vars(TickStep(r)) /\ WF_vars(Restart(r))

Spec == Init /\ [][Next]_vars /\ Fairness

------------------------------------------------------------------------------
(* Properties *)

\* Types; only committed rows are claimed or settled
\* (claimUnpublishedOutboxEvents reads committed rows only).
TypeOK ==
  /\ committed \subseteq Event
  /\ published \subseteq committed
  /\ copies \in [Event \X Queue -> Nat]
  /\ phase \in [Relay -> Phase]
  /\ txOpen \in [Relay -> BOOLEAN]
  /\ batch \in [Relay -> SUBSET committed]
  /\ todo \in [Relay -> SUBSET Event]
  /\ row \in [Relay -> Event \cup {NoRow}]
  /\ left \in [Relay -> SUBSET Queue]
  /\ finished \in [Relay -> SUBSET Event]
  /\ lagSeen \in [Relay -> BOOLEAN]
  /\ lagAlert \in [Relay -> BOOLEAN]
  /\ cutoff \in Nat
  /\ setbacks \in [Event -> Nat]
  /\ faults \in Nat

\* No event is lost: a row with published_at set has been put on every queue
\* subscribed to it, whatever crashed, timed out or failed on the way
\* (spec 011 FR-003, FR-022).
PublishedWasDelivered ==
  \A e \in published : \A q \in Destinations[e] : copies[<<e, q>>] > 0

\* Two open claim transactions never hold the same row, and none holds a row
\* already marked: SKIP LOCKED is the only thing that keeps relays apart
\* (spec 011 FR-023).
ClaimsAreExclusive ==
  \A r \in Relay : txOpen[r] =>
    /\ batch[r] \subseteq Unpublished
    /\ \A s \in Relay \ {r} : txOpen[s] => batch[r] \cap batch[s] = {}

\* A queue gets a second copy of an event only if a claim of its row was lost
\* or its send failed before: each extra copy is paid for by one setback of
\* that row, even while a tick that lost its transaction is still sending.
DuplicatesAccountedFor ==
  \A e \in Event, q \in Queue : copies[<<e, q>>] <= setbacks[e] + 1

\* Every committed row is published in the end, once faults stop
\* (spec 011 FR-001, FR-022).
EveryRowPublished ==
  \A e \in Event : (e \in committed) ~> (e \in published)

\* The relay implements at-least-once delivery.
Outbox == INSTANCE AtLeastOnceOutbox WITH
  delivered <- {d \in Event \X Queue : copies[d] > 0}
RefinesOutbox == Outbox!Spec
==============================================================================
