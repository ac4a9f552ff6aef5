---------------------------- MODULE EventDelivery ----------------------------
(***************************************************************************)
(* The whole path of an event: the relay (OutboxRelay) takes it from the   *)
(* outbox, the queue Consumed gets its copies, the pollers of that queue   *)
(* (QueueConsumer) work on it.  They meet in three places: a copy the      *)
(* broker accepts for Consumed is a message of that queue; a tick that     *)
(* reports has read the depth of its dead-letter queue; and what the tick  *)
(* before saw is lost with the process.  The other queues of the topology  *)
(* are counted by copies only.                                             *)
(***************************************************************************)
EXTENDS OutboxRelay

CONSTANTS
  Consumed,     \* the queue whose consumer is followed
  Watcher,      \* the relay process whose dead-letter alert is followed
  Message,      \* messages of Consumed, numbered
  EventOf,      \* EventOf[m]: the eventId in the envelope of m
  Malformed,    \* messages whose body is not a relay envelope
  Poller,       \* processes that call pollOnce
  MaxReceive,   \* maxReceiveCount of Consumed
  PollSize      \* MaxNumberOfMessages of one receive

ASSUME PathAssumption == Consumed \in Queue /\ Watcher \in Relay
ASSUME ConsumerAssumption ==
  /\ Message \subseteq Nat \ {0} /\ Malformed \subseteq Message
  /\ EventOf \in [Message \ Malformed -> Event]
  /\ MaxReceive \in Nat \ {0} /\ PollSize \in Nat \ {0}

VARIABLES
  place, visible, receives, ledger, effects, slips,
  pollPhase,    \* QueueConsumer's phase
  pollBatch,    \* QueueConsumer's batch
  msg, receipt, dlqSeen,
  told, overlooked, taken   \* history of the dead-letter alert

Consuming == INSTANCE QueueConsumer WITH
  BatchSize <- PollSize, phase <- pollPhase, batch <- pollBatch

consumerVars == <<place, visible, receives, ledger, effects, slips,
                  pollPhase, pollBatch, msg, receipt,
                  dlqSeen, told, overlooked, taken>>
pathVars == <<vars, consumerVars>>

Subscribed == {e \in Event : Consumed \in Destinations[e]}
CopiesOf(e) == {m \in Message \ Malformed : EventOf[m] = e}

------------------------------------------------------------------------------
PathInit == Init /\ Consuming!Init

\* A copy accepted for Consumed is a message there that its pollers can receive.
Reaches(r) == copies'[<<row[r], Consumed>>] # copies[<<row[r], Consumed>>]
Arrival(r) ==
  IF Reaches(r) THEN \E m \in CopiesOf(row[r]) : Consuming!Send(m)
                ELSE UNCHANGED consumerVars

Delivers(r)     == SendOk(r) /\ Arrival(r)
FailsToSend(r)  == SendFails(r) /\ Arrival(r)

\* A tick that reports has read the depths of all queues.
ReportsDepths(r) ==
  /\ Report(r)
  /\ IF r = Watcher THEN Consuming!ReportDeadLetters ELSE UNCHANGED consumerVars

\* dlqNonEmptyLastTick is lost with the process.
Dies(r) ==
  /\ Crash(r)
  /\ IF r = Watcher THEN Consuming!RelayRestarts ELSE UNCHANGED consumerVars

TickGoesOn(r) ==
  \/ Delivers(r) \/ ReportsDepths(r)
  \/ /\ \/ MeasureLag(r) \/ Claim(r) \/ TakeRow(r) \/ RowFinished(r)
        \/ LoopEnds(r) \/ MarkAndCommit(r) \/ MarkThrows(r)
     /\ UNCHANGED consumerVars

Restarts(r) == Restart(r) /\ UNCHANGED consumerVars

RelayStep(r) ==
  \/ TickGoesOn(r) \/ FailsToSend(r) \/ Dies(r) \/ Restarts(r)
  \/ (TxAborts(r) \/ ReportFails(r)) /\ UNCHANGED consumerVars

\* What goes on at the queue while the relay does nothing.  Nobody but the relay
\* sends to it.
QueueStep ==
  \/ \E m \in Message : Consuming!Reappear(m) \/ Consuming!Drain(m)
  \/ \E p \in Poller :
       \/ Consuming!ReceiveStep(p) \/ Consuming!PollStep(p)
       \/ Consuming!Crash(p) \/ Consuming!Restart(p)
       \/ \E S \in SUBSET Consuming!Available : Consuming!ReceiveLost(p, S)
  \/ \E S \in SUBSET Consuming!Available : Consuming!Peek(S)

PathNext ==
  \/ ((\E e \in Event : Append(e)) \/ TimePasses) /\ UNCHANGED consumerVars
  \/ \E r \in Relay : RelayStep(r)
  \/ QueueStep /\ UNCHANGED vars

\* The fairness of the two, of the steps as they are taken here.
PathFairness ==
  /\ \A r \in Relay : WF_pathVars(TickGoesOn(r)) /\ WF_pathVars(Restarts(r))
  /\ \A p \in Poller :
       /\ WF_pathVars(Consuming!PollStep(p) /\ UNCHANGED vars)
       /\ WF_pathVars(Consuming!Restart(p) /\ UNCHANGED vars)
  /\ \A m \in Message :
       /\ WF_pathVars(Consuming!Reappear(m) /\ UNCHANGED vars)
       /\ SF_pathVars(/\ \E p \in Poller : \E S \in SUBSET Consuming!Available :
                           m \in S /\ Consuming!Receive(p, S)
                      /\ UNCHANGED vars)

PathSpec == PathInit /\ [][PathNext]_pathVars /\ PathFairness

------------------------------------------------------------------------------
(* Properties *)

\* Events the queue or its dead-letter queue has, or an operator has taken.
InCustody == {e \in Event : \E m \in CopiesOf(e) : place[m] \in {"queue", "dlq", "drained"}}

\* No event vanishes between the outbox and the consumer: one marked as
\* published has been worked on and recorded, or a copy of it is still there,
\* whatever crashed, timed out, was lost or came twice on either side
\* (spec 011 FR-003, FR-013; outbox-relay.sweep.ts and sqs-consumer.ts).
NoEventVanishes == published \cap Subscribed \subseteq InCustody \cup ledger

\* Every event committed for the consumer is worked on and recorded in the end,
\* or a person has to look at a dead letter with it (FR-001, FR-013, FR-022).
EveryEventEnds ==
  \A e \in Event :
    e \in committed \cap Subscribed ~>
      \/ e \in ledger
      \/ \E m \in CopiesOf(e) : place[m] \in {"dlq", "drained"}

\* The path keeps the promise: also repeats of the relay cost no second piece
\* of work, unless the consumer itself slips (FR-011).
Promise == INSTANCE DeliveryPromise WITH
  held <- InCustody, worked <- effects, recorded <- ledger, excuses <- slips
KeepsPromise == Promise!Spec
==============================================================================
