---------------------------- MODULE QueueConsumer ----------------------------
(***************************************************************************)
(* SqsConsumer.pollOnce (packages/platform/src/sqs-consumer.ts) over one   *)
(* queue of infrastructure/elasticmq/queues.conf, its dead-letter queue    *)
(* and the processed_event ledger.                                         *)
(*                                                                         *)
(* A poll receives a batch, and for each message parses the envelope,      *)
(* looks the event up in the ledger, runs the handler, records the event   *)
(* and deletes the message: five separate calls, each of which can fail,   *)
(* with other pollers of the same queue at work in between.  A message     *)
(* that is not deleted within the visibility timeout is handed out again,  *)
(* and after MaxReceive receives it goes to the dead-letter queue, which   *)
(* the relay's tick watches.  The broker is external: it is modelled from  *)
(* its configuration and from how the source and its tests use it.         *)
(***************************************************************************)
EXTENDS Naturals, FiniteSets

CONSTANTS
  Event,        \* events, by id
  Message,      \* copies put on the queue, numbered; an event may have several
  EventOf,      \* EventOf[m]: the eventId in the envelope of m
  Malformed,    \* messages whose body is not a relay envelope
  Poller,       \* processes that call pollOnce
  MaxReceive,   \* maxReceiveCount of the queue
  BatchSize     \* MaxNumberOfMessages of one receive

ASSUME MessageAssumption   == Message \subseteq Nat \ {0}
ASSUME MalformedAssumption == Malformed \subseteq Message
ASSUME EventOfAssumption   == EventOf \in [Message \ Malformed -> Event]
ASSUME LimitAssumption     == MaxReceive \in Nat \ {0} /\ BatchSize \in Nat \ {0}

NoMessage == 0

Place == {"unsent", "queue", "deleted", "dlq", "drained"}
Phase == {"idle", "looping", "handling", "marking", "deleting", "down"}

VARIABLES
  place,      \* where each message is
  visible,    \* can the message be received?
  receives,   \* how often it was received (ApproximateReceiveCount)
  ledger,     \* events with a processed_event row
  effects,    \* history: how often the handler did its work for the event
  slips,      \* history: races and lost records that excuse a repeat
  phase,      \* where each poller is in pollOnce
  batch,      \* messages of the poll it has not reached
  msg,        \* message it is processing
  receipt,    \* receipt[p][m]: which receive of m the poller holds
  dlqSeen,    \* dlqNonEmptyLastTick of the relay process
  told,       \* history: dead letters an alert told of, or lying beside one
  overlooked, \* history: ones that came to a flag a removed letter had left up
  taken       \* history: has an operator removed a letter since the last tick?

queueVars  == <<place, visible, receives>>
pollVars   == <<phase, batch, msg, receipt>>
recordVars == <<ledger, effects, slips>>
alertVars  == <<dlqSeen, told, overlooked, taken>>
vars == <<queueVars, pollVars, recordVars, alertVars>>

------------------------------------------------------------------------------
(* Helpers *)

OnQueue(m)   == place[m] = "queue"
Available    == {m \in Message : OnQueue(m) /\ visible[m]}

Exhausted(m) == receives[m] >= MaxReceive

Returned(S) == {m \in S : ~Exhausted(m)}

\* The broker hands out S: messages at the limit go to the dead-letter queue
\* instead, and the others are counted once more.
HandOut(S) ==
  /\ place'    = [m \in Message |->
                    IF m \in S \ Returned(S) THEN "dlq" ELSE place[m]]
  /\ receives' = [m \in Message |->
                    receives[m] + (IF m \in Returned(S) THEN 1 ELSE 0)]

Hide(S) == visible' = [m \in Message |-> visible[m] /\ m \notin S]

EventIn(p) == EventOf[msg[p]]

\* Pollers between the ledger look-up and the ledger entry for e.
AtWorkOn(e) ==
  {p \in Poller : phase[p] \in {"handling", "marking"} /\ EventIn(p) = e}

GoTo(p, ph) == phase' = [phase EXCEPT ![p] = ph]

\* The poll is over for p, whatever is left of its batch.
Leave(p, ph) ==
  /\ GoTo(p, ph)
  /\ batch' = [batch EXCEPT ![p] = {}]
  /\ msg'   = [msg EXCEPT ![p] = NoMessage]
  /\ receipt' = [receipt EXCEPT ![p] = [m \in Message |-> 0]]

\* p is done with its message and goes on with the batch.
NextMessage(p) ==
  /\ GoTo(p, "looping")
  /\ msg' = [msg EXCEPT ![p] = NoMessage]
  /\ receipt' = [receipt EXCEPT ![p][msg[p]] = 0]
  /\ UNCHANGED batch

Slip(S) == slips' = [e \in Event |-> slips[e] + (IF e \in S THEN 1 ELSE 0)]

\* The work p did for its event goes unrecorded if the poll ends now.
Unrecorded(p) == IF phase[p] = "marking" THEN {EventIn(p)} ELSE {}

------------------------------------------------------------------------------
Init ==
  /\ place    = [m \in Message |-> "unsent"]
  /\ visible  = [m \in Message |-> FALSE]
  /\ receives = [m \in Message |-> 0]
  /\ ledger   = {}
  /\ effects  = [e \in Event |-> 0]
  /\ slips    = [e \in Event |-> 0]
  /\ phase    = [p \in Poller |-> "idle"]
  /\ batch    = [p \in Poller |-> {}]
  /\ msg      = [p \in Poller |-> NoMessage]
  /\ receipt  = [p \in Poller |-> [m \in Message |-> 0]]
  /\ dlqSeen  = FALSE
  /\ told     = {}
  /\ overlooked = {}
  /\ taken    = FALSE

(* The relay puts a message on the queue. *)
Send(m) ==
  /\ place[m] = "unsent"
  /\ place'   = [place EXCEPT ![m] = "queue"]
  /\ visible' = [visible EXCEPT ![m] = TRUE]
  /\ UNCHANGED <<receives, pollVars, recordVars, alertVars>>

(* ReceiveMessage returns a batch, and the loop over it starts. *)
Receive(p, S) ==
  /\ phase[p] = "idle"
  /\ S \subseteq Available
  /\ S # {}
  /\ Cardinality(S) <= BatchSize
  /\ HandOut(S)
  /\ Hide(Returned(S))
  /\ GoTo(p, "looping")
  /\ batch' = [batch EXCEPT ![p] = Returned(S)]
  /\ receipt' = [receipt EXCEPT ![p] =
                   [m \in Message |-> IF m \in Returned(S) THEN receives[m] + 1
                                                           ELSE @[m]]]
  /\ UNCHANGED <<msg, recordVars, alertVars>>

(* The answer to a ReceiveMessage is lost: the messages are hidden, and    *)
(* counted as received, but no poller has them.                            *)
ReceiveLost(p, S) ==
  /\ phase[p] = "idle"
  /\ S \subseteq Available
  /\ S # {}
  /\ Cardinality(S) <= BatchSize
  /\ HandOut(S)
  /\ Hide(Returned(S))
  /\ UNCHANGED <<pollVars, recordVars, alertVars>>

(* A message that does not parse is left alone. *)
ParseFails(p) ==
  /\ phase[p] = "looping"
  /\ \E m \in batch[p] \cap Malformed :
       /\ batch'    = [batch EXCEPT ![p] = @ \ {m}]
       /\ receipt'  = [receipt EXCEPT ![p][m] = 0]
  /\ UNCHANGED <<queueVars, phase, msg, ledger, effects, slips, alertVars>>

(* wasProcessed: a known event goes straight to the delete, a new one to   *)
(* the handler.  Starting beside another poller at work on it is a slip.   *)
LookUp(p) ==
  /\ phase[p] = "looping"
  /\ \E m \in batch[p] \ Malformed :
       LET e == EventOf[m] IN
       /\ batch' = [batch EXCEPT ![p] = @ \ {m}]
       /\ msg'   = [msg EXCEPT ![p] = m]
       /\ \/ /\ e \in ledger
             /\ GoTo(p, "deleting")
             /\ UNCHANGED slips
          \/ /\ e \notin ledger
             /\ GoTo(p, "handling")
             /\ Slip(IF AtWorkOn(e) = {} THEN {} ELSE {e})
  /\ UNCHANGED <<queueVars, receipt, ledger, effects, alertVars>>

HandlerSucceeds(p) ==
  /\ phase[p] = "handling"
  /\ effects' = [effects EXCEPT ![EventIn(p)] = @ + 1]
  /\ GoTo(p, "marking")
  /\ UNCHANGED <<queueVars, batch, msg, receipt, ledger, slips, alertVars>>

(* Mutant of HandlerThrows: a failed message is acknowledged like any      *)
(* other.                                                                  *)
HandlerThrowsAcked(p) ==
  /\ phase[p] = "handling"
  /\ GoTo(p, "deleting")
  /\ UNCHANGED <<queueVars, batch, msg, receipt, ledger, effects, slips,
                 alertVars>>

(* A handler that throws leaves the message for redelivery. *)
HandlerThrows(p) ==
  /\ phase[p] = "handling"
  /\ NextMessage(p)
  /\ UNCHANGED <<queueVars, ledger, effects, slips, alertVars>>

(* Mutant of Mark: the record is forgotten. *)
MarkForgets(p) ==
  /\ phase[p] = "marking"
  /\ GoTo(p, "deleting")
  /\ UNCHANGED <<queueVars, batch, msg, receipt, recordVars, alertVars>>

(* markProcessed. *)
Mark(p) ==
  /\ phase[p] = "marking"
  /\ ledger' = ledger \cup {EventIn(p)}
  /\ GoTo(p, "deleting")
  /\ UNCHANGED <<queueVars, batch, msg, receipt, effects, slips, alertVars>>

\* Deleting with the receipt of the latest receive removes the message.  With
\* an older one the broker may remove it or refuse.  A message that has left
\* the queue is out of reach.
Deletion(p) ==
  \/ /\ OnQueue(msg[p])
     /\ place' = [place EXCEPT ![msg[p]] = "deleted"]
  \/ /\ ~OnQueue(msg[p]) \/ receipt[p][msg[p]] # receives[msg[p]]
     /\ UNCHANGED place

(* DeleteMessage. *)
Delete(p) ==
  /\ phase[p] = "deleting"
  /\ Deletion(p)
  /\ NextMessage(p)
  /\ UNCHANGED <<visible, receives, recordVars, alertVars>>

PollEnds(p) ==
  /\ phase[p] = "looping"
  /\ batch[p] = {}
  /\ GoTo(p, "idle")
  /\ UNCHANGED <<queueVars, batch, msg, receipt, recordVars, alertVars>>

(* wasProcessed, markProcessed or DeleteMessage throws: pollOnce throws    *)
(* with it and the rest of the batch is not looked at.  A write may have   *)
(* been done before its answer was lost.                                   *)
PollThrows(p) ==
  /\ \/ /\ phase[p] = "looping"
        /\ batch[p] \ Malformed # {}
        /\ UNCHANGED <<place, ledger, slips>>
     \/ /\ phase[p] = "marking"
        /\ \/ ledger' = ledger \cup {EventIn(p)} /\ UNCHANGED slips
           \/ Slip(Unrecorded(p)) /\ UNCHANGED ledger
        /\ UNCHANGED place
     \/ /\ phase[p] = "deleting"
        /\ Deletion(p) \/ UNCHANGED place
        /\ UNCHANGED <<ledger, slips>>
  /\ Leave(p, "idle")
  /\ UNCHANGED <<visible, receives, effects, alertVars>>

(* The polling process dies, wherever it is, and is started again. *)
Crash(p) ==
  /\ phase[p] # "down"
  /\ Slip(Unrecorded(p))
  /\ Leave(p, "down")
  /\ UNCHANGED <<queueVars, ledger, effects, alertVars>>

Restart(p) ==
  /\ phase[p] = "down"
  /\ GoTo(p, "idle")
  /\ UNCHANGED <<queueVars, batch, msg, receipt, recordVars, alertVars>>

(* Mutant of Reappear: the last receive hides the message for good. *)
ReappearOnce(m) ==
  /\ OnQueue(m)
  /\ ~visible[m]
  /\ receives[m] < MaxReceive
  /\ visible' = [visible EXCEPT ![m] = TRUE]
  /\ UNCHANGED <<place, receives, pollVars, recordVars, alertVars>>

(* The visibility timeout passes, however far the poller that holds the    *)
(* message has got.                                                        *)
Reappear(m) ==
  /\ OnQueue(m)
  /\ ~visible[m]
  /\ visible' = [visible EXCEPT ![m] = TRUE]
  /\ UNCHANGED <<place, receives, pollVars, recordVars, alertVars>>

(* relay:peek receives with a visibility timeout of zero. *)
Peek(S) ==
  /\ S \subseteq Available
  /\ S # {}
  /\ HandOut(S)
  /\ UNCHANGED <<visible, pollVars, recordVars, alertVars>>

\* What a tick that found the letters L makes of them.  An alert tells of all
\* that lie there.  Where none is raised, newcomers are found beside a letter
\* told of; beside none, they go unnoticed, and it is the doing of an operator
\* if the letter the flag was up for was removed since the last tick.
Notice(L) ==
  /\ told' = IF ~dlqSeen \/ L \cap told # {} THEN L ELSE told
  /\ overlooked' = IF taken \/ L \cap overlooked # {} THEN L \ told' ELSE overlooked
  /\ taken' = FALSE

DeadLetters == {m \in Message : place[m] = "dlq"}

(* Mutant of ReportDeadLetters: the flag is never lowered.                 *)
ReportDeadLettersOnce ==
  /\ dlqSeen' = (dlqSeen \/ DeadLetters # {})
  /\ Notice(DeadLetters)
  /\ UNCHANGED <<queueVars, pollVars, recordVars>>

(* A tick of the relay reads the depth of the dead-letter queue and raises *)
(* the alert when it was empty at the tick before.  A tick whose reading   *)
(* throws reports nothing and keeps the flag.                              *)
ReportDeadLetters ==
  /\ dlqSeen' = (DeadLetters # {})
  /\ Notice(DeadLetters)
  /\ UNCHANGED <<queueVars, pollVars, recordVars>>

(* The relay restarts: what it saw last is module state. *)
RelayRestarts ==
  /\ dlqSeen' = FALSE
  /\ UNCHANGED <<queueVars, pollVars, recordVars, told, overlooked, taken>>

(* An operator takes a message off the dead-letter queue. *)
Drain(m) ==
  /\ place[m] = "dlq"
  /\ place' = [place EXCEPT ![m] = "drained"]
  /\ told' = told \ {m}
  /\ overlooked' = overlooked \ {m}
  /\ taken' = TRUE
  /\ UNCHANGED <<visible, receives, pollVars, recordVars, dlqSeen>>

------------------------------------------------------------------------------
PollStep(p) ==
  \/ ParseFails(p) \/ LookUp(p) \/ HandlerSucceeds(p) \/ HandlerThrows(p)
  \/ Mark(p) \/ Delete(p) \/ PollEnds(p) \/ PollThrows(p)

ReceiveStep(p) == \E S \in SUBSET Available : Receive(p, S)

Next ==
  \/ \E m \in Message : Send(m) \/ Reappear(m) \/ Drain(m)
  \/ \E p \in Poller :
       \/ ReceiveStep(p) \/ PollStep(p) \/ Crash(p) \/ Restart(p)
       \/ \E S \in SUBSET Available : ReceiveLost(p, S)
  \/ \E S \in SUBSET Available : Peek(S)
  \/ ReportDeadLetters \/ RelayRestarts

\* A started poll goes on, a dead process is restarted, hidden messages
\* reappear, the relay ticks; a poller keeps polling, and the broker hands out
\* every message in the end.  Handlers need not succeed.
Fairness ==
  /\ \A p \in Poller : WF_vars(PollStep(p)) /\ WF_vars(Restart(p))
  /\ \A m \in Message :
       /\ WF_vars(Reappear(m))
       /\ SF_vars(\E p \in Poller :
                    \E S \in SUBSET Available : m \in S /\ Receive(p, S))
  /\ WF_vars(ReportDeadLetters)

Spec == Init /\ [][Next]_vars /\ Fairness

------------------------------------------------------------------------------
(* Properties *)

\* Types; a poller outside the loop holds nothing, and one processing a
\* message holds a parsed one.
TypeOK ==
  /\ place \in [Message -> Place]
  /\ visible \in [Message -> BOOLEAN]
  /\ receives \in [Message -> 0..MaxReceive]
  /\ ledger \subseteq Event
  /\ effects \in [Event -> Nat]
  /\ slips \in [Event -> Nat]
  /\ phase \in [Poller -> Phase]
  /\ batch \in [Poller -> SUBSET Message]
  /\ msg \in [Poller -> (Message \ Malformed) \cup {NoMessage}]
  /\ receipt \in [Poller -> [Message -> 0..MaxReceive]]
  /\ dlqSeen \in BOOLEAN
  /\ told \subseteq Message
  /\ overlooked \subseteq Message
  /\ taken \in BOOLEAN
  /\ \A p \in Poller :
       /\ phase[p] \in {"idle", "down"} => batch[p] = {}
       /\ msg[p] # NoMessage <=> phase[p] \in {"handling", "marking", "deleting"}

\* A message is acknowledged only when its event is in the ledger and its work
\* was done: a crash, a thrown call or a stale receipt never costs an event.
\* Malformed messages are never acknowledged (sqs-consumer.ts:98-104).
AckedWasProcessed ==
  \A m \in Message : place[m] = "deleted" =>
    /\ m \notin Malformed
    /\ EventOf[m] \in ledger
    /\ effects[EventOf[m]] > 0

\* A handler repeats its work for an event only after a slip: a poll that died
\* between the work and its record, or two polls at work on the event at once.
\* A duplicate met after the record is never worked on (spec 011 FR-011).
RepeatsAccountedFor ==
  \A e \in Event : effects[e] <= slips[e] + 1

\* No message stays on the queue for ever: it is acknowledged, or it ends on
\* the dead-letter queue, whatever its handler does (FR-013).
EveryMessageSettles ==
  \A m \in Message : OnQueue(m) ~> ~OnQueue(m)

\* A person finds every dead letter: an alert tells of it, or it lies beside one
\* told of, also when it came while the flag was up, between two ticks or
\* through a restart; only one that came in the place of a letter removed since
\* the last tick may be overlooked, with those that come beside it (FR-014,
\* outbox-relay.sweep.ts:170-176, docs/staging-environment.md:100).
LetterIsFound ==
  \A m \in Message :
    place[m] = "dlq" ~> m \in told \cup overlooked \/ place[m] = "drained"
==============================================================================
