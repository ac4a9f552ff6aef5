-------------------------- MODULE AtLeastOnceOutbox --------------------------
(***************************************************************************)
(* What the transactional outbox promises, without saying how (ADR-005     *)
(* Layer 3): a committed event reaches every queue subscribed to it at     *)
(* least once, and only then is its row settled as published.  Deliveries  *)
(* may be repeated, also after the row is settled; they are never invented *)
(* for a row that was not committed or a queue that does not subscribe.    *)
(***************************************************************************)
CONSTANTS
  Event,          \* outbox rows that may ever be written
  Queue,          \* queues of the topology
  Destinations    \* Destinations[e]: the queues subscribed to e's type

VARIABLES
  committed,      \* rows whose producing transaction has committed
  delivered,      \* pairs <<e, q>> such that q has received e at least once
  published       \* rows the relay has settled

vars == <<committed, delivered, published>>

Routes(e) == {e} \X Destinations[e]

Init ==
  /\ committed = {}
  /\ delivered = {}
  /\ published = {}

Commit(e) ==
  /\ e \notin committed
  /\ committed' = committed \cup {e}
  /\ UNCHANGED <<delivered, published>>

Deliver(e, q) ==
  /\ e \in committed
  /\ q \in Destinations[e]
  /\ delivered' = delivered \cup {<<e, q>>}
  /\ UNCHANGED <<committed, published>>

Settle(S) ==
  /\ S \subseteq committed
  /\ \A e \in S : Routes(e) \subseteq delivered
  /\ published' = published \cup S
  /\ UNCHANGED <<committed, delivered>>

Next ==
  \/ \E e \in Event : Commit(e)
  \/ \E e \in Event, q \in Queue : Deliver(e, q)
  \/ \E S \in SUBSET Event : Settle(S)

Spec == Init /\ [][Next]_vars
==============================================================================
