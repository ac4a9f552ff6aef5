--------------------------- MODULE DeliveryPromise ---------------------------
(***************************************************************************)
(* What the path of an event promises one consumer, without saying how: an *)
(* event is settled only when the consumer's queue holds it or the         *)
(* consumer has recorded it; the queue lets an event go only when it is    *)
(* recorded; it is recorded only when its work was done; and the work is   *)
(* done once, and once more for each excuse.                               *)
(***************************************************************************)
EXTENDS Naturals

CONSTANTS
  Event,        \* events that may ever be committed
  Subscribed    \* those whose type the consumer's queue subscribes to

VARIABLES
  committed,    \* events whose producing transaction has committed
  published,    \* events the outbox has settled
  held,         \* events with a copy on the queue or set aside as a dead letter
  worked,       \* how often the consumer did its work for each event
  recorded,     \* events the consumer will never work on again
  excuses       \* races and failures that excuse one repetition each

vars == <<committed, published, held, worked, recorded, excuses>>

Init ==
  /\ committed = {} /\ published = {} /\ held = {} /\ recorded = {}
  /\ worked  = [e \in Event |-> 0]
  /\ excuses = [e \in Event |-> 0]

Commit(e) ==
  /\ committed' = committed \cup {e}
  /\ UNCHANGED <<published, held, worked, recorded, excuses>>

Hold(e) ==
  /\ e \in committed \cap Subscribed
  /\ held' = held \cup {e}
  /\ UNCHANGED <<committed, published, worked, recorded, excuses>>

Settle(S) ==
  /\ S \subseteq committed /\ S \cap Subscribed \subseteq held \cup recorded
  /\ published' = published \cup S
  /\ UNCHANGED <<committed, held, worked, recorded, excuses>>

Work(e) ==
  /\ e \in committed \cap Subscribed
  /\ worked[e] <= excuses[e]
  /\ worked' = [worked EXCEPT ![e] = @ + 1]
  /\ UNCHANGED <<committed, published, held, recorded, excuses>>

Excuse(e) ==
  /\ e \in committed \cap Subscribed
  /\ excuses' = [excuses EXCEPT ![e] = @ + 1]
  /\ UNCHANGED <<committed, published, held, worked, recorded>>

Record(e) ==
  /\ worked[e] > 0
  /\ recorded' = recorded \cup {e}
  /\ UNCHANGED <<committed, published, held, worked, excuses>>

LetGo(e) ==
  /\ e \in recorded
  /\ held' = held \ {e}
  /\ UNCHANGED <<committed, published, worked, recorded, excuses>>

Next ==
  \/ \E e \in Event :
       Commit(e) \/ Hold(e) \/ Work(e) \/ Excuse(e) \/ Record(e) \/ LetGo(e)
  \/ \E S \in SUBSET Event : Settle(S)

Spec == Init /\ [][Next]_vars
==============================================================================
