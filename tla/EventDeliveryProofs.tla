------------------------- MODULE EventDeliveryProofs -------------------------
(***************************************************************************)
(* Proofs about the path of an event, for every set of rows, queues,       *)
(* messages, relays and pollers, and every batch size, receive limit and   *)
(* bound: about the relay, about the consumer of one queue, and about the  *)
(* two of them together, of which each keeps what is proved of it alone.   *)
(***************************************************************************)
EXTENDS TLAPS, FiniteSetTheorems, EventDelivery

(***************************************************************************)
(* The relay                                                               *)
(***************************************************************************)

\* Queue q has received row e.
Received(e, q) == copies[<<e, q>>] > 0

\* A claim transaction is open only while the tick loops over its rows or
\* marks them; nothing outside the batch is in hand, and nothing at all
\* outside that part of the tick.
TickShape ==
  \A r \in Relay :
    /\ txOpen[r] => phase[r] \in {"looping", "sending", "marking"}
    /\ phase[r] \notin {"looping", "sending", "marking"} => finished[r] = {}
    /\ todo[r] \subseteq batch[r]
    /\ finished[r] \subseteq batch[r]
    /\ phase[r] = "sending" => row[r] \in batch[r]

\* A finished row was received by all its destinations, and the row being
\* sent by those that are no longer left.  It holds with the transaction
\* open or gone: deliveries are never taken back.
TickDelivered ==
  \A r \in Relay :
    /\ \A e \in finished[r] : \A q \in Destinations[e] : Received(e, q)
    /\ phase[r] = "sending" =>
         /\ left[r] \subseteq Destinations[row[r]]
         /\ \A q \in Destinations[row[r]] \ left[r] : Received(row[r], q)

IInv ==
  /\ TypeOK
  /\ TickShape
  /\ TickDelivered
  /\ ClaimsAreExclusive
  /\ PublishedWasDelivered

\* A row is in hand in one place of the tick, and only while there is one.
HandShape ==
  \A r \in Relay :
    /\ phase[r] # "sending" => row[r] = NoRow /\ left[r] = {}
    /\ phase[r] \notin {"looping", "sending"} => todo[r] = {}
    /\ row[r] \notin todo[r]

\* Relays that may still send e to q, with their transaction open or gone.
MaySend(e, q) ==
  {r \in Relay :
     \/ e \in todo[r] /\ q \in Destinations[e]
     \/ row[r] = e /\ q \in left[r]}

\* A row that is settled, or that an open claim is about to settle.
Held(e) == e \in published \/ \E r \in Relay : txOpen[r] /\ e \in InHand(r)
Credit(e) == IF Held(e) THEN 1 ELSE 0

\* What was sent and what may still be is paid for: once by the claim that
\* holds the row or has settled it, and once by each setback.
Paid(e, q) == copies[<<e, q>>] + Cardinality(MaySend(e, q)) <= setbacks[e] + Credit(e)
PaidInv == HandShape /\ \A e \in Event, q \in Queue : Paid(e, q)

------------------------------------------------------------------------------
LEMMA InitInv == Init => IInv
  BY EventAssumption, DestinationsAssumption, BoundAssumption
     DEF Init, IInv, TypeOK, TickShape, TickDelivered, ClaimsAreExclusive,
         PublishedWasDelivered, Phase, NoRow


LEMMA AppendInv ==
  ASSUME IInv, NEW e \in Event, Append(e)
  PROVE  IInv'
  BY EventAssumption
     DEF Append, tickVars, lagVars, IInv, TypeOK, TickShape, TickDelivered,
         ClaimsAreExclusive, PublishedWasDelivered, Received, Unpublished

LEMMA TimePassesInv ==
  ASSUME IInv, TimePasses
  PROVE  IInv'
  BY DEF TimePasses, tickVars, IInv, TypeOK, TickShape, TickDelivered,
         ClaimsAreExclusive, PublishedWasDelivered, Received, Unpublished

\* Steps that touch neither the tables, the claim nor the queues.
LEMMA QuietInv ==
  ASSUME IInv, NEW r \in Relay,
         MeasureLag(r) \/ LoopEnds(r) \/ Report(r) \/ ReportFails(r)
           \/ Restart(r)
  PROVE  IInv'
  <1>1. /\ UNCHANGED <<committed, published, copies, txOpen, batch, todo, row,
                       left, finished, cutoff, setbacks>>
        /\ lagSeen' \in [Relay -> BOOLEAN]
        /\ lagAlert' \in [Relay -> BOOLEAN]
        /\ faults' \in Nat
    <2>1. CASE MeasureLag(r)
      <3>1. (\E e \in Unpublished : e <= cutoff) \in BOOLEAN
        OBVIOUS
      <3> QED
        BY <2>1, <3>1 DEF IInv, TypeOK, MeasureLag, tickVars
    <2>2. CASE LoopEnds(r) \/ Report(r) \/ ReportFails(r) \/ Restart(r)
      BY <2>2, BoundAssumption
      DEF IInv, TypeOK, LoopEnds, Report, ReportFails, Restart, Fault,
          tickVars, lagVars
    <2> QED
      BY <2>1, <2>2
  <1>2. PICK p \in Phase :
          /\ phase' = [phase EXCEPT ![r] = p]
          /\ p \in {"looping", "sending", "marking"}
               => p = "marking" /\ phase[r] = "looping"
          /\ phase[r] \in {"looping", "sending", "marking"}
               => p = "marking"
    <2> USE DEF Phase
    <2>1. CASE LoopEnds(r)
      <3> WITNESS "marking" \in Phase
      <3> QED
        BY <2>1 DEF LoopEnds, GoTo
    <2>2. CASE MeasureLag(r)
      <3> WITNESS "claiming" \in Phase
      <3> QED
        BY <2>2 DEF MeasureLag, GoTo
    <2>3. CASE Report(r) \/ ReportFails(r) \/ Restart(r)
      <3> WITNESS "idle" \in Phase
      <3> QED
        BY <2>3 DEF Report, ReportFails, Restart, GoTo
    <2> QED
      BY <2>1, <2>2, <2>3
  <1>3. TypeOK'
    BY <1>1, <1>2 DEF IInv, TypeOK
  <1>4. TickShape'
    BY <1>1, <1>2 DEF IInv, TypeOK, TickShape
  <1>5. TickDelivered'
    BY <1>1, <1>2 DEF IInv, TypeOK, TickDelivered, Received
  <1>6. ClaimsAreExclusive' /\ PublishedWasDelivered'
    BY <1>1 DEF IInv, ClaimsAreExclusive, PublishedWasDelivered, Unpublished
  <1> QED
    BY <1>3, <1>4, <1>5, <1>6 DEF IInv

\* A claim takes rows no open transaction holds.
LEMMA ClaimInv ==
  ASSUME IInv, NEW r \in Relay, Claim(r)
  PROVE  IInv'
  <1>1. PICK S \in SUBSET Claimable :
          /\ batch' = [batch EXCEPT ![r] = S]
          /\ todo'  = [todo EXCEPT ![r] = S]
    BY DEF Claim
  <1>2. /\ S \subseteq Unpublished
        /\ \A s \in Relay : txOpen[s] => S \cap batch[s] = {}
    BY <1>1 DEF Claimable, Locked
  <1>3. S \subseteq committed /\ committed \subseteq Event
    BY <1>2 DEF Unpublished, IInv, TypeOK
  <1>4. TypeOK'
    BY <1>1, <1>3 DEF Claim, IInv, TypeOK, GoTo, lagVars, Phase
  <1>5. TickShape'
    BY <1>1 DEF Claim, IInv, TypeOK, TickShape, TickDelivered, GoTo
  <1>6. TickDelivered'
    BY <1>1 DEF Claim, IInv, TypeOK, TickDelivered, GoTo, Received
  <1>7. ClaimsAreExclusive'
    BY <1>1, <1>2 DEF Claim, IInv, TypeOK, ClaimsAreExclusive, Unpublished
  <1>8. PublishedWasDelivered'
    BY DEF Claim, IInv, PublishedWasDelivered
  <1> QED
    BY <1>4, <1>5, <1>6, <1>7, <1>8 DEF IInv

LEMMA TakeRowInv ==
  ASSUME IInv, NEW r \in Relay, TakeRow(r)
  PROVE  IInv'
  <1>1. PICK e \in todo[r] :
          /\ row'  = [row EXCEPT ![r] = e]
          /\ todo' = [todo EXCEPT ![r] = @ \ {e}]
          /\ left' = [left EXCEPT ![r] = Destinations[e]]
    BY DEF TakeRow
  <1>2. e \in Event /\ e \in batch[r]
    BY DEF IInv, TypeOK, TickShape
  <1>3. TypeOK'
    BY <1>1, <1>2, DestinationsAssumption
    DEF TakeRow, IInv, TypeOK, GoTo, lagVars, Phase
  <1>4. TickShape'
    BY <1>1, <1>2 DEF TakeRow, IInv, TypeOK, TickShape, GoTo
  <1>5. TickDelivered'
    BY <1>1, <1>2 DEF TakeRow, IInv, TypeOK, TickDelivered, GoTo, Received
  <1>6. ClaimsAreExclusive' /\ PublishedWasDelivered'
    BY DEF TakeRow, IInv, ClaimsAreExclusive, PublishedWasDelivered,
           Unpublished
  <1> QED
    BY <1>3, <1>4, <1>5, <1>6 DEF IInv

\* Putting one more message on a queue takes nothing away from any queue.
LEMMA AcceptGrows ==
  ASSUME TypeOK, NEW r \in Relay, NEW q \in Queue, row[r] \in Event,
         Accept(r, q)
  PROVE  /\ copies' \in [Event \X Queue -> Nat]
         /\ \A f \in Event, p \in Queue :
              Received(f, p) => copies'[<<f, p>>] > 0
         /\ copies'[<<row[r], q>>] > 0
  <1> DEFINE d == <<row[r], q>>
  <1>1. d \in Event \X Queue
    OBVIOUS
  <1>2. copies \in [Event \X Queue -> Nat]
    BY DEF TypeOK
  <1>3. copies' = [copies EXCEPT ![d] = copies[d] + 1]
    BY DEF Accept
  <1>4. copies' \in [Event \X Queue -> Nat] /\ copies'[d] = copies[d] + 1
    BY <1>1, <1>2, <1>3
  <1>5. \A x \in Event \X Queue : x # d => copies'[x] = copies[x]
    BY <1>1, <1>2, <1>3
  <1>6. ASSUME NEW f \in Event, NEW p \in Queue
        PROVE  copies'[<<f, p>>] >= copies[<<f, p>>]
    BY <1>1, <1>2, <1>4, <1>5
  <1> QED
    BY <1>1, <1>2, <1>4, <1>5, <1>6 DEF Received

LEMMA SendOkInv ==
  ASSUME IInv, NEW r \in Relay, SendOk(r)
  PROVE  IInv'
  <1>1. PICK q \in left[r] :
          /\ Accept(r, q)
          /\ left' = [left EXCEPT ![r] = @ \ {q}]
    BY DEF SendOk
  <1>2. q \in Queue /\ row[r] \in Event /\ row[r] \in batch[r]
    BY DEF SendOk, IInv, TypeOK, TickShape
  <1>3. /\ copies' \in [Event \X Queue -> Nat]
        /\ \A f \in Event, p \in Queue :
             Received(f, p) => copies'[<<f, p>>] > 0
        /\ copies'[<<row[r], q>>] > 0
    BY <1>1, <1>2, AcceptGrows DEF IInv
  <1>4. TypeOK'
    BY <1>1, <1>3 DEF SendOk, IInv, TypeOK, lagVars
  <1>5. TickShape'
    BY DEF SendOk, IInv, TickShape
  <1>6. TickDelivered'
    <2> SUFFICES ASSUME NEW s \in Relay
                 PROVE  /\ \A e \in finished[s] : \A p \in Destinations[e] :
                             copies'[<<e, p>>] > 0
                        /\ phase[s] = "sending" =>
                             /\ left'[s] \subseteq Destinations[row[s]]
                             /\ \A p \in Destinations[row[s]] \ left'[s] :
                                  copies'[<<row[s], p>>] > 0
      BY DEF SendOk, TickDelivered, Received
    <2>1. \A e \in finished[s] : \A p \in Destinations[e] : copies'[<<e, p>>] > 0
      BY <1>3, DestinationsAssumption DEF IInv, TypeOK, TickDelivered
    <2>2. ASSUME phase[s] = "sending"
          PROVE  /\ left'[s] \subseteq Destinations[row[s]]
                 /\ \A p \in Destinations[row[s]] \ left'[s] :
                      copies'[<<row[s], p>>] > 0
      <3>1. row[s] \in Event /\ Destinations[row[s]] \subseteq Queue
        BY <2>2, DestinationsAssumption DEF IInv, TypeOK, TickShape
      <3>2. \A p \in Destinations[row[s]] \ left[s] : copies'[<<row[s], p>>] > 0
        BY <1>3, <2>2, <3>1 DEF IInv, TickDelivered
      <3>3. left[s] \subseteq Destinations[row[s]]
        BY <2>2 DEF IInv, TickDelivered
      <3>4. left'[s] = IF s = r THEN left[r] \ {q} ELSE left[s]
        BY <1>1 DEF IInv, TypeOK
      <3> QED
        BY <1>3, <3>2, <3>3, <3>4
    <2> QED
      BY <2>1, <2>2
  <1>7. ClaimsAreExclusive'
    BY DEF SendOk, IInv, ClaimsAreExclusive, Unpublished
  <1>8. PublishedWasDelivered'
    BY <1>3, DestinationsAssumption
    DEF SendOk, IInv, TypeOK, PublishedWasDelivered, Received
  <1> QED
    BY <1>4, <1>5, <1>6, <1>7, <1>8 DEF IInv
LEMMA SendFailsInv ==
  ASSUME IInv, NEW r \in Relay, SendFails(r)
  PROVE  IInv'
  <1>1. PICK q \in left[r] : Accept(r, q) \/ UNCHANGED copies
    BY DEF SendFails
  <1>2. q \in Queue /\ row[r] \in Event
    BY DEF SendFails, IInv, TypeOK, TickShape
  <1>3. /\ copies' \in [Event \X Queue -> Nat]
        /\ \A f \in Event, p \in Queue :
             Received(f, p) => copies'[<<f, p>>] > 0
    BY <1>1, <1>2, AcceptGrows DEF IInv, TypeOK, Received
  <1>4. setbacks' \in [Event -> Nat] /\ faults' \in Nat
    BY DEF SendFails, CountSetbacks, Fault, IInv, TypeOK
  <1>5. TypeOK'
    BY <1>3, <1>4 DEF SendFails, IInv, TypeOK, GoTo, lagVars, Phase, NoRow
  <1>6. TickShape'
    BY DEF SendFails, IInv, TypeOK, TickShape, GoTo
  <1>7. TickDelivered'
    <2>1. \A s \in Relay : phase'[s] = "sending" =>
            s # r /\ phase[s] = "sending" /\ row'[s] = row[s]
              /\ left'[s] = left[s]
      BY DEF SendFails, IInv, TypeOK, GoTo
    <2>2. \A s \in Relay : \A e \in finished[s] : \A p \in Destinations[e] :
            copies'[<<e, p>>] > 0
      BY <1>3, DestinationsAssumption DEF IInv, TypeOK, TickDelivered
    <2>3. ASSUME NEW s \in Relay, phase'[s] = "sending"
          PROVE  /\ left'[s] \subseteq Destinations[row'[s]]
                 /\ \A p \in Destinations[row'[s]] \ left'[s] :
                      copies'[<<row'[s], p>>] > 0
      <3>1. row[s] \in Event /\ Destinations[row[s]] \subseteq Queue
        BY <2>1, <2>3, DestinationsAssumption DEF IInv, TypeOK, TickShape
      <3> QED
        BY <1>3, <2>1, <2>3, <3>1 DEF IInv, TickDelivered
    <2> QED
      BY <2>2, <2>3 DEF SendFails, TickDelivered, Received
  <1>8. ClaimsAreExclusive'
    BY DEF SendFails, IInv, ClaimsAreExclusive, Unpublished
  <1>9. PublishedWasDelivered'
    BY <1>3, DestinationsAssumption
    DEF SendFails, IInv, TypeOK, PublishedWasDelivered, Received
  <1> QED
    BY <1>5, <1>6, <1>7, <1>8, <1>9 DEF IInv

LEMMA RowFinishedInv ==
  ASSUME IInv, NEW r \in Relay, RowFinished(r)
  PROVE  IInv'
  <1>1. row[r] \in batch[r] /\ row[r] \in Event
    BY DEF RowFinished, IInv, TypeOK, TickShape
  <1>2. \A q \in Destinations[row[r]] : Received(row[r], q)
    BY DEF RowFinished, IInv, TypeOK, TickDelivered
  <1>3. TypeOK'
    BY <1>1 DEF RowFinished, IInv, TypeOK, GoTo, lagVars, Phase, NoRow
  <1>4. TickShape'
    BY <1>1 DEF RowFinished, IInv, TypeOK, TickShape, GoTo
  <1>5. TickDelivered'
    BY <1>2 DEF RowFinished, IInv, TypeOK, TickDelivered, GoTo, Received
  <1>6. ClaimsAreExclusive' /\ PublishedWasDelivered'
    BY DEF RowFinished, IInv, ClaimsAreExclusive, PublishedWasDelivered,
           Unpublished
  <1> QED
    BY <1>3, <1>4, <1>5, <1>6 DEF IInv

\* The only step that settles rows: all of them were received, and no other
\* open claim holds one of them.
LEMMA MarkAndCommitInv ==
  ASSUME IInv, NEW r \in Relay, MarkAndCommit(r)
  PROVE  IInv'
  <1>1. finished[r] \subseteq batch[r] /\ batch[r] \subseteq committed
    BY DEF IInv, TypeOK, TickShape
  <1>2. TypeOK'
    BY <1>1 DEF MarkAndCommit, IInv, TypeOK, ForgetTick, GoTo, lagVars, Phase,
                NoRow
  <1>3. TickShape'
    BY DEF MarkAndCommit, IInv, TypeOK, TickShape, ForgetTick, GoTo
  <1>4. TickDelivered'
    BY DEF MarkAndCommit, IInv, TypeOK, TickDelivered, ForgetTick, GoTo,
           Received
  <1>5. ClaimsAreExclusive'
    BY <1>1 DEF MarkAndCommit, IInv, TypeOK, ClaimsAreExclusive, ForgetTick,
                Unpublished
  <1>6. PublishedWasDelivered'
    BY DEF MarkAndCommit, IInv, TickDelivered, PublishedWasDelivered, Received
  <1> QED
    BY <1>2, <1>3, <1>4, <1>5, <1>6 DEF IInv

\* A tick that ends without marking, or whose transaction is lost, settles
\* nothing.
LEMMA RollbackInv ==
  ASSUME IInv, NEW r \in Relay, MarkThrows(r) \/ Crash(r)
  PROVE  IInv'
  <1>1. /\ ForgetTick(r)
        /\ phase' = [phase EXCEPT ![r] = "idle"]
             \/ phase' = [phase EXCEPT ![r] = "down"]
        /\ UNCHANGED <<committed, published, copies, cutoff>>
    BY DEF MarkThrows, Crash, GoTo, lagVars
  <1>2. /\ setbacks' \in [Event -> Nat] /\ faults' \in Nat
        /\ lagSeen' \in [Relay -> BOOLEAN] /\ lagAlert' \in [Relay -> BOOLEAN]
    <2>1. CASE MarkThrows(r)
      BY <2>1 DEF MarkThrows, lagVars, IInv, TypeOK
    <2>2. CASE Crash(r)
      BY <2>2 DEF Crash, CountSetbacks, Fault, IInv, TypeOK
    <2> QED
      BY <2>1, <2>2
  <1>3. TypeOK'
    BY <1>1, <1>2 DEF IInv, TypeOK, ForgetTick, Phase, NoRow
  <1>4. TickShape'
    BY <1>1 DEF IInv, TypeOK, TickShape, ForgetTick
  <1>5. TickDelivered'
    BY <1>1 DEF IInv, TypeOK, TickDelivered, ForgetTick, Received
  <1>6. ClaimsAreExclusive' /\ PublishedWasDelivered'
    BY <1>1 DEF IInv, TypeOK, ClaimsAreExclusive, PublishedWasDelivered,
                Unpublished, ForgetTick
  <1> QED
    BY <1>3, <1>4, <1>5, <1>6 DEF IInv

LEMMA TxAbortsInv ==
  ASSUME IInv, NEW r \in Relay, TxAborts(r)
  PROVE  IInv'
  <1>1. setbacks' \in [Event -> Nat] /\ faults' \in Nat
    BY DEF TxAborts, CountSetbacks, Fault, IInv, TypeOK
  <1>2. TypeOK'
    BY <1>1 DEF TxAborts, IInv, TypeOK, tickVars, lagVars
  <1>3. TickShape' /\ TickDelivered'
    BY DEF TxAborts, IInv, TypeOK, TickShape, TickDelivered, tickVars,
           Received
  <1>4. ClaimsAreExclusive' /\ PublishedWasDelivered'
    BY DEF TxAborts, IInv, TypeOK, ClaimsAreExclusive, PublishedWasDelivered,
           Unpublished, tickVars
  <1> QED
    BY <1>2, <1>3, <1>4 DEF IInv

LEMMA StepInv == IInv /\ [Next]_vars => IInv'
  <1> SUFFICES ASSUME IInv, [Next]_vars
               PROVE  IInv'
    OBVIOUS
  <1>1. ASSUME NEW r \in Relay, TickStep(r)
        PROVE  IInv'
    BY <1>1, QuietInv, ClaimInv, TakeRowInv, SendOkInv, RowFinishedInv,
       MarkAndCommitInv, RollbackInv
    DEF TickStep
  <1>2. ASSUME NEW r \in Relay, FaultStep(r)
        PROVE  IInv'
    BY <1>2, QuietInv, SendFailsInv, TxAbortsInv, RollbackInv DEF FaultStep
  <1>3. CASE UNCHANGED vars
    BY <1>3 DEF vars, tickVars, lagVars, IInv, TypeOK, TickShape,
                TickDelivered, ClaimsAreExclusive, PublishedWasDelivered,
                Unpublished, Received
  <1> QED
    BY <1>1, <1>2, <1>3, AppendInv, TimePassesInv, QuietInv DEF Next

------------------------------------------------------------------------------
\* The invariant of every behaviour of the relay: well-typed state, exclusive
\* claims, nothing settled that was not delivered.
THEOREM InvariantHolds == Spec => []IInv
  BY InitInv, StepInv, PTL DEF Spec

\* Every state of the relay is well typed, and only committed rows are ever
\* claimed or settled (claimUnpublishedOutboxEvents).
THEOREM TypeCorrect == Spec => []TypeOK
  <1>1. IInv => TypeOK
    BY DEF IInv
  <1> QED
    BY <1>1, InvariantHolds, PTL

\* No event is lost: a row marked by markOutboxEventsPublished was put on all
\* the queues subscribed to it.
THEOREM NoEventLost == Spec => []PublishedWasDelivered
  <1>1. IInv => PublishedWasDelivered
    BY DEF IInv
  <1> QED
    BY <1>1, InvariantHolds, PTL

\* Relays running at once never hold the same row, nor a settled one.
THEOREM ExclusiveClaims == Spec => []ClaimsAreExclusive
  <1>1. IInv => ClaimsAreExclusive
    BY DEF IInv
  <1> QED
    BY <1>1, InvariantHolds, PTL

------------------------------------------------------------------------------
(* Duplicates: every copy beyond the first is paid for by a setback.       *)

LEMMA MaySendFinite ==
  ASSUME NEW e, NEW q
  PROVE  IsFiniteSet(MaySend(e, q)) /\ Cardinality(MaySend(e, q)) \in Nat
<1>1. MaySend(e, q) \subseteq Relay
  BY DEF MaySend
<1> QED
  BY <1>1, RelayAssumption, FS_Subset, FS_CardinalityType

LEMMA CreditIsOne == \A e : Credit(e) \in 0 .. 1 /\ (Held(e) => Credit(e) = 1)
  BY DEF Credit

\* Nobody new may send the row, and it is held as before or had a setback.
LEMMA PaidKept ==
  ASSUME TypeOK, NEW e \in Event, NEW q \in Queue, Paid(e, q),
         IsFiniteSet(MaySend(e, q)), MaySend(e, q)' \subseteq MaySend(e, q),
         copies'[<<e, q>>] = copies[<<e, q>>], setbacks' \in [Event -> Nat],
         \/ setbacks'[e] = setbacks[e] /\ (Held(e) => Held(e)')
         \/ setbacks'[e] = setbacks[e] + 1
  PROVE  Paid(e, q)'
<1>1. /\ Cardinality(MaySend(e, q)) \in Nat /\ Cardinality(MaySend(e, q)') \in Nat
      /\ Cardinality(MaySend(e, q)') <= Cardinality(MaySend(e, q))
  BY FS_Subset, FS_CardinalityType
<1>2. /\ Credit(e) \in 0 .. 1 /\ Credit(e)' \in 0 .. 1
      /\ (Held(e) => Held(e)') => Credit(e) <= Credit(e)'
  BY DEF Credit
<1>3. setbacks[e] \in Nat /\ setbacks'[e] \in Nat /\ copies[<<e, q>>] \in Nat
  BY DEF TypeOK
<1> QED
  BY <1>1, <1>2, <1>3 DEF Paid

\* A relay that may send the row does so, and may no longer.
LEMMA PaidSent ==
  ASSUME TypeOK, NEW e \in Event, NEW q \in Queue, Paid(e, q),
         IsFiniteSet(MaySend(e, q)), NEW r \in MaySend(e, q),
         MaySend(e, q)' \subseteq MaySend(e, q) \ {r},
         copies'[<<e, q>>] \in {copies[<<e, q>>], copies[<<e, q>>] + 1},
         setbacks' \in [Event -> Nat],
         \/ setbacks'[e] = setbacks[e] /\ (Held(e) => Held(e)')
         \/ setbacks'[e] = setbacks[e] + 1
  PROVE  Paid(e, q)'
<1>1. /\ IsFiniteSet(MaySend(e, q) \ {r})
      /\ Cardinality(MaySend(e, q) \ {r}) = Cardinality(MaySend(e, q)) - 1
  BY FS_RemoveElement
<1>2. /\ Cardinality(MaySend(e, q)) \in Nat /\ Cardinality(MaySend(e, q)') \in Nat
      /\ Cardinality(MaySend(e, q)') <= Cardinality(MaySend(e, q)) - 1
  BY <1>1, FS_Subset, FS_CardinalityType
<1>3. /\ Credit(e) \in 0 .. 1 /\ Credit(e)' \in 0 .. 1
      /\ (Held(e) => Held(e)') => Credit(e) <= Credit(e)'
  BY DEF Credit
<1>4. setbacks[e] \in Nat /\ setbacks'[e] \in Nat /\ copies[<<e, q>>] \in Nat
  BY DEF TypeOK
<1> QED
  BY <1>2, <1>3, <1>4 DEF Paid

\* A row nobody holds is claimed by one relay.
LEMMA PaidClaimed ==
  ASSUME TypeOK, NEW e \in Event, NEW q \in Queue, Paid(e, q),
         IsFiniteSet(MaySend(e, q)), NEW r, MaySend(e, q)' \subseteq MaySend(e, q) \cup {r},
         copies'[<<e, q>>] = copies[<<e, q>>], setbacks'[e] = setbacks[e],
         ~Held(e), Held(e)'
  PROVE  Paid(e, q)'
<1>1. /\ IsFiniteSet(MaySend(e, q) \cup {r})
      /\ Cardinality(MaySend(e, q) \cup {r}) \in
           {Cardinality(MaySend(e, q)), Cardinality(MaySend(e, q)) + 1}
  BY FS_AddElement
<1>2. /\ Cardinality(MaySend(e, q)) \in Nat /\ Cardinality(MaySend(e, q)') \in Nat
      /\ Cardinality(MaySend(e, q)') <= Cardinality(MaySend(e, q)) + 1
  BY <1>1, FS_Subset, FS_CardinalityType
<1>3. Credit(e) = 0 /\ Credit(e)' = 1
  BY DEF Credit
<1>4. setbacks[e] \in Nat /\ copies[<<e, q>>] \in Nat
  BY DEF TypeOK
<1> QED
  BY <1>2, <1>3, <1>4 DEF Paid

LEMMA InitPaid == Init => PaidInv
<1> SUFFICES ASSUME Init PROVE PaidInv
  OBVIOUS
<1>1. HandShape
  BY EventAssumption DEF Init, HandShape, NoRow
<1>2. ASSUME NEW e \in Event, NEW q \in Queue PROVE Paid(e, q)
  <2>1. MaySend(e, q) = {}
    BY EventAssumption DEF Init, MaySend, NoRow
  <2>2. copies[<<e, q>>] = 0 /\ setbacks[e] = 0
    BY DEF Init
  <2> QED
    BY <2>1, <2>2, FS_EmptySet, CreditIsOne DEF Paid
<1> QED
  BY <1>1, <1>2 DEF PaidInv

\* Steps that neither send a row nor give one up.
LEMMA PaidQuiet ==
  ASSUME IInv, PaidInv, HandShape', copies' = copies, setbacks' = setbacks,
         \A e \in Event : Held(e) => Held(e)',
         \A e \in Event, q \in Queue : MaySend(e, q)' \subseteq MaySend(e, q)
  PROVE  PaidInv'
<1>1. ASSUME NEW e \in Event, NEW q \in Queue PROVE Paid(e, q)'
  BY MaySendFinite, PaidKept DEF IInv, TypeOK, PaidInv
<1> QED
  BY <1>1 DEF PaidInv

LEMMA TakeRowPaid ==
  ASSUME IInv, PaidInv, NEW r \in Relay, TakeRow(r)
  PROVE  PaidInv'
<1>1. PICK e \in todo[r] :
        /\ row'  = [row EXCEPT ![r] = e]
        /\ todo' = [todo EXCEPT ![r] = @ \ {e}]
        /\ left' = [left EXCEPT ![r] = Destinations[e]]
  BY DEF TakeRow
<1>2. e \in Event /\ row[r] = NoRow /\ left[r] = {}
  BY DEF IInv, TypeOK, PaidInv, HandShape, TakeRow
<1>3. HandShape'
  BY <1>1, <1>2 DEF TakeRow, IInv, TypeOK, PaidInv, HandShape, GoTo
<1>4. ASSUME NEW s \in Relay PROVE InHand(s) \subseteq InHand(s)'
  BY <1>1, <1>2, EventAssumption DEF TakeRow, IInv, TypeOK, InHand, NoRow
<1>5. ASSUME NEW f \in Event, NEW q \in Queue PROVE MaySend(f, q)' \subseteq MaySend(f, q)
  BY <1>1, <1>2 DEF IInv, TypeOK, MaySend
<1>6. \A f \in Event : Held(f) => Held(f)'
  BY <1>4 DEF TakeRow, Held
<1> QED
  BY <1>3, <1>5, <1>6, PaidQuiet DEF TakeRow

LEMMA RowFinishedPaid ==
  ASSUME IInv, PaidInv, NEW r \in Relay, RowFinished(r)
  PROVE  PaidInv'
<1>1. row[r] \in Event
  BY DEF RowFinished, IInv, TypeOK, TickShape
<1>2. HandShape'
  BY EventAssumption DEF RowFinished, IInv, TypeOK, PaidInv, HandShape, GoTo, NoRow
<1>3. ASSUME NEW s \in Relay PROVE InHand(s) \subseteq InHand(s)'
  BY <1>1 DEF RowFinished, IInv, TypeOK, InHand, NoRow
<1>4. ASSUME NEW f \in Event, NEW q \in Queue PROVE MaySend(f, q)' \subseteq MaySend(f, q)
  BY EventAssumption DEF RowFinished, IInv, TypeOK, MaySend, NoRow
<1>5. \A f \in Event : Held(f) => Held(f)'
  BY <1>3 DEF RowFinished, Held
<1> QED
  BY <1>2, <1>4, <1>5, PaidQuiet DEF RowFinished

\* The tick ends: what was in hand is settled with the claim, or was given up
\* when the transaction was lost.
LEMMA TickEndsPaid ==
  ASSUME IInv, PaidInv, NEW r \in Relay, MarkAndCommit(r) \/ MarkThrows(r)
  PROVE  PaidInv'
<1>1. /\ ForgetTick(r) /\ phase[r] = "marking" /\ phase'[r] \notin {"looping", "sending"}
      /\ \A s \in Relay \ {r} : phase'[s] = phase[s]
      /\ copies' = copies /\ setbacks' = setbacks
  BY DEF MarkAndCommit, MarkThrows, GoTo, IInv, TypeOK
<1>2. todo[r] = {} /\ row[r] = NoRow /\ InHand(r) = finished[r]
  BY <1>1 DEF PaidInv, HandShape, InHand
<1>3. HandShape'
  BY <1>1, EventAssumption DEF IInv, TypeOK, PaidInv, HandShape, ForgetTick, NoRow
<1>4. ASSUME NEW f \in Event, NEW q \in Queue PROVE MaySend(f, q)' \subseteq MaySend(f, q)
  BY <1>1 DEF IInv, TypeOK, MaySend, ForgetTick
<1>5. ASSUME NEW f \in Event, Held(f) PROVE Held(f)'
  <2>1. published \subseteq published' /\ (txOpen[r] => finished[r] \subseteq published')
    BY DEF MarkAndCommit, MarkThrows
  <2>2. CASE f \in published
    BY <2>1, <2>2 DEF Held
  <2>3. CASE f \notin published
    <3>1. PICK s \in Relay : txOpen[s] /\ f \in InHand(s)
      BY <1>5, <2>3 DEF Held
    <3>2. CASE s = r
      BY <1>2, <2>1, <3>1, <3>2 DEF Held
    <3>3. CASE s # r
      <4>1. txOpen'[s] = txOpen[s] /\ InHand(s)' = InHand(s)
        BY <1>1, <3>3 DEF IInv, TypeOK, ForgetTick, InHand
      <4> QED
        BY <3>1, <4>1 DEF Held
    <3> QED
      BY <3>2, <3>3
  <2> QED
    BY <2>2, <2>3
<1> QED
  BY <1>1, <1>3, <1>4, <1>5, PaidQuiet

\* A claim takes rows that no open claim has in hand.
LEMMA ClaimPaid ==
  ASSUME IInv, PaidInv, NEW r \in Relay, Claim(r)
  PROVE  PaidInv'
<1>1. PICK S \in SUBSET Claimable :
        /\ batch' = [batch EXCEPT ![r] = S]
        /\ todo'  = [todo EXCEPT ![r] = S]
  BY DEF Claim
<1>2. S \subseteq Event /\ txOpen' = [txOpen EXCEPT ![r] = TRUE] /\ ~txOpen[r]
  BY <1>1 DEF Claim, Claimable, Unpublished, IInv, TypeOK, TickShape
<1>3. todo[r] = {} /\ row[r] = NoRow /\ finished[r] = {}
  BY DEF Claim, IInv, TickShape, PaidInv, HandShape
<1>4. HandShape'
  BY <1>1, <1>2, EventAssumption DEF Claim, IInv, TypeOK, PaidInv, HandShape, GoTo, NoRow
<1>5. ASSUME NEW f \in Event, Held(f) PROVE Held(f)'
  <2>1. CASE f \in published
    BY <2>1 DEF Claim, Held
  <2>2. CASE f \notin published
    <3>1. PICK s \in Relay : txOpen[s] /\ f \in InHand(s)
      BY <1>5, <2>2 DEF Held
    <3>2. s # r
      BY <1>2, <3>1
    <3>3. txOpen'[s] /\ InHand(s)' = InHand(s)
      BY <1>1, <1>2, <3>1, <3>2 DEF Claim, IInv, TypeOK, InHand
    <3> QED
      BY <3>1, <3>3 DEF Held
  <2> QED
    BY <2>1, <2>2
<1>6. ASSUME NEW f \in S PROVE ~Held(f) /\ Held(f)'
  <2>1. f \notin published /\ \A s \in Relay : txOpen[s] => f \notin batch[s]
    BY <1>1 DEF Claimable, Unpublished, Locked
  <2>2. ASSUME NEW s \in Relay, txOpen[s] PROVE InHand(s) \subseteq batch[s]
    BY <2>2 DEF IInv, TickShape, PaidInv, HandShape, InHand
  <2>3. f \in InHand(r)' /\ txOpen'[r]
    BY <1>1, <1>2 DEF IInv, TypeOK, InHand
  <2> QED
    BY <2>1, <2>2, <2>3 DEF Held
<1>7. ASSUME NEW f \in Event, NEW q \in Queue PROVE Paid(f, q)'
  <2>1. MaySend(f, q)' \subseteq IF f \in S THEN MaySend(f, q) \cup {r} ELSE MaySend(f, q)
    BY <1>1 DEF Claim, IInv, TypeOK, MaySend
  <2>2. copies' = copies /\ setbacks' = setbacks /\ TypeOK /\ Paid(f, q)
    BY DEF Claim, IInv, PaidInv
  <2>3. IsFiniteSet(MaySend(f, q)) /\ setbacks' \in [Event -> Nat]
    BY <2>2, MaySendFinite DEF TypeOK
  <2>4. CASE f \in S
    BY <1>6, <2>1, <2>2, <2>3, <2>4, PaidClaimed
  <2>5. CASE f \notin S
    BY <1>5, <2>1, <2>2, <2>3, <2>5, PaidKept
  <2> QED
    BY <2>4, <2>5
<1> QED
  BY <1>4, <1>7 DEF PaidInv

\* Only the queue that is sent to gets a copy.
LEMMA AcceptsOne ==
  ASSUME IInv, NEW r \in Relay, phase[r] = "sending", NEW q \in left[r],
         Accept(r, q) \/ UNCHANGED copies, NEW f \in Event, NEW p \in Queue
  PROVE  IF f = row[r] /\ p = q
           THEN copies'[<<f, p>>] \in {copies[<<f, p>>], copies[<<f, p>>] + 1}
           ELSE copies'[<<f, p>>] = copies[<<f, p>>]
<1>1. row[r] \in Event /\ q \in Queue /\ copies \in [Event \X Queue -> Nat]
  BY DEF IInv, TypeOK, TickShape
<1> DEFINE d == <<row[r], q>>
           c == <<f, p>>
<1>2. d \in Event \X Queue /\ c \in Event \X Queue
  BY <1>1
<1>3. c = d <=> f = row[r] /\ p = q
  OBVIOUS
<1>4. Accept(r, q) => copies' = [copies EXCEPT ![d] = copies[d] + 1]
  BY DEF Accept
<1> HIDE DEF c, d
<1>5. /\ c = d => copies'[c] \in {copies[c], copies[c] + 1}
      /\ c # d => copies'[c] = copies[c]
  BY <1>1, <1>2, <1>4
<1> QED
  BY <1>3, <1>5 DEF c

LEMMA SendOkPaid ==
  ASSUME IInv, PaidInv, NEW r \in Relay, SendOk(r)
  PROVE  PaidInv'
<1>1. PICK q \in left[r] : Accept(r, q) /\ left' = [left EXCEPT ![r] = @ \ {q}]
  BY DEF SendOk
<1>2. UNCHANGED <<published, phase, txOpen, todo, row, finished, setbacks>> /\ phase[r] = "sending"
  BY DEF SendOk
<1>3. row[r] \in Event /\ q \in Queue /\ row[r] \notin todo[r]
  BY <1>2 DEF IInv, TypeOK, TickShape, PaidInv, HandShape
<1>4. HandShape'
  BY <1>1, <1>2 DEF IInv, TypeOK, PaidInv, HandShape
<1>5. ASSUME NEW f \in Event, NEW p \in Queue PROVE Paid(f, p)'
  <2>1. Held(f)' = Held(f)
    BY <1>2 DEF Held, InHand
  <2>2. TypeOK /\ Paid(f, p) /\ IsFiniteSet(MaySend(f, p)) /\ setbacks' \in [Event -> Nat]
    BY <1>2, MaySendFinite DEF IInv, TypeOK, PaidInv
  <2>3. CASE f = row[r] /\ p = q
    <3>1. r \in MaySend(f, p) /\ MaySend(f, p)' \subseteq MaySend(f, p) \ {r}
      BY <1>1, <1>2, <1>3, <2>3 DEF IInv, TypeOK, MaySend
    <3>2. copies'[<<f, p>>] \in {copies[<<f, p>>], copies[<<f, p>>] + 1}
      BY <1>1, <1>2, <2>3, AcceptsOne
    <3> QED
      BY <1>2, <2>1, <2>2, <3>1, <3>2, PaidSent
  <2>4. CASE ~(f = row[r] /\ p = q)
    <3>1. MaySend(f, p)' \subseteq MaySend(f, p)
      BY <1>1, <1>2 DEF IInv, TypeOK, MaySend
    <3>2. copies'[<<f, p>>] = copies[<<f, p>>]
      BY <1>1, <1>2, <2>4, AcceptsOne
    <3> QED
      BY <1>2, <2>1, <2>2, <3>1, <3>2, PaidKept
  <2> QED
    BY <2>3, <2>4
<1> QED
  BY <1>4, <1>5 DEF PaidInv

\* A send that fails gives the row up: with its claim open that is a setback,
\* with its claim lost it was one when the claim was lost.
LEMMA SendFailsPaid ==
  ASSUME IInv, PaidInv, NEW r \in Relay, SendFails(r)
  PROVE  PaidInv'
<1>1. PICK q \in left[r] : Accept(r, q) \/ UNCHANGED copies
  BY DEF SendFails
<1>2. /\ UNCHANGED <<published, txOpen, todo, finished>> /\ phase[r] = "sending"
      /\ row' = [row EXCEPT ![r] = NoRow] /\ left' = [left EXCEPT ![r] = {}]
      /\ phase' = [phase EXCEPT ![r] = "looping"]
  BY DEF SendFails, GoTo
<1>3. row[r] \in Event /\ q \in Queue /\ row[r] \notin todo[r]
  BY <1>2 DEF IInv, TypeOK, TickShape, PaidInv, HandShape
<1>4. HandShape'
  BY <1>1, <1>2, EventAssumption DEF IInv, TypeOK, PaidInv, HandShape, NoRow
<1>5. /\ setbacks' \in [Event -> Nat]
      /\ \A f \in Event : setbacks'[f] =
           IF txOpen[r] /\ f = row[r] THEN setbacks[f] + 1 ELSE setbacks[f]
  BY DEF SendFails, CountSetbacks, IInv, TypeOK
<1>6. ASSUME NEW f \in Event, Held(f), ~(txOpen[r] /\ f = row[r]) PROVE Held(f)'
  <2>1. CASE f \in published
    BY <1>2, <2>1 DEF Held
  <2>2. CASE f \notin published
    <3>1. PICK s \in Relay : txOpen[s] /\ f \in InHand(s)
      BY <1>6, <2>2 DEF Held
    <3>2. f \in InHand(s)'
      BY <1>2, <1>6, <3>1 DEF IInv, TypeOK, InHand
    <3> QED
      BY <1>2, <3>1, <3>2 DEF Held
  <2> QED
    BY <2>1, <2>2
<1>7. ASSUME NEW f \in Event, NEW p \in Queue PROVE Paid(f, p)'
  <2>1. \/ setbacks'[f] = setbacks[f] /\ (Held(f) => Held(f)')
        \/ setbacks'[f] = setbacks[f] + 1
    BY <1>5, <1>6
  <2>2. TypeOK /\ Paid(f, p) /\ IsFiniteSet(MaySend(f, p))
    BY MaySendFinite DEF IInv, PaidInv
  <2>3. CASE f = row[r] /\ p = q
    <3>1. r \in MaySend(f, p) /\ MaySend(f, p)' \subseteq MaySend(f, p) \ {r}
      BY <1>2, <1>3, <2>3, EventAssumption DEF IInv, TypeOK, MaySend, NoRow
    <3>2. copies'[<<f, p>>] \in {copies[<<f, p>>], copies[<<f, p>>] + 1}
      BY <1>1, <1>2, <2>3, AcceptsOne
    <3> QED
      BY <1>5, <2>1, <2>2, <3>1, <3>2, PaidSent
  <2>4. CASE ~(f = row[r] /\ p = q)
    <3>1. MaySend(f, p)' \subseteq MaySend(f, p)
      BY <1>2, EventAssumption DEF IInv, TypeOK, MaySend, NoRow
    <3>2. copies'[<<f, p>>] = copies[<<f, p>>]
      BY <1>1, <1>2, <2>4, AcceptsOne
    <3> QED
      BY <1>5, <2>1, <2>2, <3>1, <3>2, PaidKept
  <2> QED
    BY <2>3, <2>4
<1> QED
  BY <1>4, <1>7 DEF PaidInv

\* A claim that is lost, by its transaction or with its process, is a setback
\* of every row it had in hand.
LEMMA ClaimLostPaid ==
  ASSUME IInv, PaidInv, NEW r \in Relay, TxAborts(r) \/ Crash(r)
  PROVE  PaidInv'
<1>1. /\ published' = published /\ copies' = copies
      /\ setbacks' \in [Event -> Nat]
      /\ \A f \in Event : setbacks'[f] =
           IF txOpen[r] /\ f \in InHand(r) THEN setbacks[f] + 1 ELSE setbacks[f]
  <2>1. \/ ~txOpen[r] /\ setbacks' = setbacks
        \/ txOpen[r] /\ CountSetbacks(InHand(r))
    BY DEF TxAborts, Crash
  <2> QED
    BY <2>1 DEF CountSetbacks, IInv, TypeOK, TxAborts, Crash
<1>2. \A s \in Relay \ {r} :
        /\ txOpen'[s] = txOpen[s] /\ todo'[s] = todo[s] /\ row'[s] = row[s]
        /\ finished'[s] = finished[s] /\ left'[s] = left[s] /\ phase'[s] = phase[s]
  BY DEF TxAborts, Crash, ForgetTick, GoTo, IInv, TypeOK, tickVars
<1>3. \/ /\ todo'[r] = todo[r] /\ row'[r] = row[r] /\ left'[r] = left[r]
         /\ phase'[r] = phase[r]
      \/ /\ todo'[r] = {} /\ row'[r] = NoRow /\ left'[r] = {} /\ phase'[r] = "down"
  BY DEF TxAborts, Crash, ForgetTick, GoTo, IInv, TypeOK, tickVars
<1>4. HandShape'
  BY <1>2, <1>3, EventAssumption DEF IInv, TypeOK, PaidInv, HandShape, NoRow
<1>5. ASSUME NEW f \in Event, Held(f), ~(txOpen[r] /\ f \in InHand(r)) PROVE Held(f)'
  BY <1>1, <1>2, <1>5 DEF Held, InHand
<1>6. ASSUME NEW f \in Event, NEW p \in Queue PROVE Paid(f, p)'
  <2>1. \/ setbacks'[f] = setbacks[f] /\ (Held(f) => Held(f)')
        \/ setbacks'[f] = setbacks[f] + 1
    BY <1>1, <1>5
  <2>2. TypeOK /\ Paid(f, p) /\ IsFiniteSet(MaySend(f, p))
    BY MaySendFinite DEF IInv, PaidInv
  <2>3. MaySend(f, p)' \subseteq MaySend(f, p)
    BY <1>2, <1>3, EventAssumption DEF MaySend, NoRow
  <2> QED
    BY <1>1, <2>1, <2>2, <2>3, PaidKept
<1> QED
  BY <1>4, <1>6 DEF PaidInv

LEMMA StepPaid == IInv /\ PaidInv /\ [Next]_vars => PaidInv'
<1> SUFFICES ASSUME IInv, PaidInv, [Next]_vars PROVE PaidInv'
  OBVIOUS
<1>1. CASE \/ UNCHANGED vars \/ TimePasses \/ \E e \in Event : Append(e)
  <2>1. UNCHANGED <<published, copies, phase, txOpen, todo, row, left, finished, setbacks>>
    BY <1>1 DEF vars, tickVars, TimePasses, Append
  <2>2. HandShape'
    BY <2>1 DEF PaidInv, HandShape
  <2>3. \A e \in Event : Held(e) => Held(e)'
    BY <2>1 DEF Held, InHand
  <2>4. \A e \in Event, q \in Queue : MaySend(e, q)' \subseteq MaySend(e, q)
    BY <2>1 DEF MaySend
  <2> QED
    BY <2>1, <2>2, <2>3, <2>4, PaidQuiet
<1>2. ASSUME NEW r \in Relay,
             MeasureLag(r) \/ LoopEnds(r) \/ Report(r) \/ ReportFails(r) \/ Restart(r)
      PROVE  PaidInv'
  <2>1. UNCHANGED <<published, copies, txOpen, todo, row, left, finished, setbacks>>
    BY <1>2 DEF tickVars, MeasureLag, LoopEnds, Report, ReportFails, Restart
  <2>2. HandShape'
    BY <1>2, <2>1 DEF IInv, TypeOK, PaidInv, HandShape, GoTo, MeasureLag, LoopEnds, Report,
                      ReportFails, Restart
  <2>3. \A e \in Event : Held(e) => Held(e)'
    BY <2>1 DEF Held, InHand
  <2>4. \A e \in Event, q \in Queue : MaySend(e, q)' \subseteq MaySend(e, q)
    BY <2>1 DEF MaySend
  <2> QED
    BY <2>1, <2>2, <2>3, <2>4, PaidQuiet
<1>3. ASSUME NEW r \in Relay, TickStep(r) PROVE PaidInv'
  BY <1>2, <1>3, ClaimPaid, TakeRowPaid, SendOkPaid, RowFinishedPaid, TickEndsPaid DEF TickStep
<1>4. ASSUME NEW r \in Relay, FaultStep(r) PROVE PaidInv'
  BY <1>2, <1>4, SendFailsPaid, ClaimLostPaid DEF FaultStep
<1> QED
  BY <1>1, <1>2, <1>3, <1>4 DEF Next

LEMMA PaidBounds == IInv /\ PaidInv => DuplicatesAccountedFor
  <1> SUFFICES ASSUME IInv, PaidInv, NEW e \in Event, NEW q \in Queue
               PROVE  copies[<<e, q>>] <= setbacks[e] + 1
    BY DEF DuplicatesAccountedFor
  <1>1. Paid(e, q) /\ Cardinality(MaySend(e, q)) \in Nat /\ Credit(e) \in 0 .. 1
    BY MaySendFinite, CreditIsOne DEF PaidInv
  <1>2. copies[<<e, q>>] \in Nat /\ setbacks[e] \in Nat
    BY DEF IInv, TypeOK
  <1> QED
    BY <1>1, <1>2 DEF Paid

\* A queue holds a second copy of an event only for a setback of its row, also
\* while ticks that lost their transaction go on sending (outbox-relay.sweep).
THEOREM DuplicatesArePaidFor == Spec => []DuplicatesAccountedFor
  BY PaidBounds, InitPaid, StepPaid, InvariantHolds, PTL DEF Spec

------------------------------------------------------------------------------
(* Refinement: each step of the relay is a step of AtLeastOnceOutbox or    *)
(* leaves its variables alone.                                             *)

LEMMA InitRefines == Init => Outbox!Init
  BY DEF Init, Outbox!Init

\* What the broker accepts for the row in hand is a delivery.
LEMMA AcceptRefines ==
  ASSUME IInv, NEW r \in Relay, phase[r] = "sending", NEW q \in left[r],
         Accept(r, q), UNCHANGED <<committed, published>>
  PROVE  Outbox!Next
  <1> DEFINE d == <<row[r], q>>
  <1>1. row[r] \in committed /\ row[r] \in Event /\ q \in Queue
        /\ q \in Destinations[row[r]]
    BY DestinationsAssumption DEF IInv, TypeOK, TickShape, TickDelivered
  <1>2. d \in Event \X Queue
    BY <1>1
  <1>3. copies' = [copies EXCEPT ![d] = @ + 1]
    BY DEF Accept
  <1>4. copies \in [Event \X Queue -> Nat]
    BY DEF IInv, TypeOK
  <1> HIDE DEF d
  <1>5. {c \in Event \X Queue : copies'[c] > 0}
          = {c \in Event \X Queue : copies[c] > 0} \cup {d}
    <2>1. copies'[d] > 0
      BY <1>2, <1>3, <1>4
    <2>2. ASSUME NEW c \in Event \X Queue, c # d
          PROVE  copies'[c] = copies[c]
      BY <2>2, <1>3, <1>4
    <2> QED
      BY <2>1, <2>2, <1>2
  <1>6. Outbox!Deliver(row[r], q)
    BY <1>1, <1>5 DEF Outbox!Deliver, d
  <1> QED
    BY <1>1, <1>6 DEF Outbox!Next

\* What is marked was received everywhere: marking settles it.
LEMMA MarkRefines ==
  ASSUME IInv, NEW r \in Relay, MarkAndCommit(r)
  PROVE  Outbox!Next
  <1>1. finished[r] \in SUBSET Event /\ finished[r] \subseteq committed
    BY DEF IInv, TypeOK, TickShape
  <1>2. ASSUME NEW e \in finished[r]
        PROVE  Outbox!Routes(e) \subseteq
                 {d \in Event \X Queue : copies[d] > 0}
    BY <1>1, DestinationsAssumption
    DEF IInv, TickDelivered, Received, Outbox!Routes
  <1>3. Outbox!Settle(finished[r])
    BY <1>1, <1>2 DEF Outbox!Settle, MarkAndCommit
  <1> QED
    BY <1>1, <1>3 DEF Outbox!Next

LEMMA StepRefines == IInv /\ [Next]_vars => [Outbox!Next]_(Outbox!vars)
  <1> SUFFICES ASSUME IInv, [Next]_vars
               PROVE  [Outbox!Next]_(Outbox!vars)
    OBVIOUS
  <1>1. ASSUME UNCHANGED <<committed, published, copies>>
        PROVE  UNCHANGED Outbox!vars
    BY <1>1 DEF Outbox!vars
  <1>2. ASSUME NEW e \in Event, Append(e)
        PROVE  Outbox!Next
    <2>1. Outbox!Commit(e)
      BY <1>2 DEF Append, Outbox!Commit
    <2> QED
      BY <2>1 DEF Outbox!Next
  <1>3. ASSUME NEW r \in Relay, SendOk(r)
        PROVE  Outbox!Next
    BY <1>3, AcceptRefines DEF SendOk
  <1>4. ASSUME NEW r \in Relay, SendFails(r)
        PROVE  Outbox!Next \/ UNCHANGED Outbox!vars
    <2>1. PICK q \in left[r] : Accept(r, q) \/ UNCHANGED copies
      BY <1>4 DEF SendFails
    <2>2. phase[r] = "sending" /\ UNCHANGED <<committed, published>>
      BY <1>4 DEF SendFails
    <2> QED
      BY <2>1, <2>2, <1>1, AcceptRefines
  <1>5. ASSUME NEW r \in Relay, TickStep(r) \/ FaultStep(r) \/ Restart(r)
        PROVE  Outbox!Next \/ UNCHANGED Outbox!vars
    <2>1. CASE SendOk(r) \/ SendFails(r) \/ MarkAndCommit(r)
      BY <2>1, <1>3, <1>4, MarkRefines
    <2>2. CASE ~(SendOk(r) \/ SendFails(r) \/ MarkAndCommit(r))
      <3>1. UNCHANGED <<committed, published, copies>>
        BY <1>5, <2>2
        DEF TickStep, FaultStep, MeasureLag, Claim, TakeRow, RowFinished,
            LoopEnds, MarkThrows, Report, TxAborts, ReportFails, Crash,
            Restart
      <3> QED
        BY <3>1, <1>1
    <2> QED
      BY <2>1, <2>2
  <1>6. TimePasses \/ UNCHANGED vars => UNCHANGED <<committed, published, copies>>
    BY DEF TimePasses, vars
  <1> QED
    BY <1>1, <1>2, <1>5, <1>6 DEF Next

\* The relay is an at-least-once outbox: a behaviour of its ticks, crashes and
\* lost transactions only ever commits, delivers to subscribed queues, and
\* settles what was delivered everywhere.
THEOREM ImplementsAtLeastOnce == Spec => RefinesOutbox
  BY InitRefines, StepRefines, InvariantHolds, PTL
     DEF Spec, RefinesOutbox, Outbox!Spec

(***************************************************************************)
(* The consumer                                                            *)
(***************************************************************************)
\* The parts of TypeOK.
BrokerTypes ==
  /\ place \in [Message -> Consuming!Place]
  /\ visible \in [Message -> BOOLEAN]
  /\ receives \in [Message -> 0..MaxReceive]

RecordTypes ==
  /\ ledger \subseteq Event
  /\ effects \in [Event -> Nat]
  /\ slips \in [Event -> Nat]

PollTypes ==
  /\ pollPhase \in [Poller -> Consuming!Phase]
  /\ pollBatch \in [Poller -> SUBSET Message]
  /\ msg \in [Poller -> (Message \ Malformed) \cup {Consuming!NoMessage}]
  /\ \A p \in Poller :
       /\ pollPhase[p] \in {"idle", "down"} => pollBatch[p] = {}
       /\ msg[p] # Consuming!NoMessage <=> pollPhase[p] \in {"handling", "marking", "deleting"}

ReceiptTypes == receipt \in [Poller -> [Message -> 0..MaxReceive]]

AlertTypes ==
  /\ dlqSeen \in BOOLEAN /\ taken \in BOOLEAN
  /\ told \subseteq Message /\ overlooked \subseteq Message

\* The work comes first, then its record, then the acknowledgement.
WorkBeforeRecord ==
  /\ \A e \in ledger : effects[e] > 0
  /\ \A p \in Poller : pollPhase[p] = "marking" => effects[Consuming!EventIn(p)] > 0

RecordBeforeDelete ==
  \A p \in Poller : pollPhase[p] = "deleting" => Consuming!EventIn(p) \in ledger

\* Pollers in the handler for e: each may do the work once more.
Handling(e) == {p \in Poller : pollPhase[p] = "handling" /\ Consuming!EventIn(p) = e}

\* The first work on an event is free, and every further one that was done or
\* is being done has its slip; the first is free again when it left no record
\* and nobody is at it, which is what its own slip paid for.
WorkIsPaid ==
  \A e \in Event :
    /\ IsFiniteSet(Handling(e))
    /\ effects[e] + Cardinality(Handling(e)) <= slips[e] + 1
    /\ e \notin ledger /\ Consuming!AtWorkOn(e) = {} => effects[e] <= slips[e]

ConsumerInv ==
  /\ Consuming!TypeOK
  /\ WorkBeforeRecord
  /\ RecordBeforeDelete
  /\ Consuming!AckedWasProcessed
  /\ WorkIsPaid


\* Everybody but p is where it was, with the message it had.
OthersStay(p) ==
  \A q \in Poller \ {p} : pollPhase'[q] = pollPhase[q] /\ msg'[q] = msg[q]

Working(ph) == ph \in {"handling", "marking"}

------------------------------------------------------------------------------
LEMMA TypesInParts ==
  Consuming!TypeOK <=> /\ BrokerTypes /\ RecordTypes /\ PollTypes /\ ReceiptTypes
             /\ AlertTypes
  BY DEF Consuming!TypeOK, BrokerTypes, RecordTypes, PollTypes, ReceiptTypes,
         AlertTypes

LEMMA TypesInPartsNext ==
  Consuming!TypeOK' <=> /\ BrokerTypes' /\ RecordTypes' /\ PollTypes' /\ ReceiptTypes'
              /\ AlertTypes'
  BY DEF Consuming!TypeOK, BrokerTypes, RecordTypes, PollTypes, ReceiptTypes,
         AlertTypes

\* The alert is the relay's and the operators' alone.
LEMMA SameAlert ==
  ASSUME AlertTypes, UNCHANGED Consuming!alertVars
  PROVE  AlertTypes'
  BY DEF AlertTypes, Consuming!alertVars

LEMMA NotAMessage == Consuming!NoMessage \notin Message
  BY ConsumerAssumption DEF Consuming!NoMessage

LEMMA WithinLimit == 0 \in 0..MaxReceive
  BY ConsumerAssumption

LEMMA Workshop ==
  ASSUME PollTypes, NEW p \in Poller,
         pollPhase[p] \in {"handling", "marking", "deleting"}
  PROVE  msg[p] \in Message \ Malformed /\ Consuming!EventIn(p) \in Event
  BY ConsumerAssumption DEF PollTypes, Consuming!EventIn

\* Only p can enter or leave the pollers that handle e or are at work on it.
LEMMA OnlyOneMoves ==
  ASSUME NEW p \in Poller, OthersStay(p), NEW e
  PROVE  /\ Handling(e)' \ {p} = Handling(e) \ {p}
         /\ Consuming!AtWorkOn(e)' \ {p} = Consuming!AtWorkOn(e) \ {p}
         /\ p \in Handling(e)' <=> pollPhase'[p] = "handling" /\ Consuming!EventIn(p)' = e
         /\ p \in Consuming!AtWorkOn(e)' <=> Working(pollPhase'[p]) /\ Consuming!EventIn(p)' = e
  BY DEF OthersStay, Handling, Consuming!AtWorkOn, Consuming!EventIn, Working

LEMMA SameWork ==
  ASSUME UNCHANGED <<pollPhase, msg>>, NEW e
  PROVE  Handling(e)' = Handling(e) /\ Consuming!AtWorkOn(e)' = Consuming!AtWorkOn(e)
  BY DEF Handling, Consuming!AtWorkOn, Consuming!EventIn

\* A poller that is not at work afterwards leaves no repeat unpaid: either it
\* did no work, or the work has its record or its slip.
LEMMA LeavesWork ==
  ASSUME Consuming!TypeOK, WorkIsPaid, NEW p \in Poller, OthersStay(p),
         ~Working(pollPhase'[p]), UNCHANGED effects, ledger \subseteq ledger',
         slips' \in [Event -> Nat],
         \A e \in Event : slips'[e] >= slips[e],
         pollPhase[p] = "marking" => \/ Consuming!EventIn(p) \in ledger'
                                 \/ slips'[Consuming!EventIn(p)] = slips[Consuming!EventIn(p)] + 1
  PROVE  WorkIsPaid'
  <1> SUFFICES ASSUME NEW e \in Event
               PROVE  /\ IsFiniteSet(Handling(e)')
                      /\ effects[e] + Cardinality(Handling(e)') <= slips'[e] + 1
                      /\ e \notin ledger' /\ Consuming!AtWorkOn(e)' = {}
                           => effects[e] <= slips'[e]
    BY DEF WorkIsPaid
  <1>1. /\ effects[e] \in Nat /\ slips[e] \in Nat /\ slips'[e] \in Nat
        /\ slips'[e] >= slips[e]
    BY DEF Consuming!TypeOK
  <1>2. /\ IsFiniteSet(Handling(e))
        /\ effects[e] + Cardinality(Handling(e)) <= slips[e] + 1
        /\ e \notin ledger /\ Consuming!AtWorkOn(e) = {} => effects[e] <= slips[e]
    BY DEF WorkIsPaid
  <1>3. Handling(e)' = Handling(e) \ {p} /\ Consuming!AtWorkOn(e)' = Consuming!AtWorkOn(e) \ {p}
    BY OnlyOneMoves DEF Working
  <1>4. /\ IsFiniteSet(Handling(e)')
        /\ Cardinality(Handling(e)) \in Nat
        /\ Cardinality(Handling(e)') = IF p \in Handling(e)
                                       THEN Cardinality(Handling(e)) - 1
                                       ELSE Cardinality(Handling(e))
    BY <1>2, <1>3, FS_RemoveElement, FS_CardinalityType
  <1>5. effects[e] + Cardinality(Handling(e)') <= slips'[e] + 1
    BY <1>1, <1>2, <1>4
  <1>6. ASSUME e \notin ledger', Consuming!AtWorkOn(e)' = {}
        PROVE  effects[e] <= slips'[e]
    <2>1. CASE p \notin Consuming!AtWorkOn(e)
      BY <1>1, <1>2, <1>3, <1>6, <2>1
    <2>2. CASE p \in Consuming!AtWorkOn(e) /\ pollPhase[p] = "handling"
      <3>1. Handling(e) = {p}
        BY <1>3, <1>6, <2>2 DEF Handling, Consuming!AtWorkOn
      <3>2. Cardinality(Handling(e)) = 1
        BY <3>1, FS_Singleton
      <3> QED
        BY <1>1, <1>2, <3>2
    <2>3. CASE p \in Consuming!AtWorkOn(e) /\ pollPhase[p] = "marking"
      <3>1. slips'[e] = slips[e] + 1
        BY <1>6, <2>3 DEF Consuming!AtWorkOn
      <3> QED
        BY <1>1, <1>2, <1>4, <3>1
    <2> QED
      BY <2>1, <2>2, <2>3 DEF Consuming!AtWorkOn
  <1> QED
    BY <1>4, <1>5, <1>6

\* Nobody's record, work or acknowledgement is taken back.
LEMMA RecordsStay ==
  ASSUME WorkBeforeRecord, RecordBeforeDelete, Consuming!AckedWasProcessed,
         NEW p \in Poller, OthersStay(p), UNCHANGED effects,
         ledger \subseteq ledger',
         \A e \in ledger' \ ledger : effects[e] > 0,
         pollPhase'[p] # "marking",
         pollPhase'[p] = "deleting" => Consuming!EventIn(p)' \in ledger',
         \A m \in Message : place'[m] = "deleted" =>
           \/ place[m] = "deleted"
           \/ m \notin Malformed /\ EventOf[m] \in ledger
  PROVE  WorkBeforeRecord' /\ RecordBeforeDelete' /\ Consuming!AckedWasProcessed'
  BY DEF WorkBeforeRecord, RecordBeforeDelete, Consuming!AckedWasProcessed, OthersStay,
         Consuming!EventIn

------------------------------------------------------------------------------
LEMMA ConsumerInit == Consuming!Init => ConsumerInv
  <1> SUFFICES ASSUME Consuming!Init
               PROVE  ConsumerInv
    OBVIOUS
  <1>1. BrokerTypes
    BY WithinLimit DEF Consuming!Init, BrokerTypes, Consuming!Place
  <1>2. RecordTypes
    BY DEF Consuming!Init, RecordTypes
  <1>3. PollTypes
    BY DEF Consuming!Init, PollTypes, Consuming!Phase
  <1>4. ReceiptTypes
    BY WithinLimit DEF Consuming!Init, ReceiptTypes
  <1>5. WorkBeforeRecord /\ RecordBeforeDelete /\ Consuming!AckedWasProcessed
    BY DEF Consuming!Init, WorkBeforeRecord, RecordBeforeDelete, Consuming!AckedWasProcessed
  <1>6. WorkIsPaid
    <2>1. \A e \in Event : Handling(e) = {}
      BY DEF Consuming!Init, Handling
    <2>2. IsFiniteSet({}) /\ Cardinality({}) = 0
      BY FS_EmptySet
    <2> QED
      BY <2>1, <2>2 DEF Consuming!Init, WorkIsPaid
  <1>7. AlertTypes
    BY DEF Consuming!Init, AlertTypes
  <1> QED
    BY <1>1, <1>2, <1>3, <1>4, <1>5, <1>6, <1>7, TypesInParts DEF ConsumerInv

\* The broker counts and moves only what it hands out, and never to "deleted".
LEMMA HandOutFacts ==
  ASSUME BrokerTypes, NEW S, S \subseteq Message, Consuming!HandOut(S)
  PROVE  /\ place' \in [Message -> Consuming!Place]
         /\ receives' \in [Message -> 0..MaxReceive]
         /\ \A m \in Message : place'[m] = "deleted" => place[m] = "deleted"
         /\ \A m \in Consuming!Returned(S) : receives[m] + 1 \in 0..MaxReceive
  <1>1. \A m \in Message : receives[m] \in 0..MaxReceive /\ MaxReceive \in Nat
    BY ConsumerAssumption DEF BrokerTypes
  <1>2. \A m \in Consuming!Returned(S) : m \in Message /\ receives[m] + 1 \in 0..MaxReceive
    BY <1>1 DEF Consuming!Returned, Consuming!Exhausted
  <1>3. \A m \in Message :
          receives[m] + (IF m \in Consuming!Returned(S) THEN 1 ELSE 0) \in 0..MaxReceive
    BY <1>1, <1>2
  <1>4. receives' \in [Message -> 0..MaxReceive]
    BY <1>3 DEF Consuming!HandOut
  <1>5. place' \in [Message -> Consuming!Place]
    BY DEF Consuming!HandOut, BrokerTypes, Consuming!Place
  <1>6. \A m \in Message : place'[m] = "deleted" => place[m] = "deleted"
    BY DEF Consuming!HandOut
  <1> QED
    BY <1>2, <1>4, <1>5, <1>6

LEMMA HideTypes ==
  ASSUME BrokerTypes, NEW S, Consuming!Hide(S)
  PROVE  visible' \in [Message -> BOOLEAN]
  BY DEF BrokerTypes, Consuming!Hide

\* The broker, the operator and the relay work beside the pollers.
LEMMA BesideInv ==
  ASSUME ConsumerInv, UNCHANGED <<Consuming!pollVars, Consuming!recordVars>>, BrokerTypes',
         AlertTypes',
         \A m \in Message : place'[m] = "deleted" => place[m] = "deleted"
  PROVE  ConsumerInv'
  <1>1. RecordTypes' /\ PollTypes' /\ ReceiptTypes'
    BY TypesInParts
    DEF ConsumerInv, RecordTypes, PollTypes, ReceiptTypes, Consuming!pollVars, Consuming!recordVars
  <1>2. WorkBeforeRecord' /\ RecordBeforeDelete' /\ Consuming!AckedWasProcessed'
    BY DEF ConsumerInv, WorkBeforeRecord, RecordBeforeDelete, Consuming!AckedWasProcessed,
           Consuming!EventIn, Consuming!pollVars, Consuming!recordVars
  <1>3. WorkIsPaid'
    BY SameWork DEF ConsumerInv, WorkIsPaid, Consuming!pollVars, Consuming!recordVars
  <1> QED
    BY <1>1, <1>2, <1>3, TypesInPartsNext DEF ConsumerInv

LEMMA BrokerInv ==
  ASSUME ConsumerInv,
         \/ \E m \in Message : Consuming!Send(m) \/ Consuming!Reappear(m) \/ Consuming!Drain(m)
         \/ \E p \in Poller, S \in SUBSET Consuming!Available : Consuming!ReceiveLost(p, S)
         \/ \E S \in SUBSET Consuming!Available : Consuming!Peek(S)
         \/ Consuming!ReportDeadLetters \/ Consuming!RelayRestarts
  PROVE  ConsumerInv'
  <1>1. BrokerTypes /\ AlertTypes
    BY TypesInParts DEF ConsumerInv
  <1>2. ASSUME NEW m \in Message, Consuming!Send(m) \/ Consuming!Reappear(m) \/ Consuming!Drain(m)
        PROVE  ConsumerInv'
    <2>1. place' \in [Message -> Consuming!Place]
      BY <1>1, <1>2 DEF Consuming!Send, Consuming!Reappear, Consuming!Drain, BrokerTypes, Consuming!Place
    <2>2. visible' \in [Message -> BOOLEAN]
      BY <1>1, <1>2 DEF Consuming!Send, Consuming!Reappear, Consuming!Drain, BrokerTypes
    <2>3. UNCHANGED <<receives, Consuming!pollVars, Consuming!recordVars>>
      BY <1>2 DEF Consuming!Send, Consuming!Reappear, Consuming!Drain
    <2>5. AlertTypes'
      BY <1>1, <1>2
      DEF Consuming!Send, Consuming!Reappear, Consuming!Drain, AlertTypes, Consuming!alertVars
    <2>4. \A x \in Message : place'[x] = "deleted" => place[x] = "deleted"
      BY <1>1, <1>2 DEF Consuming!Send, Consuming!Reappear, Consuming!Drain, BrokerTypes
    <2> QED
      BY <1>1, <2>1, <2>2, <2>3, <2>4, <2>5, BesideInv DEF BrokerTypes
  <1>3. ASSUME NEW p \in Poller, NEW S \in SUBSET Consuming!Available, Consuming!ReceiveLost(p, S)
        PROVE  ConsumerInv'
    <2>1. S \subseteq Message
      BY DEF Consuming!Available
    <2>2. UNCHANGED <<Consuming!pollVars, Consuming!recordVars, Consuming!alertVars>> /\ Consuming!HandOut(S)
      BY <1>3 DEF Consuming!ReceiveLost
    <2>3. visible' \in [Message -> BOOLEAN]
      BY <1>1, <1>3, HideTypes DEF Consuming!ReceiveLost
    <2> QED
      BY <1>1, <2>1, <2>2, <2>3, HandOutFacts, SameAlert, BesideInv DEF BrokerTypes
  <1>4. ASSUME NEW S \in SUBSET Consuming!Available, Consuming!Peek(S)
        PROVE  ConsumerInv'
    <2>1. S \subseteq Message
      BY DEF Consuming!Available
    <2>2. UNCHANGED <<visible, Consuming!pollVars, Consuming!recordVars, Consuming!alertVars>> /\ Consuming!HandOut(S)
      BY <1>4 DEF Consuming!Peek
    <2> QED
      BY <1>1, <2>1, <2>2, HandOutFacts, SameAlert, BesideInv DEF BrokerTypes
  <1>5. CASE Consuming!ReportDeadLetters \/ Consuming!RelayRestarts
    <2>1. UNCHANGED <<Consuming!queueVars, Consuming!pollVars, Consuming!recordVars>>
      BY <1>5 DEF Consuming!ReportDeadLetters, Consuming!RelayRestarts
    <2>2. AlertTypes'
      BY <1>1, <1>5
      DEF Consuming!ReportDeadLetters, Consuming!RelayRestarts, Consuming!Notice,
          Consuming!DeadLetters, AlertTypes
    <2> QED
      BY <1>1, <2>1, <2>2, BesideInv DEF BrokerTypes, Consuming!queueVars
  <1> QED
    BY <1>2, <1>3, <1>4, <1>5

------------------------------------------------------------------------------
(* The steps of a poller *)

LEMMA LeaveFacts ==
  ASSUME PollTypes, ReceiptTypes, NEW p \in Poller, NEW ph \in {"idle", "down"},
         Consuming!Leave(p, ph)
  PROVE  PollTypes' /\ ReceiptTypes' /\ OthersStay(p) /\ pollPhase'[p] = ph
  <1>1. /\ pollPhase' = [pollPhase EXCEPT ![p] = ph]
        /\ pollBatch' = [pollBatch EXCEPT ![p] = {}]
        /\ msg'   = [msg EXCEPT ![p] = Consuming!NoMessage]
        /\ receipt' = [receipt EXCEPT ![p] = [m \in Message |-> 0]]
    BY DEF Consuming!Leave, Consuming!GoTo
  <1>2. PollTypes'
    BY <1>1 DEF PollTypes, Consuming!Phase
  <1>3. ReceiptTypes'
    BY <1>1, WithinLimit DEF ReceiptTypes
  <1>4. OthersStay(p) /\ pollPhase'[p] = ph
    BY <1>1 DEF PollTypes, OthersStay
  <1> QED
    BY <1>2, <1>3, <1>4

LEMMA NextMessageFacts ==
  ASSUME PollTypes, ReceiptTypes, NEW p \in Poller,
         pollPhase[p] \in {"handling", "deleting"}, Consuming!NextMessage(p)
  PROVE  PollTypes' /\ ReceiptTypes' /\ OthersStay(p) /\ pollPhase'[p] = "looping"
  <1>1. /\ pollPhase' = [pollPhase EXCEPT ![p] = "looping"]
        /\ msg'   = [msg EXCEPT ![p] = Consuming!NoMessage]
        /\ receipt' = [receipt EXCEPT ![p] = [receipt[p] EXCEPT ![msg[p]] = 0]]
        /\ pollBatch' = pollBatch
    BY DEF Consuming!NextMessage, Consuming!GoTo
  <1>2. PollTypes'
    BY <1>1 DEF PollTypes, Consuming!Phase
  <1>3. [receipt[p] EXCEPT ![msg[p]] = 0] \in [Message -> 0..MaxReceive]
    BY WithinLimit DEF ReceiptTypes
  <1>4. ReceiptTypes'
    BY <1>1, <1>3 DEF ReceiptTypes
  <1>5. OthersStay(p) /\ pollPhase'[p] = "looping"
    BY <1>1 DEF PollTypes, OthersStay
  <1> QED
    BY <1>2, <1>4, <1>5

\* p goes on with the message it has.
LEMMA GoOnFacts ==
  ASSUME PollTypes, NEW p \in Poller,
         pollPhase[p] \in {"handling", "marking", "deleting"},
         NEW ph \in {"handling", "marking", "deleting"},
         Consuming!GoTo(p, ph), UNCHANGED <<pollBatch, msg>>
  PROVE  /\ PollTypes' /\ OthersStay(p) /\ pollPhase'[p] = ph
         /\ Consuming!EventIn(p)' = Consuming!EventIn(p)
  <1>1. PollTypes'
    BY DEF Consuming!GoTo, PollTypes, Consuming!Phase
  <1>2. OthersStay(p) /\ pollPhase'[p] = ph
    BY DEF Consuming!GoTo, PollTypes, OthersStay
  <1> QED
    BY <1>1, <1>2 DEF Consuming!EventIn

\* p stays outside the handling of a message.
LEMMA OutsideFacts ==
  ASSUME PollTypes, NEW p \in Poller, pollPhase[p] \in {"idle", "looping", "down"},
         NEW ph \in {"idle", "looping", "down"}, NEW S \in SUBSET Message,
         ph # "looping" => S = {},
         Consuming!GoTo(p, ph), pollBatch' = [pollBatch EXCEPT ![p] = S], UNCHANGED msg
  PROVE  PollTypes' /\ OthersStay(p) /\ pollPhase'[p] = ph
  <1>1. PollTypes'
    BY DEF Consuming!GoTo, PollTypes, Consuming!Phase
  <1>2. OthersStay(p) /\ pollPhase'[p] = ph
    BY DEF Consuming!GoTo, PollTypes, OthersStay
  <1> QED
    BY <1>1, <1>2

\* What keeps the invariant when p is not at work after its step.
LEMMA PollerInv ==
  ASSUME ConsumerInv, NEW p \in Poller, OthersStay(p),
         BrokerTypes', PollTypes', ReceiptTypes',
         UNCHANGED <<effects, Consuming!alertVars>>,
         pollPhase'[p] \notin {"handling", "marking"},
         pollPhase'[p] = "deleting" => Consuming!EventIn(p)' \in ledger',
         ledger \subseteq ledger',
         ledger' \subseteq ledger \cup
                          (IF pollPhase[p] = "marking" THEN {Consuming!EventIn(p)} ELSE {}),
         slips' \in [Event -> Nat],
         \A e \in Event : slips'[e] >= slips[e],
         pollPhase[p] = "marking" => \/ Consuming!EventIn(p) \in ledger'
                                 \/ slips'[Consuming!EventIn(p)] = slips[Consuming!EventIn(p)] + 1,
         \A m \in Message : place'[m] = "deleted" =>
           \/ place[m] = "deleted"
           \/ pollPhase[p] = "deleting" /\ m = msg[p]
  PROVE  ConsumerInv'
  <1>1. BrokerTypes /\ RecordTypes /\ PollTypes /\ AlertTypes
    BY TypesInParts DEF ConsumerInv
  <1>2. pollPhase[p] \in {"marking", "deleting"} =>
          Consuming!EventIn(p) \in Event /\ msg[p] \in Message \ Malformed
    BY <1>1, Workshop
  <1>3. RecordTypes'
    BY <1>1, <1>2 DEF RecordTypes
  <1>4. WorkBeforeRecord' /\ RecordBeforeDelete' /\ Consuming!AckedWasProcessed'
    <2>1. \A e \in ledger' \ ledger : effects[e] > 0
      BY DEF ConsumerInv, WorkBeforeRecord
    <2>2. pollPhase[p] = "deleting" => EventOf[msg[p]] \in ledger
      BY DEF ConsumerInv, RecordBeforeDelete, Consuming!EventIn
    <2> QED
      BY <1>2, <2>1, <2>2, RecordsStay DEF ConsumerInv
  <1>5. WorkIsPaid'
    BY LeavesWork DEF ConsumerInv, Working
  <1> QED
    BY <1>1, <1>3, <1>4, <1>5, SameAlert, TypesInPartsNext DEF ConsumerInv, Consuming!alertVars

LEMMA ReceiveInv ==
  ASSUME ConsumerInv, NEW p \in Poller, NEW S \in SUBSET Consuming!Available, Consuming!Receive(p, S)
  PROVE  ConsumerInv'
  <1>1. BrokerTypes /\ RecordTypes /\ PollTypes /\ ReceiptTypes
    BY TypesInParts DEF ConsumerInv
  <1>2. S \subseteq Message /\ Consuming!Returned(S) \subseteq Message
    BY DEF Consuming!Available, Consuming!Returned
  <1>3. /\ pollPhase[p] = "idle" /\ Consuming!HandOut(S) /\ Consuming!Hide(Consuming!Returned(S))
        /\ Consuming!GoTo(p, "looping") /\ pollBatch' = [pollBatch EXCEPT ![p] = Consuming!Returned(S)]
        /\ UNCHANGED <<msg, ledger, effects, slips, Consuming!alertVars>>
    BY DEF Consuming!Receive, Consuming!recordVars
  <1>4. PollTypes' /\ OthersStay(p) /\ pollPhase'[p] = "looping"
    BY <1>1, <1>2, <1>3, OutsideFacts
  <1>5. /\ BrokerTypes'
        /\ \A m \in Message : place'[m] = "deleted" => place[m] = "deleted"
        /\ \A m \in Consuming!Returned(S) : receives[m] + 1 \in 0..MaxReceive
    BY <1>1, <1>2, <1>3, HandOutFacts, HideTypes DEF BrokerTypes
  <1>6. ReceiptTypes'
    <2> DEFINE r == [m \in Message |-> IF m \in Consuming!Returned(S) THEN receives[m] + 1
                                                            ELSE receipt[p][m]]
    <2>1. r \in [Message -> 0..MaxReceive]
      BY <1>1, <1>5 DEF ReceiptTypes
    <2>2. receipt' = [receipt EXCEPT ![p] = r]
      BY DEF Consuming!Receive
    <2> QED
      BY <1>1, <2>1, <2>2 DEF ReceiptTypes
  <1>7. /\ slips' \in [Event -> Nat]
        /\ \A e \in Event : slips'[e] >= slips[e]
    BY <1>1, <1>3 DEF RecordTypes
  <1> QED
    BY <1>3, <1>4, <1>5, <1>6, <1>7, PollerInv

LEMMA SameSlips ==
  ASSUME RecordTypes, UNCHANGED slips
  PROVE  slips' \in [Event -> Nat] /\ \A e \in Event : slips'[e] >= slips[e]
  BY DEF RecordTypes

LEMMA SlipFacts ==
  ASSUME RecordTypes, NEW S, Consuming!Slip(S)
  PROVE  /\ slips' \in [Event -> Nat]
         /\ \A e \in Event : slips'[e] >= slips[e]
         /\ \A e \in Event : slips'[e] = slips[e] + (IF e \in S THEN 1 ELSE 0)
  <1>1. \A e \in Event : slips[e] + (IF e \in S THEN 1 ELSE 0) \in Nat
    BY DEF RecordTypes
  <1>2. /\ slips' \in [Event -> Nat]
        /\ \A e \in Event : slips'[e] = slips[e] + (IF e \in S THEN 1 ELSE 0)
    BY <1>1 DEF Consuming!Slip
  <1>3. \A e \in Event : slips'[e] >= slips[e]
    BY <1>2 DEF RecordTypes
  <1> QED
    BY <1>2, <1>3

\* Steps of a poller that has no message in hand.
LEMMA IdleInv ==
  ASSUME ConsumerInv, NEW p \in Poller, Consuming!ParseFails(p) \/ Consuming!PollEnds(p) \/ Consuming!Restart(p)
  PROVE  ConsumerInv'
  <1>1. BrokerTypes /\ RecordTypes /\ PollTypes /\ ReceiptTypes
    BY TypesInParts DEF ConsumerInv
  <1>2. /\ UNCHANGED <<Consuming!queueVars, msg, ledger, effects, slips, Consuming!alertVars>>
        /\ pollPhase[p] \in {"looping", "down"}
    BY DEF Consuming!ParseFails, Consuming!PollEnds, Consuming!Restart, Consuming!recordVars
  <1>3. PollTypes' /\ OthersStay(p) /\ pollPhase'[p] \in {"idle", "looping"}
    <2>1. CASE Consuming!ParseFails(p)
      <3>1. PICK m \in pollBatch[p] : pollBatch' = [pollBatch EXCEPT ![p] = @ \ {m}]
        BY <2>1 DEF Consuming!ParseFails
      <3>2. pollPhase'[p] = "looping" /\ Consuming!GoTo(p, "looping")
        BY <1>1, <2>1 DEF Consuming!ParseFails, Consuming!GoTo, PollTypes
      <3>3. pollBatch[p] \ {m} \in SUBSET Message
        BY <1>1 DEF PollTypes
      <3> QED
        BY <1>1, <1>2, <2>1, <3>1, <3>2, <3>3, OutsideFacts DEF Consuming!ParseFails
    <2>2. CASE Consuming!PollEnds(p) \/ Consuming!Restart(p)
      <3>1. pollBatch[p] = {} /\ pollBatch' = [pollBatch EXCEPT ![p] = {}] /\ Consuming!GoTo(p, "idle")
        BY <1>1, <2>2 DEF Consuming!PollEnds, Consuming!Restart, PollTypes
      <3> QED
        BY <1>1, <1>2, <3>1, OutsideFacts
    <2> QED
      BY <2>1, <2>2
  <1>4. BrokerTypes'
    BY <1>1, <1>2 DEF BrokerTypes, Consuming!queueVars
  <1>5. ReceiptTypes'
    BY <1>1, WithinLimit DEF Consuming!ParseFails, Consuming!PollEnds, Consuming!Restart, ReceiptTypes
  <1> QED
    BY <1>1, <1>2, <1>3, <1>4, <1>5, SameSlips, PollerInv DEF Consuming!queueVars

\* A known event is deleted at once; a new one is handled, and what doing it
\* a second time costs is paid here.
LEMMA LookUpInv ==
  ASSUME ConsumerInv, NEW p \in Poller, Consuming!LookUp(p)
  PROVE  ConsumerInv'
  <1>1. /\ BrokerTypes /\ RecordTypes /\ PollTypes /\ ReceiptTypes
        /\ AlertTypes
    BY TypesInParts DEF ConsumerInv
  <1>2. PICK m \in pollBatch[p] \ Malformed :
          /\ pollBatch' = [pollBatch EXCEPT ![p] = @ \ {m}]
          /\ msg'   = [msg EXCEPT ![p] = m]
          /\ \/ /\ EventOf[m] \in ledger
                /\ Consuming!GoTo(p, "deleting")
                /\ UNCHANGED slips
             \/ /\ EventOf[m] \notin ledger
                /\ Consuming!GoTo(p, "handling")
                /\ Consuming!Slip(IF Consuming!AtWorkOn(EventOf[m]) = {} THEN {} ELSE {EventOf[m]})
    BY DEF Consuming!LookUp
  <1> DEFINE e0 == EventOf[m]
  <1>3. /\ pollPhase[p] = "looping"
        /\ UNCHANGED <<Consuming!queueVars, receipt, ledger, effects, Consuming!alertVars>>
    BY DEF Consuming!LookUp
  <1>4. m \in Message /\ e0 \in Event /\ m # Consuming!NoMessage
    BY <1>1, <1>2, ConsumerAssumption, NotAMessage DEF PollTypes
  <1>5. /\ PollTypes' /\ OthersStay(p) /\ Consuming!EventIn(p)' = e0
        /\ pollPhase'[p] \in {"handling", "deleting"}
    BY <1>1, <1>2, <1>4 DEF Consuming!GoTo, PollTypes, Consuming!Phase, OthersStay, Consuming!EventIn
  <1>6. BrokerTypes' /\ ReceiptTypes'
    BY <1>1, <1>3 DEF BrokerTypes, ReceiptTypes, RecordTypes, Consuming!queueVars
  <1>7. CASE e0 \in ledger
    <2>1. UNCHANGED slips /\ pollPhase'[p] = "deleting"
      BY <1>1, <1>2, <1>7 DEF Consuming!GoTo, PollTypes
    <2> QED
      BY <1>1, <1>3, <1>5, <1>6, <1>7, <2>1, SameSlips, PollerInv DEF Consuming!queueVars
  <1>8. CASE e0 \notin ledger
    <2>1. /\ pollPhase'[p] = "handling"
          /\ Consuming!Slip(IF Consuming!AtWorkOn(e0) = {} THEN {} ELSE {e0})
      BY <1>1, <1>2, <1>8 DEF Consuming!GoTo, PollTypes
    <2>2. /\ slips' \in [Event -> Nat]
          /\ \A e \in Event : slips'[e] = slips[e] +
               (IF e \in (IF Consuming!AtWorkOn(e0) = {} THEN {} ELSE {e0}) THEN 1 ELSE 0)
      BY <1>1, <2>1, SlipFacts
    <2>3. RecordTypes'
      BY <1>1, <1>3, <2>2 DEF RecordTypes
    <2>4. WorkBeforeRecord' /\ RecordBeforeDelete' /\ Consuming!AckedWasProcessed'
      BY <1>3, <1>5, <2>1
      DEF ConsumerInv, WorkBeforeRecord, RecordBeforeDelete, Consuming!AckedWasProcessed,
          OthersStay, Consuming!EventIn, Consuming!queueVars
    <2>5. WorkIsPaid'
      <3> SUFFICES ASSUME NEW e \in Event
                   PROVE  /\ IsFiniteSet(Handling(e)')
                          /\ effects[e] + Cardinality(Handling(e)') <= slips'[e] + 1
                          /\ e \notin ledger /\ Consuming!AtWorkOn(e)' = {}
                               => effects[e] <= slips'[e]
        BY <1>3 DEF WorkIsPaid
      <3>1. effects[e] \in Nat /\ slips[e] \in Nat
        BY <1>1 DEF RecordTypes
      <3>2. /\ IsFiniteSet(Handling(e))
            /\ effects[e] + Cardinality(Handling(e)) <= slips[e] + 1
            /\ e \notin ledger /\ Consuming!AtWorkOn(e) = {} => effects[e] <= slips[e]
        BY DEF ConsumerInv, WorkIsPaid
      <3>3. p \notin Handling(e) /\ p \notin Consuming!AtWorkOn(e)
        BY <1>3 DEF Handling, Consuming!AtWorkOn
      <3>4. CASE e # e0
        <4>0. p \notin Handling(e)' /\ p \notin Consuming!AtWorkOn(e)'
          BY <1>5, <3>4 DEF Handling, Consuming!AtWorkOn
        <4>1. Handling(e)' = Handling(e) /\ Consuming!AtWorkOn(e)' = Consuming!AtWorkOn(e)
          <5>1. /\ Handling(e)' \ {p} = Handling(e) \ {p}
                /\ Consuming!AtWorkOn(e)' \ {p} = Consuming!AtWorkOn(e) \ {p}
            BY <1>5, OnlyOneMoves
          <5> QED
            BY <3>3, <4>0, <5>1
        <4>2. slips'[e] = slips[e]
          BY <2>2, <3>1, <3>4
        <4> QED
          BY <3>2, <4>1, <4>2
      <3>5. CASE e = e0
        <4>1. Handling(e)' = Handling(e) \cup {p} /\ p \in Consuming!AtWorkOn(e)'
          BY <1>5, <2>1, <3>3, <3>5, OnlyOneMoves DEF Working
        <4>2. /\ IsFiniteSet(Handling(e)')
              /\ Cardinality(Handling(e)) \in Nat
              /\ Cardinality(Handling(e)') = Cardinality(Handling(e)) + 1
          BY <3>2, <3>3, <4>1, FS_AddElement, FS_CardinalityType
        <4>3. CASE Consuming!AtWorkOn(e) = {}
          <5>1. Handling(e) = {}
            BY <4>3 DEF Handling, Consuming!AtWorkOn
          <5>2. Cardinality(Handling(e)) = 0
            BY <5>1, FS_EmptySet
          <5>3. effects[e] <= slips[e] /\ slips'[e] = slips[e]
            BY <1>8, <2>2, <3>1, <3>2, <3>5, <4>3
          <5> QED
            BY <3>1, <4>1, <4>2, <5>2, <5>3
        <4>4. CASE Consuming!AtWorkOn(e) # {}
          <5>1. slips'[e] = slips[e] + 1
            BY <2>2, <3>5, <4>4
          <5> QED
            BY <3>1, <3>2, <4>1, <4>2, <5>1
        <4> QED
          BY <4>3, <4>4
      <3> QED
        BY <3>4, <3>5
    <2> QED
      BY <1>1, <1>3, <1>5, <1>6, <2>3, <2>4, <2>5, SameAlert, TypesInPartsNext DEF ConsumerInv
  <1> QED
    BY <1>7, <1>8

\* The work is done: the poller that was about to do it is not any more.
LEMMA HandlerSucceedsInv ==
  ASSUME ConsumerInv, NEW p \in Poller, Consuming!HandlerSucceeds(p)
  PROVE  ConsumerInv'
  <1> DEFINE e0 == Consuming!EventIn(p)
  <1>1. /\ BrokerTypes /\ RecordTypes /\ PollTypes /\ ReceiptTypes
        /\ AlertTypes
    BY TypesInParts DEF ConsumerInv
  <1>2. /\ pollPhase[p] = "handling" /\ Consuming!GoTo(p, "marking")
        /\ effects' = [effects EXCEPT ![e0] = effects[e0] + 1]
        /\ UNCHANGED <<Consuming!queueVars, pollBatch, msg, receipt, ledger, slips,
                       Consuming!alertVars>>
    BY DEF Consuming!HandlerSucceeds
  <1>3. e0 \in Event
    BY <1>1, <1>2, Workshop
  <1>4. /\ PollTypes' /\ OthersStay(p) /\ pollPhase'[p] = "marking"
        /\ Consuming!EventIn(p)' = e0
    BY <1>1, <1>2, GoOnFacts
  <1>5. /\ effects' \in [Event -> Nat]
        /\ \A e \in Event : effects'[e] = effects[e] + (IF e = e0 THEN 1 ELSE 0)
    BY <1>1, <1>2, <1>3 DEF RecordTypes
  <1>6. BrokerTypes' /\ ReceiptTypes' /\ RecordTypes'
    BY <1>1, <1>2, <1>5 DEF BrokerTypes, ReceiptTypes, RecordTypes, Consuming!queueVars
  <1>7. WorkBeforeRecord' /\ RecordBeforeDelete' /\ Consuming!AckedWasProcessed'
    <2>1. \A e \in Event : /\ effects[e] > 0 => effects'[e] > 0
                           /\ e = e0 => effects'[e] > 0
      BY <1>1, <1>5 DEF RecordTypes
    <2>2. \A q \in Poller : pollPhase[q] = "marking" => Consuming!EventIn(q) \in Event
      BY <1>1, Workshop
    <2>3. WorkBeforeRecord'
      BY <1>1, <1>2, <1>3, <1>4, <2>1, <2>2
      DEF ConsumerInv, RecordTypes, WorkBeforeRecord, OthersStay, Consuming!EventIn
    <2>4. RecordBeforeDelete'
      BY <1>2, <1>4 DEF ConsumerInv, RecordBeforeDelete, OthersStay, Consuming!EventIn
    <2>5. Consuming!AckedWasProcessed'
      BY <1>1, <1>2, <2>1 DEF ConsumerInv, Consuming!AckedWasProcessed, RecordTypes, Consuming!queueVars
    <2> QED
      BY <2>3, <2>4, <2>5
  <1>8. WorkIsPaid'
    <2> SUFFICES ASSUME NEW e \in Event
                 PROVE  /\ IsFiniteSet(Handling(e)')
                        /\ effects'[e] + Cardinality(Handling(e)') <= slips[e] + 1
                        /\ e \notin ledger /\ Consuming!AtWorkOn(e)' = {}
                             => effects'[e] <= slips[e]
      BY <1>2 DEF WorkIsPaid
    <2>1. effects[e] \in Nat /\ slips[e] \in Nat
      BY <1>1 DEF RecordTypes
    <2>2. /\ IsFiniteSet(Handling(e))
          /\ effects[e] + Cardinality(Handling(e)) <= slips[e] + 1
          /\ e \notin ledger /\ Consuming!AtWorkOn(e) = {} => effects[e] <= slips[e]
      BY DEF ConsumerInv, WorkIsPaid
    <2>3. CASE e # e0
      <3>1. p \notin Handling(e) /\ p \notin Consuming!AtWorkOn(e)
        BY <2>3 DEF Handling, Consuming!AtWorkOn
      <3>2. Handling(e)' = Handling(e) /\ Consuming!AtWorkOn(e)' = Consuming!AtWorkOn(e)
        BY <1>4, <2>3, <3>1, OnlyOneMoves
      <3> QED
        BY <1>5, <2>1, <2>2, <2>3, <3>2
    <2>4. CASE e = e0
      <3>1. p \in Handling(e)
        BY <1>2, <2>4 DEF Handling
      <3>2. Handling(e)' = Handling(e) \ {p} /\ p \in Consuming!AtWorkOn(e)'
        BY <1>4, <2>4, OnlyOneMoves DEF Working
      <3>3. /\ IsFiniteSet(Handling(e)')
            /\ Cardinality(Handling(e)) \in Nat
            /\ Cardinality(Handling(e)') = Cardinality(Handling(e)) - 1
        BY <2>2, <3>1, <3>2, FS_RemoveElement, FS_CardinalityType
      <3> QED
        BY <1>5, <2>1, <2>2, <2>4, <3>2, <3>3
    <2> QED
      BY <2>3, <2>4
  <1> QED
    BY <1>1, <1>2, <1>4, <1>6, <1>7, <1>8, SameAlert, TypesInPartsNext DEF ConsumerInv

LEMMA HandlerThrowsInv ==
  ASSUME ConsumerInv, NEW p \in Poller, Consuming!HandlerThrows(p)
  PROVE  ConsumerInv'
  <1>1. BrokerTypes /\ RecordTypes /\ PollTypes /\ ReceiptTypes
    BY TypesInParts DEF ConsumerInv
  <1>2. /\ pollPhase[p] = "handling" /\ Consuming!NextMessage(p)
        /\ UNCHANGED <<Consuming!queueVars, ledger, effects, slips, Consuming!alertVars>>
    BY DEF Consuming!HandlerThrows
  <1>3. PollTypes' /\ ReceiptTypes' /\ OthersStay(p) /\ pollPhase'[p] = "looping"
    BY <1>1, <1>2, NextMessageFacts
  <1>4. BrokerTypes'
    BY <1>1, <1>2 DEF BrokerTypes, Consuming!queueVars
  <1> QED
    BY <1>1, <1>2, <1>3, <1>4, SameSlips, PollerInv DEF Consuming!queueVars

LEMMA MarkInv ==
  ASSUME ConsumerInv, NEW p \in Poller, Consuming!Mark(p)
  PROVE  ConsumerInv'
  <1>1. BrokerTypes /\ RecordTypes /\ PollTypes /\ ReceiptTypes
    BY TypesInParts DEF ConsumerInv
  <1>2. /\ pollPhase[p] = "marking" /\ Consuming!GoTo(p, "deleting")
        /\ ledger' = ledger \cup {Consuming!EventIn(p)}
        /\ UNCHANGED <<Consuming!queueVars, pollBatch, msg, receipt, effects, slips,
                       Consuming!alertVars>>
    BY DEF Consuming!Mark
  <1>3. /\ PollTypes' /\ OthersStay(p) /\ pollPhase'[p] = "deleting"
        /\ Consuming!EventIn(p)' = Consuming!EventIn(p)
    BY <1>1, <1>2, GoOnFacts
  <1>4. BrokerTypes' /\ ReceiptTypes'
    BY <1>1, <1>2 DEF BrokerTypes, ReceiptTypes, RecordTypes, Consuming!queueVars
  <1> QED
    BY <1>1, <1>2, <1>3, <1>4, SameSlips, PollerInv DEF Consuming!queueVars

LEMMA DeletionFacts ==
  ASSUME BrokerTypes, NEW p \in Poller, Consuming!Deletion(p) \/ UNCHANGED place
  PROVE  /\ place' \in [Message -> Consuming!Place]
         /\ \A m \in Message : place'[m] = "deleted" =>
              place[m] = "deleted" \/ m = msg[p]
  BY DEF BrokerTypes, Consuming!Deletion, Consuming!Place

\* The one step that acknowledges: its message has had its record.
LEMMA DeleteInv ==
  ASSUME ConsumerInv, NEW p \in Poller, Consuming!Delete(p)
  PROVE  ConsumerInv'
  <1>1. BrokerTypes /\ RecordTypes /\ PollTypes /\ ReceiptTypes
    BY TypesInParts DEF ConsumerInv
  <1>2. /\ pollPhase[p] = "deleting" /\ Consuming!Deletion(p) /\ Consuming!NextMessage(p)
        /\ UNCHANGED <<visible, receives, ledger, effects, slips, Consuming!alertVars>>
    BY DEF Consuming!Delete, Consuming!recordVars
  <1>3. PollTypes' /\ ReceiptTypes' /\ OthersStay(p) /\ pollPhase'[p] = "looping"
    BY <1>1, <1>2, NextMessageFacts
  <1>4. BrokerTypes'
    BY <1>1, <1>2, DeletionFacts DEF BrokerTypes, RecordTypes
  <1> QED
    BY <1>1, <1>2, <1>3, <1>4, DeletionFacts, SameSlips, PollerInv

\* A poll that dies or throws: work without a record has its slip.
LEMMA PollEndsEarlyInv ==
  ASSUME ConsumerInv, NEW p \in Poller, Consuming!PollThrows(p) \/ Consuming!Crash(p)
  PROVE  ConsumerInv'
  <1>1. BrokerTypes /\ RecordTypes /\ PollTypes /\ ReceiptTypes
    BY TypesInParts DEF ConsumerInv
  <1>2. /\ Consuming!Leave(p, "idle") \/ Consuming!Leave(p, "down")
        /\ UNCHANGED <<visible, receives, effects, Consuming!alertVars>>
    BY DEF Consuming!PollThrows, Consuming!Crash, Consuming!queueVars
  <1>3. /\ PollTypes' /\ ReceiptTypes' /\ OthersStay(p)
        /\ pollPhase'[p] \in {"idle", "down"}
    BY <1>1, <1>2, LeaveFacts
  <1>4. /\ place' \in [Message -> Consuming!Place]
        /\ \A m \in Message : place'[m] = "deleted" =>
             \/ place[m] = "deleted"
             \/ pollPhase[p] = "deleting" /\ m = msg[p]
    <2>1. UNCHANGED place \/ (pollPhase[p] = "deleting" /\ Consuming!Deletion(p))
      <3>1. CASE Consuming!PollThrows(p)
        BY <3>1 DEF Consuming!PollThrows
      <3>2. CASE Consuming!Crash(p)
        BY <3>2 DEF Consuming!Crash, Consuming!queueVars
      <3> QED
        BY <3>1, <3>2
    <2> QED
      BY <1>1, <2>1, DeletionFacts DEF BrokerTypes
  <1>5. BrokerTypes'
    BY <1>1, <1>2, <1>4 DEF BrokerTypes, RecordTypes
  <1>6. /\ slips' \in [Event -> Nat]
        /\ \A e \in Event : slips'[e] >= slips[e]
        /\ ledger \subseteq ledger'
        /\ ledger' \subseteq ledger \cup
                         (IF pollPhase[p] = "marking" THEN {Consuming!EventIn(p)} ELSE {})
        /\ pollPhase[p] = "marking" => \/ Consuming!EventIn(p) \in ledger'
                                   \/ slips'[Consuming!EventIn(p)] = slips[Consuming!EventIn(p)] + 1
    <2>1. CASE UNCHANGED slips /\ UNCHANGED ledger /\ pollPhase[p] # "marking"
      BY <1>1, <2>1, SameSlips
    <2>2. CASE pollPhase[p] = "marking" /\ ledger' = ledger \cup {Consuming!EventIn(p)}
                 /\ UNCHANGED slips
      BY <1>1, <2>2, SameSlips
    <2>3. CASE Consuming!Slip(Consuming!Unrecorded(p)) /\ UNCHANGED ledger
      <3>1. pollPhase[p] = "marking" =>
              Consuming!EventIn(p) \in Event /\ Consuming!EventIn(p) \in Consuming!Unrecorded(p)
        BY <1>1, Workshop DEF Consuming!Unrecorded
      <3> QED
        BY <1>1, <2>3, <3>1, SlipFacts
    <2> QED
      BY <2>1, <2>2, <2>3 DEF Consuming!PollThrows, Consuming!Crash
  <1> QED
    BY <1>2, <1>3, <1>4, <1>5, <1>6, PollerInv

LEMMA ConsumerNext == ConsumerInv /\ [Consuming!Next]_(Consuming!vars) => ConsumerInv'
  <1> SUFFICES ASSUME ConsumerInv, [Consuming!Next]_(Consuming!vars)
               PROVE  ConsumerInv'
    OBVIOUS
  <1>1. CASE \/ \E m \in Message : Consuming!Send(m) \/ Consuming!Reappear(m) \/ Consuming!Drain(m)
             \/ \E p \in Poller : \E S \in SUBSET Consuming!Available : Consuming!ReceiveLost(p, S)
             \/ \E S \in SUBSET Consuming!Available : Consuming!Peek(S)
             \/ Consuming!ReportDeadLetters \/ Consuming!RelayRestarts
    BY <1>1, BrokerInv
  <1>2. ASSUME NEW p \in Poller, Consuming!ReceiveStep(p)
        PROVE  ConsumerInv'
    BY <1>2, ReceiveInv DEF Consuming!ReceiveStep
  <1>3. ASSUME NEW p \in Poller, Consuming!PollStep(p) \/ Consuming!Crash(p) \/ Consuming!Restart(p)
        PROVE  ConsumerInv'
    BY <1>3, IdleInv, LookUpInv, HandlerSucceedsInv, HandlerThrowsInv, MarkInv,
       DeleteInv, PollEndsEarlyInv
    DEF Consuming!PollStep
  <1>4. CASE UNCHANGED Consuming!vars
    BY <1>4, BesideInv, SameAlert, TypesInParts
    DEF Consuming!vars, Consuming!queueVars, ConsumerInv, BrokerTypes
  <1> QED
    BY <1>1, <1>2, <1>3, <1>4 DEF Consuming!Next

LEMMA ConsumerInductive == Consuming!Spec => []ConsumerInv
  BY ConsumerInit, ConsumerNext, PTL DEF Consuming!Spec

------------------------------------------------------------------------------
\* The variables keep their types; in particular no message is received more
\* often than queues.conf allows, and a poller between two messages holds none
\* (sqs-consumer.ts: pollOnce).
THEOREM ConsumerTypes == Consuming!Spec => []Consuming!TypeOK
  <1>1. ConsumerInv => Consuming!TypeOK
    BY DEF ConsumerInv
  <1> QED
    BY <1>1, ConsumerInductive, PTL

\* Whatever crashes, throws or comes late, a message is deleted only after its
\* event was worked on and recorded, and a malformed one never is
\* (sqs-consumer.ts:98-104).
THEOREM NoEventAckedUnprocessed == Consuming!Spec => []Consuming!AckedWasProcessed
  <1>1. ConsumerInv => Consuming!AckedWasProcessed
    BY DEF ConsumerInv
  <1> QED
    BY <1>1, ConsumerInductive, PTL

\* A handler repeats its work only for a slip; who is still at it has
\* not done it yet.
LEMMA WorkHasItsSlip ==
  ASSUME ConsumerInv, NEW e \in Event
  PROVE  effects[e] <= slips[e] + 1
  <1>1. /\ IsFiniteSet(Handling(e))
        /\ effects[e] + Cardinality(Handling(e)) <= slips[e] + 1
    BY DEF ConsumerInv, WorkIsPaid
  <1>2. Cardinality(Handling(e)) \in Nat
    BY <1>1, FS_CardinalityType
  <1> QED
    BY <1>1, <1>2 DEF ConsumerInv, Consuming!TypeOK

\* Exactly once but for slips: every repeat of a handler's work goes back to
\* one poll that died between the work and its record, or to one that looked
\* the event up while another was at it (spec 011 FR-011; sqs-consumer.ts:
\* wasProcessed, markProcessed).
THEOREM EveryRepeatHasItsSlip == Consuming!Spec => []Consuming!RepeatsAccountedFor
  <1>1. ConsumerInv => Consuming!RepeatsAccountedFor
    BY WorkHasItsSlip DEF Consuming!RepeatsAccountedFor
  <1> QED
    BY <1>1, ConsumerInductive, PTL

(***************************************************************************)
(* The path                                                                *)
(***************************************************************************)
\* A copy the broker has accepted, wherever it is now.
Arrived(m) == place[m] # "unsent"

\* What the relay counts as a copy on Consumed was a message there.
CopiesArrive ==
  \A e \in Event :
    copies[<<e, Consumed>>] > 0 => \E m \in CopiesOf(e) : Arrived(m)

\* Nothing came to Consumed but committed rows that subscribe to it.
OnlyCommittedArrive ==
  \A m \in Message \ Malformed :
    Arrived(m) => EventOf[m] \in committed \cap Subscribed

HeldHasArrived ==
  \A p \in Poller : \A m \in Message :
    m \in pollBatch[p] \/ m = msg[p] => Arrived(m)

Joined == CopiesArrive /\ OnlyCommittedArrive /\ HeldHasArrived

\* Neither side's invariant speaks of the other side; Joined does.
PathInv == IInv /\ ConsumerInv /\ Joined

\* Steps that touch neither the queue nor what the relay has put on it.
Elsewhere ==
  /\ UNCHANGED <<copies, place, pollBatch, msg, ledger, effects, slips>>
  /\ committed \subseteq committed'

------------------------------------------------------------------------------
(* Every step of the path is a step of each side, or none. *)

LEMMA ArrivalSends ==
  ASSUME NEW r, Arrival(r)
  PROVE  (\E m \in Message : Consuming!Send(m)) \/ UNCHANGED consumerVars
  BY DEF Arrival, CopiesOf

LEMMA SameConsumer == UNCHANGED consumerVars <=> UNCHANGED Consuming!vars
  BY DEF consumerVars, Consuming!vars, Consuming!queueVars, Consuming!pollVars,
         Consuming!recordVars, Consuming!alertVars

LEMMA RelayMoves == PathNext => [Next]_vars
  BY DEF PathNext, RelayStep, TickGoesOn, Delivers, FailsToSend, ReportsDepths,
         Dies, Restarts, Next, TickStep, FaultStep

LEMMA ConsumerMoves == PathNext => [Consuming!Next]_(Consuming!vars)
  <1> SUFFICES ASSUME PathNext
               PROVE  Consuming!Next \/ UNCHANGED consumerVars
    BY SameConsumer
  <1>1. ASSUME NEW r \in Relay, RelayStep(r)
        PROVE  Consuming!Next \/ UNCHANGED consumerVars
    <2>1. CASE Delivers(r) \/ FailsToSend(r)
      BY <2>1, ArrivalSends DEF Delivers, FailsToSend, Consuming!Next
    <2>2. CASE ReportsDepths(r) \/ Dies(r)
      BY <2>2 DEF ReportsDepths, Dies, Consuming!Next
    <2> QED
      BY <1>1, <2>1, <2>2 DEF RelayStep, TickGoesOn, Restarts
  <1>2. QueueStep => Consuming!Next
    BY DEF QueueStep, Consuming!Next
  <1> QED
    BY <1>1, <1>2 DEF PathNext

------------------------------------------------------------------------------
(* The two sides meet when a copy arrives. *)

\* Only the row being sent gains a copy, and only on its next destination.
LEMMA OneCopyMore ==
  ASSUME IInv, NEW r \in Relay, SendOk(r) \/ SendFails(r)
  PROVE  /\ row[r] \in committed /\ row[r] \in Event
         /\ UNCHANGED <<committed, published>>
         /\ \A e \in Event : e # row[r] =>
              copies'[<<e, Consumed>>] = copies[<<e, Consumed>>]
         /\ copies'[<<row[r], Consumed>>] # copies[<<row[r], Consumed>>]
              => row[r] \in Subscribed
  <1>1. PICK q \in left[r] : Accept(r, q) \/ UNCHANGED copies
    BY DEF SendOk, SendFails
  <1>2. phase[r] = "sending" /\ UNCHANGED <<committed, published>>
    BY DEF SendOk, SendFails
  <1>3. /\ row[r] \in committed /\ row[r] \in Event
        /\ q \in Destinations[row[r]] /\ q \in Queue
    BY <1>1, <1>2 DEF IInv, TypeOK, TickShape, TickDelivered
  <1> DEFINE d == <<row[r], q>>
  <1>4. d \in Event \X Queue
    BY <1>3
  <1>5. copies \in [Event \X Queue -> Nat]
    BY DEF IInv, TypeOK
  <1>6. \A x \in Event \X Queue : x # d => copies'[x] = copies[x]
    BY <1>1, <1>4, <1>5 DEF Accept
  <1>7. \A e \in Event : <<e, Consumed>> \in Event \X Queue
    BY PathAssumption
  <1>8. \A e \in Event : <<e, Consumed>> = d => e = row[r] /\ q = Consumed
    OBVIOUS
  <1> QED
    BY <1>2, <1>3, <1>6, <1>7, <1>8 DEF Subscribed

\* What a send does to the queue: a copy of a row that subscribes to it
\* arrives, or nothing happens there.
LEMMA SendMeets ==
  ASSUME IInv, NEW r \in Relay, SendOk(r) \/ SendFails(r), Arrival(r)
  PROVE  /\ UNCHANGED <<committed, published>>
         /\ \/ /\ row[r] \in committed \cap Subscribed
               /\ \E m \in CopiesOf(row[r]) : Consuming!Send(m)
               /\ \A e \in Event : e # row[r] =>
                    copies'[<<e, Consumed>>] = copies[<<e, Consumed>>]
            \/ /\ UNCHANGED consumerVars
               /\ \A e \in Event :
                    copies'[<<e, Consumed>>] = copies[<<e, Consumed>>]
  <1>1. CASE Reaches(r)
    BY <1>1, OneCopyMore DEF Arrival, Reaches
  <1>2. CASE ~Reaches(r)
    BY <1>2, OneCopyMore DEF Arrival, Reaches
  <1> QED
    BY <1>1, <1>2

\* What else the relay and the producers do.
LEMMA RelayElsewhere ==
  ASSUME PathNext
  PROVE  \/ \E r \in Relay : (SendOk(r) \/ SendFails(r)) /\ Arrival(r)
         \/ QueueStep /\ UNCHANGED vars
         \/ Elsewhere
  <1>1. ASSUME NEW r \in Relay, RelayStep(r),
               ~(Delivers(r) \/ FailsToSend(r))
        PROVE  Elsewhere
    <2>1. UNCHANGED <<place, pollBatch, msg, ledger, effects, slips>>
      BY <1>1
      DEF RelayStep, TickGoesOn, ReportsDepths, Dies, Restarts, consumerVars,
          Consuming!ReportDeadLetters, Consuming!RelayRestarts,
          Consuming!queueVars, Consuming!pollVars, Consuming!recordVars
    <2>2. UNCHANGED <<committed, copies>>
      BY <1>1
      DEF RelayStep, TickGoesOn, ReportsDepths, Dies, Restarts, MeasureLag,
          Claim, TakeRow, RowFinished, LoopEnds, MarkAndCommit, MarkThrows,
          Report, TxAborts, ReportFails, Crash, Restart
    <2> QED
      BY <2>1, <2>2 DEF Elsewhere
  <1>2. ((\E e \in Event : Append(e)) \/ TimePasses) /\ UNCHANGED consumerVars
          => Elsewhere
    BY DEF Append, TimePasses, consumerVars, Elsewhere
  <1> QED
    BY <1>1, <1>2 DEF PathNext, RelayStep, Delivers, FailsToSend

------------------------------------------------------------------------------
(* The sides stay joined. *)

LEMMA ElsewhereJoined ==
  ASSUME Joined, Elsewhere
  PROVE  Joined'
  <1>1. CopiesArrive'
    BY DEF Joined, Elsewhere, CopiesArrive, CopiesOf, Arrived
  <1>2. OnlyCommittedArrive'
    BY DEF Joined, Elsewhere, OnlyCommittedArrive, Arrived
  <1>3. HeldHasArrived'
    BY DEF Joined, Elsewhere, HeldHasArrived, Arrived
  <1> QED
    BY <1>1, <1>2, <1>3 DEF Joined

LEMMA SendJoined ==
  ASSUME PathInv, NEW r \in Relay, SendOk(r) \/ SendFails(r), Arrival(r)
  PROVE  Joined'
  <1>1. IInv /\ Joined /\ place \in [Message -> Consuming!Place]
    BY TypesInParts DEF PathInv, ConsumerInv, BrokerTypes
  <1>2. CASE UNCHANGED consumerVars /\
             \A e \in Event : copies'[<<e, Consumed>>] = copies[<<e, Consumed>>]
    <2>1. UNCHANGED <<committed, place, pollBatch, msg>>
      BY <1>1, <1>2, SendMeets DEF consumerVars
    <2>2. CopiesArrive'
      BY <1>1, <1>2, <2>1 DEF Joined, CopiesArrive, CopiesOf, Arrived
    <2>3. OnlyCommittedArrive' /\ HeldHasArrived'
      BY <1>1, <2>1 DEF Joined, OnlyCommittedArrive, HeldHasArrived, Arrived
    <2> QED
      BY <2>2, <2>3 DEF Joined
  <1>3. ASSUME row[r] \in committed \cap Subscribed,
               NEW m \in CopiesOf(row[r]), Consuming!Send(m),
               \A e \in Event : e # row[r] =>
                 copies'[<<e, Consumed>>] = copies[<<e, Consumed>>]
        PROVE  Joined'
    <2>1. m \in Message \ Malformed /\ EventOf[m] = row[r]
      BY <1>3 DEF CopiesOf
    <2>2. /\ place' = [place EXCEPT ![m] = "queue"]
          /\ UNCHANGED <<committed, pollBatch, msg>>
      BY <1>1, <1>3, SendMeets DEF Consuming!Send, Consuming!pollVars
    <2>3. /\ Arrived(m)'
          /\ \A x \in Message : Arrived(x) => Arrived(x)'
          /\ \A x \in Message : Arrived(x)' => Arrived(x) \/ x = m
      BY <1>1, <2>1, <2>2 DEF Arrived
    <2>4. CopiesArrive'
      <3> SUFFICES ASSUME NEW e \in Event, copies'[<<e, Consumed>>] > 0
                   PROVE  \E x \in CopiesOf(e) : Arrived(x)'
        BY DEF CopiesArrive, CopiesOf
      <3>1. CASE e = row[r]
        BY <1>3, <2>3, <3>1
      <3>2. CASE e # row[r]
        <4>1. PICK x \in CopiesOf(e) : Arrived(x)
          BY <1>1, <1>3, <3>2 DEF Joined, CopiesArrive
        <4> QED
          BY <2>3, <4>1 DEF CopiesOf
      <3> QED
        BY <3>1, <3>2
    <2>5. OnlyCommittedArrive'
      BY <1>1, <1>3, <2>1, <2>2, <2>3 DEF Joined, OnlyCommittedArrive
    <2>6. HeldHasArrived'
      BY <1>1, <2>2, <2>3 DEF Joined, HeldHasArrived
    <2> QED
      BY <2>4, <2>5, <2>6 DEF Joined
  <1> QED
    BY <1>1, <1>2, <1>3, SendMeets

\* Pollers hold what they had or took off the queue.
LEMMA PollerHolds ==
  ASSUME Consuming!TypeOK, NEW p \in Poller,
         \/ Consuming!ReceiveStep(p) \/ Consuming!PollStep(p)
         \/ Consuming!Crash(p) \/ Consuming!Restart(p)
  PROVE  /\ \A q \in Poller, m \in Message :
              m \in pollBatch'[q] \/ m = msg'[q] =>
                m \in pollBatch[q] \/ m = msg[q] \/ place[m] = "queue"
         /\ \A m \in Message :
              /\ place'[m] = place[m] \/ place[m] = "queue"
              /\ place'[m] # "unsent" \/ place[m] = "unsent"
  <1>1. BrokerTypes /\ PollTypes
    BY TypesInParts
  <1>2. CASE Consuming!ReceiveStep(p)
    <2>1. PICK S \in SUBSET Consuming!Available : Consuming!Receive(p, S)
      BY <1>2 DEF Consuming!ReceiveStep
    <2>2. \A m \in S : m \in Message /\ place[m] = "queue"
      BY DEF Consuming!Available, Consuming!OnQueue
    <2>3. /\ pollBatch' = [pollBatch EXCEPT ![p] = Consuming!Returned(S)]
          /\ Consuming!Returned(S) \subseteq S /\ UNCHANGED msg
          /\ Consuming!HandOut(S)
      BY <2>1 DEF Consuming!Receive, Consuming!Returned
    <2>4. \A m \in Message :
            place'[m] = IF m \in S \ Consuming!Returned(S) THEN "dlq" ELSE place[m]
      BY <2>3 DEF Consuming!HandOut
    <2> QED
      BY <1>1, <2>2, <2>3, <2>4, NotAMessage DEF PollTypes
  <1>3. CASE \/ Consuming!ParseFails(p) \/ Consuming!LookUp(p)
             \/ Consuming!HandlerSucceeds(p) \/ Consuming!HandlerThrows(p)
             \/ Consuming!Mark(p) \/ Consuming!PollEnds(p)
             \/ Consuming!Crash(p) \/ Consuming!Restart(p)
    <2>1. UNCHANGED place
      BY <1>3
      DEF Consuming!ParseFails, Consuming!LookUp, Consuming!HandlerSucceeds,
          Consuming!HandlerThrows, Consuming!Mark, Consuming!PollEnds,
          Consuming!Crash, Consuming!Restart, Consuming!queueVars
    <2> DEFINE Goal ==
          /\ \A q \in Poller \ {p} : pollBatch'[q] = pollBatch[q] /\ msg'[q] = msg[q]
          /\ pollBatch'[p] \subseteq pollBatch[p]
          /\ msg'[p] \in pollBatch[p] \cup {msg[p], Consuming!NoMessage}
    <2>2. Goal
      <3>1. CASE Consuming!ParseFails(p) \/ Consuming!LookUp(p)
        BY <1>1, <3>1
        DEF PollTypes, Consuming!ParseFails, Consuming!LookUp
      <3>2. CASE Consuming!HandlerThrows(p) \/ Consuming!Crash(p)
        BY <1>1, <3>2
        DEF PollTypes, Consuming!HandlerThrows, Consuming!Crash,
            Consuming!Leave, Consuming!NextMessage
      <3>3. CASE \/ Consuming!HandlerSucceeds(p) \/ Consuming!Mark(p)
                 \/ Consuming!PollEnds(p) \/ Consuming!Restart(p)
        BY <3>3
        DEF Consuming!HandlerSucceeds, Consuming!Mark, Consuming!PollEnds,
            Consuming!Restart
      <3> QED
        BY <1>3, <3>1, <3>2, <3>3
    <2> QED
      BY <2>1, <2>2, NotAMessage
  <1>4. CASE Consuming!Delete(p) \/ Consuming!PollThrows(p)
    <2>1. Consuming!Deletion(p) \/ UNCHANGED place
      BY <1>4 DEF Consuming!Delete, Consuming!PollThrows
    <2>2. \A m \in Message :
            \/ place'[m] = place[m]
            \/ place[m] = "queue" /\ place'[m] = "deleted"
      BY <1>1, <2>1 DEF BrokerTypes, Consuming!Deletion, Consuming!OnQueue
    <2>3. /\ \A q \in Poller \ {p} : pollBatch'[q] = pollBatch[q] /\ msg'[q] = msg[q]
          /\ pollBatch'[p] \subseteq pollBatch[p]
          /\ msg'[p] = Consuming!NoMessage
      BY <1>1, <1>4
      DEF PollTypes, Consuming!Delete, Consuming!PollThrows,
          Consuming!Leave, Consuming!NextMessage
    <2> QED
      BY <2>2, <2>3, NotAMessage
  <1> QED
    BY <1>2, <1>3, <1>4 DEF Consuming!PollStep

\* What goes on at the queue brings nothing new there, and takes nothing back.
LEMMA QueueHolds ==
  ASSUME Consuming!TypeOK, QueueStep
  PROVE  /\ \A q \in Poller, m \in Message :
              m \in pollBatch'[q] \/ m = msg'[q] =>
                m \in pollBatch[q] \/ m = msg[q] \/ place[m] = "queue"
         /\ \A m \in Message : Arrived(m)' <=> Arrived(m)
  <1>1. BrokerTypes
    BY TypesInParts
  <1>2. ASSUME NEW S \in SUBSET Consuming!Available, Consuming!HandOut(S)
        PROVE  \A m \in Message : Arrived(m)' <=> Arrived(m)
    <2>1. \A m \in S : place[m] = "queue"
      BY DEF Consuming!Available, Consuming!OnQueue
    <2> QED
      BY <1>2, <2>1 DEF Consuming!HandOut, Arrived
  <1>3. CASE \E m \in Message : Consuming!Reappear(m) \/ Consuming!Drain(m)
    BY <1>1, <1>3
    DEF Consuming!Reappear, Consuming!Drain, Consuming!pollVars, BrokerTypes, Arrived
  <1>4. CASE \E p \in Poller : \E S \in SUBSET Consuming!Available : Consuming!ReceiveLost(p, S)
    BY <1>2, <1>4 DEF Consuming!ReceiveLost, Consuming!pollVars
  <1>5. CASE \E S \in SUBSET Consuming!Available : Consuming!Peek(S)
    BY <1>2, <1>5 DEF Consuming!Peek, Consuming!pollVars
  <1>6. ASSUME NEW p \in Poller,
               \/ Consuming!ReceiveStep(p) \/ Consuming!PollStep(p)
               \/ Consuming!Crash(p) \/ Consuming!Restart(p)
        PROVE  /\ \A q \in Poller, m \in Message :
                    m \in pollBatch'[q] \/ m = msg'[q] =>
                      m \in pollBatch[q] \/ m = msg[q] \/ place[m] = "queue"
               /\ \A m \in Message : Arrived(m)' <=> Arrived(m)
    BY <1>6, PollerHolds DEF Arrived
  <1> QED
    BY <1>3, <1>4, <1>5, <1>6 DEF QueueStep

LEMMA QueueJoined ==
  ASSUME PathInv, QueueStep, UNCHANGED vars
  PROVE  Joined'
  <1>1. Joined /\ Consuming!TypeOK /\ UNCHANGED <<committed, copies>>
    BY DEF PathInv, ConsumerInv, vars
  <1>2. \A m \in Message : Arrived(m)' <=> Arrived(m)
    BY <1>1, QueueHolds
  <1>3. CopiesArrive'
    BY <1>1, <1>2 DEF Joined, CopiesArrive, CopiesOf
  <1>4. OnlyCommittedArrive'
    BY <1>1, <1>2 DEF Joined, OnlyCommittedArrive
  <1>5. HeldHasArrived'
    <2> SUFFICES ASSUME NEW p \in Poller, NEW m \in Message,
                        m \in pollBatch'[p] \/ m = msg'[p]
                 PROVE  Arrived(m)'
      BY DEF HeldHasArrived
    <2>1. m \in pollBatch[p] \/ m = msg[p] \/ place[m] = "queue"
      BY <1>1, QueueHolds
    <2> QED
      BY <1>1, <1>2, <2>1 DEF Joined, HeldHasArrived, Arrived
  <1> QED
    BY <1>3, <1>4, <1>5 DEF Joined

LEMMA InitPath == PathInit => PathInv
  <1> SUFFICES ASSUME PathInit
               PROVE  PathInv
    OBVIOUS
  <1>1. IInv /\ ConsumerInv
    BY InitInv, ConsumerInit DEF PathInit
  <1>2. \A e \in Event : copies[<<e, Consumed>>] = 0
    BY PathAssumption DEF PathInit, Init
  <1>3. /\ \A m \in Message : place[m] = "unsent"
        /\ \A p \in Poller : pollBatch[p] = {} /\ msg[p] = Consuming!NoMessage
    BY DEF PathInit, Consuming!Init
  <1>4. Joined
    BY <1>2, <1>3, NotAMessage
    DEF Joined, CopiesArrive, OnlyCommittedArrive, HeldHasArrived, Arrived
  <1> QED
    BY <1>1, <1>4 DEF PathInv

LEMMA StepPath == PathInv /\ [PathNext]_pathVars => PathInv'
  <1> SUFFICES ASSUME PathInv, [PathNext]_pathVars
               PROVE  PathInv'
    OBVIOUS
  <1>1. IInv /\ ConsumerInv /\ Joined
    BY DEF PathInv
  <1>2. CASE PathNext
    <2>1. IInv'
      BY <1>1, <1>2, RelayMoves, StepInv
    <2>2. ConsumerInv'
      BY <1>1, <1>2, ConsumerMoves, ConsumerNext
    <2>3. Joined'
      BY <1>1, <1>2, RelayElsewhere, SendJoined, QueueJoined, ElsewhereJoined
    <2> QED
      BY <2>1, <2>2, <2>3 DEF PathInv
  <1>3. CASE UNCHANGED pathVars
    <2>1. UNCHANGED vars /\ UNCHANGED consumerVars
      BY <1>3 DEF pathVars
    <2>2. IInv' /\ ConsumerInv'
      BY <1>1, <2>1, StepInv, SameConsumer, ConsumerNext
    <2>3. Elsewhere
      BY <2>1 DEF vars, consumerVars, Elsewhere
    <2> QED
      BY <1>1, <2>2, <2>3, ElsewhereJoined DEF PathInv
  <1> QED
    BY <1>2, <1>3

\* The invariant of the path: the relay's, the consumer's, and what joins them.
THEOREM PathInvariant == PathSpec => []PathInv
  BY InitPath, StepPath, PTL DEF PathSpec

------------------------------------------------------------------------------
(* What the path promises *)

\* A copy that arrived is still kept, or its event is recorded.
LEMMA ArrivedIsKept ==
  ASSUME PathInv, NEW e \in Event, NEW m \in CopiesOf(e), Arrived(m)
  PROVE  e \in InCustody \cup ledger
  <1>1. m \in Message \ Malformed /\ EventOf[m] = e
    BY DEF CopiesOf
  <1>2. place[m] \in {"queue", "deleted", "dlq", "drained"}
    BY <1>1, TypesInParts
    DEF PathInv, ConsumerInv, BrokerTypes, Consuming!Place, Arrived
  <1>3. place[m] = "deleted" => e \in ledger
    BY <1>1 DEF PathInv, ConsumerInv, Consuming!AckedWasProcessed
  <1> QED
    BY <1>2, <1>3 DEF InCustody

\* No event vanishes, for any number of relays, pollers, queues and faults: an
\* event the relay has marked as published is kept by the queue or recorded by
\* its consumer (outbox-relay.sweep.ts: relay; sqs-consumer.ts: pollOnce).
THEOREM NothingVanishes == PathSpec => []NoEventVanishes
  <1>1. PathInv => NoEventVanishes
    <2> SUFFICES ASSUME PathInv, NEW e \in published \cap Subscribed
                 PROVE  e \in InCustody \cup ledger
      BY DEF NoEventVanishes
    <2>1. e \in Event /\ copies[<<e, Consumed>>] > 0
      BY DEF PathInv, IInv, PublishedWasDelivered, Subscribed
    <2>2. \E m \in CopiesOf(e) : Arrived(m)
      BY <2>1 DEF PathInv, Joined, CopiesArrive
    <2> QED
      BY <2>1, <2>2, ArrivedIsKept
  <1> QED
    BY <1>1, PathInvariant, PTL

------------------------------------------------------------------------------
(* The path implements its promise, step by step. *)

promised == <<committed, published, InCustody, effects, ledger, slips>>

\* What is in custody depends on the places only.
LEMMA SameCustody ==
  ASSUME \A m \in Message : \/ place'[m] = place[m]
                            \/ /\ place[m] \in {"queue", "dlq", "drained"}
                               /\ place'[m] \in {"queue", "dlq", "drained"}
  PROVE  InCustody' = InCustody
  BY DEF InCustody, CopiesOf

LEMMA InitPromise == PathInit => Promise!Init
  BY DEF PathInit, Init, Consuming!Init, Promise!Init, InCustody, CopiesOf

\* A row the relay settles has been taken over by the queue.
LEMMA SettlePromise ==
  ASSUME PathInv, NEW r \in Relay, MarkAndCommit(r), UNCHANGED consumerVars
  PROVE  Promise!Settle(finished[r])
  <1>1. finished[r] \subseteq committed /\ finished[r] \subseteq Event
    BY DEF PathInv, IInv, TypeOK, TickShape
  <1>2. finished[r] \cap Subscribed \subseteq InCustody \cup ledger
    <2> SUFFICES ASSUME NEW e \in finished[r] \cap Subscribed
                 PROVE  e \in InCustody \cup ledger
      OBVIOUS
    <2>1. e \in Event /\ copies[<<e, Consumed>>] > 0
      BY <1>1 DEF PathInv, IInv, TickDelivered, Received, Subscribed
    <2>2. \E m \in CopiesOf(e) : Arrived(m)
      BY <2>1 DEF PathInv, Joined, CopiesArrive
    <2> QED
      BY <2>1, <2>2, ArrivedIsKept
  <1>3. /\ published' = published \cup finished[r]
        /\ UNCHANGED <<committed, place, effects, ledger, slips>>
    BY DEF MarkAndCommit, consumerVars
  <1>4. InCustody' = InCustody
    BY <1>3, SameCustody
  <1> QED
    BY <1>1, <1>2, <1>3, <1>4 DEF Promise!Settle

\* An accepted copy of a committed row is held from then on.
LEMMA HoldPromise ==
  ASSUME PathInv, NEW r \in Relay, SendOk(r) \/ SendFails(r), Arrival(r)
  PROVE  \/ Promise!Hold(row[r]) /\ row[r] \in Event
         \/ UNCHANGED promised
  <1>1. IInv /\ place \in [Message -> Consuming!Place]
    BY TypesInParts DEF PathInv, ConsumerInv, BrokerTypes
  <1>2. CASE UNCHANGED consumerVars
    BY <1>1, <1>2, SendMeets, SameCustody DEF promised, consumerVars
  <1>3. ASSUME row[r] \in committed \cap Subscribed,
               NEW m \in CopiesOf(row[r]), Consuming!Send(m)
        PROVE  Promise!Hold(row[r]) /\ row[r] \in Event
    <2>1. m \in Message \ Malformed /\ EventOf[m] = row[r]
      BY <1>3 DEF CopiesOf
    <2>2. /\ place[m] = "unsent" /\ place' = [place EXCEPT ![m] = "queue"]
          /\ UNCHANGED <<effects, ledger, slips>>
      BY <1>3 DEF Consuming!Send, Consuming!recordVars
    <2>3. InCustody' = InCustody \cup {row[r]}
      <3>1. ASSUME NEW e \in Event, NEW x \in CopiesOf(e)
            PROVE  /\ x \in Message
                   /\ x = m => e = row[r] /\ place'[x] = "queue"
                   /\ x # m => place'[x] = place[x]
        BY <1>1, <2>1, <2>2, <3>1 DEF CopiesOf
      <3>2. row[r] \in Event /\ m \in CopiesOf(row[r])
        BY <1>3, OneCopyMore, <1>1
      <3>3. InCustody' = {e \in Event : \E x \in CopiesOf(e) :
                            place'[x] \in {"queue", "dlq", "drained"}}
        BY DEF InCustody, CopiesOf
      <3> QED
        BY <2>2, <3>1, <3>2, <3>3 DEF InCustody
    <2>4. UNCHANGED <<committed, published>> /\ row[r] \in Event
      BY <1>1, OneCopyMore
    <2> QED
      BY <1>3, <2>2, <2>3, <2>4 DEF Promise!Hold
  <1> QED
    BY <1>1, <1>2, <1>3, SendMeets

\* The other steps of the relay and its producers.
LEMMA ElsewherePromise ==
  ASSUME PathInv, PathNext, Elsewhere
  PROVE  Promise!Next \/ UNCHANGED promised
  <1>1. /\ UNCHANGED <<effects, ledger, slips>>
        /\ InCustody' = InCustody
    BY SameCustody DEF Elsewhere
  <1>2. ASSUME NEW e \in Event, Append(e)
        PROVE  Promise!Next
    BY <1>1, <1>2 DEF Append, Promise!Next, Promise!Commit
  <1>3. ASSUME NEW r \in Relay, RelayStep(r)
        PROVE  Promise!Next \/ UNCHANGED promised
    <2>1. CASE MarkAndCommit(r) /\ UNCHANGED consumerVars
      <3>1. Promise!Settle(finished[r]) /\ finished[r] \in SUBSET Event
        BY <2>1, SettlePromise DEF PathInv, IInv, TypeOK
      <3> QED
        BY <3>1 DEF Promise!Next
    <2>2. CASE ~(MarkAndCommit(r) /\ UNCHANGED consumerVars)
      <3>1. UNCHANGED <<committed, published>>
        BY <1>3, <2>2
        DEF RelayStep, TickGoesOn, Delivers, FailsToSend, ReportsDepths, Dies,
            Restarts, SendOk, SendFails, MeasureLag, Claim, TakeRow,
            RowFinished, LoopEnds, MarkThrows, Report, TxAborts, ReportFails,
            Crash, Restart
      <3> QED
        BY <1>1, <3>1 DEF promised
    <2> QED
      BY <2>1, <2>2
  <1>4. TimePasses \/ (QueueStep /\ UNCHANGED vars) =>
          UNCHANGED <<committed, published>>
    BY DEF TimePasses, vars
  <1>5. UNCHANGED <<committed, published>> => UNCHANGED promised
    BY <1>1 DEF promised
  <1> QED
    BY <1>2, <1>3, <1>4, <1>5 DEF PathNext

\* What a poller works on was committed for this consumer.
LEMMA WorksOnCommitted ==
  ASSUME PathInv, NEW m \in Message \ Malformed,
         NEW p \in Poller, m \in pollBatch[p] \/ m = msg[p]
  PROVE  EventOf[m] \in committed \cap Subscribed /\ EventOf[m] \in Event
  BY ConsumerAssumption DEF PathInv, Joined, HeldHasArrived, OnlyCommittedArrive

LEMMA SlipPromise ==
  ASSUME PathInv, NEW S, Consuming!Slip(S),
         S = {} \/ \E e \in Event \cap committed \cap Subscribed : S = {e},
         UNCHANGED <<committed, published, place, ledger, effects>>
  PROVE  Promise!Next \/ UNCHANGED promised
  <1>1. RecordTypes /\ InCustody' = InCustody
    BY TypesInParts, SameCustody DEF PathInv, ConsumerInv
  <1>2. slips' = [e \in Event |-> slips[e] + (IF e \in S THEN 1 ELSE 0)]
    BY DEF Consuming!Slip
  <1>3. CASE S = {}
    <2>1. slips' = slips
      BY <1>1, <1>2, <1>3 DEF RecordTypes
    <2> QED
      BY <1>1, <2>1 DEF promised
  <1>4. ASSUME NEW e \in Event \cap committed \cap Subscribed, S = {e}
        PROVE  Promise!Next
    <2>1. slips' = [slips EXCEPT ![e] = @ + 1]
      <3>1. \A f \in Event : slips'[f] = IF f = e THEN slips[e] + 1 ELSE slips[f]
        BY <1>1, <1>2, <1>4 DEF RecordTypes
      <3>2. DOMAIN slips = Event /\ slips = [f \in Event |-> slips[f]]
        BY <1>1 DEF RecordTypes
      <3>3. DOMAIN slips' = Event /\ slips' = [f \in Event |-> slips'[f]]
        BY <1>2
      <3> QED
        BY <3>1, <3>2, <3>3
    <2>2. Promise!Excuse(e)
      BY <1>1, <2>1 DEF Promise!Excuse
    <2> QED
      BY <2>2 DEF Promise!Next
  <1> QED
    BY <1>3, <1>4

\* Work and record, as the poll goes on.
LEMMA WorkPromise ==
  ASSUME PathInv, NEW p \in Poller, UNCHANGED <<committed, published>>,
         Consuming!HandlerSucceeds(p) \/ Consuming!Mark(p)
  PROVE  Promise!Next
  <1>1. /\ ConsumerInv /\ RecordTypes /\ PollTypes
        /\ pollPhase[p] \in {"handling", "marking"}
    BY TypesInParts
    DEF PathInv, ConsumerInv, Consuming!HandlerSucceeds, Consuming!Mark
  <1> DEFINE e == Consuming!EventIn(p)
  <1>2. e \in committed \cap Subscribed /\ e \in Event
    BY <1>1, Workshop, WorksOnCommitted DEF Consuming!EventIn
  <1>3. InCustody' = InCustody
    BY SameCustody DEF Consuming!HandlerSucceeds, Consuming!Mark, Consuming!queueVars
  <1>4. CASE Consuming!HandlerSucceeds(p)
    <2>1. /\ effects' = [effects EXCEPT ![e] = @ + 1]
          /\ UNCHANGED <<ledger, slips>>
      BY <1>4 DEF Consuming!HandlerSucceeds
    <2>2. p \in Handling(e) /\ IsFiniteSet(Handling(e))
      BY <1>1, <1>2, <1>4
      DEF ConsumerInv, WorkIsPaid, Handling, Consuming!HandlerSucceeds
    <2>3. Cardinality(Handling(e)) \in Nat /\ Cardinality(Handling(e)) # 0
      BY <2>2, FS_CardinalityType, FS_EmptySet
    <2>4. effects[e] <= slips[e]
      <3>1. effects[e] + Cardinality(Handling(e)) <= slips[e] + 1
        BY <1>1, <1>2 DEF ConsumerInv, WorkIsPaid
      <3>2. effects[e] \in Nat /\ slips[e] \in Nat
        BY <1>1, <1>2 DEF RecordTypes
      <3> QED
        BY <2>3, <3>1, <3>2
    <2>5. Promise!Work(e)
      BY <1>2, <1>3, <2>1, <2>4 DEF Promise!Work
    <2> QED
      BY <1>2, <2>5 DEF Promise!Next
  <1>5. CASE Consuming!Mark(p)
    <2>1. ledger' = ledger \cup {e} /\ UNCHANGED <<effects, slips>>
      BY <1>5 DEF Consuming!Mark
    <2>2. effects[e] > 0
      BY <1>1, <1>5 DEF ConsumerInv, WorkBeforeRecord, Consuming!Mark
    <2>3. Promise!Record(e)
      BY <1>3, <2>1, <2>2 DEF Promise!Record
    <2> QED
      BY <1>2, <2>3 DEF Promise!Next
  <1> QED
    BY <1>4, <1>5

\* The queue lets a message go once its event is recorded; another copy of the
\* event may keep it there.
LEMMA DeletionPromise ==
  ASSUME PathInv, NEW p \in Poller, pollPhase[p] = "deleting",
         Consuming!Deletion(p) \/ UNCHANGED place,
         UNCHANGED <<committed, published, ledger, effects, slips>>
  PROVE  Promise!Next \/ UNCHANGED promised
  <1>1. PollTypes /\ BrokerTypes
    BY TypesInParts DEF PathInv, ConsumerInv
  <1> DEFINE e == Consuming!EventIn(p)
  <1>2. e \in Event /\ e \in ledger /\ msg[p] \in Message \ Malformed
    BY <1>1, Workshop DEF PathInv, ConsumerInv, RecordBeforeDelete
  <1>3. CASE UNCHANGED place
    BY <1>3, SameCustody DEF promised
  <1>4. CASE /\ place[msg[p]] = "queue"
             /\ place' = [place EXCEPT ![msg[p]] = "deleted"]
    <2>1. ASSUME NEW f \in Event, f # e
          PROVE  f \in InCustody' <=> f \in InCustody
      <3>1. \A m \in CopiesOf(f) : m \in Message /\ m # msg[p]
        BY <2>1 DEF CopiesOf, Consuming!EventIn
      <3>2. \A m \in CopiesOf(f) : place'[m] = place[m]
        BY <1>1, <1>4, <3>1 DEF BrokerTypes
      <3> QED
        BY <3>2 DEF InCustody, CopiesOf
    <2>2. e \in InCustody
      BY <1>2, <1>4 DEF InCustody, CopiesOf, Consuming!EventIn
    <2>3. InCustody' \subseteq Event /\ InCustody \subseteq Event
      BY DEF InCustody
    <2>4. InCustody' = InCustody \/ InCustody' = InCustody \ {e}
      BY <2>1, <2>2, <2>3
    <2>5. InCustody' = InCustody \ {e} => Promise!LetGo(e)
      BY <1>2 DEF Promise!LetGo
    <2> QED
      BY <1>2, <2>4, <2>5 DEF Promise!Next, promised
  <1> QED
    BY <1>3, <1>4 DEF Consuming!Deletion, Consuming!OnQueue

\* A poll that dies or throws.
LEMMA EarlyEndPromise ==
  ASSUME PathInv, NEW p \in Poller, UNCHANGED <<committed, published>>,
         Consuming!PollThrows(p) \/ Consuming!Crash(p)
  PROVE  Promise!Next \/ UNCHANGED promised
  <1>1. ConsumerInv /\ PollTypes
    BY TypesInParts DEF PathInv, ConsumerInv
  <1>2. UNCHANGED effects
    BY DEF Consuming!PollThrows, Consuming!Crash
  <1> DEFINE e == Consuming!EventIn(p)
  <1>3. pollPhase[p] = "marking" => e \in committed \cap Subscribed /\ e \in Event
    BY <1>1, Workshop, WorksOnCommitted DEF Consuming!EventIn
  <1>4. CASE UNCHANGED <<place, ledger, slips>>
    BY <1>2, <1>4, SameCustody DEF promised
  <1>5. CASE Consuming!Slip(Consuming!Unrecorded(p)) /\ UNCHANGED <<place, ledger>>
    BY <1>2, <1>3, <1>5, SlipPromise DEF Consuming!Unrecorded
  <1>6. CASE /\ pollPhase[p] = "marking" /\ ledger' = ledger \cup {e}
             /\ UNCHANGED <<place, slips>>
    <2>1. effects[e] > 0 /\ InCustody' = InCustody
      BY <1>1, <1>6, SameCustody DEF ConsumerInv, WorkBeforeRecord
    <2>2. Promise!Record(e)
      BY <1>2, <1>6, <2>1 DEF Promise!Record
    <2> QED
      BY <1>3, <1>6, <2>2 DEF Promise!Next
  <1>7. CASE /\ pollPhase[p] = "deleting" /\ UNCHANGED <<ledger, slips>>
             /\ Consuming!Deletion(p) \/ UNCHANGED place
    BY <1>2, <1>7, DeletionPromise
  <1>8. CASE Consuming!PollThrows(p)
    BY <1>4, <1>5, <1>6, <1>7, <1>8 DEF Consuming!PollThrows
  <1>9. CASE Consuming!Crash(p)
    BY <1>5, <1>9 DEF Consuming!Crash, Consuming!queueVars
  <1> QED
    BY <1>8, <1>9

\* What goes on at the queue keeps the promise.
LEMMA QueuePromise ==
  ASSUME PathInv, QueueStep, UNCHANGED vars
  PROVE  Promise!Next \/ UNCHANGED promised
  <1>1. /\ UNCHANGED <<committed, published>> /\ ConsumerInv
        /\ BrokerTypes /\ RecordTypes /\ PollTypes
    BY TypesInParts DEF PathInv, ConsumerInv, vars
  <1>2. ASSUME UNCHANGED <<ledger, effects, slips>>,
               \A m \in Message : \/ place'[m] = place[m]
                                  \/ /\ place[m] \in {"queue", "dlq", "drained"}
                                     /\ place'[m] \in {"queue", "dlq", "drained"}
        PROVE  UNCHANGED promised
    BY <1>1, <1>2, SameCustody DEF promised
  <1>3. ASSUME NEW S \in SUBSET Consuming!Available, Consuming!HandOut(S),
               UNCHANGED <<ledger, effects, slips>>
        PROVE  UNCHANGED promised
    <2>1. \A m \in S : place[m] = "queue"
      BY DEF Consuming!Available, Consuming!OnQueue
    <2> QED
      BY <1>2, <1>3, <2>1 DEF Consuming!HandOut
  <1>4. ASSUME NEW m \in Message, Consuming!Reappear(m) \/ Consuming!Drain(m)
        PROVE  UNCHANGED promised
    BY <1>1, <1>2, <1>4
    DEF Consuming!Reappear, Consuming!Drain, Consuming!recordVars, BrokerTypes
  <1>5. ASSUME NEW p \in Poller, NEW S \in SUBSET Consuming!Available,
               Consuming!ReceiveLost(p, S) \/ Consuming!Receive(p, S)
        PROVE  UNCHANGED promised
    BY <1>3, <1>5
    DEF Consuming!ReceiveLost, Consuming!Receive, Consuming!recordVars
  <1>6. ASSUME NEW p \in Poller, Consuming!PollStep(p)
        PROVE  Promise!Next \/ UNCHANGED promised
    <2>1. CASE Consuming!HandlerSucceeds(p) \/ Consuming!Mark(p)
      BY <1>1, <2>1, WorkPromise
    <2>2. CASE Consuming!LookUp(p)
      <3>1. PICK m \in pollBatch[p] \ Malformed :
              \/ UNCHANGED slips
              \/ Consuming!Slip(IF Consuming!AtWorkOn(EventOf[m]) = {}
                                THEN {} ELSE {EventOf[m]})
        BY <2>2 DEF Consuming!LookUp
      <3>2. UNCHANGED <<place, ledger, effects>>
        BY <2>2 DEF Consuming!LookUp, Consuming!queueVars
      <3>3. EventOf[m] \in committed \cap Subscribed /\ EventOf[m] \in Event
        BY <1>1, WorksOnCommitted DEF PollTypes
      <3>4. CASE UNCHANGED slips
        BY <1>2, <3>2, <3>4
      <3>5. CASE Consuming!Slip(IF Consuming!AtWorkOn(EventOf[m]) = {}
                                THEN {} ELSE {EventOf[m]})
        BY <1>1, <3>2, <3>3, <3>5, SlipPromise
      <3> QED
        BY <3>1, <3>4, <3>5
    <2>3. CASE \/ Consuming!ParseFails(p) \/ Consuming!HandlerThrows(p)
               \/ Consuming!PollEnds(p)
      BY <1>2, <2>3
      DEF Consuming!ParseFails, Consuming!HandlerThrows, Consuming!PollEnds,
          Consuming!queueVars, Consuming!recordVars
    <2>4. CASE Consuming!Delete(p)
      BY <1>1, <2>4, DeletionPromise DEF Consuming!Delete, Consuming!recordVars
    <2>5. CASE Consuming!PollThrows(p)
      BY <1>1, <2>5, EarlyEndPromise
    <2> QED
      BY <1>6, <2>1, <2>2, <2>3, <2>4, <2>5 DEF Consuming!PollStep
  <1>7. ASSUME NEW p \in Poller, Consuming!Crash(p) \/ Consuming!Restart(p)
        PROVE  Promise!Next \/ UNCHANGED promised
    BY <1>1, <1>2, <1>7, EarlyEndPromise
    DEF Consuming!Restart, Consuming!queueVars, Consuming!recordVars
  <1>8. ASSUME NEW p \in Poller, Consuming!ReceiveStep(p)
        PROVE  UNCHANGED promised
    <2>1. PICK S \in SUBSET Consuming!Available : Consuming!Receive(p, S)
      BY <1>8 DEF Consuming!ReceiveStep
    <2> QED
      BY <2>1, <1>5
  <1>9. CASE \E m \in Message : Consuming!Reappear(m) \/ Consuming!Drain(m)
    BY <1>4, <1>9
  <1>10. CASE \/ \E p \in Poller : \E S \in SUBSET Consuming!Available :
                   Consuming!ReceiveLost(p, S)
              \/ \E p \in Poller : Consuming!ReceiveStep(p)
    BY <1>5, <1>8, <1>10
  <1>11. ASSUME NEW S \in SUBSET Consuming!Available, Consuming!Peek(S)
         PROVE  UNCHANGED promised
    BY <1>1, <1>3, <1>11 DEF Consuming!Peek, Consuming!recordVars
  <1>12. CASE \E p \in Poller : \/ Consuming!PollStep(p)
                                \/ Consuming!Crash(p) \/ Consuming!Restart(p)
    BY <1>6, <1>7, <1>12
  <1> QED
    BY <1>9, <1>10, <1>11, <1>12 DEF QueueStep

LEMMA StepPromise ==
  PathInv /\ [PathNext]_pathVars => [Promise!Next]_(Promise!vars)
  <1> SUFFICES ASSUME PathInv, [PathNext]_pathVars
               PROVE  Promise!Next \/ UNCHANGED promised
    BY DEF Promise!vars, promised
  <1>1. ASSUME NEW r \in Relay, SendOk(r) \/ SendFails(r), Arrival(r)
        PROVE  Promise!Next \/ UNCHANGED promised
    BY <1>1, HoldPromise DEF Promise!Next
  <1>2. CASE PathNext
    BY <1>1, <1>2, RelayElsewhere, QueuePromise, ElsewherePromise
  <1>3. CASE UNCHANGED pathVars
    BY <1>3, SameCustody DEF pathVars, vars, consumerVars, promised
  <1> QED
    BY <1>2, <1>3

\* The relay, the queue and the consumer together keep the promise of
\* DeliveryPromise: an event is settled only when the queue holds it or it is
\* recorded, let go only when it is recorded, recorded only when it was worked
\* on, and worked on once and once more for each slip of the consumer, however
\* often the relay repeats itself (outbox-relay.sweep.ts, sqs-consumer.ts).
THEOREM PathKeepsPromise == PathSpec => KeepsPromise
  BY InitPromise, StepPromise, PathInvariant, PTL
     DEF PathSpec, KeepsPromise, Promise!Spec

\* Beside each other, the relay and the consumer do what they do alone, so
\* every safety property of either holds on the path: here also the ones that
\* count copies and repeats (outbox-relay.sweep.ts, sqs-consumer.ts).
THEOREM SidesKeepTheirOwn ==
  PathSpec => [](/\ TypeOK /\ Consuming!TypeOK
                 /\ ClaimsAreExclusive /\ DuplicatesAccountedFor
                 /\ Consuming!AckedWasProcessed /\ Consuming!RepeatsAccountedFor)
  <1>1. Init /\ [][Next]_vars => [](IInv /\ PaidInv)
    BY InitInv, StepInv, InitPaid, StepPaid, PTL
  <1>2. PathInit => Init
    BY DEF PathInit
  <1>3. [PathNext]_pathVars => [Next]_vars
    BY RelayMoves DEF pathVars
  <1>4. PathSpec => [](IInv /\ PaidInv)
    BY <1>1, <1>2, <1>3, PTL DEF PathSpec
  <1>5. IInv /\ PaidInv => TypeOK /\ ClaimsAreExclusive /\ DuplicatesAccountedFor
    BY PaidBounds DEF IInv
  <1>6. PathInv => /\ Consuming!TypeOK /\ Consuming!AckedWasProcessed
                   /\ Consuming!RepeatsAccountedFor
    BY WorkHasItsSlip DEF PathInv, ConsumerInv, Consuming!RepeatsAccountedFor
  <1> QED
    BY <1>4, <1>5, <1>6, PathInvariant, PTL
==============================================================================
