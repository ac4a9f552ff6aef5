------------------------- MODULE SweepSchedulerProofs -------------------------
(***************************************************************************)
(* Proofs about SweepScheduler, for every set of sweeps, whatever their    *)
(* cadences and the deadline of a stop: types, no overlapping passes, one  *)
(* alert for a stall, and the quiet after a stop that settled.             *)
(***************************************************************************)
EXTENDS TLAPS, SweepScheduler

\* The parts of TypeOK: what a sweep has, and the host.
SweepTypes ==
  /\ timer \in [Sweep -> Nat \cup {NoTimer}]
  /\ passes \in [Sweep -> Nat]
  /\ inFlight \in [Sweep -> BOOLEAN]
  /\ waiting \in [Sweep -> 0..MaxWaiting]
  /\ age \in [Sweep -> Nat \cup {Never}]
  /\ stallReported \in [Sweep -> BOOLEAN]
  /\ alerts \in [Sweep -> Nat]

HostTypes ==
  /\ host \in {"running", "stopping", "closed"}
  /\ waitFor \subseteq Sweep
  /\ waited \in 0..Deadline
  /\ settled \in BOOLEAN

\* A tick is at most a cadence away, and ages stop beyond the stall threshold.
TimersBounded ==
  \A s \in Sweep : timer[s] <= Cadence[s] /\ age[s] <= TooOld(s)

\* The guard is up exactly while a pass is in progress, and there is one.
GuardTellsPass ==
  \A s \in Sweep : passes[s] = IF inFlight[s] THEN 1 ELSE 0

\* The flag remembers the one alert that was raised since the last success.
FlagTellsAlert ==
  \A s \in Sweep : alerts[s] = IF stallReported[s] THEN 1 ELSE 0

\* A stop that waits knows every pass in flight, and none can start.
StopKnowsPasses ==
  host = "stopping" => waitFor = {s \in Sweep : inFlight[s]}

IInv ==
  /\ TypeOK
  /\ TimersBounded
  /\ GuardTellsPass
  /\ FlagTellsAlert
  /\ StopKnowsPasses
  /\ CleanStopIsQuiet

------------------------------------------------------------------------------
\* A sweep has a cadence of its own, and a stall threshold above it.
LEMMA Thresholds ==
  ASSUME NEW s \in Sweep
  PROVE  Cadence[s] \in Nat /\ Cadence[s] >= 1 /\ TooOld(s) \in Nat /\ TooOld(s) >= 1
  BY CadenceAssumption DEF TooOld

LEMMA InBounds == 0 \in 0..MaxWaiting /\ 0 \in 0..Deadline
  BY BoundAssumption

LEMMA TypesInParts == TypeOK <=> SweepTypes /\ HostTypes
  BY DEF TypeOK, SweepTypes, HostTypes

\* What a start and a restart of the container have in common.
LEMMA FreshInv ==
  ASSUME /\ host     = "running"
         /\ timer    = [s \in Sweep |-> 0]
         /\ passes   = [s \in Sweep |-> 0]
         /\ inFlight = [s \in Sweep |-> FALSE]
         /\ waiting  = [s \in Sweep |-> 0]
         /\ age      = [s \in Sweep |-> Never]
         /\ stallReported = [s \in Sweep |-> FALSE]
         /\ alerts   = [s \in Sweep |-> 0]
         /\ waitFor  = {}
         /\ waited   = 0
         /\ settled  = FALSE
  PROVE  IInv
  <1>1. TimersBounded
    BY Thresholds DEF TimersBounded, Never
  <1>2. TypeOK
    <2>1. SweepTypes
      BY InBounds DEF SweepTypes
    <2>2. HostTypes
      BY InBounds DEF HostTypes
    <2> QED
      BY <2>1, <2>2, TypesInParts
  <1> QED
    BY <1>1, <1>2
    DEF IInv, GuardTellsPass, FlagTellsAlert, StopKnowsPasses, CleanStopIsQuiet

LEMMA InitInv == Init => IInv
  BY FreshInv DEF Init

LEMMA TimePassesInv ==
  ASSUME IInv, TimePasses
  PROVE  IInv'
  <1>1. ASSUME NEW s \in Sweep
        PROVE  /\ timer'[s] \in Nat \cup {NoTimer} /\ timer'[s] <= Cadence[s]
               /\ age'[s] \in Nat \cup {Never} /\ age'[s] <= TooOld(s)
    BY Thresholds
    DEF TimePasses, Older, NoTimer, Never, IInv, TypeOK, TimersBounded
  <1>a. TypeOK'
    <2>1. /\ timer' \in [Sweep -> Nat \cup {NoTimer}]
          /\ age' \in [Sweep -> Nat \cup {Never}]
      BY <1>1 DEF TimePasses
    <2>2. waited' \in 0..Deadline
      BY BoundAssumption DEF TimePasses, IInv, TypeOK
    <2> QED
      BY <2>1, <2>2 DEF TimePasses, IInv, TypeOK
  <1>b. TimersBounded'
    BY <1>1 DEF TimersBounded, TooOld
  <1>2. /\ UNCHANGED <<host, passes, inFlight, stallReported, alerts, waitFor>>
        /\ UNCHANGED settled
    BY DEF TimePasses
  <1> QED
    BY <1>a, <1>b, <1>2
    DEF IInv, GuardTellsPass, FlagTellsAlert, StopKnowsPasses, CleanStopIsQuiet

\* The one step that starts a pass: the guard is down, and nobody has stopped.
LEMMA TickInv ==
  ASSUME IInv, NEW s \in Sweep, Tick(s)
  PROVE  IInv'
  <1>1. TypeOK'
    <2>a. waiting' \in [Sweep -> 0..MaxWaiting]
      BY BoundAssumption, TypesInParts DEF Tick, IInv, SweepTypes
    <2>b. timer' \in [Sweep -> Nat \cup {NoTimer}]
      BY Thresholds, TypesInParts DEF Tick, IInv, SweepTypes, Arm
    <2>c. inFlight' \in [Sweep -> BOOLEAN]
      BY TypesInParts DEF Tick, IInv, SweepTypes
    <2>d. passes' \in [Sweep -> Nat]
      BY TypesInParts DEF Tick, IInv, SweepTypes
    <2>1. SweepTypes'
      BY <2>a, <2>b, <2>c, <2>d, TypesInParts DEF Tick, IInv, SweepTypes
    <2>2. HostTypes'
      BY TypesInParts DEF Tick, IInv, HostTypes, stopVars
    <2> QED
      BY <2>1, <2>2 DEF TypeOK, SweepTypes, HostTypes
  <1>a. TimersBounded'
    BY Thresholds DEF Tick, IInv, TypeOK, TimersBounded, Arm, TooOld
  <1>2. GuardTellsPass'
    BY DEF Tick, IInv, TypeOK, GuardTellsPass
  <1>3. host = "running" /\ host' = host
    BY DEF Tick, Stopping, stopVars
  <1>4. FlagTellsAlert'
    BY DEF Tick, IInv, FlagTellsAlert
  <1> QED
    BY <1>1, <1>a, <1>2, <1>3, <1>4 DEF IInv, StopKnowsPasses, CleanStopIsQuiet

\* A pass ends: its guard goes down, and a stop has it off its list.
LEMMA PassOverInv ==
  ASSUME IInv, NEW s \in Sweep, PassSucceeds(s) \/ PassFails(s)
  PROVE  IInv'
  <1>1. PassOver(s) /\ UNCHANGED <<timer, host, waited, settled>>
    BY DEF PassSucceeds, PassFails
  <1>2. TypeOK'
    <2>a. waiting' \in [Sweep -> 0..MaxWaiting]
      BY <1>1, BoundAssumption, TypesInParts DEF PassOver, IInv, SweepTypes
    <2>b. passes' \in [Sweep -> Nat] /\ inFlight' \in [Sweep -> BOOLEAN]
      BY <1>1, TypesInParts DEF PassOver, IInv, SweepTypes
    <2>c. age' \in [Sweep -> Nat \cup {Never}]
      BY TypesInParts DEF PassSucceeds, PassFails, IInv, SweepTypes
    <2>d. stallReported' \in [Sweep -> BOOLEAN]
      BY TypesInParts DEF PassSucceeds, PassFails, IInv, SweepTypes
    <2>e. alerts' \in [Sweep -> Nat]
      BY TypesInParts DEF PassSucceeds, PassFails, IInv, SweepTypes
    <2>1. SweepTypes'
      BY <1>1, <2>a, <2>b, <2>c, <2>d, <2>e, TypesInParts DEF IInv, SweepTypes
    <2>2. HostTypes'
      BY <1>1, TypesInParts DEF PassOver, IInv, HostTypes
    <2> QED
      BY <2>1, <2>2 DEF TypeOK, SweepTypes, HostTypes
  <1>a. TimersBounded'
    BY <1>1, Thresholds
    DEF PassSucceeds, PassFails, IInv, TypeOK, TimersBounded, TooOld
  <1>3. GuardTellsPass'
    BY <1>1 DEF PassOver, IInv, TypeOK, GuardTellsPass
  <1>4. FlagTellsAlert'
    BY DEF PassSucceeds, PassFails, IInv, TypeOK, FlagTellsAlert
  <1>5. StopKnowsPasses'
    BY <1>1 DEF PassOver, IInv, TypeOK, StopKnowsPasses
  <1>6. CleanStopIsQuiet'
    BY <1>1 DEF PassOver, IInv, TypeOK, CleanStopIsQuiet
  <1> QED
    BY <1>2, <1>a, <1>3, <1>4, <1>5, <1>6 DEF IInv

LEMMA CheckStalledInv ==
  ASSUME IInv, NEW s \in Sweep, CheckStalled(s)
  PROVE  IInv'
  <1>1. TypeOK'
    <2>a. waiting' \in [Sweep -> 0..MaxWaiting]
      BY BoundAssumption, TypesInParts DEF CheckStalled, IInv, SweepTypes
    <2>b. alerts' \in [Sweep -> Nat]
      BY TypesInParts DEF CheckStalled, IInv, SweepTypes
    <2>c. stallReported' \in [Sweep -> BOOLEAN]
      BY TypesInParts DEF CheckStalled, IInv, SweepTypes
    <2>1. SweepTypes'
      BY <2>a, <2>b, <2>c, TypesInParts DEF CheckStalled, IInv, SweepTypes
    <2>2. HostTypes'
      BY TypesInParts DEF CheckStalled, IInv, HostTypes, stopVars
    <2> QED
      BY <2>1, <2>2 DEF TypeOK, SweepTypes, HostTypes
  <1>2. FlagTellsAlert'
    BY DEF CheckStalled, IInv, TypeOK, FlagTellsAlert
  <1>3. UNCHANGED <<timer, age, passes, inFlight, host, waitFor, settled>>
    BY DEF CheckStalled, stopVars
  <1> QED
    BY <1>1, <1>2, <1>3
    DEF IInv, TimersBounded, TooOld, GuardTellsPass, StopKnowsPasses, CleanStopIsQuiet

\* A stop settles when its list is empty, and then no pass is in flight.
LEMMA StopInv ==
  ASSUME IInv, Stop \/ StopReturns
  PROVE  IInv'
  <1>1. TypeOK'
    BY DEF Stop, StopReturns, sweepVars, IInv, TypeOK
  <1>a. TimersBounded'
    BY Thresholds
    DEF Stop, StopReturns, sweepVars, IInv, TimersBounded, TooOld, NoTimer
  <1>2. GuardTellsPass' /\ FlagTellsAlert'
    BY DEF Stop, StopReturns, sweepVars, IInv, GuardTellsPass, FlagTellsAlert
  <1>3. StopKnowsPasses'
    BY DEF Stop, StopReturns, StopKnowsPasses
  <1>4. CleanStopIsQuiet'
    BY DEF Stop, StopReturns, sweepVars, IInv, TypeOK, GuardTellsPass,
           StopKnowsPasses, CleanStopIsQuiet
  <1> QED
    BY <1>1, <1>a, <1>2, <1>3, <1>4 DEF IInv

LEMMA BootInv ==
  ASSUME Boot
  PROVE  IInv'
  <1>1. TimersBounded'
    BY Thresholds DEF Boot, TimersBounded, TooOld, Never
  <1>2. TypeOK'
    <2>1. SweepTypes'
      BY InBounds DEF Boot, SweepTypes
    <2>2. HostTypes'
      BY InBounds DEF Boot, HostTypes
    <2> QED
      BY <2>1, <2>2 DEF TypeOK, SweepTypes, HostTypes
  <1> QED
    BY <1>1, <1>2
    DEF Boot, IInv, GuardTellsPass, FlagTellsAlert, StopKnowsPasses, CleanStopIsQuiet

LEMMA NextInv == IInv /\ [Next]_vars => IInv'
  <1> SUFFICES ASSUME IInv, [Next]_vars
               PROVE  IInv'
    OBVIOUS
  <1>1. CASE TimePasses
    BY <1>1, TimePassesInv
  <1>2. CASE Stop \/ StopReturns
    BY <1>2, StopInv
  <1>3. CASE Boot
    BY <1>3, BootInv
  <1>4. ASSUME NEW s \in Sweep, Tick(s)
        PROVE  IInv'
    BY <1>4, TickInv
  <1>5. ASSUME NEW s \in Sweep, PassSucceeds(s) \/ PassFails(s)
        PROVE  IInv'
    BY <1>5, PassOverInv
  <1>6. ASSUME NEW s \in Sweep, CheckStalled(s)
        PROVE  IInv'
    BY <1>6, CheckStalledInv
  <1>7. CASE UNCHANGED vars
    BY <1>7 DEF vars, sweepVars, stopVars, IInv, TypeOK, TimersBounded, GuardTellsPass,
                FlagTellsAlert, StopKnowsPasses, CleanStopIsQuiet, TooOld
  <1> QED
    BY <1>1, <1>2, <1>3, <1>4, <1>5, <1>6, <1>7 DEF Next

LEMMA Inductive == Spec => []IInv
  BY InitInv, NextInv, PTL DEF Spec

------------------------------------------------------------------------------
\* The variables keep their types: no sweep has more ticks waiting or a stop
\* waits longer than its bound (scheduler.ts: tick, stop).
THEOREM TypeCorrect == Spec => []TypeOK
  <1>1. IInv => TypeOK
    BY DEF IInv
  <1> QED
    BY <1>1, Inductive, PTL

\* Spec 010 FR-037: passes of one sweep never overlap, however long they take
\* (scheduler.ts, the guard in the tick).
THEOREM PassesNeverOverlap == Spec => []NoOverlap
  <1>1. IInv => NoOverlap
    BY DEF IInv, GuardTellsPass, NoOverlap
  <1> QED
    BY <1>1, Inductive, PTL

\* When a stop returns saying that all has finished, no pass of any sweep is
\* running from then on until the next boot (scheduler.ts: stop; main.ts).
THEOREM QuietAfterCleanStop == Spec => []CleanStopIsQuiet
  <1>1. IInv => CleanStopIsQuiet
    BY DEF IInv
  <1> QED
    BY <1>1, Inductive, PTL

\* One alert for one stall, however many ticks notice it (scheduler.ts:
\* checkStalled).
THEOREM OneAlertAStall == Spec => []AlertedOnce
  <1>1. IInv => AlertedOnce
    BY DEF IInv, FlagTellsAlert, AlertedOnce
  <1> QED
    BY <1>1, Inductive, PTL
==============================================================================
