---------------------------- MODULE SweepScheduler ----------------------------
(***************************************************************************)
(* The worker's sweep scheduler (apps/worker/src/scheduler/scheduler.ts)   *)
(* and the shutdown sequence around it (apps/worker/src/main.ts).          *)
(*                                                                         *)
(* Each sweep has a chain of timers of its own.  A tick arms the next one  *)
(* before it does anything, skips the pass when one is in flight, and      *)
(* otherwise awaits the pass; then it writes the heartbeat file and, when  *)
(* that write has settled, looks for a stall.  Several ticks of one sweep  *)
(* can be waiting for their heartbeat at once, with passes starting and    *)
(* ending meanwhile.  A pass may fail, and may never end.                  *)
(***************************************************************************)
EXTENDS Integers

CONSTANTS
  Sweep,      \* the registered sweeps
  Cadence,    \* Cadence[s]: units of time between the ticks of s
  Deadline,   \* how long a stop waits for the passes in flight
  MaxWaiting  \* bound: ticks of one sweep waiting for their heartbeat

ASSUME CadenceAssumption == Cadence \in [Sweep -> Nat \ {0}]
ASSUME BoundAssumption   == Deadline \in Nat \ {0} /\ MaxWaiting \in Nat \ {0}

NoTimer == -1  \* the timer field is null
Never   == -1  \* lastSuccessAt is null

VARIABLES
  host,           \* "running", "stopping" (stop is waiting) or "closed"
  timer,          \* time until the armed timer of each sweep fires
  passes,         \* passes of each sweep in progress
  inFlight,       \* the guard against overlapping passes
  waiting,        \* ticks of each sweep waiting for their heartbeat
  age,            \* time since lastSuccessAt
  stallReported,  \* was the stall alert raised since the last success?
  alerts,         \* history: alerts since the last success
  waitFor,        \* sweeps whose pass the stop is waiting for
  waited,         \* how long it has been waiting
  settled         \* what stop returned: did everything finish in time?

sweepVars == <<timer, passes, inFlight, waiting, age, stallReported, alerts>>
stopVars  == <<host, waitFor, waited, settled>>
vars == <<sweepVars, stopVars>>

------------------------------------------------------------------------------
(* Helpers *)

Stopping == host # "running"

\* Ages beyond the stall threshold are all alike.
TooOld(s)   == 3 * Cadence[s] + 1
Older(s)    == IF age[s] = Never \/ age[s] = TooOld(s) THEN age[s] ELSE age[s] + 1
Stalled(s)  == age[s] # Never /\ age[s] > 3 * Cadence[s]

\* arm, outside a stop.
Arm(s, delay) == timer' = [timer EXCEPT ![s] = delay]

------------------------------------------------------------------------------
(* start: every sweep gets its first tick within the startup jitter. *)
Init ==
  /\ host     = "running"
  /\ timer    = [s \in Sweep |-> 0]
  /\ passes   = [s \in Sweep |-> 0]
  /\ inFlight = [s \in Sweep |-> FALSE]
  /\ waiting  = [s \in Sweep |-> 0]
  /\ age      = [s \in Sweep |-> Never]
  /\ stallReported = [s \in Sweep |-> FALSE]
  /\ alerts   = [s \in Sweep |-> 0]
  /\ waitFor  = {}
  /\ waited   = 0
  /\ settled  = FALSE

(* Time passes.  A timer that is due may fire late: the event loop is busy. *)
TimePasses ==
  /\ host # "closed"
  /\ timer' = [s \in Sweep |-> IF timer[s] \in {0, NoTimer} THEN timer[s]
                               ELSE timer[s] - 1]
  /\ age'   = [s \in Sweep |-> Older(s)]
  /\ waited' = IF host = "stopping" /\ waited < Deadline THEN waited + 1
               ELSE waited
  /\ UNCHANGED <<host, passes, inFlight, waiting, stallReported, alerts,
                 waitFor, settled>>

(* Mutant of Tick: no guard against overlapping passes. *)
TickOverlapping(s) ==
  /\ ~Stopping
  /\ timer[s] = 0
  /\ Arm(s, Cadence[s])
  /\ inFlight' = [inFlight EXCEPT ![s] = TRUE]
  /\ passes'   = [passes EXCEPT ![s] = @ + 1]
  /\ UNCHANGED <<waiting, age, stallReported, alerts, stopVars>>

(* A timer fires: arm the next tick, then skip or start a pass. *)
Tick(s) ==
  /\ ~Stopping
  /\ timer[s] = 0
  /\ Arm(s, Cadence[s])
  /\ \/ /\ inFlight[s]
        /\ waiting[s] < MaxWaiting
        /\ waiting' = [waiting EXCEPT ![s] = @ + 1]
        /\ UNCHANGED <<passes, inFlight>>
     \/ /\ ~inFlight[s]
        /\ inFlight' = [inFlight EXCEPT ![s] = TRUE]
        /\ passes'   = [passes EXCEPT ![s] = @ + 1]
        /\ UNCHANGED waiting
  /\ UNCHANGED <<age, stallReported, alerts, stopVars>>

\* The pass of s is over, and its tick goes on to the heartbeat.
PassOver(s) ==
  /\ passes[s] > 0
  /\ waiting[s] < MaxWaiting
  /\ passes'   = [passes EXCEPT ![s] = @ - 1]
  /\ inFlight' = [inFlight EXCEPT ![s] = FALSE]
  /\ waiting'  = [waiting EXCEPT ![s] = @ + 1]
  /\ waitFor'  = waitFor \ {s}

PassSucceeds(s) ==
  /\ PassOver(s)
  /\ age' = [age EXCEPT ![s] = 0]
  /\ stallReported' = [stallReported EXCEPT ![s] = FALSE]
  /\ alerts' = [alerts EXCEPT ![s] = 0]
  /\ UNCHANGED <<timer, host, waited, settled>>

(* A pass that throws is logged; nothing else knows. *)
PassFails(s) ==
  /\ PassOver(s)
  /\ UNCHANGED <<timer, age, stallReported, alerts, host, waited, settled>>

(* Mutant of CheckStalled: the alert is not remembered. *)
CheckStalledForgets(s) ==
  /\ waiting[s] > 0
  /\ waiting' = [waiting EXCEPT ![s] = @ - 1]
  /\ alerts' = [alerts EXCEPT ![s] = IF Stalled(s) THEN @ + 1 ELSE @]
  /\ UNCHANGED <<timer, passes, inFlight, age, stallReported, stopVars>>

(* Mutant of CheckStalled: only the tick after a failed pass looks. *)
CheckStalledWhenIdle(s) ==
  /\ waiting[s] > 0
  /\ waiting' = [waiting EXCEPT ![s] = @ - 1]
  /\ IF Stalled(s) /\ ~stallReported[s] /\ ~inFlight[s]
     THEN /\ stallReported' = [stallReported EXCEPT ![s] = TRUE]
          /\ alerts' = [alerts EXCEPT ![s] = @ + 1]
     ELSE UNCHANGED <<stallReported, alerts>>
  /\ UNCHANGED <<timer, passes, inFlight, age, stopVars>>

(* The heartbeat write has settled, well or badly: look for a stall. *)
CheckStalled(s) ==
  /\ waiting[s] > 0
  /\ waiting' = [waiting EXCEPT ![s] = @ - 1]
  /\ IF Stalled(s) /\ ~stallReported[s]
     THEN /\ stallReported' = [stallReported EXCEPT ![s] = TRUE]
          /\ alerts' = [alerts EXCEPT ![s] = @ + 1]
     ELSE UNCHANGED <<stallReported, alerts>>
  /\ UNCHANGED <<timer, passes, inFlight, age, stopVars>>

(* Mutant of Stop: the passes in flight are not collected. *)
StopForgetsPasses ==
  /\ host = "running"
  /\ host'    = "stopping"
  /\ timer'   = [s \in Sweep |-> NoTimer]
  /\ UNCHANGED <<passes, inFlight, waiting, age, stallReported, alerts,
                 waitFor, waited, settled>>

(* A signal: stop clears the timers and collects the passes in flight. *)
Stop ==
  /\ host = "running"
  /\ host'    = "stopping"
  /\ timer'   = [s \in Sweep |-> NoTimer]
  /\ waitFor' = {s \in Sweep : inFlight[s]}
  /\ UNCHANGED <<passes, inFlight, waiting, age, stallReported, alerts,
                 waited, settled>>

(* stop returns, and main disconnects the database and closes. *)
StopReturns ==
  /\ host = "stopping"
  /\ \/ waitFor = {} /\ settled' = TRUE
     \/ waitFor # {} /\ waited = Deadline /\ settled' = FALSE
  /\ host' = "closed"
  /\ UNCHANGED <<sweepVars, waitFor, waited>>

(* The container starts again with nothing remembered. *)
Boot ==
  /\ host = "closed"
  /\ host'     = "running"
  /\ timer'    = [s \in Sweep |-> 0]
  /\ passes'   = [s \in Sweep |-> 0]
  /\ inFlight' = [s \in Sweep |-> FALSE]
  /\ waiting'  = [s \in Sweep |-> 0]
  /\ age'      = [s \in Sweep |-> Never]
  /\ stallReported' = [s \in Sweep |-> FALSE]
  /\ alerts'   = [s \in Sweep |-> 0]
  /\ waitFor'  = {}
  /\ waited'   = 0
  /\ settled'  = FALSE

------------------------------------------------------------------------------
Next ==
  \/ TimePasses \/ Stop \/ StopReturns \/ Boot
  \/ \E s \in Sweep :
       Tick(s) \/ PassSucceeds(s) \/ PassFails(s) \/ CheckStalled(s)

\* Time goes on, due timers fire and file writes settle.  Nothing makes a pass
\* end.
Fairness ==
  /\ WF_vars(TimePasses) /\ WF_vars(StopReturns)
  /\ \A s \in Sweep : WF_vars(Tick(s)) /\ WF_vars(CheckStalled(s))

Spec == Init /\ [][Next]_vars /\ Fairness

------------------------------------------------------------------------------
(* Properties *)

\* Types.
TypeOK ==
  /\ host \in {"running", "stopping", "closed"}
  /\ timer \in [Sweep -> Nat \cup {NoTimer}]
  /\ passes \in [Sweep -> Nat]
  /\ inFlight \in [Sweep -> BOOLEAN]
  /\ waiting \in [Sweep -> 0..MaxWaiting]
  /\ age \in [Sweep -> Nat \cup {Never}]
  /\ stallReported \in [Sweep -> BOOLEAN]
  /\ alerts \in [Sweep -> Nat]
  /\ waitFor \subseteq Sweep
  /\ waited \in 0..Deadline
  /\ settled \in BOOLEAN

\* Two passes of one sweep never run at once, however much longer than its
\* cadence a pass takes (spec 010 FR-037).
NoOverlap == \A s \in Sweep : passes[s] <= 1

\* When stop has said that everything finished in time, nothing is in flight
\* after the database is disconnected (main.ts:46-51).
CleanStopIsQuiet == host = "closed" /\ settled => \A s \in Sweep : passes[s] = 0

\* An outage is reported once, although several ticks of the sweep may be
\* waiting for their heartbeat when it is noticed (scheduler.ts:77-80).
AlertedOnce == \A s \in Sweep : alerts[s] <= 1

\* A sweep that has succeeded once is reported when it stops succeeding, also
\* when its pass hangs: by the ticks that skip (FR-038).
StallIsAlerted ==
  \A s \in Sweep :
    host = "running" /\ age[s] # Never
      ~> stallReported[s] \/ age[s] = 0 \/ Stopping
==============================================================================
