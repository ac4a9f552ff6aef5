----------------------------- MODULE WorkerSweeps -----------------------------
(***************************************************************************)
(* What the worker runs (apps/worker/src): the registry of its sweeps, the *)
(* environment their cadences come from, and the one-shot run of them all. *)
(* SweepScheduler is the process that runs them for good; the modules that *)
(* have the sweeps' effects are named with them.                           *)
(***************************************************************************)
EXTENDS Integers, Sequences, DomainEvents

HOUR == 3600
DAY  == 86400

\* A sweep, its default cadence in seconds, and the command whose events it
\* leaves in the outbox, if it has one.
Sweeping(name, seconds, command) ==
  [name |-> name, seconds |-> seconds,
   publishes |-> IF command \in DOMAIN SweepsPublish THEN SweepsPublish[command] ELSE {}]

SWEEPS ==
  <<Sweeping("erase-unverified",        HOUR, "none"),     \* Identity
    Sweeping("erase-deleted-accounts",  HOUR, "none"),     \* Identity
    Sweeping("erase-stale-sessions",    HOUR, "none"),     \* Identity
    Sweeping("expire-invitations",      HOUR, "none"),     \* Family
    Sweeping("guardian-coverage",       DAY,  "none"),     \* Family, a read
    Sweeping("materialise-occurrences", HOUR, "materialiseHorizon"),  \* Calendar
    Sweeping("report-overdue-tasks",    60,   "reportOverdue"),       \* TaskSeries
    Sweeping("outbox-relay",            1,    "none")>>    \* OutboxRelay

SweepNames == {SWEEPS[i].name : i \in DOMAIN SWEEPS}
Registered(name) == CHOOSE sweep \in {SWEEPS[i] : i \in DOMAIN SWEEPS} : sweep.name = name

------------------------------------------------------------------------------
(* parseWorkerEnv.  A variable is empty (or not there), blank, a text, or a *)
(* whole number; what is not a whole number reads as a text.                *)

Empty == [is |-> "empty", number |-> 0]
Blank == [is |-> "blank", number |-> 0]
Text  == [is |-> "text", number |-> 0]
Whole(n) == [is |-> "whole", number |-> n]

Required == {"RELAY_QUEUE_ENDPOINT", "RELAY_QUEUE_REGION"}
WorkerEnvVariables == SweepNames \cup {"WORKER_HEARTBEAT_PATH"} \cup Required

Unset(raw)       == raw \in {Empty, Blank}
IsCadence(raw)   == raw.is = "whole" /\ raw.number > 0
CadenceOf(name, raw) == IF Unset(raw) THEN Registered(name).seconds ELSE raw.number

\* Every variable that is wrong.  A heartbeat path cannot be: it is unset or a
\* text; and a blank is text enough for the relay's queue.
Issues(env) ==
  {name \in SweepNames : ~Unset(env[name]) /\ ~IsCadence(env[name])}
    \cup {v \in Required : env[v] = Empty}

Boots(env)    == Issues(env) = {}
Cadences(env) == [name \in SweepNames |-> CadenceOf(name, env[name])]

------------------------------------------------------------------------------
(* The one-shot run, in the registry's order, by the clock or as of a date. *)

\* A sweep that throws ends it: the later ones have not run, and the database is
\* not disconnected.
RanOnce(throwing) ==
  {i \in DOMAIN SWEEPS : \A j \in 1 .. i - 1 : SWEEPS[j].name \notin throwing}

\* parseAsOf, of the text after the flag: no date is no run.
RunsAsOf(flagged, text) == flagged => text = "a date"

------------------------------------------------------------------------------
\* The environments that differ from the one of a plain deployment in two
\* variables at most.
PlainEnv == [v \in WorkerEnvVariables |-> IF v \in Required THEN Text ELSE Empty]
EnvsTested ==
  {[PlainEnv EXCEPT ![v] = a, ![w] = b] :
     v, w \in WorkerEnvVariables, a, b \in {Empty, Blank, Text, Whole(0), Whole(7)}}

\* What boots has a cadence for every sweep, as the scheduler's constructor and
\* SweepScheduler's CadenceAssumption want it, and only that one was overridden
\* which was set (FR-037).
ASSUME EveryBootHasItsCadences ==
  /\ Boots(PlainEnv)
  /\ \A env \in EnvsTested :
       Boots(env) =>
         /\ Cadences(env) \in [SweepNames -> Nat \ {0}]
         /\ \A name \in SweepNames :
              Cadences(env)[name] # Registered(name).seconds => env[name].is = "whole"

\* The names are those of different variables; a late overdue task and an event
\* in the outbox are found in the time promised (SC-012, SC-001); every command
\* of a sweep belongs to one of them; and the one-shot run leaves a throwing
\* sweep's successors to the next.
ASSUME RegistryIsComplete ==
  /\ \A i, j \in DOMAIN SWEEPS : SWEEPS[i].name = SWEEPS[j].name => i = j
  /\ Registered("report-overdue-tasks").seconds <= 300
  /\ Registered("outbox-relay").seconds <= 5
  /\ UNION {SWEEPS[i].publishes : i \in DOMAIN SWEEPS} =
       UNION {SweepsPublish[c] : c \in DOMAIN SweepsPublish}
  /\ RanOnce({}) = DOMAIN SWEEPS
  /\ \A name \in SweepNames \ {"outbox-relay"} : Len(SWEEPS) \notin RanOnce({name})
==============================================================================
