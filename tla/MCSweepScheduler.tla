--------------------------- MODULE MCSweepScheduler ---------------------------
(***************************************************************************)
(* Instances of SweepScheduler for TLC: one sweep every unit of time and   *)
(* one every other unit; the registry's own cadences are in WorkerSweeps,  *)
(* whose assumptions are evaluated with it.                                *)
(***************************************************************************)
EXTENDS SweepScheduler, WorkerSweeps

CONSTANTS fast, slow

MCSweep   == {fast, slow}
MCCadence == [s \in MCSweep |-> IF s = fast THEN 1 ELSE 2]
==============================================================================
