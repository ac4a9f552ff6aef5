------------------------------- MODULE MCReading -------------------------------
(***************************************************************************)
(* Instances of Reading for TLC: three tasks on pages of one, with two due *)
(* moments so that some share one, an event and a child.                   *)
(***************************************************************************)
EXTENDS Reading
==============================================================================
