---------------------------- MODULE MCChronoTrigger ----------------------------
(* Instances of ChronoTrigger for TLC. *)
EXTENDS ChronoTrigger
=============================================================================
