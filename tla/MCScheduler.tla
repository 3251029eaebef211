---------------------------- MODULE MCScheduler ----------------------------
(***************************************************************************)
(* Three timers for three numbers: two may expire in one batch while a     *)
(* third is scheduled, with a number of its own or with an old one.        *)
(***************************************************************************)
EXTENDS Scheduler

MCFds == 1..3
=============================================================================
