---------------------------- MODULE MCThreadPool ----------------------------
(***************************************************************************)
(* Three workers, so that a task can be taken by a second worker between   *)
(* the wake-up of the first and its lock while the third sleeps.           *)
(***************************************************************************)
EXTENDS ThreadPool

CONSTANTS w1, w2, w3, t1, t2, t3, t4

MCWorkers == {w1, w2, w3}
MCTasks == {t1, t2, t3, t4}
=============================================================================
