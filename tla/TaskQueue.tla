----------------------------- MODULE TaskQueue ------------------------------
(***************************************************************************)
(* What IThreadPool promises (ThreadPool.h): a queue of tasks that are     *)
(* started first in first out, each of them exactly once, at most N of     *)
(* them being active at the same time.                                     *)
(***************************************************************************)
EXTENDS Naturals, Sequences, FiniteSets

CONSTANTS Tasks, N

VARIABLES pending, active, submitted, done

vars == <<pending, active, submitted, done>>

Init ==
    /\ pending = <<>>
    /\ active = {}
    /\ submitted = {}
    /\ done = {}

Submit(t) ==
    /\ t \notin submitted
    /\ submitted' = submitted \union {t}
    /\ pending' = Append(pending, t)
    /\ UNCHANGED <<active, done>>

Start ==
    /\ pending # <<>>
    /\ Cardinality(active) < N
    /\ Head(pending) \notin active \union done
    /\ active' = active \union {Head(pending)}
    /\ pending' = Tail(pending)
    /\ UNCHANGED <<submitted, done>>

Finish(t) ==
    /\ t \in active
    /\ active' = active \ {t}
    /\ done' = done \union {t}
    /\ UNCHANGED <<pending, submitted>>

Next ==
    \/ \E t \in Tasks : Submit(t) \/ Finish(t)
    \/ Start

Spec == Init /\ [][Next]_vars
=============================================================================
