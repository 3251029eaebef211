----------------------------- MODULE ThreadPool -----------------------------
(***************************************************************************)
(* The thread pool of mixin_handler (ThreadPool.h, ThreadPool.cpp): a      *)
(* mutex, a condition variable and a queue shared by the callers of        *)
(* execute and by the pool's own threads.                                  *)
(*                                                                         *)
(* Every critical section of the code runs under _mutex from its first to  *)
(* its last statement, so each is one action: execute (push, notify_one),  *)
(* the entry of get_task that finds the queue empty and goes to sleep, the *)
(* entry that finds a task, and the two outcomes of the predicate that     *)
(* _cond.wait evaluates after it has got the mutex back.  What runs        *)
(* outside of the mutex, the body of the task, is a step of its own; a     *)
(* task may call execute again.                                            *)
(***************************************************************************)
EXTENDS Naturals, Sequences, FiniteSets

CONSTANTS
    Workers,    \* the n threads started by the constructor
    Tasks,      \* the tasks of all execute calls; one call each
    NoTask      \* the content of cur for a worker that runs nothing

ASSUME WorkersAssumption == IsFiniteSet(Workers) /\ Workers # {}
ASSUME NoTaskAssumption == NoTask \notin Tasks

VARIABLES
    q,          \* _q, oldest first
    pc,         \* where each worker is
    cur,        \* the task a worker holds, while pc is "running"
    submitted,  \* history: the tasks that have been passed to execute
    done        \* history: the tasks whose body has returned

vars == <<q, pc, cur, submitted, done>>

\* "get_task": about to lock the mutex in get_task; "waiting": blocked in
\* _cond.wait; "woken": signalled, has still to get the mutex back;
\* "running": has left get_task and is inside t().
Locations == {"get_task", "waiting", "woken", "running"}

At(l) == {w \in Workers : pc[w] = l}

Queued == {q[i] : i \in DOMAIN q}

TypeOK ==
    /\ q \in Seq(Tasks)
    /\ pc \in [Workers -> Locations]
    /\ cur \in [Workers -> Tasks \union {NoTask}]
    /\ submitted \subseteq Tasks
    /\ done \subseteq Tasks

Init ==
    /\ q = <<>>
    /\ pc = [w \in Workers |-> "get_task"]
    /\ cur = [w \in Workers |-> NoTask]
    /\ submitted = {}
    /\ done = {}

-----------------------------------------------------------------------------
\* notify_one: one blocked thread, if there is any, becomes runnable.
notify_one ==
    \/ /\ At("waiting") = {}
       /\ UNCHANGED pc
    \/ \E w \in At("waiting") : pc' = [pc EXCEPT ![w] = "woken"]

\* Mutant: the signal is dropped when other tasks are already queued.
push_signals_if_empty(t) ==
    /\ submitted' = submitted \union {t}
    /\ q' = Append(q, t)
    /\ IF q = <<>> THEN notify_one ELSE UNCHANGED pc
    /\ UNCHANGED <<cur, done>>

push(t) ==
    /\ submitted' = submitted \union {t}
    /\ q' = Append(q, t)
    /\ notify_one
    /\ UNCHANGED <<cur, done>>

\* execute, called by a thread that is not one of the pool's.
execute(t) ==
    /\ t \notin submitted
    /\ push(t)

\* execute, called by the body of the task that worker w is running.
execute_nested(w, t) ==
    /\ pc[w] = "running"
    /\ t \notin submitted
    /\ push(t)

\* Mutant: the task is read but not popped.
pop_front_only(w) ==
    /\ cur' = [cur EXCEPT ![w] = Head(q)]
    /\ pc' = [pc EXCEPT ![w] = "running"]
    /\ UNCHANGED <<q, submitted, done>>

\* front and pop, then the mutex is released and run() calls the task.
pop(w) ==
    /\ cur' = [cur EXCEPT ![w] = Head(q)]
    /\ q' = Tail(q)
    /\ pc' = [pc EXCEPT ![w] = "running"]
    /\ UNCHANGED <<submitted, done>>

\* get_task finds a task.
get_task(w) ==
    /\ pc[w] = "get_task"
    /\ q # <<>>
    /\ pop(w)

\* Mutant: the emptiness test is made before the mutex is taken, so that a
\* push can slip in between the test and the wait.
get_task_sleeps_on_stale_test(w) ==
    /\ pc[w] = "get_task"
    /\ pc' = [pc EXCEPT ![w] = "waiting"]
    /\ UNCHANGED <<q, cur, submitted, done>>

\* get_task finds none: wait releases the mutex and blocks.
get_task_empty(w) ==
    /\ pc[w] = "get_task"
    /\ q = <<>>
    /\ pc' = [pc EXCEPT ![w] = "waiting"]
    /\ UNCHANGED <<q, cur, submitted, done>>

\* wait returns without a signal, as the standard allows.
spurious_wakeup(w) ==
    /\ pc[w] = "waiting"
    /\ pc' = [pc EXCEPT ![w] = "woken"]
    /\ UNCHANGED <<q, cur, submitted, done>>

\* The predicate of wait holds: go on to front and pop.
wait_done(w) ==
    /\ pc[w] = "woken"
    /\ q # <<>>
    /\ pop(w)

\* The predicate of wait does not hold: some other worker took the task.
wait_again(w) ==
    /\ pc[w] = "woken"
    /\ q = <<>>
    /\ pc' = [pc EXCEPT ![w] = "waiting"]
    /\ UNCHANGED <<q, cur, submitted, done>>

\* t() returns and run() loops.
task_done(w) ==
    /\ pc[w] = "running"
    /\ pc' = [pc EXCEPT ![w] = "get_task"]
    /\ cur' = [cur EXCEPT ![w] = NoTask]
    /\ done' = done \union {cur[w]}
    /\ UNCHANGED <<q, submitted>>

Worker(w) ==
    \/ get_task(w)
    \/ get_task_empty(w)
    \/ wait_done(w)
    \/ wait_again(w)
    \/ task_done(w)

Next ==
    \/ \E t \in Tasks : execute(t)
    \/ \E w \in Workers, t \in Tasks : execute_nested(w, t)
    \/ \E w \in Workers : Worker(w) \/ spurious_wakeup(w)

Spec == Init /\ [][Next]_vars

\* The threads of the pool are never stopped: a runnable one gets to run, and
\* the tasks of the instance return.  Callers and spurious wake-ups are free.
FairSpec == Spec /\ \A w \in Workers : WF_vars(Worker(w))

-----------------------------------------------------------------------------
\* While some worker sleeps, every queued task has a worker of its own that
\* has been woken for it: execute's single notify_one never leaves a task
\* behind a sleeping thread, even when a task is stolen by a worker that was
\* not asleep and the woken one has to sleep again.
NoLostWakeup ==
    At("waiting") # {} => Len(q) =< Cardinality(At("woken"))

Active == {cur[w] : w \in At("running")}

\* Every task that was passed to execute is at exactly one place: queued once,
\* held by one running worker, or finished.
Accounted ==
    /\ \A w \in Workers : pc[w] = "running" <=> cur[w] # NoTask
    /\ \A v, w \in At("running") : cur[v] = cur[w] => v = w
    /\ \A i, j \in DOMAIN q : q[i] = q[j] => i = j
    /\ Queued \intersect (Active \union done) = {}
    /\ Active \intersect done = {}
    /\ submitted = Queued \union Active \union done

\* What the pool promises its callers: the tasks start in the order of the
\* execute calls, each of them once, and no more of them are active at a time
\* than the pool has threads.
Promise == INSTANCE TaskQueue
               WITH pending <- q,
                    active  <- Active,
                    N       <- Cardinality(Workers)

\* execute, get_task and run implement the FIFO task queue.
ImplementsTaskQueue == Promise!Spec

\* Every task that was passed to execute is run to its end, although a woken
\* worker may find the queue empty and although nobody is woken by a push
\* that happens while all workers are busy.
EverySubmittedTaskRuns ==
    \A t \in Tasks : t \in submitted ~> t \in done
=============================================================================
