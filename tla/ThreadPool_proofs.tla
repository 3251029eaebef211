-------------------------- MODULE ThreadPool_proofs --------------------------
(***************************************************************************)
(* Proofs about ThreadPool for any finite set of workers and any tasks.    *)
(***************************************************************************)
EXTENDS ThreadPool, FiniteSetTheorems, TLAPS

\* The invariant the proofs go by.  TypeOK alone is not inductive: that a
\* worker which finishes a task held one follows from Accounted.
IInv == TypeOK /\ Accounted

-----------------------------------------------------------------------------
\* Append adds one element behind the others.
LEMMA AppendElements ==
  ASSUME NEW S, NEW s \in Seq(S), NEW x \in S
  PROVE  /\ Append(s, x) \in Seq(S)
         /\ DOMAIN Append(s, x) = DOMAIN s \union {Len(s) + 1}
         /\ \A i \in DOMAIN s : Append(s, x)[i] = s[i]
         /\ Append(s, x)[Len(s) + 1] = x
         /\ Len(s) + 1 \notin DOMAIN s
  OBVIOUS

\* Tail shifts the elements by one and drops the first.
LEMMA TailElements ==
  ASSUME NEW S, NEW s \in Seq(S), s # <<>>
  PROVE  /\ Tail(s) \in Seq(S)
         /\ Head(s) = s[1]
         /\ 1 \in DOMAIN s
         /\ \A i \in DOMAIN Tail(s) : /\ i + 1 \in DOMAIN s
                                      /\ i \in Nat
                                      /\ i + 1 # 1
                                      /\ Tail(s)[i] = s[i + 1]
         /\ \A i \in DOMAIN s : i # 1 => /\ i \in Nat
                                         /\ i - 1 \in DOMAIN Tail(s)
                                         /\ Tail(s)[i - 1] = s[i]
  OBVIOUS

-----------------------------------------------------------------------------
\* execute's push of a new task keeps IInv.
LEMMA PushStep ==
  ASSUME IInv, NEW t \in Tasks, t \notin submitted, push(t)
  PROVE  IInv'
<1>1. TypeOK'
  BY DEF IInv, TypeOK, push, notify_one, At, Locations
<1>2. Queued' = Queued \union {t} /\ t \notin Queued
  BY AppendElements DEF IInv, TypeOK, Accounted, push, Queued
<1>3. \A w \in Workers : (pc'[w] = "running" <=> pc[w] = "running") /\ cur'[w] = cur[w]
  BY DEF IInv, TypeOK, push, notify_one, At, Locations
<1>4. At("running")' = At("running") /\ Active' = Active /\ done' = done
  BY <1>3 DEF At, Active, push
<1>5. \A i, j \in DOMAIN q' : q'[i] = q'[j] => i = j
  BY AppendElements, <1>2 DEF IInv, TypeOK, Accounted, push, Queued
<1>6. QED
  BY <1>1, <1>2, <1>3, <1>4, <1>5 DEF IInv, Accounted, push

\* A worker that takes the first task keeps IInv.
LEMMA PopStep ==
  ASSUME IInv, NEW w \in Workers, q # <<>>, pc[w] # "running", pop(w)
  PROVE  IInv'
<1>1. TypeOK'
  BY DEF IInv, TypeOK, pop, Locations
<1>2. Queued = Queued' \union {Head(q)} /\ Head(q) \notin Queued'
  <2>1. q \in Seq(Tasks) /\ q' = Tail(q)
    BY DEF IInv, TypeOK, pop
  <2>2. Queued' \subseteq Queued /\ Head(q) \in Queued
    BY <2>1, TailElements DEF Queued
  <2>3. Queued \subseteq Queued' \union {Head(q)}
    <3> SUFFICES ASSUME NEW i \in DOMAIN q, i # 1 PROVE q[i] \in Queued'
      BY <2>1, TailElements, ZenonT(40) DEF Queued
    <3>1. i - 1 \in DOMAIN Tail(q) /\ Tail(q)[i - 1] = q[i]
      BY <2>1, TailElements
    <3>2. QED
      BY <2>1, <3>1 DEF Queued
  <2>4. ASSUME NEW i \in DOMAIN Tail(q) PROVE Tail(q)[i] # Head(q)
    BY <2>1, TailElements DEF IInv, Accounted
  <2>5. QED
    BY <2>1, <2>2, <2>3, <2>4 DEF Queued
<1>3. At("running")' = At("running") \union {w}
  BY DEF IInv, TypeOK, pop, At
<1>4. cur'[w] = Head(q) /\ \A v \in Workers \ {w} : cur'[v] = cur[v] /\ pc'[v] = pc[v]
  BY DEF IInv, TypeOK, pop
<1>5. Active' = Active \union {Head(q)}
  BY <1>3, <1>4 DEF Active, At
<1>6. Head(q) \in Queued /\ Head(q) \in Tasks
  BY <1>2 DEF IInv, TypeOK
<1>7. \A i, j \in DOMAIN q' : q'[i] = q'[j] => i = j
  BY TailElements DEF IInv, TypeOK, Accounted, pop
<1>8. \A u, v \in At("running")' : cur'[u] = cur'[v] => u = v
  <2>1. \A v \in At("running") : v # w /\ v \in Workers /\ cur'[v] = cur[v] /\ cur[v] # Head(q)
    BY <1>4, <1>6 DEF At, Active, IInv, Accounted
  <2>2. QED
    BY <1>3, <1>4, <2>1 DEF IInv, Accounted
<1>9. \A v \in Workers : pc'[v] = "running" <=> cur'[v] # NoTask
  BY <1>4, <1>6, NoTaskAssumption DEF IInv, Accounted, TypeOK, pop
<1>10. submitted' = submitted /\ done' = done
  BY DEF pop
<1>11. QED
  BY <1>1, <1>2, <1>5, <1>6, <1>7, <1>8, <1>9, <1>10 DEF IInv, Accounted

\* Steps that only move workers between places where they hold no task.
LEMMA MoveStep ==
  ASSUME IInv, NEW w \in Workers, pc[w] # "running",
         NEW l \in Locations, l # "running",
         pc' = [pc EXCEPT ![w] = l], UNCHANGED <<q, cur, submitted, done>>
  PROVE  IInv'
<1>1. TypeOK'
  BY DEF IInv, TypeOK
<1>2. \A v \in Workers : pc'[v] = "running" <=> pc[v] = "running"
  BY DEF IInv, TypeOK
<1>3. At("running")' = At("running") /\ Active' = Active /\ Queued' = Queued
  BY <1>2 DEF At, Active, Queued
<1>4. QED
  BY <1>1, <1>2, <1>3 DEF IInv, Accounted

\* A worker that has run its task keeps IInv.
LEMMA DoneStep ==
  ASSUME IInv, NEW w \in Workers, task_done(w)
  PROVE  IInv'
<1>1. cur[w] \in Tasks
  BY DEF IInv, TypeOK, Accounted, task_done
<1>2. TypeOK'
  BY <1>1 DEF IInv, TypeOK, task_done, Locations
<1>3. pc'[w] # "running" /\ cur'[w] = NoTask
      /\ \A v \in Workers \ {w} : cur'[v] = cur[v] /\ pc'[v] = pc[v]
  BY DEF IInv, TypeOK, task_done
<1>4. At("running")' = At("running") \ {w} /\ w \in At("running")
  BY <1>3 DEF At, task_done
<1>5. Active' = Active \ {cur[w]} /\ cur[w] \in Active
  BY <1>3, <1>4 DEF Active, At, IInv, Accounted
<1>6. Queued' = Queued /\ q' = q /\ submitted' = submitted /\ done' = done \union {cur[w]}
  BY DEF Queued, task_done
<1>7. \A u, v \in At("running")' : cur'[u] = cur'[v] => u = v
  BY <1>3, <1>4 DEF At, IInv, Accounted
<1>8. \A v \in Workers : pc'[v] = "running" <=> cur'[v] # NoTask
  BY <1>3 DEF IInv, Accounted
<1>9. QED
  BY <1>2, <1>5, <1>6, <1>7, <1>8 DEF IInv, Accounted

\* Type correctness and exactly-once accounting: a task that was passed to
\* execute is queued once, run by one worker or finished, never lost by a
\* woken worker that finds the queue empty and never run twice.
THEOREM AccountedFor == Spec => [](TypeOK /\ Accounted)
<1>1. Init => IInv
  BY DEF Init, IInv, TypeOK, Accounted, Locations, At, Active, Queued
<1>2. IInv /\ [Next]_vars => IInv'
  <2> SUFFICES ASSUME IInv, [Next]_vars PROVE IInv'
    OBVIOUS
  <2>1. ASSUME NEW t \in Tasks, execute(t) PROVE IInv'
    BY <2>1, PushStep DEF execute
  <2>2. ASSUME NEW w \in Workers, NEW t \in Tasks, execute_nested(w, t) PROVE IInv'
    BY <2>2, PushStep DEF execute_nested
  <2>3. ASSUME NEW w \in Workers, get_task(w) \/ wait_done(w) PROVE IInv'
    BY <2>3, PopStep DEF get_task, wait_done
  <2>4. ASSUME NEW w \in Workers,
               get_task_empty(w) \/ wait_again(w) \/ spurious_wakeup(w)
        PROVE IInv'
    BY <2>4, MoveStep DEF get_task_empty, wait_again, spurious_wakeup, Locations
  <2>5. ASSUME NEW w \in Workers, task_done(w) PROVE IInv'
    BY <2>5, DoneStep
  <2>6. CASE UNCHANGED vars
    <3>1. At("running")' = At("running") /\ Active' = Active /\ Queued' = Queued
      BY <2>6 DEF vars, At, Active, Queued
    <3>2. QED
      BY <2>6, <3>1 DEF vars, IInv, TypeOK, Accounted
  <2>7. QED
    BY <2>1, <2>2, <2>3, <2>4, <2>5, <2>6 DEF Next, Worker
<1>3. QED
  BY <1>1, <1>2, PTL DEF Spec, IInv

-----------------------------------------------------------------------------
\* The workers at any location are a finite set.
LEMMA WokenFinite ==
  \A l : IsFiniteSet(At(l)) /\ Cardinality(At(l)) \in Nat
BY WorkersAssumption, FS_Subset, FS_CardinalityType DEF At

\* No task waits behind a sleeping worker: execute's notify_one and the
\* predicate of wait keep at least one woken worker per queued task while
\* anybody sleeps.
THEOREM NoWakeupIsLost == Spec => []NoLostWakeup
<1>1. Init => NoLostWakeup
  BY DEF Init, NoLostWakeup, At
<1>2. TypeOK /\ NoLostWakeup /\ [Next]_vars => NoLostWakeup'
  <2> SUFFICES ASSUME TypeOK, NoLostWakeup, [Next]_vars, At("waiting")' # {}
               PROVE  Len(q') =< Cardinality(At("woken")')
    BY DEF NoLostWakeup
  <2>1. ASSUME NEW t \in Tasks, push(t)
        PROVE  Len(q') =< Cardinality(At("woken")')
    <3>1. Len(q') = Len(q) + 1 /\ Len(q) \in Nat
      BY <2>1 DEF push, TypeOK
    <3>2. CASE At("waiting") = {}
      BY <2>1, <3>2 DEF push, notify_one, At
    <3>3. ASSUME NEW w \in At("waiting"), pc' = [pc EXCEPT ![w] = "woken"]
          PROVE  Len(q') =< Cardinality(At("woken")')
      <4>1. At("woken")' = At("woken") \union {w} /\ w \notin At("woken")
        BY <3>3 DEF At, TypeOK
      <4>2. Cardinality(At("woken")') = Cardinality(At("woken")) + 1
        BY <4>1, WokenFinite, FS_AddElement
      <4>3. QED
        BY <3>1, <3>3, <4>2, WokenFinite DEF NoLostWakeup
    <3>4. QED
      BY <2>1, <3>2, <3>3 DEF push, notify_one
  <2>2. ASSUME NEW w \in Workers, get_task(w)
        PROVE  Len(q') =< Cardinality(At("woken")')
    <3>1. At("woken")' = At("woken") /\ At("waiting")' = At("waiting")
      BY <2>2 DEF get_task, pop, At, TypeOK
    <3>2. Len(q') = Len(q) - 1 /\ Len(q) \in Nat
      BY <2>2 DEF get_task, pop, TypeOK
    <3>3. QED
      BY <3>1, <3>2, WokenFinite DEF NoLostWakeup
  <2>3. ASSUME NEW w \in Workers, wait_done(w)
        PROVE  Len(q') =< Cardinality(At("woken")')
    <3>1. At("woken")' = At("woken") \ {w} /\ w \in At("woken") /\ At("waiting")' = At("waiting")
      BY <2>3 DEF wait_done, pop, At, TypeOK
    <3>2. Len(q') = Len(q) - 1 /\ Len(q) \in Nat
      BY <2>3 DEF wait_done, pop, TypeOK
    <3>3. Cardinality(At("woken")') = Cardinality(At("woken")) - 1
      BY <3>1, WokenFinite, FS_RemoveElement
    <3>4. QED
      BY <3>1, <3>2, <3>3, WokenFinite DEF NoLostWakeup
  <2>4. ASSUME NEW w \in Workers, get_task_empty(w) \/ wait_again(w)
        PROVE  Len(q') =< Cardinality(At("woken")')
    <3>1. Len(q') = 0
      BY <2>4 DEF get_task_empty, wait_again
    <3>2. Cardinality(At("woken")') \in Nat
      <4>1. At("woken")' \subseteq Workers
        BY DEF At
      <4>2. QED
        BY <4>1, WorkersAssumption, FS_Subset, FS_CardinalityType
    <3>3. QED
      BY <3>1, <3>2
  <2>5. ASSUME NEW w \in Workers, spurious_wakeup(w)
        PROVE  Len(q') =< Cardinality(At("woken")')
    <3>1. At("woken")' = At("woken") \union {w} /\ w \notin At("woken") /\ At("waiting") # {}
      BY <2>5 DEF spurious_wakeup, At, TypeOK
    <3>2. Cardinality(At("woken")') = Cardinality(At("woken")) + 1
      BY <3>1, WokenFinite, FS_AddElement
    <3>3. Len(q') = Len(q) /\ Len(q) \in Nat
      BY <2>5 DEF spurious_wakeup, TypeOK
    <3>4. QED
      BY <3>1, <3>2, <3>3, WokenFinite DEF NoLostWakeup
  <2>6. ASSUME NEW w \in Workers, task_done(w)
        PROVE  Len(q') =< Cardinality(At("woken")')
    <3>1. At("woken")' = At("woken") /\ At("waiting")' = At("waiting") /\ q' = q
      BY <2>6 DEF task_done, At, TypeOK
    <3>2. QED
      BY <3>1 DEF NoLostWakeup
  <2>7. CASE UNCHANGED vars
    BY <2>7 DEF vars, At, NoLostWakeup
  <2>8. QED
    BY <2>1, <2>2, <2>3, <2>4, <2>5, <2>6, <2>7
       DEF Next, Worker, execute, execute_nested
<1>3. QED
  BY <1>1, <1>2, AccountedFor, PTL DEF Spec

-----------------------------------------------------------------------------
\* A worker that is not running a task leaves room for one: fewer than
\* Cardinality(Workers) tasks are active.
LEMMA RoomForOne ==
  ASSUME IInv, NEW w \in Workers, pc[w] # "running"
  PROVE  Cardinality(Active) < Cardinality(Workers)
<1>1. At("running") \subseteq Workers \ {w}
  BY DEF At
<1>2. IsFiniteSet(Workers \ {w}) /\ Cardinality(Workers \ {w}) = Cardinality(Workers) - 1
  BY WorkersAssumption, FS_RemoveElement
<1>3. Cardinality(At("running")) =< Cardinality(Workers) - 1 /\ IsFiniteSet(At("running"))
  BY <1>1, <1>2, FS_Subset
<1>4. Cardinality(Active) =< Cardinality(At("running")) /\ IsFiniteSet(Active)
  <2> DEFINE f == [v \in At("running") |-> cur[v]]
  <2>1. f \in Surjection(At("running"), Active)
    BY DEF Surjection, Active
  <2>2. QED
    BY <1>3, <2>1, FS_Surjection
<1>5. /\ Cardinality(Workers) \in Nat
      /\ Cardinality(At("running")) \in Nat
      /\ Cardinality(Active) \in Nat
  BY <1>3, <1>4, WorkersAssumption, FS_CardinalityType
<1>6. QED
  BY <1>3, <1>4, <1>5

\* The pool implements the FIFO task queue of module TaskQueue: whatever the
\* interleaving of execute, wake-ups and workers, tasks start once and in the
\* order of the execute calls, and at most one per worker is active.
THEOREM RefinesTaskQueue == Spec => ImplementsTaskQueue
<1>1. Init => Promise!Init
  BY DEF Init, Promise!Init, Active, At
<1>2. IInv /\ [Next]_vars => [Promise!Next]_(Promise!vars)
  <2> SUFFICES ASSUME IInv, [Next]_vars PROVE [Promise!Next]_(Promise!vars)
    OBVIOUS
  <2> USE DEF Promise!Next, Promise!vars
  <2>1. ASSUME NEW t \in Tasks, t \notin submitted, push(t)
        PROVE  Promise!Submit(t)
    <3>1. At("running")' = At("running") /\ cur' = cur
      BY <2>1 DEF IInv, TypeOK, push, notify_one, At
    <3>2. Active' = Active
      BY <3>1 DEF Active
    <3>3. QED
      BY <2>1, <3>2 DEF push, Promise!Submit
  <2>2. ASSUME NEW w \in Workers, q # <<>>, pc[w] # "running", pop(w)
        PROVE  Promise!Start
    <3>1. Cardinality(Active) < Cardinality(Workers)
      BY <2>2, RoomForOne
    <3>2. Head(q) \notin Active \union done
      BY <2>2, TailElements DEF IInv, TypeOK, Accounted, Queued
    <3>3. At("running")' = At("running") \union {w} /\ cur'[w] = Head(q)
          /\ \A v \in Workers \ {w} : cur'[v] = cur[v]
      BY <2>2 DEF IInv, TypeOK, pop, At
    <3>4. Active' = Active \union {Head(q)}
      BY <2>2, <3>3 DEF Active, At
    <3>5. q' = Tail(q) /\ submitted' = submitted /\ done' = done
      BY <2>2 DEF pop
    <3>6. QED
      BY <2>2, <3>1, <3>2, <3>4, <3>5
         DEF Promise!Start, Promise!Cardinality, Cardinality
  <2>3. ASSUME NEW w \in Workers,
               get_task_empty(w) \/ wait_again(w) \/ spurious_wakeup(w)
        PROVE  UNCHANGED Promise!vars
    <3>1. At("running")' = At("running") /\ cur' = cur
      BY <2>3 DEF get_task_empty, wait_again, spurious_wakeup, IInv, TypeOK, At
    <3>2. QED
      BY <2>3, <3>1 DEF get_task_empty, wait_again, spurious_wakeup, Active
  <2>4. ASSUME NEW w \in Workers, task_done(w)
        PROVE  cur[w] \in Tasks /\ Promise!Finish(cur[w])
    <3>1. cur[w] \in Tasks /\ cur[w] \in Active
      BY <2>4 DEF IInv, TypeOK, Accounted, task_done, Active, At
    <3>2. At("running")' = At("running") \ {w} /\ w \in At("running")
          /\ \A v \in Workers \ {w} : cur'[v] = cur[v]
      BY <2>4 DEF IInv, TypeOK, task_done, At
    <3>3. Active' = Active \ {cur[w]}
      BY <3>2 DEF Active, At, IInv, Accounted
    <3>4. QED
      BY <2>4, <3>1, <3>3 DEF task_done, Promise!Finish
  <2>5. CASE UNCHANGED vars
    BY <2>5 DEF vars, Active, At
  <2>6. QED
    BY <2>1, <2>2, <2>3, <2>4, <2>5
       DEF Next, Worker, execute, execute_nested, get_task, wait_done
<1>3. QED
  BY <1>1, <1>2, AccountedFor, PTL
     DEF Spec, IInv, ImplementsTaskQueue, Promise!Spec
=============================================================================
