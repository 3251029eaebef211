-------------------------- MODULE Callbacks_proofs --------------------------
(***************************************************************************)
(* Proofs about the two places where callbacks change what is being walked *)
(* through: the hooks of EventHook, for any ids, attach and fire calls,    *)
(* and the timers of Scheduler, for any numbers, timers and bounds.        *)
(***************************************************************************)
EXTENDS EventHook, Scheduler, TLAPS

-----------------------------------------------------------------------------
(* The hooks: HookInv is inductive.                                        *)

\* The id that attach hands out next is not one it has handed out before,
\* although the ids start anywhere and wrap around.
LEMMA NextIdIsFresh ==
    ASSUME HookInv, nattach < MaxAttach
    PROVE  id \notin attached
  BY IdRangeAssumption DEF HookInv, HookTypeOK, Ids, Ahead

\* attach moves every id that is in use one step further back.
LEMMA AttachKeepsOrder ==
    ASSUME HookInv, attach
    PROVE  \A i \in attached' : Ahead(i)' >= IdRange - nattach'
  <1>1. /\ id \in 0..(IdRange - 1) /\ nattach \in 0..MaxAttach
        /\ attached \subseteq 0..(IdRange - 1)
        /\ \A i \in attached : Ahead(i) >= IdRange - nattach
    BY DEF HookInv, HookTypeOK, Ids
  <1>2. nattach < MaxAttach /\ nattach' = nattach + 1 /\ id' = next_id
        /\ attached' = attached \union {id}
    BY DEF attach
  <1>3. id \notin attached
    BY <1>2, NextIdIsFresh
  <1> SUFFICES ASSUME NEW i \in attached' PROVE Ahead(i)' >= IdRange - nattach'
    OBVIOUS
  <1>4. CASE i = id
    <2>1. id' = (IF id = IdRange - 1 THEN 0 ELSE id + 1)
      BY <1>2 DEF next_id
    <2> QED BY <1>1, <1>2, <1>4, <2>1, IdRangeAssumption DEF Ahead
  <1>5. CASE i \in attached
    BY <1>1, <1>2, <1>3, <1>5, IdRangeAssumption DEF Ahead, next_id
  <1> QED BY <1>2, <1>4, <1>5

-----------------------------------------------------------------------------
\* A new hook, whose _id may be anything, satisfies the invariant.
LEMMA HookInvInit == HookInit => HookInv
  <1> SUFFICES ASSUME HookInit PROVE HookInv
    OBVIOUS
  <1> USE IdRangeAssumption, MaxFireAssumption
  <1>1. HookTypeOK
    <2>1. called \in [Ids -> 0..2]
      BY DEF HookInit
    <2>2. nattach \in 0..MaxAttach /\ nfire \in 0..MaxFire
      BY DEF HookInit
    <2>3. id \in Ids /\ at \in Ids \union {None} /\ firing \in BOOLEAN
      BY Zenon DEF HookInit
    <2>4. callbacks \subseteq Ids /\ cancel_id \subseteq Ids /\ attached \subseteq Ids
          /\ detached \subseteq attached /\ due \subseteq Ids
      BY DEF HookInit
    <2> QED BY <2>1, <2>2, <2>3, <2>4 DEF HookTypeOK
  <1>2. FireReachesAll
    BY DEF HookInit, FireReachesAll
  <1> QED BY <1>1, <1>2 DEF HookInit, HookInv, IteratorStaysValid, DetachTakesEffect

\* The callbacks that may still be called are the ones after the iterator.
LEMMA WhatIsLeft ==
    ASSUME HookInv, firing
    PROVE  at \in Ids /\ After(at) = {j \in callbacks : j > at}
  BY IdRangeAssumption DEF HookInv, HookTypeOK, IteratorStaysValid, After, None, Ids

\* attach, detach and every step of fire preserve it.
LEMMA HookInvStep == HookInv /\ [HookNext]_hook_vars => HookInv'
  <1> SUFFICES ASSUME HookInv, [HookNext]_hook_vars PROVE HookInv'
    OBVIOUS
  <1> USE IdRangeAssumption, MaxFireAssumption
  <1>1. CASE attach
    <2>1. id \notin attached
      BY <1>1, NextIdIsFresh DEF attach
    <2>2. \A i \in attached' : Ahead(i)' >= IdRange - nattach'
      BY <1>1, AttachKeepsOrder
    <2>3. HookTypeOK'
      BY <1>1 DEF attach, next_id, HookInv, HookTypeOK, Ids, None
    <2>4. /\ (callbacks \subseteq attached)' /\ (cancel_id \subseteq detached)'
          /\ (callbacks \ cancel_id = attached \ detached)'
      BY <1>1, <2>1 DEF attach, HookInv, HookTypeOK
    <2>5. (/\ due \subseteq attached \ detached
           /\ firing => \A i \in Ids : i > at => called[i] = 0)'
      BY <1>1 DEF attach, HookInv
    <2>6. IteratorStaysValid' /\ FireReachesAll'
      BY <1>1 DEF attach, HookInv, IteratorStaysValid, FireReachesAll
    <2>7. DetachTakesEffect'
      BY <1>1, <2>1 DEF attach, HookInv, HookTypeOK, DetachTakesEffect
    <2> QED BY <2>2, <2>3, <2>4, <2>5, <2>6, <2>7 DEF HookInv
  <1>2. ASSUME NEW i \in Ids, detach(i) PROVE HookInv'
    <2>1. HookTypeOK'
      BY <1>2 DEF detach, HookInv, HookTypeOK
    <2>2. \A j \in attached' : Ahead(j)' >= IdRange - nattach'
      BY <1>2 DEF detach, HookInv, Ahead
    <2>3. /\ (callbacks \subseteq attached)' /\ (cancel_id \subseteq detached)'
          /\ (callbacks \ cancel_id = attached \ detached)'
      BY <1>2 DEF detach, HookInv, HookTypeOK
    <2>4. (/\ due \subseteq attached \ detached
           /\ firing => \A j \in Ids : j > at => called[j] = 0)'
      BY <1>2 DEF detach, HookInv
    <2>5. IteratorStaysValid' /\ FireReachesAll' /\ DetachTakesEffect'
      BY <1>2 DEF detach, HookInv, HookTypeOK, IteratorStaysValid, FireReachesAll, DetachTakesEffect
    <2> QED BY <2>1, <2>2, <2>3, <2>4, <2>5 DEF HookInv
  <1>3. ASSUME NEW i \in Ids, fire(i) PROVE HookInv'
    <2>1. HookTypeOK'
      BY <1>3 DEF fire, HookInv, HookTypeOK, Ids, None
    <2>2. /\ \A j \in attached' : Ahead(j)' >= IdRange - nattach'
          /\ (callbacks \subseteq attached)' /\ (cancel_id \subseteq detached)'
          /\ (callbacks \ cancel_id = attached \ detached)'
      BY <1>3 DEF fire, HookInv, Ahead
    <2>3. (/\ due \subseteq attached \ detached
           /\ firing => \A j \in Ids : j > at => called[j] = 0)'
      BY <1>3 DEF fire, HookInv, DetachTakesEffect, Ids
    <2>4. IteratorStaysValid' /\ DetachTakesEffect'
      BY <1>3 DEF fire, First, IteratorStaysValid, DetachTakesEffect
    <2>5. FireReachesAll'
      BY <1>3 DEF fire, First, FireReachesAll, HookInv, HookTypeOK, Ids
    <2> QED BY <2>1, <2>2, <2>3, <2>4, <2>5 DEF HookInv
  <1>4. ASSUME NEW i \in Ids, fire_next(i) PROVE HookInv'
    <2>1. /\ at \in Ids /\ i \in callbacks /\ i > at
          /\ \A j \in callbacks : j > at => i =< j
      BY <1>4, WhatIsLeft DEF fire_next, First
    <2>2. called[i] = 0 /\ called \in [Ids -> 0..2]
      BY <1>4, <2>1 DEF fire_next, HookInv, HookTypeOK
    <2>3. called' = [called EXCEPT ![i] = 1] /\ at' = i
      BY <1>4, <2>2 DEF fire_next, Run
    <2>4. HookTypeOK'
      BY <1>4, <2>2, <2>3 DEF fire_next, HookInv, HookTypeOK
    <2>5. /\ \A j \in attached' : Ahead(j)' >= IdRange - nattach'
          /\ (callbacks \subseteq attached)' /\ (cancel_id \subseteq detached)'
          /\ (callbacks \ cancel_id = attached \ detached)'
      BY <1>4 DEF fire_next, HookInv, Ahead
    <2>6. (/\ due \subseteq attached \ detached
           /\ firing => \A j \in Ids : j > at => called[j] = 0)'
      BY <1>4, <2>1, <2>2, <2>3 DEF fire_next, HookInv, Ids
    <2>7. IteratorStaysValid' /\ DetachTakesEffect'
      BY <1>4, <2>1, <2>3 DEF fire_next, IteratorStaysValid, DetachTakesEffect
    <2>8. FireReachesAll'
      <3>1. \A j \in Ids : called'[j] =< 1
        BY <2>2, <2>3 DEF HookInv, FireReachesAll
      <3>2. ASSUME NEW j \in due, j # i PROVE called'[j] = 1 \/ j > i
        <4>1. j \in Ids /\ j \in callbacks
          BY <1>4, <3>2 DEF fire_next, HookInv, HookTypeOK
        <4>2. called[j] = 1 \/ j > at
          BY <3>2 DEF HookInv, FireReachesAll
        <4> QED BY <2>1, <2>2, <2>3, <3>2, <4>1, <4>2 DEF Ids
      <3> QED BY <1>4, <2>2, <2>3, <3>1, <3>2 DEF fire_next, FireReachesAll
    <2> QED BY <2>4, <2>5, <2>6, <2>7, <2>8 DEF HookInv
  <1>5. CASE fire_nobody
    <2>1. HookTypeOK'
      BY <1>5 DEF fire_nobody, HookInv, HookTypeOK
    <2>2. due = {}
      BY <1>5 DEF fire_nobody, HookInv, DetachTakesEffect
    <2> QED BY <1>5, <2>1, <2>2
      DEF fire_nobody, HookInv, Ahead, IteratorStaysValid, FireReachesAll, DetachTakesEffect
  <1>6. CASE fire_end
    <2>1. at \in Ids /\ \A j \in callbacks : ~(j > at)
      BY <1>6, WhatIsLeft DEF fire_end
    <2>2. HookTypeOK'
      BY <1>6 DEF fire_end, HookInv, HookTypeOK
    <2>3. FireReachesAll'
      BY <1>6, <2>1 DEF fire_end, HookInv, FireReachesAll
    <2>4. /\ (callbacks \subseteq attached)' /\ (cancel_id \subseteq detached)'
          /\ (callbacks \ cancel_id = attached \ detached)' /\ DetachTakesEffect'
      BY <1>6 DEF fire_end, HookInv, DetachTakesEffect
    <2> QED BY <1>6, <2>2, <2>3, <2>4 DEF fire_end, HookInv, Ahead, IteratorStaysValid
  <1>7. CASE UNCHANGED hook_vars
    BY <1>7 DEF hook_vars, HookInv, HookTypeOK, Ahead, IteratorStaysValid, FireReachesAll, DetachTakesEffect
  <1> QED BY <1>1, <1>2, <1>3, <1>4, <1>5, <1>6, <1>7 DEF HookNext

\* The inductive invariant holds in every state.
LEMMA HookInvAlways == HookSpec => []HookInv
  BY HookInvInit, HookInvStep, PTL DEF HookSpec

\* Whatever the callbacks of a hook attach and detach while it fires, the walk
\* over the map calls everyone it has to exactly once.
THEOREM EveryoneIsReached == HookSpec => []FireReachesAll
  <1>1. HookInv => FireReachesAll
    BY DEF HookInv
  <1> QED BY <1>1, HookInvAlways, PTL

\* The iterator of the walk stays valid: detach erases nothing while it fires.
THEOREM IteratorIsNeverErased == HookSpec => []IteratorStaysValid
  <1>1. HookInv => IteratorStaysValid
    BY DEF HookInv
  <1> QED BY <1>1, HookInvAlways, PTL

\* Between two fires exactly the callbacks that were attached and not detached
\* are there: a detach that fire has deferred is not forgotten.
THEOREM DetachIsNotForgotten == HookSpec => []DetachTakesEffect
  <1>1. HookInv => DetachTakesEffect
    BY DEF HookInv
  <1> QED BY <1>1, HookInvAlways, PTL

-----------------------------------------------------------------------------
(* The timers: SchedulerInv is inductive; it says that a timer that is     *)
(* over is only still registered while it runs, which is why it is not     *)
(* called again.                                                           *)

\* The constants that stand for "none" are none of the things they are told
\* apart from.
LEMMA ConstantFacts ==
    /\ NoFd \notin Fds
    /\ NoTimer \notin Timers /\ Leaked \notin Timers
    /\ NoTimer # Leaked
    /\ Interval \subseteq Timers
  BY FdsAssumption, TimersAssumption DEF NoFd, NoTimer, Leaked

\* The inductive invariant holds before the program has scheduled anything.
LEMMA SchedulerInit == Init => SchedulerInv
  <1> SUFFICES ASSUME Init PROVE SchedulerInv
    OBVIOUS
  <1>0. 0 \in 0..MaxExpire
    BY BoundsAssumption
  <1>1. TypeOK
    BY <1>0 DEF Init, TypeOK
  <1>2. OthersUndisturbed /\ HandlesAgree /\ RegisteredIsAlive
    BY ConstantFacts DEF Init, OthersUndisturbed, HandlesAgree, RegisteredIsAlive
  <1>3. ClosingIsOver /\ OverIsClosed /\ RunsInBatch
    BY DEF Init, ClosingIsOver, OverIsClosed, RunsInBatch
  <1> QED BY <1>1, <1>2, <1>3 DEF SchedulerInv

\* A number that is free has no callback and is not being closed.
LEMMA FreeIsUnused ==
    ASSUME SchedulerInv, NEW fd \in Free
    PROVE  fd \in Fds /\ file[fd] = NoTimer /\ entry[fd] = NoTimer /\ fd \notin closing
  BY ConstantFacts DEF Free, SchedulerInv, TypeOK, RegisteredIsAlive, ClosingIsOver

\* schedule takes a free number.
LEMMA ScheduleStep ==
    ASSUME SchedulerInv, NEW i \in Timers, NEW fd \in Fds, schedule(i, fd)
    PROVE  SchedulerInv'
  <1>1. fd \in Free
    BY DEF schedule, IsLowest
  <1>2. file[fd] = NoTimer /\ entry[fd] = NoTimer /\ fd \notin closing
    BY <1>1, FreeIsUnused
  <1>3. /\ handle[i] = NoFd /\ i \notin over /\ i # current
        /\ \A g \in Fds : file[g] # i
    BY DEF schedule, SchedulerInv, HandlesAgree
  <1>4. TypeOK'
    BY DEF schedule, SchedulerInv, TypeOK
  <1>5. HandlesAgree'
    BY <1>2, <1>3, ConstantFacts DEF schedule, SchedulerInv, TypeOK, HandlesAgree
  <1>6. RegisteredIsAlive' /\ ClosingIsOver'
    BY <1>2, <1>3, ConstantFacts DEF schedule, SchedulerInv, TypeOK, RegisteredIsAlive, ClosingIsOver
  <1>7. OverIsClosed' /\ RunsInBatch'
    BY <1>2, <1>3, ConstantFacts DEF schedule, SchedulerInv, TypeOK, OverIsClosed, RunsInBatch
  <1>8. OthersUndisturbed'
    BY <1>2, <1>3, ConstantFacts DEF schedule, SchedulerInv, TypeOK, OthersUndisturbed
  <1> QED BY <1>4, <1>5, <1>6, <1>7, <1>8 DEF SchedulerInv

\* A schedule that fails uses a free number up.
LEMMA ScheduleFailsStep ==
    ASSUME SchedulerInv, NEW fd \in Fds, schedule_fails(fd)
    PROVE  SchedulerInv'
  <1>1. file[fd] = NoTimer /\ entry[fd] = NoTimer /\ fd \notin closing
    BY FreeIsUnused DEF schedule_fails, IsLowest
  <1>2. TypeOK'
    BY DEF schedule_fails, SchedulerInv, TypeOK
  <1>3. HandlesAgree' /\ RegisteredIsAlive' /\ ClosingIsOver'
    BY <1>1, ConstantFacts
       DEF schedule_fails, SchedulerInv, TypeOK, HandlesAgree, RegisteredIsAlive, ClosingIsOver
  <1>4. OverIsClosed' /\ RunsInBatch' /\ OthersUndisturbed'
    BY <1>1, ConstantFacts
       DEF schedule_fails, SchedulerInv, TypeOK, OverIsClosed, RunsInBatch, OthersUndisturbed
  <1> QED BY <1>2, <1>3, <1>4 DEF SchedulerInv

\* unschedule closes no other timer; a number that is already about to be
\* closed stays so.
LEMMA UnscheduleStep ==
    ASSUME SchedulerInv, NEW i \in Timers, unschedule(i)
    PROVE  SchedulerInv'
  <1> DEFINE fd == handle[i]
  <1>1. fd \in Fds /\ file[fd] = i
    BY DEF unschedule, SchedulerInv, TypeOK
  <1>2. /\ entry' = [entry EXCEPT ![fd] = NoTimer]
        /\ closing' = IF entry[fd] = NoTimer THEN closing ELSE closing \union {fd}
        /\ over' = over \union {i}
        /\ UNCHANGED <<handle, file, expired, edge, nexpired, batch, inBatch, current, fired>>
    BY DEF unschedule, close
  <1> HIDE DEF fd
  <1>3. \A g \in Fds : g # fd => file[g] # i
    BY <1>1 DEF SchedulerInv, HandlesAgree, fd
  <1>4. fd \in closing'
    <2>1. CASE i \in over
      <3>1. fd \in closing \/ entry[fd] = i
        BY <1>1, <2>1 DEF SchedulerInv, OverIsClosed
      <3> QED BY <1>2, <3>1, ConstantFacts
    <2>2. CASE i \notin over
      <3>1. entry[fd] = i
        BY <1>1, <2>2, ConstantFacts DEF SchedulerInv, OthersUndisturbed, fd
      <3> QED BY <1>2, <3>1, ConstantFacts
    <2> QED BY <2>1, <2>2
  <1>5. TypeOK'
    BY <1>1, <1>2 DEF SchedulerInv, TypeOK
  <1>6. HandlesAgree' /\ RegisteredIsAlive'
    BY <1>1, <1>2, <1>3, ConstantFacts DEF SchedulerInv, TypeOK, HandlesAgree, RegisteredIsAlive, fd
  <1>7. ClosingIsOver' /\ RunsInBatch'
    BY <1>1, <1>2 DEF SchedulerInv, TypeOK, ClosingIsOver, RunsInBatch
  <1>8. OverIsClosed'
    BY <1>1, <1>2, <1>3, <1>4 DEF SchedulerInv, TypeOK, OverIsClosed
  <1>9. OthersUndisturbed'
    <2>1. ASSUME NEW j \in Timers, handle[j] # NoFd, j \notin over, j # i
          PROVE  handle[j] # fd
      BY <1>1, <2>1 DEF SchedulerInv, OthersUndisturbed
    <2> QED BY <1>1, <1>2, <1>3, <1>4, <2>1 DEF SchedulerInv, TypeOK, OthersUndisturbed
  <1> QED BY <1>5, <1>6, <1>7, <1>8, <1>9 DEF SchedulerInv

\* The steps that only move the kernel's flags and the batch.
LEMMA QuietStep ==
    ASSUME SchedulerInv, TypeOK',
           UNCHANGED <<handle, file, entry, closing, current, over>>,
           current # NoTimer => inBatch' = inBatch
    PROVE  SchedulerInv'
  BY DEF SchedulerInv, OthersUndisturbed, HandlesAgree, RegisteredIsAlive, ClosingIsOver,
         OverIsClosed, RunsInBatch

\* The callback of a timer that expires once makes it over while it runs.
LEMMA CallbackStep ==
    ASSUME SchedulerInv, NEW fd \in Fds, callback(fd)
    PROVE  SchedulerInv' /\ entry[fd] \in Timers \ over
  <1> DEFINE i == entry[fd]
  <1>1. i \in Timers /\ file[fd] = i /\ i \notin over /\ handle[i] = fd
    BY ConstantFacts
       DEF callback, SchedulerInv, TypeOK, RegisteredIsAlive, HandlesAgree
  <1>2. /\ current = NoTimer /\ inBatch /\ current' = i /\ inBatch' = inBatch
        /\ over' = over \union ({i} \ Interval)
        /\ UNCHANGED <<handle, file, entry, closing>>
    BY DEF callback
  <1>3. TypeOK'
    BY <1>1 DEF callback, SchedulerInv, TypeOK
  <1>4. entry[fd] = i
    OBVIOUS
  <1> HIDE DEF i
  <1>5. \A g \in Fds : g # fd => file[g] # i
    BY <1>1 DEF SchedulerInv, HandlesAgree
  <1>6. HandlesAgree'
    BY <1>1, <1>2, ConstantFacts DEF SchedulerInv, TypeOK, HandlesAgree
  <1>7. RegisteredIsAlive'
    BY <1>1, <1>2, <1>4, <1>5, ConstantFacts DEF SchedulerInv, TypeOK, RegisteredIsAlive
  <1>8. ClosingIsOver' /\ RunsInBatch'
    BY <1>1, <1>2, <1>4 DEF SchedulerInv, TypeOK, ClosingIsOver, RunsInBatch
  <1>9. OverIsClosed'
    BY <1>1, <1>2, <1>4, <1>5, ConstantFacts DEF SchedulerInv, TypeOK, OverIsClosed
  <1>10. OthersUndisturbed'
    BY <1>1, <1>2, <1>9 DEF SchedulerInv, TypeOK, OthersUndisturbed, OverIsClosed
  <1> QED BY <1>1, <1>3, <1>4, <1>6, <1>7, <1>8, <1>9, <1>10 DEF SchedulerInv

\* When it returns, the number of a timer that expires once is closed, unless
\* the callback has unscheduled it, and the number of a timer with an interval
\* stays as the callback has left it.
LEMMA CallbackReturnsStep ==
    ASSUME SchedulerInv, callback_returns
    PROVE  SchedulerInv'
  <1>0. current \in Timers /\ current # NoTimer /\ current' = NoTimer
    BY DEF callback_returns, SchedulerInv, TypeOK
  <1>1. CASE current \in Interval
    <2>1. UNCHANGED <<handle, file, entry, closing, over, inBatch>>
      BY <1>1 DEF callback_returns
    <2>2. TypeOK'
      BY <1>1 DEF callback_returns, SchedulerInv, TypeOK
    <2>3. HandlesAgree' /\ ClosingIsOver' /\ RunsInBatch'
      BY <1>0, <2>1, ConstantFacts DEF SchedulerInv, HandlesAgree, ClosingIsOver, RunsInBatch
    <2>4. OverIsClosed' /\ OthersUndisturbed'
      BY <1>0, <1>1, <2>1 DEF SchedulerInv, OverIsClosed, OthersUndisturbed
    <2>5. RegisteredIsAlive'
      BY <1>0, <1>1, <2>1, ConstantFacts
         DEF SchedulerInv, TypeOK, RegisteredIsAlive, OverIsClosed, ClosingIsOver
    <2> QED BY <2>2, <2>3, <2>4, <2>5 DEF SchedulerInv
  <1>2. CASE current \notin Interval
    <2> DEFINE fd == handle[current]
    <2>1. fd \in Fds /\ current \in over
      BY <1>0, <1>2 DEF SchedulerInv, TypeOK, HandlesAgree, RunsInBatch
    <2>2. /\ entry' = [entry EXCEPT ![fd] = NoTimer]
          /\ closing' = IF entry[fd] = NoTimer THEN closing ELSE closing \union {fd}
          /\ UNCHANGED <<handle, file, over, inBatch, expired, edge, nexpired, batch, fired>>
      BY <1>2 DEF callback_returns, close
    <2>3. \A g \in Fds : file[g] = current => g = fd
      BY <1>0 DEF SchedulerInv, HandlesAgree
    <2> HIDE DEF fd
    <2>4. file[fd] = current /\ (fd \in closing \/ entry[fd] = current)
      BY <1>0, <1>2, <2>1, ConstantFacts DEF SchedulerInv, TypeOK, OverIsClosed, RunsInBatch, fd
    <2>5. TypeOK'
      BY <1>0, <2>1, <2>2 DEF SchedulerInv, TypeOK
    <2>6. HandlesAgree' /\ RunsInBatch'
      BY <1>0, <2>2, ConstantFacts DEF SchedulerInv, HandlesAgree, RunsInBatch
    <2>7. RegisteredIsAlive'
      BY <1>0, <2>1, <2>2, <2>3, ConstantFacts DEF SchedulerInv, TypeOK, RegisteredIsAlive
    <2>8. ClosingIsOver'
      BY <2>1, <2>2, <2>4 DEF SchedulerInv, TypeOK, ClosingIsOver
    <2>9. OverIsClosed'
      BY <1>0, <2>1, <2>2, <2>3, <2>4, ConstantFacts DEF SchedulerInv, TypeOK, OverIsClosed
    <2>10. OthersUndisturbed'
      <3>1. ASSUME NEW j \in Timers, handle[j] # NoFd, j \notin over
            PROVE  handle[j] # fd
        BY <2>1, <2>4, <3>1, ConstantFacts DEF SchedulerInv, TypeOK, OthersUndisturbed
      <3> QED BY <2>1, <2>2, <2>9, <3>1, <1>0, ConstantFacts
             DEF SchedulerInv, TypeOK, OthersUndisturbed, OverIsClosed
    <2> QED BY <2>5, <2>6, <2>7, <2>8, <2>9, <2>10 DEF SchedulerInv
  <1> QED BY <1>1, <1>2

\* The pending closes free only numbers of timers that are over.
LEMMA ClosePendingStep ==
    ASSUME SchedulerInv, close_pending
    PROVE  SchedulerInv'
  <1>1. \A fd \in Fds : file'[fd] = IF fd \in closing THEN NoTimer ELSE file[fd]
    BY DEF close_pending
  <1>2. current = NoTimer /\ closing' = {} /\ UNCHANGED <<handle, entry, current, over>>
    BY DEF close_pending
  <1>3. TypeOK'
    BY DEF close_pending, SchedulerInv, TypeOK
  <1>4. HandlesAgree' /\ RegisteredIsAlive' /\ ClosingIsOver'
    BY <1>1, <1>2, ConstantFacts
       DEF SchedulerInv, TypeOK, HandlesAgree, RegisteredIsAlive, ClosingIsOver
  <1>5. OverIsClosed' /\ RunsInBatch'
    BY <1>1, <1>2, ConstantFacts DEF SchedulerInv, TypeOK, OverIsClosed, RunsInBatch
  <1>6. OthersUndisturbed'
    BY <1>1, <1>2, <1>5, ConstantFacts DEF SchedulerInv, TypeOK, OthersUndisturbed, OverIsClosed
  <1> QED BY <1>3, <1>4, <1>5, <1>6 DEF SchedulerInv

\* Every step preserves the invariant, and calls no timer that is over.
LEMMA SchedulerNext ==
    SchedulerInv /\ [Next]_vars => SchedulerInv' /\ (\A i \in over : fired'[i] = fired[i])
  <1> SUFFICES ASSUME SchedulerInv, [Next]_vars
               PROVE  SchedulerInv' /\ (\A i \in over : fired'[i] = fired[i])
    OBVIOUS
  <1>1. ASSUME NEW i \in Timers, NEW fd \in Fds, schedule(i, fd) PROVE SchedulerInv' /\ fired' = fired
    BY <1>1, ScheduleStep DEF schedule
  <1>2. ASSUME NEW i \in Timers, unschedule(i) PROVE SchedulerInv' /\ fired' = fired
    BY <1>2, UnscheduleStep DEF unschedule
  <1>3. ASSUME NEW i \in Timers, expire(i) PROVE SchedulerInv' /\ fired' = fired
    <2>1. nexpired'[i] \in 0..MaxExpire
      BY <1>3, BoundsAssumption DEF expire, SchedulerInv, TypeOK
    <2>2. TypeOK'
      BY <1>3, <2>1 DEF expire, SchedulerInv, TypeOK
    <2> QED BY <1>3, <2>2, QuietStep DEF expire
  <1>4. ASSUME NEW fd \in Fds, schedule_fails(fd) PROVE SchedulerInv' /\ fired' = fired
    BY <1>4, ScheduleFailsStep DEF schedule_fails
  <1>5. ASSUME NEW fd \in Fds, no_callback(fd) PROVE SchedulerInv' /\ fired' = fired
    <2>1. TypeOK'
      BY <1>5 DEF no_callback, SchedulerInv, TypeOK
    <2> QED BY <1>5, <2>1, QuietStep DEF no_callback
  <1>6. ASSUME NEW fd \in Fds, callback(fd)
        PROVE  SchedulerInv' /\ (\A i \in over : fired'[i] = fired[i])
    <2>1. SchedulerInv' /\ entry[fd] \in Timers \ over
      BY <1>6, CallbackStep
    <2> QED BY <1>6, <2>1 DEF callback, SchedulerInv, TypeOK
  <1>7. CASE epoll_wait
    <2>1. TypeOK'
      BY <1>7 DEF epoll_wait, SchedulerInv, TypeOK
    <2>2. current = NoTimer
      BY <1>7 DEF epoll_wait, SchedulerInv, RunsInBatch
    <2> QED BY <1>7, <2>1, <2>2, QuietStep DEF epoll_wait
  <1>8. CASE callback_returns
    BY <1>8, CallbackReturnsStep DEF callback_returns
  <1>9. CASE close_pending
    BY <1>9, ClosePendingStep DEF close_pending
  <1>10. CASE UNCHANGED vars
    <2>1. TypeOK'
      BY <1>10 DEF vars, SchedulerInv, TypeOK
    <2> QED BY <1>10, <2>1, QuietStep DEF vars
  <1> QED BY <1>1, <1>2, <1>3, <1>4, <1>5, <1>6, <1>7, <1>8, <1>9, <1>10 DEF Next

\* A timer that is not over keeps its number and its callback, whatever other
\* timers end and are scheduled around it, in callbacks of the same batch and
\* in the callback of the timer that ends itself too.
THEOREM TimersAreUndisturbed == Spec => []OthersUndisturbed
  <1>1. SchedulerInv => OthersUndisturbed
    BY DEF SchedulerInv
  <1> QED BY SchedulerInit, SchedulerNext, <1>1, PTL DEF Spec

\* A timer is not called after unschedule has returned, and one that expires
\* once is not called twice, even if its expiration is already in the batch.
THEOREM QuietAfterwards == Spec => QuietWhenOver
  <1>1. SchedulerInv /\ [Next]_vars => [\A i \in over : fired'[i] = fired[i]]_vars
    BY SchedulerNext
  <1> QED BY SchedulerInit, SchedulerNext, <1>1, PTL DEF Spec, QuietWhenOver
=============================================================================
