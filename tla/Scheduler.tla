------------------------------ MODULE Scheduler ------------------------------
(***************************************************************************)
(* Timers (Scheduler.cpp) on the event loop of EventManager.  A timer is a *)
(* timerfd with a READ callback; its handle is the descriptor number.  The *)
(* callbacks schedule and unschedule timers, their own included, while     *)
(* other expirations of the same batch are still to be handled.            *)
(*                                                                         *)
(* The program unschedules a handle only while its number has not been     *)
(* closed: it may be another file's afterwards.  Closes wait for the end   *)
(* of the batch, so it may unschedule a timer twice, or from the callback  *)
(* of the timer itself, which closes one that expires once again.          *)
(***************************************************************************)
EXTENDS Naturals, FiniteSets

CONSTANTS
    Fds,        \* descriptor numbers
    Timers,     \* calls of schedule
    Interval,   \* those with an interval; the others are to expire once
    MaxExpire,  \* bound on the expirations of a timer
    MaxLeak     \* bound on the calls of timerfd_settime that fail

ASSUME FdsAssumption == Fds \subseteq Nat \ {0}
ASSUME BoundsAssumption == MaxExpire \in Nat \ {0} /\ MaxLeak \in Nat

NoFd == 0
NoTimer == "none"
Leaked == "leaked"
ASSUME TimersAssumption == Interval \subseteq Timers /\ {NoTimer, Leaked} \intersect Timers = {}

VARIABLES
    handle,     \* the number schedule has returned, NoFd before
    file,       \* kernel: the timer a number stands for
    expired,    \* kernel: the timers that are readable
    edge,       \* kernel: those that have expired since they were reported
    nexpired,   \* kernel: how often each has expired
    entry,      \* _fds: the timer whose callback is registered
    closing,    \* _close_fds
    batch,      \* the events of the batch that are still to be handled
    inBatch,    \* handle_events is running
    current,    \* the timer whose callback is running
    fired,      \* history: how often each callback was called
    over        \* history: unscheduled, or once and called

vars == <<handle, file, expired, edge, nexpired, entry, closing, batch, inBatch,
          current, fired, over>>

TypeOK ==
    /\ handle \in [Timers -> Fds \union {NoFd}]
    /\ file \in [Fds -> Timers \union {NoTimer, Leaked}]
    /\ expired \subseteq Timers
    /\ edge \subseteq Timers
    /\ nexpired \in [Timers -> 0..MaxExpire]
    /\ entry \in [Fds -> Timers \union {NoTimer}]
    /\ closing \subseteq Fds
    /\ batch \subseteq Fds
    /\ inBatch \in BOOLEAN
    /\ current \in Timers \union {NoTimer}
    /\ fired \in [Timers -> Nat]
    /\ over \subseteq Timers

Init ==
    /\ handle = [i \in Timers |-> NoFd]
    /\ file = [fd \in Fds |-> NoTimer]
    /\ expired = {} /\ edge = {}
    /\ nexpired = [i \in Timers |-> 0]
    /\ entry = [fd \in Fds |-> NoTimer]
    /\ closing = {} /\ batch = {} /\ inBatch = FALSE /\ current = NoTimer
    /\ fired = [i \in Timers |-> 0]
    /\ over = {}

-----------------------------------------------------------------------------
(* What the program does, before the loop or from a callback.              *)

UserCode == ~inBatch \/ current # NoTimer

Free == {fd \in Fds : file[fd] = NoTimer}
IsLowest(fd, S) == fd \in S /\ \A g \in S : fd =< g

\* schedule and schedule_once.
schedule(i, fd) ==
    /\ UserCode
    /\ handle[i] = NoFd /\ IsLowest(fd, Free)
    /\ handle' = [handle EXCEPT ![i] = fd]
    /\ file' = [file EXCEPT ![fd] = i]
    /\ entry' = [entry EXCEPT ![fd] = i]
    /\ UNCHANGED <<expired, edge, nexpired, closing, batch, inBatch, current, fired, over>>

\* timerfd_settime fails: -1 is returned and the descriptor stays open.
schedule_fails(fd) ==
    /\ UserCode
    /\ IsLowest(fd, Free)
    /\ Cardinality({g \in Fds : file[g] = Leaked}) < MaxLeak
    /\ file' = [file EXCEPT ![fd] = Leaked]
    /\ UNCHANGED <<handle, expired, edge, nexpired, entry, closing, batch, inBatch,
                   current, fired, over>>

\* Mutant: the number is given back before the end of the batch.
close_at_once(fd) ==
    /\ entry' = [entry EXCEPT ![fd] = NoTimer]
    /\ file' = [file EXCEPT ![fd] = NoTimer]
    /\ UNCHANGED closing

\* close(fd): nothing if there is no entry.
close(fd) ==
    /\ entry' = [entry EXCEPT ![fd] = NoTimer]
    /\ closing' = IF entry[fd] = NoTimer THEN closing ELSE closing \union {fd}
    /\ UNCHANGED file

\* Mutant: only the epoll set forgets it.
unschedule_entry_stays(i) ==
    /\ UserCode
    /\ handle[i] # NoFd /\ file[handle[i]] = i
    /\ over' = over \union {i}
    /\ closing' = closing \union {handle[i]}
    /\ UNCHANGED <<handle, file, expired, edge, nexpired, entry, batch, inBatch, current, fired>>

unschedule(i) ==
    /\ UserCode
    /\ handle[i] # NoFd /\ file[handle[i]] = i
    /\ over' = over \union {i}
    /\ close(handle[i])
    /\ UNCHANGED <<handle, expired, edge, nexpired, batch, inBatch, current, fired>>

-----------------------------------------------------------------------------
(* The event loop.                                                         *)

\* The kernel lets a timer expire.
expire(i) ==
    /\ \E fd \in Fds : file[fd] = i
    /\ nexpired[i] < IF i \in Interval THEN MaxExpire ELSE 1
    /\ nexpired' = [nexpired EXCEPT ![i] = @ + 1]
    /\ expired' = expired \union {i} /\ edge' = edge \union {i}
    /\ UNCHANGED <<handle, file, entry, closing, batch, inBatch, current, fired, over>>

\* epoll_wait reports some of the readable timers, each expiration once
\* (EPOLLET).
epoll_wait ==
    /\ ~inBatch
    /\ \E S \in SUBSET {fd \in Fds : entry[fd] # NoTimer /\ file[fd] \in expired \intersect edge} :
          /\ S # {} /\ batch' = S
          /\ edge' = edge \ {file[fd] : fd \in S}
    /\ inBatch' = TRUE
    /\ UNCHANGED <<handle, file, expired, nexpired, entry, closing, current, fired, over>>

\* Mutant: the rest of the batch is given up.
no_callback_breaks(fd) ==
    /\ inBatch /\ current = NoTimer /\ fd \in batch
    /\ entry[fd] = NoTimer
    /\ batch' = {}
    /\ UNCHANGED <<handle, file, expired, edge, nexpired, entry, closing, inBatch,
                   current, fired, over>>

\* handle_events takes the next event, for which there may be no entry left.
no_callback(fd) ==
    /\ inBatch /\ current = NoTimer /\ fd \in batch
    /\ entry[fd] = NoTimer
    /\ batch' = batch \ {fd}
    /\ UNCHANGED <<handle, file, expired, edge, nexpired, entry, closing, inBatch,
                   current, fired, over>>

\* The READ callback: the count is read, and the program's callback starts.
callback(fd) ==
    /\ inBatch /\ current = NoTimer /\ fd \in batch
    /\ entry[fd] # NoTimer
    /\ batch' = batch \ {fd}
    /\ current' = entry[fd]
    /\ expired' = expired \ {file[fd]}
    /\ fired' = [fired EXCEPT ![entry[fd]] = @ + 1]
    /\ over' = over \union ({entry[fd]} \ Interval)
    /\ UNCHANGED <<handle, file, edge, nexpired, entry, closing, inBatch>>

\* The program's callback returns; a timer that expires once is closed.
callback_returns ==
    /\ current # NoTimer
    /\ current' = NoTimer
    /\ IF current \in Interval THEN UNCHANGED <<entry, closing, file>>
                              ELSE close(handle[current])
    /\ UNCHANGED <<handle, expired, edge, nexpired, batch, inBatch, fired, over>>

\* The end of the batch: the pending closes are made.
close_pending ==
    /\ inBatch /\ current = NoTimer /\ batch = {}
    /\ inBatch' = FALSE
    /\ closing' = {}
    /\ file' = [fd \in Fds |-> IF fd \in closing THEN NoTimer ELSE file[fd]]
    /\ expired' = expired \ {file[fd] : fd \in closing}
    /\ edge' = edge \ {file[fd] : fd \in closing}
    /\ UNCHANGED <<handle, nexpired, entry, batch, current, fired, over>>

Next ==
    \/ \E i \in Timers :
          \/ \E fd \in Fds : schedule(i, fd)
          \/ unschedule(i)
          \/ expire(i)
    \/ \E fd \in Fds : schedule_fails(fd) \/ no_callback(fd) \/ callback(fd)
    \/ epoll_wait
    \/ callback_returns
    \/ close_pending

Spec == Init /\ [][Next]_vars

\* Callbacks return, the loop goes on, timers expire, and epoll_wait, which is
\* called again and again, does not leave out a readable timer for ever.
Fairness ==
    /\ \A fd \in Fds : WF_vars(no_callback(fd) \/ callback(fd))
    /\ WF_vars(callback_returns)
    /\ WF_vars(close_pending)
    /\ \A i \in Timers : WF_vars(expire(i))
    /\ \A fd \in Fds : SF_vars(epoll_wait /\ fd \in batch')

FairSpec == Spec /\ Fairness

-----------------------------------------------------------------------------
(* Properties.                                                             *)

\* Once unschedule has returned, or a timer that expires once was called, the
\* callback is not called any more, even if its expiration is already in the
\* batch.
QuietWhenOver == [][\A i \in over : fired'[i] = fired[i]]_vars

\* A timer that is not over keeps its number and its callback, whichever other
\* timers end around it, and a number with a timer that is over and not
\* running is about to be closed.  The close after the callback of a timer that
\* expires once hits nobody else, although the callback may have unscheduled
\* that timer and scheduled others.
OthersUndisturbed ==
    /\ \A i \in Timers : (handle[i] # NoFd /\ i \notin over) =>
          file[handle[i]] = i /\ entry[handle[i]] = i /\ handle[i] \notin closing
    /\ \A fd \in Fds : file[fd] \in over => fd \in closing \/ file[fd] = current

\* A timer that expires once is called in the end, unless it is unscheduled.
OnceFires ==
    \A i \in Timers \ Interval : handle[i] # NoFd ~> i \in over

\* What makes the first two inductive.  A number and the handle its timer was
\* given name one another.
HandlesAgree ==
    /\ \A i \in Timers : handle[i] = NoFd =>
          i \notin over /\ i # current /\ \A fd \in Fds : file[fd] # i
    /\ \A fd \in Fds : file[fd] \in Timers => handle[file[fd]] = fd
\* A callback is registered for the timer its number stands for, and outlives
\* the timer only while it runs for the last time.
RegisteredIsAlive ==
    \A fd \in Fds : entry[fd] # NoTimer =>
        file[fd] = entry[fd] /\ (entry[fd] \in over => entry[fd] = current)
ClosingIsOver == \A fd \in closing : entry[fd] = NoTimer /\ file[fd] \in over
\* A timer that is over and whose number is not about to be closed is one that
\* expires once and is running, and has not been unscheduled.
OverIsClosed ==
    \A fd \in Fds : file[fd] \in over =>
        fd \in closing \/ (file[fd] = current /\ current \notin Interval /\ entry[fd] = current)
\* Callbacks run in a batch, and one that expires once is over and still has
\* its number, even if it has unscheduled itself.
RunsInBatch ==
    current # NoTimer =>
        /\ inBatch
        /\ current \in Interval \/ (current \in over /\ file[handle[current]] = current)
SchedulerInv ==
    /\ TypeOK /\ OthersUndisturbed
    /\ HandlesAgree /\ RegisteredIsAlive /\ ClosingIsOver /\ OverIsClosed /\ RunsInBatch
=============================================================================
