---------------------------- MODULE EventManager ----------------------------
(***************************************************************************)
(* The reactor of mixin_handler (EventManager.h, EventManager.cpp): the    *)
(* table _fds of callbacks per descriptor, the epoll set it has to agree   *)
(* with, the keys of _write_buf, the deferred closes _close_fds, and       *)
(* handle_events, which works off a batch of events while the callbacks it *)
(* runs change all of these.                                               *)
(*                                                                         *)
(* A callback is user code: while one runs (stack is not empty), and while *)
(* the program is set up before event_loop, any operation of the interface *)
(* may be called on any descriptor the user still owns.  A callback that   *)
(* is called from inside unwatch or close, which may go on afterwards,     *)
(* leaves a frame on stack that says what is still to be done.             *)
(*                                                                         *)
(* Descriptor numbers are reused by the kernel; conn tells which open file *)
(* a number stands for.  _close_fds is a set here: a number that is closed *)
(* twice in the final loop of handle_events is closed twice in a row.      *)
(* The EPOLLET bit is left out: any registered event may be delivered at   *)
(* any time.  TLS descriptors (_fd_ssl) are left out.                      *)
(*                                                                         *)
(* Callbacks may also watch, write to or close a number whose close is     *)
(* pending already; the entry that _fds gets for it then outlives the      *)
(* file.  late is the set of numbers with such an entry.                   *)
(***************************************************************************)
EXTENDS Naturals, Sequences

CONSTANTS
    Fds,        \* descriptor numbers
    MaxConn,    \* bound on the files opened in a behaviour
    MaxDepth,   \* bound on the nesting of callbacks
    CbSets,     \* the sets of events users pass to watch
    Events,     \* the single events users pass to watch
    FlagSets    \* the combinations of flags epoll_wait reports

EventType == {"CONNECT", "READ", "WRITE", "ERROR", "CLOSE"}
Flags == {"IN", "OUT", "RDHUP", "HUP", "ERR"}
Conns == 1..MaxConn
NoFd == 0           \* _current_fd = -1
NoConn == 0

ASSUME FdsAssumption == Fds \subseteq Nat \ {NoFd}
ASSUME BoundsAssumption == MaxConn \in Nat /\ MaxDepth \in Nat
ASSUME CbSetsAssumption == CbSets \subseteq SUBSET EventType
ASSUME EventsAssumption == Events \subseteq EventType \ {"CONNECT"}
ASSUME FlagSetsAssumption == \A f \in FlagSets : f \subseteq Flags /\ f # {}

VARIABLES
    conn,       \* kernel: the open file a number stands for, or NoConn
    nconn,      \* how many files have been opened
    epoll,      \* kernel: events armed per number; {} is not in the set
    fds,        \* the keys of _fds
    cb,         \* the events _fds[fd] has a callback for
    owner,      \* history: the file fd stood for when _fds[fd] was set
    late,       \* history: _fds[fd] was made while the close of fd was pending
    write_buf,  \* the keys of _write_buf
    close_fds,  \* _close_fds
    ready,      \* what is left of the batch returned by epoll_wait
    gathered,   \* history: the file fd stood for when epoll_wait returned
    current_fd, \* _current_fd
    current_cb, \* _current_cb
    flags,      \* the local of handle_events
    stage,      \* where event_loop / handle_events is
    stack,      \* the callbacks that are running, innermost last
    due,        \* history: callbacks registered in time and not yet called
    calls       \* history: how often they were called since, up to 2

kernel == <<conn, nconn>>
table == <<epoll, fds, cb, owner, late>>
loop == <<ready, gathered, current_fd, flags, stage>>
history == <<due, calls>>
vars == <<kernel, table, write_buf, close_fds, loop, current_cb, stack, history>>

Stages == {"setup", "check", "epoll_wait", "pick", "connect", "read", "out",
           "err", "hup", "exited", "died"}
\* The stages at which one event of the batch is being handled.
Dispatching == {"connect", "read", "out", "err", "hup"}
Tracked == {"CONNECT", "CLOSE"}
Frames == [then : {"return"}, fd : {NoFd}, close_cb : {FALSE}, late : {FALSE}]
          \union [then : {"add_close"}, fd : Fds, close_cb : BOOLEAN, late : BOOLEAN]
Return == [then |-> "return", fd |-> NoFd, close_cb |-> FALSE, late |-> FALSE]

TypeOK ==
    /\ nconn \in 0..MaxConn
    /\ conn \in [Fds -> 0..nconn]
    /\ epoll \in [Fds -> SUBSET Flags]
    /\ fds \subseteq Fds
    /\ cb \in [Fds -> SUBSET EventType]
    /\ owner \in [Fds -> 0..nconn]
    /\ late \subseteq fds
    /\ write_buf \subseteq Fds
    /\ close_fds \subseteq Fds
    /\ ready \in [Fds -> SUBSET Flags]
    /\ gathered \in [Fds -> 0..nconn]
    /\ current_fd \in Fds \union {NoFd}
    /\ current_cb \in SUBSET EventType
    /\ flags \in SUBSET Flags
    /\ stage \in Stages
    /\ stage \in Dispatching => current_fd \in Fds
    /\ stack \in Seq(Frames)
    /\ due \in [Conns -> SUBSET Tracked]
    /\ calls \in [Conns -> [Tracked -> 0..2]]

Init ==
    /\ conn = [fd \in Fds |-> NoConn]
    /\ nconn = 0
    /\ epoll = [fd \in Fds |-> {}]
    /\ fds = {}
    /\ cb = [fd \in Fds |-> {}]
    /\ owner = [fd \in Fds |-> NoConn]
    /\ late = {}
    /\ write_buf = {}
    /\ close_fds = {}
    /\ ready = [fd \in Fds |-> {}]
    /\ gathered = [fd \in Fds |-> NoConn]
    /\ current_fd = NoFd
    /\ current_cb = {}
    /\ flags = {}
    /\ stage = "setup"
    /\ stack = <<>>
    /\ due = [c \in Conns |-> {}]
    /\ calls = [c \in Conns |-> [e \in Tracked |-> 0]]

-----------------------------------------------------------------------------
(* Calling back.                                                           *)

Running == stage \notin {"exited", "died"}

\* User code runs: before event_loop, or inside a callback.
UserCode == Running /\ (stage = "setup" \/ stack # <<>>)

\* handle_events itself is at stage s: every callback it called has returned.
LoopAt(s) == stage = s /\ stack = <<>>

\* A user callback is called; frame says what happens after it.
Call(frame) ==
    /\ Len(stack) < MaxDepth
    /\ stack' = Append(stack, frame)

\* History: the callback for event e of file c is called.  Callbacks that were
\* registered too late (tardy) are not followed.
Count(c, e, tardy) ==
    calls' = IF tardy THEN calls
             ELSE [calls EXCEPT ![c][e] = IF @ = 2 THEN 2 ELSE @ + 1]
Called(c, e, tardy) ==
    /\ due' = IF tardy THEN due ELSE [due EXCEPT ![c] = @ \ {e}]
    /\ Count(c, e, tardy)

-----------------------------------------------------------------------------
(* The table and the epoll set.                                            *)

\* The events _epoll_update asks for, given the callbacks and _has_write_buf.
\* The kernel adds EPOLLERR and EPOLLHUP to every entry.
Interest(E, buffered) ==
    {"ERR", "HUP"}
    \union (IF "READ" \in E THEN {"IN"} ELSE {})
    \union (IF "WRITE" \in E \/ "CONNECT" \in E \/ buffered THEN {"OUT"} ELSE {})
    \union (IF "CLOSE" \in E THEN {"RDHUP"} ELSE {})

\* epoll_ctl fails with ENOENT, EEXIST or EBADF and changes nothing if the
\* number is not, or is already, in the set, or is not open.
EpollCtlWorks(op, fd) ==
    \/ op = "MOD" /\ epoll[fd] # {}
    \/ op = "ADD" /\ epoll[fd] = {} /\ conn[fd] # NoConn

\* The user has given fd up: its close is pending, or close waits for a
\* GAME_OVER callback to return before it adds fd to _close_fds.
InStack(fd) == \E i \in DOMAIN stack : stack[i].fd = fd
Closing(fd) == fd \in close_fds \/ InStack(fd)

\* _epoll_update: _fds[fd] creates an entry if there was none.
_epoll_update(op, fd, E, buffered) ==
    /\ fds' = fds \union {fd}
    /\ cb' = [cb EXCEPT ![fd] = E]
    /\ epoll' = IF EpollCtlWorks(op, fd)
                THEN [epoll EXCEPT ![fd] = Interest(E, buffered)]
                ELSE epoll
    /\ late' = IF op = "MOD" THEN late
               ELSE IF Closing(fd) THEN late \union {fd} ELSE late \ {fd}

AddOrMod(fd) == IF fd \in fds THEN "MOD" ELSE "ADD"

\* Mutant: EPOLLOUT is armed for a WRITE callback only, not for _write_buf.
auto_rewatch_without_buffer(fd, buffered) ==
    /\ _epoll_update(AddOrMod(fd), fd, cb[fd], FALSE)
    /\ owner' = IF fd \in fds THEN owner ELSE [owner EXCEPT ![fd] = conn[fd]]

\* auto_rewatch: the same callbacks, with or without EPOLLOUT.  An entry it
\* has to create is empty.
auto_rewatch(fd, buffered) ==
    /\ _epoll_update(AddOrMod(fd), fd, cb[fd], buffered)
    /\ owner' = IF fd \in fds THEN owner ELSE [owner EXCEPT ![fd] = conn[fd]]

\* unwatch up to the callback: out of the table and of the epoll set.  DEL
\* of a number that is not in the set ends the process, see error_exit.
erase(fd) ==
    /\ epoll[fd] # {}
    /\ fds' = fds \ {fd}
    /\ cb' = [cb EXCEPT ![fd] = {}]
    /\ epoll' = [epoll EXCEPT ![fd] = {}]
    /\ current_cb' = IF fd = current_fd THEN {} ELSE current_cb
    /\ owner' = [owner EXCEPT ![fd] = NoConn]
    /\ late' = late \ {fd}

-----------------------------------------------------------------------------
(* The interface.                                                          *)

\* socket, accept, timerfd_create: the kernel returns the lowest number that
\* is not in use.
Open ==
    /\ UserCode
    /\ nconn < MaxConn
    /\ \E fd \in Fds :
          /\ conn[fd] = NoConn
          /\ \A g \in Fds : conn[g] = NoConn => fd =< g
          /\ conn' = [conn EXCEPT ![fd] = nconn + 1]
    /\ nconn' = nconn + 1
    /\ UNCHANGED <<table, write_buf, close_fds, loop, current_cb, stack, history>>

\* History: the callbacks E of fd are registered anew, in time or too late.
Register(fd, E) ==
    /\ due' = IF fd \in late' THEN due
              ELSE [due EXCEPT ![conn[fd]] = cb'[fd] \intersect Tracked]
    /\ calls' = IF fd \in late' THEN calls
                ELSE [calls EXCEPT ![conn[fd]] =
                        [e \in Tracked |-> IF e \in E THEN 0 ELSE @[e]]]

\* watch(fd, event, callback): one more event for fd.
watch_event(fd, e) ==
    /\ UserCode
    /\ conn[fd] # NoConn
    /\ _epoll_update(AddOrMod(fd), fd, cb[fd] \union {e}, fd \in write_buf)
    /\ owner' = IF fd \in fds THEN owner ELSE [owner EXCEPT ![fd] = conn[fd]]
    /\ current_cb' = IF fd = current_fd THEN current_cb \union {e} ELSE current_cb
    /\ Register(fd, {e})
    /\ UNCHANGED <<kernel, write_buf, close_fds, loop, stack>>

\* watch(fd, callbacks, re_watch): the callbacks of fd are replaced.  By the
\* comments at its declaration and in its body, re_watch is for numbers that
\* are not in the epoll set and not being dispatched.
watch(fd, E, re_watch) ==
    /\ UserCode
    /\ conn[fd] # NoConn
    /\ re_watch => epoll[fd] = {} /\ fd # current_fd
    /\ _epoll_update(IF re_watch THEN "ADD" ELSE AddOrMod(fd), fd, E, fd \in write_buf)
    /\ owner' = [owner EXCEPT ![fd] = conn[fd]]
    /\ current_cb' = IF fd = current_fd THEN E ELSE current_cb
    /\ Register(fd, E)
    /\ UNCHANGED <<kernel, write_buf, close_fds, loop, stack>>

\* History: whoever unwatches fd gives the callbacks of its entry up.
Dropped(fd) ==
    due' = IF fd \in late THEN due ELSE [due EXCEPT ![owner[fd]] = {}]

\* unwatch: a CONNECT callback that is still waiting is told GAME_OVER,
\* unless the caller does that itself.
unwatch(fd, no_callback) ==
    /\ UserCode
    /\ fd \in fds /\ conn[fd] # NoConn
    /\ erase(fd)
    /\ IF "CONNECT" \in cb[fd] /\ ~no_callback
       THEN Call(Return) /\ Count(owner[fd], "CONNECT", fd \in late)
       ELSE UNCHANGED <<stack, calls>>
    /\ Dropped(fd)
    /\ UNCHANGED <<kernel, write_buf, close_fds, loop>>

\* Mutant: the GAME_OVER callback is forgotten when a close unwatches.
unwatch_and_close_silently(fd, close_cb) ==
    /\ erase(fd)
    /\ close_fds' = close_fds \union {fd}
    /\ IF close_cb
       THEN Call(Return) /\ Called(owner[fd], "CLOSE", fd \in late)
       ELSE UNCHANGED <<stack, due, calls>>

\* unwatch as part of a close, then _add_close_fd and the CLOSE callback.  A
\* GAME_OVER callback runs before fd is added.
unwatch_and_close(fd, close_cb) ==
    /\ erase(fd)
    /\ IF "CONNECT" \in cb[fd]
       THEN /\ Call([then |-> "add_close", fd |-> fd, close_cb |-> close_cb,
                      late |-> fd \in late])
            /\ Called(owner[fd], "CONNECT", fd \in late)
            /\ UNCHANGED close_fds
       ELSE /\ close_fds' = close_fds \union {fd}
            /\ IF close_cb
               THEN Call(Return) /\ Called(owner[fd], "CLOSE", fd \in late)
               ELSE UNCHANGED <<stack, due, calls>>

\* Mutant: the number is given back to the kernel at once.
close_at_once(fd, force_close) ==
    /\ UserCode
    /\ conn[fd] # NoConn
    /\ write_buf' = write_buf \ {fd}
    /\ fd \in fds /\ "CONNECT" \notin cb[fd] /\ erase(fd)
    /\ conn' = [conn EXCEPT ![fd] = NoConn]
    /\ IF "CLOSE" \in cb[fd]
       THEN Call(Return) /\ Called(owner[fd], "CLOSE", fd \in late)
       ELSE UNCHANGED <<stack, history>>
    /\ UNCHANGED <<nconn, close_fds, loop>>

\* close: the buffered bytes are dropped; a number that is not in the table
\* is closed only if force_close is set.
close(fd, force_close) ==
    /\ UserCode
    /\ conn[fd] # NoConn
    /\ write_buf' = write_buf \ {fd}
    /\ \/ /\ fd \in fds
          /\ unwatch_and_close(fd, "CLOSE" \in cb[fd])
       \/ /\ fd \notin fds
          /\ close_fds' = IF force_close THEN close_fds \union {fd} ELSE close_fds
          /\ UNCHANGED <<table, current_cb, stack, history>>
    /\ UNCHANGED <<kernel, loop>>

\* write to a socket whose buffer is full: the rest goes to _write_buf and
\* auto_rewatch arms EPOLLOUT.  (A write that is taken whole, one that is
\* appended to bytes already buffered and one that fails with an error other
\* than EPIPE leave the state of this module as it is.)
write_again(fd) ==
    /\ UserCode
    /\ conn[fd] # NoConn /\ fd \notin write_buf
    /\ write_buf' = write_buf \union {fd}
    /\ auto_rewatch(fd, TRUE)
    /\ UNCHANGED <<kernel, close_fds, loop, current_cb, stack, history>>

\* write fails with EPIPE: close(fd).
write_epipe(fd) == fd \notin write_buf /\ close(fd, FALSE)

\* ON_FORK in the child, which goes on to event_loop: a new epoll set with
\* every key of _fds.
on_fork ==
    /\ LoopAt("setup")
    /\ epoll' = [fd \in Fds |-> IF fd \in fds THEN Interest(cb[fd], fd \in write_buf)
                                ELSE {}]
    /\ UNCHANGED <<kernel, fds, cb, owner, late, write_buf, close_fds, loop, current_cb,
                   stack, history>>

\* The process ends: unwatch finds that DEL fails.
error_exit ==
    /\ UserCode
    /\ \E fd \in fds : conn[fd] # NoConn /\ epoll[fd] = {}
    /\ stage' = "died"
    /\ UNCHANGED <<kernel, table, write_buf, close_fds, ready, gathered, current_fd,
                   flags, current_cb, stack, history>>

\* A callback returns to whoever called it.
callback_returns ==
    /\ Running /\ stack # <<>>
    /\ LET top == stack[Len(stack)]
           rest == SubSeq(stack, 1, Len(stack) - 1)
       IN  \/ /\ top.then = "return"
              /\ stack' = rest
              /\ UNCHANGED <<close_fds, history>>
           \/ /\ top.then = "add_close"
              /\ close_fds' = close_fds \union {top.fd}
              /\ IF top.close_cb
                 THEN /\ stack' = Append(rest, Return)
                      /\ Called(conn[top.fd], "CLOSE", top.late)
                 ELSE stack' = rest /\ UNCHANGED history
    /\ UNCHANGED <<kernel, table, write_buf, loop, current_cb>>

-----------------------------------------------------------------------------
(* event_loop and handle_events.                                           *)

\* event_loop is called, or goes round; S_exit may have been set.
event_loop(next) ==
    /\ \/ LoopAt("setup") /\ next = "check"
       \/ LoopAt("check") /\ next \in {"epoll_wait", "exited"}
    /\ stage' = next
    /\ UNCHANGED <<kernel, table, write_buf, close_fds, ready, gathered, current_fd,
                   flags, current_cb, stack, history>>

\* A report for fd: some of what is armed.
Report(fd) == {f \in FlagSets : f \subseteq epoll[fd]}

epoll_wait(batch) ==
    /\ LoopAt("epoll_wait")
    /\ \A fd \in Fds : batch[fd] = {} \/ batch[fd] \in Report(fd)
    /\ \E fd \in Fds : batch[fd] # {}
    /\ ready' = batch
    /\ gathered' = conn
    /\ stage' = "pick"
    /\ UNCHANGED <<kernel, table, write_buf, close_fds, current_fd, flags, current_cb,
                   stack, history>>

\* epoll_wait is interrupted by a signal: handle_events returns at once.
epoll_wait_eintr ==
    /\ LoopAt("epoll_wait")
    /\ stage' = "check"
    /\ UNCHANGED <<kernel, table, write_buf, close_fds, ready, gathered, current_fd,
                   flags, current_cb, stack, history>>

\* The next event of the batch; nothing is done for a number that an earlier
\* callback of the batch has taken out of the table.
next_event(fd) ==
    /\ LoopAt("pick")
    /\ ready[fd] # {}
    /\ ready' = [ready EXCEPT ![fd] = {}]
    /\ IF fd \in fds
       THEN current_fd' = fd /\ flags' = ready[fd] /\ current_cb' = cb[fd] /\ stage' = "connect"
       ELSE UNCHANGED <<current_fd, flags, current_cb, stage>>
    /\ UNCHANGED <<kernel, table, write_buf, close_fds, gathered, stack, history>>

Goto(s) == stage' = s /\ UNCHANGED <<ready, gathered, current_fd, flags>>

\* The event has been handled.  _current_fd, _current_cb and flags keep their
\* values in the code; they are not read again before the next event sets them.
NextOfBatch ==
    /\ stage' = "pick"
    /\ current_fd' = NoFd /\ current_cb' = {} /\ flags' = {}
    /\ UNCHANGED <<ready, gathered>>

\* Whatever is not there to be handled is passed over.
PassOver(s) ==
    /\ Goto(s)
    /\ UNCHANGED <<kernel, table, write_buf, close_fds, current_cb, stack, history>>

\* A callback of the current descriptor that handle_events calls directly.
CallCurrent ==
    /\ Call(Return)
    /\ UNCHANGED <<kernel, write_buf, close_fds>>

\* Mutant: CONNECT is erased from the copy only.
connect_ok_keeps_entry ==
    /\ LoopAt("connect")
    /\ "CONNECT" \in current_cb
    /\ "OUT" \in flags /\ flags \intersect {"ERR", "HUP"} = {}
    /\ current_cb' = current_cb \ {"CONNECT"}
    /\ CallCurrent
    /\ Called(owner[current_fd], "CONNECT", current_fd \in late)
    /\ Goto("read")
    /\ UNCHANGED table

connect_ok ==
    /\ LoopAt("connect")
    /\ "CONNECT" \in current_cb
    /\ "OUT" \in flags /\ flags \intersect {"ERR", "HUP"} = {}
    /\ cb' = [cb EXCEPT ![current_fd] = @ \ {"CONNECT"}]
    /\ current_cb' = current_cb \ {"CONNECT"}
    /\ CallCurrent
    /\ Called(owner[current_fd], "CONNECT", current_fd \in late)
    /\ Goto("read")
    /\ UNCHANGED <<epoll, fds, owner, late>>

\* The number is taken out but kept open for the callback to reuse; the rest
\* of the event is ignored.  SO_ERROR may be set whenever EPOLLOUT is.
connect_ng ==
    /\ LoopAt("connect")
    /\ "CONNECT" \in current_cb
    /\ erase(current_fd)
    /\ CallCurrent
    /\ Dropped(current_fd)
    /\ Count(owner[current_fd], "CONNECT", current_fd \in late)
    /\ NextOfBatch

no_connect == LoopAt("connect") /\ "CONNECT" \notin current_cb /\ PassOver("read")

read ==
    /\ LoopAt("read")
    /\ IF "IN" \in flags /\ "READ" \in current_cb
       THEN CallCurrent /\ Goto("out") /\ UNCHANGED <<table, current_cb, history>>
       ELSE PassOver("out")

\* The part of the EPOLLOUT branch that follows _finish_write_buf = true.
out_finished ==
    /\ write_buf' = write_buf \ {current_fd}
    /\ IF "WRITE" \in current_cb
       THEN Call(Return) /\ UNCHANGED table
       ELSE auto_rewatch(current_fd, FALSE) /\ UNCHANGED stack
    /\ UNCHANGED <<kernel, close_fds, current_cb, history>>

\* _finish_write_buf could not send everything: the rest is buffered again.
\* (write does not return EAGAIN on a socket that has failed.)
out_again ==
    /\ current_fd \in write_buf
    /\ flags \intersect {"ERR", "HUP"} = {}
    /\ UNCHANGED write_buf
    /\ auto_rewatch(current_fd, TRUE)
    /\ UNCHANGED <<kernel, close_fds, current_cb, stack, history>>

\* write fails inside _finish_write_buf: the bytes are gone, and with EPIPE
\* the descriptor is closed.
out_failed(epipe) ==
    /\ current_fd \in write_buf
    /\ write_buf' = write_buf \ {current_fd}
    /\ IF epipe /\ current_fd \in fds
       THEN unwatch_and_close(current_fd, "CLOSE" \in cb[current_fd])
       ELSE UNCHANGED <<table, close_fds, current_cb, stack, history>>
    /\ UNCHANGED kernel

out ==
    /\ LoopAt("out")
    /\ IF "OUT" \in flags
       THEN /\ \/ out_finished
               \/ out_again
               \/ \E epipe \in BOOLEAN : out_failed(epipe)
            /\ Goto("err")
       ELSE PassOver("err")

\* Without an ERROR callback an error is handled as a hang-up.
err ==
    /\ LoopAt("err")
    /\ IF "ERR" \in flags /\ "ERROR" \in current_cb
       THEN CallCurrent /\ Goto("hup") /\ UNCHANGED <<table, current_cb, history>>
       ELSE /\ flags' = IF "ERR" \in flags THEN flags \union {"HUP"} ELSE flags
            /\ stage' = "hup"
            /\ UNCHANGED <<kernel, table, write_buf, close_fds, ready, gathered,
                           current_fd, current_cb, stack, history>>

\* The peer has closed.  _write_buf is left as it is.
hup ==
    /\ LoopAt("hup")
    /\ IF flags \intersect {"RDHUP", "HUP"} # {} /\ current_fd \in fds
       THEN /\ unwatch_and_close(current_fd, "CLOSE" \in current_cb)
            /\ UNCHANGED <<kernel, write_buf>>
       ELSE UNCHANGED <<kernel, table, write_buf, close_fds, stack, history>>
    /\ NextOfBatch

\* The end of handle_events: the pending closes are made; the kernel drops a
\* closed file from the epoll set.  (A call for a file that is closed would be
\* one too many: calls is 1 from here on.)
close_pending ==
    /\ LoopAt("pick")
    /\ \A fd \in Fds : ready[fd] = {}
    /\ conn' = [fd \in Fds |-> IF fd \in close_fds THEN NoConn ELSE conn[fd]]
    /\ epoll' = [fd \in Fds |-> IF fd \in close_fds THEN {} ELSE epoll[fd]]
    /\ close_fds' = {}
    /\ stage' = "check"
    /\ gathered' = [fd \in Fds |-> NoConn]
    /\ calls' = [c \in Conns |-> IF \E fd \in close_fds : conn[fd] = c
                                 THEN [e \in Tracked |-> 1] ELSE calls[c]]
    /\ UNCHANGED <<nconn, fds, cb, owner, late, write_buf, ready, current_fd, flags,
                   current_cb, stack, due>>

\* event_loop has returned, or the process has ended.
stopped == ~Running /\ UNCHANGED vars

User ==
    \/ Open
    \/ \E fd \in Fds :
          \/ \E e \in Events : watch_event(fd, e)
          \/ \E E \in CbSets, re_watch \in BOOLEAN : watch(fd, E, re_watch)
          \/ \E no_callback \in BOOLEAN : unwatch(fd, no_callback)
          \/ \E force_close \in BOOLEAN : close(fd, force_close)
          \/ write_again(fd)
          \/ write_epipe(fd)
    \/ on_fork
    \/ error_exit
    \/ callback_returns

handle_events ==
    \/ \E fd \in Fds : next_event(fd)
    \/ connect_ok \/ connect_ng \/ no_connect
    \/ read \/ out \/ err \/ hup
    \/ close_pending

Next ==
    \/ User
    \/ \E s \in {"check", "epoll_wait", "exited"} : event_loop(s)
    \/ \E batch \in [Fds -> FlagSets \union {{}}] : epoll_wait(batch)
    \/ epoll_wait_eintr
    \/ handle_events
    \/ stopped

Spec == Init /\ [][Next]_vars

-----------------------------------------------------------------------------
(* Properties.                                                             *)

\* An event is dispatched only to callbacks that were registered for the very
\* file it was reported for: because close is deferred to the end of the
\* batch, a number cannot be reused while events of the batch still name it.
NoStaleDispatch ==
    stage \in Dispatching /\ current_cb # {}
        => owner[current_fd] = gathered[current_fd]

\* Why that holds, as an inductive invariant.  Only what is open and watched
\* for the file its number stands for is armed; what was open when the batch
\* was gathered still is; the events of the batch, the current one included,
\* are for such numbers; and before the loop everything watched is open.
Fresh(fd) == conn[fd] # NoConn /\ owner[fd] = conn[fd]
ArmedIsFresh == \A fd \in Fds : epoll[fd] # {} => fd \in fds /\ Fresh(fd)
BatchStaysOpen ==
    \A fd \in Fds : /\ gathered[fd] # NoConn => conn[fd] = gathered[fd]
                    /\ ready[fd] # {} => gathered[fd] # NoConn
BatchIsFresh == \A fd \in fds : ready[fd] # {} => Fresh(fd)
CurrentIsGathered ==
    stage \in Dispatching => /\ gathered[current_fd] # NoConn
                             /\ current_fd \in fds => Fresh(current_fd)
EntriesAgree ==
    /\ \A fd \in Fds \ fds : cb[fd] = {} /\ owner[fd] = NoConn
    /\ stage \notin Dispatching \union {"died"} => current_fd = NoFd
SetupIsFresh == stage = "setup" => \A fd \in fds : Fresh(fd)
\* The copy of the callbacks that handle_events works with is the entry.
CopyAgrees == stage \in Dispatching => current_cb = cb[current_fd]
DispatchInv ==
    /\ ArmedIsFresh /\ BatchStaysOpen /\ BatchIsFresh /\ CurrentIsGathered
    /\ EntriesAgree /\ SetupIsFresh /\ CopyAgrees /\ NoStaleDispatch

\* A CONNECT callback and a CLOSE callback are each called at most once after
\* they were registered, whatever callbacks call from inside of one another.
\* (A callback that is registered when the close of its number is pending is
\* not followed: it may be called by another close, or never.)
CalledAtMostOnce == \A c \in Conns, e \in Tracked : calls[c][e] =< 1

\* A CONNECT or CLOSE callback that has been registered in time and not yet
\* called is still in the table for its file, or is the next thing close will
\* call: it is never lost together with its descriptor.
NoCallbackLost ==
    \A c \in Conns : \A e \in due[c] :
        \/ \E fd \in fds \ late : conn[fd] = c /\ owner[fd] = c /\ e \in cb[fd]
        \/ /\ e = "CLOSE"
           /\ \E i \in DOMAIN stack : /\ stack[i].close_cb /\ ~stack[i].late
                                      /\ conn[stack[i].fd] = c

\* What is in the table, unless it was put there when the close of its number
\* was pending, is open and not being closed, belongs to the file its number
\* stands for, and is armed in the epoll set for everything it has a callback
\* or buffered bytes for: whatever callbacks and peers do, an entry goes wrong
\* in no other way.
TableMatchesKernel ==
    \A fd \in fds \ late :
        /\ Fresh(fd) /\ ~Closing(fd)
        /\ Interest(cb[fd], fd \in write_buf) \subseteq epoll[fd]

\* The inductive invariant behind CalledAtMostOnce and NoCallbackLost.  A file
\* has one number; a callback that may still be called was not called before;
\* and a close that waits for a GAME_OVER callback is for an open file, and
\* the only one of its number that is not late.
OneNumberPerFile ==
    \A f, g \in Fds : conn[f] # NoConn /\ conn[f] = conn[g] => f = g
NewIsUncalled == \A c \in Conns : c > nconn => \A e \in Tracked : calls[c][e] = 0
ConnectIsUncalled ==
    \A fd \in fds \ late : "CONNECT" \in cb[fd] => calls[conn[fd]]["CONNECT"] = 0
CloseIsUncalled ==
    \A fd \in Fds : conn[fd] # NoConn /\ ~Closing(fd) => calls[conn[fd]]["CLOSE"] = 0
FramesAgree ==
    \A i \in DOMAIN stack : stack[i].fd # NoFd =>
        /\ conn[stack[i].fd] # NoConn
        /\ stack[i].close_cb /\ ~stack[i].late => calls[conn[stack[i].fd]]["CLOSE"] = 0
        /\ ~stack[i].late =>
              \A j \in DOMAIN stack : stack[j].fd = stack[i].fd /\ ~stack[j].late => j = i
CallsInv ==
    /\ OneNumberPerFile /\ NewIsUncalled
    /\ ConnectIsUncalled /\ CloseIsUncalled /\ FramesAgree
    /\ CalledAtMostOnce /\ NoCallbackLost

\* A number that was last watched for the file it stands for is in the epoll
\* set: watch needs re_watch only for numbers that were closed behind the
\* EventManager's back.
WatchTakesEffect ==
    \A fd \in fds : owner[fd] = conn[fd] => epoll[fd] # {}
=============================================================================
