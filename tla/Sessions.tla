------------------------------ MODULE Sessions ------------------------------
(***************************************************************************)
(* The sessions and the worker processes of ClientServer.  A master gives  *)
(* every client it accepts a session id and opens a connection of its own  *)
(* to the next tier for it, on which the id goes first (Remote).  That     *)
(* tier is a child: a supervisor that keeps a number of worker processes,  *)
(* which share one listener.  A worker learns the id of a connection from  *)
(* its first bytes, runs the tasks that wait for it, and passes the rest   *)
(* on to the protocol.                                                     *)
(*                                                                         *)
(* The listener is the only thing two processes share, so a handler is one *)
(* action but for the accept loop, where each accept is.  A batch of       *)
(* events is one event long.  What a master sends on a connection is the   *)
(* tokens 1, 2, 3...: 1 and 2 are the halves of the id.                    *)
(***************************************************************************)
EXTENDS Naturals, Sequences, SequencesExt, FiniteSetsExt

CONSTANTS
    Masters,    \* the processes that number the sessions
    Workers,    \* the places of _worker_num worker processes
    Fds,        \* descriptor numbers of a worker
    MaxConn,    \* bound on the connections of a behaviour
    MaxToken,   \* bound on the tokens sent on a connection
    MaxKilled   \* bound on the workers that end for reasons outside of them

ASSUME SessionFds == Fds \subseteq Nat \ {0} /\ Fds # {}
ASSUME SessionBounds == MaxConn \in Nat /\ MaxToken \in Nat /\ MaxKilled \in Nat

NoFd == 0
NoConn == 0
NoSession == 0
Conns == 1..MaxConn

VARIABLES
    counter,    \* _session_id of each master
    session,    \* the session id of each connection that was made
    sent,       \* how many tokens the master has sent on each connection
    gone,       \* the connections that one side has closed
    backlog,    \* kernel: the connections nobody has accepted
    nread,      \* how many tokens a worker has read from each connection
    given,      \* the tokens that were given to the protocol
    passed,     \* the ids that tasks have sent on for each connection
    tasked,     \* the connections whose task was added
    nkilled,    \* how many workers have ended for such a reason
    proc        \* the worker processes

vars == <<counter, session, sent, gone, backlog, nread, given, passed, tasked,
          nkilled, proc>>

forked_with_epoll_set(waiting) ==
    [up        |-> TRUE,
     ready     |-> FALSE,
     accepting |-> FALSE,
     conn      |-> [fd \in Fds |-> NoConn],
     cb        |-> [fd \in Fds |-> "none"],
     c2s       |-> [fd \in Fds |-> NoSession],
     s2c       |-> [s \in Conns |-> NoFd],
     tasks     |-> [fd \in Fds |-> 0],
     buf       |-> [fd \in Fds |-> <<>>]]

\* A worker after the fork: the supervisor has no connection to hand on.
\* ON_FORK makes an epoll set of the worker's own and adds the listener to it,
\* edge triggered from now on, so that a backlog is reported at once.
forked(waiting) ==
    [up        |-> TRUE,
     ready     |-> waiting # <<>>,                  \* the listener is reported
     accepting |-> FALSE,                           \* is in the accept loop
     conn      |-> [fd \in Fds |-> NoConn],         \* what each number stands for
     cb        |-> [fd \in Fds |-> "none"],         \* the READ callback in _fds
     c2s       |-> [fd \in Fds |-> NoSession],
     s2c       |-> [s \in Conns |-> NoFd],
     tasks     |-> [fd \in Fds |-> 0],              \* how many wait
     buf       |-> [fd \in Fds |-> <<>>]]

Init ==
    /\ counter = [m \in Masters |-> 0]
    /\ session = <<>>
    /\ sent = [k \in Conns |-> 0]
    /\ gone = {}
    /\ backlog = <<>>
    /\ nread = [k \in Conns |-> 0]
    /\ given = [k \in Conns |-> <<>>]
    /\ passed = [k \in Conns |-> <<>>]
    /\ tasked = {}
    /\ nkilled = 0
    /\ proc = [w \in Workers |-> forked(<<>>)]

-----------------------------------------------------------------------------
(* A master.                                                               *)

\* ClientServer::accept in a master: the client gets the next id.
numbered(m) ==
    /\ counter' = [counter EXCEPT ![m] = @ + 1]
    /\ session' = Append(session, counter'[m])

\* Remote::on_connect: the connection that is made for the client waits to be
\* accepted, and makes the listener ready in the epoll set of every worker.
ClientArrives(m) ==
    LET k == Len(session) + 1 IN
    /\ k =< MaxConn
    /\ numbered(m)
    /\ backlog' = Append(backlog, k)
    /\ proc' = [w \in Workers |-> [proc[w] EXCEPT !.ready = @ \/ proc[w].up]]
    /\ UNCHANGED <<sent, gone, nread, given, passed, tasked, nkilled>>

\* The CONNECT callback comes later, when a worker may have accepted already,
\* and writes the id.
on_remote_connect(k) ==
    /\ k \in DOMAIN session /\ k \notin gone
    /\ sent[k] = 0
    /\ sent' = [sent EXCEPT ![k] = 2]
    /\ UNCHANGED <<counter, session, gone, backlog, nread, given, passed, tasked, nkilled, proc>>

MasterSends(k) ==
    /\ k \in DOMAIN session /\ k \notin gone
    /\ sent[k] \in 2..(MaxToken - 1)
    /\ sent' = [sent EXCEPT ![k] = @ + 1]
    /\ UNCHANGED <<counter, session, gone, backlog, nread, given, passed, tasked, nkilled, proc>>

\* The client of the master has gone, before the id was written or afterwards.
MasterCloses(k) ==
    /\ k \in DOMAIN session /\ k \notin gone
    /\ gone' = gone \union {k}
    /\ UNCHANGED <<counter, session, sent, backlog, nread, given, passed, tasked, nkilled, proc>>

-----------------------------------------------------------------------------
(* The processes of the next tier.                                         *)

Open(p) == {p.conn[fd] : fd \in Fds} \ {NoConn}

\* What has passed through the connections ks, which are closed, is forgotten.
Forget(ks) ==
    /\ sent' = [k \in Conns |-> IF k \in ks THEN 0 ELSE sent[k]]
    /\ nread' = [k \in Conns |-> IF k \in ks THEN 0 ELSE nread[k]]
    /\ given' = [k \in Conns |-> IF k \in ks THEN <<>> ELSE given[k]]
    /\ passed' = [k \in Conns |-> IF k \in ks THEN <<>> ELSE passed[k]]
    /\ tasked' = tasked \ ks

\* A process ends: the kernel closes what it had.
Ends(w) ==
    /\ proc' = [proc EXCEPT ![w] = [forked(<<>>) EXCEPT !.up = FALSE]]
    /\ gone' = gone \union Open(proc[w])
    /\ Forget(Open(proc[w]))

killed(w) ==
    /\ proc[w].up /\ nkilled < MaxKilled
    /\ nkilled' = nkilled + 1
    /\ Ends(w)
    /\ UNCHANGED <<counter, session, backlog>>

\* waitpid has a worker that ended: another one is forked.
supervise_subprocess(w) ==
    /\ ~ proc[w].up
    /\ proc' = [proc EXCEPT ![w] = forked(backlog)]
    /\ UNCHANGED <<counter, session, sent, gone, backlog, nread, given, passed, tasked, nkilled>>

\* epoll_wait reports the listener, once.
wakes(w) ==
    /\ proc[w].up /\ proc[w].ready /\ ~ proc[w].accepting
    /\ proc' = [proc EXCEPT ![w].ready = FALSE, ![w].accepting = TRUE]
    /\ UNCHANGED <<counter, session, sent, gone, backlog, nread, given, passed, tasked, nkilled>>

Free(p) == {fd \in Fds : p.conn[fd] = NoConn}

\* One round of the loop of to_callbacks.
accept(w) ==
    LET p == proc[w]
        fd == Min(Free(p))
    IN  /\ p.up /\ p.accepting
        /\ backlog # <<>> /\ Free(p) # {}
        /\ proc' = [proc EXCEPT ![w].conn[fd] = Head(backlog), ![w].cb[fd] = "initial"]
        /\ backlog' = Tail(backlog)
        /\ UNCHANGED <<counter, session, sent, gone, nread, given, passed, tasked, nkilled>>

\* EAGAIN: another process was quicker, or the last one was taken.
accept_ends(w) ==
    /\ proc[w].up /\ proc[w].accepting /\ backlog = <<>>
    /\ proc' = [proc EXCEPT ![w].accepting = FALSE]
    /\ UNCHANGED <<counter, session, sent, gone, backlog, nread, given, passed, tasked, nkilled>>

\* Any other error ends the process: the connection was given up while it
\* waited, or there is no number left for it, in this process or in the
\* system; then it goes on waiting.
accept_fails(w) ==
    LET p == proc[w] IN
    /\ p.up /\ p.accepting /\ backlog # <<>>
    /\ \/ /\ Head(backlog) \in gone
          /\ backlog' = Tail(backlog)
          /\ UNCHANGED nkilled
       \/ /\ Free(p) = {} \/ nkilled < MaxKilled
          /\ nkilled' = IF Free(p) = {} THEN nkilled ELSE nkilled + 1
          /\ UNCHANGED backlog
    /\ Ends(w)
    /\ UNCHANGED <<counter, session>>

-----------------------------------------------------------------------------
(* A connection of a worker.                                               *)

Idle(w, fd) == proc[w].up /\ ~ proc[w].accepting /\ proc[w].cb[fd] # "none"

\* get_session_id and send_session_id: nothing is sent without an id.
send_session_id(p, fd) == IF p.c2s[fd] = NoSession THEN <<>> ELSE <<p.c2s[fd]>>

Halves == <<1, 2>>

\* The tables and what is left of the message; the id is known then or there
\* is too little of it.
recv_session_id(p, fd, tokens) ==
    LET message == p.buf[fd] \o tokens
        s == IF IsPrefix(Halves, message) THEN session[p.conn[fd]] ELSE NoSession
        known == [p EXCEPT !.buf[fd] = <<>>, !.c2s[fd] = s, !.s2c[s] = fd]
    IN  IF Len(message) < 2 THEN <<[p EXCEPT !.buf[fd] = message], message>>
        ELSE <<known, SubSeq(message, 3, Len(message))>>

\* READ while initial_message_wrapper is the callback: once the id is known
\* the waiting tasks run, and the protocol takes over.
initial_message(w, fd, n) ==
    LET p == proc[w]
        k == p.conn[fd]
        r == recv_session_id(p, fd, [i \in 1..n |-> nread[k] + i])
        q == r[1]
    IN  /\ p.cb[fd] = "initial"
        /\ nread' = [nread EXCEPT ![k] = @ + n]
        /\ IF q.c2s[fd] = NoSession
           THEN /\ proc' = [proc EXCEPT ![w] = q]
                /\ UNCHANGED <<given, passed>>
           ELSE /\ proc' = [proc EXCEPT ![w] = [q EXCEPT !.tasks[fd] = 0, !.cb[fd] = "protocol"]]
                /\ given' = [given EXCEPT ![k] = @ \o r[2]]
                /\ passed' = [passed EXCEPT ![k] =
                                 @ \o FlattenSeq([i \in 1..q.tasks[fd] |-> send_session_id(q, fd)])]
        /\ UNCHANGED <<counter, session, sent, gone, backlog, tasked, nkilled>>

\* READ afterwards.
on_message(w, fd, n) ==
    LET k == proc[w].conn[fd] IN
    /\ proc[w].cb[fd] = "protocol"
    /\ nread' = [nread EXCEPT ![k] = @ + n]
    /\ given' = [given EXCEPT ![k] = @ \o [i \in 1..n |-> nread[k] + i]]
    /\ UNCHANGED <<counter, session, sent, gone, backlog, passed, tasked, nkilled, proc>>

\* The protocol of the worker, when it has a connection of its own for the
\* client, wants to send the id on.
add_session_task(w, fd) ==
    LET p == proc[w]
        k == p.conn[fd]
    IN  /\ Idle(w, fd) /\ k \notin tasked
        /\ tasked' = tasked \union {k}
        /\ IF p.c2s[fd] = NoSession
           THEN /\ proc' = [proc EXCEPT ![w].tasks[fd] = @ + 1]
                /\ UNCHANGED passed
           ELSE /\ passed' = [passed EXCEPT ![k] = @ \o send_session_id(p, fd)]
                /\ UNCHANGED proc
        /\ UNCHANGED <<counter, session, sent, gone, backlog, nread, given, nkilled>>

\* Mutants: one of the four tables is left as it is.
unwatch_keeps_client(p, fd) ==
    [p EXCEPT !.cb[fd] = "none", !.c2s[fd] = NoSession, !.tasks[fd] = 0, !.buf[fd] = <<>>]

unwatch_keeps_tasks(p, fd) ==
    [p EXCEPT !.cb[fd] = "none", !.c2s[fd] = NoSession,
              !.s2c = [s \in Conns |-> IF s = p.c2s[fd] THEN NoFd ELSE @[s]],
              !.buf[fd] = <<>>]

unwatch_keeps_buf(p, fd) ==
    [p EXCEPT !.cb[fd] = "none", !.c2s[fd] = NoSession,
              !.s2c = [s \in Conns |-> IF s = p.c2s[fd] THEN NoFd ELSE @[s]],
              !.tasks[fd] = 0]

\* ClientServer::unwatch.
unwatch(p, fd) ==
    [p EXCEPT !.cb[fd] = "none", !.c2s[fd] = NoSession,
              !.s2c = [s \in Conns |-> IF s = p.c2s[fd] THEN NoFd ELSE @[s]],
              !.tasks[fd] = 0, !.buf[fd] = <<>>]

close(w, fd) ==
    LET p == proc[w]
        k == p.conn[fd]
    IN  /\ proc' = [proc EXCEPT ![w] = [unwatch(p, fd) EXCEPT !.conn[fd] = NoConn]]
        /\ gone' = gone \union {k}
        /\ Forget({k})
        /\ UNCHANGED <<counter, session, backlog, nkilled>>

\* The hangup of a connection is reported.  What was sent and not read is lost
\* when the connection was reset, half an id too.
HangsUp(w, fd) ==
    /\ Idle(w, fd) /\ proc[w].conn[fd] \in gone
    /\ close(w, fd)

\* The protocol closes a client: its own connection for it has failed or was
\* closed, whether the id was there or the task that sends it on still waits.
Closes(w, fd) ==
    /\ Idle(w, fd) /\ proc[w].conn[fd] \notin gone
    /\ close(w, fd)

\* With the port of the parent known (set_parent by host and port) the
\* connection is taken to be there; none is ever made.
connect_parent == NoFd

\* The number that what is written for session s goes to.  What would go
\* through the parent goes nowhere.
write_global(p, s) == IF p.s2c[s] # NoFd THEN p.s2c[s] ELSE connect_parent

-----------------------------------------------------------------------------
Reads(w, fd) ==
    /\ Idle(w, fd)
    /\ LET k == proc[w].conn[fd] IN
       \E n \in 1..(sent[k] - nread[k]) : initial_message(w, fd, n) \/ on_message(w, fd, n)


\* What a worker, or the supervisor in its place, does without being asked.
Runs(w) ==
    \/ supervise_subprocess(w)
    \/ wakes(w)
    \/ accept(w)
    \/ accept_ends(w)
    \/ accept_fails(w)
    \/ \E fd \in Fds : Reads(w, fd) \/ HangsUp(w, fd)

Next ==
    \/ \E m \in Masters : ClientArrives(m)
    \/ \E k \in Conns : on_remote_connect(k) \/ MasterSends(k) \/ MasterCloses(k)
    \/ \E w \in Workers :
          \/ Runs(w)
          \/ killed(w)
          \/ \E fd \in Fds : add_session_task(w, fd) \/ Closes(w, fd)

\* A process that can run is run by the kernel at some time, so that a worker
\* goes on, and the CONNECT callback of a master is called; nothing is assumed
\* of which of its events a worker takes first, of the clients and of the
\* protocol.
Spec ==
    /\ Init /\ [][Next]_vars
    /\ \A w \in Workers : WF_vars(Runs(w))
    /\ \A k \in Conns : WF_vars(on_remote_connect(k))

-----------------------------------------------------------------------------
(* Properties.                                                             *)

\* What a worker writes for a session goes to the connection of that session
\* and of no other, however often the numbers are used again; a connection
\* whose id was received can be written to, and knows the id.
SessionIsReached ==
    \A w \in Workers : proc[w].up =>
        LET p == proc[w] IN
        /\ \A s \in Conns : write_global(p, s) # NoFd =>
              LET fd == write_global(p, s) IN
              p.conn[fd] # NoConn /\ session[p.conn[fd]] = s /\ p.c2s[fd] = s
        /\ \A fd \in Fds : p.cb[fd] = "protocol" => write_global(p, p.c2s[fd]) = fd

\* The protocol gets what the client has sent, in order, from the first byte
\* after the id on, wherever the reads cut the stream; what has been read and
\* not given to it is an incomplete id, in the buffer of this connection.
GivenIsSent ==
    /\ \A k \in Conns : \A i \in DOMAIN given[k] : given[k][i] = i + 2
    /\ \A w \in Workers : proc[w].up => \A fd \in Fds :
          LET p == proc[w] IN
          CASE p.cb[fd] = "initial" -> Len(p.buf[fd]) = nread[p.conn[fd]]
            [] p.cb[fd] = "protocol" -> Len(given[p.conn[fd]]) = nread[p.conn[fd]] - 2
            [] OTHER -> p.buf[fd] = <<>>

\* "tasks that MUST be after recv_session_id succeeds": a task sends on the id
\* of the client it was added for, once, as soon as the id is there, whether
\* the task or the id came first; a task that waited for a client that has gone
\* is not run for the next one on its number.
TaskHasItsSession ==
    /\ \A k \in DOMAIN session :
          passed[k] \in {<<>>, <<session[k]>>} /\ (passed[k] # <<>> => k \in tasked)
    /\ \A w \in Workers : proc[w].up => \A fd \in Fds :
          LET p == proc[w] IN
          p.cb[fd] = "protocol" /\ p.conn[fd] \in tasked => passed[p.conn[fd]] # <<>>

\* Nobody waits for ever to be accepted, and a worker that has a connection
\* comes to know its session, even if the client never sends a byte (the
\* clients of a behaviour are finitely many): a wakeup is given once, the
\* worker that had it may end before it comes to accept, and the id may come
\* in two parts.
EveryoneIsServed ==
    LET Unknown == \E w \in Workers, fd \in Fds : proc[w].cb[fd] = "initial"
        Waits == backlog # <<>> \/ Unknown
    IN  Waits ~> ~ Waits

-----------------------------------------------------------------------------
(* The inductive invariant.                                                *)

Procs ==
    [up : BOOLEAN, ready : BOOLEAN, accepting : BOOLEAN,
     conn : [Fds -> Conns \union {NoConn}], cb : [Fds -> {"none", "initial", "protocol"}],
     c2s : [Fds -> Conns \union {NoSession}], s2c : [Conns -> Fds \union {NoFd}],
     tasks : [Fds -> Nat], buf : [Fds -> Seq(Nat)]]

TypeOK ==
    /\ counter \in [Masters -> Nat]
    /\ session \in Seq(Conns) /\ Len(session) =< MaxConn
    /\ sent \in [Conns -> Nat] /\ nread \in [Conns -> Nat]
    /\ gone \subseteq Conns /\ tasked \subseteq Conns
    /\ backlog \in Seq(Conns)
    /\ given \in [Conns -> Seq(Nat)] /\ passed \in [Conns -> Seq(Nat)]
    /\ nkilled \in Nat
    /\ proc \in [Workers -> Procs]

\* No master has given out more ids than there are connections.
CountersAgree == \A m \in Masters : counter[m] =< Len(session)

\* A connection is one number of one process, or waits, or neither.
HeldOnce ==
    /\ \A v, w \in Workers : \A f, g \in Fds :
          proc[v].conn[f] = proc[w].conn[g] /\ proc[v].conn[f] # NoConn => v = w /\ f = g
    /\ \A i, j \in 1..Len(backlog) : backlog[i] = backlog[j] => i = j
    /\ \A i \in 1..Len(backlog) :
          /\ backlog[i] =< Len(session)
          /\ \A w \in Workers, fd \in Fds : proc[w].conn[fd] # backlog[i]

\* Nothing has passed through a connection that no process has.
UnheldIsUntouched ==
    \A k \in Conns : (\A w \in Workers, fd \in Fds : proc[w].conn[fd] # k) =>
        nread[k] = 0 /\ given[k] = <<>> /\ passed[k] = <<>> /\ k \notin tasked

\* A process that has ended has nothing.
DownIsEmpty ==
    \A w \in Workers : ~ proc[w].up => \A fd \in Fds : proc[w].conn[fd] = NoConn

\* What a process knows about a number fits what has passed through its
\* connection: the id is incomplete and buffered, with the task waiting, or
\* known, with everything behind it given and the task done.
NumberFits(p, fd) ==
    LET k == p.conn[fd] IN
    \/ /\ p.cb[fd] = "none" /\ k = NoConn
       /\ p.c2s[fd] = NoSession /\ p.tasks[fd] = 0 /\ p.buf[fd] = <<>>
    \/ /\ p.cb[fd] = "initial" /\ k \in 1..Len(session)
       /\ p.c2s[fd] = NoSession /\ p.tasks[fd] = IF k \in tasked THEN 1 ELSE 0
       /\ nread[k] < 2 /\ Len(p.buf[fd]) = nread[k] /\ \A i \in 1..nread[k] : p.buf[fd][i] = i
       /\ given[k] = <<>> /\ passed[k] = <<>>
    \/ /\ p.cb[fd] = "protocol" /\ k \in 1..Len(session)
       /\ p.c2s[fd] = session[k] /\ p.tasks[fd] = 0 /\ p.buf[fd] = <<>>
       /\ nread[k] >= 2 /\ Len(given[k]) = nread[k] - 2
       /\ \A i \in 1..(nread[k] - 2) : given[k][i] = i + 2
       /\ passed[k] = IF k \in tasked THEN <<session[k]>> ELSE <<>>

NumbersFit == \A w \in Workers, fd \in Fds : NumberFits(proc[w], fd)

\* A session that is reached is the one of its connection.
ReachedIsKnown ==
    \A w \in Workers, s \in Conns : proc[w].s2c[s] # NoFd =>
        proc[w].cb[proc[w].s2c[s]] = "protocol" /\ proc[w].c2s[proc[w].s2c[s]] = s

SessionsInv ==
    /\ TypeOK
    /\ CountersAgree
    /\ HeldOnce
    /\ UnheldIsUntouched
    /\ DownIsEmpty
    /\ NumbersFit
    /\ ReachedIsKnown

\* With one master the ids are those of the connections, and every session
\* whose id was received is reached.
OneMasterInv ==
    /\ \A m \in Masters : counter[m] = Len(session)
    /\ \A k \in 1..Len(session) : session[k] = k
    /\ \A w \in Workers, fd \in Fds :
          proc[w].cb[fd] = "protocol" => proc[w].s2c[proc[w].c2s[fd]] = fd
=============================================================================
