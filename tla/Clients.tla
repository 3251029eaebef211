------------------------------ MODULE Clients -------------------------------
(***************************************************************************)
(* The clients of mixin_handler: C::Base, which keeps a connection to each *)
(* address and makes it anew when a write fails, the protocols P::Redis    *)
(* and P::Soa, which match replies with callbacks, in order or by id, and  *)
(* Client::wait.  The program sends requests and waits; events are handled *)
(* while it waits only, and a callback may send a request too.             *)
(*                                                                         *)
(* A request is a number, and stands for its reply.  How bytes become      *)
(* replies is the subject of Framing; a read brings some whole replies.    *)
(***************************************************************************)
EXTENDS Integers, Sequences, SequencesExt, FiniteSetsExt

CONSTANTS
    NAddr,      \* how many addresses the client has
    Fds,        \* descriptor numbers
    MaxConn,    \* bound on the connections of a behaviour
    MaxReq,     \* bound on the requests of a behaviour
    Awkward     \* what happens beyond the ordinary, see below

\* "partial": a request does not fit into the buffer of the socket;
\* "no_callback": a command is sent to Redis without a callback.
ASSUME ClientsFds == Fds \subseteq Nat \ {0}
ASSUME ClientsBounds == NAddr \in Nat \ {0} /\ MaxConn \in Nat /\ MaxReq \in Nat
ASSUME ClientsAwkward == Awkward \subseteq {"partial", "no_callback"}

NoFd == 0
NoConn == 0
Addrs == 1..NAddr      \* in the order of _connect_addr_list
Conns == 1..MaxConn
Requests == 1..MaxReq
Nobody == [asked |-> {}, left |-> {}, n |-> 0, total |-> 0]

VARIABLES
    proto,      \* "Redis" or "Soa"
    push,       \* a push callback was registered (Soa)
    waiting,    \* the program is inside of wait
    w,          \* what it waits for
    from,       \* the number on_message was called for
    got,        \* the replies it has yet to come to
    bare,       \* history: the requests that were sent without a callback
    came,       \* history: the replies on_message has come to in this wait
    t           \* the kernel, and the tables of the client

vars == <<proto, push, waiting, w, from, got, bare, came, t>>

Empty(first) ==
    [conn     |-> [fd \in Fds |-> NoConn],  \* kernel: what a number stands for
     peer     |-> <<>>,                     \* the address of each connection
     up       |-> {},                       \* the connections whose server is there
     todo     |-> [k \in Conns |-> <<>>],   \* what the server has not answered
     inbox    |-> [k \in Conns |-> <<>>],   \* replies on their way
     armed    |-> {},                       \* the numbers in the epoll set
     watched  |-> {},                       \* _fds
     closing  |-> {},                       \* _close_fds
     a2s      |-> [a \in Addrs |-> NoFd],   \* _addr2socket
     queue    |-> [fd \in Fds |-> <<>>],    \* _callbacks of Redis
     map      |-> [fd \in Fds |-> {}],      \* _callbacks of Soa
     nreq     |-> 0,
     rr       |-> first,                    \* _rr_index, which nothing sets
     dest     |-> [r \in Requests |-> 0],   \* the address a request is for
     heard    |-> [r \in Requests |-> <<>>],  \* what its callback got
     exited   |-> FALSE]

Init ==
    /\ proto \in {"Redis", "Soa"}
    /\ push \in {FALSE, proto = "Soa"}
    /\ waiting = FALSE
    /\ w = Nobody
    /\ from = NoFd /\ got = <<>>
    /\ bare = {} /\ came = {}
    /\ \E first \in 0..(NAddr - 1) : t = Empty(first)

Free(u) == {fd \in Fds : u.conn[fd] = NoConn}

-----------------------------------------------------------------------------
(* EventManager and C::Base.                                               *)

\* An entry that is there is only modified, which fails for a number that the
\* epoll set does not have.
watch(u, fd) ==
    [u EXCEPT !.watched = @ \union {fd},
              !.armed = IF fd \in u.watched THEN @ ELSE @ \union {fd}]

on_close_keeps_callbacks(u, fd) == u

\* P::Redis::on_close, P::Soa::on_close
on_close(u, fd) == [u EXCEPT !.queue[fd] = <<>>, !.map[fd] = {}]

\* EventManager::close.  unwatch ends the process if the epoll set does not
\* have the number.
close(u, fd, force) ==
    CASE fd \in u.watched /\ fd \notin u.armed -> [u EXCEPT !.exited = TRUE]
      [] fd \in u.watched /\ fd \in u.armed ->
           on_close([u EXCEPT !.watched = @ \ {fd}, !.armed = @ \ {fd},
                              !.closing = @ \union {fd}], fd)
      [] OTHER -> IF force THEN [u EXCEPT !.closing = @ \union {fd}] ELSE u

\* What a write may come to: the number is closed; the server is gone, which
\* is noticed now or later; or all is well.
WriteOutcomes(u, fd) ==
    CASE u.conn[fd] = NoConn -> {"EBADF"}
      [] u.conn[fd] # NoConn /\ u.conn[fd] \notin u.up -> {"lost", "EPIPE"}
      [] OTHER -> {"ok"} \union (Awkward \intersect {"partial"})

\* What does not fit goes out later.
write(u, fd, r, outcome) ==
    CASE outcome \in {"ok", "partial"} ->
           [u EXCEPT !.todo[u.conn[fd]] = Append(@, r)]
      [] outcome = "EPIPE" -> close(u, fd, FALSE)
      [] OTHER -> u

\* The synchronous connect of Base, which watches the new connection.
open(u, a) ==
    LET fd == Min(Free(u))
        k == Len(u.peer) + 1
    IN  [watch([u EXCEPT !.conn[fd] = k, !.peer = Append(@, a), !.up = @ \union {k}], fd)
            EXCEPT !.a2s[a] = fd]

\* Base::close: the entry goes, and with the connection what was in its
\* buffer.
close_addr(u, a) ==
    LET fd == u.a2s[a]
        k == IF fd = NoFd THEN NoConn ELSE u.conn[fd]
        v == IF k = NoConn THEN u ELSE [u EXCEPT !.todo[k] = <<>>, !.inbox[k] = <<>>]
    IN  IF fd = NoFd THEN u ELSE [close(v, fd, TRUE) EXCEPT !.a2s[a] = NoFd]

\* Base::connect.  `there' says whether a server takes the connection.
connect(u, a, re_connect, there) ==
    LET v == IF re_connect THEN close_addr(u, a) ELSE u IN
    IF v.a2s[a] # NoFd \/ ~ there \/ v.exited THEN v ELSE open(v, a)

\* P::Redis::add_callback, P::Soa::add_callback
add_callback(u, r, fd) ==
    IF proto = "Redis" THEN [u EXCEPT !.queue[fd] = Append(@, r)]
    ELSE [u EXCEPT !.map[fd] = @ \union {r}]

\* Base::cmd_addr: if the write fails, or does not take all, one more attempt
\* is made on a new connection.  The callback is added when a write has
\* succeeded.
cmd_addr(u, r, a, callback, there, outcomes) ==
    LET c == connect(u, a, FALSE, there)
        x == write(c, c.a2s[a], r, outcomes[1])
        d == connect(x, a, TRUE, there)
        y == write(d, d.a2s[a], r, outcomes[2])
        done == {"ok", "lost"}
    IN  CASE c.a2s[a] = NoFd -> c
          [] c.a2s[a] # NoFd /\ outcomes[1] \in done ->
               IF callback THEN add_callback(x, r, c.a2s[a]) ELSE x
          [] c.a2s[a] # NoFd /\ outcomes[1] \notin done /\ (d.exited \/ d.a2s[a] = NoFd) -> d
          [] OTHER -> IF callback /\ outcomes[2] \in done THEN add_callback(y, r, d.a2s[a]) ELSE y

\* The pairs of outcomes that two writes may have.
Outcomes(u, a, there) ==
    LET c == connect(u, a, FALSE, there) IN
    IF c.a2s[a] = NoFd THEN {<<"ok", "ok">>}
    ELSE WriteOutcomes(c, c.a2s[a]) \X ({"ok"} \union (Awkward \intersect {"partial"}))

\* _get_next_address: the addresses in turn.
_get_next_address(u) == (u.rr % NAddr) + 1

\* A request is made and has an address; then cmd_addr.
Request(u) ==
    [u EXCEPT !.nreq = @ + 1, !.rr = (@ + 1) % NAddr,
              !.dest[u.nreq + 1] = _get_next_address(u)]

-----------------------------------------------------------------------------
(* The protocols.                                                          *)

\* A callback sends a request over a connection that is in order.  (Over one
\* that is broken the write would erase the entry of _callbacks that
\* on_message holds an iterator to; what comes then is undefined.)
Nested(u) ==
    LET a == _get_next_address(u)
        r == u.nreq + 1
    IN  cmd_addr(Request(u), r, a, TRUE, TRUE, <<"ok", "ok">>)

MayNest(u) ==
    LET fd == u.a2s[_get_next_address(u)] IN
    u.nreq < MaxReq /\ fd # NoFd /\ u.conn[fd] \in u.up

\* A callback is called with a reply, and may send a request.
Calls(u, r, reply, nested) ==
    LET v == [u EXCEPT !.heard[r] = Append(@, reply)] IN
    IF nested THEN Nested(v) ELSE v

-----------------------------------------------------------------------------
(* The program.                                                            *)

Running == ~ t.exited

\* How many connections a command may make.
Attempts == IF "partial" \in Awkward THEN 2 ELSE 1

\* C::Base::cmd
cmd(callback, there, outcomes) ==
    LET a == _get_next_address(t)
        r == t.nreq + 1
    IN  /\ Running /\ ~ waiting /\ t.nreq < MaxReq
        /\ Len(t.peer) + Attempts =< MaxConn /\ Cardinality(Free(t)) >= Attempts
        /\ callback \/ proto = "Soa" \/ "no_callback" \in Awkward
        /\ outcomes \in Outcomes(t, a, there)
        /\ t' = cmd_addr(Request(t), r, a, callback, there, outcomes)
        /\ bare' = IF callback THEN bare ELSE bare \union {r}
        /\ UNCHANGED <<proto, push, waiting, w, from, got, came>>

\* wait for requests, or for n replies: nothing without a connection.
wait(asked, n) ==
    /\ Running /\ ~ waiting /\ t.watched # {}
    /\ (asked = {}) # (n = 0)
    /\ waiting' = TRUE
    /\ w' = [asked |-> asked, left |-> asked, n |-> n, total |-> n]
    /\ UNCHANGED <<proto, push, t, from, got, bare, came>>

\* The callbacks of ON_PACKET_OK that the two forms of wait attach.
Hook(v, r) == [v EXCEPT !.left = @ \ {r}, !.n = @ - (IF v.total = 0 THEN 0 ELSE 1)]
Over(v) == v.left = {} /\ v.n =< 0

-----------------------------------------------------------------------------
(* handle_events inside of wait: the events of a batch one after the       *)
(* other, a read one reply after the other.                                *)

Live(fd) ==
    /\ Running /\ waiting /\ got = <<>>
    /\ fd \in t.armed \intersect t.watched /\ t.conn[fd] # NoConn

\* Some replies are read and handed to on_message.
Reads(fd, n) ==
    LET k == t.conn[fd] IN
    /\ Live(fd) /\ n =< Len(t.inbox[k])
    /\ t' = [t EXCEPT !.inbox[k] = SubSeq(@, n + 1, Len(@))]
    /\ from' = fd /\ got' = SubSeq(t.inbox[k], 1, n)
    /\ UNCHANGED <<proto, push, waiting, w, bare, came>>

redis_reply_takes_last(nested) ==
    LET q == t.queue[from] IN
    /\ Running /\ proto = "Redis" /\ got # <<>>
    /\ nested => q # <<>> /\ MayNest(t)
    /\ IF q = <<>> THEN got' = <<>> /\ came' = came \union Range(got) /\ UNCHANGED <<w, t>>
       ELSE /\ t' = Calls([t EXCEPT !.queue[from] = Front(q)], Last(q), Head(got), nested)
            /\ w' = Hook(w, Last(q))
            /\ got' = Tail(got) /\ came' = came \union {Head(got)}
    /\ UNCHANGED <<proto, push, waiting, from, bare>>

\* One turn of the loop of P::Redis::on_message: the next callback has the
\* reply.  Without one the reply is dropped with all that came after it.
redis_reply(nested) ==
    LET q == t.queue[from] IN
    /\ Running /\ proto = "Redis" /\ got # <<>>
    /\ nested => q # <<>> /\ MayNest(t)
    /\ IF q = <<>> THEN got' = <<>> /\ came' = came \union Range(got) /\ UNCHANGED <<w, t>>
       ELSE /\ t' = Calls([t EXCEPT !.queue[from] = Tail(q)], Head(q), Head(got), nested)
            /\ w' = Hook(w, Head(q))
            /\ got' = Tail(got) /\ came' = came \union {Head(got)}
    /\ UNCHANGED <<proto, push, waiting, from, bare>>

\* One turn of the loop of P::Soa::on_message: the callback of the request
\* has the reply and is erased afterwards.
soa_reply(nested) ==
    LET r == Head(got)
        v == Calls(t, r, r, nested)
    IN  /\ Running /\ proto = "Soa" /\ got # <<>> /\ r \in t.map[from]
        /\ nested => MayNest(t)
        /\ t' = [v EXCEPT !.map[from] = @ \ {r}]
        /\ w' = Hook(w, r)
        /\ got' = Tail(got) /\ came' = came \union {r}
        /\ UNCHANGED <<proto, push, waiting, from, bare>>

soa_push_skips_hook(nested) ==
    LET r == Head(got) IN
    /\ Running /\ proto = "Soa" /\ got # <<>> /\ r \notin t.map[from]
    /\ nested => push /\ MayNest(t)
    /\ t' = IF push THEN Calls(t, r, r, nested) ELSE t
    /\ got' = Tail(got) /\ came' = came \union {r}
    /\ UNCHANGED <<proto, push, waiting, w, from, bare>>

\* The push callback has a reply that no callback waits for; without one
\* nobody is told.
soa_push(nested) ==
    LET r == Head(got) IN
    /\ Running /\ proto = "Soa" /\ got # <<>> /\ r \notin t.map[from]
    /\ nested => push /\ MayNest(t)
    /\ t' = IF push THEN Calls(t, r, r, nested) ELSE t
    /\ w' = IF push THEN Hook(w, r) ELSE w
    /\ got' = Tail(got) /\ came' = came \union {r}
    /\ UNCHANGED <<proto, push, waiting, from, bare>>

HangsUp(fd) ==
    /\ Live(fd) /\ t.conn[fd] \notin t.up /\ t.inbox[t.conn[fd]] = <<>>
    /\ t' = close(t, fd, FALSE)
    /\ UNCHANGED <<proto, push, waiting, w, from, got, bare, came>>

\* The end of a batch of events: what is to be closed is, and the wait is over
\* if all is there, or if its time is.
BatchEnds(time) ==
    /\ Running /\ waiting /\ got = <<>>
    /\ t' = [t EXCEPT !.conn = [fd \in Fds |-> IF fd \in t.closing THEN NoConn ELSE @[fd]],
                      !.armed = @ \ t.closing, !.closing = {}]
    /\ waiting' = ~ (time \/ Over(w))
    /\ IF waiting' THEN UNCHANGED <<w, bare, came>>
                   ELSE w' = Nobody /\ bare' = bare \ came /\ came' = {}
    /\ from' = NoFd
    /\ UNCHANGED <<proto, push, got>>

-----------------------------------------------------------------------------
(* The servers.  Redis answers in order.                                   *)

Answers(k, i) ==
    /\ k \in t.up /\ i =< Len(t.todo[k])
    /\ proto = "Redis" => i = 1
    /\ t' = [t EXCEPT !.todo[k] = RemoveAt(@, i), !.inbox[k] = Append(@, t.todo[k][i])]
    /\ UNCHANGED <<proto, push, waiting, w, from, got, bare, came>>

ServerCloses(k) ==
    /\ k \in t.up
    /\ t' = [t EXCEPT !.up = @ \ {k}, !.todo[k] = <<>>]
    /\ UNCHANGED <<proto, push, waiting, w, from, got, bare, came>>

Next ==
    \/ \E callback \in BOOLEAN, there \in BOOLEAN,
          outcomes \in {"ok", "lost", "EPIPE", "EBADF", "partial"} \X {"ok", "partial"} :
             cmd(callback, there, outcomes)
    \/ \E asked \in SUBSET (1..t.nreq), n \in 0..MaxReq : wait(asked, n)
    \/ \E fd \in Fds :
          \/ \E n \in 1..MaxReq : Reads(fd, n)
          \/ HangsUp(fd)
    \/ \E nested \in BOOLEAN : redis_reply(nested) \/ soa_reply(nested) \/ soa_push(nested)
    \/ \E time \in BOOLEAN : BatchEnds(time)
    \/ \E k \in Conns :
          \/ \E i \in 1..MaxReq : Answers(k, i)
          \/ ServerCloses(k)

Spec == Init /\ [][Next]_vars

-----------------------------------------------------------------------------
(* Properties.                                                             *)

\* A callback hears the answer to its own request and hears it once, however
\* the connection was lost and made again in between.
OwnReply == \A r \in Requests : t.heard[r] \in {<<>>, <<r>>}

\* The callbacks kept for a connection are those of the requests that are
\* under way on it, for Redis in the order in which the answers will come: no
\* request is without its callback, and none of an earlier connection is
\* left over.
CallbacksFitConnection ==
    \A fd \in Fds : t.conn[fd] \in t.up /\ fd \in t.watched =>
        LET k == t.conn[fd]
            due == (IF fd = from THEN got ELSE <<>>) \o t.inbox[k] \o t.todo[k]
        IN  IF proto = "Redis" THEN t.queue[fd] = due
            ELSE t.map[fd] = Range(due) \ bare

\* wait sees each reply that comes while it waits, and no other, and sees it
\* once, whoever it is for, whether the callback sends a request of its own and
\* however many replies a read brings.  The exception is Soa's: a reply to a
\* request that was sent without a callback is not seen if there is no push
\* callback either.
WaitSeesAnswers ==
    LET seen == {r \in came : push \/ r \notin bare} IN
    waiting =>
        /\ w.left = w.asked \ seen
        /\ w.total # 0 => w.total - w.n = Cardinality(seen)

\* What the interface says of wait, without an exception: "wait for the network
\* requests to return", "wait until there are n responses".  It does not hold:
\* if nobody registered a push callback, soa_push leaves the hook out too.
WaitSeesEveryAnswer ==
    waiting =>
        /\ w.left = w.asked \ came
        /\ w.total # 0 => w.total - w.n = Cardinality(came)

\* "supports multiple addresses": a request goes to the address it is for.
SentToItsAddress ==
    \A k \in 1..Len(t.peer) : \A r \in Range(t.todo[k]) :
        t.peer[k] = t.dest[r]

\* A connection that was made anew lasts until one side closes it.
NewConnectionLasts ==
    \A fd \in t.watched : t.conn[fd] # NoConn /\ fd \in t.armed /\ fd \notin t.closing
=============================================================================
