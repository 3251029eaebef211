------------------------------ MODULE Gateways ------------------------------
(***************************************************************************)
(* The two protocols of mixin_handler that connect to a place the client   *)
(* names: Socks and HttpGateway.  As in Tunnel a handler runs to its end   *)
(* before the next event, a close runs the callbacks of what it closes     *)
(* inside of it, and the kernel gives the lowest free number to the next   *)
(* socket; conn says which connection a number stands for.                 *)
(*                                                                         *)
(* What is read from connection k is the tokens <<k, 1>>, <<k, 2>>...      *)
(* For Socks two make the greeting, two the request, the others are data.  *)
(* For HttpGateway every two make a request, or a response; the headers    *)
(* decide whether the connection stays, which is chosen here.  A request   *)
(* stands for its answer too.  How bytes become messages is the subject of *)
(* Framing.                                                                *)
(***************************************************************************)
EXTENDS Naturals, Sequences, FiniteSetsExt

CONSTANTS
    Fds,        \* descriptor numbers
    MaxConn,    \* bound on the connections of a behaviour
    MaxToken,   \* bound on the tokens read from a client, per protocol
    MaxReply,   \* bound on the tokens read from a remote
    MaxBroken,  \* bound on the broken connections at a time
    Awkward     \* what the environment does beyond the ordinary, see below

\* "sync_fail", "sync_ok": connect knows the result before it returns;
\* "epipe_on_connect": the first write after a connect fails with EPIPE.
ASSUME GatewayFds == Fds \subseteq Nat \ {0}
ASSUME GatewayBounds ==
    MaxConn \in Nat /\ MaxToken \in [{"Socks", "HttpGateway"} -> Nat] /\ MaxReply \in Nat
    /\ MaxBroken \in Nat
ASSUME GatewayAwkward == Awkward \subseteq {"sync_fail", "sync_ok", "epipe_on_connect"}

NoFd == 0
NoConn == 0
Conns == 1..MaxConn

VARIABLES
    proto,      \* "Socks" or "HttpGateway"
    conn,       \* kernel: the connection a number stands for, or NoConn
    owner,      \* of each connection that was made, the client it was made for
    broken,     \* how a write to a connection fails, or "no"
    nread,      \* how many tokens have been read from each connection
    t           \* the tables of EventManager and of the protocol

vars == <<proto, conn, owner, broken, nread, t>>

Init ==
    /\ proto \in {"Socks", "HttpGateway"}
    /\ conn = [fd \in Fds |-> NoConn]
    /\ owner = <<>>
    /\ broken = [k \in Conns |-> "no"]
    /\ nread = [k \in Conns |-> 0]
    /\ t = [role    |-> [fd \in Fds |-> "none"],   \* the callbacks in _fds
            cap     |-> [fd \in Fds |-> NoFd],     \* the client they captured
            armed   |-> [fd \in Fds |-> FALSE],    \* is in the epoll set
            closing |-> {},                        \* _close_fds
            c2r     |-> [fd \in Fds |-> NoFd],     \* _c2r
            r2c     |-> {},                        \* the numbers in _r2c
            state   |-> [fd \in Fds |-> "none"],   \* _state
            buf     |-> [fd \in Fds |-> <<>>],     \* _buf
            forward |-> [fd \in Fds |-> <<>>],     \* _forward_info
            out     |-> [k \in Conns |-> <<>>],    \* what was written
            made    |-> NoFd,       \* the client this handler connects for
            orphans |-> {},         \* history: clients whose remote another closed
            crashed |-> FALSE]

Free == {fd \in Fds : conn[fd] = NoConn}
NewFd == IF Free = {} THEN NoFd ELSE Min(Free)
NewConn == Len(owner) + 1

-----------------------------------------------------------------------------
(* Watching, closing and writing.                                          *)

\* An entry that is already there is only modified, which fails if the number
\* is not in the epoll set.
watch(u, fd, role, client) ==
    [u EXCEPT !.role[fd] = role, !.cap[fd] = client,
              !.armed[fd] = u.role[fd] = "none" \/ @]

\* unwatch and _add_close_fd.
drop(u, fd) ==
    [u EXCEPT !.role[fd] = "none", !.cap[fd] = NoFd, !.armed[fd] = FALSE,
              !.closing = @ \union {fd}]

\* erase_state_buffer and what on_close erases besides.
erase_client(u, client) ==
    [u EXCEPT !.state[client] = "none", !.buf[client] = <<>>, !.c2r[client] = NoFd]

RECURSIVE close(_, _)

\* HttpGateway::close_remote.  _c2r keeps the number.
close_remote(u, remote) ==
    close([u EXCEPT !.buf[remote] = <<>>, !.r2c = @ \ {remote}], remote)

\* History: the number that _c2r kept for client is another one's remote by
\* now.  Closed by close_remote it does not close the client it belongs to.
orphan(u, remote, client) ==
    IF u.role[remote] = "remote" /\ u.cap[remote] # client
    THEN [u EXCEPT !.orphans = @ \union {conn[u.cap[remote]]}] ELSE u

on_close_client_only(u, client) == erase_client(u, client)

\* Socks::on_close and HttpGateway::on_close.
on_close(u, client) ==
    LET remote == u.c2r[client]
        e == erase_client(u, client)
    IN  IF proto = "Socks"
        THEN IF u.state[client] = "none" THEN u
             ELSE IF remote = NoFd THEN e
             ELSE close([e EXCEPT !.r2c = @ \ {remote}], remote)
        ELSE IF remote = NoFd THEN e ELSE close_remote(orphan(e, remote, client), remote)

\* The CLOSE callback of a remote: HttpGateway::on_remote_close, which leaves
\* the client if the gateway itself has closed the remote.
on_remote_close(u, remote, client) ==
    IF proto = "Socks" THEN close(u, client)
    ELSE LET v == IF remote \in u.r2c THEN close(u, client) ELSE u
         IN  [v EXCEPT !.buf[remote] = <<>>, !.forward[client] = <<>>]

\* EventManager::close.  A number between its CONNECT callback and the watch
\* that follows has an entry without callbacks ("bare"); one that is still
\* connecting has its CONNECT callback called with GAME_OVER, which closes the
\* client.
close(u, fd) ==
    LET d == drop(u, fd) IN
    CASE u.role[fd] = "none" -> u
      [] u.role[fd] = "bare" -> d
      [] u.role[fd] = "client" -> on_close(d, fd)
      [] u.role[fd] = "connecting" -> close(d, u.cap[fd])
      [] u.role[fd] = "remote" -> on_remote_close(d, fd, u.cap[fd])

\* EventManager::write, whose result both protocols ignore.
write(u, fd, items) ==
    CASE fd = NoFd \/ conn[fd] = NoConn -> u
      [] OTHER ->
           CASE broken[conn[fd]] = "no" -> [u EXCEPT !.out[conn[fd]] = @ \o items]
             [] broken[conn[fd]] = "error" -> u
             [] broken[conn[fd]] = "EPIPE" -> close(u, fd)

-----------------------------------------------------------------------------
(* Client::connect by name, as the handlers below call it.  `how' is what  *)
(* comes of it.  If getaddrinfo fails its result is read and deleted after *)
(* it was deleted: the process ends, or takes it for no address.           *)

\* The answers of Socks to a greeting and to a request.
Greeted == <<NoConn, 1>>
Granted == <<NoConn, 2>>

Outcomes == {"pending", "no_address", "crash"} \union (Awkward \intersect {"sync_fail", "sync_ok"})

connect_ok_tells_remote(u, remote, client) ==
    IF proto = "Socks"
    THEN write([u EXCEPT !.state[client] = "CONNECTED"], remote, <<Granted>>)
    ELSE u

\* The CONNECT callback on success, up to the watch that follows it.
connect_ok(u, remote, client) ==
    IF proto = "Socks"
    THEN write([u EXCEPT !.state[client] = "CONNECTED"], client, <<Granted>>)
    ELSE u

connect(u, client, how) ==
    LET m == [u EXCEPT !.made = client] IN
    CASE how = "pending" -> watch(m, NewFd, "connecting", client)
      [] how = "no_address" -> close(u, client)
      [] how = "crash" -> [u EXCEPT !.crashed = TRUE]
      [] how = "sync_fail" -> [close(m, client) EXCEPT !.closing = @ \union {NewFd}]
      [] how = "sync_ok" ->
           LET v == watch(connect_ok(m, NewFd, client), NewFd, "remote", client) IN
           IF proto = "Socks" THEN v ELSE [v EXCEPT !.out[NewConn] = u.forward[client]]

\* What the handlers note of the number they got.
pair(u, client) ==
    [u EXCEPT !.c2r[client] = NewFd, !.r2c = @ \union {NewFd}]

-----------------------------------------------------------------------------
(* Socks                                                                   *)

Complete(message) == Len(message) >= 2
Rest(message) == SubSeq(message, 3, Len(message))

need_buf(u, client, message) == [u EXCEPT !.buf[client] = message]

\* Only an address given by name is connected to, with command CONNECT, and a
\* greeting must offer no_auth: anything else is "refused".
RECURSIVE socks_message(_, _, _, _)
socks_message(u, client, message, how) ==
    CASE u.state[client] = "GREETING" ->
           IF ~ Complete(message) THEN need_buf(u, client, message)
           ELSE IF how = "refused" THEN close(u, client)
           ELSE [write(u, client, <<Greeted>>) EXCEPT !.state[client] = "REQUEST"]
      [] u.state[client] = "REQUEST" ->
           IF ~ Complete(message) THEN need_buf(u, client, message)
           ELSE IF how = "refused" THEN close(u, client)
           ELSE IF how = "crash" THEN connect(u, client, how)
           ELSE IF how = "no_address" THEN close(connect(u, client, how), client)
           ELSE LET v == [pair(connect(u, client, how), client)
                             EXCEPT !.state[client] = "CONNECTING"]
                IN  IF Rest(message) = <<>> THEN v
                    ELSE socks_message(v, client, Rest(message), how)
      [] u.state[client] = "CONNECTING" -> close(u, client)
      [] u.state[client] = "CONNECTED" -> write(u, u.c2r[client], message)
      [] OTHER -> u

-----------------------------------------------------------------------------
(* HttpGateway                                                             *)

\* A request is known by its client and its place among the client's.  Two
\* tokens that do not belong together are no request.
Request(message) ==
    IF message[1][1] = message[2][1] /\ message[1][2] % 2 = 1 /\ message[2][2] = message[1][2] + 1
    THEN <<message[1][1], message[2][2] \div 2>> ELSE <<>>

\* HttpGateway::on_message.  "refused": ON_REQUEST_URI finds no provider.
gateway_message(u, client, message, how) ==
    LET r == Request(message)
        p == [need_buf(u, client, Rest(message)) EXCEPT !.state[client] = "PARSE_RESPONSE"]
        f == [p EXCEPT !.forward[client] = <<r>>]
    IN  IF u.state[client] = "PARSE_RESPONSE" \/ ~ Complete(message)
        THEN need_buf(u, client, message)
        ELSE IF r = <<>> THEN close(u, client)
        ELSE IF how = "refused" THEN close(p, client)
        ELSE IF how \in {"no_address", "crash"} THEN connect(f, client, how)
        ELSE pair(connect(f, client, how), client)

on_message(u, client, message, how) ==
    IF proto = "Socks" THEN socks_message(u, client, message, how)
    ELSE gateway_message(u, client, message, how)

gateway_response_forgets_buffer(u, remote, client, verdict, how) ==
    LET w == write(u, client, u.out[conn[remote]])
        s == [close_remote(w, remote) EXCEPT !.state[client] = "PARSE_REQUEST"]
    IN  IF w.forward[client] = <<>> THEN [w EXCEPT !.crashed = TRUE]
        ELSE IF verdict = "close" THEN close(w, client) ELSE s

\* HttpGateway::on_remote_message, once a response is complete; what comes
\* after it is dropped with the remote.  A write that fails with EPIPE has
\* closed the client and erased _forward_info: close_if_necessary then takes
\* the version out of an empty request, which throws.
gateway_response(u, remote, client, verdict, how) ==
    LET w == write(u, client, u.out[conn[remote]])
        s == [close_remote(w, remote) EXCEPT !.state[client] = "PARSE_REQUEST"]
    IN  IF w.forward[client] = <<>> THEN [w EXCEPT !.crashed = TRUE]
        ELSE IF verdict = "close" THEN close(w, client)
        ELSE on_message([s EXCEPT !.buf[client] = <<>>], client, s.buf[client], how)

\* The verdict on what a remote of the gateway sends: a response after which
\* the client stays or not, by its request's headers, or no response ("NG").
on_remote_message(u, remote, message, verdict, how) ==
    LET client == u.cap[remote] IN
    IF proto = "Socks" THEN write(u, client, message)
    ELSE IF verdict = "NG" THEN close(u, remote)
    ELSE IF ~ Complete(message) THEN need_buf(u, remote, message)
    ELSE gateway_response(u, remote, client, verdict, how)

-----------------------------------------------------------------------------
(* Events.                                                                 *)

\* The tables after a handler, and the socket it may have made.
Becomes(u) ==
    /\ u.made # NoFd => NewConn =< MaxConn
    /\ t' = [u EXCEPT !.made = NoFd]
    /\ IF u.made = NoFd THEN UNCHANGED <<conn, owner>>
       ELSE /\ conn' = [conn EXCEPT ![NewFd] = NewConn]
            /\ owner' = Append(owner, conn[u.made])

Live(fd, role) == ~ t.crashed /\ t.role[fd] = role /\ t.armed[fd] /\ conn[fd] # NoConn

\* accept, on_connect and watch.
accept ==
    /\ ~ t.crashed
    /\ NewFd # NoFd /\ NewConn =< MaxConn
    /\ conn' = [conn EXCEPT ![NewFd] = NewConn]
    /\ owner' = Append(owner, NewConn)
    /\ t' = watch([t EXCEPT !.state[NewFd] = IF proto = "Socks" THEN "GREETING" ELSE "PARSE_REQUEST"],
                  NewFd, "client", NoFd)
    /\ UNCHANGED <<proto, broken, nread>>

\* n tokens of connection k arrive at fd; append_buf puts what was kept in
\* front of them.
Arrived(fd, n) == t.buf[fd] \o [i \in 1..n |-> <<conn[fd], nread[conn[fd]] + i>>]
Taken(fd) == [t EXCEPT !.buf[fd] = <<>>]

\* A client of Socks waits for the answer to its greeting; it need not wait
\* for the one to its request.
MaySend(k) == IF proto = "Socks" /\ t.out[k] = <<>> THEN 2 ELSE MaxToken[proto]

ClientReads(fd, n, how) ==
    LET k == conn[fd] IN
    /\ Live(fd, "client") /\ NewFd # NoFd
    /\ nread[k] + n =< MaySend(k)
    /\ nread' = [nread EXCEPT ![k] = @ + n]
    /\ Becomes(on_message(Taken(fd), fd, Arrived(fd, n), how))
    /\ UNCHANGED <<proto, broken>>

RemoteReads(fd, n, verdict, how) ==
    LET k == conn[fd] IN
    /\ Live(fd, "remote") /\ NewFd # NoFd
    /\ proto = "HttpGateway" => t.out[k] # <<>>
    /\ nread[k] + n =< MaxReply
    /\ nread' = [nread EXCEPT ![k] = @ + n]
    /\ Becomes(on_remote_message(Taken(fd), fd, Arrived(fd, n), verdict, how))
    /\ UNCHANGED <<proto, broken>>

\* The connect comes through.  The entry has no callbacks while the CONNECT
\* callback runs; they are registered afterwards in any case.
RemoteConnects(fd) ==
    LET client == t.cap[fd]
        bare == [t EXCEPT !.role[fd] = "bare"]
        v == IF proto = "Socks" THEN connect_ok(bare, fd, client)
             ELSE write(bare, fd, t.forward[client])
    IN  /\ Live(fd, "connecting")
        /\ "epipe_on_connect" \in Awkward
             \/ broken[conn[IF proto = "Socks" THEN client ELSE fd]] # "EPIPE"
        /\ t' = watch(v, fd, "remote", client)
        /\ UNCHANGED <<proto, conn, owner, broken, nread>>

\* The last address has failed: the entry is gone before the callback runs,
\* which closes the client; the number is closed last.
RemoteRefuses(fd) ==
    /\ Live(fd, "connecting")
    /\ t' = close(drop(t, fd), t.cap[fd])
    /\ UNCHANGED <<proto, conn, owner, broken, nread>>

\* The peer of a client or of a remote hangs up.
HangsUp(fd) ==
    /\ Live(fd, "client") \/ Live(fd, "remote")
    /\ t' = close(t, fd)
    /\ UNCHANGED <<proto, conn, owner, broken, nread>>

\* The end of a batch of events: the pending closes are made.  What has
\* passed through a connection that is closed is forgotten.
close_pending ==
    LET gone == {conn[fd] : fd \in t.closing} IN
    /\ t.closing # {} /\ ~ t.crashed
    /\ conn' = [fd \in Fds |-> IF fd \in t.closing THEN NoConn ELSE conn[fd]]
    /\ t' = [t EXCEPT !.closing = {},
                      !.armed = [fd \in Fds |-> @[fd] /\ fd \notin t.closing],
                      !.out = [k \in Conns |-> IF k \in gone THEN <<>> ELSE @[k]]]
    /\ broken' = [k \in Conns |-> IF k \in gone THEN "no" ELSE broken[k]]
    /\ nread' = [k \in Conns |-> IF k \in gone THEN 0 ELSE nread[k]]
    /\ UNCHANGED <<proto, owner>>

\* The peer of an open connection stops taking bytes.
PeerBreaks(fd, how) ==
    /\ conn[fd] # NoConn /\ ~ t.crashed
    /\ Cardinality({k \in Conns : broken[k] # "no"}) < MaxBroken
    /\ broken[conn[fd]] = "no"
    /\ broken' = [broken EXCEPT ![conn[fd]] = how]
    /\ UNCHANGED <<proto, conn, owner, nread, t>>

Next ==
    \/ accept
    \/ \E fd \in Fds :
          \/ \E n \in 1..2, how \in Outcomes \union {"refused"} : ClientReads(fd, n, how)
          \/ \E n \in 1..2, verdict \in {"keep", "close", "NG"}, how \in Outcomes \union {"refused"} :
                RemoteReads(fd, n, verdict, how)
          \/ RemoteConnects(fd)
          \/ RemoteRefuses(fd)
          \/ HangsUp(fd)
          \/ \E how \in {"error", "EPIPE"} : PeerBreaks(fd, how)
    \/ close_pending

Spec == Init /\ [][Next]_vars

-----------------------------------------------------------------------------
(* Properties.                                                             *)

Made == 1..Len(owner)
IsRemote(k) == owner[k] # k

\* Nobody gets what is meant for another, whatever numbers are reused: a
\* remote of Socks gets its client's data from the first byte after the
\* request on and in order, and the client what its remote sends, after the
\* two answers; a remote of the gateway gets one request, and the answers a
\* client gets are those to its requests, in order.
OwnTraffic ==
    \A k \in Made : \A i \in DOMAIN t.out[k] :
        LET item == t.out[k][i] IN
        IF proto = "Socks"
        THEN IF IsRemote(k) THEN item = <<owner[k], 4 + i>>
             ELSE CASE i = 1 -> item = Greeted
                    [] i = 2 -> item = Granted
                    [] OTHER -> owner[item[1]] = k /\ item[2] = i - 2
        ELSE IF IsRemote(k) THEN i = 1 /\ item[1] = owner[k]
             ELSE item = <<k, i>>

\* A remote, from its connect on, has the client it was made for, and that
\* client knows it: no remote stays behind when its client goes, and none
\* answers to a later client with the same number.
RemotesMatchClients ==
    \A fd \in Fds : t.role[fd] \in {"connecting", "remote"} =>
        LET c == t.cap[fd] IN
        /\ t.role[c] = "client" /\ t.c2r[c] = fd
        /\ conn[c] = owner[conn[fd]]

\* A client has the remote it is connected to in _c2r, whoever goes first.  A
\* client of the gateway that waits for no answer keeps the number of a remote
\* that is gone (close_remote leaves _c2r); the harm this does is to close the
\* remote that has the number by then without a word to its client, and that
\* client is the only one whose answer does not come.
ClientsMatchRemotes ==
    \A c \in Fds : t.role[c] = "client" /\ conn[c] \notin t.orphans =>
        LET r == t.c2r[c] IN
        /\ t.state[c] \in {"CONNECTING", "CONNECTED", "PARSE_RESPONSE"} =>
             r # NoFd /\ t.role[r] \in {"connecting", "remote"} /\ t.cap[r] = c
        /\ t.state[c] \in {"GREETING", "REQUEST"} => r = NoFd

\* A number that is not in use has no bytes and no partner left for the next
\* connection that gets it.
NumberComesClean ==
    \A fd \in Fds : t.role[fd] = "none" => t.buf[fd] = <<>> /\ t.c2r[fd] = NoFd

\* The tables, which go by numbers, pair the connections that have the numbers
\* now, in both directions and in every order in which the two sides connect,
\* fail and go, as long as the process runs, but for the number HttpGateway
\* keeps too long.
RemoteHasItsClient ==
    ~ t.crashed => RemotesMatchClients /\ ClientsMatchRemotes /\ NumberComesClean

\* Nothing is lost or left waiting while both sides take bytes: Socks has
\* passed on all it has read on either side, and a client of the gateway that
\* may send its next request has the answers to all it has sent.
NothingIsLost ==
    \A fd \in Fds : t.role[fd] = "client" =>
        LET k == conn[fd]
            r == conn[t.c2r[fd]]
        IN  /\ t.state[fd] = "CONNECTED" =>
                 /\ broken[r] = "no" => Len(t.out[r]) = nread[k] - 4
                 /\ broken[k] = "no" => Len(t.out[k]) = nread[r] + 2
            /\ t.state[fd] = "PARSE_REQUEST" /\ broken[k] = "no" =>
                 Len(t.out[k]) = nread[k] \div 2

\* "If it is not we who have closed remote_fd, close the client": a client
\* whose request is under way has the remote it was sent to.
ClosedWithItsRemote ==
    \A fd \in Fds :
        t.role[fd] = "client" /\ t.state[fd] = "PARSE_RESPONSE" =>
            LET r == t.c2r[fd] IN
            r # NoFd /\ t.role[r] \in {"connecting", "remote"} /\ t.cap[r] = fd
=============================================================================
