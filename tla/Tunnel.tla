------------------------------- MODULE Tunnel -------------------------------
(***************************************************************************)
(* The tunnels of mixin_handler: Proxy and Remote over ITunnelLike, with   *)
(* the part of ClientServer, Client and EventManager they run on.  Every   *)
(* accepted client gets a connection to a remote; bytes are buffered until *)
(* that is established and passed on afterwards; when one side goes away   *)
(* the other is closed.                                                    *)
(*                                                                         *)
(* A handler runs to its end before the next event, so each is one action, *)
(* with the callbacks that close runs inside of it.  The handlers know     *)
(* descriptor numbers only, and the kernel reuses these; conn tells which  *)
(* connection a number stands for.  Connections 1, 3, 5... are clients,    *)
(* and k + 1 is the one that was made for client k.                        *)
(*                                                                         *)
(* _r2c is left out, as it is written and never read.  Bytes the           *)
(* EventManager has to buffer count as written.                            *)
(***************************************************************************)
EXTENDS Naturals, Sequences

CONSTANTS
    Fds,        \* descriptor numbers
    MaxConn,    \* bound on the connections of a behaviour
    MaxMsg,     \* bound on the messages read from a connection
    Awkward     \* what the environment does beyond the ordinary, see below

\* "sync_fail": connect fails before it returns;
\* "epipe_on_flush": the first write to an established remote fails with EPIPE.
ASSUME FdsAssumption == Fds \subseteq Nat \ {0}
ASSUME BoundsAssumption == MaxConn \in Nat /\ MaxMsg \in Nat
ASSUME AwkwardAssumption == Awkward \subseteq {"sync_fail", "epipe_on_flush"}

NoFd == 0
NoConn == 0
Conns == 1..MaxConn
IsClient(k) == k % 2 = 1
Other(k) == IF IsClient(k) THEN k + 1 ELSE k - 1

VARIABLES
    proto,      \* the protocol of the server: Remote sends the session id first
    conn,       \* kernel: the connection a number stands for, or NoConn
    nconn,      \* how many connections have been made
    broken,     \* the connections whose peer no longer takes bytes
    nread,      \* how many messages have been read from each connection
    sent,       \* the messages that were written to each connection
    t           \* the tables of EventManager, ITunnelLike and StateBuffer

vars == <<proto, conn, nconn, broken, nread, sent, t>>

Roles == {"none", "client", "connecting", "remote"}
States == {"none", "B4CONNECT", "CONNECT", "CONNECTED"}
\* A message is known by its connection and its place there; the session id
\* has place 0.
Messages == Conns \X (0..MaxMsg)

Tables ==
    [role    : [Fds -> Roles],              \* the callbacks in _fds
     cap     : [Fds -> Fds \union {NoFd}],  \* the client they captured
     armed   : [Fds -> BOOLEAN],            \* is in the epoll set
     closing : SUBSET Fds,                  \* _close_fds
     c2r     : [Fds -> Fds \union {NoFd}],  \* _c2r
     state   : [Fds -> States],             \* _state
     buf     : [Fds -> Seq(Messages)]]      \* _buf

TypeOK ==
    /\ proto \in {"Proxy", "Remote"}
    /\ nconn \in 0..MaxConn
    /\ conn \in [Fds -> 0..nconn]
    /\ broken \subseteq 1..nconn
    /\ nread \in [Conns -> 0..MaxMsg]
    /\ sent \in [Conns -> Seq(Messages)]
    /\ t \in Tables

Init ==
    /\ proto \in {"Proxy", "Remote"}
    /\ nconn = 0
    /\ conn = [fd \in Fds |-> NoConn]
    /\ broken = {}
    /\ nread = [k \in Conns |-> 0]
    /\ sent = [k \in Conns |-> <<>>]
    /\ t = [role    |-> [fd \in Fds |-> "none"],
            cap     |-> [fd \in Fds |-> NoFd],
            armed   |-> [fd \in Fds |-> FALSE],
            closing |-> {},
            c2r     |-> [fd \in Fds |-> NoFd],
            state   |-> [fd \in Fds |-> "none"],
            buf     |-> [fd \in Fds |-> <<>>]]

-----------------------------------------------------------------------------
(* Watching and closing.                                                   *)

\* An entry that is already there is only modified, which fails if the number
\* is not in the epoll set.
watch(u, fd, role, client) ==
    [u EXCEPT !.role[fd] = role, !.cap[fd] = client,
              !.armed[fd] = u.role[fd] = "none" \/ @]

\* unwatch and _add_close_fd.
drop(u, fd) ==
    [u EXCEPT !.role[fd] = "none", !.cap[fd] = NoFd, !.armed[fd] = FALSE,
              !.closing = @ \union {fd}]

erase_client_info(u, client) ==
    [u EXCEPT !.state[client] = "none", !.buf[client] = <<>>, !.c2r[client] = NoFd]

\* The callback of the other side finds no entry in _c2r and returns.
close_other(u, fd) == IF u.role[fd] = "none" THEN u ELSE drop(u, fd)

\* close(fd): the entry is dropped and its callback runs, which is on_close,
\* on_remote_close or, with GAME_OVER, on_remote_connect.  Each closes the
\* other side.
close(u, fd) ==
    LET d == drop(u, fd)
        c == u.cap[fd]
    IN  CASE u.role[fd] = "none" -> u
          [] u.role[fd] = "client" ->
                IF u.c2r[fd] = NoFd THEN d
                ELSE close_other(erase_client_info(d, fd), u.c2r[fd])
          [] u.role[fd] = "connecting" ->
                close_other(erase_client_info(d, c), c)
          [] u.role[fd] = "remote" ->
                IF u.c2r[c] = NoFd THEN d
                ELSE close_other(erase_client_info(d, c), c)

-----------------------------------------------------------------------------
(* Writing.                                                                *)

WriteResults == {"ok", "error", "EPIPE"}

\* write fails if the peer no longer takes bytes or fd is not open (EBADF).
WriteMay(fd, result) ==
    /\ result = "ok" <=> conn[fd] \notin broken \union {NoConn}
    /\ conn[fd] = NoConn => result = "error"

\* The messages that arrive if ms is written to fd.
Sends(fd, result, ms) ==
    sent' = [sent EXCEPT ![conn[fd]] = IF result = "ok" THEN @ \o ms ELSE @]

-----------------------------------------------------------------------------
(* The handlers.                                                           *)

Free == {fd \in Fds : conn[fd] = NoConn}
IsLowest(fd, S) == fd \in S /\ \A g \in S : fd =< g

\* The session id, which Remote sends as soon as the remote is connected.
session_id(k) == IF proto = "Remote" THEN <<<<k, 0>>>> ELSE <<>>

\* Proxy::on_connect, when connect cannot tell the result yet.
connecting(client, remote) ==
    /\ t' = watch([watch(t, remote, "connecting", client)
                      EXCEPT !.state[client] = "CONNECT", !.c2r[client] = remote,
                             !.armed[remote] = TRUE],
                  client, "client", NoFd)
    /\ UNCHANGED sent

\* The same when the connection is there at once (AF_UNIX).  Whatever
\* on_remote_connect finds in _buf is not this client's and is lost: _c2r does
\* not know the remote yet.
connected_at_once(client, remote) ==
    /\ t' = watch([watch(t, remote, "remote", client)
                      EXCEPT !.state[client] = "CONNECTED", !.c2r[client] = remote,
                             !.buf[client] = <<>>],
                  client, "client", NoFd)
    /\ sent' = [sent EXCEPT ![conn'[remote]] = session_id(conn'[client])]

\* The same when it fails at once: on_remote_connect closes the client, which
\* has no effect as it is not watched yet; on_connect returns, and accept goes
\* on to watch the client.
connect_failed_at_once(client, remote) ==
    /\ "sync_fail" \in Awkward /\ t.role[remote] = "none"
    /\ t' = watch([close(erase_client_info(t, client), client)
                      EXCEPT !.closing = @ \union {remote}],
                  client, "client", NoFd)
    /\ UNCHANGED sent

\* accept, on_connect and watch, for one client.
accept(client, remote) ==
    /\ nconn + 2 =< MaxConn
    /\ IsLowest(client, Free) /\ IsLowest(remote, Free \ {client})
    /\ nconn' = nconn + 2
    /\ conn' = [conn EXCEPT ![client] = nconn + 1, ![remote] = nconn + 2]
    /\ \/ connecting(client, remote)
       \/ connected_at_once(client, remote)
       \/ connect_failed_at_once(client, remote)
    /\ UNCHANGED <<proto, broken, nread>>

\* An event can be reported for fd.
Live(fd, role) == t.role[fd] = role /\ t.armed[fd] /\ conn[fd] # NoConn

\* Mutant: what was buffered is not cleared when it is written.
flush_keeps_buf(u, client) == [u EXCEPT !.state[client] = "CONNECTED"]

\* on_remote_connect sets the state and calls on_message once.
flush(u, client) == [u EXCEPT !.state[client] = "CONNECTED", !.buf[client] = <<>>]

\* on_remote_connect(OK).  The remote has no other callbacks yet when the
\* buffered bytes are written: a close for EPIPE tells nobody, and the
\* callbacks are registered afterwards all the same.
on_remote_connect_ok(remote, result) ==
    LET client == t.cap[remote]
        u == flush(t, client)
        ms == session_id(conn[client]) \o t.buf[client]
    IN  /\ Live(remote, "connecting")
        /\ WriteMay(remote, result)
        /\ result = "EPIPE" => ms # <<>> /\ "epipe_on_flush" \in Awkward
        /\ t' = watch(IF result = "EPIPE" THEN drop(u, remote)
                                           ELSE [u EXCEPT !.role[remote] = "none"],
                      remote, "remote", client)
        /\ Sends(remote, result, ms)
        /\ UNCHANGED <<proto, conn, nconn, broken, nread>>

\* on_remote_connect(NG), which closes the client; then the remote is closed.
on_remote_connect_ng(remote) ==
    /\ Live(remote, "connecting")
    /\ t' = close(t, remote)
    /\ UNCHANGED <<proto, conn, nconn, broken, nread, sent>>

\* Mutant: what is new goes first.
append_buf_in_front(u, client, m) == <<m>> \o u.buf[client]

append_buf(u, client, m) == Append(u.buf[client], m)

\* on_message: buffered before the remote is connected, passed on after.
on_message(client, result) ==
    LET k == conn[client]
        ms == append_buf(t, client, <<k, nread[k] + 1>>)
        remote == t.c2r[client]
    IN  /\ Live(client, "client")
        /\ nread[k] < MaxMsg
        /\ nread' = [nread EXCEPT ![k] = @ + 1]
        /\ \/ /\ t.state[client] # "CONNECTED"
              /\ result = "ok"
              /\ t' = [t EXCEPT !.buf[client] = ms]
              /\ UNCHANGED sent
           \/ /\ t.state[client] = "CONNECTED"
              /\ WriteMay(remote, result)
              /\ t' = LET u == [t EXCEPT !.buf[client] = <<>>]
                      IN  IF result = "EPIPE" THEN close(u, remote) ELSE u
              /\ Sends(remote, result, ms)
        /\ UNCHANGED <<proto, conn, nconn, broken>>

\* on_remote_message: passed on to the client.
on_remote_message(remote, result) ==
    LET k == conn[remote]
        client == t.cap[remote]
    IN  /\ Live(remote, "remote")
        /\ nread[k] < MaxMsg
        /\ nread' = [nread EXCEPT ![k] = @ + 1]
        /\ WriteMay(client, result)
        /\ t' = IF result = "EPIPE" THEN close(t, client) ELSE t
        /\ Sends(client, result, <<<<k, nread[k] + 1>>>>)
        /\ UNCHANGED <<proto, conn, nconn, broken>>

\* Mutant: the remote stays when its client goes.
on_close_client_only(client) ==
    /\ Live(client, "client")
    /\ t' = erase_client_info(drop(t, client), client)
    /\ UNCHANGED <<proto, conn, nconn, broken, nread, sent>>

\* The client hangs up: on_close.
on_close(client) ==
    /\ Live(client, "client")
    /\ t' = close(t, client)
    /\ UNCHANGED <<proto, conn, nconn, broken, nread, sent>>

\* The remote hangs up: on_remote_close.
on_remote_close(remote) ==
    /\ Live(remote, "remote")
    /\ t' = close(t, remote)
    /\ UNCHANGED <<proto, conn, nconn, broken, nread, sent>>

\* The end of a batch of events: the pending closes are made.
close_pending ==
    /\ t.closing # {}
    /\ conn' = [fd \in Fds |-> IF fd \in t.closing THEN NoConn ELSE conn[fd]]
    /\ t' = [t EXCEPT !.closing = {},
                      !.armed = [fd \in Fds |-> @[fd] /\ fd \notin t.closing]]
    /\ UNCHANGED <<proto, nconn, broken, nread, sent>>

\* The peer of an open connection stops taking bytes.
peer_breaks(fd) ==
    /\ conn[fd] # NoConn /\ conn[fd] \notin broken
    /\ broken' = broken \union {conn[fd]}
    /\ UNCHANGED <<proto, conn, nconn, nread, sent, t>>

Next ==
    \/ \E client, remote \in Fds : accept(client, remote)
    \/ \E fd \in Fds :
          \/ \E result \in WriteResults :
                \/ on_remote_connect_ok(fd, result)
                \/ on_message(fd, result)
                \/ on_remote_message(fd, result)
          \/ on_remote_connect_ng(fd)
          \/ on_close(fd)
          \/ on_remote_close(fd)
          \/ peer_breaks(fd)
    \/ close_pending

Spec == Init /\ [][Next]_vars

-----------------------------------------------------------------------------
(* Properties.                                                             *)

\* How many messages come before the first of connection k.
Lead(k) == IF proto = "Remote" /\ IsClient(k) THEN 1 ELSE 0

\* What was written to a connection is what was read from the other side of
\* its own tunnel, from the beginning, in order, with nothing left out, twice
\* or from elsewhere: buffering before and passing on after the connect, and
\* the reuse of descriptor numbers, do not show.
Transparent ==
    \A k \in 1..nconn :
        /\ Len(sent[Other(k)]) =< Lead(k) + nread[k]
        /\ \A i \in 1..Len(sent[Other(k)]) : sent[Other(k)][i] = <<k, i - Lead(k)>>

\* Nothing that was read is held back once the remote is connected, and
\* nothing is lost unless the receiver is broken.
NothingHeldBack ==
    \A client \in Fds :
        LET k == conn[client] IN
        t.role[client] = "client" =>
            /\ \/ k + 1 \in broken
               \/ /\ t.state[client] = "CONNECTED" /\ t.buf[client] = <<>>
                  /\ Len(sent[k + 1]) = Lead(k) + nread[k]
               \/ t.state[client] # "CONNECTED" /\ Len(t.buf[client]) = nread[k]
            /\ k \in broken \/ Len(sent[k]) = nread[k + 1]

\* A client and its remote are there together or not at all: each watched
\* client has a watched remote that knows it, each remote a client, and a
\* number that is not a client's has no state, no buffer and no pair.
ClosedTogether ==
    \A fd \in Fds :
        /\ t.role[fd] = "client" =>
              \E r \in Fds : /\ t.c2r[fd] = r /\ t.cap[r] = fd
                             /\ t.role[r] = IF t.state[fd] = "CONNECTED" THEN "remote"
                                                                          ELSE "connecting"
        /\ t.role[fd] \in {"connecting", "remote"} =>
              t.cap[fd] \in Fds /\ t.role[t.cap[fd]] = "client" /\ t.c2r[t.cap[fd]] = fd
        /\ t.role[fd] # "client" =>
              t.c2r[fd] = NoFd /\ t.state[fd] = "none" /\ t.buf[fd] = <<>>
        /\ t.role[fd] # "none" => fd \notin t.closing /\ t.armed[fd] /\ conn[fd] # NoConn

-----------------------------------------------------------------------------
(* The inductive invariant.                                                *)

\* Connections are made in pairs, and an open one has one number.
ConnsAgree ==
    /\ nconn % 2 = 0
    /\ \A f, g \in Fds : conn[f] = conn[g] /\ conn[f] # NoConn => f = g

\* A number that waits to be closed is still open, so it is not given out.
ClosingIsOpen == \A fd \in t.closing : conn[fd] # NoConn

\* _c2r leads from a client to the connection that was made for it.
PairsAgree ==
    \A c \in Fds : t.role[c] = "client" =>
        IsClient(conn[c]) /\ conn[t.c2r[c]] = conn[c] + 1

\* Nothing was read from or written to a connection before it was made.
NewIsSilent == \A k \in Conns : k > nconn => nread[k] = 0 /\ sent[k] = <<>>

\* Until the remote is connected, what the client sent is in _buf, in order,
\* and nothing went either way; from then on _buf is empty between handlers
\* and what was read is written, unless the receiver is broken.
FlowAgrees ==
    \A c \in Fds : t.role[c] = "client" =>
        LET k == conn[c] IN
        \/ /\ t.state[c] = "CONNECT"
           /\ Len(t.buf[c]) = nread[k] /\ \A i \in 1..nread[k] : t.buf[c][i] = <<k, i>>
           /\ sent[k] = <<>> /\ sent[k + 1] = <<>> /\ nread[k + 1] = 0
        \/ /\ t.state[c] = "CONNECTED" /\ t.buf[c] = <<>>
           /\ k + 1 \in broken \/ Len(sent[k + 1]) = Lead(k) + nread[k]
           /\ k \in broken \/ Len(sent[k]) = nread[k + 1]

TunnelInv ==
    /\ TypeOK
    /\ ConnsAgree
    /\ ClosingIsOpen
    /\ ClosedTogether
    /\ PairsAgree
    /\ NewIsSilent
    /\ FlowAgrees
    /\ Transparent
=============================================================================
