------------------------------- MODULE Connect -------------------------------
(***************************************************************************)
(* The ways Client makes a connection (Client.cpp), with the part of       *)
(* EventManager they run on.  A name has several addresses, which are      *)
(* tried one after the other.  The asynchronous form holds one descriptor  *)
(* number for all of them: dup2 puts the socket of the next attempt under  *)
(* the number of the last one.                                             *)
(*                                                                         *)
(* A handler runs to its end before the next event, with the callbacks it  *)
(* calls, so each is one action.  The memory of an asynchronous connect    *)
(* (resultp, rpp, cb) is freed where the caller is told the result, and    *)
(* used for an attempt; that it is neither freed twice nor used            *)
(* afterwards is ToldOnce.  The number a socket has between nonblock_socket *)
(* and dup2 and the sockets of blocking attempts that fail are closed in   *)
(* the same step and left out; so are TLS and a CONNECT callback that      *)
(* closes its own number (Tunnel has that case).                           *)
(***************************************************************************)
EXTENDS Naturals

CONSTANTS
    Fds,        \* descriptor numbers
    Reqs,       \* calls of connect
    MaxAddr,    \* the largest number of addresses of a name
    Forms       \* the forms of connect the program uses

ASSUME FdsAssumption == Fds \subseteq Nat \ {0}
ASSUME MaxAddrAssumption == MaxAddr \in Nat \ {0}
\* "async" by name, "async_addr" by address, "sync" by address, "sync_name",
\* and "timeout", which is by address, blocks for some time and has no
\* callbacks.
ASSUME FormsAssumption == Forms \subseteq {"async", "async_addr", "sync", "sync_name", "timeout"}

NoFd == 0       \* also the -1 that connect returns
NoReq == "none"
ASSUME NoReqAssumption == NoReq \notin Reqs

VARIABLES
    owner,      \* kernel: the request whose socket has the number, or NoReq
    tries,      \* kernel: the address that socket is connected to
    t,          \* EventManager: _fds, the epoll set, _close_fds
    req         \* the requests

vars == <<owner, tries, t, req>>

Results == {"OK", "NG", "GAME_OVER"}

TypeOK ==
    /\ owner \in [Fds -> Reqs \union {NoReq}]
    /\ tries \in [Fds -> 0..MaxAddr]
    /\ t \in [entry   : [Fds -> {"none", "CONNECT", "callbacks"}],
              armed   : [Fds -> BOOLEAN],
              closing : SUBSET Fds]
    /\ req \in [Reqs -> [state : {"idle", "trying", "up", "down", "closed"},
                         form  : Forms \union {"none"},
                         n     : 0..MaxAddr,            \* its addresses
                         fd    : Fds \union {NoFd},     \* its number
                         ret   : Fds \union {NoFd},     \* what connect returned
                         early : {"calling", "none", "up", "down"}, \* the result then
                         told  : [Results -> 0..(MaxAddr + 1)]]]

Init ==
    /\ owner = [fd \in Fds |-> NoReq]
    /\ tries = [fd \in Fds |-> 0]
    /\ t = [entry   |-> [fd \in Fds |-> "none"],
            armed   |-> [fd \in Fds |-> FALSE],
            closing |-> {}]
    /\ req = [r \in Reqs |-> [state |-> "idle", form |-> "none", n |-> 0, fd |-> NoFd,
                              ret |-> NoFd, early |-> "calling",
                              told |-> [x \in Results |-> 0]]]

Free == {fd \in Fds : owner[fd] = NoReq}
IsLowest(fd, S) == fd \in S /\ \A g \in S : fd =< g

-----------------------------------------------------------------------------
(* EventManager.                                                           *)

\* An entry that is there is only modified, which fails if the number is not
\* in the epoll set.
watch(u, fd, entry) ==
    [u EXCEPT !.entry[fd] = entry, !.armed[fd] = u.entry[fd] = "none" \/ @]

\* unwatch, and dup2 over a number that is still in the epoll set.
unwatch(u, fd) == [u EXCEPT !.entry[fd] = "none", !.armed[fd] = FALSE]

\* close(fd, true).
force_close(u, fd) == [unwatch(u, fd) EXCEPT !.closing = @ \union {fd}]

-----------------------------------------------------------------------------
(* The asynchronous forms.                                                 *)

\* The caller's CONNECT callback is called.
Tell(q, result, state) == [q EXCEPT !.told[result] = @ + 1, !.state = state]

\* What connect returns, if this is the call itself and not a later event: by
\* name the number, whatever has happened; by address -1 if it has failed.
Return(q, fd) ==
    IF q.early # "calling" THEN q
    ELSE [q EXCEPT !.ret = IF q.form = "async" \/ q.state # "down" THEN fd ELSE NoFd,
                   !.early = IF q.state = "trying" THEN "none" ELSE q.state]

\* Mutant: no re_watch, with an entry that nobody has taken out.
attempt_modifies(q, fd) ==
    /\ t' = [t EXCEPT !.entry[fd] = "CONNECT", !.armed[fd] = t.entry[fd] = "none"]
    /\ req' = [req EXCEPT ![owner'[fd]] = Return([q EXCEPT !.state = "trying"], fd)]

\* connect is in progress: watched again (re_watch).
attempt(q, fd) ==
    /\ t' = [t EXCEPT !.entry[fd] = "CONNECT", !.armed[fd] = TRUE]
    /\ req' = [req EXCEPT ![owner'[fd]] = Return([q EXCEPT !.state = "trying"], fd)]

\* It is connected at once, as it may be on the same host.
attempt_ok(q, fd) ==
    /\ t' = watch(unwatch(t, fd), fd, "callbacks")
    /\ req' = [req EXCEPT ![owner'[fd]] = Return(Tell(q, "OK", "up"), fd)]

\* No address is left.
attempts_fail(q, fd) ==
    /\ t' = force_close(t, fd)
    /\ req' = [req EXCEPT ![owner'[fd]] = Return(Tell(q, "NG", "down"), fd)]

\* The addresses after the k-th are tried until one, the j-th, does not fail
\* at once.
attempts(q, fd, k) ==
    \/ \E j \in (k + 1)..q.n :
          /\ tries' = [tries EXCEPT ![fd] = j]
          /\ attempt(q, fd) \/ attempt_ok(q, fd)
    \/ /\ tries' = [tries EXCEPT ![fd] = q.n]
       /\ attempts_fail(q, fd)

-----------------------------------------------------------------------------
(* The calls.                                                              *)

\* A request r starts, for which fd is the next free number.
Starts(r, fd) == req[r].state = "idle" /\ IsLowest(fd, Free)
New(r, form, n) == [req[r] EXCEPT !.form = form, !.n = n]

\* connect(address, port, callbacks, async) and, with one address,
\* connect(addr, addrlen, callbacks, async).
connect_async(r, form, fd, n) ==
    /\ Starts(r, fd)
    /\ form \in Forms \intersect {"async", "async_addr"}
    /\ form = "async_addr" => n = 1
    /\ owner' = [owner EXCEPT ![fd] = r]
    /\ attempts([New(r, form, n) EXCEPT !.fd = fd], fd, 0)

\* connect(addr, addrlen, callbacks): blocks.
connect_sync(r, fd) ==
    /\ Starts(r, fd)
    /\ "sync" \in Forms
    /\ \/ /\ owner' = [owner EXCEPT ![fd] = r]
          /\ tries' = [tries EXCEPT ![fd] = 1]
          /\ t' = watch(t, fd, "callbacks")
          /\ req' = [req EXCEPT ![r] = [Tell(New(r, "sync", 1), "OK", "up")
                                           EXCEPT !.fd = fd, !.ret = fd, !.early = "up"]]
       \/ /\ req' = [req EXCEPT ![r] = [Tell(New(r, "sync", 1), "NG", "down")
                                           EXCEPT !.early = "down"]]
          /\ UNCHANGED <<owner, tries, t>>

\* connect(address, port, callbacks): connect_sync for each address, whose
\* callback is called each time, and once more if none was good.
connect_sync_name(r, fd, n) ==
    /\ Starts(r, fd)
    /\ "sync_name" \in Forms
    /\ \/ \E j \in 1..n :
             /\ owner' = [owner EXCEPT ![fd] = r]
             /\ tries' = [tries EXCEPT ![fd] = j]
             /\ t' = watch(t, fd, "callbacks")
             /\ req' = [req EXCEPT ![r] = [Tell(New(r, "sync_name", n), "OK", "up")
                                              EXCEPT !.told["NG"] = j - 1,
                                                     !.fd = fd, !.ret = fd, !.early = "up"]]
       \/ /\ req' = [req EXCEPT ![r] = [New(r, "sync_name", n)
                                           EXCEPT !.told["NG"] = n + 1,
                                                  !.state = "down", !.early = "down"]]
          /\ UNCHANGED <<owner, tries, t>>

\* connect(addr, addrlen, timeout): select also returns 1 when the connect has
\* failed, and nobody asks for SO_ERROR.
connect_timeout(r, fd) ==
    /\ Starts(r, fd)
    /\ "timeout" \in Forms
    /\ \/ \E state \in {"up", "down"} :
             /\ owner' = [owner EXCEPT ![fd] = r]
             /\ tries' = [tries EXCEPT ![fd] = 1]
             /\ req' = [req EXCEPT ![r] = [New(r, "timeout", 1)
                                              EXCEPT !.state = state, !.fd = fd,
                                                     !.ret = fd, !.early = state]]
       \/ /\ req' = [req EXCEPT ![r] = [New(r, "timeout", 1)
                                           EXCEPT !.state = "down", !.early = "down"]]
          /\ UNCHANGED <<owner, tries>>
    /\ UNCHANGED t

-----------------------------------------------------------------------------
(* The events.                                                             *)

\* The number the events of r come with.
Trying(r, fd) ==
    /\ fd = req[r].fd /\ owner[fd] = r
    /\ t.entry[fd] = "CONNECT" /\ t.armed[fd]

\* CONNECT_OK, which finds the entry without its CONNECT.
connect_ok(r, fd) ==
    /\ Trying(r, fd)
    /\ t' = watch(t, fd, "callbacks")
    /\ req' = [req EXCEPT ![r] = Tell(@, "OK", "up")]
    /\ UNCHANGED <<owner, tries>>

\* Mutant: the number is not held.
connect_ng_closes(r, fd) ==
    /\ Trying(r, fd)
    /\ \E j \in (tries[fd] + 1)..req[r].n : tries' = [tries EXCEPT ![fd] = j]
    /\ t' = [t EXCEPT !.closing = @ \union {fd}]
    /\ UNCHANGED <<owner, req>>

\* CONNECT_NG: the entry is taken out, the number is held, and the next
\* address is tried.
connect_ng(r, fd) ==
    /\ Trying(r, fd)
    /\ UNCHANGED owner
    /\ attempts(req[r], fd, tries[fd])

\* Mutant: the caller is told once more, as the entry is still there.
close_trying_again(r, fd) ==
    /\ owner[fd] = r /\ t.entry[fd] = "CONNECT"
    /\ t' = [t EXCEPT !.closing = @ \union {fd}]
    /\ req' = [req EXCEPT ![r] = Tell(@, "GAME_OVER", "closed")]
    /\ UNCHANGED <<owner, tries>>

\* The program closes the number while the connect is in progress: GAME_OVER.
close_trying(r, fd) ==
    /\ owner[fd] = r /\ t.entry[fd] = "CONNECT"
    /\ t' = force_close(t, fd)
    /\ req' = [req EXCEPT ![r] = Tell(@, "GAME_OVER", "closed")]
    /\ UNCHANGED <<owner, tries>>

\* The program, or the peer, closes an established connection.
close(r, fd) ==
    /\ owner[fd] = r /\ t.entry[fd] = "callbacks"
    /\ t' = force_close(t, fd)
    /\ req' = [req EXCEPT ![r].state = "closed"]
    /\ UNCHANGED <<owner, tries>>

\* The end of a batch of events: the pending closes are made.
close_pending ==
    /\ t.closing # {}
    /\ owner' = [fd \in Fds |-> IF fd \in t.closing THEN NoReq ELSE owner[fd]]
    /\ tries' = [fd \in Fds |-> IF fd \in t.closing THEN 0 ELSE tries[fd]]
    /\ t' = [t EXCEPT !.closing = {},
                      !.armed = [fd \in Fds |-> @[fd] /\ fd \notin t.closing]]
    /\ UNCHANGED req

Next ==
    \/ \E r \in Reqs, fd \in Fds :
          \/ \E n \in 1..MaxAddr :
                \/ \E form \in Forms : connect_async(r, form, fd, n)
                \/ connect_sync_name(r, fd, n)
          \/ connect_sync(r, fd)
          \/ connect_timeout(r, fd)
          \/ connect_ok(r, fd)
          \/ connect_ng(r, fd)
          \/ close_trying(r, fd)
          \/ close(r, fd)
    \/ close_pending

Spec == Init /\ [][Next]_vars

\* TCP reports success or failure of every connect in the end (it has its own
\* timeout), and the event loop takes every event that is reported and
\* finishes its batches.
Fairness ==
    /\ WF_vars(close_pending)
    /\ \A r \in Reqs, fd \in Fds : WF_vars(connect_ok(r, fd) \/ connect_ng(r, fd))

FairSpec == Spec /\ Fairness

-----------------------------------------------------------------------------
(* Properties.                                                             *)

Times(q) == q.told["OK"] + q.told["NG"] + q.told["GAME_OVER"]

\* The CONNECT callback of r hears one result, and then the attempts are over
\* and their memory is freed.
OneResult(r) ==
    /\ Times(req[r]) =< 1
    /\ req[r].state = "trying" => Times(req[r]) = 0

\* "Called back once only" (EventManager.cpp:370), through all addresses and
\* when the number is closed meanwhile.  The blocking connect by name does not
\* keep to it.
ToldOnce == \A r \in Reqs : req[r].form # "sync_name" => OneResult(r)

\* The same for every form.
ToldOnceByEveryForm == \A r \in Reqs : OneResult(r)

\* "The fd is held" (EventManager.cpp:371): from the call to the close a
\* request has its number, through all addresses, with its own callbacks
\* registered and armed, and no close pending on it.  (The form with a timeout
\* registers nothing.)
HasItsNumber ==
    \A r \in Reqs :
        req[r].form # "timeout" /\ req[r].state \in {"trying", "up"} =>
            LET fd == req[r].fd IN
            /\ owner[fd] = r /\ t.armed[fd] /\ fd \notin t.closing
            /\ t.entry[fd] = IF req[r].state = "trying" THEN "CONNECT" ELSE "callbacks"

\* A number that is open is some request's that is not over, or is about to be
\* closed: failed attempts and GAME_OVER leak nothing, and leave no callbacks
\* for the next one that gets the number.
NothingLeftBehind ==
    \A fd \in Fds :
        /\ owner[fd] # NoReq /\ req[owner[fd]].form # "timeout" =>
              \/ req[owner[fd]].state \in {"trying", "up"} /\ req[owner[fd]].fd = fd
              \/ req[owner[fd]].state \in {"down", "closed"} /\ fd \in t.closing
        /\ t.entry[fd] # "none" => owner[fd] # NoReq

\* Numbers and requests agree both ways, whatever fails or is closed on the
\* way from one address to the next.
HoldsItsNumber == HasItsNumber /\ NothingLeftBehind

\* Every request hears its result in the end.
EveryRequestIsTold ==
    \A r \in Reqs : req[r].state = "trying" ~> Times(req[r]) > 0

\* What makes ToldOnce and HoldsItsNumber inductive.  A request that has not
\* started has no number and has told nobody anything; one whose attempts go
\* on was made asynchronously, and its memory is not freed.
IdleIsUntouched ==
    \A r \in Reqs : req[r].state = "idle" =>
        /\ req[r].early = "calling" /\ \A x \in Results : req[r].told[x] = 0
        /\ \A fd \in Fds : owner[fd] # r
TryingIsUntold ==
    \A r \in Reqs : req[r].state = "trying" =>
        /\ req[r].early # "calling" /\ \A x \in Results : req[r].told[x] = 0
        /\ req[r].form \in {"async", "async_addr"}
\* A request that is not over has a number; a socket is its request's.
OwnersAgree ==
    /\ \A r \in Reqs : req[r].state \in {"trying", "up"} => req[r].fd \in Fds
    /\ \A fd \in Fds : owner[fd] # NoReq => req[owner[fd]].fd = fd
\* Callbacks are those of the request whose socket has the number, and a
\* number that is about to be closed has none.
EntriesAgree ==
    \A fd \in Fds : t.entry[fd] # "none" =>
        /\ owner[fd] # NoReq /\ req[owner[fd]].form # "timeout"
        /\ req[owner[fd]].state = IF t.entry[fd] = "CONNECT" THEN "trying" ELSE "up"
ClosingIsOver ==
    \A fd \in t.closing :
        /\ owner[fd] # NoReq /\ req[owner[fd]].state \in {"down", "closed"}
        /\ t.entry[fd] = "none"
ConnectInv ==
    /\ TypeOK /\ ToldOnce /\ HasItsNumber /\ NothingLeftBehind
    /\ IdleIsUntouched /\ TryingIsUntold /\ OwnersAgree /\ EntriesAgree /\ ClosingIsOver
=============================================================================
