# TLA+ models of universe

The repository is a collection of programs; the one with a design of its own is
`ideas/procpp/mixin_handler`, a reactor for Linux (epoll) with the servers, tunnels,
clients and timers built on it; next to it stands `ideas/procpp/http_proxy`, an
intercepting proxy on boost::asio. These modules model both, small instances of
them are model-checked with TLC, and the results that carry most weight are proved with
TLAPS for every value of the constants. Paths below are relative to
`ideas/procpp/mixin_handler` unless they begin with `src/`.

## 1. The system

### Parts, state and operations

| Part | State | Operations |
|---|---|---|
| `EventManager` | `_fds` (callbacks per descriptor), the epoll set, `_write_buf`, `_close_fds`, `_current_fd`, `_current_cb` | `watch`, `auto_rewatch`, `unwatch`, `close`, `write`, `read`, `event_loop`, `handle_events` |
| `EventHook` | `_callbacks`, `_cancel_id`, `_firing`, `_id` per named event | `attach` (`on`), `detach`, `fire` |
| `Scheduler` | a timerfd and its `READ` callback per timer | `schedule`, `unschedule` |
| `Client` | addresses still to be tried, captured in a `CONNECT` callback | five forms of `connect`, `wait` |
| `Server` | listening sockets | `listen`, `accept`, preforked children |
| `ClientServer` | sessions (`_c2s`, `_s2c`), tasks per session, the connection to the parent process | `accept`, `unwatch`, `write_global`, `connect_parent` |
| `ITunnelLike`, `Proxy`, `Remote` | `_c2r`, state and buffer per client | `on_connect`, `on_message`, `on_close` and the same for the remote |
| `Socks`, `HttpGateway` | like the tunnels, with a parser in front | the same handlers |
| `Http`, `WebSocket`, `Soa`, `EasyP2P`, `Redis` protocols | a buffer and a state per descriptor | `on_message`: parse, or ask for more bytes |
| `C::Base`, `C::Redis`, `C::Soa` | a connection per address, a queue or map of reply callbacks | `cmd`, `connect`, `close`, `wait` |
| `ThreadPool` | `_mutex`, `_cond`, `_q`, the threads | `execute`, `get_task`, `run` |
| codecs, `Trie`, `StreamReader` | - | pure functions |
| `src/ideas/procpp/http_proxy` | a second proxy, on boost::asio | sessions, an HTTP client, a cache |
| PHP framework | configuration, connections | sharding, master/slave choice, `sql/migrate.php` |

### How they interact

There is one thread with an event loop. `epoll_wait` returns a batch of events;
`handle_events` walks through it and calls the callbacks that were registered per
descriptor *number*. Callbacks are user code and call back into the manager: they watch,
unwatch, close, write, open sockets, start timers and connects. `close` calls the `CLOSE`
callback at once and puts off the system call to the end of the batch. Everything above
(tunnels, timers, connects, protocols) is built out of such callbacks and keeps its own
tables with descriptor numbers as keys. `ThreadPool` is the only part with threads;
`ClientServer` is the only one with several processes, which share a listener and nothing
else. `http_proxy` has one thread too; its sessions share the cache of credentials and
interleave between any two asynchronous operations.

### What is hard

* Descriptor numbers are used again by the kernel. Every table with a number as its key
  can hold an entry of an earlier connection.
* Callbacks run inside of `unwatch`, `close` and `handle_events` and change what these
  are working on.
* A handler may fail in the middle: `EPIPE` closes a connection inside of `write`, a
  connect may fail before `connect` returns.
* A name has several addresses; each attempt is started from the callback that reports
  the failure of the one before, under the same number.
* The pool signals one thread per task, and a task may be taken by another thread.
* Messages arrive cut anywhere, or several at a time; half of one waits in a buffer that
  goes with a number.
* Replies are matched with requests by their order alone, across connections that are lost
  and made anew; sessions are known to another process by an id that comes in-band.
* Worker processes end (any error of `accept` ends one) and are forked again, while the
  edge-triggered listener reports a waiting connection once.

`hazards` in `PROJECT.json` lists these at their lines, with the properties that would
catch them.

### What makes each part correct

* `EventManager`: an event reaches only callbacks registered for the file it was reported
  for; `CONNECT` and `CLOSE` are called once and never lost; table, epoll set and write
  buffers agree.
* `EventHook`: a walk is valid, complete and free of repetitions whatever its callbacks do.
* `Scheduler`: a timer fires when due and not after its end, and in the end it does fire.
* `Client::connect`: one result per request, under one number, and nothing left over.
* Tunnels: bytes pass unchanged and in order, and both ends go away together.
* `ThreadPool`: a FIFO queue in which every task is started once and finished in the end.
* `Socks`, `HttpGateway`: traffic stays between a client and the remotes made for it, and
  none of it is lost.
* `ClientServer`: a session is bound to one connection in both tiers; its protocol gets what
  the client has sent after the id; every connection is accepted in the end.
* `C::Redis`, `C::Soa`, `wait`: every callback hears the answer to its own request, once.
* Protocols: what is delivered does not depend on how the stream is cut.
* `http_proxy`: nothing is forwarded without confirmed credentials, answers come in the
  order of the requests, what the collector gets can be paired.

## 2. The modules

| Module | Models | Actions |
|---|---|---|
| `ThreadPool` | `ThreadPool.cpp` | one per critical section (`execute`, `get_task`, both outcomes of the predicate of `wait`) and the end of a task; `spurious_wakeup` |
| `TaskQueue` | what the pool promises | `Submit`, `Start`, `Finish` of a bounded FIFO |
| `EventManager` | `EventManager.cpp` | one per call of the interface, one per branch of `handle_events`, the return of a callback |
| `EventHook` | `EventHook.hpp` | `attach`, `detach`, `fire` up to the first, the next and the end of the callbacks |
| `Tunnel` | `Protocol/ITunnelLike.cpp`, `Proxy.cpp`, `Remote.cpp` on the tables of `EventManager` | one per handler, with the closes and callbacks it runs |
| `Connect` | `Client.cpp`, all forms of `connect` | one per call and per result of an attempt |
| `Scheduler` | `Scheduler.cpp` | `schedule`, `unschedule`, callback and return, the loop around them |
| `ProxySession` | `src/ideas/procpp/http_proxy/session.cpp`, `async_http_client.cpp`, `cache.cpp`, `server.cpp`, certificates | one per completion handler, on both paths (in the clear and through TLS) |
| `StreamReader` | `StreamReader.cpp`, `.h` and the copy in `http_proxy` | operators: a reader before a call to the reader after it |
| `Framing` | the parsers and encoders of `Http`, `HttpGateway`, `WebSocket`, `Soa`, `Redis`, `http_proxy/http.cpp`, the buffer of `Bufferable`, the rewriting of a request for its provider | `Receive`: a read of any length, with the loop of `on_message` |
| `Codecs` | `Utf8`, `Base64`, `Json::detect_encoding`, `Trie`, addresses and queries of `Utils`, the readers of characters | operators only |
| `Gateways` | `Protocol/Socks.cpp`, `Protocol/HttpGateway.cpp` on the tables of `EventManager` | one per event of a client or a remote, with the closes and callbacks it runs |
| `Sessions` | `ClientServer.cpp`, `Server.cpp`, `Utils.cpp` (fork and supervision), `Server/Protocol` | masters: a client arrives, its id is written when the connect is reported, it sends, it goes at any time; workers: each accept, each read, fork, end, tasks, closes |
| `Clients` | `Client/Base.h`, `Base.cpp`, `Protocol/Client/Redis.cpp`, `Soa.cpp`, `Client::wait` | `cmd` with every outcome of its writes, `wait`, a read, each reply of it, the end of a batch of events, and the server: answers, closes |
| `MC*` | instances for TLC; `MCWire` has the messages of `Framing` and the samples for the functions of `Codecs`, which `Framing` extends | - |
| `*_proofs` | theorems | - |

**State.** A variable has the name of the member it stands for without the leading
underscore. `conn` (or `owner`, `file`) is the kernel's side: which open file a number
stands for at the moment. It is this variable that makes reuse of numbers visible, and no
action of the program reads it except through a system call. Variables marked *history*
in the modules are written for the properties only.

**Grain.** In `ThreadPool` a critical section is one step. In `EventManager` a callback
is not one step: while it runs (`stack` is not empty) every operation of the interface may
be called, and a callback called from inside `unwatch` or `close` leaves a frame that says
what the caller still has to do. `Tunnel`, `Connect` and `Scheduler` are about callbacks
whose code is known, so a handler with the calls it makes is one step there; in
`Scheduler` the body of a timer's callback is user code again. In `ProxySession` a
completion handler is one step: asio runs one at a time. In `Sessions` a handler is one step
too, because processes share the listener only; each `accept` of the loop is a step of its
own for that reason. In `Clients` a read is one step and every turn of the loop of
`on_message` another: callback, hook of `wait`, next reply.

**Data.** Bytes are kept where the question is about bytes. `Framing` and `Codecs` work on
sequences of bytes, with one symbol for a run of ordinary letters or digits. `Gateways`,
`Sessions` and `ProxySession` have two tokens per message, so that a message can be cut;
`Clients` has whole replies, as cutting them is what `Framing` is about. A token carries the
connection and the place it comes from, which is how a mix-up becomes visible. That the
handlers of `Gateways`, `Sessions` and `Clients` see messages as if they came in one piece
rests on `CutDoesNotMatter`.

**Environment.** In `EventManager` callbacks may do whatever the interface allows, on every
number they can name: close the number an event is being handled for, close it twice, write
to it afterwards, or watch a number whose close is pending. The entry that `_fds` gets by the
last one outlives its file; `late` (history) is the set of numbers with such an entry, and the
properties say where they except it. In `Scheduler` the callback of a timer may unschedule any
timer, its own too. In `Sessions` a client may go before its id was written, with half of it
read, or with tasks waiting for it. In `Gateways` a `getaddrinfo` that fails is undefined
behaviour (`Client.cpp:189-199` uses the result it has deleted), and the model has both
outcomes: the process ends, or the name is taken for one without addresses.

`Awkward` (in `Tunnel`, `Gateways` and `Clients`) is a set of failures that break the
properties of those modules: a connect whose result is known before `connect` returns, a write
that fails inside of a `CONNECT` callback, a request written in part, a command to Redis
without a callback. The runs have the empty set; section 5 says what goes wrong with each
member. One case is left out of `Clients` altogether (`MayNest`): a callback sends only over a
connection that is in order. Over a broken one the write closes the number and erases the
entry of `_callbacks` that `on_message` holds an iterator to (`Protocol/Client/Redis.cpp:24`,
`Soa.cpp:14`), and what follows is undefined.

## 3. The runs

| Run | Instance | Shows |
|---|---|---|
| `threadpool` | 3 workers, 4 tasks, fair workers | `NoLostWakeup`, refinement of `TaskQueue`, every submitted task is run |
| `eventmanager` | 2 numbers, 3 files, callbacks nested twice | `NoStaleDispatch`, `CalledAtMostOnce`, `NoCallbackLost`, `TableMatchesKernel` |
| `eventmanager_write` | 2 numbers, 2 files, no nesting, `watch` for `WRITE` alone too | `TableMatchesKernel` |
| `tunnel` | 2 tunnels over 4 numbers, 2 messages per connection, `Proxy` and `Remote` | `Transparent`, `NothingHeldBack`, `ClosedTogether` |
| `eventhook` | 5 ids, 4 attaches, 3 fires | `IteratorStaysValid`, `FireReachesAll`, `DetachTakesEffect` |
| `connect` | 2 requests, 2 numbers, names of up to 3 addresses, all forms, fair | `ToldOnce`, `HoldsItsNumber`, `EveryRequestIsTold` |
| `scheduler` | 3 timers (one with an interval), 3 numbers, 2 expirations, fair | `QuietWhenOver`, `OthersUndisturbed`, `OnceFires` |
| `proxy_session` | 2 sessions of one user with an old and a new password, scripts of pipelined requests, a verifier that confirms, refuses or fails | `OneOperation`, `ForwardedWasConfirmed`, `AnswersInOrder`, `CollectorCanPair`, `PipelinedIsServed` |
| `wire` | scripts of up to 3 messages per protocol in every fragmentation, two providers to forward to; samples for the functions | `CutDoesNotMatter`, `PassedOnIntact`, `CodecsReadBack`, `TrieFindsKeywords`, `AddressesReadBack` |
| `gateways` | 4 connections over 5 numbers, `Socks` and `HttpGateway` | `OwnTraffic`, `RemoteHasItsClient`, `NothingIsLost` |
| `sessions` | 1 master, 2 workers, 2 connections over 2 numbers, 4 tokens per connection (two of them the id), 2 workers ended, fair workers | `SessionIsReached`, `GivenIsSent`, `TaskHasItsSession`, `EveryoneIsServed` |
| `clients` | 1 address, 3 connections, 4 requests, `Redis` and `Soa` | `OwnReply`, `CallbacksFitConnection`, `WaitSeesAnswers` |

### Bounds

* *Numbers and files.* Three files over two numbers is the least in which a number is used
  again while another file is in the same batch. Four numbers hold two tunnels at a time;
  four connections also allow one tunnel after the other on the same numbers. With two
  requests over two numbers a request may share the table with another one or get the
  number of one that is over; with three timers over three numbers two can be in a batch
  while a third is scheduled.
* *Nesting.* Two levels of callbacks: one called by `handle_events`, and one called by the
  `close` or `unwatch` it makes. A third level would repeat the second with other numbers.
* *Addresses.* Three: a first, a middle and a last one, which the code treats differently.
* *Workers.* Three: one woken, one that takes its task, one asleep.
* *Ids of a hook.* `MaxAttach` is smaller than `IdRange`, so that ids wrap around and do
  not collide; in the code collision takes 2^64 attaches.
* *Flags and callback sets* of the event manager are selections in which every branch of
  `handle_events` is taken. With nested callbacks: `EPOLLOUT` alone (a connect that succeeds,
  or a flush), everything a connection can report at once (`EPOLLIN`, `EPOLLOUT` and a hang-up,
  which are handled in this order, with callbacks in between), and an error with `EPOLLOUT` and
  `EPOLLHUP` (a connect that fails). Without nesting: `EPOLLIN` alone, with `EPOLLOUT` and with
  a hang-up as well, and callbacks for `WRITE`, which the larger run has no room for. The
  theorems are about all sets of flags and of callbacks.
* *Gateways.* Four connections are two clients with a remote each, or one client of the
  gateway whose second request goes to a new remote while another client comes; five numbers
  so that a number is free while the others are in use and the lowest free one varies.
* *Sessions.* Two connections over two numbers, one after the other on the same number or at
  the same time in one worker or in both. Two workers may be ended (one of them twice, or
  both); running out of numbers is an error of `accept` like the others and ends a worker.
  Four tokens are the two of the id and two behind it, so that their order can be seen.
* *Clients.* Three connections: one lost, the one that replaces it, and one more; four
  requests, so that two are under way when two others are refused or come after them.
* *Scripts.* Three messages: one complete, one cut, one after it; responses to a gateway
  come one at a time. The items are a selection: requests with and without a body, with a
  query, a fragment, an address in the query, a header that comes twice, one that the parser
  refuses; responses with a length, in chunks, with neither (with and without a body), with
  line ends in the body; frames that are masked, in two fragments, of control, with a length
  in one byte or in two; nested, empty and null replies, and one that does not parse. Left out
  are a `WebSocket` length of 64 bits and control frames between the fragments of a message.
  A provider (`MCTargets`) has a path, and a query or none.
* *Samples.* Pairs of code points at both sides of every border of UTF-8, up to four bytes
  for Base64, texts of up to four characters for the trie, three for the others. The
  addresses are those with a host if and only if there is a schema, and a path before a query
  or a fragment.
* *Proxy.* Two sessions share one cached user; time has three values for an expiry of one.
  `Names` are the methods, users, passwords and hosts of the scripts, with the reserved ones.
  Origins send a whole response or one that does not parse; one of the responses is larger
  than what is posted (`Large`).

`CHECK_DEADLOCK FALSE` stands where the environment may stop (nobody submits, connects or
schedules any more); the event manager has an explicit `stopped` step instead.

### Fairness

* `ThreadPool`: weak fairness of each worker. The threads are never stopped and the mutex
  is held for a few statements; the tasks of the instance return. Nothing is assumed of
  callers or of spurious wake-ups.
* `Connect`: weak fairness of the result of an attempt and of the end of a batch. TCP
  gives up by itself, so every attempt is reported in the end, and the loop takes every
  report. Nothing is assumed about `close` or about which result is reported.
* `Scheduler`: weak fairness of expirations, of callbacks (they return) and of the loop;
  strong fairness of the report of each readable number, because `epoll_wait` takes from a
  list on which the numbers it has reported go to the end.
* `Sessions`: weak fairness of each worker *process* (`Runs`): the kernel runs a process that
  can run, and the supervisor's `waitpid` is one. For the same reason a master gets to the
  `CONNECT` callback that writes the id, unless it closes the connection before. Nothing is
  assumed of which of its events a worker takes first, of what clients send and when they go,
  of the protocol or of how often workers end, except that the bound makes these finitely many.

## 4. What is proved

| Theorem | Module | Property |
|---|---|---|
| `AccountedFor` | `ThreadPool_proofs` | type correctness, and every submitted task is queued, held by one worker or finished |
| `NoWakeupIsLost` | `ThreadPool_proofs` | `NoLostWakeup` |
| `RefinesTaskQueue` | `ThreadPool_proofs` | `ImplementsTaskQueue` |
| `TypeCorrect` | `EventManager_proofs` | type correctness |
| `EventsReachTheirFile` | `EventManager_proofs` | `NoStaleDispatch` |
| `CallbacksAreCalledOnce` | `EventManager_proofs` | `CalledAtMostOnce` |
| `CallbacksAreNotLost` | `EventManager_proofs` | `NoCallbackLost` |
| `TableAgrees` | `EventManager_proofs` | `TableMatchesKernel` |
| `EveryoneIsReached` | `Callbacks_proofs` | `FireReachesAll` |
| `IteratorIsNeverErased` | `Callbacks_proofs` | `IteratorStaysValid` |
| `DetachIsNotForgotten` | `Callbacks_proofs` | `DetachTakesEffect` |
| `TimersAreUndisturbed` | `Callbacks_proofs` | `OthersUndisturbed` |
| `QuietAfterwards` | `Callbacks_proofs` | `QuietWhenOver`, an action property |
| `OneResultPerConnect` | `Connect_proofs` | `ToldOnce` |
| `TheNumberIsHeld` | `Connect_proofs` | `HoldsItsNumber` |
| `TunnelsAreTransparent` | `Tunnel_proofs` | `Transparent`, if `Awkward = {}` |
| `TunnelsHoldNothingBack` | `Tunnel_proofs` | `NothingHeldBack`, if `Awkward = {}` |
| `TheProtocolGetsItAll` | `Sessions_proofs` | `GivenIsSent` |
| `TasksSendTheirSession` | `Sessions_proofs` | `TaskHasItsSession` |
| `SessionsAreReached` | `Sessions_proofs` | `SessionIsReached`, if there is one master |
| `OneAtATime` | `ProxySession_proofs` | `OneOperation` |
| `ForwardedIsConfirmed` | `ProxySession_proofs` | `ForwardedWasConfirmed` |
| `AnsweredInOrder` | `ProxySession_proofs` | `AnswersInOrder`, if no origin sends interim responses |
| `PostsArePaired` | `ProxySession_proofs` | `CollectorCanPair`, if no origin sends interim responses |
| `PipelinedRequestsAreServed` | `ProxySession_proofs` | `PipelinedIsServed` |
| `RepliesReachTheirCallbacks` | `Clients_proofs` | `OwnReply`, if there is one address and `Awkward = {}` |

The assumptions are the named `ASSUME`s on the constants: finitely many workers and at
least one, numbers are positive, callback and flag sets are made of the event types and
flags there are, fewer attaches than ids, bounds are natural numbers, requests are numbered
by their place in what their client sends (`ScriptsAssumption`). No theorem bounds numbers,
files, nesting, tasks, workers, addresses to try, timers, messages, requests or
connections. Four hypotheses stand in the theorems themselves: an environment that does nothing awkward
(the tunnels and the clients), one master (ids are counted per process), one address (the
clients lose track of their connections with two), and origins that send one response per
request (the order of answers and the posts of the proxy). Without them the properties fail
(section 5), with one exception: for `OwnReply` with two addresses TLC has no counterexample (three
requests), and nothing is proved.

**ThreadPool.** `Accounted` says that queue, running workers and `done` are disjoint,
without repetitions and together what was submitted; with the type invariant it is
inductive. `NoLostWakeup` is inductive on top of it: `execute` adds one task and, if
anybody sleeps, one woken worker; a worker goes to sleep only if it has seen the queue
empty, under the mutex. For the refinement the queue maps to itself and the active tasks
are those the running workers hold; a worker that takes a task was not running, so there
is room for it (`RoomForOne`), and by `Accounted` the task it takes is new.

**Dispatch.** `NoStaleDispatch` alone is not inductive. `DispatchInv` adds why it holds: a
number is armed only if it is open and in the table for the file it stands for
(`ArmedIsFresh`), which an entry made while the close was pending is as well until the close
takes place and disarms it; a number that was open when the batch was gathered stands for the
same file until the batch is over (`BatchStaysOpen`), which is what the deferred close is for;
so the events still to be handled, and the one being handled, are for such entries
(`BatchIsFresh`, `CurrentIsGathered`), and the copy of the callbacks that `handle_events` works
with is the entry itself (`CopyAgrees`).

**Callbacks.** `CallsInv`, on top of `DispatchInv`: a file has one number; a callback that may
still be called has not been called; and a close that waits for a `GAME_OVER` callback (a frame
of the stack) is the only one of its number, which still stands for the file the callbacks
were registered for. Both properties follow for every nesting and whatever callbacks do.
They follow the callbacks that were registered in time: one that is registered when the close
of its number is pending may be called by another close, or never.

**Table.** `TableMatchesKernel` is inductive with the type invariant and `DispatchInv`. It needs
no assumption on what callbacks and peers do: a close in the `READ` handler of an event that
has `EPOLLOUT` too, a hang-up, or a write after a close spoil only entries that are made when
the close is pending, which are in `late`; every entry made in time is armed for what it waits
for until it is erased.

**Hooks.** `HookInv`: the ids in use are the last `nattach` ones, counted around the range,
so the next one is fresh; what is in the map and not put off for removal is what is
attached and not detached; everyone a walk owes a call is among these; and the walk has
called nobody beyond its iterator. It holds for every
number of fires and every size of the range.

**Timers.** A number and the handle its timer was given name one another (`HandlesAgree`),
and what is in the batch, in the table and about to be closed belongs to the timer the
number stands for. `QuietWhenOver` is a property of steps: the callback that is about to be
called is the one of a timer that is not over.

**Connects.** A request that has not started has no number and has told nobody anything;
one whose attempts go on was made asynchronously and its memory is not freed; and a number
is held by the request that has it from the first address to the last.

**Tunnels.** `TunnelInv`: numbers and connections agree (`ConnsAgree`), a number that is to
be closed is still open (`ClosingIsOpen`), the connections of a tunnel are neighbours, an
odd one and the even one behind it, and are held by the two numbers that point at one
another (`PairsAgree`), a connection that does not exist yet is silent, and what was sent
to a connection is what was read from its neighbour less what is in the buffer
(`FlowAgrees`). The close of one number closes the other in the same step, so the proof of
a close (`OnCloseStep`) is about two numbers and leaves the rest alone.

**Sessions.** `SessionsInv`: a connection is a number of one process, or waits, or neither
(`HeldOnce`); nothing has passed through a connection nobody has (`UnheldIsUntouched`);
what a process knows about a number fits what has passed through its connection
(`NumberFits`: nothing, an incomplete id in the buffer with the task waiting, or the id with
everything behind it given and the task done), so that a number that is free is bare, whenever
its client has gone; and a session that is reached is the one of
its connection (`ReachedIsKnown`). A handler concerns one number, and `NumberSuffices`
reduces its proof to that number; the end of a process is `EmptiedStep`. The second half of
`SessionIsReached` needs `OneMasterInv`: the ids are those of the connections, so that the id
of one never takes the entry of another away.

**Proxy sessions.** Two invariants. `ConfirmedInv` is about one session at a time with the
cache: at most one operation is outstanding, and its kind says what has been established (an
operation that checks credentials has those of the request; one that reaches for the origin
has an admission that was confirmed; one inside of TLS has the admission of its `CONNECT`);
every request forwarded was admitted after a confirmation; and every cached password was
confirmed `Expire` before it expires (`CacheConfirmed`). Sessions meet only in the
cache, and a confirmation is never withdrawn, so that a step of one leaves the others as they
were. `OrderedInv` takes the bytes not yet parsed, `packet_in_` and what is still on the wire,
as one stream: it consists of whole requests in order, after the rest of one that was cut
(`Ordered`), and the operation outstanding says which request is due next and what is left
of the one in work (`OpOrdered`: waiting for a request, asked for confirmation, on the way
out, coming back, written to the client, refused, or opening a tunnel). The posts of a session
are paired and no uuid is above `guid_` (`Paired`). What `OrderedInv` says of responses is
under the condition that origins send one for each request (`OneEach`); the place in the
stream does not depend on it, and neither does `PipelinedIsServed`. A read cuts the stream at any place, and
the lemmas on streams (`ConcatFacts`, `CutFacts` and those built from them) say what is left;
a handler's lemma then moves the session from one phase to the next.

**Clients.** `ClientsInv` is `Good`, about the tables and the wires. A request
is in one place: among the replies being handled, on its way back, or with the server, on one
connection; it is there once and its callback has heard nothing (`WiresFit`, over all places
as `Lanes`). The queue of callbacks of Redis is what is being handled, then what is on its way,
then what the server has; a server that is gone leaves callbacks at its end
(`CallbacksFit`). The only number watched is that of the address, and callbacks are kept for
watched numbers only (`NumbersFit`); this is what makes a lost connection harmless: it takes its
callbacks along before the next one can get its number. A number that the program still holds
for a connection the server has closed is on its way to be closed (`HeldIsWatched`).
`cmd_addr` is taken apart into `connect`, `write` and `add_callback`, with a lemma for each and
each outcome; a turn of a loop into the callback, the request it may send and the hook. In
between, `Good` is true except for the callback that is running, which is its last parameter.

**Only model-checked.**

* Liveness (`EverySubmittedTaskRuns`, `EveryRequestIsTold`, `OnceFires`,
  `EveryoneIsServed`): out of the prover's reach, as it rests on fairness.
* `ClosedTogether`, `CallbacksFitConnection` and `WaitSeesAnswers`. The first two are about
  failures of which the interesting ones break them (section 5); for every value of the
  constants there is little to be said under a hypothesis that leaves these out.
* `Framing`, `Codecs` and `Gateways` use `RECURSIVE` operators (parsers, nested closes), in
  whose presence the prover has no SMT backend; what a parser computes for every input takes
  induction over data besides.

## 5. Where code and comments disagree

TLC finds each of the following with the configuration named, after the change in brackets;
the properties are definitions of the modules. Five of them fail in the configuration of a
run as it stands, so in the most ordinary environment: `WatchTakesEffect`,
`ClosedWithItsRemote`, `ToldOnceByEveryForm`, `NewConnectionLasts` and `WaitSeesEveryAnswer`.

Against a comment or a promise of the interface:

* `EventManager.cpp:415`: `auto_rewatch(_current_fd)` after a callback of the same event
  has closed the number, as the comment at line 435 expects it to, re-creates an entry; so does
  every other `watch` of a number whose close is pending. The next `watch` of that number
  modifies what is not in the epoll set (`EventManager.cfg`: `WatchTakesEffect`).
* `Protocol/ITunnelLike.cpp:45`: the early return of `on_close` leaves the buffer of a
  client whose connect failed at once (`Tunnel.cfg` with `{"sync_fail"}`: `Transparent`).
* `Client.cpp:83`: `EPIPE` inside of the `CONNECT` callback closes the remote before its
  `CLOSE` callback is registered (`Tunnel.cfg` with `{"epipe_on_flush"}`: `ClosedTogether`).
* `Client.cpp:40`: the blocking connect by name reports every failed address
  (`Connect.cfg`: `ToldOnceByEveryForm`; `ToldOnce` excepts this form).
* `Protocol/HttpGateway.cpp:147`: `close_remote` erases `_r2c` and leaves `_c2r`. When the
  number of that remote is used again, for the remote of another client, the first client's
  end closes it, and the other client, which the close callback no longer finds, is left
  waiting for a response, against the comment at line 158 (`Gateways.cfg`:
  `ClosedWithItsRemote`, in ten steps). `RemoteHasItsClient` has the two tables agree except
  for such a number (`orphan`), and says that nothing else is left.
* `Protocol/Socks.cpp:150` and the gateway set `_c2r` after `connect` returns, and so after
  the callback of a connect whose result is known at once; and a write from that callback
  may fail before the callbacks of the remote are registered (`Gateways.cfg` with
  `{"sync_fail"}`, `{"sync_ok"}` or `{"epipe_on_connect"}`: `RemoteHasItsClient`).
* `Client/Base.h:8` says that several addresses are supported. Connections are kept per
  address, the close of one that failed is put off, and the number is looked up by address
  again: requests go to another address (`Clients.cfg` with two addresses:
  `SentToItsAddress`, and `CallbacksFitConnection`, as a number that one address lost goes
  to the connection of the other with the callbacks that were kept for it).
* `Client/Base.cpp:14`: the forced close of a lost connection is put off to the end of a
  batch, and hits the new connection if that got the same number (`Clients.cfg`:
  `NewConnectionLasts`). Replies are never mixed up by it (`OwnReply` holds), but the next
  command may end the process in `unwatch`.
* `Client/Base.h:79`: a request that was written in part is sent again on a new connection;
  if that takes a part too, or a command to Redis has no callback, queue and replies no
  longer fit (`Clients.cfg` with `{"partial"}` or `{"no_callback"}`:
  `CallbacksFitConnection`; with `{"partial"}` `WaitSeesAnswers` too, as the reply finds no
  callback; with `{"no_callback"}`, or with `{"partial"}` and four numbers and connections,
  `OwnReply`, as the next callback gets it).
* `http_proxy/session.cpp:464`: an interim response (100) is passed on as the answer. On a
  tunnel the real one then answers the next request, and is posted as its response
  (`ProxySession.cfg` with `"interim"` in `Upstream`: `AnswersInOrder`, `CollectorCanPair`).
* `Protocol/Client/Soa.cpp:23-27`: a reply to a request without a callback, if there is no push
  callback either, is dropped together with the hook, so that `wait` does not see it, against
  `Client.h:51,53` (`Clients.cfg`: `WaitSeesEveryAnswer`; `WaitSeesAnswers` excepts it).
* `ClientServer.cpp:17`: ids are counted per process, so with two masters two clients have
  the same (`Sessions.cfg` with two `Masters`: `SessionIsReached`).

Part of a definition, as an exception that the property names:

* `http_proxy/http.cpp:203`: a response with neither a length nor chunks is accepted if a read
  happens to end with its head, and refused if a byte of its body has come by then: here the
  result does depend on the cut (`CutDoesNotMatter`, items of kind `unframed`).
* `Utils.cpp:241`: `parse_url` looks for `://` anywhere, so that a request whose query has an
  address in it is forwarded without its query (`PassedOnIntact`, `LineFor`).
* `Base64.cpp:48`: the encoding of no bytes fails the assertion of its own length, as
  `size() - 2` wraps around, and ends the process (`Base64ReadsBack`).

Met on the way, from reading alone:

* `EventManager.cpp:433-449`: a hang-up erases the entry of `_fds` and leaves `_write_buf[fd]`;
  the next connection on the number finds the bytes of the one before. `hup` leaves `write_buf`
  alone in the same way; that the bytes are of another file is not a property, as it is false
  after every hang-up with bytes waiting.
* `Client.cpp:189-199`: after `getaddrinfo` has failed the result is freed, read and freed
  again.
* `Protocol/Client/Redis.cpp:24,38` and `Soa.cpp:14,36`: a callback that sends over a broken
  connection invalidates the iterator of `on_message` (section 2, `MayNest`).
* `Protocol/Proxy.cpp:35` relies on `on_remote_connect` to close the client when the
  connect fails at once; at that moment the client is not watched yet, and `close` has no
  effect on it.
* The asynchronous connect by name returns its number even if all addresses have failed
  by then, and the connect with a timeout returns a socket whose connect has failed before
  the timeout, both against the comment at `Client.h:21`.
* `Protocol/HttpGateway.cpp:144`: if the write of a response closes the client (`EPIPE`),
  what follows takes a part of a request that is no longer there and throws; nothing
  catches it.
* `ClientServer.cpp:163`: `connect_parent` tests the port and not the socket and never
  connects, so that the channel to the parent stays closed; `Global::on_message` compares
  the length with the size of another type; `_rr_index` and `_parent_port` have no initial
  value.
* `http_proxy/session.cpp`: after a 407 the session reads without looking at the requests
  that have come already (`PipelinedIsServed` is about the other answers).

## 6. Not modelled

* In the modelled parts: TLS descriptors, `sendto`, the bytes of `_write_buf` (only whose
  they are), `EPOLLET` in `EventManager` (any armed event may be reported at any time;
  `Scheduler` and `Sessions` have it), `connect_ssl`, a `getaddrinfo` that fails (but in `Gateways`), a `fire`
  from inside of a callback of the same hook, `EventHookGlobal`, a `wait` from inside of a
  callback, UDP, control frames between the fragments of a `WebSocket` message.
* The channel between workers and their parent (`Global`): the code never opens it.
* `EasyP2P` (a register of names over lines of text), `SoaProxy` (does not compile), `Echo`.
* `Json::decode` breaks off in the middle of its grammar; `Utf16` is used by nothing.
* `SSLConnection`, shared memory and allocators, logging: wrappers of system calls and
  libraries without a state machine of their own.
* The PHP framework: each request is sequential and keeps nothing. Code generators,
  bindings, the Kafka aggregator and the sample programs (`apue`, `ffmpeg`, `opencv`,
  `tesseract`, data structures): exercises that no part of the system uses.

## 7. Plan

What can be modelled is modelled, and the safety of `ThreadPool`, `EventManager`,
`EventHook`, `Scheduler`, `Connect`, `Tunnel`, `Sessions`, `ProxySession` and `Clients` is
proved. What is left is `Gateways`: a close runs callbacks that close again, along chains of
numbers that `_c2r` has kept and others have got since, so that a proof has to make every
close of such a chain a step of its own, as `EventManager` does.
