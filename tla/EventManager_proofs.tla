------------------------- MODULE EventManager_proofs -------------------------
(***************************************************************************)
(* Proofs about EventManager for any set of descriptor numbers, any number *)
(* of connections, any nesting of callbacks, any callback sets and any     *)
(* flags the kernel may report.                                            *)
(***************************************************************************)
EXTENDS EventManager, TLAPS

-----------------------------------------------------------------------------
(* Facts about the building blocks.                                        *)

\* The facts about the constants that the proofs use.
LEMMA ConstantFacts ==
  /\ NoFd \notin Fds
  /\ MaxConn \in Nat /\ MaxDepth \in Nat
  /\ \A E \in CbSets : E \subseteq EventType
  /\ \A e \in Events : e \in EventType
  /\ \A f \in FlagSets : f \subseteq Flags /\ f # {}
<1>1. NoFd \notin Fds /\ MaxConn \in Nat /\ MaxDepth \in Nat
  BY FdsAssumption, BoundsAssumption
<1>2. \A E \in CbSets : E \subseteq EventType
  BY CbSetsAssumption
<1>3. \A e \in Events : e \in EventType
  BY EventsAssumption
<1>4. \A f \in FlagSets : f \subseteq Flags /\ f # {}
  BY FlagSetsAssumption
<1>5. QED
  BY <1>1, <1>2, <1>3, <1>4

\* The flags that a registration asks for are a non-empty set of flags.
LEMMA InterestType ==
  ASSUME NEW E, NEW b
  PROVE  Interest(E, b) \subseteq Flags /\ Interest(E, b) # {}
BY DEF Interest, Flags

\* The frame that a callback returns to is a frame.
LEMMA ReturnType == Return \in Frames
BY DEF Return, Frames

\* Pushing a frame.
LEMMA CallType ==
  ASSUME stack \in Seq(Frames), NEW f \in Frames, Call(f)
  PROVE  stack' \in Seq(Frames)
BY DEF Call

\* Recording a callback.
LEMMA CalledType ==
  ASSUME due \in [Conns -> SUBSET Tracked], calls \in [Conns -> [Tracked -> 0..2]],
         NEW c, NEW e \in Tracked, NEW tardy
  PROVE  /\ Called(c, e, tardy) => /\ due' \in [Conns -> SUBSET Tracked]
                                   /\ calls' \in [Conns -> [Tracked -> 0..2]]
         /\ Count(c, e, tardy) => calls' \in [Conns -> [Tracked -> 0..2]]
BY DEF Called, Count

\* The part of the type invariant that is about the table.
TableType ==
    /\ epoll \in [Fds -> SUBSET Flags]
    /\ fds \subseteq Fds
    /\ cb \in [Fds -> SUBSET EventType]
    /\ owner \in [Fds -> 0..nconn]
    /\ late \subseteq fds
    /\ current_cb \in SUBSET EventType

\* _epoll_update keeps the types of the epoll set and of the entries.
LEMMA UpdateType ==
  ASSUME TypeOK, NEW op, NEW fd \in Fds, NEW E \in SUBSET EventType, NEW b,
         _epoll_update(op, fd, E, b)
  PROVE  /\ epoll' \in [Fds -> SUBSET Flags]
         /\ fds' \subseteq Fds
         /\ cb' \in [Fds -> SUBSET EventType]
         /\ late' \subseteq fds'
BY InterestType DEF TypeOK, _epoll_update

\* auto_rewatch keeps the type of the table.
LEMMA RewatchType ==
  ASSUME TypeOK, NEW fd \in Fds, NEW b, auto_rewatch(fd, b),
         UNCHANGED <<nconn, current_cb>>
  PROVE  TableType'
<1>1. cb[fd] \in SUBSET EventType
  BY DEF TypeOK
<1>2. owner' \in [Fds -> 0..nconn]
  BY DEF TypeOK, auto_rewatch
<1>3. QED
  BY <1>1, <1>2, UpdateType DEF auto_rewatch, TypeOK, TableType

\* Erasing an entry keeps the type of the table.
LEMMA EraseType ==
  ASSUME TypeOK, NEW fd \in Fds, erase(fd), UNCHANGED nconn
  PROVE  TableType'
BY DEF TypeOK, erase, TableType, NoConn

\* Registering and dropping callbacks.
LEMMA RegisterType ==
  ASSUME TypeOK, NEW fd \in Fds, NEW E, cb' \in [Fds -> SUBSET EventType]
  PROVE  /\ Register(fd, E) => /\ due' \in [Conns -> SUBSET Tracked]
                               /\ calls' \in [Conns -> [Tracked -> 0..2]]
         /\ Dropped(fd) => due' \in [Conns -> SUBSET Tracked]
<1>1. ASSUME Register(fd, E) PROVE due' \in [Conns -> SUBSET Tracked]
  BY <1>1 DEF Register, TypeOK
<1>2. ASSUME Register(fd, E) PROVE calls' \in [Conns -> [Tracked -> 0..2]]
  <2>1. CASE conn[fd] \notin Conns \/ fd \in late'
    BY <1>2, <2>1 DEF Register, TypeOK
  <2>2. CASE conn[fd] \in Conns /\ fd \notin late'
    <3>1. calls[conn[fd]] \in [Tracked -> 0..2]
      BY <2>2 DEF TypeOK
    <3>2. [e \in Tracked |-> IF e \in E THEN 0 ELSE calls[conn[fd]][e]] \in [Tracked -> 0..2]
      BY <3>1
    <3>3. calls' = [calls EXCEPT ![conn[fd]] =
                      [e \in Tracked |-> IF e \in E THEN 0 ELSE calls[conn[fd]][e]]]
      BY <1>2, <2>2 DEF Register
    <3>4. QED
      BY <3>2, <3>3 DEF TypeOK
  <2>3. QED
    BY <2>1, <2>2
<1>3. Dropped(fd) => due' \in [Conns -> SUBSET Tracked]
  BY DEF Dropped, TypeOK
<1>4. QED
  BY <1>1, <1>2, <1>3

\* unwatch followed by the put-off close keeps the types of what it writes.
LEMMA UnwatchAndCloseType ==
  ASSUME TypeOK, NEW fd \in Fds, NEW close_cb \in BOOLEAN,
         unwatch_and_close(fd, close_cb), UNCHANGED nconn
  PROVE  /\ TableType'
         /\ close_fds' \subseteq Fds
         /\ stack' \in Seq(Frames)
         /\ due' \in [Conns -> SUBSET Tracked]
         /\ calls' \in [Conns -> [Tracked -> 0..2]]
<1>1. TableType'
  BY EraseType DEF unwatch_and_close
<1>2. [then |-> "add_close", fd |-> fd, close_cb |-> close_cb, late |-> fd \in late]
        \in Frames
  BY DEF Frames
<1>3. QED
  BY <1>1, <1>2, ReturnType, CallType, CalledType
     DEF unwatch_and_close, TypeOK, Tracked

-----------------------------------------------------------------------------
(* Type correctness.                                                       *)

\* The calls of user code keep TypeOK.
LEMMA UserType ==
  ASSUME TypeOK, User PROVE TypeOK'
<1>1. CASE Open
  <2>1. nconn' = nconn + 1 /\ nconn' \in 0..MaxConn
    BY <1>1, ConstantFacts DEF Open, TypeOK
  <2>2. \A n \in 0..nconn : n \in 0..nconn'
    BY <2>1 DEF TypeOK
  <2>3. /\ owner' = owner /\ gathered' = gathered
        /\ UNCHANGED <<epoll, fds, cb, late, write_buf, close_fds, ready, current_fd, flags, stage,
                       current_cb, stack, due, calls>>
    BY <1>1 DEF Open, table, loop, history
  <2>4. conn' \in [Fds -> 0..nconn']
    <3> PICK fd \in Fds : conn' = [conn EXCEPT ![fd] = nconn + 1]
      BY <1>1 DEF Open
    <3> QED
      BY <2>1, <2>2 DEF TypeOK
  <2>5. owner' \in [Fds -> 0..nconn'] /\ gathered' \in [Fds -> 0..nconn']
    BY <2>2, <2>3 DEF TypeOK
  <2>6. QED
    BY <2>1, <2>3, <2>4, <2>5 DEF TypeOK
<1>2. ASSUME NEW fd \in Fds, NEW e \in Events, watch_event(fd, e) PROVE TypeOK'
  <2>1. cb[fd] \union {e} \in SUBSET EventType
    BY ConstantFacts DEF TypeOK
  <2>2. /\ epoll' \in [Fds -> SUBSET Flags] /\ fds' \subseteq Fds
        /\ cb' \in [Fds -> SUBSET EventType] /\ late' \subseteq fds'
    BY <1>2, <2>1, UpdateType DEF watch_event
  <2>3. owner' \in [Fds -> 0..nconn] /\ current_cb' \in SUBSET EventType
    BY <1>2, ConstantFacts DEF watch_event, TypeOK
  <2>4. due' \in [Conns -> SUBSET Tracked] /\ calls' \in [Conns -> [Tracked -> 0..2]]
    BY <1>2, <2>2, RegisterType DEF watch_event
  <2>5. QED
    BY <1>2, <2>2, <2>3, <2>4 DEF watch_event, TypeOK, kernel, loop
<1>3. ASSUME NEW fd \in Fds, NEW E \in CbSets, NEW re_watch \in BOOLEAN,
             watch(fd, E, re_watch)
      PROVE  TypeOK'
  <2>1. E \in SUBSET EventType
    BY ConstantFacts
  <2>2. /\ epoll' \in [Fds -> SUBSET Flags] /\ fds' \subseteq Fds
        /\ cb' \in [Fds -> SUBSET EventType] /\ late' \subseteq fds'
    BY <1>3, <2>1, UpdateType DEF watch
  <2>3. owner' \in [Fds -> 0..nconn] /\ current_cb' \in SUBSET EventType
    BY <1>3, <2>1 DEF watch, TypeOK
  <2>4. due' \in [Conns -> SUBSET Tracked] /\ calls' \in [Conns -> [Tracked -> 0..2]]
    BY <1>3, <2>2, RegisterType DEF watch
  <2>5. QED
    BY <1>3, <2>2, <2>3, <2>4 DEF watch, TypeOK, kernel, loop
<1>4. ASSUME NEW fd \in Fds, NEW no_callback \in BOOLEAN, unwatch(fd, no_callback)
      PROVE  TypeOK'
  <2>1. TableType'
    BY <1>4, EraseType DEF unwatch, kernel
  <2>4. due' \in [Conns -> SUBSET Tracked]
    BY <1>4, <2>1, RegisterType DEF unwatch, TableType
  <2>2. stack' \in Seq(Frames) /\ calls' \in [Conns -> [Tracked -> 0..2]]
    BY <1>4, ReturnType, CallType, CalledType DEF unwatch, TypeOK, Tracked
  <2>3. QED
    BY <1>4, <2>1, <2>2, <2>4 DEF unwatch, TypeOK, TableType, kernel, loop
<1>5. ASSUME NEW fd \in Fds, NEW force_close \in BOOLEAN, close(fd, force_close)
      PROVE  TypeOK'
  <2>1. write_buf' \subseteq Fds /\ UNCHANGED <<kernel, loop>>
    BY <1>5 DEF close, TypeOK
  <2>2. CASE unwatch_and_close(fd, "CLOSE" \in cb[fd])
    <3>1. /\ TableType' /\ close_fds' \subseteq Fds /\ stack' \in Seq(Frames)
          /\ due' \in [Conns -> SUBSET Tracked]
          /\ calls' \in [Conns -> [Tracked -> 0..2]]
      <4>1. ("CLOSE" \in cb[fd]) \in BOOLEAN /\ UNCHANGED nconn
        BY <2>1 DEF kernel
      <4>2. QED
        BY <2>2, <4>1, UnwatchAndCloseType
    <3>2. QED
      BY <2>1, <3>1 DEF TypeOK, TableType, kernel, loop
  <2>3. CASE /\ close_fds' = IF force_close THEN close_fds \union {fd} ELSE close_fds
             /\ UNCHANGED <<table, current_cb, stack, history>>
    BY <2>1, <2>3 DEF TypeOK, kernel, loop, table, history
  <2>4. QED
    BY <1>5, <2>2, <2>3 DEF close
<1>6. ASSUME NEW fd \in Fds, write_again(fd) PROVE TypeOK'
  <2>1. TableType' /\ write_buf' \subseteq Fds
    BY <1>6, RewatchType DEF write_again, kernel, TypeOK
  <2>2. QED
    BY <1>6, <2>1 DEF write_again, TypeOK, TableType, kernel, loop, history
<1>7. CASE on_fork
  <2>1. epoll' \in [Fds -> SUBSET Flags]
    BY <1>7, InterestType DEF on_fork
  <2>2. QED
    BY <1>7, <2>1 DEF on_fork, TypeOK, kernel, loop, history
<1>8. CASE error_exit
  BY <1>8 DEF error_exit, TypeOK, kernel, table, history, Stages, Dispatching
<1>9. CASE callback_returns
  <2> DEFINE top == stack[Len(stack)]
             rest == SubSeq(stack, 1, Len(stack) - 1)
  <2>1. stack \in Seq(Frames) /\ stack # <<>>
    BY <1>9 DEF callback_returns, TypeOK
  <2>2. top \in Frames /\ rest \in Seq(Frames)
    BY <2>1
  <2>3. top.then = "add_close" => top.fd \in Fds
    BY <2>2 DEF Frames
  <2>4. stack' \in Seq(Frames) /\ close_fds' \subseteq Fds
    <3>1. Append(rest, Return) \in Seq(Frames)
      BY <2>2, ReturnType
    <3>2. stack' = rest \/ stack' = Append(rest, Return)
      BY <1>9 DEF callback_returns
    <3>3. close_fds' = close_fds \/ (close_fds' = close_fds \union {top.fd} /\ top.fd \in Fds)
      BY <1>9, <2>3 DEF callback_returns
    <3>4. QED
      BY <2>2, <3>1, <3>2, <3>3 DEF TypeOK
  <2>5. due' \in [Conns -> SUBSET Tracked] /\ calls' \in [Conns -> [Tracked -> 0..2]]
    BY <1>9, CalledType DEF callback_returns, TypeOK, Tracked, history
  <2>6. QED
    BY <1>9, <2>4, <2>5 DEF callback_returns, TypeOK, kernel, table, loop
<1>10. QED
  BY <1>1, <1>2, <1>3, <1>4, <1>5, <1>6, <1>7, <1>8, <1>9 DEF User, write_epipe

\* Calling a callback from handle_events keeps the stack a stack.
LEMMA CallReturnType ==
  ASSUME TypeOK, Call(Return) PROVE stack' \in Seq(Frames)
BY ReturnType, CallType DEF TypeOK

\* The handling of EPOLLOUT (out) keeps TypeOK.
LEMMA OutType ==
  ASSUME TypeOK, out PROVE TypeOK'
<1>1. current_fd \in Fds
  BY DEF out, LoopAt, TypeOK, Dispatching
<1>2. CASE "OUT" \notin flags
  BY <1>1, <1>2 DEF out, PassOver, Goto, TypeOK, kernel, table, history, Stages
<1>3. CASE "OUT" \in flags
  <2>1. stage' = "err" /\ UNCHANGED <<ready, gathered, current_fd, flags>> /\ UNCHANGED kernel
    BY <1>3 DEF out, Goto, out_finished, out_again, out_failed
  <2>2. write_buf' \subseteq Fds
    BY <1>3 DEF out, out_finished, out_again, out_failed, TypeOK
  <2>3. CASE out_finished
    <3>1. TableType'
      BY <1>1, <2>1, <2>3, RewatchType DEF out_finished, kernel, table, TypeOK, TableType
    <3>2. stack' \in Seq(Frames)
      BY <2>3, CallReturnType DEF out_finished, TypeOK
    <3>3. QED
      BY <1>1, <2>1, <2>2, <2>3, <3>1, <3>2
         DEF out_finished, TypeOK, TableType, kernel, history, Stages
  <2>4. CASE out_again
    <3>1. TableType'
      BY <1>1, <2>1, <2>4, RewatchType DEF out_again, kernel
    <3>2. QED
      BY <1>1, <2>1, <2>2, <2>4, <3>1 DEF out_again, TypeOK, TableType, kernel, history, Stages
  <2>5. ASSUME NEW epipe \in BOOLEAN, out_failed(epipe) PROVE TypeOK'
    <3>1. CASE unwatch_and_close(current_fd, "CLOSE" \in cb[current_fd])
      <4>1. ("CLOSE" \in cb[current_fd]) \in BOOLEAN /\ UNCHANGED nconn
        BY <2>1 DEF kernel
      <4>2. /\ TableType' /\ close_fds' \subseteq Fds /\ stack' \in Seq(Frames)
            /\ due' \in [Conns -> SUBSET Tracked]
            /\ calls' \in [Conns -> [Tracked -> 0..2]]
        BY <1>1, <3>1, <4>1, UnwatchAndCloseType
      <4>3. QED
        BY <1>1, <2>1, <2>2, <4>2 DEF TypeOK, TableType, kernel, Stages
    <3>2. CASE UNCHANGED <<table, close_fds, current_cb, stack, history>>
      BY <1>1, <2>1, <2>2, <3>2 DEF TypeOK, kernel, table, history, Stages
    <3>3. QED
      BY <2>5, <3>1, <3>2 DEF out_failed
  <2>6. QED
    BY <1>3, <2>3, <2>4, <2>5 DEF out
<1>4. QED
  BY <1>2, <1>3

\* The steps of handle_events keep TypeOK.
LEMMA HandleEventsType ==
  ASSUME TypeOK, handle_events PROVE TypeOK'
<1>1. ASSUME NEW fd \in Fds, next_event(fd) PROVE TypeOK'
  BY <1>1 DEF next_event, TypeOK, kernel, table, history, Stages, Dispatching
<1>2. CASE connect_ok
  <2>1. current_fd \in Fds
    BY <1>2 DEF connect_ok, LoopAt, TypeOK, Dispatching
  <2>2. cb' \in [Fds -> SUBSET EventType] /\ current_cb' \in SUBSET EventType
    BY <1>2, <2>1 DEF connect_ok, TypeOK
  <2>3. /\ stack' \in Seq(Frames) /\ due' \in [Conns -> SUBSET Tracked]
        /\ calls' \in [Conns -> [Tracked -> 0..2]]
    BY <1>2, CallReturnType, CalledType DEF connect_ok, CallCurrent, TypeOK, Tracked
  <2>4. QED
    BY <1>2, <2>1, <2>2, <2>3 DEF connect_ok, CallCurrent, Goto, TypeOK, kernel, Stages
<1>3. CASE connect_ng
  <2>1. current_fd \in Fds
    BY <1>3 DEF connect_ng, LoopAt, TypeOK, Dispatching
  <2>2. TableType'
    BY <1>3, <2>1, EraseType DEF connect_ng, CallCurrent, kernel
  <2>3. stack' \in Seq(Frames) /\ calls' \in [Conns -> [Tracked -> 0..2]]
    BY <1>3, CallReturnType, CalledType DEF connect_ng, CallCurrent, TypeOK, Tracked
  <2>4. due' \in [Conns -> SUBSET Tracked]
    BY <1>3, <2>1, <2>2, RegisterType DEF connect_ng, TableType
  <2>5. QED
    BY <1>3, <2>1, <2>2, <2>3, <2>4
       DEF connect_ng, CallCurrent, NextOfBatch, Dispatching, TypeOK, TableType, kernel, Stages
<1>4. CASE no_connect
  BY <1>4 DEF no_connect, LoopAt, PassOver, Goto, TypeOK, kernel, table, history, Stages,
              Dispatching
<1>5. CASE read
  <2>1. stack' \in Seq(Frames)
    BY <1>5, CallReturnType DEF read, CallCurrent, PassOver, TypeOK
  <2>2. QED
    BY <1>5, <2>1 DEF read, LoopAt, CallCurrent, PassOver, Goto, TypeOK, kernel, table,
                      history, Stages, Dispatching
<1>6. CASE out
  BY <1>6, OutType
<1>7. CASE err
  <2>1. stack' \in Seq(Frames)
    BY <1>7, CallReturnType DEF err, CallCurrent, TypeOK
  <2>2. flags' \in SUBSET Flags
    BY <1>7 DEF err, Goto, TypeOK, Flags
  <2>3. QED
    BY <1>7, <2>1, <2>2 DEF err, LoopAt, CallCurrent, Goto, TypeOK, kernel, table,
                            history, Stages, Dispatching
<1>8. CASE hup
  <2>1. current_fd \in Fds
    BY <1>8 DEF hup, LoopAt, TypeOK, Dispatching
  <2>2. CASE unwatch_and_close(current_fd, "CLOSE" \in current_cb)
             /\ NextOfBatch /\ UNCHANGED <<kernel, write_buf>>
    <3>1. ("CLOSE" \in current_cb) \in BOOLEAN /\ UNCHANGED nconn
      BY <2>2 DEF kernel
    <3>2. /\ TableType' /\ close_fds' \subseteq Fds /\ stack' \in Seq(Frames)
          /\ due' \in [Conns -> SUBSET Tracked]
          /\ calls' \in [Conns -> [Tracked -> 0..2]]
      BY <2>1, <2>2, <3>1, UnwatchAndCloseType
    <3>3. QED
      BY <2>2, <3>2 DEF NextOfBatch, TypeOK, TableType, kernel, Stages, Dispatching
  <2>3. CASE UNCHANGED <<kernel, table, write_buf, close_fds, stack, history>> /\ NextOfBatch
    BY <2>3 DEF NextOfBatch, TypeOK, kernel, table, history, Stages, Dispatching
  <2>4. QED
    BY <1>8, <2>2, <2>3 DEF hup
<1>9. CASE close_pending
  <2>1. /\ conn' \in [Fds -> 0..nconn] /\ epoll' \in [Fds -> SUBSET Flags]
        /\ gathered' \in [Fds -> 0..nconn]
    BY <1>9 DEF close_pending, TypeOK, NoConn
  <2>2. calls' \in [Conns -> [Tracked -> 0..2]]
    BY <1>9 DEF close_pending, TypeOK
  <2>3. QED
    BY <1>9, <2>1, <2>2 DEF close_pending, TypeOK, Stages, Dispatching
<1>10. QED
  BY <1>1, <1>2, <1>3, <1>4, <1>5, <1>6, <1>7, <1>8, <1>9 DEF handle_events

\* The steps of the loop keep TypeOK.
LEMMA LoopType ==
  ASSUME TypeOK,
         \/ \E s \in {"check", "epoll_wait", "exited"} : event_loop(s)
         \/ \E batch \in [Fds -> FlagSets \union {{}}] : epoll_wait(batch)
         \/ epoll_wait_eintr
  PROVE  TypeOK'
<1>1. ASSUME NEW s \in {"check", "epoll_wait", "exited"}, event_loop(s) PROVE TypeOK'
  BY <1>1 DEF event_loop, TypeOK, kernel, table, history, Stages, Dispatching
<1>2. ASSUME NEW batch \in [Fds -> FlagSets \union {{}}], epoll_wait(batch) PROVE TypeOK'
  <2>1. ready' \in [Fds -> SUBSET Flags]
    BY <1>2, ConstantFacts DEF epoll_wait
  <2>2. QED
    BY <1>2, <2>1 DEF epoll_wait, TypeOK, kernel, table, history, Stages, Dispatching
<1>3. CASE epoll_wait_eintr
  BY <1>3 DEF epoll_wait_eintr, TypeOK, kernel, table, history, Stages, Dispatching
<1>4. QED
  BY <1>1, <1>2, <1>3

\* A stuttering step keeps TypeOK.
LEMMA StutterType ==
  ASSUME TypeOK, UNCHANGED vars PROVE TypeOK'
BY DEF TypeOK, vars, kernel, table, loop, history

\* Every operation of the interface and every step of handle_events keeps
\* the state well formed; in particular an event is handled only for a
\* descriptor number, never for the -1 that _current_fd holds between batches.
THEOREM TypeCorrect == Spec => []TypeOK
<1>1. Init => TypeOK
  BY ConstantFacts DEF Init, TypeOK, Stages, Dispatching, NoConn, Tracked
<1>2. TypeOK /\ [Next]_vars => TypeOK'
  BY UserType, HandleEventsType, LoopType, StutterType DEF Next, stopped
<1>3. QED
  BY <1>1, <1>2, PTL DEF Spec
\* Calling a callback puts its frame, and nothing else, on the stack.
LEMMA PushInStack ==
  ASSUME TypeOK, NEW f \in Frames, Call(f), NEW g
  PROVE  InStack(g)' <=> InStack(g) \/ f.fd = g
<1>1. stack \in Seq(Frames) /\ stack' = Append(stack, f)
  BY DEF TypeOK, Call
<1>2. DOMAIN stack' = DOMAIN stack \union {Len(stack) + 1} /\ stack'[Len(stack) + 1] = f
      /\ \A i \in DOMAIN stack : stack'[i] = stack[i]
  BY <1>1
<1>3. QED
  BY <1>2 DEF InStack

\* A frame without a descriptor.
LEMMA PushReturn ==
  ASSUME TypeOK, Call(Return), NEW g \in Fds
  PROVE  InStack(g)' <=> InStack(g)
<1>1. Return.fd # g
  BY ConstantFacts DEF Return
<1>2. QED
  BY <1>1, ReturnType, PushInStack

\* When a callback returns, numbers only leave the stack; the one of the top
\* frame, if it has one, is in _close_fds afterwards.
LEMMA PopInStack ==
  ASSUME TypeOK, callback_returns, NEW g \in Fds
  PROVE  Closing(g)' => Closing(g)
<1> DEFINE top == stack[Len(stack)]
           rest == SubSeq(stack, 1, Len(stack) - 1)
<1>1. stack \in Seq(Frames) /\ stack # <<>> /\ Len(stack) \in DOMAIN stack
  BY DEF callback_returns, TypeOK
<1>2. DOMAIN rest \subseteq DOMAIN stack /\ \A i \in DOMAIN rest : rest[i] = stack[i]
  BY <1>1
<1>3. stack' = rest \/ stack' = Append(rest, Return)
  BY DEF callback_returns
<1>4. InStack(g)' => InStack(g)
  <2>1. CASE stack' = rest
    BY <1>2, <2>1 DEF InStack
  <2>2. CASE stack' = Append(rest, Return)
    <3>1. rest \in Seq(Frames) /\ Return.fd # g
      BY <1>1, ConstantFacts DEF Return
    <3>2. \A i \in DOMAIN stack' : (i \in DOMAIN rest /\ stack'[i] = rest[i]) \/ stack'[i] = Return
      BY <2>2, <3>1
    <3>3. QED
      BY <1>2, <3>1, <3>2 DEF InStack
  <2>3. QED
    BY <1>3, <2>1, <2>2
<1>5. close_fds' \subseteq close_fds \union {top.fd}
  BY DEF callback_returns
<1>6. InStack(top.fd)
  BY <1>1 DEF InStack
<1>7. QED
  BY <1>4, <1>5, <1>6 DEF Closing

-----------------------------------------------------------------------------
(* Events go to the file they were reported for.                           *)
-----------------------------------------------------------------------------
(* Events go to the file they were reported for.                           *)

\* What a step may do to the entry of g: keep it, and arm nothing new; make
\* it for the file that g stands for; or take it out.
Kept(g) == /\ g \in fds /\ g \in fds' /\ owner'[g] = owner[g]
           /\ epoll'[g] # {} => epoll[g] # {}
Made(g) == g \in fds' /\ conn[g] # NoConn /\ owner'[g] = conn[g]
Gone(g) == g \notin fds' /\ cb'[g] = {} /\ owner'[g] = NoConn /\ epoll'[g] = {}

\* What a step may do to the event that is being handled: go on with it, end
\* the process, or be done with it.
SameEvent ==
    \/ /\ current_fd' = current_fd
       /\ stage' = stage \/ {stage, stage'} \subseteq Dispatching
    \/ stage' = "died"
    \/ stage' \in {"pick", "check", "epoll_wait", "exited"} /\ current_fd' = NoFd

\* The steps that change the entries in these ways, and neither the kernel nor
\* what is left of the batch, keep DispatchInv.
LEMMA EntriesStep ==
  ASSUME TypeOK, TypeOK', DispatchInv, UNCHANGED <<conn, gathered, ready>>, SameEvent,
         \A g \in Fds : Kept(g) \/ Made(g) \/ Gone(g),
         stage' \in Dispatching => current_cb' = cb'[current_fd']
  PROVE  DispatchInv'
<1>1. \A g \in Fds : g \in fds' => (g \in fds /\ owner'[g] = owner[g]) \/ Fresh(g)'
  BY DEF Kept, Made, Gone, Fresh
<1>2. ArmedIsFresh'
  BY DEF DispatchInv, ArmedIsFresh, Kept, Made, Gone, Fresh
<1>3. BatchStaysOpen'
  BY DEF DispatchInv, BatchStaysOpen
<1>4. BatchIsFresh'
  BY <1>1 DEF DispatchInv, BatchIsFresh, Fresh, TypeOK
<1>5. stage' \in Dispatching => stage \in Dispatching /\ current_fd' = current_fd
  BY DEF SameEvent, Dispatching
<1>6. stage' = "setup" => stage = "setup"
  BY DEF SameEvent, Dispatching
<1>7. CurrentIsGathered'
  BY <1>1, <1>5 DEF DispatchInv, CurrentIsGathered, Fresh, TypeOK
<1>8. EntriesAgree'
  <2>1. \A g \in Fds : g \notin fds' => cb'[g] = {} /\ owner'[g] = NoConn
    BY DEF Kept, Made, Gone
  <2>2. stage' \notin Dispatching \union {"died"} => current_fd' = NoFd
    BY DEF SameEvent, DispatchInv, EntriesAgree, Dispatching
  <2>3. QED
    BY <2>1, <2>2 DEF EntriesAgree
<1>9. SetupIsFresh'
  BY <1>1, <1>6 DEF DispatchInv, SetupIsFresh, Fresh, TypeOK
<1>10. CopyAgrees'
  BY DEF CopyAgrees
<1>11. NoStaleDispatch'
  <2> SUFFICES ASSUME stage' \in Dispatching, current_cb' # {}
               PROVE  owner'[current_fd'] = gathered'[current_fd']
    BY DEF NoStaleDispatch
  <2>1. current_fd' \in Fds /\ current_fd' \in fds'
    BY <1>8 DEF EntriesAgree, TypeOK
  <2>2. QED
    BY <1>3, <1>7, <2>1 DEF CurrentIsGathered, BatchStaysOpen, Fresh
<1>12. QED
  BY <1>2, <1>3, <1>4, <1>7, <1>8, <1>9, <1>10, <1>11 DEF DispatchInv

\* An entry that a step leaves alone.
LEMMA UntouchedEntry ==
  ASSUME DispatchInv, NEW g \in Fds, g \in fds' <=> g \in fds, cb'[g] = cb[g],
         owner'[g] = owner[g], epoll'[g] = epoll[g]
  PROVE  Kept(g) \/ Gone(g)
BY DEF DispatchInv, EntriesAgree, ArmedIsFresh, Kept, Gone

\* The steps that leave the table, the kernel and the batch alone.
LEMMA PlainStep ==
  ASSUME TypeOK, TypeOK', DispatchInv, UNCHANGED <<table, conn, gathered, ready>>, SameEvent,
         stage' \in Dispatching => current_cb' = current_cb
  PROVE  DispatchInv'
<1>1. \A g \in Fds : Kept(g) \/ Made(g) \/ Gone(g)
  BY UntouchedEntry DEF table
<1>2. stage' \in Dispatching => stage \in Dispatching /\ current_fd' = current_fd
  BY DEF SameEvent, Dispatching
<1>3. stage' \in Dispatching => current_cb' = cb'[current_fd']
  BY <1>2 DEF DispatchInv, CopyAgrees, table
<1>4. QED
  BY <1>1, <1>3, EntriesStep

\* A number that is erased has no callbacks; the others keep theirs.
LEMMA EraseFacts ==
  ASSUME TypeOK, NEW fd \in Fds, erase(fd)
  PROVE  /\ fds' = fds \ {fd} /\ late' = late \ {fd}
         /\ cb'[fd] = {} /\ epoll'[fd] = {} /\ owner'[fd] = NoConn
         /\ \A g \in Fds \ {fd} : cb'[g] = cb[g] /\ epoll'[g] = epoll[g] /\ owner'[g] = owner[g]
         /\ current_cb' = IF fd = current_fd THEN {} ELSE current_cb
BY DEF TypeOK, erase

\* A number is erased.
LEMMA EraseStep ==
  ASSUME TypeOK, TypeOK', DispatchInv, NEW fd \in Fds, erase(fd),
         UNCHANGED <<conn, gathered, ready>>, SameEvent
  PROVE  DispatchInv'
<1>1. \A g \in Fds : Kept(g) \/ Made(g) \/ Gone(g)
  <2>1. Gone(fd)
    BY EraseFacts DEF Gone
  <2>2. \A g \in Fds \ {fd} : Kept(g) \/ Gone(g)
    BY EraseFacts, UntouchedEntry
  <2>3. QED
    BY <2>1, <2>2
<1>2. stage' \in Dispatching => current_cb' = cb'[current_fd']
  <2>1. stage' \in Dispatching => /\ stage \in Dispatching /\ current_fd' = current_fd
                                  /\ current_fd \in Fds /\ current_cb = cb[current_fd]
    BY DEF SameEvent, Dispatching, DispatchInv, CopyAgrees, TypeOK
  <2>2. QED
    BY <2>1, EraseFacts
<1>3. QED
  BY <1>1, <1>2, EntriesStep

\* Callbacks are registered, or registered again, for an open number.
LEMMA UpdateStep ==
  ASSUME TypeOK, TypeOK', DispatchInv, NEW fd \in Fds, NEW op, NEW E, NEW b,
         conn[fd] # NoConn, _epoll_update(op, fd, E, b),
         \/ owner' = [owner EXCEPT ![fd] = conn[fd]]
         \/ owner' = owner /\ fd \in fds /\ op = "MOD",
         current_cb' = IF fd = current_fd THEN E ELSE current_cb,
         UNCHANGED <<conn, gathered, ready>>, SameEvent
  PROVE  DispatchInv'
<1>1. /\ fds' = fds \union {fd} /\ cb'[fd] = E
      /\ op = "MOD" /\ epoll'[fd] # {} => epoll[fd] # {}
      /\ \A g \in Fds \ {fd} : cb'[g] = cb[g] /\ epoll'[g] = epoll[g] /\ owner'[g] = owner[g]
  BY DEF TypeOK, _epoll_update, EpollCtlWorks
<1>2. \A g \in Fds : Kept(g) \/ Made(g) \/ Gone(g)
  <2>1. Kept(fd) \/ Made(fd)
    BY <1>1 DEF Kept, Made, TypeOK
  <2>2. \A g \in Fds \ {fd} : Kept(g) \/ Gone(g)
    BY <1>1, UntouchedEntry
  <2>3. QED
    BY <2>1, <2>2
<1>3. stage' \in Dispatching => current_cb' = cb'[current_fd']
  <2>1. stage' \in Dispatching => /\ stage \in Dispatching /\ current_fd' = current_fd
                                  /\ current_fd \in Fds /\ current_cb = cb[current_fd]
    BY DEF SameEvent, Dispatching, DispatchInv, CopyAgrees, TypeOK
  <2>2. QED
    BY <1>1, <2>1
<1>4. QED
  BY <1>2, <1>3, EntriesStep

\* auto_rewatch registers nothing new: an entry it makes is empty.
LEMMA RewatchStep ==
  ASSUME TypeOK, TypeOK', DispatchInv, NEW fd \in Fds, NEW b, auto_rewatch(fd, b),
         conn[fd] # NoConn, UNCHANGED <<conn, gathered, ready, current_cb>>, SameEvent
  PROVE  DispatchInv'
<1>1. /\ fds' = fds \union {fd} /\ cb' = cb
      /\ fd \in fds => owner' = owner /\ (epoll'[fd] # {} => epoll[fd] # {})
      /\ fd \notin fds => owner'[fd] = conn[fd]
      /\ \A g \in Fds \ {fd} : epoll'[g] = epoll[g] /\ owner'[g] = owner[g]
  BY DEF TypeOK, auto_rewatch, _epoll_update, EpollCtlWorks, AddOrMod
<1>2. \A g \in Fds : Kept(g) \/ Made(g) \/ Gone(g)
  <2>1. Kept(fd) \/ Made(fd)
    BY <1>1 DEF Kept, Made, TypeOK
  <2>2. \A g \in Fds \ {fd} : Kept(g) \/ Gone(g)
    BY <1>1, UntouchedEntry
  <2>3. QED
    BY <2>1, <2>2
<1>3. stage' \in Dispatching => current_cb' = cb'[current_fd']
  <2>1. stage' \in Dispatching => /\ stage \in Dispatching /\ current_fd' = current_fd
                                  /\ current_cb = cb[current_fd]
    BY DEF SameEvent, Dispatching, DispatchInv, CopyAgrees
  <2>2. QED
    BY <1>1, <2>1
<1>4. QED
  BY <1>2, <1>3, EntriesStep

\* The calls of user code keep DispatchInv.
LEMMA UserDispatch ==
  ASSUME TypeOK, TypeOK', DispatchInv, User PROVE DispatchInv'
<1>1. CASE Open
  <2>1. PICK fd \in Fds : conn[fd] = NoConn /\ conn' = [conn EXCEPT ![fd] = nconn + 1]
    BY <1>1 DEF Open
  <2>2. \A g \in Fds : conn[g] # NoConn => conn'[g] = conn[g]
    BY <2>1 DEF TypeOK
  <2>3. UNCHANGED <<epoll, fds, cb, owner, gathered, ready, current_fd, stage, current_cb>>
    BY <1>1 DEF Open, table, loop
  <2>4. \A g \in Fds : Fresh(g) => Fresh(g)'
    BY <2>2, <2>3 DEF Fresh
  <2>5. ArmedIsFresh' /\ BatchIsFresh' /\ SetupIsFresh'
    BY <2>3, <2>4 DEF DispatchInv, ArmedIsFresh, BatchIsFresh, SetupIsFresh, TypeOK
  <2>6. BatchStaysOpen' /\ CurrentIsGathered'
    BY <2>2, <2>3, <2>4 DEF DispatchInv, BatchStaysOpen, CurrentIsGathered, TypeOK
  <2>7. EntriesAgree' /\ CopyAgrees' /\ NoStaleDispatch'
    BY <2>3 DEF DispatchInv, EntriesAgree, CopyAgrees, NoStaleDispatch
  <2>8. QED
    BY <2>5, <2>6, <2>7 DEF DispatchInv
<1>2. ASSUME NEW fd \in Fds, NEW e \in Events, watch_event(fd, e) PROVE DispatchInv'
  <2>1. /\ conn[fd] # NoConn /\ _epoll_update(AddOrMod(fd), fd, cb[fd] \union {e}, fd \in write_buf)
        /\ \/ owner' = [owner EXCEPT ![fd] = conn[fd]]
           \/ owner' = owner /\ fd \in fds /\ AddOrMod(fd) = "MOD"
        /\ current_cb' = IF fd = current_fd THEN current_cb \union {e} ELSE current_cb
        /\ UNCHANGED <<conn, gathered, ready, stage, current_fd>>
    BY <1>2 DEF watch_event, kernel, loop, AddOrMod
  <2>2. SameEvent
    BY <2>1 DEF SameEvent
  <2>3. CASE stage \in Dispatching
    <3>1. fd = current_fd => current_cb = cb[fd]
      BY <2>3 DEF DispatchInv, CopyAgrees
    <3>2. current_cb' = IF fd = current_fd THEN cb[fd] \union {e} ELSE current_cb
      BY <2>1, <3>1
    <3>3. QED
      BY <2>1, <2>2, <3>2, UpdateStep
  <2>4. CASE stage \notin Dispatching
    <3>1. stage = "died" => FALSE
      BY <1>2 DEF watch_event, UserCode, Running
    <3>2. fd # current_fd
      BY <2>4, <3>1, ConstantFacts DEF DispatchInv, EntriesAgree
    <3>3. QED
      BY <2>1, <2>2, <3>2, UpdateStep
  <2>5. QED
    BY <2>3, <2>4
<1>3. ASSUME NEW fd \in Fds, NEW E \in CbSets, NEW re_watch \in BOOLEAN,
             watch(fd, E, re_watch)
      PROVE  DispatchInv'
  <2>1. PICK op : _epoll_update(op, fd, E, fd \in write_buf)
    BY <1>3 DEF watch
  <2>2. /\ conn[fd] # NoConn /\ owner' = [owner EXCEPT ![fd] = conn[fd]]
        /\ current_cb' = IF fd = current_fd THEN E ELSE current_cb
        /\ UNCHANGED <<conn, gathered, ready, stage, current_fd>>
    BY <1>3 DEF watch, kernel, loop
  <2>3. SameEvent
    BY <2>2 DEF SameEvent
  <2>4. QED
    BY <2>1, <2>2, <2>3, UpdateStep
<1>4. ASSUME NEW fd \in Fds, NEW no_callback \in BOOLEAN, unwatch(fd, no_callback)
      PROVE  DispatchInv'
  BY <1>4, EraseStep DEF unwatch, kernel, loop, SameEvent
<1>5. ASSUME NEW fd \in Fds, NEW force_close \in BOOLEAN, close(fd, force_close)
      PROVE  DispatchInv'
  <2>1. UNCHANGED <<conn, gathered, ready>> /\ SameEvent
    BY <1>5 DEF close, kernel, loop, SameEvent
  <2>2. CASE unwatch_and_close(fd, "CLOSE" \in cb[fd])
    BY <2>1, <2>2, EraseStep DEF unwatch_and_close
  <2>3. CASE UNCHANGED <<table, current_cb>>
    BY <2>1, <2>3, PlainStep
  <2>4. QED
    BY <1>5, <2>2, <2>3 DEF close
<1>6. ASSUME NEW fd \in Fds, write_again(fd) PROVE DispatchInv'
  BY <1>6, RewatchStep DEF write_again, kernel, loop, SameEvent
<1>7. CASE on_fork
  <2>1. /\ \A g \in Fds : epoll'[g] = IF g \in fds THEN Interest(cb[g], g \in write_buf) ELSE {}
        /\ stage = "setup" /\ UNCHANGED <<conn, gathered, ready, fds, cb, owner, stage,
                                          current_fd, current_cb>>
    BY <1>7 DEF on_fork, LoopAt, kernel, loop
  <2>2. \A g \in Fds : Kept(g) \/ Made(g) \/ Gone(g)
    <3>1. \A g \in fds : Made(g)
      BY <2>1 DEF Made, DispatchInv, SetupIsFresh, Fresh
    <3>2. \A g \in Fds \ fds : Gone(g)
      BY <2>1 DEF Gone, DispatchInv, EntriesAgree
    <3>3. QED
      BY <3>1, <3>2
  <2>3. SameEvent /\ stage' \notin Dispatching
    BY <2>1 DEF SameEvent, Dispatching
  <2>4. QED
    BY <2>1, <2>2, <2>3, EntriesStep
<1>8. CASE error_exit
  BY <1>8, PlainStep DEF error_exit, kernel, SameEvent, Dispatching
<1>9. CASE callback_returns
  BY <1>9, PlainStep DEF callback_returns, kernel, loop, SameEvent
<1>10. QED
  BY <1>1, <1>2, <1>3, <1>4, <1>5, <1>6, <1>7, <1>8, <1>9 DEF User, write_epipe

\* The handling of EPOLLOUT (out) keeps DispatchInv.
LEMMA OutDispatch ==
  ASSUME TypeOK, TypeOK', DispatchInv, out PROVE DispatchInv'
<1>1. current_fd \in Fds /\ conn[current_fd] # NoConn
  BY DEF out, LoopAt, TypeOK, Dispatching, DispatchInv, CurrentIsGathered, BatchStaysOpen
<1>2. UNCHANGED <<conn, gathered, ready>> /\ SameEvent
  BY DEF out, LoopAt, PassOver, Goto, out_finished, out_again, out_failed, kernel,
         Dispatching, SameEvent
<1>3. CASE UNCHANGED <<table, current_cb>>
  BY <1>2, <1>3, PlainStep
<1>4. ASSUME NEW b, auto_rewatch(current_fd, b), UNCHANGED current_cb PROVE DispatchInv'
  BY <1>1, <1>2, <1>4, RewatchStep
<1>5. CASE unwatch_and_close(current_fd, "CLOSE" \in cb[current_fd])
  BY <1>1, <1>2, <1>5, EraseStep DEF unwatch_and_close
<1>6. QED
  <2>1. CASE "OUT" \notin flags
    BY <1>3, <2>1 DEF out, PassOver
  <2>2. CASE out_finished
    BY <1>3, <1>4, <2>2 DEF out_finished
  <2>3. CASE out_again
    BY <1>4, <2>3 DEF out_again
  <2>4. ASSUME NEW epipe \in BOOLEAN, out_failed(epipe) PROVE DispatchInv'
    BY <1>3, <1>5, <2>4 DEF out_failed
  <2>5. QED
    BY <2>1, <2>2, <2>3, <2>4 DEF out

\* The steps of handle_events keep DispatchInv.
LEMMA HandleEventsDispatch ==
  ASSUME TypeOK, TypeOK', DispatchInv, handle_events PROVE DispatchInv'
<1>1. ASSUME NEW fd \in Fds, next_event(fd) PROVE DispatchInv'
  <2>1. /\ UNCHANGED <<conn, epoll, fds, cb, owner, gathered>> /\ stage = "pick"
        /\ ready' = [ready EXCEPT ![fd] = {}] /\ ready[fd] # {}
        /\ \/ fd \in fds /\ current_fd' = fd /\ current_cb' = cb[fd] /\ stage' = "connect"
           \/ UNCHANGED <<current_fd, current_cb, stage>>
    BY <1>1 DEF next_event, LoopAt, kernel, table
  <2>2. gathered[fd] # NoConn /\ conn[fd] = gathered[fd] /\ (fd \in fds => Fresh(fd))
    BY <2>1 DEF DispatchInv, BatchStaysOpen, BatchIsFresh
  <2>3. \A g \in Fds : (Fresh(g)' <=> Fresh(g)) /\ (ready'[g] # {} => ready[g] # {})
    BY <2>1 DEF Fresh, TypeOK
  <2>4. ArmedIsFresh' /\ BatchStaysOpen' /\ BatchIsFresh'
    BY <2>1, <2>3 DEF DispatchInv, ArmedIsFresh, BatchStaysOpen, BatchIsFresh, TypeOK
  <2>5. CurrentIsGathered' /\ CopyAgrees' /\ NoStaleDispatch' /\ SetupIsFresh'
    BY <2>1, <2>2, <2>3 DEF CurrentIsGathered, CopyAgrees, NoStaleDispatch, SetupIsFresh, Fresh,
                            Dispatching
  <2>6. EntriesAgree'
    BY <2>1 DEF DispatchInv, EntriesAgree, Dispatching
  <2>7. QED
    BY <2>4, <2>5, <2>6 DEF DispatchInv
<1>2. CASE connect_ok
  <2>1. /\ current_fd \in Fds /\ stage \in Dispatching /\ stage' \in Dispatching
        /\ current_cb = cb[current_fd] /\ current_fd \in fds
        /\ cb' = [cb EXCEPT ![current_fd] = @ \ {"CONNECT"}]
        /\ current_cb' = current_cb \ {"CONNECT"}
        /\ UNCHANGED <<conn, epoll, fds, owner, gathered, ready, current_fd>>
    BY <1>2 DEF connect_ok, LoopAt, TypeOK, Dispatching, DispatchInv, CopyAgrees, EntriesAgree,
                CallCurrent, Goto, kernel
  <2>2. SameEvent
    BY <2>1 DEF SameEvent
  <2>3. /\ cb'[current_fd] = cb[current_fd] \ {"CONNECT"}
        /\ \A g \in Fds \ {current_fd} : cb'[g] = cb[g]
    BY <2>1 DEF TypeOK
  <2>4. \A g \in Fds : Kept(g) \/ Made(g) \/ Gone(g)
    <3>1. Kept(current_fd)
      BY <2>1 DEF Kept
    <3>2. \A g \in Fds \ {current_fd} : Kept(g) \/ Gone(g)
      BY <2>1, <2>3, UntouchedEntry
    <3>3. QED
      BY <3>1, <3>2
  <2>5. QED
    BY <2>1, <2>2, <2>3, <2>4, EntriesStep
<1>3. CASE connect_ng
  <2>1. current_fd \in Fds
    BY <1>3 DEF connect_ng, LoopAt, TypeOK, Dispatching
  <2>2. QED
    BY <1>3, <2>1, EraseStep DEF connect_ng, CallCurrent, NextOfBatch, kernel, SameEvent
<1>4. CASE no_connect \/ read \/ err
  <2>1. /\ UNCHANGED <<table, conn, gathered, ready, current_fd, current_cb>>
        /\ stage \in Dispatching /\ stage' \in Dispatching
    BY <1>4 DEF no_connect, read, err, LoopAt, CallCurrent, PassOver, Goto, kernel, Dispatching
  <2>2. QED
    BY <2>1, PlainStep DEF SameEvent
<1>5. CASE out
  BY <1>5, OutDispatch
<1>6. CASE hup
  <2>1. /\ current_fd \in Fds /\ SameEvent /\ stage' \notin Dispatching
        /\ UNCHANGED <<conn, gathered, ready>>
    BY <1>6 DEF hup, LoopAt, TypeOK, Dispatching, NextOfBatch, kernel, SameEvent
  <2>2. CASE unwatch_and_close(current_fd, "CLOSE" \in current_cb)
    BY <2>1, <2>2, EraseStep DEF unwatch_and_close
  <2>3. CASE UNCHANGED table
    BY <2>1, <2>3, PlainStep
  <2>4. QED
    BY <1>6, <2>2, <2>3 DEF hup
<1>7. CASE close_pending
  <2>1. /\ \A g \in Fds : /\ conn'[g] = IF g \in close_fds THEN NoConn ELSE conn[g]
                          /\ epoll'[g] = IF g \in close_fds THEN {} ELSE epoll[g]
                          /\ gathered'[g] = NoConn
                          /\ ready'[g] = {}
        /\ UNCHANGED <<fds, cb, owner, current_fd>> /\ stage = "pick" /\ stage' = "check"
    BY <1>7 DEF close_pending, LoopAt
  <2>2. ArmedIsFresh' /\ BatchStaysOpen' /\ BatchIsFresh'
    BY <2>1 DEF DispatchInv, ArmedIsFresh, BatchStaysOpen, BatchIsFresh, Fresh, TypeOK
  <2>3. EntriesAgree'
    BY <2>1 DEF DispatchInv, EntriesAgree, Dispatching
  <2>4. QED
    BY <2>1, <2>2, <2>3 DEF DispatchInv, CurrentIsGathered, CopyAgrees, SetupIsFresh,
                            NoStaleDispatch, Dispatching
<1>8. QED
  BY <1>1, <1>2, <1>3, <1>4, <1>5, <1>6, <1>7 DEF handle_events

\* The steps of the loop keep DispatchInv.
LEMMA LoopDispatch ==
  ASSUME TypeOK, TypeOK', DispatchInv,
         \/ \E s \in {"check", "epoll_wait", "exited"} : event_loop(s)
         \/ \E batch \in [Fds -> FlagSets \union {{}}] : epoll_wait(batch)
         \/ epoll_wait_eintr
  PROVE  DispatchInv'
<1>1. CASE (\E s \in {"check", "epoll_wait", "exited"} : event_loop(s)) \/ epoll_wait_eintr
  <2>1. /\ UNCHANGED <<table, conn, gathered, ready, current_fd, current_cb>>
        /\ stage \notin Dispatching \union {"died"}
        /\ stage' \in {"check", "epoll_wait", "exited"}
    BY <1>1 DEF event_loop, epoll_wait_eintr, LoopAt, kernel, Dispatching
  <2>2. SameEvent
    BY <2>1 DEF SameEvent, DispatchInv, EntriesAgree
  <2>3. QED
    BY <2>1, <2>2, PlainStep
<1>2. ASSUME NEW batch \in [Fds -> FlagSets \union {{}}], epoll_wait(batch) PROVE DispatchInv'
  <2>1. /\ UNCHANGED <<conn, epoll, fds, cb, owner, current_fd>> /\ gathered' = conn
        /\ stage = "epoll_wait" /\ stage' = "pick"
    BY <1>2 DEF epoll_wait, LoopAt, kernel, table
  <2>2. \A g \in Fds : ready'[g] # {} => epoll[g] # {}
    BY <1>2, ConstantFacts DEF epoll_wait, Report
  <2>3. \A g \in Fds : Fresh(g)' <=> Fresh(g)
    BY <2>1 DEF Fresh
  <2>4. ArmedIsFresh' /\ BatchStaysOpen' /\ BatchIsFresh'
    BY <2>1, <2>2, <2>3 DEF DispatchInv, ArmedIsFresh, BatchStaysOpen, BatchIsFresh, Fresh, TypeOK
  <2>5. EntriesAgree'
    BY <2>1 DEF DispatchInv, EntriesAgree, Dispatching
  <2>6. QED
    BY <2>1, <2>4, <2>5 DEF DispatchInv, CurrentIsGathered, CopyAgrees, SetupIsFresh,
                            NoStaleDispatch, Dispatching
<1>3. QED
  BY <1>1, <1>2

\* DispatchInv holds in every state.
LEMMA DispatchInvAlways == Spec => []DispatchInv
<1>1. Init => DispatchInv
  BY DEF Init, DispatchInv, ArmedIsFresh, BatchStaysOpen, BatchIsFresh, CurrentIsGathered,
         EntriesAgree, SetupIsFresh, CopyAgrees, NoStaleDispatch, Dispatching
<1>2. TypeOK /\ TypeOK' /\ DispatchInv /\ [Next]_vars => DispatchInv'
  <2> SUFFICES ASSUME TypeOK, TypeOK', DispatchInv, [Next]_vars PROVE DispatchInv'
    OBVIOUS
  <2>1. CASE UNCHANGED vars
    BY <2>1, PlainStep DEF vars, kernel, loop, SameEvent
  <2>2. QED
    BY <2>1, UserDispatch, HandleEventsDispatch, LoopDispatch DEF Next, stopped
<1>3. QED
  BY <1>1, <1>2, TypeCorrect, PTL DEF Spec

\* handle_events never hands an event to the callbacks of another file than
\* the one it was reported for, whatever the callbacks of the batch close,
\* open and watch in between: the numbers of a batch are not given back to
\* the kernel before its last event has been handled.
THEOREM EventsReachTheirFile == Spec => []NoStaleDispatch
<1>1. DispatchInv => NoStaleDispatch
  BY DEF DispatchInv
<1>2. QED
  BY <1>1, DispatchInvAlways, PTL

-----------------------------------------------------------------------------
(* The table and the epoll set agree.                                      *)

\* What TableMatchesKernel says of one number.
Agrees(g) == /\ Fresh(g) /\ ~Closing(g)
             /\ Interest(cb[g], g \in write_buf) \subseteq epoll[g]

\* Fewer callbacks and no buffer ask for fewer events.
LEMMA InterestMonotone ==
  ASSUME NEW E, NEW D, D \subseteq E, NEW a \in BOOLEAN, NEW b \in BOOLEAN, a => b
  PROVE  Interest(D, a) \subseteq Interest(E, b)
BY DEF Interest

\* An entry that is kept, with fewer callbacks and buffered bytes if anything.
LEMMA StillAgrees ==
  ASSUME NEW g \in Fds, Agrees(g), conn'[g] = conn[g], owner'[g] = owner[g], epoll'[g] = epoll[g],
         cb'[g] \subseteq cb[g], g \in write_buf' => g \in write_buf, Closing(g)' => Closing(g)
  PROVE  Agrees(g)'
<1>1. Interest(cb'[g], g \in write_buf') \subseteq Interest(cb[g], g \in write_buf)
  <2>1. (g \in write_buf') \in BOOLEAN /\ (g \in write_buf) \in BOOLEAN
    OBVIOUS
  <2>2. QED
    BY <2>1, InterestMonotone
<1>2. QED
  BY <1>1 DEF Agrees, Fresh

\* A registration that is not late is made for a number that is not being
\* closed, and epoll_ctl works.
LEMMA UpdateWorks ==
  ASSUME TypeOK, DispatchInv, TableMatchesKernel, NEW fd \in Fds, NEW op, NEW E, NEW b,
         conn[fd] # NoConn, _epoll_update(op, fd, E, b), fd \notin late',
         op = AddOrMod(fd) \/ (op = "ADD" /\ epoll[fd] = {})
  PROVE  /\ EpollCtlWorks(op, fd) /\ ~Closing(fd)
         /\ fd \in fds /\ op = AddOrMod(fd) => fd \notin late /\ owner[fd] = conn[fd]
<1>1. CASE op = "MOD"
  <2>1. fd \in fds \ late
    BY <1>1 DEF AddOrMod, _epoll_update
  <2>2. epoll[fd] # {} /\ ~Closing(fd) /\ owner[fd] = conn[fd]
    BY <2>1, InterestType DEF TableMatchesKernel, Fresh
  <2>3. QED
    BY <1>1, <2>1, <2>2 DEF EpollCtlWorks
<1>2. CASE op = "ADD"
  <2>1. ~Closing(fd)
    BY <1>2 DEF _epoll_update
  <2>2. epoll[fd] = {} /\ (op = AddOrMod(fd) => fd \notin fds)
    BY <1>2 DEF AddOrMod, DispatchInv, ArmedIsFresh
  <2>3. QED
    BY <1>2, <2>1, <2>2 DEF EpollCtlWorks
<1>3. QED
  BY <1>1, <1>2 DEF AddOrMod

\* An entry that is late after a registration was not an entry made in time
\* before it.
LEMMA LateStaysLate ==
  ASSUME TypeOK, DispatchInv, TableMatchesKernel, NEW fd \in Fds, NEW op, NEW E, NEW b,
         _epoll_update(op, fd, E, b), fd \in late',
         op = AddOrMod(fd) \/ (op = "ADD" /\ epoll[fd] = {})
  PROVE  fd \notin fds \ late
<1> SUFFICES ASSUME fd \in fds \ late PROVE FALSE
  OBVIOUS
<1>1. epoll[fd] # {} /\ ~Closing(fd)
  BY InterestType DEF TableMatchesKernel
<1>2. op = "MOD"
  BY <1>1 DEF AddOrMod
<1>3. QED
  BY <1>2 DEF _epoll_update

\* Callbacks are registered, or registered again.
LEMMA UpdateTable ==
  ASSUME TypeOK, TypeOK', DispatchInv, TableMatchesKernel, NEW fd \in Fds, NEW op, NEW E,
         NEW b \in BOOLEAN, conn[fd] # NoConn, _epoll_update(op, fd, E, b),
         op = AddOrMod(fd) \/ (op = "ADD" /\ epoll[fd] = {}),
         \/ owner' = [owner EXCEPT ![fd] = conn[fd]]
         \/ owner' = owner /\ fd \in fds /\ op = AddOrMod(fd),
         fd \in write_buf' => b, \A g \in Fds \ {fd} : g \in write_buf' => g \in write_buf,
         UNCHANGED <<conn, close_fds>>, \A g \in Fds : InStack(g)' => InStack(g)
  PROVE  TableMatchesKernel'
<1> SUFFICES ASSUME NEW g \in fds' \ late' PROVE Agrees(g)'
  BY DEF TableMatchesKernel, Agrees
<1>1. g \in Fds /\ (Closing(g)' => Closing(g))
  BY DEF TypeOK, Closing
<1>2. CASE g # fd
  <2>1. g \in fds \ late /\ cb'[g] = cb[g] /\ epoll'[g] = epoll[g] /\ owner'[g] = owner[g]
    BY <1>1, <1>2 DEF _epoll_update, TypeOK
  <2>2. Agrees(g)
    BY <2>1 DEF TableMatchesKernel, Agrees
  <2>3. QED
    BY <1>1, <1>2, <2>1, <2>2, StillAgrees
<1>3. CASE g = fd
  <2>1. /\ EpollCtlWorks(op, fd) /\ ~Closing(fd)
        /\ fd \in fds /\ op = AddOrMod(fd) => owner[fd] = conn[fd]
    BY <1>3, UpdateWorks
  <2>2. cb'[fd] = E /\ epoll'[fd] = Interest(E, b) /\ owner'[fd] = conn[fd]
    BY <2>1 DEF _epoll_update, TypeOK
  <2>3. Interest(E, fd \in write_buf') \subseteq Interest(E, b)
    <3>1. (fd \in write_buf') \in BOOLEAN
      OBVIOUS
    <3>2. QED
      BY <3>1, InterestMonotone
  <2>4. QED
    BY <1>1, <1>3, <2>1, <2>2, <2>3 DEF Agrees, Fresh
<1>4. QED
  BY <1>2, <1>3

\* Steps that keep the table and give up no number of it, or only the one
\* that they erase.
LEMMA FewerTable ==
  ASSUME TypeOK, TypeOK', TableMatchesKernel, UNCHANGED conn, write_buf' \subseteq write_buf,
         \A g \in fds' \ late' :
            /\ g \in fds \ late /\ cb'[g] \subseteq cb[g] /\ epoll'[g] = epoll[g]
            /\ owner'[g] = owner[g] /\ (Closing(g)' => Closing(g))
  PROVE  TableMatchesKernel'
<1> SUFFICES ASSUME NEW g \in fds' \ late' PROVE Agrees(g)'
  BY DEF TableMatchesKernel, Agrees
<1>1. g \in Fds /\ g \in fds \ late
  BY DEF TypeOK
<1>2. Agrees(g)
  BY <1>1 DEF TableMatchesKernel, Agrees
<1>3. QED
  BY <1>1, <1>2, StillAgrees

\* unwatch followed by the put-off close starts the close of no other number.
LEMMA UnwatchAndCloseClosing ==
  ASSUME TypeOK, NEW fd \in Fds, NEW b \in BOOLEAN, unwatch_and_close(fd, b),
         NEW g \in Fds, g # fd
  PROVE  Closing(g)' => Closing(g)
<1> DEFINE frame == [then |-> "add_close", fd |-> fd, close_cb |-> b, late |-> fd \in late]
<1>1. CASE Call(frame) /\ UNCHANGED close_fds
  <2>1. frame \in Frames
    BY DEF Frames
  <2>2. InStack(g)' <=> InStack(g)
    BY <1>1, <2>1, PushInStack
  <2>3. QED
    BY <1>1, <2>2 DEF Closing
<1>2. CASE close_fds' = close_fds \union {fd} /\ (Call(Return) \/ UNCHANGED stack)
  <2>1. InStack(g)' <=> InStack(g)
    BY <1>2, PushReturn DEF InStack
  <2>2. QED
    BY <1>2, <2>1 DEF Closing
<1>3. QED
  BY <1>1, <1>2 DEF unwatch_and_close

\* An entry is erased.
LEMMA EraseTable ==
  ASSUME TypeOK, TypeOK', TableMatchesKernel, UNCHANGED conn, write_buf' \subseteq write_buf,
         NEW fd \in Fds, erase(fd), \A g \in Fds \ {fd} : Closing(g)' => Closing(g)
  PROVE  TableMatchesKernel'
<1>1. \A g \in fds' \ late' :
            /\ g \in fds \ late /\ cb'[g] \subseteq cb[g] /\ epoll'[g] = epoll[g]
            /\ owner'[g] = owner[g] /\ (Closing(g)' => Closing(g))
  BY EraseFacts DEF TypeOK
<1>2. QED
  BY <1>1, FewerTable

\* A close of a number that is in the table.
LEMMA UnwatchAndCloseTable ==
  ASSUME TypeOK, TypeOK', TableMatchesKernel, UNCHANGED conn, write_buf' \subseteq write_buf,
         NEW fd \in Fds, NEW b \in BOOLEAN, unwatch_and_close(fd, b)
  PROVE  TableMatchesKernel'
<1>1. erase(fd) /\ \A g \in Fds \ {fd} : Closing(g)' => Closing(g)
  BY UnwatchAndCloseClosing DEF unwatch_and_close
<1>2. QED
  BY <1>1, EraseTable

\* Calling a callback that only returns, or none, closes nothing.
LEMMA SameClosing ==
  ASSUME TypeOK, Call(Return) \/ UNCHANGED stack, UNCHANGED close_fds, NEW g \in Fds
  PROVE  (InStack(g)' <=> InStack(g)) /\ (Closing(g)' <=> Closing(g))
<1>1. InStack(g)' <=> InStack(g)
  BY PushReturn DEF InStack
<1>2. QED
  BY <1>1 DEF Closing

\* The steps that leave the table alone.
LEMMA PlainTable ==
  ASSUME TypeOK, TypeOK', TableMatchesKernel, UNCHANGED <<table, conn, close_fds>>,
         write_buf' \subseteq write_buf, Call(Return) \/ UNCHANGED stack
  PROVE  TableMatchesKernel'
<1>1. \A g \in Fds : Closing(g)' => Closing(g)
  BY SameClosing
<1>2. QED
  BY <1>1, FewerTable DEF table, TypeOK

\* auto_rewatch, with EPOLLOUT if there is something to write.
LEMMA RewatchTable ==
  ASSUME TypeOK, TypeOK', DispatchInv, TableMatchesKernel, NEW fd \in Fds, NEW b \in BOOLEAN,
         auto_rewatch(fd, b), conn[fd] # NoConn, UNCHANGED <<conn, close_fds, stack>>,
         fd \in write_buf' => b, \A g \in Fds \ {fd} : g \in write_buf' => g \in write_buf
  PROVE  TableMatchesKernel'
<1>1. /\ _epoll_update(AddOrMod(fd), fd, cb[fd], b)
      /\ \/ owner' = [owner EXCEPT ![fd] = conn[fd]]
         \/ owner' = owner /\ fd \in fds
  BY DEF auto_rewatch
<1>2. \A g \in Fds : InStack(g)' => InStack(g)
  BY DEF InStack
<1> DEFINE op == AddOrMod(fd)
           E == cb[fd]
<1>3. _epoll_update(op, fd, E, b) /\ op = AddOrMod(fd)
  BY <1>1
<1> HIDE DEF op, E
<1>4. QED
  BY <1>1, <1>2, <1>3, UpdateTable

\* What user code does keeps the table right.
LEMMA UserTable ==
  ASSUME TypeOK, TypeOK', DispatchInv, TableMatchesKernel, User PROVE TableMatchesKernel'
<1>1. CASE Open
  <2>1. UNCHANGED <<fds, cb, owner, late, epoll, write_buf, close_fds, stack>>
    BY <1>1 DEF Open, table
  <2>2. \A g \in Fds : conn[g] # NoConn => conn'[g] = conn[g]
    BY <1>1 DEF Open, TypeOK
  <2>3. QED
    BY <2>1, <2>2 DEF TableMatchesKernel, Fresh, Closing, InStack, TypeOK
<1>2. ASSUME NEW fd \in Fds, NEW e \in Events, watch_event(fd, e) PROVE TableMatchesKernel'
  <2> DEFINE op == AddOrMod(fd)
             E == cb[fd] \union {e}
             b == fd \in write_buf
  <2>1. /\ conn[fd] # NoConn /\ op = AddOrMod(fd) /\ _epoll_update(op, fd, E, b)
        /\ \/ owner' = [owner EXCEPT ![fd] = conn[fd]]
           \/ owner' = owner /\ fd \in fds
        /\ UNCHANGED <<conn, close_fds, stack, write_buf>>
    BY <1>2 DEF watch_event, kernel
  <2>2. b \in BOOLEAN /\ (fd \in write_buf' => b) /\ \A g \in Fds : InStack(g)' => InStack(g)
    BY <2>1 DEF InStack
  <2> HIDE DEF op, E, b
  <2>3. QED
    BY <2>1, <2>2, UpdateTable
<1>3. ASSUME NEW fd \in Fds, NEW E \in CbSets, NEW re_watch \in BOOLEAN, watch(fd, E, re_watch)
      PROVE  TableMatchesKernel'
  <2> DEFINE op == IF re_watch THEN "ADD" ELSE AddOrMod(fd)
             b == fd \in write_buf
  <2>1. /\ conn[fd] # NoConn /\ _epoll_update(op, fd, E, b)
        /\ op = AddOrMod(fd) \/ (op = "ADD" /\ epoll[fd] = {})
        /\ owner' = [owner EXCEPT ![fd] = conn[fd]]
        /\ UNCHANGED <<conn, close_fds, stack, write_buf>>
    BY <1>3 DEF watch, kernel
  <2>2. b \in BOOLEAN /\ (fd \in write_buf' => b) /\ \A g \in Fds : InStack(g)' => InStack(g)
    BY <2>1 DEF InStack
  <2> HIDE DEF op, b
  <2>3. QED
    BY <2>1, <2>2, UpdateTable
<1>4. ASSUME NEW fd \in Fds, NEW no_callback \in BOOLEAN, unwatch(fd, no_callback)
      PROVE  TableMatchesKernel'
  <2>1. /\ erase(fd) /\ UNCHANGED <<conn, close_fds, write_buf>>
        /\ Call(Return) \/ UNCHANGED stack
    BY <1>4 DEF unwatch, kernel
  <2>2. \A g \in Fds : Closing(g)' => Closing(g)
    BY <2>1, SameClosing
  <2>3. QED
    BY <2>1, <2>2, EraseTable
<1>5. ASSUME NEW fd \in Fds, NEW force_close \in BOOLEAN, close(fd, force_close)
      PROVE  TableMatchesKernel'
  <2>1. UNCHANGED conn /\ write_buf' \subseteq write_buf
    BY <1>5 DEF close, kernel
  <2>2. CASE unwatch_and_close(fd, "CLOSE" \in cb[fd])
    <3>1. ("CLOSE" \in cb[fd]) \in BOOLEAN
      OBVIOUS
    <3>2. QED
      BY <2>1, <2>2, <3>1, UnwatchAndCloseTable
  <2>3. CASE /\ fd \notin fds
             /\ close_fds' = IF force_close THEN close_fds \union {fd} ELSE close_fds
             /\ UNCHANGED <<table, current_cb, stack, history>>
    <3>1. \A g \in fds : Closing(g)' => Closing(g)
      BY <2>3 DEF Closing, InStack
    <3>2. QED
      BY <2>1, <2>3, <3>1, FewerTable DEF table, TypeOK
  <2>4. QED
    BY <1>5, <2>2, <2>3 DEF close
<1>6. ASSUME NEW fd \in Fds, write_again(fd) PROVE TableMatchesKernel'
  BY <1>6, RewatchTable DEF write_again, kernel
<1>7. CASE on_fork
  <2>1. /\ \A g \in fds : epoll'[g] = Interest(cb[g], g \in write_buf)
        /\ UNCHANGED <<conn, fds, cb, owner, late, write_buf, close_fds, stack>>
    BY <1>7 DEF on_fork, kernel, TypeOK
  <2>2. QED
    BY <2>1 DEF TableMatchesKernel, Fresh, Closing, InStack
<1>8. CASE error_exit
  BY <1>8, PlainTable DEF error_exit, kernel
<1>9. CASE callback_returns
  <2>1. \A g \in Fds : Closing(g)' => Closing(g)
    BY <1>9, PopInStack
  <2>2. QED
    BY <1>9, <2>1, FewerTable DEF callback_returns, kernel, table, TypeOK
<1>10. QED
  BY <1>1, <1>2, <1>3, <1>4, <1>5, <1>6, <1>7, <1>8, <1>9 DEF User, write_epipe

\* The handling of EPOLLOUT keeps the table right: bytes that stay in
\* _write_buf keep EPOLLOUT armed.
LEMMA OutTable ==
  ASSUME TypeOK, TypeOK', DispatchInv, TableMatchesKernel, out PROVE TableMatchesKernel'
<1>1. current_fd \in Fds /\ conn[current_fd] # NoConn /\ UNCHANGED conn
  BY DEF out, LoopAt, TypeOK, Dispatching, DispatchInv, CurrentIsGathered, BatchStaysOpen,
         PassOver, out_finished, out_again, out_failed, kernel
<1>2. CASE "OUT" \notin flags
  BY <1>1, <1>2, PlainTable DEF out, PassOver
<1>3. CASE out_finished
  <2>1. write_buf' = write_buf \ {current_fd} /\ UNCHANGED close_fds
    BY <1>3 DEF out_finished
  <2>2. CASE Call(Return) /\ UNCHANGED table
    BY <1>1, <2>1, <2>2, PlainTable
  <2>3. CASE auto_rewatch(current_fd, FALSE) /\ UNCHANGED stack
    BY <1>1, <2>1, <2>3, RewatchTable
  <2>4. QED
    BY <1>3, <2>2, <2>3 DEF out_finished
<1>4. CASE out_again
  BY <1>1, <1>4, RewatchTable DEF out_again
<1>5. ASSUME NEW epipe \in BOOLEAN, out_failed(epipe) PROVE TableMatchesKernel'
  <2>1. write_buf' \subseteq write_buf
    BY <1>5 DEF out_failed
  <2>2. CASE unwatch_and_close(current_fd, "CLOSE" \in cb[current_fd])
    <3>1. ("CLOSE" \in cb[current_fd]) \in BOOLEAN
      OBVIOUS
    <3>2. QED
      BY <1>1, <2>1, <2>2, <3>1, UnwatchAndCloseTable
  <2>3. CASE UNCHANGED <<table, close_fds, current_cb, stack, history>>
    BY <1>1, <2>1, <2>3, PlainTable
  <2>4. QED
    BY <1>5, <2>2, <2>3 DEF out_failed
<1>6. QED
  BY <1>2, <1>3, <1>4, <1>5 DEF out

\* The steps of handle_events keep the table right.
LEMMA HandleEventsTable ==
  ASSUME TypeOK, TypeOK', DispatchInv, TableMatchesKernel, handle_events
  PROVE  TableMatchesKernel'
<1>1. CASE (\E fd \in Fds : next_event(fd)) \/ no_connect \/ read \/ err
  <2>1. /\ UNCHANGED <<table, conn, close_fds, write_buf>>
        /\ Call(Return) \/ UNCHANGED stack
    BY <1>1 DEF next_event, no_connect, read, err, CallCurrent, PassOver, kernel
  <2>2. QED
    BY <2>1, PlainTable
<1>2. CASE connect_ok
  <2>1. /\ \A g \in Fds : cb'[g] \subseteq cb[g]
        /\ UNCHANGED <<conn, epoll, fds, owner, late, close_fds, write_buf>> /\ Call(Return)
    BY <1>2 DEF connect_ok, CallCurrent, kernel, TypeOK
  <2>2. \A g \in Fds : Closing(g)' => Closing(g)
    BY <2>1, SameClosing
  <2>3. QED
    BY <2>1, <2>2, FewerTable DEF TypeOK
<1>3. CASE connect_ng
  <2>1. /\ current_fd \in Fds /\ erase(current_fd) /\ Call(Return)
        /\ UNCHANGED <<conn, close_fds, write_buf>>
    BY <1>3 DEF connect_ng, LoopAt, TypeOK, Dispatching, CallCurrent, kernel
  <2>2. \A g \in Fds : Closing(g)' => Closing(g)
    BY <2>1, SameClosing
  <2>3. QED
    BY <2>1, <2>2, EraseTable
<1>4. CASE out
  BY <1>4, OutTable
<1>5. CASE hup
  <2>1. current_fd \in Fds /\ UNCHANGED <<conn, write_buf>>
    BY <1>5 DEF hup, LoopAt, TypeOK, Dispatching, kernel
  <2>2. CASE unwatch_and_close(current_fd, "CLOSE" \in current_cb)
    <3>1. ("CLOSE" \in current_cb) \in BOOLEAN
      OBVIOUS
    <3>2. QED
      BY <2>1, <2>2, <3>1, UnwatchAndCloseTable
  <2>3. CASE UNCHANGED <<kernel, table, write_buf, close_fds, stack, history>>
    BY <2>1, <2>3, PlainTable
  <2>4. QED
    BY <1>5, <2>2, <2>3 DEF hup
<1>6. CASE close_pending
  <2>1. /\ \A g \in Fds : g \notin close_fds => conn'[g] = conn[g] /\ epoll'[g] = epoll[g]
        /\ UNCHANGED <<fds, cb, owner, late, write_buf, stack>> /\ close_fds' = {}
    BY <1>6 DEF close_pending
  <2>2. \A g \in fds \ late : g \in Fds /\ g \notin close_fds
    BY DEF TableMatchesKernel, Closing, TypeOK
  <2>3. \A g \in fds \ late : Closing(g)' => Closing(g)
    BY <2>1 DEF Closing, InStack
  <2>4. QED
    BY <2>1, <2>2, <2>3 DEF TableMatchesKernel, Fresh
<1>7. QED
  BY <1>1, <1>2, <1>3, <1>4, <1>5, <1>6 DEF handle_events

\* Whatever callbacks and peers do, an entry of the table that was not made
\* while the close of its number was pending is for the open file of its
\* number, which is not being closed, and is armed in the epoll set for all it
\* has callbacks or buffered bytes for.  No event that somebody waits for is
\* left out of the set, not after a write that was cut short and not when the
\* bytes are sent.
THEOREM TableAgrees == Spec => []TableMatchesKernel
<1>1. Init => TableMatchesKernel
  BY DEF Init, TableMatchesKernel
<1>2. TypeOK /\ TypeOK' /\ DispatchInv /\ TableMatchesKernel /\ [Next]_vars => TableMatchesKernel'
  <2> SUFFICES ASSUME TypeOK, TypeOK', DispatchInv, TableMatchesKernel, [Next]_vars
               PROVE  TableMatchesKernel'
    OBVIOUS
  <2>1. CASE \/ \E s \in {"check", "epoll_wait", "exited"} : event_loop(s)
             \/ \E batch \in [Fds -> FlagSets \union {{}}] : epoll_wait(batch)
             \/ epoll_wait_eintr \/ UNCHANGED vars
    <3>1. UNCHANGED <<table, conn, close_fds, write_buf, stack>>
      BY <2>1 DEF event_loop, epoll_wait, epoll_wait_eintr, kernel, vars
    <3>2. QED
      BY <3>1, PlainTable
  <2>2. QED
    BY <2>1, UserTable, HandleEventsTable DEF Next, stopped
<1>3. QED
  BY <1>1, <1>2, TypeCorrect, DispatchInvAlways, PTL DEF Spec

-----------------------------------------------------------------------------
(* CONNECT and CLOSE callbacks are called once and not lost.               *)

\* Frames of a close that waits, for callbacks that were registered in time.
Waits(i, g) == i \in DOMAIN stack /\ stack[i].fd = g /\ ~stack[i].late

\* What CallsInv says of the file that an open number g stands for.
NumberOK(g) ==
    /\ g \in fds \ late /\ "CONNECT" \in cb[g] => calls[conn[g]]["CONNECT"] = 0
    /\ ~Closing(g) => calls[conn[g]]["CLOSE"] = 0
    /\ \A e \in Tracked : calls[conn[g]][e] =< 1
    /\ \A i : Waits(i, g) => /\ stack[i].close_cb => calls[conn[g]]["CLOSE"] = 0
                             /\ \A j : Waits(j, g) => j = i
    /\ \A e \in due[conn[g]] :
          \/ g \in fds \ late /\ owner[g] = conn[g] /\ e \in cb[g]
          \/ e = "CLOSE" /\ \E i : Waits(i, g) /\ stack[i].close_cb

\* Every open number stands for a file that the history knows.
LEMMA OpenIsConn ==
  ASSUME TypeOK, NEW fd \in Fds, conn[fd] # NoConn
  PROVE  conn[fd] \in Conns /\ conn[fd] =< nconn
BY BoundsAssumption DEF TypeOK, Conns, NoConn

\* Only frames of a close that waits have a number.
LEMMA FrameFacts ==
  ASSUME TypeOK, NEW i \in DOMAIN stack
  PROVE  /\ stack[i] \in Frames
         /\ stack[i].close_cb => stack[i].fd # NoFd
         /\ stack[i].fd # NoFd <=> stack[i].fd \in Fds
         /\ stack[i].fd # NoFd <=> stack[i].then = "add_close"
         /\ stack[i].close_cb \in BOOLEAN /\ stack[i].late \in BOOLEAN
<1>1. stack[i] \in Frames
  BY DEF TypeOK
<1>2. CASE stack[i] \in [then : {"return"}, fd : {NoFd}, close_cb : {FALSE}, late : {FALSE}]
  BY <1>1, <1>2, ConstantFacts
<1>3. CASE stack[i] \in [then : {"add_close"}, fd : Fds, close_cb : BOOLEAN, late : BOOLEAN]
  BY <1>1, <1>3, ConstantFacts
<1>4. QED
  BY <1>1, <1>2, <1>3 DEF Frames

\* CallsInv is about the files of the open numbers.
LEMMA NumberFacts ==
  ASSUME TypeOK, CallsInv, NEW g \in Fds, conn[g] # NoConn
  PROVE  NumberOK(g)
<1>1. conn[g] \in Conns /\ \A h \in Fds : conn[h] = conn[g] => h = g
  BY OpenIsConn DEF CallsInv, OneNumberPerFile
<1>2. g # NoFd
  BY ConstantFacts
<1>3. \A i : Waits(i, g) => /\ stack[i].close_cb => calls[conn[g]]["CLOSE"] = 0
                            /\ \A j : Waits(j, g) => j = i
  BY <1>2 DEF Waits, CallsInv, FramesAgree
<1>4. \A e \in Tracked : calls[conn[g]][e] =< 1
  BY <1>1 DEF CallsInv, CalledAtMostOnce
<1>5. ASSUME NEW e \in due[conn[g]]
      PROVE  \/ g \in fds \ late /\ owner[g] = conn[g] /\ e \in cb[g]
             \/ e = "CLOSE" /\ \E i : Waits(i, g) /\ stack[i].close_cb
  <2>1. CASE \E h \in fds \ late : conn[h] = conn[g] /\ owner[h] = conn[g] /\ e \in cb[h]
    BY <1>1, <2>1 DEF TypeOK
  <2>2. ASSUME e = "CLOSE", NEW i \in DOMAIN stack, stack[i].close_cb, ~stack[i].late,
               conn[stack[i].fd] = conn[g]
        PROVE  Waits(i, g)
    <3>1. stack[i].fd \in Fds
      BY <2>2, FrameFacts
    <3>2. QED
      BY <1>1, <2>2, <3>1 DEF Waits
  <2>3. QED
    BY <1>1, <2>1, <2>2 DEF CallsInv, NoCallbackLost
<1>6. QED
  BY <1>3, <1>4, <1>5 DEF NumberOK, CallsInv, ConnectIsUncalled, CloseIsUncalled

\* A step that leaves the kernel alone keeps CallsInv if it does so number by
\* number.
LEMMA CallsStep ==
  ASSUME TypeOK, TypeOK', TableMatchesKernel', CallsInv, UNCHANGED <<conn, nconn>>,
         \A g \in Fds : conn[g] # NoConn => NumberOK(g)',
         \A c \in Conns : (\A g \in Fds : conn[g] # c) => calls'[c] = calls[c] /\ due'[c] = due[c],
         \A i \in DOMAIN stack' : stack'[i].fd # NoFd => conn[stack'[i].fd] # NoConn
  PROVE  CallsInv'
<1>1. OneNumberPerFile'
  BY DEF CallsInv, OneNumberPerFile
<1>2. \A g \in Fds : conn[g] =< nconn /\ conn[g] \in Nat /\ nconn \in Nat
  BY DEF TypeOK
<1>3. NewIsUncalled'
  <2>1. \A c \in Conns : c > nconn => \A g \in Fds : conn[g] # c
    BY <1>2 DEF Conns
  <2>2. QED
    BY <2>1 DEF CallsInv, NewIsUncalled
<1>4. ConnectIsUncalled'
  <2> SUFFICES ASSUME NEW g \in fds' \ late', "CONNECT" \in cb'[g]
               PROVE  calls'[conn'[g]]["CONNECT"] = 0
    BY DEF ConnectIsUncalled
  <2>1. g \in Fds /\ conn'[g] # NoConn
    BY DEF TableMatchesKernel, Fresh, TypeOK
  <2>2. QED
    BY <2>1 DEF NumberOK
<1>5. CloseIsUncalled'
  BY DEF CloseIsUncalled, NumberOK
<1>6. FramesAgree'
  <2> SUFFICES ASSUME NEW i \in DOMAIN stack', stack'[i].fd # NoFd
               PROVE  /\ conn[stack'[i].fd] # NoConn
                      /\ stack'[i].close_cb /\ ~stack'[i].late
                            => calls'[conn[stack'[i].fd]]["CLOSE"] = 0
                      /\ ~stack'[i].late => \A j \in DOMAIN stack' :
                            stack'[j].fd = stack'[i].fd /\ ~stack'[j].late => j = i
    BY DEF FramesAgree
  <2>1. PICK fd : fd = stack'[i].fd
    OBVIOUS
  <2>2. fd \in Fds /\ conn[fd] # NoConn
    <3>1. stack'[i] \in Frames
      BY DEF TypeOK
    <3>2. QED
      BY <2>1, <3>1 DEF Frames
  <2>3. NumberOK(fd)'
    BY <2>2
  <2>4. /\ ~stack'[i].late => Waits(i, fd)'
        /\ \A j \in DOMAIN stack' : stack'[j].fd = stack'[i].fd /\ ~stack'[j].late => Waits(j, fd)'
    BY <2>1 DEF Waits
  <2>5. QED
    BY <2>1, <2>2, <2>3, <2>4 DEF NumberOK
<1>7. CalledAtMostOnce'
  <2> SUFFICES ASSUME NEW c \in Conns, NEW e \in Tracked PROVE calls'[c][e] =< 1
    BY DEF CalledAtMostOnce
  <2>1. ASSUME NEW g \in Fds, conn[g] = c PROVE calls'[c][e] =< 1
    <3>1. conn[g] # NoConn
      BY <2>1 DEF Conns, NoConn
    <3>2. QED
      BY <2>1, <3>1 DEF NumberOK
  <2>2. QED
    BY <2>1 DEF CallsInv, CalledAtMostOnce
<1>8. NoCallbackLost'
  <2> SUFFICES ASSUME NEW c \in Conns, NEW e \in due'[c]
               PROVE  \/ \E g \in fds' \ late' : conn[g] = c /\ owner'[g] = c /\ e \in cb'[g]
                      \/ e = "CLOSE" /\ \E i \in DOMAIN stack' :
                            stack'[i].close_cb /\ ~stack'[i].late /\ conn[stack'[i].fd] = c
    BY DEF NoCallbackLost
  <2>1. CASE \E g \in Fds : conn[g] = c
    <3>1. PICK g \in Fds : conn[g] = c
      BY <2>1
    <3>2. NumberOK(g)'
      BY <3>1 DEF Conns, NoConn
    <3>3. QED
      BY <3>1, <3>2 DEF NumberOK, Waits
  <2>2. CASE \A g \in Fds : conn[g] # c
    <3>1. e \in due[c]
      BY <2>2
    <3>2. \A g \in fds : conn[g] # c
      BY <2>2 DEF TypeOK
    <3>3. \A i \in DOMAIN stack : stack[i].close_cb => conn[stack[i].fd] # c
      BY <2>2, FrameFacts
    <3>4. QED
      BY <3>1, <3>2, <3>3 DEF CallsInv, NoCallbackLost
  <2>3. QED
    BY <2>1, <2>2
<1>9. QED
  BY <1>1, <1>3, <1>4, <1>5, <1>6, <1>7, <1>8 DEF CallsInv

\* The closes that wait for g are the same before and after.
SameWaits(g) ==
    \A i : /\ Waits(i, g)' <=> Waits(i, g)
           /\ Waits(i, g) => stack'[i].close_cb = stack[i].close_cb

\* A number whose callbacks, calls and waiting closes stay as they are.
LEMMA Untouched ==
  ASSUME TypeOK, CallsInv, NEW g \in Fds, conn[g] # NoConn, conn'[g] = conn[g],
         g \in fds \ late => g \in fds' \ late' /\ owner'[g] = owner[g] /\ cb'[g] = cb[g],
         g \in fds' \ late' /\ "CONNECT" \in cb'[g] => g \in fds \ late,
         Closing(g) => Closing(g)', SameWaits(g),
         calls'[conn[g]] = calls[conn[g]], due'[conn[g]] = due[conn[g]]
  PROVE  NumberOK(g)'
<1>1. NumberOK(g)
  BY NumberFacts
<1>2. \A e \in due'[conn'[g]] :
          \/ g \in fds' \ late' /\ owner'[g] = conn'[g] /\ e \in cb'[g]
          \/ e = "CLOSE" /\ \E i : Waits(i, g)' /\ stack'[i].close_cb
  BY <1>1 DEF NumberOK, SameWaits
<1>3. \A i : Waits(i, g)' => /\ stack'[i].close_cb => calls'[conn'[g]]["CLOSE"] = 0
                             /\ \A j : Waits(j, g)' => j = i
  BY <1>1 DEF NumberOK, SameWaits
<1>4. QED
  BY <1>1, <1>2, <1>3 DEF NumberOK

\* Calling a callback puts its frame, and nothing else, on the stack.
LEMMA PushWaits ==
  ASSUME TypeOK, NEW f \in Frames, Call(f), NEW g
  PROVE  /\ f.fd # g \/ f.late => SameWaits(g)
         /\ f.fd = g /\ ~f.late => \E k : /\ ~Waits(k, g) /\ Waits(k, g)'
                                          /\ stack'[k].close_cb = f.close_cb
                                          /\ \A i : i # k => /\ Waits(i, g)' <=> Waits(i, g)
                                                             /\ Waits(i, g) => stack'[i] = stack[i]
<1>1. stack \in Seq(Frames) /\ stack' = Append(stack, f)
  BY DEF TypeOK, Call
<1>2. /\ DOMAIN stack' = DOMAIN stack \union {Len(stack) + 1}
      /\ Len(stack) + 1 \notin DOMAIN stack
      /\ stack'[Len(stack) + 1] = f
      /\ \A i \in DOMAIN stack : stack'[i] = stack[i]
  BY <1>1
<1> PICK k : k = Len(stack) + 1
  OBVIOUS
<1>3. ASSUME f.fd # g \/ f.late PROVE SameWaits(g)
  BY <1>2, <1>3 DEF SameWaits, Waits
<1>4. ASSUME f.fd = g, ~f.late
      PROVE  /\ ~Waits(k, g) /\ Waits(k, g)' /\ stack'[k].close_cb = f.close_cb
             /\ \A i : i # k => /\ Waits(i, g)' <=> Waits(i, g)
                                /\ Waits(i, g) => stack'[i] = stack[i]
  BY <1>2, <1>4 DEF Waits
<1>5. QED
  BY <1>3, <1>4

\* A callback that only returns, or none, is called.
LEMMA ReturnWaits ==
  ASSUME TypeOK, CallsInv, UNCHANGED conn, Call(Return) \/ UNCHANGED stack
  PROVE  /\ \A g \in Fds : SameWaits(g)
         /\ \A i \in DOMAIN stack' : stack'[i].fd # NoFd => conn[stack'[i].fd] # NoConn
         /\ \A g \in Fds : close_fds \subseteq close_fds' /\ Closing(g) => Closing(g)'
<1>1. CASE UNCHANGED stack
  BY <1>1 DEF SameWaits, Waits, CallsInv, FramesAgree, Closing, InStack
<1>2. CASE Call(Return)
  <2>1. Return.fd = NoFd /\ NoFd \notin Fds
    BY ConstantFacts DEF Return
  <2>2. \A g \in Fds : SameWaits(g)
    BY <1>2, <2>1, ReturnType, PushWaits
  <2>3. /\ stack \in Seq(Frames) /\ stack' = Append(stack, Return)
    BY <1>2 DEF TypeOK, Call
  <2>4. \A i \in DOMAIN stack' : (i \in DOMAIN stack /\ stack'[i] = stack[i]) \/ stack'[i] = Return
    BY <2>3
  <2>5. \A g \in Fds : InStack(g)' <=> InStack(g)
    BY <1>2, PushReturn
  <2>6. QED
    BY <2>1, <2>2, <2>4, <2>5 DEF CallsInv, FramesAgree, Closing
<1>3. QED
  BY <1>1, <1>2

\* Steps that call no CONNECT and no CLOSE callback that was registered in
\* time and register nothing: numbers may be given up, and auto_rewatch may
\* make an empty entry.
LEMMA QuietCalls ==
  ASSUME TypeOK, TypeOK', TableMatchesKernel', CallsInv, UNCHANGED <<conn, nconn, calls, due>>,
         close_fds \subseteq close_fds', Call(Return) \/ UNCHANGED stack,
         \A g \in Fds : /\ g \in fds \ late => /\ g \in fds' \ late'
                                               /\ owner'[g] = owner[g] /\ cb'[g] = cb[g]
                        /\ g \in fds' \ late' /\ "CONNECT" \in cb'[g] => g \in fds \ late
  PROVE  CallsInv'
<1>1. \A g \in Fds : conn[g] # NoConn => NumberOK(g)'
  BY ReturnWaits, Untouched
<1>2. QED
  BY <1>1, ReturnWaits, CallsStep

\* The first call of a callback is counted, and nothing else is.
LEMMA CountFacts ==
  ASSUME TypeOK, NEW c \in Conns, NEW e \in Tracked, calls[c][e] = 0, Count(c, e, FALSE)
  PROVE  /\ calls'[c][e] = 1
         /\ \A f \in Tracked : f # e => calls'[c][f] = calls[c][f]
         /\ \A d \in Conns : d # c => calls'[d] = calls[d]
BY DEF TypeOK, Count

\* The other numbers, when something happens to the entry and the calls of fd.
LEMMA OthersUntouched ==
  ASSUME TypeOK, CallsInv, UNCHANGED <<conn, nconn>>, NEW fd \in Fds, conn[fd] # NoConn,
         \A d \in Conns : d # conn[fd] => calls'[d] = calls[d] /\ due'[d] = due[d],
         \A g \in Fds \ {fd} :
            /\ g \in fds' \ late' <=> g \in fds \ late
            /\ owner'[g] = owner[g] /\ cb'[g] = cb[g]
            /\ Closing(g) => Closing(g)'
            /\ SameWaits(g)
  PROVE  /\ \A g \in Fds : conn[g] # NoConn /\ g # fd => NumberOK(g)'
         /\ \A c \in Conns : (\A g \in Fds : conn[g] # c) => calls'[c] = calls[c] /\ due'[c] = due[c]
<1>1. ASSUME NEW g \in Fds, conn[g] # NoConn, g # fd PROVE NumberOK(g)'
  <2>1. conn[g] \in Conns /\ conn[g] # conn[fd]
    BY <1>1, OpenIsConn DEF CallsInv, OneNumberPerFile
  <2>2. QED
    BY <1>1, <2>1, Untouched
<1>2. QED
  BY <1>1

\* unwatch and CONNECT_NG for an entry that was made in time: its CONNECT
\* callback was told or is not to be told, and nothing is due any more.
LEMMA EraseToldCalls ==
  ASSUME TypeOK, TypeOK', TableMatchesKernel, TableMatchesKernel', CallsInv,
         NEW fd \in fds, erase(fd), UNCHANGED <<conn, nconn, close_fds>>, Dropped(fd),
         \/ "CONNECT" \in cb[fd] /\ Call(Return) /\ Count(owner[fd], "CONNECT", fd \in late)
         \/ UNCHANGED <<stack, calls>>
  PROVE  CallsInv'
<1>1. fd \in Fds /\ (Call(Return) \/ UNCHANGED stack)
  BY DEF TypeOK
<1>2. CASE fd \in late
  <2>1. UNCHANGED <<calls, due>>
    BY <1>2 DEF Count, Dropped
  <2>2. QED
    BY <1>1, <1>2, <2>1, EraseFacts, QuietCalls
<1>3. CASE fd \notin late
  <2>1. conn[fd] # NoConn /\ owner[fd] = conn[fd] /\ ~Closing(fd) /\ conn[fd] \in Conns
    BY <1>1, <1>3, OpenIsConn DEF TableMatchesKernel, Fresh
  <2>2. NumberOK(fd)
    BY <1>1, <2>1, NumberFacts
  <2>3. due'[conn[fd]] = {} /\ \A d \in Conns : d # conn[fd] => due'[d] = due[d]
    BY <1>3, <2>1 DEF Dropped, TypeOK
  <2>4. /\ calls'[conn[fd]]["CLOSE"] = calls[conn[fd]]["CLOSE"]
        /\ calls'[conn[fd]]["CONNECT"] =< 1
        /\ \A d \in Conns : d # conn[fd] => calls'[d] = calls[d]
    <3>1. CASE UNCHANGED calls
      BY <2>2, <3>1 DEF NumberOK, Tracked
    <3>2. CASE "CONNECT" \in cb[fd] /\ Count(conn[fd], "CONNECT", FALSE)
      <4>1. calls[conn[fd]]["CONNECT"] = 0
        BY <1>3, <2>2, <3>2 DEF NumberOK
      <4>2. /\ calls'[conn[fd]]["CONNECT"] = 1
            /\ calls'[conn[fd]]["CLOSE"] = calls[conn[fd]]["CLOSE"]
            /\ \A d \in Conns : d # conn[fd] => calls'[d] = calls[d]
        BY <2>1, <3>2, <4>1, CountFacts DEF Tracked
      <4>3. QED
        BY <4>2
    <3>3. QED
      BY <1>3, <2>1, <3>1, <3>2 DEF Count
  <2>5. NumberOK(fd)'
    <3>1. SameWaits(fd) /\ (Closing(fd) => Closing(fd)') /\ fd \notin fds'
      BY <1>1, ReturnWaits, EraseFacts
    <3>2. \A i : ~Waits(i, fd)
      BY <2>1 DEF Closing, InStack, Waits
    <3>3. QED
      BY <2>2, <2>3, <2>4, <3>1, <3>2, <2>1 DEF NumberOK, SameWaits, Tracked
  <2>6. \A g \in Fds : conn[g] # NoConn => NumberOK(g)'
    BY <1>1, <2>1, <2>3, <2>4, <2>5, ReturnWaits, EraseFacts, OthersUntouched
  <2>7. \A c \in Conns : (\A g \in Fds : conn[g] # c) => calls'[c] = calls[c] /\ due'[c] = due[c]
    BY <1>1, <2>3, <2>4
  <2>8. QED
    BY <1>1, <2>6, <2>7, ReturnWaits, CallsStep
<1>4. QED
  BY <1>2, <1>3

\* A close of a number whose CONNECT callback still waits: it is told
\* GAME_OVER, and the frame remembers to call CLOSE.
LEMMA GameOverCalls ==
  ASSUME TypeOK, TypeOK', TableMatchesKernel, TableMatchesKernel', CallsInv, NEW fd \in fds,
         fd \notin late, NEW b \in BOOLEAN, b <=> "CLOSE" \in cb[fd], "CONNECT" \in cb[fd],
         unwatch_and_close(fd, b), UNCHANGED <<conn, nconn>>
  PROVE  CallsInv'
<1> DEFINE frame == [then |-> "add_close", fd |-> fd, close_cb |-> b, late |-> fd \in late]
<1>1. /\ fd \in Fds /\ erase(fd) /\ Call(frame) /\ UNCHANGED close_fds
      /\ conn[fd] # NoConn /\ owner[fd] = conn[fd] /\ ~Closing(fd) /\ conn[fd] \in Conns
  BY OpenIsConn DEF unwatch_and_close, TypeOK, TableMatchesKernel, Fresh
<1>2. frame \in Frames /\ frame.fd = fd /\ frame.close_cb = b /\ ~frame.late
  <2>1. frame \in Frames
    BY <1>1 DEF Frames
  <2>2. frame.late = (fd \in late)
    OBVIOUS
  <2>3. QED
    BY <2>1, <2>2
<1>3. NumberOK(fd)
  BY <1>1, NumberFacts
<1>4. Count(conn[fd], "CONNECT", FALSE) /\ due' = [due EXCEPT ![conn[fd]] = @ \ {"CONNECT"}]
  BY <1>1 DEF unwatch_and_close, Called, Count
<1>5. /\ calls'[conn[fd]]["CONNECT"] = 1 /\ calls'[conn[fd]]["CLOSE"] = 0
      /\ \A d \in Conns : d # conn[fd] => calls'[d] = calls[d]
      /\ due'[conn[fd]] = due[conn[fd]] \ {"CONNECT"}
      /\ \A d \in Conns : d # conn[fd] => due'[d] = due[d]
  <2>1. calls[conn[fd]]["CONNECT"] = 0 /\ calls[conn[fd]]["CLOSE"] = 0
    BY <1>1, <1>3 DEF NumberOK
  <2>2. QED
    BY <1>1, <1>4, <2>1, CountFacts DEF Tracked, TypeOK
<1>6. \A g \in Fds : InStack(g)' <=> InStack(g) \/ g = fd
  BY <1>1, <1>2, PushInStack
<1>7. \A g \in Fds : Closing(g)' <=> Closing(g) \/ g = fd
  BY <1>1, <1>6 DEF Closing
<1>8. \A i : ~Waits(i, fd)
  BY <1>1 DEF Closing, InStack, Waits
<1>9. PICK k : /\ Waits(k, fd)' /\ stack'[k].close_cb = b
               /\ \A i : i # k => (Waits(i, fd)' <=> Waits(i, fd))
  BY <1>1, <1>2, PushWaits
<1>10. \A g \in Fds \ {fd} : SameWaits(g)
  BY <1>1, <1>2, PushWaits
<1>11. \A i \in DOMAIN stack' : stack'[i].fd # NoFd => conn[stack'[i].fd] # NoConn
  <2>1. stack \in Seq(Frames) /\ stack' = Append(stack, frame)
    BY <1>1 DEF TypeOK, Call
  <2>2. \A i \in DOMAIN stack' : (i \in DOMAIN stack /\ stack'[i] = stack[i]) \/ stack'[i] = frame
    BY <1>2, <2>1
  <2>3. QED
    BY <1>1, <1>2, <2>2 DEF CallsInv, FramesAgree
<1> HIDE DEF frame
<1>12. NumberOK(fd)'
  <2>1. \A i : Waits(i, fd)' => i = k
    BY <1>8, <1>9
  <2>2. ASSUME NEW e \in due'[conn[fd]] PROVE e = "CLOSE" /\ stack'[k].close_cb
    <3>1. e \in due[conn[fd]] /\ e # "CONNECT" /\ e \in cb[fd]
      BY <1>3, <1>5, <1>8 DEF NumberOK
    <3>2. e \in Tracked
      BY <1>1, <3>1 DEF TypeOK
    <3>3. QED
      BY <1>9, <3>1, <3>2 DEF Tracked
  <2>3. fd \notin fds'
    BY <1>1, EraseFacts
  <2>4. QED
    BY <1>5, <1>9, <2>1, <2>2, <2>3 DEF NumberOK, Tracked
<1>13. /\ \A g \in Fds : conn[g] # NoConn /\ g # fd => NumberOK(g)'
       /\ \A c \in Conns : (\A g \in Fds : conn[g] # c) => calls'[c] = calls[c] /\ due'[c] = due[c]
  BY <1>1, <1>5, <1>7, <1>10, EraseFacts, OthersUntouched
<1>14. QED
  BY <1>11, <1>12, <1>13, CallsStep

\* A close without a CONNECT callback: CLOSE is called at once, if there is one.
LEMMA CloseCalls ==
  ASSUME TypeOK, TypeOK', TableMatchesKernel, TableMatchesKernel', CallsInv, NEW fd \in fds,
         fd \notin late, NEW b \in BOOLEAN, b <=> "CLOSE" \in cb[fd], "CONNECT" \notin cb[fd],
         unwatch_and_close(fd, b), UNCHANGED <<conn, nconn>>
  PROVE  CallsInv'
<1>1. /\ fd \in Fds /\ erase(fd) /\ close_fds' = close_fds \union {fd}
      /\ Call(Return) \/ UNCHANGED stack
      /\ conn[fd] # NoConn /\ owner[fd] = conn[fd] /\ ~Closing(fd) /\ conn[fd] \in Conns
  BY OpenIsConn DEF unwatch_and_close, TypeOK, TableMatchesKernel, Fresh
<1>2. /\ b => Count(conn[fd], "CLOSE", FALSE) /\ due' = [due EXCEPT ![conn[fd]] = @ \ {"CLOSE"}]
      /\ ~b => UNCHANGED <<due, calls>>
  BY <1>1 DEF unwatch_and_close, Called, Count
<1>3. NumberOK(fd)
  BY <1>1, NumberFacts
<1>4. /\ \A e \in Tracked : calls'[conn[fd]][e] =< 1
      /\ \A d \in Conns : d # conn[fd] => calls'[d] = calls[d] /\ due'[d] = due[d]
      /\ due'[conn[fd]] \subseteq due[conn[fd]] /\ (b => "CLOSE" \notin due'[conn[fd]])
  <2>1. CASE b
    <3>1. calls[conn[fd]]["CLOSE"] = 0 /\ \A e \in Tracked : calls[conn[fd]][e] =< 1
      BY <1>1, <1>3 DEF NumberOK
    <3>2. /\ calls'[conn[fd]]["CLOSE"] = 1
          /\ calls'[conn[fd]]["CONNECT"] = calls[conn[fd]]["CONNECT"]
          /\ \A d \in Conns : d # conn[fd] => calls'[d] = calls[d]
      BY <1>1, <1>2, <2>1, <3>1, CountFacts DEF Tracked
    <3>3. /\ \A d \in Conns : d # conn[fd] => due'[d] = due[d]
          /\ due'[conn[fd]] = due[conn[fd]] \ {"CLOSE"}
      BY <1>1, <1>2, <2>1 DEF TypeOK
    <3>4. QED
      BY <3>1, <3>2, <3>3 DEF Tracked
  <2>2. CASE ~b
    BY <1>2, <1>3, <2>2 DEF NumberOK
  <2>3. QED
    BY <2>1, <2>2
<1>5. \A i : ~Waits(i, fd)
  BY <1>1 DEF Closing, InStack, Waits
<1>6. /\ \A g \in Fds : SameWaits(g) /\ (Closing(g) => Closing(g)')
      /\ \A i \in DOMAIN stack' : stack'[i].fd # NoFd => conn[stack'[i].fd] # NoConn
  BY <1>1, ReturnWaits
<1>7. NumberOK(fd)'
  <2>1. due'[conn[fd]] = {}
    <3> SUFFICES ASSUME NEW e \in due'[conn[fd]] PROVE FALSE
      OBVIOUS
    <3>1. e \in due[conn[fd]] /\ e \in cb[fd] /\ e \in Tracked
      BY <1>1, <1>3, <1>4, <1>5 DEF NumberOK, TypeOK
    <3>2. QED
      BY <1>4, <3>1 DEF Tracked
  <2>2. fd \notin fds' /\ Closing(fd)' /\ \A i : ~Waits(i, fd)'
    BY <1>1, <1>5, <1>6, EraseFacts DEF Closing, SameWaits
  <2>3. QED
    BY <1>4, <2>1, <2>2 DEF NumberOK
<1>8. /\ \A g \in Fds : conn[g] # NoConn /\ g # fd => NumberOK(g)'
      /\ \A c \in Conns : (\A g \in Fds : conn[g] # c) => calls'[c] = calls[c] /\ due'[c] = due[c]
  BY <1>1, <1>4, <1>6, EraseFacts, OthersUntouched
<1>9. QED
  BY <1>6, <1>7, <1>8, CallsStep

\* A close of a number whose entry was made too late: its calls do not count.
LEMMA LateCloseCalls ==
  ASSUME TypeOK, TypeOK', TableMatchesKernel', CallsInv, NEW fd \in late, conn[fd] # NoConn,
         NEW b \in BOOLEAN, unwatch_and_close(fd, b), UNCHANGED <<conn, nconn>>
  PROVE  CallsInv'
<1> DEFINE frame == [then |-> "add_close", fd |-> fd, close_cb |-> b, late |-> fd \in late]
<1>1. fd \in Fds /\ erase(fd) /\ UNCHANGED <<due, calls>> /\ close_fds \subseteq close_fds'
  BY DEF unwatch_and_close, TypeOK, Called, Count
<1>2. CASE Call(Return) \/ UNCHANGED stack
  BY <1>1, <1>2, EraseFacts, QuietCalls
<1>3. CASE Call(frame)
  <2>1. frame \in Frames /\ frame.fd = fd /\ frame.late = TRUE
    BY <1>1 DEF Frames
  <2>2. \A g \in Fds : SameWaits(g)
    BY <1>3, <2>1, PushWaits
  <2>3. \A g \in Fds : Closing(g) => Closing(g)'
    BY <1>1, <1>3, <2>1, PushInStack DEF Closing
  <2>4. \A g \in Fds : conn[g] # NoConn => NumberOK(g)'
    BY <1>1, <2>2, <2>3, EraseFacts, Untouched
  <2>5. stack \in Seq(Frames) /\ stack' = Append(stack, frame)
    BY <1>3 DEF TypeOK, Call
  <2>6. \A i \in DOMAIN stack' : (i \in DOMAIN stack /\ stack'[i] = stack[i]) \/ stack'[i] = frame
    BY <2>1, <2>5
  <2>7. \A i \in DOMAIN stack' : stack'[i].fd # NoFd => conn[stack'[i].fd] # NoConn
    BY <2>1, <2>6 DEF CallsInv, FramesAgree
  <2>8. QED
    BY <1>1, <2>4, <2>7, CallsStep
<1>4. QED
  BY <1>2, <1>3 DEF unwatch_and_close

\* Any close of a number that is in the table.
LEMMA UnwatchAndCloseCalls ==
  ASSUME TypeOK, TypeOK', TableMatchesKernel, TableMatchesKernel', CallsInv, NEW fd \in fds,
         conn[fd] # NoConn, NEW b \in BOOLEAN, b <=> "CLOSE" \in cb[fd],
         unwatch_and_close(fd, b), UNCHANGED <<conn, nconn>>
  PROVE  CallsInv'
BY GameOverCalls, CloseCalls, LateCloseCalls

\* A GAME_OVER callback returns: the close goes on, and calls CLOSE.
LEMMA CallbackReturnsCalls ==
  ASSUME TypeOK, TypeOK', TableMatchesKernel', CallsInv, callback_returns
  PROVE  CallsInv'
<1> DEFINE top == stack[Len(stack)]
           rest == SubSeq(stack, 1, Len(stack) - 1)
<1>1. /\ stack \in Seq(Frames) /\ stack # <<>> /\ Len(stack) \in DOMAIN stack
      /\ UNCHANGED <<conn, nconn, cb, owner, fds, late>>
  BY DEF callback_returns, TypeOK, kernel, table
<1>2. DOMAIN rest = DOMAIN stack \ {Len(stack)} /\ \A i \in DOMAIN rest : rest[i] = stack[i]
  BY <1>1
<1>3. stack' = rest \/ stack' = Append(rest, Return)
  BY DEF callback_returns
<1>4. /\ DOMAIN rest \subseteq DOMAIN stack'
      /\ \A i \in DOMAIN rest : stack'[i] = stack[i]
      /\ \A i \in DOMAIN stack' \ DOMAIN rest : stack'[i].fd = NoFd
  <2>1. rest \in Seq(Frames)
    BY <1>1
  <2>2. CASE stack' = rest
    BY <1>2, <2>2
  <2>3. CASE stack' = Append(rest, Return)
    <3>1. /\ DOMAIN stack' = DOMAIN rest \union {Len(rest) + 1}
          /\ \A i \in DOMAIN rest : stack'[i] = rest[i]
          /\ stack'[Len(rest) + 1] = Return
      BY <2>1, <2>3
    <3>2. Return.fd = NoFd
      BY DEF Return
    <3>3. QED
      BY <1>2, <3>1, <3>2
  <2>4. QED
    BY <1>3, <2>2, <2>3
<1>5. PICK n, fd, b, l : n = Len(stack) /\ fd = top.fd /\ b = top.close_cb /\ l = top.late
  OBVIOUS
<1>6. /\ n \in DOMAIN stack /\ stack[n].fd = fd /\ stack[n].close_cb = b /\ stack[n].late = l
      /\ DOMAIN rest = DOMAIN stack \ {n}
      /\ b \in BOOLEAN /\ l \in BOOLEAN /\ (fd \in Fds \/ fd = NoFd) /\ NoFd \notin Fds
      /\ fd \in Fds <=> top.then = "add_close"
      /\ b => fd \in Fds
  BY <1>1, <1>2, <1>5, FrameFacts, ConstantFacts
<1>7. /\ fd \in Fds => close_fds' = close_fds \union {fd}
      /\ fd \notin Fds => UNCHANGED <<close_fds, due, calls>>
      /\ fd \in Fds /\ b => Called(conn[fd], "CLOSE", l)
      /\ fd \in Fds /\ ~b => UNCHANGED <<due, calls>>
  <2>1. CASE top.then = "return" /\ UNCHANGED <<close_fds, history>>
    <3>1. fd \notin Fds
      BY <1>6, <2>1
    <3>2. QED
      BY <2>1, <3>1 DEF history
  <2>2. CASE /\ top.then = "add_close" /\ close_fds' = close_fds \union {top.fd}
             /\ IF top.close_cb
                THEN stack' = Append(rest, Return) /\ Called(conn[top.fd], "CLOSE", top.late)
                ELSE stack' = rest /\ UNCHANGED history
    BY <1>5, <1>6, <2>2 DEF history
  <2>3. QED
    BY <2>1, <2>2 DEF callback_returns
<1>8. \A g \in Fds : \A i : Waits(i, g)' <=> Waits(i, g) /\ i # n
  BY <1>4, <1>6 DEF Waits
<1>9. \A g \in Fds : \A i : Waits(i, g)' => stack'[i] = stack[i]
  BY <1>4, <1>6 DEF Waits
<1> HIDE DEF top, rest
<1>10. \A g \in Fds : g # fd \/ l => SameWaits(g)
  BY <1>6, <1>8, <1>9 DEF SameWaits, Waits
<1>11. \A g \in Fds : Closing(g) => Closing(g)'
  <2> SUFFICES ASSUME NEW g \in Fds, Closing(g) PROVE Closing(g)'
    OBVIOUS
  <2>1. CASE g \in close_fds
    BY <1>7, <2>1 DEF Closing
  <2>2. ASSUME NEW i \in DOMAIN stack, stack[i].fd = g PROVE Closing(g)'
    <3>1. CASE i = n
      BY <1>6, <1>7, <2>2, <3>1 DEF Closing
    <3>2. CASE i # n
      BY <1>4, <1>6, <2>2, <3>2 DEF Closing, InStack
    <3>3. QED
      BY <3>1, <3>2
  <2>3. QED
    BY <2>1, <2>2 DEF Closing, InStack
<1>12. \A i \in DOMAIN stack' : stack'[i].fd # NoFd => conn[stack'[i].fd] # NoConn
  BY <1>4, <1>6 DEF CallsInv, FramesAgree
<1>13. CASE fd \notin Fds \/ l
  <2>1. UNCHANGED <<due, calls>> /\ \A g \in Fds : SameWaits(g)
    <3>1. CASE fd \notin Fds
      BY <1>7, <1>10, <3>1
    <3>2. CASE l /\ fd \in Fds
      BY <1>6, <1>7, <1>10, <3>2 DEF Called, Count
    <3>3. QED
      BY <1>13, <3>1, <3>2
  <2>2. \A g \in Fds : conn[g] # NoConn => NumberOK(g)'
    BY <1>1, <1>11, <2>1, Untouched
  <2>3. QED
    BY <1>1, <1>12, <2>1, <2>2, CallsStep
<1>14. CASE fd \in Fds /\ ~l
  <2>1. conn[fd] # NoConn /\ conn[fd] \in Conns
    BY <1>6, <1>14, OpenIsConn DEF CallsInv, FramesAgree
  <2>2. NumberOK(fd) /\ Waits(n, fd)
    BY <1>6, <1>14, <2>1, NumberFacts DEF Waits
  <2>3. /\ b => calls[conn[fd]]["CLOSE"] = 0
        /\ \A i : Waits(i, fd) => i = n
    BY <1>6, <2>2 DEF NumberOK
  <2>4. /\ \A e \in Tracked : calls'[conn[fd]][e] =< 1
        /\ calls'[conn[fd]]["CONNECT"] = calls[conn[fd]]["CONNECT"]
        /\ \A d \in Conns : d # conn[fd] => calls'[d] = calls[d] /\ due'[d] = due[d]
        /\ due'[conn[fd]] \subseteq due[conn[fd]] /\ (b => "CLOSE" \notin due'[conn[fd]])
    <3>1. CASE b
      <4>1. Count(conn[fd], "CLOSE", FALSE) /\ due' = [due EXCEPT ![conn[fd]] = @ \ {"CLOSE"}]
        BY <1>7, <1>14, <3>1 DEF Called, Count
      <4>2. /\ calls'[conn[fd]]["CLOSE"] = 1
            /\ calls'[conn[fd]]["CONNECT"] = calls[conn[fd]]["CONNECT"]
            /\ \A d \in Conns : d # conn[fd] => calls'[d] = calls[d]
        BY <2>1, <2>3, <3>1, <4>1, CountFacts DEF Tracked
      <4>3. /\ \A d \in Conns : d # conn[fd] => due'[d] = due[d]
            /\ due'[conn[fd]] = due[conn[fd]] \ {"CLOSE"}
        BY <2>1, <4>1 DEF TypeOK
      <4>4. calls[conn[fd]]["CONNECT"] =< 1
        BY <2>2 DEF NumberOK, Tracked
      <4>5. QED
        BY <4>2, <4>3, <4>4 DEF Tracked
    <3>2. CASE ~b
      BY <1>7, <1>14, <2>2, <3>2 DEF NumberOK
    <3>3. QED
      BY <1>6, <3>1, <3>2
  <2>5. NumberOK(fd)'
    <3>1. \A i : ~Waits(i, fd)'
      BY <1>8, <1>14, <2>3
    <3>2. ASSUME NEW e \in due'[conn[fd]]
          PROVE  fd \in fds \ late /\ owner[fd] = conn[fd] /\ e \in cb[fd]
      <4>1. e \in due[conn[fd]]
        BY <2>4
      <4>2. ~(e = "CLOSE" /\ \E i : Waits(i, fd) /\ stack[i].close_cb)
        BY <1>6, <2>3, <2>4
      <4>3. QED
        BY <2>2, <4>1, <4>2 DEF NumberOK
    <3>3. Closing(fd)'
      BY <1>7, <1>14 DEF Closing
    <3>4. QED
      BY <1>1, <2>2, <2>4, <3>1, <3>2, <3>3 DEF NumberOK
  <2>6. /\ \A g \in Fds : conn[g] # NoConn /\ g # fd => NumberOK(g)'
        /\ \A c \in Conns : (\A g \in Fds : conn[g] # c) => calls'[c] = calls[c] /\ due'[c] = due[c]
    BY <1>1, <1>10, <1>11, <1>14, <2>1, <2>4, OthersUntouched
  <2>7. QED
    BY <1>1, <1>12, <2>5, <2>6, CallsStep
<1>15. QED
  BY <1>6, <1>13, <1>14

\* A file is opened under a number that was free.
LEMMA OpenCalls ==
  ASSUME TypeOK, TableMatchesKernel, CallsInv, Open PROVE CallsInv'
<1>1. PICK fd \in Fds : conn[fd] = NoConn /\ conn' = [conn EXCEPT ![fd] = nconn + 1]
  BY DEF Open
<1>2. /\ \A g \in Fds : g # fd => conn'[g] = conn[g]
      /\ conn'[fd] = nconn + 1 /\ nconn' = nconn + 1 /\ nconn + 1 \in Conns
      /\ \A g \in Fds : conn[g] # nconn + 1
      /\ nconn \in Nat
  <2>1. nconn \in Nat /\ nconn' = nconn + 1 /\ nconn + 1 \in Conns
    BY BoundsAssumption DEF Open, TypeOK, Conns
  <2>2. \A g \in Fds : conn[g] # nconn + 1
    BY <2>1 DEF TypeOK
  <2>3. QED
    BY <1>1, <2>1, <2>2 DEF TypeOK
<1>3. UNCHANGED <<fds, cb, owner, late, stack, due, calls>>
      /\ \A g \in Fds : Closing(g)' <=> Closing(g)
  BY DEF Open, table, history, Closing, InStack
<1>4. OneNumberPerFile' /\ CalledAtMostOnce'
  BY <1>2, <1>3 DEF CallsInv, OneNumberPerFile, CalledAtMostOnce
<1>5. NewIsUncalled'
  BY <1>2, <1>3 DEF CallsInv, NewIsUncalled, Conns
<1>6. \A g \in fds \ late : conn'[g] = conn[g]
  BY <1>1, <1>2 DEF TableMatchesKernel, Fresh, TypeOK
<1>7. ConnectIsUncalled'
  BY <1>3, <1>6 DEF CallsInv, ConnectIsUncalled
<1>8. CloseIsUncalled'
  <2>1. calls[nconn + 1]["CLOSE"] = 0
    BY <1>2 DEF CallsInv, NewIsUncalled, Tracked
  <2>2. QED
    BY <1>2, <1>3, <2>1 DEF CallsInv, CloseIsUncalled
<1>9. \A i \in DOMAIN stack : stack[i].fd # NoFd => conn'[stack[i].fd] = conn[stack[i].fd]
  BY <1>1, <1>2, FrameFacts DEF CallsInv, FramesAgree
<1>10. FramesAgree'
  BY <1>3, <1>9 DEF CallsInv, FramesAgree
<1>11. NoCallbackLost'
  BY <1>3, <1>6, <1>9, FrameFacts DEF CallsInv, NoCallbackLost
<1>12. QED
  BY <1>4, <1>5, <1>7, <1>8, <1>10, <1>11 DEF CallsInv

\* Callbacks E are registered for fd, and its entry has the callbacks F then.
LEMMA WatchCalls ==
  ASSUME TypeOK, TypeOK', DispatchInv, TableMatchesKernel, TableMatchesKernel', CallsInv,
         NEW fd \in Fds, NEW op, NEW E, NEW F, NEW b, conn[fd] # NoConn,
         _epoll_update(op, fd, F, b), op = AddOrMod(fd) \/ (op = "ADD" /\ epoll[fd] = {}),
         "CONNECT" \in F => "CONNECT" \in E \/ (op = AddOrMod(fd) /\ "CONNECT" \in cb[fd]),
         \A g \in Fds \ {fd} : owner'[g] = owner[g],
         Register(fd, E), UNCHANGED <<conn, nconn, stack, close_fds>>
  PROVE  CallsInv'
<1>1. /\ cb'[fd] = F /\ fds' = fds \union {fd}
      /\ \A g \in Fds \ {fd} : /\ cb'[g] = cb[g]
                               /\ g \in fds' \ late' <=> g \in fds \ late
  BY DEF _epoll_update, TypeOK
<1>2. /\ \A g \in Fds : SameWaits(g) /\ (Closing(g)' <=> Closing(g))
      /\ \A i \in DOMAIN stack' : stack'[i].fd # NoFd => conn[stack'[i].fd] # NoConn
  BY DEF SameWaits, Waits, Closing, InStack, CallsInv, FramesAgree
<1>3. CASE fd \in late'
  <2>1. UNCHANGED <<due, calls>> /\ fd \notin fds \ late
    BY <1>3, LateStaysLate DEF Register
  <2>2. \A g \in Fds : conn[g] # NoConn => NumberOK(g)'
    BY <1>1, <1>2, <1>3, <2>1, Untouched
  <2>3. QED
    BY <1>2, <2>1, <2>2, CallsStep
<1>4. CASE fd \notin late'
  <2>1. /\ conn[fd] \in Conns /\ ~Closing(fd) /\ NumberOK(fd)
        /\ fd \in fds /\ op = AddOrMod(fd) => fd \notin late
    BY <1>4, OpenIsConn, NumberFacts, UpdateWorks
  <2>2. /\ due'[conn[fd]] = F \intersect Tracked
        /\ calls'[conn[fd]] = [e \in Tracked |-> IF e \in E THEN 0 ELSE calls[conn[fd]][e]]
        /\ \A d \in Conns : d # conn[fd] => calls'[d] = calls[d] /\ due'[d] = due[d]
    BY <1>1, <1>4, <2>1 DEF Register, TypeOK
  <2>3. \A i : ~Waits(i, fd)
    BY <2>1 DEF Closing, InStack, Waits
  <2>4. "CONNECT" \in F /\ "CONNECT" \notin E => calls[conn[fd]]["CONNECT"] = 0
    <3>1. "CONNECT" \in cb[fd] => fd \in fds
      BY DEF DispatchInv, EntriesAgree
    <3>2. QED
      BY <2>1, <3>1 DEF NumberOK
  <2>5. calls[conn[fd]]["CLOSE"] = 0 /\ \A e \in Tracked : calls[conn[fd]][e] =< 1
    BY <2>1 DEF NumberOK
  <2>6. fd \in fds' \ late' /\ owner'[fd] = conn[fd] /\ UNCHANGED conn
    BY <1>1, <1>4 DEF TableMatchesKernel, Fresh
  <2>7. NumberOK(fd)'
    <3>1. \A e \in Tracked : calls'[conn[fd]][e] = IF e \in E THEN 0 ELSE calls[conn[fd]][e]
      BY <2>2
    <3>2. /\ calls'[conn[fd]]["CLOSE"] = 0 /\ ("CONNECT" \in F => calls'[conn[fd]]["CONNECT"] = 0)
          /\ \A e \in Tracked : calls'[conn[fd]][e] =< 1
      BY <2>4, <2>5, <3>1 DEF Tracked
    <3>3. \A i : ~Waits(i, fd)'
      BY <1>2, <2>3 DEF SameWaits
    <3>4. QED
      BY <1>1, <2>2, <2>6, <3>2, <3>3 DEF NumberOK
  <2>8. /\ \A g \in Fds : conn[g] # NoConn /\ g # fd => NumberOK(g)'
        /\ \A c \in Conns : (\A g \in Fds : conn[g] # c) => calls'[c] = calls[c] /\ due'[c] = due[c]
    BY <1>1, <1>2, <2>2, OthersUntouched
  <2>9. QED
    BY <1>2, <2>7, <2>8, CallsStep
<1>5. QED
  BY <1>3, <1>4

\* CONNECT_OK: the entry keeps its other callbacks.
LEMMA ConnectOkCalls ==
  ASSUME TypeOK, TypeOK', DispatchInv, TableMatchesKernel, TableMatchesKernel', CallsInv, connect_ok
  PROVE  CallsInv'
<1> PICK fd : fd = current_fd
  OBVIOUS
<1>1. /\ fd \in Fds /\ cb[fd] = current_cb /\ "CONNECT" \in cb[fd] /\ fd \in fds
      /\ cb' = [cb EXCEPT ![fd] = @ \ {"CONNECT"}]
      /\ Call(Return) /\ Called(owner[fd], "CONNECT", fd \in late)
      /\ UNCHANGED <<conn, nconn, fds, owner, late, close_fds>>
  BY DEF connect_ok, LoopAt, TypeOK, Dispatching, DispatchInv, CopyAgrees, EntriesAgree,
         CallCurrent, kernel
<1>2. /\ cb'[fd] = cb[fd] \ {"CONNECT"}
      /\ \A g \in Fds \ {fd} : cb'[g] = cb[g]
  BY <1>1 DEF TypeOK
<1>3. /\ \A g \in Fds : SameWaits(g) /\ (Closing(g)' <=> Closing(g))
      /\ \A i \in DOMAIN stack' : stack'[i].fd # NoFd => conn[stack'[i].fd] # NoConn
  BY <1>1, ReturnWaits, SameClosing
<1>4. CASE fd \in late
  <2>1. UNCHANGED <<calls, due>>
    BY <1>1, <1>4 DEF Called, Count
  <2>2. QED
    BY <1>1, <1>2, <1>4, <2>1, QuietCalls
<1>5. CASE fd \notin late
  <2>1. conn[fd] # NoConn /\ owner[fd] = conn[fd] /\ ~Closing(fd) /\ conn[fd] \in Conns
    BY <1>1, <1>5, OpenIsConn DEF TableMatchesKernel, Fresh
  <2>2. NumberOK(fd)
    BY <1>1, <2>1, NumberFacts
  <2>3. Count(conn[fd], "CONNECT", FALSE) /\ due' = [due EXCEPT ![conn[fd]] = @ \ {"CONNECT"}]
    BY <1>1, <1>5, <2>1 DEF Called, Count
  <2>4. calls[conn[fd]]["CONNECT"] = 0
    BY <1>1, <1>5, <2>2 DEF NumberOK
  <2>5. /\ calls'[conn[fd]]["CONNECT"] = 1
        /\ calls'[conn[fd]]["CLOSE"] = calls[conn[fd]]["CLOSE"]
        /\ \A d \in Conns : d # conn[fd] => calls'[d] = calls[d]
    BY <2>1, <2>3, <2>4, CountFacts DEF Tracked
  <2>6. /\ \A d \in Conns : d # conn[fd] => due'[d] = due[d]
        /\ due'[conn[fd]] = due[conn[fd]] \ {"CONNECT"}
    BY <2>1, <2>3 DEF TypeOK
  <2>7. NumberOK(fd)'
    <3>1. \A i : ~Waits(i, fd) /\ ~Waits(i, fd)'
      BY <1>1, <1>3, <2>1 DEF Closing, InStack, Waits, SameWaits
    <3>2. \A e \in due'[conn[fd]] : fd \in fds \ late /\ owner[fd] = conn[fd] /\ e \in cb'[fd]
      BY <1>2, <2>2, <2>6, <3>1 DEF NumberOK
    <3>3. calls[conn[fd]]["CLOSE"] = 0
      BY <2>1, <2>2 DEF NumberOK
    <3>4. QED
      BY <1>1, <1>2, <2>5, <3>1, <3>2, <3>3 DEF NumberOK, Tracked
  <2>8. /\ \A g \in Fds : conn[g] # NoConn /\ g # fd => NumberOK(g)'
        /\ \A c \in Conns : (\A g \in Fds : conn[g] # c) => calls'[c] = calls[c] /\ due'[c] = due[c]
    BY <1>1, <1>2, <1>3, <2>1, <2>5, <2>6, OthersUntouched
  <2>9. QED
    BY <1>1, <1>3, <2>7, <2>8, CallsStep
<1>6. QED
  BY <1>4, <1>5

\* The end of the batch: no callback that was registered in time is registered
\* for a number that is closed.
LEMMA ClosePendingCalls ==
  ASSUME TypeOK, TableMatchesKernel, CallsInv, close_pending PROVE CallsInv'
<1>1. /\ \A g \in Fds : conn'[g] = IF g \in close_fds THEN NoConn ELSE conn[g]
      /\ UNCHANGED <<nconn, fds, cb, owner, late, stack, due>>
      /\ stack = <<>> /\ close_fds' = {}
      /\ \A c \in Conns : calls'[c] = IF \E fd \in close_fds : conn[fd] = c
                                      THEN [e \in Tracked |-> 1] ELSE calls[c]
  BY DEF close_pending, LoopAt
<1>2. close_fds \subseteq Fds /\ \A g \in fds \ late : g \in Fds /\ g \notin close_fds
  BY DEF TableMatchesKernel, Closing, TypeOK
<1>3. \A g \in Fds : g \notin close_fds /\ conn[g] # NoConn =>
         conn'[g] = conn[g] /\ calls'[conn[g]] = calls[conn[g]]
  <2>1. \A g \in Fds : g \notin close_fds /\ conn[g] # NoConn =>
           conn[g] \in Conns /\ \A h \in close_fds : conn[h] # conn[g]
    BY <1>2, OpenIsConn DEF CallsInv, OneNumberPerFile
  <2>2. QED
    BY <1>1, <2>1
<1>4. OneNumberPerFile'
  BY <1>1 DEF CallsInv, OneNumberPerFile
<1>5. NewIsUncalled'
  <2>1. \A c \in Conns : c > nconn => \A g \in Fds : conn[g] # c
    BY DEF TypeOK, Conns
  <2>2. QED
    BY <1>1, <1>2, <2>1 DEF CallsInv, NewIsUncalled
<1>6. CalledAtMostOnce'
  <2> SUFFICES ASSUME NEW c \in Conns, NEW e \in Tracked PROVE calls'[c][e] =< 1
    BY DEF CalledAtMostOnce
  <2>1. calls'[c][e] = 1 \/ calls'[c][e] = calls[c][e]
    BY <1>1
  <2>2. QED
    BY <2>1 DEF CallsInv, CalledAtMostOnce
<1>7. ConnectIsUncalled'
  BY <1>1, <1>2, <1>3 DEF CallsInv, ConnectIsUncalled, TableMatchesKernel, Fresh
<1>8. CloseIsUncalled'
  BY <1>1, <1>3 DEF CallsInv, CloseIsUncalled, Closing, InStack
<1>9. FramesAgree'
  BY <1>1 DEF FramesAgree
<1>10. NoCallbackLost'
  <2>1. \A c \in Conns : \A e \in due[c] :
          \E g \in fds \ late : conn[g] = c /\ owner[g] = c /\ e \in cb[g]
    BY <1>1 DEF CallsInv, NoCallbackLost
  <2>2. \A g \in fds \ late : conn'[g] = conn[g]
    BY <1>1, <1>2
  <2>3. QED
    BY <1>1, <2>1, <2>2 DEF NoCallbackLost
<1>11. QED
  BY <1>4, <1>5, <1>6, <1>7, <1>8, <1>9, <1>10 DEF CallsInv

\* auto_rewatch makes an empty entry, if any.
LEMMA RewatchCalls ==
  ASSUME TypeOK, TypeOK', DispatchInv, TableMatchesKernel', CallsInv, NEW fd \in Fds, NEW b,
         auto_rewatch(fd, b), UNCHANGED <<conn, nconn, calls, due, close_fds, stack>>
  PROVE  CallsInv'
<1>1. /\ cb' = cb /\ fds' = fds \union {fd}
      /\ fd \in fds => late' = late /\ owner' = owner
      /\ \A g \in Fds \ {fd} : /\ g \in fds' \ late' <=> g \in fds \ late
                               /\ owner'[g] = owner[g]
  BY DEF auto_rewatch, _epoll_update, AddOrMod, TypeOK
<1>2. fd \notin fds => cb[fd] = {}
  BY DEF DispatchInv, EntriesAgree
<1>3. QED
  BY <1>1, <1>2, QuietCalls

\* What user code does keeps CallsInv.
LEMMA UserCalls ==
  ASSUME TypeOK, TypeOK', DispatchInv, TableMatchesKernel, TableMatchesKernel', CallsInv, User
  PROVE  CallsInv'
<1>1. CASE Open
  BY <1>1, OpenCalls
<1>2. ASSUME NEW fd \in Fds, NEW e \in Events, watch_event(fd, e) PROVE CallsInv'
  <2> DEFINE op == AddOrMod(fd)
             E == {e}
             F == cb[fd] \union {e}
             b == fd \in write_buf
  <2>1. /\ conn[fd] # NoConn /\ op = AddOrMod(fd) /\ _epoll_update(op, fd, F, b)
        /\ \A g \in Fds \ {fd} : owner'[g] = owner[g]
        /\ Register(fd, E) /\ UNCHANGED <<conn, nconn, close_fds, stack>>
    BY <1>2 DEF watch_event, kernel, TypeOK
  <2>2. "CONNECT" \in F => "CONNECT" \in E \/ (op = AddOrMod(fd) /\ "CONNECT" \in cb[fd])
    OBVIOUS
  <2> HIDE DEF op, E, F, b
  <2>3. QED
    BY <2>1, <2>2, WatchCalls
<1>3. ASSUME NEW fd \in Fds, NEW E \in CbSets, NEW re_watch \in BOOLEAN, watch(fd, E, re_watch)
      PROVE  CallsInv'
  <2> DEFINE op == IF re_watch THEN "ADD" ELSE AddOrMod(fd)
             b == fd \in write_buf
  <2>1. /\ conn[fd] # NoConn /\ _epoll_update(op, fd, E, b)
        /\ op = AddOrMod(fd) \/ (op = "ADD" /\ epoll[fd] = {})
        /\ \A g \in Fds \ {fd} : owner'[g] = owner[g]
        /\ Register(fd, E) /\ UNCHANGED <<conn, nconn, close_fds, stack>>
    BY <1>3 DEF watch, kernel, TypeOK
  <2> HIDE DEF op, b
  <2>2. QED
    BY <2>1, WatchCalls
<1>4. ASSUME NEW fd \in Fds, NEW no_callback \in BOOLEAN, unwatch(fd, no_callback)
      PROVE  CallsInv'
  BY <1>4, EraseToldCalls DEF unwatch, kernel
<1>5. ASSUME NEW fd \in Fds, NEW force_close \in BOOLEAN, close(fd, force_close)
      PROVE  CallsInv'
  <2>1. UNCHANGED <<conn, nconn>> /\ conn[fd] # NoConn
    BY <1>5 DEF close, kernel
  <2>2. CASE fd \in fds /\ unwatch_and_close(fd, "CLOSE" \in cb[fd])
    <3>1. ("CLOSE" \in cb[fd]) \in BOOLEAN
      OBVIOUS
    <3>2. QED
      BY <2>1, <2>2, <3>1, UnwatchAndCloseCalls
  <2>3. CASE /\ close_fds' = IF force_close THEN close_fds \union {fd} ELSE close_fds
             /\ UNCHANGED <<table, current_cb, stack, history>>
    <3>1. UNCHANGED <<fds, cb, owner, late, stack, due, calls>> /\ close_fds \subseteq close_fds'
      BY <2>3 DEF table, history
    <3>2. QED
      BY <2>1, <3>1, QuietCalls
  <2>4. QED
    BY <1>5, <2>2, <2>3 DEF close
<1>6. ASSUME NEW fd \in Fds, write_again(fd) PROVE CallsInv'
  BY <1>6, RewatchCalls DEF write_again, kernel, history
<1>7. CASE on_fork \/ error_exit
  <2>1. UNCHANGED <<conn, nconn, close_fds, stack, due, calls, cb, fds, owner, late>>
    BY <1>7 DEF on_fork, error_exit, kernel, table, history
  <2>2. QED
    BY <2>1, QuietCalls
<1>8. CASE callback_returns
  BY <1>8, CallbackReturnsCalls
<1>9. QED
  BY <1>1, <1>2, <1>3, <1>4, <1>5, <1>6, <1>7, <1>8 DEF User, write_epipe

\* The steps of handle_events keep CallsInv.
LEMMA HandleEventsCalls ==
  ASSUME TypeOK, TypeOK', DispatchInv, TableMatchesKernel, TableMatchesKernel', CallsInv,
         handle_events
  PROVE  CallsInv'
<1>1. CASE (\E fd \in Fds : next_event(fd)) \/ no_connect \/ read \/ err
  <2>1. /\ UNCHANGED <<conn, nconn, fds, cb, owner, late, close_fds, due, calls>>
        /\ Call(Return) \/ UNCHANGED stack
    BY <1>1 DEF next_event, no_connect, read, err, CallCurrent, PassOver, kernel, table, history
  <2>2. QED
    BY <2>1, QuietCalls
<1>2. CASE connect_ok
  BY <1>2, ConnectOkCalls
<1>3. CASE connect_ng
  <2>1. /\ current_fd \in fds /\ "CONNECT" \in cb[current_fd]
        /\ erase(current_fd) /\ Call(Return) /\ Dropped(current_fd)
        /\ Count(owner[current_fd], "CONNECT", current_fd \in late)
        /\ UNCHANGED <<conn, nconn, close_fds>>
    BY <1>3 DEF connect_ng, LoopAt, TypeOK, Dispatching, DispatchInv, CopyAgrees, EntriesAgree,
                CallCurrent, kernel
  <2>2. PICK fd : fd = current_fd
    OBVIOUS
  <2>3. QED
    BY <2>1, <2>2, EraseToldCalls
<1>4. ASSUME NEW b, unwatch_and_close(current_fd, b), b = ("CLOSE" \in cb[current_fd]),
             UNCHANGED <<conn, nconn>>, current_fd \in fds, stage \in Dispatching
      PROVE  CallsInv'
  <2>1. conn[current_fd] # NoConn /\ b \in BOOLEAN
    BY <1>4 DEF DispatchInv, CurrentIsGathered, Fresh
  <2>2. PICK fd : fd = current_fd
    OBVIOUS
  <2>3. QED
    BY <1>4, <2>1, <2>2, UnwatchAndCloseCalls
<1>5. CASE out
  <2>1. UNCHANGED <<conn, nconn>> /\ stage \in Dispatching /\ current_fd \in Fds
    BY <1>5 DEF out, LoopAt, PassOver, out_finished, out_again, out_failed, kernel, Dispatching,
                TypeOK
  <2>2. CASE UNCHANGED <<table, close_fds, history>> /\ (Call(Return) \/ UNCHANGED stack)
    BY <2>1, <2>2, QuietCalls DEF table, history
  <2>3. ASSUME NEW b, auto_rewatch(current_fd, b), UNCHANGED <<close_fds, history, stack>>
        PROVE  CallsInv'
    BY <2>1, <2>3, RewatchCalls DEF history
  <2>4. CASE PassOver("err")
    BY <2>2, <2>4 DEF PassOver
  <2>5. CASE out_finished
    BY <2>2, <2>3, <2>5 DEF out_finished
  <2>6. CASE out_again
    BY <2>3, <2>6 DEF out_again
  <2>7. ASSUME NEW epipe \in BOOLEAN, out_failed(epipe) PROVE CallsInv'
    BY <1>4, <2>1, <2>2, <2>7 DEF out_failed
  <2>8. QED
    BY <1>5, <2>4, <2>5, <2>6, <2>7 DEF out
<1>6. CASE hup
  <2>1. UNCHANGED <<conn, nconn>> /\ stage \in Dispatching /\ current_cb = cb[current_fd]
    BY <1>6 DEF hup, LoopAt, Dispatching, DispatchInv, CopyAgrees, kernel
  <2>2. CASE current_fd \in fds /\ unwatch_and_close(current_fd, "CLOSE" \in current_cb)
    BY <1>4, <2>1, <2>2
  <2>3. CASE UNCHANGED <<kernel, table, write_buf, close_fds, stack, history>>
    BY <2>1, <2>3, QuietCalls DEF table, history
  <2>4. QED
    BY <1>6, <2>2, <2>3 DEF hup
<1>7. CASE close_pending
  BY <1>7, ClosePendingCalls
<1>8. QED
  BY <1>1, <1>2, <1>3, <1>5, <1>6, <1>7 DEF handle_events

\* CallsInv holds in every state.
LEMMA CallsInvAlways == Spec => []CallsInv
<1>1. Init => CallsInv
  <2> SUFFICES ASSUME Init PROVE CallsInv
    OBVIOUS
  <2>1. /\ \A fd \in Fds : conn[fd] = NoConn
        /\ fds = {} /\ stack = <<>>
        /\ \A c \in Conns : due[c] = {} /\ \A e \in Tracked : calls[c][e] = 0
    BY DEF Init
  <2>2. QED
    BY <2>1 DEF CallsInv, OneNumberPerFile, NewIsUncalled, ConnectIsUncalled,
                CloseIsUncalled, FramesAgree, CalledAtMostOnce, NoCallbackLost
<1>2. TypeOK /\ TypeOK' /\ DispatchInv /\ TableMatchesKernel /\ TableMatchesKernel'
         /\ CallsInv /\ [Next]_vars => CallsInv'
  <2> SUFFICES ASSUME TypeOK, TypeOK', DispatchInv, TableMatchesKernel, TableMatchesKernel',
                      CallsInv, [Next]_vars
               PROVE  CallsInv'
    OBVIOUS
  <2>1. CASE \/ \E s \in {"check", "epoll_wait", "exited"} : event_loop(s)
             \/ \E batch \in [Fds -> FlagSets \union {{}}] : epoll_wait(batch)
             \/ epoll_wait_eintr \/ UNCHANGED vars
    <3>1. UNCHANGED <<conn, nconn, fds, cb, owner, late, close_fds, stack, due, calls>>
      BY <2>1 DEF event_loop, epoll_wait, epoll_wait_eintr, kernel, table, history, vars
    <3>2. QED
      BY <3>1, QuietCalls
  <2>2. QED
    BY <2>1, UserCalls, HandleEventsCalls DEF Next, stopped
<1>3. QED
  BY <1>1, <1>2, TypeCorrect, DispatchInvAlways, TableAgrees, PTL DEF Spec

\* However callbacks watch, unwatch, write and close from inside of one
\* another, a CONNECT callback and a CLOSE callback that are registered before
\* the close of their file are each called at most once.
THEOREM CallbacksAreCalledOnce == Spec => []CalledAtMostOnce
<1>1. CallsInv => CalledAtMostOnce
  BY DEF CallsInv
<1>2. QED
  BY <1>1, CallsInvAlways, PTL

\* A CONNECT or CLOSE callback that is registered and was not called is never
\* lost: it is in the table for its file, or the close that took it out of
\* the table will call it when the GAME_OVER callback returns.
THEOREM CallbacksAreNotLost == Spec => []NoCallbackLost
<1>1. CallsInv => NoCallbackLost
  BY DEF CallsInv
<1>2. QED
  BY <1>1, CallsInvAlways, PTL

=============================================================================
