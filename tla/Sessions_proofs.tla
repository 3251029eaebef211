---------------------------- MODULE Sessions_proofs ----------------------------
(***************************************************************************)
(* Proofs about the sessions, for any number of workers, descriptors,      *)
(* connections and tokens: SessionsInv is inductive.  A handler concerns   *)
(* one number of one worker, so what it has to establish is NumberFits for *)
(* that number, and NumberSuffices does the rest.                          *)
(***************************************************************************)
EXTENDS Sessions, WellFoundedInduction, TLAPS

\* The processes p and q agree on the number g.
SameNumber(p, q, g) ==
    /\ q.conn[g] = p.conn[g] /\ q.cb[g] = p.cb[g] /\ q.c2s[g] = p.c2s[g]
    /\ q.tasks[g] = p.tasks[g] /\ q.buf[g] = p.buf[g]

\* A step leaves connection j alone.
LeavesAlone(j) ==
    /\ nread'[j] = nread[j] /\ given'[j] = given[j] /\ passed'[j] = passed[j]
    /\ j \in tasked' <=> j \in tasked

\* Nothing has passed through connection k.
Untouched(k) == nread[k] = 0 /\ given[k] = <<>> /\ passed[k] = <<>> /\ k \notin tasked

\* No number stands for none, and no connection or session either.
LEMMA ConstantFacts ==
    /\ NoFd \notin Fds /\ NoConn = 0 /\ NoSession = 0 /\ NoConn \notin Conns /\ NoSession \notin Conns
    /\ MaxConn \in Nat /\ Conns \subseteq Nat
  BY SessionFds, SessionBounds DEF NoFd, NoConn, NoSession, Conns

-----------------------------------------------------------------------------
(* Sequences.                                                              *)

\* The end of a sequence behind its head.
LEMMA TailFacts ==
    ASSUME NEW s \in Seq(Conns), s # <<>>
    PROVE  /\ Len(s) > 0 /\ Head(s) = s[1] /\ Head(s) \in Conns
           /\ Tail(s) \in Seq(Conns) /\ Len(Tail(s)) = Len(s) - 1
           /\ \A i \in 1..Len(Tail(s)) : Tail(s)[i] = s[i + 1]
  OBVIOUS

\* The tokens of a read.
LEMMA TokenFacts ==
    ASSUME NEW a \in Nat, NEW n \in Nat, NEW q, q = [i \in 1..n |-> a + i]
    PROVE  q \in Seq(Nat) /\ Len(q) = n /\ \A i \in 1..n : q[i] = a + i
  OBVIOUS

\* One sequence behind another.
LEMMA ConcatFacts ==
    ASSUME NEW a \in Seq(Nat), NEW b \in Seq(Nat)
    PROVE  /\ a \o b \in Seq(Nat) /\ Len(a \o b) = Len(a) + Len(b)
           /\ \A i \in 1..(Len(a) + Len(b)) :
                 (a \o b)[i] = IF i =< Len(a) THEN a[i] ELSE b[i - Len(a)]
  OBVIOUS

\* a is the tokens behind d up to m.
Tokens(a, d, m) ==
    a \in Seq(Nat) /\ m >= d /\ Len(a) = m - d /\ \A i \in 1..(m - d) : a[i] = i + d

\* The tokens that were read, in order, and n more of them.
LEMMA GrowFacts ==
    ASSUME NEW a, NEW d \in Nat, NEW m \in Nat, NEW n \in Nat, Tokens(a, d, m),
           NEW b, b = [i \in 1..n |-> m + i]
    PROVE  Tokens(a \o b, d, m + n)
  <1> USE DEF Tokens
  <1>1. b \in Seq(Nat) /\ Len(b) = n /\ \A i \in 1..n : b[i] = m + i
    BY TokenFacts
  <1>2. PICK c, x, y : c = a \o b /\ x = m - d /\ y = (m + n) - d
    OBVIOUS
  <1>3. /\ c \in Seq(Nat) /\ Len(c) = Len(a) + Len(b)
        /\ \A i \in 1..(Len(a) + Len(b)) : c[i] = IF i =< Len(a) THEN a[i] ELSE b[i - Len(a)]
    BY ONLY <1>1, <1>2, a \in Seq(Nat), ConcatFacts, Zenon
  <1>4. x \in Nat /\ y \in Nat /\ y = x + n /\ Len(a) + Len(b) = y /\ Len(a) = x
    BY <1>1, <1>2
  <1>5. ASSUME NEW i \in 1..y PROVE c[i] = i + d
    <2>1. c[i] = IF i =< x THEN a[i] ELSE b[i - x]
      BY <1>3, <1>4
    <2>2. CASE i =< x
      BY <2>1, <2>2, <1>2
    <2>3. CASE ~ (i =< x)
      <3>1. i - x \in 1..n
        BY <2>3, <1>4
      <3>2. c[i] = m + (i - x)
        BY <2>1, <2>3, <3>1, <1>1
      <3> QED BY <3>2, <1>2
    <2> QED BY <2>2, <2>3
  <1>6. PICK z : z = m + n
    OBVIOUS
  <1>7. z >= d /\ z - d = y
    BY <1>2, <1>6
  <1>8. c \in Seq(Nat) /\ Len(c) = y /\ \A i \in 1..y : c[i] = i + d
    BY <1>3, <1>4, <1>5
  <1>9. Tokens(c, d, z)
    BY ONLY <1>7, <1>8 DEF Tokens
  <1> QED BY ONLY <1>2, <1>6, <1>9

\* What is left of a message behind the two halves of the id.
LEMMA RestFacts ==
    ASSUME NEW m \in Seq(Nat), Len(m) >= 2, \A i \in 1..Len(m) : m[i] = i,
           NEW q, q = SubSeq(m, 3, Len(m))
    PROVE  /\ IsPrefix(Halves, m)
           /\ q \in Seq(Nat) /\ Len(q) = Len(m) - 2 /\ \A i \in 1..(Len(m) - 2) : q[i] = i + 2
  <1>1. PICK n : n = Len(m)
    OBVIOUS
  <1>2. n \in Nat /\ n >= 2 /\ \A i \in 3..n : m[i] \in Nat
    BY <1>1
  <1>3. SubSeq(m, 3, n) \in Seq(Nat) /\ Len(SubSeq(m, 3, n)) = n - 2
    BY <1>2
  <1>4. \A i \in 1..(n - 2) : SubSeq(m, 3, n)[i] = m[i + 2]
    BY <1>2
  <1>5. \A i \in 1..(n - 2) : m[i + 2] = i + 2
    BY <1>1, <1>2
  <1>6. IsPrefix(Halves, m)
    <2>1. m[1] = 1 /\ m[2] = 2
      BY <1>1, <1>2
    <2> QED BY <2>1 DEF IsPrefix, Halves
  <1> QED BY <1>1, <1>3, <1>4, <1>5, <1>6

\* What no or one task sends on.
LEMMA FlattenFacts ==
    ASSUME NEW e \in Seq(Nat)
    PROVE  FlattenSeq([i \in 1..0 |-> e]) = <<>> /\ FlattenSeq([i \in 1..1 |-> e]) = e
  <1>1. FlattenSeq([i \in 1..0 |-> e]) = <<>>
    BY DEF FlattenSeq
  <1>2. PICK s : s = [i \in 1..1 |-> e]
    OBVIOUS
  <1>3. Len(s) = 1 /\ s[1] = e
    BY <1>2
  <1> DEFINE fl == CHOOSE f : f = [i \in 1..1 |-> IF i = 1 THEN s[i] ELSE f[i - 1] \o s[i]]
  <1>4. FlattenSeq(s) = fl[1]
    BY <1>3 DEF FlattenSeq
  <1>5. fl[1] = e
    <2>1. PICK g : g = [i \in 1..1 |-> e]
      OBVIOUS
    <2>2. g = [i \in 1..1 |-> IF i = 1 THEN s[i] ELSE g[i - 1] \o s[i]]
      BY <2>1, <1>3
    <2>3. fl = [i \in 1..1 |-> IF i = 1 THEN s[i] ELSE fl[i - 1] \o s[i]]
      BY <2>2
    <2> HIDE DEF fl
    <2> QED BY <2>3, <1>3
  <1> QED BY <1>1, <1>2, <1>4, <1>5

-----------------------------------------------------------------------------
(* Numbers one by one.                                                     *)

\* What fits goes on to fit if nothing about it has changed.
LEMMA FitsStill ==
    ASSUME SessionsInv, NEW w \in Workers, NEW fd \in Fds,
           SameNumber(proc[w], proc'[w], fd),
           Len(session) =< Len(session'), Len(session') \in Nat,
           \A j \in 1..Len(session) : session'[j] = session[j],
           proc[w].conn[fd] # NoConn => LeavesAlone(proc[w].conn[fd])
    PROVE  NumberFits(proc[w], fd)'
  <1>1. PICK p, q, k : p = proc[w] /\ q = proc'[w] /\ k = p.conn[fd]
    OBVIOUS
  <1>2. NumberFits(p, fd) /\ SameNumber(p, q, fd)
    BY <1>1 DEF SessionsInv, NumbersFit
  <1>3. q.conn[fd] = k /\ Len(session) \in Nat
    BY <1>1, <1>2 DEF SameNumber, SessionsInv, TypeOK
  <1>4. CASE k = NoConn
    <2>1. k \notin 1..Len(session)
      BY <1>4, <1>3, ConstantFacts
    <2>2. /\ q.cb[fd] = "none" /\ q.conn[fd] = NoConn
          /\ q.c2s[fd] = NoSession /\ q.tasks[fd] = 0 /\ q.buf[fd] = <<>>
      BY <1>1, <1>2, <1>4, <2>1 DEF NumberFits, SameNumber
    <2> QED BY <2>2, <1>1 DEF NumberFits
  <1>5. CASE k # NoConn
    <2>1. LeavesAlone(k)
      BY <1>1, <1>5
    <2>2. k \in 1..Len(session) => k \in 1..Len(session') /\ session'[k] = session[k]
      BY <1>3
    <2>3. CASE p.cb[fd] = "initial"
      <3>1. /\ q.cb[fd] = "initial" /\ k \in 1..Len(session')
            /\ q.c2s[fd] = NoSession /\ q.tasks[fd] = IF k \in tasked' THEN 1 ELSE 0
            /\ nread'[k] < 2 /\ Len(q.buf[fd]) = nread'[k]
            /\ \A i \in 1..nread'[k] : q.buf[fd][i] = i
            /\ given'[k] = <<>> /\ passed'[k] = <<>>
        BY <1>1, <1>2, <2>1, <2>2, <2>3 DEF NumberFits, SameNumber, LeavesAlone
      <3> QED BY <3>1, <1>1, <1>3 DEF NumberFits
    <2>4. CASE p.cb[fd] = "protocol"
      <3>1. /\ q.cb[fd] = "protocol" /\ k \in 1..Len(session')
            /\ q.c2s[fd] = session'[k] /\ q.tasks[fd] = 0 /\ q.buf[fd] = <<>>
            /\ nread'[k] >= 2 /\ Len(given'[k]) = nread'[k] - 2
            /\ \A i \in 1..(nread'[k] - 2) : given'[k][i] = i + 2
            /\ passed'[k] = IF k \in tasked' THEN <<session'[k]>> ELSE <<>>
        BY <1>1, <1>2, <2>1, <2>2, <2>4 DEF NumberFits, SameNumber, LeavesAlone
      <3> QED BY <3>1, <1>1, <1>3 DEF NumberFits
    <2> QED BY <1>1, <1>2, <1>5, <2>3, <2>4, Zenon DEF NumberFits
  <1> QED BY <1>4, <1>5

\* A step of worker w leaves the others alone and is the same but for fd.
AtNumber(w, fd) ==
    /\ \A v \in Workers \ {w} : proc'[v] = proc[v]
    /\ \A g \in Fds \ {fd} : SameNumber(proc[w], proc'[w], g)
    /\ proc[w].up /\ proc'[w].up

\* Two numbers that are not the same one, before and after.
LEMMA OthersStay ==
    ASSUME NEW w \in Workers, NEW fd \in Fds, AtNumber(w, fd),
           NEW v \in Workers, NEW g \in Fds, v # w \/ g # fd
    PROVE  SameNumber(proc[v], proc'[v], g)
  <1>1. CASE v # w
    BY <1>1 DEF AtNumber, SameNumber
  <1>2. CASE v = w
    BY <1>2 DEF AtNumber
  <1> QED BY <1>1, <1>2

\* Connections that are only given back, or taken from the waiting ones, are
\* in one place still.
LEMMA HeldStill ==
    ASSUME SessionsInv, session' = session,
           backlog' = backlog \/ (backlog # <<>> /\ backlog' = Tail(backlog)),
           \A w \in Workers : \A fd \in Fds : proc'[w].conn[fd] \in {proc[w].conn[fd], NoConn}
    PROVE  HeldOnce'
  <1>1. \A u, v \in Workers : \A f, g \in Fds :
           proc'[u].conn[f] = proc'[v].conn[g] /\ proc'[u].conn[f] # NoConn => u = v /\ f = g
    BY DEF SessionsInv, HeldOnce
  <1>2. PICK d \in {0, 1} : /\ Len(backlog') = Len(backlog) - d
                           /\ \A i \in 1..Len(backlog') : backlog'[i] = backlog[i + d]
    <2>1. backlog \in Seq(Conns) /\ Len(backlog) \in Nat
      BY DEF SessionsInv, TypeOK
    <2>2. CASE backlog' = backlog
      BY <2>1, <2>2
    <2>3. CASE backlog # <<>> /\ backlog' = Tail(backlog)
      <3>1. Len(backlog') = Len(backlog) - 1 /\ \A i \in 1..Len(backlog') : backlog'[i] = backlog[i + 1]
        BY <2>1, <2>3, TailFacts
      <3> QED BY <3>1
    <2> QED BY <2>2, <2>3
  <1>3. Len(backlog) \in Nat /\ \A i \in 1..Len(backlog') : i + d \in 1..Len(backlog)
    <2>1. Len(backlog) \in Nat
      BY DEF SessionsInv, TypeOK
    <2> QED BY <2>1, <1>2
  <1>4. ASSUME NEW i \in 1..Len(backlog'), NEW j \in 1..Len(backlog'), backlog'[i] = backlog'[j]
        PROVE  i = j
    <2>1. backlog[i + d] = backlog[j + d] /\ i + d \in 1..Len(backlog) /\ j + d \in 1..Len(backlog)
      BY <1>2, <1>3, <1>4
    <2>2. i + d = j + d
      BY <2>1 DEF SessionsInv, HeldOnce
    <2> QED BY <2>2, <1>2
  <1>5. ASSUME NEW i \in 1..Len(backlog')
        PROVE  /\ backlog'[i] =< Len(session)
               /\ \A v \in Workers, g \in Fds : proc'[v].conn[g] # backlog'[i]
    <2>1. backlog'[i] = backlog[i + d] /\ i + d \in 1..Len(backlog)
      BY <1>2, <1>3
    <2>2. backlog[i + d] \in Conns /\ backlog[i + d] # NoConn
      BY <2>1, ConstantFacts DEF SessionsInv, TypeOK
    <2> QED BY <2>1, <2>2 DEF SessionsInv, HeldOnce
  <1> QED BY <1>1, <1>4, <1>5 DEF HeldOnce

\* A step that concerns one number and the connection it stands for preserves
\* the invariant if they fit afterwards.
LEMMA NumberSuffices ==
    ASSUME SessionsInv, TypeOK', UNCHANGED <<session, backlog>>,
           NEW w \in Workers, NEW fd \in Fds, AtNumber(w, fd),
           NEW k, k = proc[w].conn[fd], k # NoConn,
           proc'[w].conn[fd] \in {k, NoConn},
           proc'[w].conn[fd] = NoConn => Untouched(k)',
           \A j \in Conns \ {k} : LeavesAlone(j),
           NumberFits(proc[w], fd)'
    PROVE  HeldOnce' /\ UnheldIsUntouched' /\ DownIsEmpty' /\ NumbersFit'
  <1>1. ASSUME NEW v \in Workers, NEW g \in Fds, v # w \/ g # fd
        PROVE  /\ SameNumber(proc[v], proc'[v], g) /\ proc'[v].conn[g] = proc[v].conn[g]
               /\ proc[v].conn[g] # k
    <2>1. SameNumber(proc[v], proc'[v], g)
      BY <1>1, OthersStay
    <2>2. proc[v].conn[g] # k
      BY <1>1 DEF SessionsInv, HeldOnce
    <2> QED BY <2>1, <2>2 DEF SameNumber
  <1>2. \A v \in Workers : \A g \in Fds : proc'[v].conn[g] \in {proc[v].conn[g], NoConn}
    BY <1>1
  <1>3. HeldOnce'
    BY <1>2, HeldStill
  <1>4. UnheldIsUntouched'
    <2> SUFFICES ASSUME NEW j \in Conns, \A v \in Workers, g \in Fds : proc'[v].conn[g] # j
                 PROVE  Untouched(j)'
      BY DEF UnheldIsUntouched, Untouched
    <2>1. CASE j = k
      BY <2>1
    <2>2. CASE j # k
      <3>1. \A v \in Workers, g \in Fds : proc[v].conn[g] # j
        BY <2>2, <1>1
      <3>2. Untouched(j) /\ LeavesAlone(j)
        BY <2>2, <3>1 DEF SessionsInv, UnheldIsUntouched, Untouched
      <3> QED BY <3>2 DEF Untouched, LeavesAlone
    <2> QED BY <2>1, <2>2
  <1>5. DownIsEmpty'
    BY DEF SessionsInv, DownIsEmpty, AtNumber
  <1>6. NumbersFit'
    <2> SUFFICES ASSUME NEW v \in Workers, NEW g \in Fds PROVE NumberFits(proc[v], g)'
      BY DEF NumbersFit
    <2>1. CASE v = w /\ g = fd
      BY <2>1
    <2>2. CASE v # w \/ g # fd
      <3>1. proc[v].conn[g] # NoConn => LeavesAlone(proc[v].conn[g])
        <4>1. proc[v].conn[g] \in Conns \union {NoConn}
          BY DEF SessionsInv, TypeOK, Procs
        <4> QED BY <4>1, <2>2, <1>1
      <3>2. Len(session) =< Len(session') /\ Len(session') \in Nat
        BY DEF SessionsInv, TypeOK
      <3> QED BY <2>2, <3>1, <3>2, <1>1, FitsStill
    <2> QED BY <2>1, <2>2
  <1> QED BY <1>3, <1>4, <1>5, <1>6

\* A session that was reached is reached still.
LEMMA ReachedStill ==
    ASSUME SessionsInv,
           \A w \in Workers : /\ proc'[w].s2c = proc[w].s2c
                              /\ \A g \in Fds : proc[w].cb[g] = "protocol" =>
                                    proc'[w].cb[g] = "protocol" /\ proc'[w].c2s[g] = proc[w].c2s[g]
    PROVE  ReachedIsKnown'
  <1>1. \A w \in Workers, s \in Conns : proc[w].s2c[s] # NoFd => proc[w].s2c[s] \in Fds
    BY DEF SessionsInv, TypeOK, Procs
  <1> QED BY <1>1 DEF SessionsInv, ReachedIsKnown

\* The same for the steps of one worker.
LEMMA ReachedStillAt ==
    ASSUME SessionsInv, NEW w \in Workers,
           \A v \in Workers \ {w} : proc'[v] = proc[v],
           proc'[w].s2c = proc[w].s2c,
           \A g \in Fds : proc[w].cb[g] = "protocol" =>
                 proc'[w].cb[g] = "protocol" /\ proc'[w].c2s[g] = proc[w].c2s[g]
    PROVE  ReachedIsKnown'
  BY ReachedStill

-----------------------------------------------------------------------------
(* Steps that leave the connections of the workers alone.                  *)

\* The invariant does not tell such states apart.
LEMMA NothingPasses ==
    ASSUME SessionsInv, TypeOK',
           UNCHANGED <<nread, given, passed, tasked>>,
           Len(session) =< Len(session'), \A j \in 1..Len(session) : session'[j] = session[j],
           \A w \in Workers : /\ proc'[w].s2c = proc[w].s2c
                              /\ \A g \in Fds : SameNumber(proc[w], proc'[w], g)
    PROVE  UnheldIsUntouched' /\ NumbersFit' /\ ReachedIsKnown'
  <1>1. UnheldIsUntouched'
    BY DEF SessionsInv, UnheldIsUntouched, SameNumber
  <1>2. NumbersFit'
    <2> SUFFICES ASSUME NEW v \in Workers, NEW g \in Fds PROVE NumberFits(proc[v], g)'
      BY DEF NumbersFit
    <2>1. LeavesAlone(proc[v].conn[g]) /\ Len(session') \in Nat
      BY DEF LeavesAlone, TypeOK
    <2> QED BY <2>1, FitsStill
  <1>3. ReachedIsKnown'
    BY ReachedStill DEF SameNumber
  <1> QED BY <1>1, <1>2, <1>3

\* A client arrives.
LEMMA ArrivesStep ==
    ASSUME SessionsInv, NEW m \in Masters, ClientArrives(m)
    PROVE  SessionsInv'
  <1>1. PICK k, n : k = Len(session) + 1 /\ n = counter[m] + 1
    OBVIOUS
  <1>2. /\ Len(session) \in Nat /\ k =< MaxConn /\ k \in Conns
        /\ counter[m] \in Nat /\ n \in Conns /\ MaxConn \in Nat
    <2>1. Len(session) \in Nat /\ counter[m] \in Nat /\ counter[m] =< Len(session) /\ k =< MaxConn
      BY <1>1 DEF SessionsInv, TypeOK, CountersAgree, ClientArrives
    <2> QED BY <1>1, <2>1, ConstantFacts DEF Conns
  <1>3. /\ counter' = [counter EXCEPT ![m] = n] /\ session' = Append(session, n)
        /\ backlog' = Append(backlog, k)
        /\ proc' = [w \in Workers |-> [proc[w] EXCEPT !.ready = @ \/ proc[w].up]]
        /\ UNCHANGED <<sent, gone, nread, given, passed, tasked, nkilled>>
    BY <1>1 DEF ClientArrives, numbered, SessionsInv, TypeOK
  <1>4. ASSUME NEW w \in Workers
        PROVE  /\ proc'[w] \in Procs /\ proc'[w].s2c = proc[w].s2c /\ proc'[w].up = proc[w].up
               /\ \A g \in Fds : SameNumber(proc[w], proc'[w], g)
    <2>1. PICK p, q : p = proc[w] /\ q = [p EXCEPT !.ready = @ \/ p.up]
      OBVIOUS
    <2>2. proc'[w] = q /\ p \in Procs
      BY <1>3, <2>1 DEF SessionsInv, TypeOK
    <2>3. q \in Procs
      BY <2>1, <2>2 DEF Procs
    <2>4. /\ q.s2c = p.s2c /\ q.up = p.up /\ q.conn = p.conn /\ q.cb = p.cb /\ q.c2s = p.c2s
          /\ q.tasks = p.tasks /\ q.buf = p.buf
      BY <2>1, <2>2 DEF Procs
    <2> QED BY <2>1, <2>2, <2>3, <2>4 DEF SameNumber
  <1>5. /\ session' \in Seq(Conns) /\ Len(session') = k
        /\ \A j \in 1..Len(session) : session'[j] = session[j]
    BY <1>1, <1>2, <1>3 DEF SessionsInv, TypeOK
  <1>6. /\ backlog' \in Seq(Conns) /\ Len(backlog') = Len(backlog) + 1 /\ Len(backlog) \in Nat
        /\ backlog'[Len(backlog) + 1] = k
        /\ \A i \in 1..Len(backlog) : backlog'[i] = backlog[i]
    BY <1>2, <1>3 DEF SessionsInv, TypeOK
  <1>7. TypeOK'
    <2>1. proc' \in [Workers -> Procs]
      BY <1>3, <1>4
    <2>2. counter' \in [Masters -> Nat] /\ sent' \in [Conns -> Nat]
      <3>1. n \in Nat /\ counter \in [Masters -> Nat] /\ sent \in [Conns -> Nat]
        BY <1>1, <1>2 DEF SessionsInv, TypeOK
      <3> QED BY <3>1, <1>2, <1>3
    <2>3. session' \in Seq(Conns) /\ Len(session') =< MaxConn /\ backlog' \in Seq(Conns)
      BY <1>2, <1>5, <1>6
    <2> QED BY <2>1, <2>2, <2>3, <1>3 DEF SessionsInv, TypeOK
  <1>8. CountersAgree'
    <2> SUFFICES ASSUME NEW l \in Masters PROVE counter'[l] =< Len(session')
      BY DEF CountersAgree
    <2>1. counter[l] \in Nat /\ counter[l] =< Len(session) /\ counter[m] =< Len(session)
      BY DEF SessionsInv, TypeOK, CountersAgree
    <2>2. counter'[l] = IF l = m THEN n ELSE counter[l]
      BY <1>3 DEF SessionsInv, TypeOK
    <2> QED BY <2>1, <2>2, <1>1, <1>2, <1>5
  <1>9. ASSUME NEW w \in Workers, NEW fd \in Fds
        PROVE  proc'[w].conn[fd] = proc[w].conn[fd] /\ proc[w].conn[fd] # k
    <2>1. proc[w].conn[fd] = NoConn \/ proc[w].conn[fd] \in 1..Len(session)
      BY DEF SessionsInv, NumbersFit, NumberFits
    <2> QED BY <2>1, <1>1, <1>2, <1>4, ConstantFacts DEF SameNumber
  <1>10. \A i \in 1..Len(backlog) : backlog[i] \in Conns /\ backlog[i] =< Len(session) /\ backlog[i] # k
    <2> SUFFICES ASSUME NEW i \in 1..Len(backlog)
                 PROVE  backlog[i] \in Conns /\ backlog[i] =< Len(session) /\ backlog[i] # k
      OBVIOUS
    <2>1. backlog[i] \in Conns
      BY DEF SessionsInv, TypeOK
    <2>2. backlog[i] =< Len(session) /\ backlog[i] \in Nat
      BY <2>1, ConstantFacts DEF SessionsInv, HeldOnce
    <2> QED BY <2>1, <2>2, <1>1, <1>2
  <1>11. HeldOnce'
    <2>1. \A u, v \in Workers : \A f, g \in Fds :
             proc'[u].conn[f] = proc'[v].conn[g] /\ proc'[u].conn[f] # NoConn => u = v /\ f = g
      BY <1>9 DEF SessionsInv, HeldOnce
    <2>2. ASSUME NEW i \in 1..Len(backlog'), NEW j \in 1..Len(backlog'), backlog'[i] = backlog'[j]
          PROVE  i = j
      <3>1. i \in 1..Len(backlog) \/ i = Len(backlog) + 1
        BY <1>6
      <3>2. j \in 1..Len(backlog) \/ j = Len(backlog) + 1
        BY <1>6
      <3> QED BY <2>2, <3>1, <3>2, <1>6, <1>10 DEF SessionsInv, HeldOnce
    <2>3. ASSUME NEW i \in 1..Len(backlog')
          PROVE  /\ backlog'[i] =< Len(session')
                 /\ \A w \in Workers, fd \in Fds : proc'[w].conn[fd] # backlog'[i]
      <3>1. CASE i = Len(backlog) + 1
        BY <3>1, <1>1, <1>2, <1>5, <1>6, <1>9
      <3>2. CASE i # Len(backlog) + 1
        <4>1. i \in 1..Len(backlog)
          BY <3>2, <1>6
        <4>2. backlog'[i] = backlog[i] /\ backlog[i] \in Nat /\ backlog[i] =< Len(session)
          BY <4>1, <1>6, <1>10, ConstantFacts
        <4> QED BY <4>1, <4>2, <1>1, <1>2, <1>5, <1>9 DEF SessionsInv, HeldOnce
      <3> QED BY <3>1, <3>2
    <2> QED BY <2>1, <2>2, <2>3 DEF HeldOnce
  <1>12. DownIsEmpty'
    BY <1>4, <1>9 DEF SessionsInv, DownIsEmpty
  <1>13. UnheldIsUntouched' /\ NumbersFit' /\ ReachedIsKnown'
    BY <1>1, <1>2, <1>3, <1>4, <1>5, <1>7, NothingPasses
  <1> QED BY <1>7, <1>8, <1>11, <1>12, <1>13 DEF SessionsInv

\* The master sends, the id at first, or goes.
LEMMA MasterStep ==
    ASSUME SessionsInv, NEW k \in Conns,
           on_remote_connect(k) \/ MasterSends(k) \/ MasterCloses(k)
    PROVE  SessionsInv'
  <1>1. /\ sent' \in [Conns -> Nat] /\ gone' \subseteq Conns
        /\ UNCHANGED <<counter, session, backlog, nread, given, passed, tasked, nkilled, proc>>
    <2>1. CASE MasterSends(k)
      <3>1. sent \in [Conns -> Nat] /\ sent' = [sent EXCEPT ![k] = sent[k] + 1]
        BY <2>1 DEF MasterSends, SessionsInv, TypeOK
      <3>2. sent' \in [Conns -> Nat]
        BY <3>1
      <3> QED BY <2>1, <3>2 DEF MasterSends, SessionsInv, TypeOK
    <2>2. CASE MasterCloses(k)
      BY <2>2 DEF MasterCloses, SessionsInv, TypeOK
    <2>3. CASE on_remote_connect(k)
      BY <2>3 DEF on_remote_connect, SessionsInv, TypeOK
    <2> QED BY <2>1, <2>2, <2>3
  <1>2. TypeOK' /\ CountersAgree' /\ HeldOnce' /\ DownIsEmpty'
    <2>1. TypeOK'
      BY <1>1 DEF SessionsInv, TypeOK
    <2>2. CountersAgree'
      BY <1>1 DEF SessionsInv, CountersAgree
    <2>3. HeldOnce'
      BY <1>1, HeldStill
    <2>4. DownIsEmpty'
      BY <1>1 DEF SessionsInv, DownIsEmpty
    <2> QED BY <2>1, <2>2, <2>3, <2>4
  <1>3. UnheldIsUntouched' /\ NumbersFit' /\ ReachedIsKnown'
    <2>1. Len(session) =< Len(session')
      BY <1>1 DEF SessionsInv, TypeOK
    <2> QED BY <1>1, <1>2, <2>1, NothingPasses DEF SameNumber
  <1> QED BY <1>2, <1>3 DEF SessionsInv

\* A worker enters the accept loop, or leaves it.
LEMMA LoopStep ==
    ASSUME SessionsInv, NEW w \in Workers, wakes(w) \/ accept_ends(w)
    PROVE  SessionsInv'
  <1>1. PICK p, q : p = proc[w] /\ q = proc'[w]
    OBVIOUS
  <1>2. /\ UNCHANGED <<counter, session, sent, gone, backlog, nread, given, passed, tasked, nkilled>>
        /\ p \in Procs
        /\ \/ q = [p EXCEPT !.ready = FALSE, !.accepting = TRUE]
           \/ q = [p EXCEPT !.accepting = FALSE]
        /\ proc' = [proc EXCEPT ![w] = q]
    BY <1>1 DEF wakes, accept_ends, SessionsInv, TypeOK
  <1>3. /\ q \in Procs /\ q.up = p.up /\ q.s2c = p.s2c /\ q.conn = p.conn /\ q.cb = p.cb
        /\ q.c2s = p.c2s /\ q.tasks = p.tasks /\ q.buf = p.buf
    BY <1>2 DEF Procs
  <1>4. TypeOK'
    BY <1>2, <1>3 DEF SessionsInv, TypeOK
  <1>5. \A v \in Workers : /\ proc'[v].s2c = proc[v].s2c /\ proc'[v].up = proc[v].up
                           /\ \A g \in Fds : SameNumber(proc[v], proc'[v], g)
    BY <1>1, <1>2, <1>3 DEF SessionsInv, TypeOK, SameNumber
  <1>6. HeldOnce'
    BY <1>2, <1>5, HeldStill DEF SameNumber
  <1>7. CountersAgree' /\ DownIsEmpty'
    BY <1>2, <1>5 DEF SessionsInv, CountersAgree, DownIsEmpty, SameNumber
  <1>8. UnheldIsUntouched' /\ NumbersFit' /\ ReachedIsKnown'
    <2>1. Len(session) =< Len(session')
      BY <1>2 DEF SessionsInv, TypeOK
    <2> QED BY <1>2, <1>4, <1>5, <2>1, NothingPasses
  <1> QED BY <1>4, <1>6, <1>7, <1>8 DEF SessionsInv

-----------------------------------------------------------------------------
(* Processes.                                                              *)

\* The process q has nothing.
Empty(q) ==
    /\ q \in Procs
    /\ \A fd \in Fds : /\ q.conn[fd] = NoConn /\ q.cb[fd] = "none" /\ q.c2s[fd] = NoSession
                        /\ q.tasks[fd] = 0 /\ q.buf[fd] = <<>>
    /\ \A s \in Conns : q.s2c[s] = NoFd

\* A process starts with nothing, and ends so.
LEMMA ForkedFacts ==
    ASSUME NEW waiting
    PROVE  Empty(forked(waiting)) /\ Empty([forked(waiting) EXCEPT !.up = FALSE])
  <1>1. PICK q, r : q = forked(waiting) /\ r = [q EXCEPT !.up = FALSE]
    BY Zenon
  <1>2. <<>> \in Seq(Nat) /\ (waiting # <<>>) \in BOOLEAN
    OBVIOUS
  <1>3. q \in Procs
    BY <1>1, <1>2 DEF forked, Procs
  <1>4. Empty(q)
    BY <1>1, <1>3 DEF forked, Empty
  <1>5. /\ r \in Procs /\ r.s2c = q.s2c /\ r.conn = q.conn /\ r.cb = q.cb
        /\ r.c2s = q.c2s /\ r.tasks = q.tasks /\ r.buf = q.buf
    BY <1>1, <1>3 DEF Procs
  <1>6. Empty(r)
    BY <1>4, <1>5 DEF Empty
  <1> QED BY <1>1, <1>4, <1>6

\* A worker is replaced by a process that has nothing, and what has passed
\* through its connections is forgotten.
LEMMA EmptiedStep ==
    ASSUME SessionsInv, NEW w \in Workers, NEW q, Empty(q), proc' = [proc EXCEPT ![w] = q],
           backlog' = backlog \/ (backlog # <<>> /\ backlog' = Tail(backlog)),
           UNCHANGED <<counter, session>>, nkilled' \in Nat, gone' \subseteq Conns,
           Forget(Open(proc[w]))
    PROVE  SessionsInv'
  <1>1. /\ proc' \in [Workers -> Procs] /\ proc'[w] = q
        /\ \A v \in Workers \ {w} : proc'[v] = proc[v]
    BY DEF SessionsInv, TypeOK, Empty
  <1>2. /\ sent' \in [Conns -> Nat] /\ nread' \in [Conns -> Nat] /\ given' \in [Conns -> Seq(Nat)]
        /\ passed' \in [Conns -> Seq(Nat)] /\ tasked' \subseteq Conns
    BY DEF SessionsInv, TypeOK, Forget
  <1>3. /\ \A j \in Conns \cap Open(proc[w]) : Untouched(j)'
        /\ \A j \in Conns \ Open(proc[w]) : LeavesAlone(j)
    BY DEF Forget, Untouched, LeavesAlone
  <1>4. TypeOK'
    <2>1. backlog' \in Seq(Conns)
      BY TailFacts DEF SessionsInv, TypeOK
    <2> QED BY <1>1, <1>2, <2>1 DEF SessionsInv, TypeOK
  <1>5. HeldOnce'
    BY <1>1, HeldStill DEF Empty
  <1>6. CountersAgree' /\ DownIsEmpty'
    BY <1>1 DEF SessionsInv, CountersAgree, DownIsEmpty, Empty
  <1>7. UnheldIsUntouched'
    <2> SUFFICES ASSUME NEW j \in Conns, \A v \in Workers, g \in Fds : proc'[v].conn[g] # j
                 PROVE  Untouched(j)'
      BY DEF UnheldIsUntouched, Untouched
    <2>1. CASE j \in Open(proc[w])
      BY <2>1, <1>3
    <2>2. CASE j \notin Open(proc[w])
      <3>1. j # NoConn /\ \A g \in Fds : proc[w].conn[g] # j
        BY <2>2, ConstantFacts DEF Open
      <3>2. Untouched(j)
        BY <3>1, <1>1 DEF SessionsInv, UnheldIsUntouched, Untouched
      <3> QED BY <2>2, <3>2, <1>3 DEF Untouched, LeavesAlone
    <2> QED BY <2>1, <2>2
  <1>8. NumbersFit'
    <2> SUFFICES ASSUME NEW v \in Workers, NEW g \in Fds PROVE NumberFits(proc[v], g)'
      BY DEF NumbersFit
    <2>1. CASE v = w
      BY <2>1, <1>1 DEF Empty, NumberFits
    <2>2. CASE v # w
      <3>1. proc[v].conn[g] # NoConn =>
               proc[v].conn[g] \in Conns /\ proc[v].conn[g] \notin Open(proc[w])
        BY <2>2 DEF SessionsInv, HeldOnce, Open, TypeOK, Procs
      <3>2. SameNumber(proc[v], proc'[v], g)
        BY <2>2, <1>1 DEF SameNumber
      <3>3. Len(session) =< Len(session') /\ Len(session') \in Nat
        BY DEF SessionsInv, TypeOK
      <3> QED BY <3>1, <3>2, <3>3, <1>3, FitsStill
    <2> QED BY <2>1, <2>2
  <1>9. ReachedIsKnown'
    BY <1>1 DEF SessionsInv, ReachedIsKnown, Empty
  <1> QED BY <1>4, <1>5, <1>6, <1>7, <1>8, <1>9 DEF SessionsInv

\* What a process has open are connections.
LEMMA OpenFacts == ASSUME SessionsInv, NEW w \in Workers PROVE Open(proc[w]) \subseteq Conns
  BY DEF SessionsInv, TypeOK, Procs, Open

\* A worker ends: from outside, or because accept fails.
LEMMA EndsStep ==
    ASSUME SessionsInv, NEW w \in Workers, killed(w) \/ accept_fails(w)
    PROVE  SessionsInv'
  <1>1. /\ Ends(w) /\ UNCHANGED <<counter, session>> /\ nkilled' \in Nat
        /\ backlog' = backlog \/ (backlog # <<>> /\ backlog' = Tail(backlog))
    BY DEF killed, accept_fails, SessionsInv, TypeOK
  <1>2. PICK q : q = [forked(<<>>) EXCEPT !.up = FALSE]
    OBVIOUS
  <1>3. Empty(q)
    BY <1>2, ForkedFacts
  <1>4. /\ proc' = [proc EXCEPT ![w] = q] /\ Forget(Open(proc[w]))
        /\ gone' \subseteq Conns
    BY <1>1, <1>2, OpenFacts DEF Ends, SessionsInv, TypeOK
  <1> QED BY <1>1, <1>3, <1>4, EmptiedStep

\* The supervisor forks a worker in the place of one that has ended.
LEMMA SuperviseStep ==
    ASSUME SessionsInv, NEW w \in Workers, supervise_subprocess(w)
    PROVE  SessionsInv'
  <1>1. /\ ~ proc[w].up /\ proc' = [proc EXCEPT ![w] = forked(backlog)]
        /\ UNCHANGED <<counter, session, sent, gone, backlog, nread, given, passed, tasked, nkilled>>
    BY DEF supervise_subprocess
  <1>2. Open(proc[w]) = {}
    BY <1>1 DEF SessionsInv, DownIsEmpty, Open
  <1>3. Forget(Open(proc[w]))
    BY <1>1, <1>2 DEF Forget, SessionsInv, TypeOK
  <1>4. PICK q : q = forked(backlog)
    OBVIOUS
  <1>5. Empty(q)
    BY <1>4, ForkedFacts
  <1>6. nkilled' \in Nat /\ gone' \subseteq Conns
    BY <1>1 DEF SessionsInv, TypeOK
  <1> QED BY <1>1, <1>3, <1>4, <1>5, <1>6, EmptiedStep

-----------------------------------------------------------------------------
(* Accepting.                                                              *)

\* There is a least one among any numbers.
LEMMA LeastFacts == ASSUME NEW S, S \subseteq Nat, S # {} PROVE Min(S) \in S
  <1> DEFINE R == OpToRel(<, Nat)
  <1>1. IsWellFoundedOn(R, Nat)
    BY NatLessThanWellFounded, Zenon
  <1> HIDE DEF R
  <1>2. PICK x \in S : \A y \in S : ~ (<<y, x>> \in R)
    BY <1>1, WFMin
  <1>3. \A y \in S : y < x => <<y, x>> \in R
    BY DEF R, OpToRel
  <1>4. \A y \in S : ~ (y < x)
    BY <1>2, <1>3
  <1>5. \A y \in S : x =< y
    BY ONLY <1>4, x \in S, S \subseteq Nat
  <1> QED BY ONLY <1>5, x \in S DEF Min

\* A worker takes the first connection that waits.
LEMMA AcceptStep ==
    ASSUME SessionsInv, NEW w \in Workers, accept(w)
    PROVE  SessionsInv'
  <1>1. PICK p, q, fd, k : /\ p = proc[w] /\ fd = Min(Free(p)) /\ k = Head(backlog)
                           /\ q = [p EXCEPT !.conn[fd] = k, !.cb[fd] = "initial"]
    BY Zenon
  <1>2. /\ p.up /\ backlog # <<>> /\ Free(p) # {} /\ backlog' = Tail(backlog)
        /\ proc' = [proc EXCEPT ![w].conn[fd] = k, ![w].cb[fd] = "initial"]
        /\ UNCHANGED <<counter, session, sent, gone, nread, given, passed, tasked, nkilled>>
    BY <1>1 DEF accept
  <1>3. p \in Procs /\ proc \in [Workers -> Procs]
    BY <1>1 DEF SessionsInv, TypeOK
  <1>4. fd \in Fds /\ p.conn[fd] = NoConn
    <2>1. Free(p) \subseteq Nat
      BY SessionFds DEF Free
    <2>2. fd \in Free(p)
      BY <1>1, <1>2, <2>1, LeastFacts
    <2> QED BY <2>2 DEF Free
  <1>5. /\ Len(backlog) > 0 /\ k = backlog[1] /\ k \in Conns /\ backlog' \in Seq(Conns)
        /\ Len(backlog') = Len(backlog) - 1 /\ Len(backlog) \in Nat
        /\ \A i \in 1..Len(backlog') : backlog'[i] = backlog[i + 1]
    <2>1. backlog \in Seq(Conns) /\ Len(backlog) \in Nat
      BY DEF SessionsInv, TypeOK
    <2> QED BY <2>1, <1>1, <1>2, TailFacts
  <1>6. /\ k =< Len(session) /\ \A v \in Workers, g \in Fds : proc[v].conn[g] # k
    BY <1>5 DEF SessionsInv, HeldOnce
  <1>7. k \in 1..Len(session) /\ k # NoConn
    <2>1. Len(session) \in Nat /\ k \in Nat /\ k # 0
      BY <1>5, ConstantFacts DEF SessionsInv, TypeOK
    <2> QED BY <2>1, <1>6, ConstantFacts
  <1>8. Untouched(k)
    BY <1>5, <1>6 DEF SessionsInv, UnheldIsUntouched, Untouched
  <1>9. /\ q.conn = [p.conn EXCEPT ![fd] = k] /\ q.cb = [p.cb EXCEPT ![fd] = "initial"]
        /\ q.up = p.up /\ q.c2s = p.c2s /\ q.s2c = p.s2c /\ q.tasks = p.tasks /\ q.buf = p.buf
    BY <1>1, <1>3 DEF Procs
  <1>10. q \in Procs
    BY <1>1, <1>3, <1>4, <1>5 DEF Procs
  <1>11. proc' \in [Workers -> Procs] /\ proc'[w] = q /\ \A v \in Workers \ {w} : proc'[v] = proc[v]
    <2>1. proc' = [proc EXCEPT ![w] = q]
      BY <1>1, <1>2, <1>3
    <2> QED BY <2>1, <1>3, <1>10
  <1>12. TypeOK'
    BY <1>2, <1>5, <1>11 DEF SessionsInv, TypeOK
  <1>13. AtNumber(w, fd)
    BY <1>1, <1>2, <1>3, <1>4, <1>9, <1>11 DEF AtNumber, SameNumber, Procs
  <1>14. ASSUME NEW v \in Workers, NEW g \in Fds, v # w \/ g # fd
         PROVE  SameNumber(proc[v], proc'[v], g) /\ proc'[v].conn[g] = proc[v].conn[g]
    <2>1. SameNumber(proc[v], proc'[v], g)
      BY <1>4, <1>13, <1>14, OthersStay
    <2> QED BY <2>1 DEF SameNumber
  <1>15. proc'[w].conn[fd] = k /\ proc'[w].cb[fd] = "initial"
    BY <1>3, <1>4, <1>9, <1>11 DEF Procs
  <1>16. HeldOnce'
    <2>1. ASSUME NEW u \in Workers, NEW v \in Workers, NEW f \in Fds, NEW g \in Fds,
                 proc'[u].conn[f] = proc'[v].conn[g], proc'[u].conn[f] # NoConn
          PROVE  u = v /\ f = g
      BY <2>1, <1>6, <1>14, <1>15 DEF SessionsInv, HeldOnce
    <2>2. \A i \in 1..Len(backlog') : i + 1 \in 1..Len(backlog) /\ i + 1 # 1 /\ 1 \in 1..Len(backlog)
      BY <1>5
    <2>3. ASSUME NEW i \in 1..Len(backlog'), NEW j \in 1..Len(backlog'), backlog'[i] = backlog'[j]
          PROVE  i = j
      <3>1. i + 1 = j + 1
        BY <2>2, <2>3, <1>5 DEF SessionsInv, HeldOnce
      <3> QED BY <3>1
    <2>4. ASSUME NEW i \in 1..Len(backlog')
          PROVE  /\ backlog'[i] =< Len(session')
                 /\ \A v \in Workers, g \in Fds : proc'[v].conn[g] # backlog'[i]
      <3>1. /\ backlog'[i] = backlog[i + 1] /\ backlog[i + 1] =< Len(session)
            /\ \A v \in Workers, g \in Fds : proc[v].conn[g] # backlog[i + 1]
        BY <2>2, <1>5 DEF SessionsInv, HeldOnce
      <3>2. backlog[i + 1] # k
        BY <2>2, <1>5 DEF SessionsInv, HeldOnce
      <3> QED BY <3>1, <3>2, <1>2, <1>14, <1>15
    <2> QED BY <2>1, <2>3, <2>4 DEF HeldOnce
  <1>17. UnheldIsUntouched'
    <2> SUFFICES ASSUME NEW j \in Conns, \A v \in Workers, g \in Fds : proc'[v].conn[g] # j
                 PROVE  Untouched(j)'
      BY DEF UnheldIsUntouched, Untouched
    <2>1. \A v \in Workers, g \in Fds : proc[v].conn[g] # j
      <3>1. j # NoConn
        BY ConstantFacts
      <3> QED BY <3>1, <1>1, <1>4, <1>14
    <2> QED BY <2>1, <1>2 DEF SessionsInv, UnheldIsUntouched, Untouched
  <1>18. DownIsEmpty'
    BY <1>1, <1>2, <1>9, <1>11 DEF SessionsInv, DownIsEmpty
  <1>19. NumberFits(proc[w], fd)'
    <2>1. NumberFits(p, fd)
      BY <1>1, <1>4 DEF SessionsInv, NumbersFit
    <2>2. NoConn \notin 1..Len(session)
      BY ConstantFacts DEF SessionsInv, TypeOK
    <2>3. p.c2s[fd] = NoSession /\ p.tasks[fd] = 0 /\ p.buf[fd] = <<>>
      BY <1>4, <2>1, <2>2 DEF NumberFits
    <2>4. /\ q.cb[fd] = "initial" /\ q.conn[fd] = k /\ k \in 1..Len(session')
          /\ q.c2s[fd] = NoSession /\ q.tasks[fd] = 0 /\ q.buf[fd] = <<>>
      BY <1>2, <1>7, <1>9, <1>11, <1>15, <2>3
    <2>5. nread'[k] = 0 /\ given'[k] = <<>> /\ passed'[k] = <<>> /\ k \notin tasked'
      BY <1>2, <1>8 DEF Untouched
    <2>6. nread'[k] < 2 /\ Len(q.buf[fd]) = nread'[k] /\ \A i \in 1..nread'[k] : q.buf[fd][i] = i
      BY <2>4, <2>5
    <2> QED BY <1>11, <2>4, <2>5, <2>6 DEF NumberFits
  <1>20. NumbersFit'
    <2> SUFFICES ASSUME NEW v \in Workers, NEW g \in Fds, v # w \/ g # fd
                 PROVE  NumberFits(proc[v], g)'
      BY <1>19 DEF NumbersFit
    <2>1. LeavesAlone(proc[v].conn[g])
      BY <1>2 DEF LeavesAlone
    <2>2. Len(session) =< Len(session') /\ Len(session') \in Nat
      BY <1>2 DEF SessionsInv, TypeOK
    <2> QED BY <2>1, <2>2, <1>2, <1>14, FitsStill
  <1>21. ReachedIsKnown'
    <2>1. p.cb[fd] # "protocol"
      <3>1. NumberFits(p, fd) /\ NoConn \notin 1..Len(session)
        BY <1>1, <1>4, ConstantFacts DEF SessionsInv, NumbersFit, TypeOK
      <3> QED BY <3>1, <1>4 DEF NumberFits
    <2>2. \A g \in Fds : proc[w].cb[g] = "protocol" =>
              proc'[w].cb[g] = "protocol" /\ proc'[w].c2s[g] = proc[w].c2s[g]
      BY <2>1, <1>1, <1>14 DEF SameNumber
    <2> QED BY <2>2, <1>1, <1>9, <1>11, ReachedStillAt, Zenon
  <1>22. CountersAgree'
    BY <1>2 DEF SessionsInv, CountersAgree
  <1> QED BY <1>12, <1>16, <1>17, <1>18, <1>20, <1>21, <1>22 DEF SessionsInv

-----------------------------------------------------------------------------
(* Reading, and the tasks.                                                 *)

\* A number with a callback stands for a connection.
LEMMA WatchedFacts ==
    ASSUME SessionsInv, NEW w \in Workers, NEW fd \in Fds, proc[w].cb[fd] # "none"
    PROVE  /\ proc[w].conn[fd] \in 1..Len(session) /\ proc[w].conn[fd] \in Conns
           /\ proc[w].conn[fd] # NoConn /\ session[proc[w].conn[fd]] \in Conns
  <1>1. NumberFits(proc[w], fd)
    BY DEF SessionsInv, NumbersFit
  <1>2. session \in Seq(Conns) /\ Len(session) \in Nat /\ Len(session) =< MaxConn
    BY DEF SessionsInv, TypeOK
  <1>3. proc[w].conn[fd] \in 1..Len(session)
    BY <1>1 DEF NumberFits
  <1>4. 1..Len(session) \subseteq Conns
    BY <1>2, ConstantFacts DEF Conns
  <1> QED BY <1>2, <1>3, <1>4, ConstantFacts

\* The protocol gets what is read.
LEMMA MessageStep ==
    ASSUME SessionsInv, NEW w \in Workers, NEW fd \in Fds, proc[w].up, NEW n \in Nat,
           on_message(w, fd, n)
    PROVE  SessionsInv'
  <1>1. PICK k, a, b : /\ k = proc[w].conn[fd] /\ a = nread[k]
                       /\ b = [i \in 1..n |-> a + i]
    OBVIOUS
  <1>2. /\ proc[w].cb[fd] = "protocol"
        /\ nread' = [nread EXCEPT ![k] = a + n] /\ given' = [given EXCEPT ![k] = given[k] \o b]
        /\ UNCHANGED <<counter, session, sent, gone, backlog, passed, tasked, nkilled, proc>>
    BY <1>1 DEF on_message
  <1>3. k \in 1..Len(session) /\ k \in Conns /\ k # NoConn
    BY <1>1, <1>2, WatchedFacts
  <1>4. NumberFits(proc[w], fd) /\ nread \in [Conns -> Nat] /\ given \in [Conns -> Seq(Nat)]
    BY DEF SessionsInv, NumbersFit, TypeOK
  <1>5. /\ proc[w].c2s[fd] = session[k] /\ proc[w].tasks[fd] = 0 /\ proc[w].buf[fd] = <<>>
        /\ a \in Nat /\ a >= 2 /\ given[k] \in Seq(Nat) /\ Len(given[k]) = a - 2
        /\ \A i \in 1..(a - 2) : given[k][i] = i + 2
        /\ passed[k] = IF k \in tasked THEN <<session[k]>> ELSE <<>>
    BY <1>1, <1>2, <1>3, <1>4 DEF NumberFits
  <1>6. PICK g : g = given[k]
    OBVIOUS
  <1>7. /\ g \o b \in Seq(Nat) /\ Len(g \o b) = (a + n) - 2
        /\ \A i \in 1..((a + n) - 2) : (g \o b)[i] = i + 2
    <2>1. Tokens(g, 2, a) /\ 2 \in Nat /\ a \in Nat
      BY <1>1, <1>5, <1>6 DEF Tokens
    <2>2. Tokens(g \o b, 2, a + n)
      BY <2>1, <1>1, GrowFacts
    <2> QED BY <2>2 DEF Tokens
  <1>8. /\ nread' \in [Conns -> Nat] /\ given' \in [Conns -> Seq(Nat)]
        /\ nread'[k] = a + n /\ given'[k] = g \o b /\ a + n \in Nat /\ a + n >= 2
        /\ \A j \in Conns \ {k} : nread'[j] = nread[j] /\ given'[j] = given[j]
    BY <1>2, <1>3, <1>4, <1>5, <1>6, <1>7
  <1>9. TypeOK'
    BY <1>2, <1>8 DEF SessionsInv, TypeOK
  <1>10. NumberFits(proc[w], fd)'
    <2>1. PICK h, m : h = g \o b /\ m = a + n
      OBVIOUS
    <2>2. /\ nread'[k] = m /\ m >= 2 /\ given'[k] = h /\ Len(h) = m - 2
          /\ \A i \in 1..(m - 2) : h[i] = i + 2
      BY <2>1, <1>7, <1>8
    <2>3. /\ proc'[w].cb[fd] = "protocol" /\ proc'[w].conn[fd] = k /\ k \in 1..Len(session')
          /\ proc'[w].c2s[fd] = session'[k] /\ proc'[w].tasks[fd] = 0 /\ proc'[w].buf[fd] = <<>>
          /\ passed'[k] = IF k \in tasked' THEN <<session'[k]>> ELSE <<>>
      BY <1>1, <1>2, <1>3, <1>5
    <2> QED BY ONLY <2>2, <2>3 DEF NumberFits
  <1>11. AtNumber(w, fd)
    BY <1>2 DEF AtNumber, SameNumber
  <1>12. \A j \in Conns \ {k} : LeavesAlone(j)
    BY <1>2, <1>8 DEF LeavesAlone
  <1>13. HeldOnce' /\ UnheldIsUntouched' /\ DownIsEmpty' /\ NumbersFit'
    <2>1. proc'[w].conn[fd] \in {k, NoConn} /\ proc'[w].conn[fd] # NoConn
      BY <1>1, <1>2, <1>3
    <2>2. UNCHANGED <<session, backlog>>
      BY <1>2
    <2> QED BY <1>1, <1>3, <1>9, <1>10, <1>11, <1>12, <2>1, <2>2, NumberSuffices
  <1>14. CountersAgree' /\ ReachedIsKnown'
    BY <1>2 DEF SessionsInv, CountersAgree, ReachedIsKnown
  <1> QED BY <1>9, <1>13, <1>14 DEF SessionsInv

\* A task waits, or sends the id on.
LEMMA TaskStep ==
    ASSUME SessionsInv, NEW w \in Workers, NEW fd \in Fds, add_session_task(w, fd)
    PROVE  SessionsInv'
  <1>1. PICK p, k : p = proc[w] /\ k = p.conn[fd]
    OBVIOUS
  <1>2. /\ p.up /\ p.cb[fd] # "none" /\ k \notin tasked /\ tasked' = tasked \union {k}
        /\ UNCHANGED <<counter, session, sent, gone, backlog, nread, given, nkilled>>
    BY <1>1 DEF add_session_task, Idle
  <1>3. k \in 1..Len(session) /\ k \in Conns /\ k # NoConn /\ session[k] \in Conns
    BY <1>1, <1>2, WatchedFacts
  <1>4. /\ NumberFits(p, fd) /\ p \in Procs /\ proc \in [Workers -> Procs]
        /\ passed \in [Conns -> Seq(Nat)]
    BY <1>1 DEF SessionsInv, NumbersFit, TypeOK
  <1>5. CASE p.c2s[fd] = NoSession
    <2>1. PICK q : q = [p EXCEPT !.tasks[fd] = p.tasks[fd] + 1]
      OBVIOUS
    <2>2. proc' = [proc EXCEPT ![w] = q] /\ UNCHANGED passed
      BY <1>1, <1>4, <1>5, <2>1 DEF add_session_task
    <2>3. /\ p.cb[fd] = "initial" /\ p.tasks[fd] = 0
          /\ nread[k] < 2 /\ Len(p.buf[fd]) = nread[k] /\ \A i \in 1..nread[k] : p.buf[fd][i] = i
          /\ given[k] = <<>> /\ passed[k] = <<>>
      <3>1. session[k] # NoSession
        BY <1>3, ConstantFacts
      <3> QED BY <1>1, <1>2, <1>4, <1>5, <3>1 DEF NumberFits
    <2>4. /\ q.tasks = [p.tasks EXCEPT ![fd] = p.tasks[fd] + 1]
          /\ q.up = p.up /\ q.conn = p.conn /\ q.cb = p.cb /\ q.c2s = p.c2s /\ q.s2c = p.s2c
          /\ q.buf = p.buf
      BY <2>1, <1>4 DEF Procs
    <2>5. q \in Procs
      <3>1. p.tasks[fd] + 1 \in Nat
        BY <2>3
      <3> QED BY <2>1, <1>4, <3>1 DEF Procs
    <2>6. /\ proc' \in [Workers -> Procs] /\ proc'[w] = q
          /\ \A v \in Workers \ {w} : proc'[v] = proc[v]
      BY <1>4, <2>2, <2>5
    <2>7. TypeOK'
      BY <1>2, <1>3, <2>2, <2>6 DEF SessionsInv, TypeOK
    <2>8. p.tasks \in [Fds -> Nat]
      BY <1>4 DEF Procs
    <2>9. AtNumber(w, fd)
      BY <1>1, <1>2, <2>4, <2>6, <2>8 DEF AtNumber, SameNumber
    <2>10. q.tasks[fd] = 1
      BY <2>3, <2>4, <2>8
    <2>11. NumberFits(proc[w], fd)'
      BY <1>1, <1>2, <1>3, <1>5, <2>2, <2>3, <2>4, <2>6, <2>10, SMTT(30) DEF NumberFits
    <2>12. \A j \in Conns \ {k} : LeavesAlone(j)
      BY <1>2, <2>2 DEF LeavesAlone
    <2>13. HeldOnce' /\ UnheldIsUntouched' /\ DownIsEmpty' /\ NumbersFit'
      <3>1. proc'[w].conn[fd] \in {k, NoConn} /\ proc'[w].conn[fd] # NoConn
        BY <1>1, <1>3, <2>4, <2>6
      <3>2. UNCHANGED <<session, backlog>>
        BY <1>2
      <3> QED BY <1>1, <1>3, <2>7, <2>9, <2>11, <2>12, <3>1, <3>2, NumberSuffices
    <2>14. ReachedIsKnown'
      BY <1>1, <2>4, <2>6, ReachedStillAt
    <2>15. CountersAgree'
      BY <1>2 DEF SessionsInv, CountersAgree
    <2> QED BY <2>7, <2>13, <2>14, <2>15 DEF SessionsInv
  <1>6. CASE p.c2s[fd] # NoSession
    <2>1. /\ passed' = [passed EXCEPT ![k] = passed[k] \o <<p.c2s[fd]>>] /\ UNCHANGED proc
      BY <1>1, <1>6 DEF add_session_task, send_session_id
    <2>2. /\ p.cb[fd] = "protocol" /\ p.c2s[fd] = session[k] /\ p.tasks[fd] = 0 /\ p.buf[fd] = <<>>
          /\ nread[k] >= 2 /\ Len(given[k]) = nread[k] - 2
          /\ \A i \in 1..(nread[k] - 2) : given[k][i] = i + 2
          /\ passed[k] = <<>>
      BY <1>1, <1>2, <1>4, <1>6 DEF NumberFits
    <2>3. passed[k] \o <<p.c2s[fd]>> = <<session[k]>>
      BY <2>2
    <2>4. session[k] \in Nat
      BY <1>3, ConstantFacts
    <2>5. /\ passed' \in [Conns -> Seq(Nat)] /\ passed'[k] = <<session[k]>>
          /\ \A j \in Conns \ {k} : passed'[j] = passed[j]
      <3>1. PICK s, t : s = session[k] /\ t = <<s>>
        OBVIOUS
      <3>2. t \in Seq(Nat)
        BY <3>1, <2>4
      <3>3. passed' = [passed EXCEPT ![k] = t]
        BY <2>1, <2>3, <3>1
      <3> QED BY <1>3, <1>4, <3>1, <3>2, <3>3
    <2>6. TypeOK'
      BY <1>2, <1>3, <2>1, <2>5 DEF SessionsInv, TypeOK
    <2>7. AtNumber(w, fd)
      BY <1>1, <1>2, <2>1 DEF AtNumber, SameNumber
    <2>8. NumberFits(proc[w], fd)'
      BY <1>1, <1>2, <1>3, <2>1, <2>2, <2>5 DEF NumberFits
    <2>9. \A j \in Conns \ {k} : LeavesAlone(j)
      BY <1>2, <2>5 DEF LeavesAlone
    <2>10. HeldOnce' /\ UnheldIsUntouched' /\ DownIsEmpty' /\ NumbersFit'
      <3>1. proc'[w].conn[fd] \in {k, NoConn} /\ proc'[w].conn[fd] # NoConn
        BY <1>1, <1>3, <2>1
      <3>2. UNCHANGED <<session, backlog>>
        BY <1>2
      <3> QED BY <1>1, <1>3, <2>6, <2>7, <2>8, <2>9, <3>1, <3>2, NumberSuffices
    <2>11. CountersAgree' /\ ReachedIsKnown'
      BY <1>2, <2>1 DEF SessionsInv, CountersAgree, ReachedIsKnown
    <2> QED BY <2>6, <2>10, <2>11 DEF SessionsInv
  <1> QED BY <1>5, <1>6

\* What unwatch and the close behind it leave of a process.
Closed(p, q, fd) ==
    /\ q \in Procs /\ q.up = p.up
    /\ q.conn = [p.conn EXCEPT ![fd] = NoConn] /\ q.cb = [p.cb EXCEPT ![fd] = "none"]
    /\ q.c2s = [p.c2s EXCEPT ![fd] = NoSession]
    /\ q.s2c = [s \in Conns |-> IF s = p.c2s[fd] THEN NoFd ELSE p.s2c[s]]
    /\ q.tasks = [p.tasks EXCEPT ![fd] = 0] /\ q.buf = [p.buf EXCEPT ![fd] = <<>>]

\* The close of a number does that.
LEMMA ClosedFacts ==
    ASSUME SessionsInv, NEW w \in Workers, NEW fd \in Fds, close(w, fd)
    PROVE  /\ Closed(proc[w], proc'[w], fd) /\ proc' \in [Workers -> Procs]
           /\ \A v \in Workers \ {w} : proc'[v] = proc[v]
  <1>1. PICK p, r, q : p = proc[w] /\ r = unwatch(p, fd) /\ q = [r EXCEPT !.conn[fd] = NoConn]
    BY Zenon
  <1>2. p \in Procs /\ proc \in [Workers -> Procs] /\ proc' = [proc EXCEPT ![w] = q]
    BY <1>1 DEF SessionsInv, TypeOK, close
  <1>3. /\ r.up = p.up /\ r.conn = p.conn /\ r.cb = [p.cb EXCEPT ![fd] = "none"]
        /\ r.c2s = [p.c2s EXCEPT ![fd] = NoSession]
        /\ r.s2c = [s \in Conns |-> IF s = p.c2s[fd] THEN NoFd ELSE p.s2c[s]]
        /\ r.tasks = [p.tasks EXCEPT ![fd] = 0] /\ r.buf = [p.buf EXCEPT ![fd] = <<>>]
    BY <1>1, <1>2 DEF unwatch, Procs
  <1>4. r \in Procs
    <2>1. <<>> \in Seq(Nat) /\ [p.buf EXCEPT ![fd] = <<>>] \in [Fds -> Seq(Nat)]
      BY <1>2 DEF Procs
    <2>2. [s \in Conns |-> IF s = p.c2s[fd] THEN NoFd ELSE p.s2c[s]] \in [Conns -> Fds \union {NoFd}]
      BY <1>2 DEF Procs
    <2>3. /\ [p.cb EXCEPT ![fd] = "none"] \in [Fds -> {"none", "initial", "protocol"}]
          /\ [p.c2s EXCEPT ![fd] = NoSession] \in [Fds -> Conns \union {NoSession}]
          /\ [p.tasks EXCEPT ![fd] = 0] \in [Fds -> Nat]
      BY <1>2 DEF Procs
    <2> QED BY <1>1, <1>2, <2>1, <2>2, <2>3, Zenon DEF unwatch, Procs
  <1>5. /\ q.up = r.up /\ q.conn = [r.conn EXCEPT ![fd] = NoConn] /\ q.cb = r.cb /\ q.c2s = r.c2s
        /\ q.s2c = r.s2c /\ q.tasks = r.tasks /\ q.buf = r.buf
    BY <1>1, <1>4 DEF Procs
  <1>6. q \in Procs
    BY <1>1, <1>4 DEF Procs
  <1>7. Closed(p, q, fd)
    BY <1>3, <1>5, <1>6 DEF Closed
  <1>8. proc'[w] = q /\ proc' \in [Workers -> Procs] /\ \A v \in Workers \ {w} : proc'[v] = proc[v]
    BY <1>2, <1>6
  <1> QED BY <1>1, <1>7, <1>8

\* The number is nothing afterwards, and the others are what they were.
LEMMA ClosedNumbers ==
    ASSUME NEW p \in Procs, NEW q, NEW fd \in Fds, Closed(p, q, fd)
    PROVE  /\ q.conn[fd] = NoConn /\ q.cb[fd] = "none" /\ q.c2s[fd] = NoSession
           /\ q.tasks[fd] = 0 /\ q.buf[fd] = <<>>
           /\ \A g \in Fds \ {fd} : SameNumber(p, q, g)
           /\ \A s \in Conns : q.s2c[s] = IF s = p.c2s[fd] THEN NoFd ELSE p.s2c[s]
  <1>1. p.conn \in [Fds -> Conns \union {NoConn}] /\ p.cb \in [Fds -> {"none", "initial", "protocol"}]
    BY DEF Procs
  <1>2. p.c2s \in [Fds -> Conns \union {NoSession}] /\ p.tasks \in [Fds -> Nat] /\ p.buf \in [Fds -> Seq(Nat)]
    BY DEF Procs
  <1> QED BY <1>1, <1>2 DEF Closed, SameNumber

\* A worker closes a connection.
LEMMA CloseStep ==
    ASSUME SessionsInv, NEW w \in Workers, NEW fd \in Fds, HangsUp(w, fd) \/ Closes(w, fd)
    PROVE  SessionsInv'
  <1>1. PICK p, q, k : p = proc[w] /\ q = proc'[w] /\ k = p.conn[fd]
    OBVIOUS
  <1>2. /\ p.up /\ p.cb[fd] # "none" /\ close(w, fd)
        /\ UNCHANGED <<counter, session, backlog, nkilled>> /\ gone' = gone \union {k} /\ Forget({k})
    BY <1>1 DEF HangsUp, Closes, Idle, close
  <1>3. k \in 1..Len(session) /\ k \in Conns /\ k # NoConn /\ p \in Procs
    BY <1>1, <1>2, WatchedFacts DEF SessionsInv, TypeOK
  <1>4. /\ Closed(p, q, fd) /\ proc' \in [Workers -> Procs]
        /\ \A v \in Workers \ {w} : proc'[v] = proc[v]
    BY <1>1, <1>2, ClosedFacts
  <1>5. /\ q.conn[fd] = NoConn /\ q.cb[fd] = "none" /\ q.c2s[fd] = NoSession
        /\ q.tasks[fd] = 0 /\ q.buf[fd] = <<>>
        /\ \A g \in Fds \ {fd} : SameNumber(p, q, g)
        /\ \A s \in Conns : q.s2c[s] = IF s = p.c2s[fd] THEN NoFd ELSE p.s2c[s]
    BY ONLY <1>3, <1>4, fd \in Fds, ClosedNumbers
  <1>6. /\ sent' \in [Conns -> Nat] /\ nread' \in [Conns -> Nat] /\ given' \in [Conns -> Seq(Nat)]
        /\ passed' \in [Conns -> Seq(Nat)] /\ tasked' \subseteq Conns
    BY <1>2 DEF SessionsInv, TypeOK, Forget
  <1>7. Untouched(k)' /\ \A j \in Conns \ {k} : LeavesAlone(j)
    BY <1>2, <1>3 DEF Forget, Untouched, LeavesAlone
  <1>8. TypeOK'
    BY <1>2, <1>3, <1>4, <1>6 DEF SessionsInv, TypeOK
  <1>9. AtNumber(w, fd)
    BY <1>1, <1>2, <1>4, <1>5 DEF AtNumber, Closed
  <1>10. NumberFits(proc[w], fd)'
    BY <1>1, <1>5 DEF NumberFits
  <1>11. HeldOnce' /\ UnheldIsUntouched' /\ DownIsEmpty' /\ NumbersFit'
    <2>1. proc'[w].conn[fd] \in {k, NoConn}
      BY <1>1, <1>5
    <2>2. UNCHANGED <<session, backlog>>
      BY <1>2
    <2> QED BY <1>1, <1>3, <1>7, <1>8, <1>9, <1>10, <2>1, <2>2, NumberSuffices
  <1>12. ReachedIsKnown'
    <2> SUFFICES ASSUME NEW v \in Workers, NEW s \in Conns, proc'[v].s2c[s] # NoFd
                 PROVE  /\ proc'[v].cb[proc'[v].s2c[s]] = "protocol"
                        /\ proc'[v].c2s[proc'[v].s2c[s]] = s
      BY DEF ReachedIsKnown
    <2>1. CASE v # w
      BY <2>1, <1>4 DEF SessionsInv, ReachedIsKnown
    <2>2. CASE v = w
      <3>1. PICK g : g = p.s2c[s]
        OBVIOUS
      <3>2. q.s2c[s] = g /\ g # NoFd /\ s # p.c2s[fd]
        BY <1>1, <1>5, <2>2, <3>1
      <3>3. g \in Fds /\ p.cb[g] = "protocol" /\ p.c2s[g] = s
        BY <1>1, <3>1, <3>2, <1>3 DEF SessionsInv, ReachedIsKnown, Procs
      <3>4. g # fd /\ SameNumber(p, q, g)
        BY <1>5, <3>2, <3>3
      <3> QED BY <1>1, <2>2, <3>2, <3>3, <3>4 DEF SameNumber
    <2> QED BY <2>1, <2>2
  <1>13. CountersAgree'
    BY <1>2 DEF SessionsInv, CountersAgree
  <1> QED BY <1>8, <1>11, <1>12, <1>13 DEF SessionsInv

-----------------------------------------------------------------------------
(* The id.                                                                 *)

\* The number fd of p stands for k, whose id is not known before the message
\* that begins with what was read before and ends with n tokens more.
Begins(p, fd, n, k, message) ==
    /\ p.c2s[fd] = NoSession /\ p.tasks[fd] = IF k \in tasked THEN 1 ELSE 0
    /\ given[k] = <<>> /\ passed[k] = <<>> /\ nread[k] \in Nat
    /\ Tokens(message, 0, nread[k] + n)

\* So it is when the callback is the one for the id.
LEMMA InitialFacts ==
    ASSUME SessionsInv, NEW w \in Workers, NEW fd \in Fds, NEW n \in Nat, proc[w].cb[fd] = "initial",
           NEW k, k = proc[w].conn[fd],
           NEW message, message = proc[w].buf[fd] \o [i \in 1..n |-> nread[k] + i]
    PROVE  Begins(proc[w], fd, n, k, message)
  <1>1. k \in Conns
    BY WatchedFacts
  <1>2. PICK p, a, b, c : p = proc[w] /\ a = nread[k] /\ b = p.buf[fd] /\ c = [i \in 1..n |-> a + i]
    BY Zenon
  <1>3. NumberFits(p, fd) /\ p \in Procs /\ nread \in [Conns -> Nat]
    BY <1>2 DEF SessionsInv, NumbersFit, TypeOK
  <1>4. /\ p.c2s[fd] = NoSession /\ p.tasks[fd] = IF k \in tasked THEN 1 ELSE 0
        /\ Len(b) = a /\ \A i \in 1..a : b[i] = i
        /\ given[k] = <<>> /\ passed[k] = <<>>
    BY <1>2, <1>3 DEF NumberFits
  <1>5. a \in Nat /\ b \in Seq(Nat)
    BY <1>1, <1>2, <1>3 DEF Procs
  <1>6. Tokens(b, 0, a)
    BY <1>4, <1>5 DEF Tokens
  <1>7. Tokens(b \o c, 0, a + n)
    BY <1>2, <1>5, <1>6, GrowFacts
  <1> QED BY <1>2, <1>4, <1>5, <1>7 DEF Begins

\* The id is incomplete: what there is of it waits.
LEMMA IncompleteStep ==
    ASSUME SessionsInv, NEW w \in Workers, NEW fd \in Fds, proc[w].up, NEW n \in Nat,
           initial_message(w, fd, n), nread[proc[w].conn[fd]] + n < 2
    PROVE  SessionsInv'
  <1>1. PICK p, k, message : /\ p = proc[w] /\ k = p.conn[fd]
                             /\ message = p.buf[fd] \o [i \in 1..n |-> nread[k] + i]
    BY Zenon
  <1>2. p.cb[fd] = "initial" /\ p \in Procs /\ proc \in [Workers -> Procs]
    BY <1>1, Zenon DEF initial_message, SessionsInv, TypeOK
  <1>3. k \in 1..Len(session) /\ k \in Conns /\ k # NoConn
    BY <1>1, <1>2, WatchedFacts
  <1>4. /\ p.c2s[fd] = NoSession /\ p.tasks[fd] = IF k \in tasked THEN 1 ELSE 0
        /\ given[k] = <<>> /\ passed[k] = <<>> /\ nread[k] \in Nat
        /\ Tokens(message, 0, nread[k] + n)
    <2>1. /\ proc[w].cb[fd] = "initial" /\ k = proc[w].conn[fd]
          /\ message = proc[w].buf[fd] \o [i \in 1..n |-> nread[k] + i]
      BY <1>1, <1>2
    <2>2. Begins(proc[w], fd, n, k, message)
      BY <2>1, InitialFacts
    <2> QED BY <1>1, <2>2 DEF Begins
  <1>5. PICK m : m = nread[k] + n
    OBVIOUS
  <1>6. message \in Seq(Nat) /\ m \in Nat /\ m < 2 /\ Len(message) = m /\ \A i \in 1..m : message[i] = i
    <2>1. m \in Nat /\ m < 2 /\ Tokens(message, 0, m)
      BY <1>1, <1>4, <1>5
    <2> QED BY ONLY <2>1 DEF Tokens
  <1>7. PICK q : q = [p EXCEPT !.buf[fd] = message]
    OBVIOUS
  <1>8. /\ q.buf = [p.buf EXCEPT ![fd] = message] /\ q.up = p.up /\ q.conn = p.conn /\ q.cb = p.cb
        /\ q.c2s = p.c2s /\ q.s2c = p.s2c /\ q.tasks = p.tasks
    BY <1>2, <1>7 DEF Procs
  <1>9. q \in Procs
    BY <1>2, <1>6, <1>7, Zenon DEF Procs
  <1>10. recv_session_id(p, fd, [i \in 1..n |-> nread[k] + i]) = <<q, message>>
    BY <1>1, <1>6, <1>7, Zenon DEF recv_session_id
  <1>11. /\ proc' = [proc EXCEPT ![w] = q] /\ nread' = [nread EXCEPT ![k] = m]
         /\ UNCHANGED <<counter, session, sent, gone, backlog, given, passed, tasked, nkilled>>
    <2>1. <<q, message>>[1] = q /\ q.c2s[fd] = NoSession
      BY <1>4, <1>8
    <2> QED BY <1>1, <1>5, <1>10, <2>1, Zenon DEF initial_message
  <1>12. /\ proc' \in [Workers -> Procs] /\ proc'[w] = q
         /\ \A v \in Workers \ {w} : proc'[v] = proc[v]
    BY <1>2, <1>9, <1>11
  <1>13. /\ nread' \in [Conns -> Nat] /\ nread'[k] = m /\ \A j \in Conns \ {k} : nread'[j] = nread[j]
    BY <1>3, <1>6, <1>11 DEF SessionsInv, TypeOK
  <1>14. TypeOK'
    BY <1>11, <1>12, <1>13 DEF SessionsInv, TypeOK
  <1>15. q.buf[fd] = message /\ \A g \in Fds \ {fd} : q.buf[g] = p.buf[g]
    BY <1>2, <1>8 DEF Procs
  <1>16. AtNumber(w, fd)
    BY <1>1, <1>8, <1>12, <1>15 DEF AtNumber, SameNumber
  <1>17. NumberFits(proc[w], fd)'
    <2>1. /\ q.cb[fd] = "initial" /\ q.conn[fd] = k /\ k \in 1..Len(session')
          /\ q.c2s[fd] = NoSession /\ q.tasks[fd] = IF k \in tasked' THEN 1 ELSE 0
          /\ given'[k] = <<>> /\ passed'[k] = <<>>
      BY <1>1, <1>2, <1>3, <1>4, <1>8, <1>11
    <2> QED BY ONLY <1>6, <1>12, <1>13, <1>15, <2>1 DEF NumberFits
  <1>18. \A j \in Conns \ {k} : LeavesAlone(j)
    BY <1>11, <1>13 DEF LeavesAlone
  <1>19. HeldOnce' /\ UnheldIsUntouched' /\ DownIsEmpty' /\ NumbersFit'
    <2>1. proc'[w].conn[fd] \in {k, NoConn} /\ proc'[w].conn[fd] # NoConn
      BY <1>1, <1>3, <1>8, <1>12
    <2>2. UNCHANGED <<session, backlog>>
      BY <1>11
    <2> QED BY <1>1, <1>3, <1>14, <1>16, <1>17, <1>18, <2>1, <2>2, NumberSuffices
  <1>20. ReachedIsKnown'
    BY <1>1, <1>8, <1>12, ReachedStillAt
  <1>21. CountersAgree'
    BY <1>11 DEF SessionsInv, CountersAgree
  <1> QED BY <1>14, <1>19, <1>20, <1>21 DEF SessionsInv

\* What is left of a process that has received the id s on the number fd.
Received(p, q, fd, s) ==
    /\ q \in Procs /\ q.up = p.up /\ q.conn = p.conn
    /\ q.cb = [p.cb EXCEPT ![fd] = "protocol"] /\ q.c2s = [p.c2s EXCEPT ![fd] = s]
    /\ q.s2c = [p.s2c EXCEPT ![s] = fd]
    /\ q.tasks = [p.tasks EXCEPT ![fd] = 0] /\ q.buf = [p.buf EXCEPT ![fd] = <<>>]

\* The numbers of it one by one.
LEMMA ReceivedNumbers ==
    ASSUME NEW p \in Procs, NEW q, NEW fd \in Fds, NEW s \in Conns, Received(p, q, fd, s)
    PROVE  /\ q.conn[fd] = p.conn[fd] /\ q.cb[fd] = "protocol" /\ q.c2s[fd] = s
           /\ q.tasks[fd] = 0 /\ q.buf[fd] = <<>>
           /\ \A g \in Fds \ {fd} : SameNumber(p, q, g)
           /\ \A t \in Conns : q.s2c[t] = IF t = s THEN fd ELSE p.s2c[t]
  <1>1. p.conn \in [Fds -> Conns \union {NoConn}] /\ p.cb \in [Fds -> {"none", "initial", "protocol"}]
    BY DEF Procs
  <1>2. p.c2s \in [Fds -> Conns \union {NoSession}] /\ p.tasks \in [Fds -> Nat] /\ p.buf \in [Fds -> Seq(Nat)]
    BY DEF Procs
  <1>3. p.s2c \in [Conns -> Fds \union {NoFd}]
    BY DEF Procs
  <1> QED BY <1>1, <1>2, <1>3 DEF Received, SameNumber

\* The message behind the id, the tasks that wait and the tables, when the id
\* is complete.
LEMMA CompleteFacts ==
    ASSUME SessionsInv, NEW w \in Workers, NEW fd \in Fds, NEW n \in Nat,
           initial_message(w, fd, n), nread[proc[w].conn[fd]] + n >= 2,
           NEW k, k = proc[w].conn[fd]
    PROVE  /\ Received(proc[w], proc'[w], fd, session[k]) /\ proc' \in [Workers -> Procs]
           /\ \A v \in Workers \ {w} : proc'[v] = proc[v]
           /\ nread' = [nread EXCEPT ![k] = nread[k] + n]
           /\ \E rest : Tokens(rest, 2, nread[k] + n) /\ given' = [given EXCEPT ![k] = rest]
           /\ passed' = [passed EXCEPT ![k] = IF k \in tasked THEN <<session[k]>> ELSE <<>>]
           /\ UNCHANGED <<counter, session, sent, gone, backlog, tasked, nkilled>>
  <1>1. PICK p, message, s, m : /\ p = proc[w] /\ s = session[k] /\ m = nread[k] + n
                                /\ message = p.buf[fd] \o [i \in 1..n |-> nread[k] + i]
    BY Zenon
  <1>2. p.cb[fd] = "initial" /\ p \in Procs /\ proc \in [Workers -> Procs] /\ k = p.conn[fd]
    BY <1>1, Zenon DEF initial_message, SessionsInv, TypeOK
  <1>3. k \in Conns /\ s \in Conns /\ s # NoSession /\ s \in Nat
    BY <1>1, <1>2, WatchedFacts, ConstantFacts
  <1>4. Begins(p, fd, n, k, message)
    BY <1>1, <1>2, InitialFacts
  <1>5. m \in Nat /\ m >= 2 /\ Tokens(message, 0, m)
    BY <1>1, <1>4 DEF Begins
  <1>6. message \in Seq(Nat) /\ Len(message) = m /\ \A i \in 1..m : message[i] = i
    BY ONLY <1>5 DEF Tokens
  <1>7. PICK rest : rest = SubSeq(message, 3, m)
    OBVIOUS
  <1>8. IsPrefix(Halves, message) /\ Tokens(rest, 2, m) /\ rest \in Seq(Nat)
    <2>1. /\ IsPrefix(Halves, message)
          /\ rest \in Seq(Nat) /\ Len(rest) = m - 2 /\ \A i \in 1..(m - 2) : rest[i] = i + 2
      BY <1>5, <1>6, <1>7, RestFacts, Zenon
    <2> QED BY <2>1, <1>5 DEF Tokens
  <1>9. PICK r, q : /\ r = [p EXCEPT !.buf[fd] = <<>>, !.c2s[fd] = s, !.s2c[s] = fd]
                    /\ q = [r EXCEPT !.tasks[fd] = 0, !.cb[fd] = "protocol"]
    BY Zenon
  <1>10. recv_session_id(p, fd, [i \in 1..n |-> nread[k] + i]) = <<r, rest>>
    <2>1. ~ (m < 2)
      BY <1>5
    <2> QED BY <1>1, <1>2, <1>6, <1>7, <1>8, <1>9, <2>1, Zenon DEF recv_session_id
  <1>11. /\ r.up = p.up /\ r.conn = p.conn /\ r.cb = p.cb /\ r.tasks = p.tasks
         /\ r.buf = [p.buf EXCEPT ![fd] = <<>>] /\ r.c2s = [p.c2s EXCEPT ![fd] = s]
         /\ r.s2c = [p.s2c EXCEPT ![s] = fd]
    BY <1>2, <1>9 DEF Procs
  <1>12. r \in Procs
    <2>1. [p.buf EXCEPT ![fd] = <<>>] \in [Fds -> Seq(Nat)]
      <3>1. <<>> \in Seq(Nat) /\ p.buf \in [Fds -> Seq(Nat)]
        BY <1>2 DEF Procs
      <3> QED BY <3>1
    <2>2. /\ [p.c2s EXCEPT ![fd] = s] \in [Fds -> Conns \union {NoSession}]
          /\ [p.s2c EXCEPT ![s] = fd] \in [Conns -> Fds \union {NoFd}]
      BY <1>2, <1>3 DEF Procs
    <2> QED BY <1>2, <1>9, <2>1, <2>2 DEF Procs
  <1>13. /\ q.up = r.up /\ q.conn = r.conn /\ q.cb = [r.cb EXCEPT ![fd] = "protocol"]
         /\ q.tasks = [r.tasks EXCEPT ![fd] = 0] /\ q.buf = r.buf /\ q.c2s = r.c2s /\ q.s2c = r.s2c
    BY <1>9, <1>12 DEF Procs
  <1>14. q \in Procs
    BY <1>9, <1>12, Zenon DEF Procs
  <1>15. Received(p, q, fd, s)
    BY <1>11, <1>13, <1>14 DEF Received
  <1>16. r.c2s[fd] = s /\ send_session_id(r, fd) = <<s>>
    <2>1. r.c2s[fd] = s
      BY <1>2, <1>11 DEF Procs
    <2> QED BY <2>1, <1>3 DEF send_session_id
  <1>17. /\ proc' = [proc EXCEPT ![w] = q] /\ nread' = [nread EXCEPT ![k] = m]
         /\ given' = [given EXCEPT ![k] = given[k] \o rest]
         /\ passed' = [passed EXCEPT ![k] =
                          passed[k] \o FlattenSeq([i \in 1..p.tasks[fd] |-> send_session_id(r, fd)])]
         /\ UNCHANGED <<counter, session, sent, gone, backlog, tasked, nkilled>>
    <2>1. PICK z : z = recv_session_id(p, fd, [i \in 1..n |-> nread[k] + i])
      OBVIOUS
    <2>2. z[1] = r /\ z[2] = rest /\ r.c2s[fd] # NoSession /\ r.tasks[fd] = p.tasks[fd]
      BY <1>3, <1>10, <1>11, <1>16, <2>1
    <2>3. /\ nread' = [nread EXCEPT ![k] = nread[k] + n]
          /\ UNCHANGED <<counter, session, sent, gone, backlog, tasked, nkilled>>
      BY <1>1, <1>2, Zenon DEF initial_message
    <2>4. z[1].c2s[fd] # NoSession =>
             /\ proc' = [proc EXCEPT ![w] = [z[1] EXCEPT !.tasks[fd] = 0, !.cb[fd] = "protocol"]]
             /\ given' = [given EXCEPT ![k] = given[k] \o z[2]]
             /\ passed' = [passed EXCEPT ![k] =
                   passed[k] \o FlattenSeq([i \in 1..z[1].tasks[fd] |-> send_session_id(z[1], fd)])]
      BY ONLY initial_message(w, fd, n), k = proc[w].conn[fd], <1>1, <2>1, ZenonT(40) DEF initial_message
    <2>5. /\ proc' = [proc EXCEPT ![w] = [r EXCEPT !.tasks[fd] = 0, !.cb[fd] = "protocol"]]
          /\ given' = [given EXCEPT ![k] = given[k] \o rest]
          /\ passed' = [passed EXCEPT ![k] =
                passed[k] \o FlattenSeq([i \in 1..p.tasks[fd] |-> send_session_id(r, fd)])]
      BY ONLY <2>2, <2>4
    <2> QED BY <1>1, <1>9, <2>3, <2>5, Zenon
  <1>18. given[k] \o rest = rest
    BY <1>4, <1>8 DEF Begins
  <1>19. passed[k] \o FlattenSeq([i \in 1..p.tasks[fd] |-> send_session_id(r, fd)])
            = IF k \in tasked THEN <<s>> ELSE <<>>
    <2>1. PICK e, x : e = <<s>> /\ x = p.tasks[fd]
      OBVIOUS
    <2>2. e \in Seq(Nat)
      BY <2>1, <1>3
    <2>3. FlattenSeq([i \in 1..0 |-> e]) = <<>> /\ FlattenSeq([i \in 1..1 |-> e]) = e
      BY <2>2, FlattenFacts
    <2>4. passed[k] = <<>> /\ x = IF k \in tasked THEN 1 ELSE 0
      BY <1>4, <2>1 DEF Begins
    <2>5. FlattenSeq([i \in 1..x |-> e]) = IF k \in tasked THEN e ELSE <<>>
      BY ONLY <2>3, <2>4
    <2>6. <<>> \o e = e /\ <<>> \o <<>> = <<>>
      BY <2>2
    <2>7. send_session_id(r, fd) = e
      BY <1>16, <2>1
    <2>8. PICK y : y = FlattenSeq([i \in 1..x |-> e])
      OBVIOUS
    <2>9. passed[k] \o y = IF k \in tasked THEN e ELSE <<>>
      BY ONLY <2>4, <2>5, <2>6, <2>8
    <2>10. y = FlattenSeq([i \in 1..p.tasks[fd] |-> send_session_id(r, fd)])
      BY ONLY <2>1, <2>7, <2>8
    <2> QED BY ONLY <2>1, <2>9, <2>10
  <1>20. proc'[w] = q /\ proc' \in [Workers -> Procs] /\ \A v \in Workers \ {w} : proc'[v] = proc[v]
    BY <1>2, <1>14, <1>17
  <1>21. \E h : Tokens(h, 2, nread[k] + n) /\ given' = [given EXCEPT ![k] = h]
    BY <1>1, <1>8, <1>17, <1>18, Zenon
  <1> QED BY <1>1, <1>15, <1>17, <1>19, <1>20, <1>21, Zenon

\* The id is complete: the tasks run and the protocol takes over.
LEMMA CompleteStep ==
    ASSUME SessionsInv, NEW w \in Workers, NEW fd \in Fds, proc[w].up, NEW n \in Nat,
           initial_message(w, fd, n), nread[proc[w].conn[fd]] + n >= 2
    PROVE  SessionsInv'
  <1>1. PICK p, q, k, s, m : /\ p = proc[w] /\ q = proc'[w] /\ k = p.conn[fd] /\ s = session[k]
                             /\ m = nread[k] + n
    OBVIOUS
  <1>2. p.cb[fd] = "initial" /\ p \in Procs
    BY <1>1, Zenon DEF initial_message, SessionsInv, TypeOK
  <1>3. k \in 1..Len(session) /\ k \in Conns /\ k # NoConn /\ s \in Conns /\ s \in Nat
    BY <1>1, <1>2, WatchedFacts, ConstantFacts
  <1>4. /\ Received(p, q, fd, s) /\ proc' \in [Workers -> Procs]
        /\ \A v \in Workers \ {w} : proc'[v] = proc[v]
        /\ nread' = [nread EXCEPT ![k] = m]
        /\ \E h : Tokens(h, 2, m) /\ given' = [given EXCEPT ![k] = h]
        /\ passed' = [passed EXCEPT ![k] = IF k \in tasked THEN <<s>> ELSE <<>>]
        /\ UNCHANGED <<counter, session, sent, gone, backlog, tasked, nkilled>>
    BY <1>1, CompleteFacts
  <1>5. /\ q.conn[fd] = k /\ q.cb[fd] = "protocol" /\ q.c2s[fd] = s
        /\ q.tasks[fd] = 0 /\ q.buf[fd] = <<>>
        /\ \A g \in Fds \ {fd} : SameNumber(p, q, g)
        /\ \A t \in Conns : q.s2c[t] = IF t = s THEN fd ELSE p.s2c[t]
    <2>1. Received(p, q, fd, s) /\ p \in Procs /\ s \in Conns /\ p.conn[fd] = k
      BY <1>1, <1>2, <1>3, <1>4
    <2> QED BY ONLY <2>1, fd \in Fds, ReceivedNumbers
  <1>6. PICK rest : Tokens(rest, 2, m) /\ given' = [given EXCEPT ![k] = rest]
    BY <1>4
  <1>7. /\ nread \in [Conns -> Nat] /\ given \in [Conns -> Seq(Nat)] /\ passed \in [Conns -> Seq(Nat)]
        /\ nread[k] \in Nat /\ m \in Nat
    <2>1. nread \in [Conns -> Nat] /\ given \in [Conns -> Seq(Nat)] /\ passed \in [Conns -> Seq(Nat)]
      BY DEF SessionsInv, TypeOK
    <2>2. nread[k] \in Nat
      BY <1>3, <2>1
    <2> QED BY <1>1, <2>1, <2>2
  <1>8. /\ rest \in Seq(Nat) /\ m >= 2 /\ Len(rest) = m - 2 /\ \A i \in 1..(m - 2) : rest[i] = i + 2
    BY <1>6 DEF Tokens
  <1>9. PICK e : e = IF k \in tasked THEN <<s>> ELSE <<>>
    OBVIOUS
  <1>10. e \in Seq(Nat) /\ passed' = [passed EXCEPT ![k] = e]
    BY <1>3, <1>4, <1>9
  <1>11. /\ nread' \in [Conns -> Nat] /\ given' \in [Conns -> Seq(Nat)] /\ passed' \in [Conns -> Seq(Nat)]
         /\ nread'[k] = m /\ given'[k] = rest /\ passed'[k] = e
         /\ \A j \in Conns \ {k} : nread'[j] = nread[j] /\ given'[j] = given[j] /\ passed'[j] = passed[j]
    BY <1>3, <1>4, <1>6, <1>7, <1>8, <1>10, SMTT(30)
  <1>12. TypeOK'
    BY <1>4, <1>11 DEF SessionsInv, TypeOK
  <1>13. AtNumber(w, fd)
    BY <1>1, <1>4, <1>5 DEF AtNumber, Received
  <1>14. NumberFits(proc[w], fd)'
    <2>1. k \in 1..Len(session') /\ s = session'[k] /\ e = IF k \in tasked' THEN <<session'[k]>> ELSE <<>>
      BY <1>1, <1>3, <1>4, <1>9
    <2>2. proc'[w] = q
      BY <1>1
    <2> QED BY ONLY <1>5, <1>8, <1>11, <2>1, <2>2 DEF NumberFits
  <1>15. \A j \in Conns \ {k} : LeavesAlone(j)
    BY <1>4, <1>11 DEF LeavesAlone
  <1>16. HeldOnce' /\ UnheldIsUntouched' /\ DownIsEmpty' /\ NumbersFit'
    <2>1. proc'[w].conn[fd] \in {k, NoConn} /\ proc'[w].conn[fd] # NoConn
      BY <1>1, <1>3, <1>5
    <2>2. UNCHANGED <<session, backlog>>
      BY <1>4
    <2> QED BY <1>1, <1>3, <1>12, <1>13, <1>14, <1>15, <2>1, <2>2, NumberSuffices
  <1>17. ReachedIsKnown'
    <2> SUFFICES ASSUME NEW v \in Workers, NEW t \in Conns, proc'[v].s2c[t] # NoFd
                 PROVE  /\ proc'[v].cb[proc'[v].s2c[t]] = "protocol"
                        /\ proc'[v].c2s[proc'[v].s2c[t]] = t
      BY DEF ReachedIsKnown
    <2>1. CASE v # w
      BY <2>1, <1>4 DEF SessionsInv, ReachedIsKnown
    <2>2. CASE v = w /\ t = s
      BY <2>2, <1>1, <1>5
    <2>3. CASE v = w /\ t # s
      <3>1. PICK g : g = p.s2c[t]
        OBVIOUS
      <3>2. q.s2c[t] = g /\ g # NoFd
        BY <1>1, <1>5, <2>3, <3>1
      <3>3. g \in Fds /\ p.cb[g] = "protocol" /\ p.c2s[g] = t
        BY <1>1, <3>1, <3>2, <1>2 DEF SessionsInv, ReachedIsKnown, Procs
      <3>4. g # fd /\ SameNumber(p, q, g)
        BY <1>2, <1>5, <3>3
      <3> QED BY <1>1, <2>3, <3>2, <3>3, <3>4 DEF SameNumber
    <2> QED BY <2>1, <2>2, <2>3
  <1>18. CountersAgree'
    BY <1>4 DEF SessionsInv, CountersAgree
  <1> QED BY <1>12, <1>16, <1>17, <1>18 DEF SessionsInv

\* A worker reads what has come.
LEMMA ReadsStep ==
    ASSUME SessionsInv, NEW w \in Workers, NEW fd \in Fds, Reads(w, fd)
    PROVE  SessionsInv'
  <1>1. PICK k : k = proc[w].conn[fd]
    OBVIOUS
  <1>2. proc[w].up /\ proc[w].cb[fd] # "none"
    BY DEF Reads, Idle
  <1>3. k \in Conns /\ nread[k] \in Nat /\ sent[k] \in Nat
    BY <1>1, <1>2, WatchedFacts DEF SessionsInv, TypeOK
  <1>4. PICK n \in 1..(sent[k] - nread[k]) : initial_message(w, fd, n) \/ on_message(w, fd, n)
    BY <1>1 DEF Reads
  <1>5. n \in Nat
    BY <1>3, <1>4
  <1>6. CASE on_message(w, fd, n)
    BY <1>2, <1>5, <1>6, MessageStep
  <1>7. CASE initial_message(w, fd, n) /\ nread[k] + n < 2
    BY <1>1, <1>2, <1>5, <1>7, IncompleteStep
  <1>8. CASE initial_message(w, fd, n) /\ nread[k] + n >= 2
    BY <1>1, <1>2, <1>5, <1>8, CompleteStep
  <1> QED BY <1>3, <1>4, <1>5, <1>6, <1>7, <1>8

-----------------------------------------------------------------------------
(* The specification.                                                      *)

\* Nothing has happened at first.
LEMMA SessionsInit == Init => SessionsInv
  <1> SUFFICES ASSUME Init PROVE SessionsInv
    OBVIOUS
  <1>1. /\ counter = [m \in Masters |-> 0] /\ session = <<>> /\ sent = [k \in Conns |-> 0] /\ gone = {}
        /\ backlog = <<>> /\ nread = [k \in Conns |-> 0] /\ given = [k \in Conns |-> <<>>]
        /\ passed = [k \in Conns |-> <<>>] /\ tasked = {} /\ nkilled = 0
        /\ proc = [w \in Workers |-> forked(<<>>)]
    BY DEF Init
  <1>2. PICK q : q = forked(<<>>)
    OBVIOUS
  <1>3. Empty(q) /\ q.up
    BY <1>2, ForkedFacts DEF forked
  <1>4. \A w \in Workers : proc[w] = q
    BY <1>1, <1>2
  <1>5. <<>> \in Seq(Nat) /\ <<>> \in Seq(Conns) /\ Len(<<>>) = 0
    OBVIOUS
  <1>6. TypeOK
    <2>1. proc \in [Workers -> Procs]
      BY <1>1, <1>2, <1>3 DEF Empty
    <2> QED BY <1>1, <1>5, <2>1, ConstantFacts DEF TypeOK
  <1>7. CountersAgree
    BY <1>1 DEF CountersAgree
  <1>8. HeldOnce
    BY <1>1, <1>3, <1>4 DEF HeldOnce, Empty
  <1>9. UnheldIsUntouched
    BY <1>1 DEF UnheldIsUntouched
  <1>10. DownIsEmpty
    BY <1>3, <1>4 DEF DownIsEmpty, Empty
  <1>11. NumbersFit
    BY <1>3, <1>4 DEF NumbersFit, NumberFits, Empty
  <1>12. ReachedIsKnown
    BY <1>3, <1>4 DEF ReachedIsKnown, Empty
  <1> QED BY <1>6, <1>7, <1>8, <1>9, <1>10, <1>11, <1>12 DEF SessionsInv

\* Every step preserves the invariant.
LEMMA SessionsNext == SessionsInv /\ [Next]_vars => SessionsInv'
  <1> SUFFICES ASSUME SessionsInv, [Next]_vars PROVE SessionsInv'
    OBVIOUS
  <1>1. CASE \E m \in Masters : ClientArrives(m)
    BY <1>1, ArrivesStep
  <1>2. CASE \E k \in Conns : on_remote_connect(k) \/ MasterSends(k) \/ MasterCloses(k)
    BY <1>2, MasterStep
  <1>3. ASSUME NEW w \in Workers, Runs(w) PROVE SessionsInv'
    BY <1>3, SuperviseStep, LoopStep, AcceptStep, EndsStep, ReadsStep, CloseStep DEF Runs
  <1>4. ASSUME NEW w \in Workers, killed(w) PROVE SessionsInv'
    BY <1>4, EndsStep
  <1>5. ASSUME NEW w \in Workers, NEW fd \in Fds, add_session_task(w, fd) \/ Closes(w, fd)
        PROVE  SessionsInv'
    BY <1>5, TaskStep, CloseStep
  <1>6. CASE UNCHANGED vars
    BY <1>6 DEF vars, SessionsInv, TypeOK, CountersAgree, HeldOnce, UnheldIsUntouched, DownIsEmpty,
                NumbersFit, NumberFits, ReachedIsKnown
  <1> QED BY <1>1, <1>2, <1>3, <1>4, <1>5, <1>6 DEF Next

\* The invariant holds for good.
LEMMA SessionsInvAlways == Spec => []SessionsInv
  BY SessionsInit, SessionsNext, PTL DEF Spec

\* The protocol gets what was sent behind the id, in order, and what was read
\* and not given to it is an incomplete id in the buffer.
THEOREM TheProtocolGetsItAll == Spec => []GivenIsSent
  <1>1. SessionsInv => GivenIsSent
    <2> SUFFICES ASSUME SessionsInv PROVE GivenIsSent
      OBVIOUS
    <2>1. ASSUME NEW k \in Conns, NEW i \in DOMAIN given[k] PROVE given[k][i] = i + 2
      <3>1. given[k] \in Seq(Nat)
        BY DEF SessionsInv, TypeOK
      <3>2. given[k] # <<>>
        OBVIOUS
      <3>3. PICK w \in Workers, fd \in Fds : proc[w].conn[fd] = k
        BY <3>2 DEF SessionsInv, UnheldIsUntouched
      <3>4. NumberFits(proc[w], fd) /\ k # NoConn
        BY ConstantFacts DEF SessionsInv, NumbersFit
      <3>5. Len(given[k]) = nread[k] - 2 /\ \A j \in 1..(nread[k] - 2) : given[k][j] = j + 2
        BY <3>2, <3>3, <3>4 DEF NumberFits
      <3>6. i \in 1..Len(given[k])
        BY <3>1
      <3> QED BY <3>5, <3>6
    <2>2. ASSUME NEW w \in Workers, NEW fd \in Fds
          PROVE  CASE proc[w].cb[fd] = "initial" -> Len(proc[w].buf[fd]) = nread[proc[w].conn[fd]]
                   [] proc[w].cb[fd] = "protocol" ->
                         Len(given[proc[w].conn[fd]]) = nread[proc[w].conn[fd]] - 2
                   [] OTHER -> proc[w].buf[fd] = <<>>
      <3>1. NumberFits(proc[w], fd)
        BY DEF SessionsInv, NumbersFit
      <3> QED BY <3>1 DEF NumberFits
    <2> QED BY <2>1, <2>2 DEF GivenIsSent
  <1> QED BY <1>1, SessionsInvAlways, PTL

\* A task sends on the id of the client it was added for, once, and has done so
\* when the protocol runs; one that still waits when its client goes is not run
\* for the next client on the number.
THEOREM TasksSendTheirSession == Spec => []TaskHasItsSession
  <1>1. SessionsInv => TaskHasItsSession
    <2> SUFFICES ASSUME SessionsInv PROVE TaskHasItsSession
      OBVIOUS
    <2>1. ASSUME NEW k \in DOMAIN session
          PROVE  passed[k] \in {<<>>, <<session[k]>>} /\ (passed[k] # <<>> => k \in tasked)
      <3>1. k \in Conns
        <4>1. session \in Seq(Conns) /\ Len(session) \in Nat /\ Len(session) =< MaxConn
          BY DEF SessionsInv, TypeOK
        <4>2. k \in 1..Len(session)
          BY <4>1
        <4> QED BY <4>1, <4>2, SessionBounds DEF Conns
      <3>2. CASE \A w \in Workers, fd \in Fds : proc[w].conn[fd] # k
        BY <3>1, <3>2 DEF SessionsInv, UnheldIsUntouched
      <3>3. CASE \E w \in Workers, fd \in Fds : proc[w].conn[fd] = k
        <4>1. PICK w \in Workers, fd \in Fds : proc[w].conn[fd] = k
          BY <3>3
        <4>2. NumberFits(proc[w], fd) /\ k # NoConn
          BY <3>1, ConstantFacts DEF SessionsInv, NumbersFit
        <4> QED BY <4>1, <4>2 DEF NumberFits
      <3> QED BY <3>2, <3>3
    <2>2. ASSUME NEW w \in Workers, NEW fd \in Fds,
                 proc[w].cb[fd] = "protocol", proc[w].conn[fd] \in tasked
          PROVE  passed[proc[w].conn[fd]] # <<>>
      <3>1. NumberFits(proc[w], fd)
        BY DEF SessionsInv, NumbersFit
      <3>2. passed[proc[w].conn[fd]] = <<session[proc[w].conn[fd]]>>
        BY <2>2, <3>1 DEF NumberFits
      <3> QED BY <3>2
    <2> QED BY <2>1, <2>2 DEF TaskHasItsSession
  <1> QED BY <1>1, SessionsInvAlways, PTL

-----------------------------------------------------------------------------
(* One master.                                                             *)

\* A session whose id was received is reached still.
LEMMA StillReached ==
    ASSUME OneMasterInv, UNCHANGED <<counter, session>>,
           \A w \in Workers, g \in Fds : proc'[w].cb[g] = "protocol" =>
               /\ proc[w].cb[g] = "protocol" /\ proc'[w].c2s[g] = proc[w].c2s[g]
               /\ proc'[w].s2c[proc[w].c2s[g]] = proc[w].s2c[proc[w].c2s[g]]
    PROVE  OneMasterInv'
  BY DEF OneMasterInv

\* Two numbers of a worker have not the same id.
LEMMA IdsDiffer ==
    ASSUME SessionsInv, OneMasterInv, NEW w \in Workers, NEW f \in Fds, NEW g \in Fds, f # g,
           proc[w].cb[f] # "none", proc[w].cb[g] = "protocol"
    PROVE  proc[w].c2s[g] # session[proc[w].conn[f]] /\ proc[w].c2s[g] \in Conns
  <1>1. PICK j, k : j = proc[w].conn[f] /\ k = proc[w].conn[g]
    OBVIOUS
  <1>2. /\ j \in 1..Len(session) /\ k \in 1..Len(session) /\ k # NoConn /\ session[k] \in Conns
    BY <1>1, WatchedFacts
  <1>3. j # k
    BY <1>1, <1>2 DEF SessionsInv, HeldOnce
  <1>4. NumberFits(proc[w], g)
    BY DEF SessionsInv, NumbersFit
  <1>5. proc[w].c2s[g] = session[k]
    BY <1>1, <1>4 DEF NumberFits
  <1> QED BY <1>1, <1>2, <1>3, <1>5 DEF OneMasterInv

\* A master that is alone numbers the sessions like the connections.
LEMMA OneArrives ==
    ASSUME NEW m, Masters = {m}, SessionsInv, OneMasterInv, ClientArrives(m)
    PROVE  OneMasterInv'
  <1>1. PICK n : n = Len(session)
    OBVIOUS
  <1>2. session \in Seq(Conns) /\ n \in Nat /\ counter[m] = n /\ counter \in [Masters -> Nat]
    BY <1>1 DEF SessionsInv, TypeOK, OneMasterInv
  <1>3. counter' = [counter EXCEPT ![m] = n + 1]
    BY <1>2 DEF ClientArrives, numbered
  <1>4. counter'[m] = n + 1
    BY <1>2, <1>3
  <1>5. session' = Append(session, n + 1)
    BY <1>4 DEF ClientArrives, numbered
  <1>6. Len(session') = n + 1 /\ \A k \in 1..(n + 1) : session'[k] = IF k = n + 1 THEN n + 1 ELSE session[k]
    BY <1>1, <1>2, <1>5
  <1>7. \A k \in 1..(n + 1) : session'[k] = k
    <2>1. \A k \in 1..(n + 1) : k # n + 1 => k \in 1..n
      BY <1>2
    <2> QED BY <1>1, <1>6, <2>1 DEF OneMasterInv
  <1>8. \A w \in Workers : proc'[w].cb = proc[w].cb /\ proc'[w].c2s = proc[w].c2s /\ proc'[w].s2c = proc[w].s2c
    <2> SUFFICES ASSUME NEW w \in Workers
                 PROVE  proc'[w].cb = proc[w].cb /\ proc'[w].c2s = proc[w].c2s /\ proc'[w].s2c = proc[w].s2c
      OBVIOUS
    <2>1. PICK p, q : p = proc[w] /\ q = proc'[w]
      OBVIOUS
    <2>2. p \in Procs /\ q = [p EXCEPT !.ready = p.ready \/ p.up]
      BY <2>1 DEF ClientArrives, SessionsInv, TypeOK
    <2>3. q.cb = p.cb /\ q.c2s = p.c2s /\ q.s2c = p.s2c
      BY <2>2 DEF Procs
    <2> QED BY <2>1, <2>3
  <1>9. /\ \A x \in Masters : counter'[x] = Len(session')
        /\ \A k \in 1..Len(session') : session'[k] = k
    BY <1>4, <1>6, <1>7
  <1>10. \A w \in Workers, fd \in Fds :
            proc'[w].cb[fd] = "protocol" => proc'[w].s2c[proc'[w].c2s[fd]] = fd
    BY <1>8 DEF OneMasterInv
  <1> QED BY <1>9, <1>10 DEF OneMasterInv

\* The id of another session takes nothing away, and no close does.
LEMMA OneReceives ==
    ASSUME SessionsInv, OneMasterInv, NEW w \in Workers, NEW fd \in Fds, NEW n \in Nat,
           initial_message(w, fd, n), nread[proc[w].conn[fd]] + n >= 2
    PROVE  OneMasterInv'
  <1>1. PICK p, q, k, s : p = proc[w] /\ q = proc'[w] /\ k = p.conn[fd] /\ s = session[k]
    OBVIOUS
  <1>2. p.cb[fd] = "initial" /\ p \in Procs /\ s \in Conns
    <2>1. p.cb[fd] = "initial" /\ p \in Procs
      BY <1>1, Zenon DEF initial_message, SessionsInv, TypeOK
    <2> QED BY <1>1, <2>1, WatchedFacts
  <1>3. /\ Received(p, q, fd, s) /\ \A v \in Workers \ {w} : proc'[v] = proc[v]
        /\ UNCHANGED <<counter, session>>
    BY <1>1, CompleteFacts
  <1>4. /\ q.cb[fd] = "protocol" /\ q.c2s[fd] = s
        /\ \A g \in Fds \ {fd} : SameNumber(p, q, g)
        /\ \A t \in Conns : q.s2c[t] = IF t = s THEN fd ELSE p.s2c[t]
    BY ONLY <1>2, <1>3, fd \in Fds, ReceivedNumbers
  <1>5. ASSUME NEW v \in Workers, NEW g \in Fds, proc'[v].cb[g] = "protocol"
        PROVE  proc'[v].s2c[proc'[v].c2s[g]] = g
    <2>1. CASE v # w
      BY <1>3, <1>5, <2>1 DEF OneMasterInv
    <2>2. CASE v = w /\ g = fd
      BY <1>1, <1>2, <1>4, <2>2
    <2>3. CASE v = w /\ g # fd
      <3>1. p.cb[g] = "protocol" /\ q.c2s[g] = p.c2s[g]
        BY <1>1, <1>4, <1>5, <2>3 DEF SameNumber
      <3>2. p.c2s[g] # s /\ p.c2s[g] \in Conns
        BY <1>1, <1>2, <2>3, <3>1, IdsDiffer
      <3>3. p.s2c[p.c2s[g]] = g
        BY <1>1, <3>1 DEF OneMasterInv
      <3> QED BY <1>1, <1>4, <2>3, <3>1, <3>2, <3>3
    <2> QED BY <2>1, <2>2, <2>3
  <1> QED BY <1>3, <1>5 DEF OneMasterInv

\* The close of a number.
LEMMA OneCloses ==
    ASSUME SessionsInv, OneMasterInv, NEW w \in Workers, NEW fd \in Fds,
           proc[w].cb[fd] # "none", close(w, fd)
    PROVE  OneMasterInv'
  <1>1. PICK p, q, k : p = proc[w] /\ q = proc'[w] /\ k = p.conn[fd]
    OBVIOUS
  <1>2. p \in Procs /\ UNCHANGED <<counter, session>> /\ session[k] \in Conns
    BY <1>1, WatchedFacts DEF SessionsInv, TypeOK, close
  <1>3. Closed(p, q, fd) /\ \A v \in Workers \ {w} : proc'[v] = proc[v]
    BY <1>1, ClosedFacts
  <1>4. /\ q.cb[fd] = "none" /\ \A g \in Fds \ {fd} : SameNumber(p, q, g)
        /\ \A s \in Conns : q.s2c[s] = IF s = p.c2s[fd] THEN NoFd ELSE p.s2c[s]
    BY ONLY <1>2, <1>3, fd \in Fds, ClosedNumbers
  <1>5. p.c2s[fd] \in {NoSession, session[k]}
    <2>1. NumberFits(p, fd)
      BY <1>1 DEF SessionsInv, NumbersFit
    <2> QED BY <1>1, <2>1 DEF NumberFits
  <1>6. ASSUME NEW v \in Workers, NEW g \in Fds, proc'[v].cb[g] = "protocol"
        PROVE  /\ proc[v].cb[g] = "protocol" /\ proc'[v].c2s[g] = proc[v].c2s[g]
               /\ proc'[v].s2c[proc[v].c2s[g]] = proc[v].s2c[proc[v].c2s[g]]
    <2>1. CASE v # w
      BY <1>3, <1>6, <2>1
    <2>2. CASE v = w
      <3>1. g # fd
        BY <1>1, <1>4, <1>6, <2>2
      <3>2. p.cb[g] = "protocol" /\ q.c2s[g] = p.c2s[g]
        BY <1>1, <1>4, <1>6, <2>2, <3>1 DEF SameNumber
      <3>3. p.c2s[g] # session[k] /\ p.c2s[g] \in Conns
        BY <1>1, <3>1, <3>2, IdsDiffer
      <3>4. p.c2s[g] # p.c2s[fd]
        BY <1>5, <3>3, ConstantFacts
      <3> QED BY <1>1, <1>4, <2>2, <3>2, <3>3, <3>4
    <2> QED BY <2>1, <2>2
  <1> QED BY <1>2, <1>6, StillReached

\* The tables of q are those of p, and no number of it is new to the protocol.
SameTables(p, q) ==
    /\ q.c2s = p.c2s /\ q.s2c = p.s2c
    /\ \A g \in Fds : q.cb[g] = "protocol" => p.cb[g] = "protocol"

\* Such a step of a worker changes nothing of that.
LEMMA OneLeaves ==
    ASSUME SessionsInv, OneMasterInv, NEW w \in Workers, NEW q, SameTables(proc[w], q),
           proc' = [proc EXCEPT ![w] = q], UNCHANGED <<counter, session>>
    PROVE  OneMasterInv'
  <1>1. proc'[w] = q /\ \A v \in Workers \ {w} : proc'[v] = proc[v]
    BY DEF SessionsInv, TypeOK
  <1>2. \A v \in Workers, g \in Fds : proc'[v].cb[g] = "protocol" =>
           /\ proc[v].cb[g] = "protocol" /\ proc'[v].c2s[g] = proc[v].c2s[g]
           /\ proc'[v].s2c[proc[v].c2s[g]] = proc[v].s2c[proc[v].c2s[g]]
    BY <1>1 DEF SameTables
  <1> QED BY <1>2, StillReached

\* A process starts, or ends.
LEMMA OneEmptied ==
    ASSUME SessionsInv, OneMasterInv, NEW w \in Workers, NEW q, Empty(q),
           proc' = [proc EXCEPT ![w] = q], UNCHANGED <<counter, session>>
    PROVE  OneMasterInv'
  <1>1. proc'[w] = q /\ \A v \in Workers \ {w} : proc'[v] = proc[v]
    BY DEF SessionsInv, TypeOK
  <1>2. \A g \in Fds : q.cb[g] # "protocol"
    BY DEF Empty
  <1> QED BY <1>1, <1>2, StillReached

\* The id is incomplete still.
LEMMA OneWaits ==
    ASSUME SessionsInv, OneMasterInv, NEW w \in Workers, NEW fd \in Fds, NEW n \in Nat,
           initial_message(w, fd, n), nread[proc[w].conn[fd]] + n < 2
    PROVE  OneMasterInv'
  <1>1. PICK p, k, message, z : /\ p = proc[w] /\ k = p.conn[fd]
                                /\ message = p.buf[fd] \o [i \in 1..n |-> nread[k] + i]
                                /\ z = recv_session_id(p, fd, [i \in 1..n |-> nread[k] + i])
    BY Zenon
  <1>2. p.cb[fd] = "initial" /\ p \in Procs
    BY <1>1, Zenon DEF initial_message, SessionsInv, TypeOK
  <1>3. Begins(p, fd, n, k, message)
    BY <1>1, <1>2, InitialFacts
  <1>4. Len(message) < 2
    <2>1. PICK m : m = nread[k] + n
      OBVIOUS
    <2>2. m \in Nat /\ m < 2 /\ Tokens(message, 0, m)
      BY <1>1, <1>3, <2>1 DEF Begins
    <2> QED BY ONLY <2>2 DEF Tokens
  <1>5. PICK q : q = [p EXCEPT !.buf[fd] = message]
    OBVIOUS
  <1>6. z[1] = q /\ q.c2s = p.c2s /\ p.c2s[fd] = NoSession
    <2>1. z = <<q, message>>
      BY <1>1, <1>4, <1>5, Zenon DEF recv_session_id
    <2> QED BY <2>1, <1>2, <1>3, <1>5 DEF Procs, Begins
  <1>7. proc' = [proc EXCEPT ![w] = q] /\ UNCHANGED <<counter, session>>
    <2>1. z[1].c2s[fd] = NoSession => proc' = [proc EXCEPT ![w] = z[1]]
      BY ONLY initial_message(w, fd, n), <1>1, Zenon DEF initial_message
    <2>2. UNCHANGED <<counter, session>>
      BY Zenon DEF initial_message
    <2> QED BY ONLY <1>6, <2>1, <2>2
  <1>8. SameTables(p, q)
    BY <1>2, <1>5 DEF SameTables, Procs
  <1> QED BY <1>1, <1>7, <1>8, OneLeaves

\* With one master every step keeps the sessions reached.
LEMMA OneMasterNext ==
    ASSUME NEW m, Masters = {m}, SessionsInv, OneMasterInv, [Next]_vars
    PROVE  OneMasterInv'
  <1>1. CASE \E x \in Masters : ClientArrives(x)
    BY <1>1, OneArrives
  <1>2. ASSUME UNCHANGED <<counter, session, proc>> PROVE OneMasterInv'
    BY <1>2 DEF OneMasterInv
  <1>3. CASE \E k \in Conns : on_remote_connect(k) \/ MasterSends(k) \/ MasterCloses(k)
    BY <1>2, <1>3 DEF on_remote_connect, MasterSends, MasterCloses
  <1>4. ASSUME NEW w \in Workers, killed(w) \/ accept_fails(w) \/ supervise_subprocess(w)
        PROVE  OneMasterInv'
    <2>1. UNCHANGED <<counter, session>>
      BY <1>4 DEF killed, accept_fails, supervise_subprocess
    <2>2. \/ proc' = [proc EXCEPT ![w] = [forked(<<>>) EXCEPT !.up = FALSE]]
          \/ proc' = [proc EXCEPT ![w] = forked(backlog)]
      BY <1>4 DEF killed, accept_fails, supervise_subprocess, Ends
    <2>3. PICK q : Empty(q) /\ proc' = [proc EXCEPT ![w] = q]
      BY <2>2, ForkedFacts
    <2> QED BY <2>1, <2>3, OneEmptied
  <1>5. ASSUME NEW w \in Workers, wakes(w) \/ accept_ends(w) PROVE OneMasterInv'
    <2>1. PICK p, q : p = proc[w] /\ q = proc'[w]
      OBVIOUS
    <2>2. /\ UNCHANGED <<counter, session>> /\ proc' = [proc EXCEPT ![w] = q]
          /\ \/ q = [p EXCEPT !.ready = FALSE, !.accepting = TRUE]
             \/ q = [p EXCEPT !.accepting = FALSE]
      BY <1>5, <2>1 DEF wakes, accept_ends, SessionsInv, TypeOK
    <2>3. p \in Procs
      BY <2>1 DEF SessionsInv, TypeOK
    <2>4. SameTables(p, q)
      BY <2>2, <2>3 DEF SameTables, Procs
    <2> QED BY <2>1, <2>2, <2>4, OneLeaves
  <1>6. ASSUME NEW w \in Workers, accept(w) PROVE OneMasterInv'
    <2>1. PICK p, q, fd, k : /\ p = proc[w] /\ fd = Min(Free(p)) /\ k = Head(backlog)
                             /\ q = [p EXCEPT !.conn[fd] = k, !.cb[fd] = "initial"]
      BY Zenon
    <2>2. /\ Free(p) # {} /\ UNCHANGED <<counter, session>> /\ proc \in [Workers -> Procs]
          /\ proc' = [proc EXCEPT ![w].conn[fd] = k, ![w].cb[fd] = "initial"]
      BY <1>6, <2>1 DEF accept, SessionsInv, TypeOK
    <2>3. fd \in Fds
      <3>1. Free(p) \subseteq Nat /\ Free(p) \subseteq Fds
        BY SessionFds DEF Free
      <3> QED BY <2>1, <2>2, <3>1, LeastFacts
    <2>4. proc' = [proc EXCEPT ![w] = q]
      BY <2>1, <2>2
    <2>5. SameTables(p, q)
      <3>1. p \in Procs
        BY <2>1 DEF SessionsInv, TypeOK
      <3>2. q.c2s = p.c2s /\ q.s2c = p.s2c /\ q.cb = [p.cb EXCEPT ![fd] = "initial"]
        BY <2>1, <3>1 DEF Procs
      <3> QED BY <2>3, <3>1, <3>2 DEF SameTables, Procs
    <2> QED BY <2>1, <2>2, <2>4, <2>5, OneLeaves
  <1>7. ASSUME NEW w \in Workers, NEW fd \in Fds, add_session_task(w, fd) PROVE OneMasterInv'
    <2>1. PICK p : p = proc[w]
      OBVIOUS
    <2>2. UNCHANGED <<counter, session>> /\ proc \in [Workers -> Procs]
      BY <1>7 DEF add_session_task, SessionsInv, TypeOK
    <2>3. CASE p.c2s[fd] = NoSession
      <3>1. PICK q, y : y = p.tasks[fd] + 1 /\ q = [p EXCEPT !.tasks[fd] = y]
        OBVIOUS
      <3>2. proc' = [proc EXCEPT ![w] = q]
        BY <1>7, <2>1, <2>2, <2>3, <3>1 DEF add_session_task
      <3>3. SameTables(p, q)
        BY <2>1, <2>2, <3>1 DEF SameTables, Procs
      <3> QED BY <2>1, <2>2, <3>2, <3>3, OneLeaves
    <2>4. CASE p.c2s[fd] # NoSession
      BY <1>2, <1>7, <2>1, <2>2, <2>4 DEF add_session_task
    <2> QED BY <2>3, <2>4
  <1>8. ASSUME NEW w \in Workers, NEW fd \in Fds, HangsUp(w, fd) \/ Closes(w, fd)
        PROVE  OneMasterInv'
    <2>1. proc[w].cb[fd] # "none" /\ close(w, fd)
      BY <1>8 DEF HangsUp, Closes, Idle
    <2> QED BY <2>1, OneCloses
  <1>9. ASSUME NEW w \in Workers, NEW fd \in Fds, Reads(w, fd) PROVE OneMasterInv'
    <2>1. PICK k : k = proc[w].conn[fd]
      OBVIOUS
    <2>2. k \in Conns /\ nread[k] \in Nat /\ sent[k] \in Nat
      <3>1. proc[w].cb[fd] # "none"
        BY <1>9 DEF Reads, Idle
      <3> QED BY <2>1, <3>1, WatchedFacts DEF SessionsInv, TypeOK
    <2>3. PICK n \in 1..(sent[k] - nread[k]) : initial_message(w, fd, n) \/ on_message(w, fd, n)
      BY <1>9, <2>1 DEF Reads
    <2>4. n \in Nat
      BY <2>2, <2>3
    <2>5. CASE on_message(w, fd, n)
      BY <1>2, <2>5 DEF on_message
    <2>6. CASE initial_message(w, fd, n) /\ nread[k] + n < 2
      BY <2>1, <2>4, <2>6, OneWaits
    <2>7. CASE initial_message(w, fd, n) /\ nread[k] + n >= 2
      BY <2>1, <2>4, <2>7, OneReceives
    <2> QED BY <2>2, <2>3, <2>4, <2>5, <2>6, <2>7
  <1>10. CASE UNCHANGED vars
    BY <1>2, <1>10 DEF vars
  <1>11. ASSUME NEW w \in Workers, Runs(w) PROVE OneMasterInv'
    BY <1>4, <1>5, <1>6, <1>8, <1>9, <1>11 DEF Runs
  <1> QED BY <1>1, <1>3, <1>4, <1>7, <1>8, <1>10, <1>11 DEF Next

\* What a worker writes for a session goes to the connection of that session,
\* and every session whose id it received is reached, for any workers and
\* connections of one master.  (Two masters both give out the id 1.)
THEOREM SessionsAreReached ==
    ASSUME NEW CONSTANT m, Masters = {m}
    PROVE  Spec => []SessionIsReached
  <1>1. Init => OneMasterInv
    <2> SUFFICES ASSUME Init PROVE OneMasterInv
      OBVIOUS
    <2>1. counter = [x \in Masters |-> 0] /\ session = <<>> /\ Len(<<>>) = 0
      BY DEF Init
    <2>2. \A w \in Workers, fd \in Fds : proc[w].cb[fd] = "none"
      BY DEF Init, forked
    <2> QED BY <2>1, <2>2 DEF OneMasterInv
  <1>2. SessionsInv /\ OneMasterInv /\ [Next]_vars => OneMasterInv'
    BY OneMasterNext
  <1>3. SessionsInv /\ OneMasterInv => SessionIsReached
    <2> SUFFICES ASSUME SessionsInv, OneMasterInv, NEW w \in Workers,
                        NEW p, p = proc[w]
                 PROVE  /\ \A s \in Conns : write_global(p, s) # NoFd =>
                              /\ p.conn[write_global(p, s)] # NoConn
                              /\ session[p.conn[write_global(p, s)]] = s
                              /\ p.c2s[write_global(p, s)] = s
                        /\ \A fd \in Fds : p.cb[fd] = "protocol" => write_global(p, p.c2s[fd]) = fd
      BY DEF SessionIsReached
    <2>1. ASSUME NEW s \in Conns, NEW fd, fd = write_global(p, s), fd # NoFd
          PROVE  p.conn[fd] # NoConn /\ session[p.conn[fd]] = s /\ p.c2s[fd] = s
      <3>1. fd = p.s2c[s] /\ p.s2c[s] # NoFd
        BY <2>1 DEF write_global, connect_parent
      <3>2. fd \in Fds /\ p.cb[fd] = "protocol" /\ p.c2s[fd] = s
        BY <3>1 DEF SessionsInv, ReachedIsKnown, TypeOK, Procs
      <3>3. NumberFits(p, fd)
        BY <3>2 DEF SessionsInv, NumbersFit
      <3>4. p.conn[fd] # NoConn
        BY <3>2, WatchedFacts
      <3> QED BY <3>2, <3>3, <3>4 DEF NumberFits
    <2>2. ASSUME NEW fd \in Fds, p.cb[fd] = "protocol" PROVE write_global(p, p.c2s[fd]) = fd
      <3>1. p.s2c[p.c2s[fd]] = fd /\ fd # NoFd
        BY <2>2, ConstantFacts DEF OneMasterInv
      <3> QED BY <3>1 DEF write_global
    <2> QED BY <2>1, <2>2
  <1> QED BY <1>1, <1>2, <1>3, SessionsInvAlways, PTL DEF Spec
=============================================================================
