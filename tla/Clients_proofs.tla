--------------------------- MODULE Clients_proofs ---------------------------
(***************************************************************************)
(* The proof that a callback hears the answer to its own request, for any  *)
(* numbers, connections and requests.  It is about one address, and where  *)
(* nothing awkward happens.                                                *)
(***************************************************************************)
EXTENDS Clients, FiniteSetTheorems, WellFoundedInduction, TLAPS

Tables ==
    [conn : [Fds -> Nat], peer : Seq(Addrs), up : SUBSET Conns,
     todo : [Conns -> Seq(Requests)], inbox : [Conns -> Seq(Requests)],
     armed : SUBSET Fds, watched : SUBSET Fds, closing : SUBSET Fds,
     a2s : [Addrs -> Fds \union {NoFd}],
     queue : [Fds -> Seq(Requests)], map : [Fds -> SUBSET Requests],
     nreq : Nat, rr : Nat, dest : [Requests -> Nat], heard : [Requests -> Seq(Requests)],
     exited : BOOLEAN]

-----------------------------------------------------------------------------
(* The invariant.                                                          *)

\* A connection that there is has been made, and has one number.
ConnsFit(u) ==
    /\ Len(u.peer) =< MaxConn /\ u.up \subseteq 1..Len(u.peer)
    /\ \A fd \in Fds : u.conn[fd] =< Len(u.peer)
    /\ \A f, g \in Fds : u.conn[f] = u.conn[g] /\ u.conn[f] # NoConn => f = g

\* The one address.
TheNumber(u) == u.a2s[1]

\* Watched is the number of the address, which has its connection as long as
\* the epoll set has the number; callbacks are kept for it only.
NumbersFit(u) ==
    /\ \A fd \in u.armed : u.conn[fd] # NoConn
    /\ \A fd \in u.watched : fd \notin u.armed => u.conn[fd] = NoConn
    /\ ~ u.exited => \A fd \in u.watched : fd = TheNumber(u)
    /\ \A fd \in Fds : fd \notin u.watched => u.queue[fd] = <<>> /\ u.map[fd] = {}

\* The number of the address is watched while it has a connection, but for
\* one that the server has closed, until the end of the batch of events, which
\* closes it.
HeldIsWatched(u, inwait) ==
    ~ u.exited /\ TheNumber(u) # NoFd /\ TheNumber(u) \notin u.watched =>
        \/ u.conn[TheNumber(u)] = NoConn
        \/ inwait /\ TheNumber(u) \in u.closing /\ u.conn[TheNumber(u)] \notin u.up

\* The replies that are being handled, those on the way for each connection,
\* and the requests each server has.
Places == 0..(2 * MaxConn)

Lanes(u, g) ==
    [x \in Places |->
        IF x = 0 THEN g ELSE IF x =< MaxConn THEN u.inbox[x] ELSE u.todo[x - MaxConn]]

\* A request is in one place.
Distinct(L) ==
    \A x, y \in Places : \A i \in 1..Len(L[x]), j \in 1..Len(L[y]) :
        L[x][i] = L[y][j] => x = y /\ i = j

\* It was made, and its callback has heard nothing.
Pending(u, L) ==
    \A x \in Places : \A i \in 1..Len(L[x]) :
        L[x][i] =< u.nreq /\ u.heard[L[x][i]] = <<>>

WiresFit(u, g) ==
    /\ Distinct(Lanes(u, g)) /\ Pending(u, Lanes(u, g))
    /\ \A k \in Conns : k \notin u.up => u.todo[k] = <<>>
    /\ \A k \in Conns : k > Len(u.peer) => u.inbox[k] = <<>>

\* The queue q begins with the replies g, i and o in this order, and with these
\* it ends if the server is there.
QueueFits(q, g, i, o, there) ==
    /\ Len(g) + Len(i) + Len(o) =< Len(q)
    /\ there => Len(g) + Len(i) + Len(o) = Len(q)
    /\ \A j \in 1..Len(g) : q[j] = g[j]
    /\ \A j \in 1..Len(i) : q[Len(g) + j] = i[j]
    /\ \A j \in 1..Len(o) : q[Len(g) + Len(i) + j] = o[j]

\* Every callback of the map m is for one of the replies g, i and o.
MapFits(m, g, i, o) ==
    \A r \in m : \/ \E j \in 1..Len(g) : g[j] = r
                 \/ \E j \in 1..Len(i) : i[j] = r
                 \/ \E j \in 1..Len(o) : o[j] = r

Handled(f, g, fd) == IF fd = f THEN g ELSE <<>>

\* x is the request whose callback is running.
CallbacksFit(u, f, g, x) ==
    \A fd \in Fds : fd \in u.watched /\ u.conn[fd] # NoConn =>
        IF proto = "Redis"
        THEN QueueFits(u.queue[fd], Handled(f, g, fd), u.inbox[u.conn[fd]], u.todo[u.conn[fd]],
                       u.conn[fd] \in u.up)
        ELSE u.conn[fd] \in u.up =>
                MapFits(u.map[fd] \ {x}, Handled(f, g, fd), u.inbox[u.conn[fd]], u.todo[u.conn[fd]])

HeardFits(u) ==
    \A r \in Requests : u.heard[r] \in {<<>>, <<r>>} /\ (r > u.nreq => u.heard[r] = <<>>)

\* The replies that are being handled are of a connection that is there.
ReadFits(u, f, g, inwait) ==
    g # <<>> => /\ ~ u.exited /\ inwait
                /\ f \in Fds /\ f \in u.watched /\ u.conn[f] # NoConn

NoRequest == 0

Good(u, f, g, inwait, x) ==
    /\ u \in Tables /\ u.nreq =< MaxReq
    /\ f \in Fds \union {NoFd} /\ g \in Seq(Requests)
    /\ ConnsFit(u) /\ NumbersFit(u) /\ HeldIsWatched(u, inwait) /\ WiresFit(u, g)
    /\ CallbacksFit(u, f, g, x) /\ HeardFits(u) /\ ReadFits(u, f, g, inwait)

ClientsInv ==
    /\ proto \in {"Redis", "Soa"} /\ push \in BOOLEAN /\ waiting \in BOOLEAN
    /\ Good(t, from, got, waiting, NoRequest)
-----------------------------------------------------------------------------
(* Constants and sequences.                                                *)

Plain == NAddr = 1 /\ Awkward = {}

LEMMA ConstantFacts ==
    /\ NoFd = 0 /\ NoConn = 0 /\ NoFd \notin Fds /\ Fds \subseteq Nat
    /\ MaxConn \in Nat /\ MaxReq \in Nat /\ Conns = 1..MaxConn /\ Requests = 1..MaxReq
    /\ Plain => Addrs = {1}
  BY ClientsFds, ClientsBounds DEF NoFd, NoConn, Conns, Requests, Addrs, Plain

LEMMA AppendFacts ==
    ASSUME NEW S, NEW p \in Seq(S), NEW x \in S
    PROVE  /\ Append(p, x) \in Seq(S) /\ Len(Append(p, x)) = Len(p) + 1
           /\ \A i \in 1..Len(p) : Append(p, x)[i] = p[i]
           /\ Append(p, x)[Len(p) + 1] = x
  OBVIOUS

LEMMA ConcatFacts ==
    ASSUME NEW S, NEW p \in Seq(S), NEW q \in Seq(S)
    PROVE  /\ p \o q \in Seq(S) /\ Len(p \o q) = Len(p) + Len(q)
           /\ \A i \in 1..Len(p) : (p \o q)[i] = p[i]
           /\ \A i \in 1..Len(q) : (p \o q)[Len(p) + i] = q[i]
  OBVIOUS

LEMMA TailFacts ==
    ASSUME NEW S, NEW p \in Seq(S), p # <<>>
    PROVE  /\ Len(p) > 0 /\ Head(p) = p[1] /\ Head(p) \in S
           /\ Tail(p) \in Seq(S) /\ Len(Tail(p)) = Len(p) - 1
           /\ \A i \in 1..(Len(p) - 1) : Tail(p)[i] = p[i + 1]
  OBVIOUS

\* The first n elements of p and the rest.
LEMMA CutFacts ==
    ASSUME NEW S, NEW p \in Seq(S), NEW n \in 0..Len(p)
    PROVE  /\ SubSeq(p, n + 1, Len(p)) \in Seq(S) /\ Len(SubSeq(p, n + 1, Len(p))) = Len(p) - n
           /\ \A i \in 1..(Len(p) - n) : SubSeq(p, n + 1, Len(p))[i] = p[n + i]
           /\ SubSeq(p, 1, n) \in Seq(S) /\ Len(SubSeq(p, 1, n)) = n
           /\ \A i \in 1..n : SubSeq(p, 1, n)[i] = p[i]
  OBVIOUS

\* q is p without its n-th element.
Without(q, p, n) == q = RemoveAt(p, n)

Removed(q, p, n) ==
    /\ Len(q) = Len(p) - 1
    /\ \A i \in 1..(n - 1) : q[i] = p[i]
    /\ \A i \in n..(Len(p) - 1) : q[i] = p[i + 1]

LEMMA RemoveFacts ==
    ASSUME NEW S, NEW p \in Seq(S), NEW n \in 1..Len(p), NEW q, Without(q, p, n)
    PROVE  q \in Seq(S) /\ Removed(q, p, n)
  <1> SUFFICES ASSUME q = RemoveAt(p, n)
               PROVE  /\ q \in Seq(S) /\ Len(q) = Len(p) - 1
                      /\ \A i \in 1..(n - 1) : q[i] = p[i]
                      /\ \A i \in n..(Len(p) - 1) : q[i] = p[i + 1]
    BY DEF Without, Removed
  <1>1. PICK a, b : a = SubSeq(p, 1, n - 1) /\ b = SubSeq(p, n + 1, Len(p))
    OBVIOUS
  <1>2. q = a \o b
    BY <1>1 DEF RemoveAt
  <1>3. Len(p) \in Nat /\ n - 1 \in 0..Len(p) /\ n \in 0..Len(p)
    OBVIOUS
  <1>4. /\ b \in Seq(S) /\ Len(b) = Len(p) - n /\ \A i \in 1..(Len(p) - n) : b[i] = p[n + i]
    BY ONLY <1>1, <1>3, CutFacts, p \in Seq(S)
  <1>5. /\ a \in Seq(S) /\ Len(a) = n - 1 /\ \A i \in 1..(n - 1) : a[i] = p[i]
    <2>1. PICK m : m = n - 1
      OBVIOUS
    <2>2. /\ SubSeq(p, 1, m) \in Seq(S) /\ Len(SubSeq(p, 1, m)) = m
          /\ \A i \in 1..m : SubSeq(p, 1, m)[i] = p[i]
      BY ONLY <1>3, <2>1, CutFacts, p \in Seq(S)
    <2> QED BY ONLY <1>1, <2>1, <2>2
  <1>6. /\ a \o b \in Seq(S) /\ Len(a \o b) = Len(a) + Len(b)
        /\ \A i \in 1..Len(a) : (a \o b)[i] = a[i]
        /\ \A i \in 1..Len(b) : (a \o b)[Len(a) + i] = b[i]
    <2>1. a \in Seq(S) /\ b \in Seq(S)
      BY <1>4, <1>5
    <2> QED BY ONLY <2>1, ConcatFacts, SMTT(20)
  <1>7. ASSUME NEW i \in n..(Len(p) - 1) PROVE q[i] = p[i + 1]
    <2>1. i - (n - 1) \in 1..Len(b) /\ i = Len(a) + (i - (n - 1)) /\ n + (i - (n - 1)) = i + 1
          /\ i - (n - 1) \in 1..(Len(p) - n)
      BY <1>3, <1>4, <1>5
    <2> QED BY ONLY <1>2, <1>4, <1>6, <2>1
  <1> QED BY ONLY <1>2, <1>3, <1>4, <1>5, <1>6, <1>7

LEMMA LeastFacts == ASSUME NEW S, S \subseteq Nat, S # {} PROVE Min(S) \in S
  <1> DEFINE R == OpToRel(<, Nat)
  <1>1. IsWellFoundedOn(R, Nat)
    BY NatLessThanWellFounded, Zenon
  <1> HIDE DEF R
  <1>2. PICK x \in S : \A y \in S : ~ (<<y, x>> \in R)
    BY <1>1, WFMin
  <1>3. \A y \in S : y < x => <<y, x>> \in R
    BY DEF R, OpToRel
  <1>4. \A y \in S : ~ (y < x)
    BY <1>2, <1>3
  <1>5. \A y \in S : x =< y
    BY ONLY <1>4, x \in S, S \subseteq Nat
  <1> QED BY ONLY <1>5, x \in S DEF Min

-----------------------------------------------------------------------------
(* Lanes.                                                                  *)

LanesOf(L, u, g) ==
    /\ L \in [Places -> Seq(Requests)] /\ L[0] = g /\ 0 \in Places
    /\ \A k \in Conns : /\ k \in Places /\ MaxConn + k \in Places
                        /\ L[k] = u.inbox[k] /\ L[MaxConn + k] = u.todo[k]
    /\ \A x \in Places : x = 0 \/ x \in Conns \/ \E k \in Conns : x = MaxConn + k

LEMMA LaneFacts ==
    ASSUME NEW u \in Tables, NEW g \in Seq(Requests), NEW L, L = Lanes(u, g)
    PROVE  LanesOf(L, u, g)
  <1> USE ConstantFacts
  <1>1. \A k \in Conns : k \in Places /\ MaxConn + k \in Places
    BY DEF Places
  <1>2. \A x \in Places : x = 0 \/ x \in Conns \/ (x - MaxConn \in Conns /\ x = MaxConn + (x - MaxConn))
    BY DEF Places
  <1>3. u.inbox \in [Conns -> Seq(Requests)] /\ u.todo \in [Conns -> Seq(Requests)]
    BY DEF Tables
  <1>4. L = [x \in Places |-> IF x = 0 THEN g ELSE IF x =< MaxConn THEN u.inbox[x] ELSE u.todo[x - MaxConn]]
    BY DEF Lanes, Places
  <1>5. L \in [Places -> Seq(Requests)]
    <2>1. ASSUME NEW x \in Places PROVE L[x] \in Seq(Requests)
      <3>1. g \in Seq(Requests) /\ x \in Int /\ (x \in Conns => x # 0 /\ x =< MaxConn)
            /\ (x - MaxConn \in Conns => x # 0 /\ ~ (x =< MaxConn))
        BY DEF Places
      <3>2. L[x] = IF x = 0 THEN g ELSE IF x =< MaxConn THEN u.inbox[x] ELSE u.todo[x - MaxConn]
        BY <1>4
      <3> QED BY ONLY <1>2, <1>3, <3>1, <3>2, x \in Places
    <2> QED BY <1>4, <2>1
  <1>6. ASSUME NEW k \in Conns PROVE L[k] = u.inbox[k] /\ L[MaxConn + k] = u.todo[k]
    <2>1. k # 0 /\ k =< MaxConn /\ MaxConn + k # 0 /\ ~ (MaxConn + k =< MaxConn)
          /\ (MaxConn + k) - MaxConn = k
      OBVIOUS
    <2> QED BY ONLY <1>1, <1>4, <1>6, <2>1
  <1>7. 0 \in Places /\ L[0] = g
    BY <1>4 DEF Places
  <1> QED BY <1>1, <1>2, <1>5, <1>6, <1>7 DEF LanesOf

\* What is in M is in L; r is not in L.
Within(M, L) ==
    \A x \in Places : \A i \in 1..Len(M[x]) :
        \E y \in Places : \E j \in 1..Len(L[y]) : M[x][i] = L[y][j]
Absent(L, r) == \A x \in Places : \A i \in 1..Len(L[x]) : L[x][i] # r

LEMMA WithinFacts ==
    ASSUME NEW L, NEW M, NEW u, Within(M, L)
    PROVE  /\ Pending(u, L) => Pending(u, M)
           /\ \A r : Absent(L, r) => Absent(M, r)
  <1>1. ASSUME Pending(u, L), NEW x \in Places, NEW i \in 1..Len(M[x])
        PROVE  M[x][i] =< u.nreq /\ u.heard[M[x][i]] = <<>>
    <2>1. PICK y \in Places : \E j \in 1..Len(L[y]) : M[x][i] = L[y][j]
      BY DEF Within
    <2>2. PICK j \in 1..Len(L[y]) : M[x][i] = L[y][j]
      BY <2>1
    <2>3. L[y][j] =< u.nreq /\ u.heard[L[y][j]] = <<>>
      BY <1>1 DEF Pending
    <2> QED BY ONLY <2>2, <2>3
  <1>2. ASSUME NEW r, Absent(L, r), NEW x \in Places, NEW i \in 1..Len(M[x])
        PROVE  M[x][i] # r
    BY <1>2 DEF Within, Absent
  <1> QED BY <1>1, <1>2 DEF Pending, Absent

\* A lane or several are emptied.
LEMMA EmptiedLanes ==
    ASSUME NEW L, NEW M, Distinct(L), \A x \in Places : M[x] = L[x] \/ M[x] = <<>>
    PROVE  Distinct(M) /\ Within(M, L)
  <1>1. \A x \in Places : \A i \in 1..Len(M[x]) : i \in 1..Len(L[x]) /\ M[x][i] = L[x][i]
    <2>1. ASSUME NEW x \in Places, NEW i \in 1..Len(M[x])
          PROVE  i \in 1..Len(L[x]) /\ M[x][i] = L[x][i]
      <3>1. CASE M[x] = <<>>
        BY <3>1
      <3>2. CASE M[x] = L[x]
        BY <3>2
      <3> QED BY <3>1, <3>2
    <2> QED BY <2>1
  <1> QED BY ONLY <1>1, Distinct(L) DEF Distinct, Within

\* The first reply is taken.
LEMMA TakenLanes ==
    ASSUME NEW L \in [Places -> Seq(Requests)], NEW M, Distinct(L),
           L[0] # <<>>, M[0] = Tail(L[0]), \A x \in Places : x # 0 => M[x] = L[x]
    PROVE  Distinct(M) /\ Within(M, L) /\ Absent(M, Head(L[0]))
  <1> USE ConstantFacts
  <1>0. 0 \in Places
    BY DEF Places
  <1>1. /\ Len(L[0]) \in Nat /\ Len(L[0]) > 0 /\ Head(L[0]) = L[0][1] /\ Len(M[0]) = Len(L[0]) - 1
        /\ \A i \in 1..(Len(L[0]) - 1) : M[0][i] = L[0][i + 1]
    BY <1>0, TailFacts
  <1>2. ASSUME NEW x \in Places, NEW i \in 1..Len(M[x])
        PROVE  \E j \in 1..Len(L[x]) : /\ M[x][i] = L[x][j]
                                       /\ x = 0 => j = i + 1
                                       /\ x # 0 => j = i
    <2>1. CASE x = 0
      <3>1. i \in 1..(Len(L[0]) - 1) /\ i + 1 \in 1..Len(L[0])
        BY <1>1, <2>1
      <3>2. M[0][i] = L[0][i + 1]
        BY <1>1, <3>1
      <3> QED BY <2>1, <3>1, <3>2
    <2>2. CASE x # 0
      BY <2>2
    <2> QED BY <2>1, <2>2
  <1>3. Within(M, L)
    BY ONLY <1>2 DEF Within
  <1>4. ASSUME NEW x \in Places, NEW y \in Places, NEW i \in 1..Len(M[x]), NEW j \in 1..Len(M[y]),
               M[x][i] = M[y][j]
        PROVE  x = y /\ i = j
    <2>1. PICK a \in 1..Len(L[x]) : M[x][i] = L[x][a] /\ (x = 0 => a = i + 1) /\ (x # 0 => a = i)
      BY <1>2
    <2>2. PICK b \in 1..Len(L[y]) : M[y][j] = L[y][b] /\ (y = 0 => b = j + 1) /\ (y # 0 => b = j)
      BY <1>2
    <2>3. L[x][a] = L[y][b]
      BY ONLY <1>4, <2>1, <2>2
    <2>4. x = y /\ a = b
      BY ONLY <2>3, Distinct(L), x \in Places, y \in Places, a \in 1..Len(L[x]), b \in 1..Len(L[y])
      DEF Distinct
    <2>5. i \in Int /\ j \in Int
      OBVIOUS
    <2> QED BY ONLY <2>1, <2>2, <2>4, <2>5
  <1>5. ASSUME NEW x \in Places, NEW i \in 1..Len(M[x]) PROVE M[x][i] # L[0][1]
    <2>1. PICK a \in 1..Len(L[x]) : M[x][i] = L[x][a] /\ (x = 0 => a = i + 1) /\ (x # 0 => a = i)
      BY <1>2
    <2>2. 1 \in 1..Len(L[0]) /\ i \in Int /\ i > 0
      BY <1>1
    <2>3. ~ (x = 0 /\ a = 1)
      BY ONLY <2>1, <2>2
    <2> QED BY ONLY <1>0, <2>1, <2>2, <2>3, Distinct(L) DEF Distinct
  <1> QED BY <1>1, <1>3, <1>4, <1>5 DEF Distinct, Absent

\* A request is sent.
SentOver(M, L, p, r) == M[p] = Append(L[p], r) /\ \A x \in Places : x # p => M[x] = L[x]

WithinOr(M, L, r) ==
    \A x \in Places : \A i \in 1..Len(M[x]) :
        M[x][i] = r \/ \E j \in 1..Len(L[x]) : M[x][i] = L[x][j]

LEMMA SentLanes ==
    ASSUME NEW L \in [Places -> Seq(Requests)], NEW M, Distinct(L), NEW p \in Places,
           NEW r \in Requests, Absent(L, r), SentOver(M, L, p, r)
    PROVE  Distinct(M) /\ WithinOr(M, L, r)
  <1> SUFFICES ASSUME M[p] = Append(L[p], r), \A x \in Places : x # p => M[x] = L[x]
               PROVE  /\ Distinct(M)
                      /\ \A x \in Places : \A i \in 1..Len(M[x]) :
                            M[x][i] = r \/ \E j \in 1..Len(L[x]) : M[x][i] = L[x][j]
    BY DEF SentOver, WithinOr
  <1>1. /\ Len(L[p]) \in Nat /\ Len(M[p]) = Len(L[p]) + 1
        /\ \A i \in 1..Len(L[p]) : M[p][i] = L[p][i]
        /\ M[p][Len(L[p]) + 1] = r
    BY AppendFacts
  <1>2. ASSUME NEW x \in Places, NEW i \in 1..Len(M[x])
        PROVE  \/ x = p /\ i = Len(L[p]) + 1 /\ M[x][i] = r
               \/ i \in 1..Len(L[x]) /\ M[x][i] = L[x][i]
    <2>1. CASE x = p
      BY ONLY <1>1, <2>1, i \in 1..Len(M[x])
    <2>2. CASE x # p
      BY <2>2
    <2> QED BY <2>1, <2>2
  <1>3. ASSUME NEW x \in Places, NEW y \in Places, NEW i \in 1..Len(M[x]), NEW j \in 1..Len(M[y]),
               M[x][i] = M[y][j]
        PROVE  x = y /\ i = j
    <2>1. \/ x = p /\ i = Len(L[p]) + 1 /\ M[x][i] = r
          \/ i \in 1..Len(L[x]) /\ M[x][i] = L[x][i]
      BY <1>2
    <2>2. \/ y = p /\ j = Len(L[p]) + 1 /\ M[y][j] = r
          \/ j \in 1..Len(L[y]) /\ M[y][j] = L[y][j]
      BY <1>2
    <2>3. \A a \in Places : \A n \in 1..Len(L[a]) : L[a][n] # r
      BY DEF Absent
    <2>4. i \in 1..Len(L[x]) /\ j \in 1..Len(L[y]) /\ L[x][i] = L[y][j] => x = y /\ i = j
      BY ONLY Distinct(L), x \in Places, y \in Places DEF Distinct
    <2> QED BY ONLY <1>3, <2>1, <2>2, <2>3, <2>4
  <1> QED BY <1>2, <1>3 DEF Distinct

\* Replies are read: the first n of a lane.
LEMMA ReadLanes ==
    ASSUME NEW L \in [Places -> Seq(Requests)], NEW M, Distinct(L), L[0] = <<>>,
           NEW p \in Places, p # 0, NEW n \in 0..Len(L[p]),
           M[0] = SubSeq(L[p], 1, n), M[p] = SubSeq(L[p], n + 1, Len(L[p])),
           \A x \in Places : x # 0 /\ x # p => M[x] = L[x]
    PROVE  Distinct(M) /\ Within(M, L)
  <1> DEFINE At(x, i, a, b) ==
               /\ M[x][i] = L[a][b]
               /\ x = 0 => a = p /\ b = i /\ i =< n
               /\ x = p => a = p /\ b = n + i
               /\ x # 0 /\ x # p => a = x /\ b = i
  <1>0. Len(L[p]) \in Nat /\ n \in Nat /\ L[p] \in Seq(Requests)
    OBVIOUS
  <1>1. /\ Len(M[0]) = n /\ \A i \in 1..n : M[0][i] = L[p][i]
        /\ Len(M[p]) = Len(L[p]) - n /\ \A i \in 1..(Len(L[p]) - n) : M[p][i] = L[p][n + i]
    BY <1>0, CutFacts
  <1>2. ASSUME NEW x \in Places, NEW i \in 1..Len(M[x])
        PROVE  \E a \in Places : \E b \in 1..Len(L[a]) : At(x, i, a, b)
    <2>1. CASE x = 0
      <3>1. i \in 1..n /\ i \in 1..Len(L[p])
        BY ONLY <1>0, <1>1, <2>1, i \in 1..Len(M[x]), n \in 0..Len(L[p])
      <3>2. M[x][i] = L[p][i] /\ i =< n
        BY ONLY <1>0, <1>1, <2>1, <3>1
      <3>3. At(x, i, p, i)
        BY ONLY <2>1, <3>2, p # 0
      <3> QED BY ONLY <3>1, <3>3, p \in Places
    <2>2. CASE x = p
      <3>1. i \in 1..(Len(L[p]) - n) /\ n + i \in 1..Len(L[p])
        BY ONLY <1>0, <1>1, <2>2, i \in 1..Len(M[x]), n \in 0..Len(L[p])
      <3>2. M[x][i] = L[p][n + i]
        BY ONLY <1>0, <1>1, <2>2, <3>1
      <3>3. At(x, i, p, n + i)
        BY ONLY <2>2, <3>2, p # 0
      <3> QED BY ONLY <3>1, <3>3, p \in Places
    <2>3. CASE x # 0 /\ x # p
      BY <2>3
    <2> QED BY <2>1, <2>2, <2>3
  <1>3. Within(M, L)
    BY ONLY <1>2 DEF Within
  <1>4. ASSUME NEW x \in Places, NEW y \in Places, NEW i \in 1..Len(M[x]), NEW j \in 1..Len(M[y]),
               M[x][i] = M[y][j]
        PROVE  x = y /\ i = j
    <2>1. PICK a \in Places : \E b \in 1..Len(L[a]) : At(x, i, a, b)
      BY <1>2
    <2>2. PICK b \in 1..Len(L[a]) : At(x, i, a, b)
      BY <2>1
    <2>3. PICK c \in Places : \E d \in 1..Len(L[c]) : At(y, j, c, d)
      BY <1>2
    <2>4. PICK d \in 1..Len(L[c]) : At(y, j, c, d)
      BY <2>3
    <2>5. L[a][b] = L[c][d]
      BY ONLY <1>4, <2>2, <2>4
    <2>6. a = c /\ b = d
      BY ONLY <2>5, Distinct(L), a \in Places, c \in Places, b \in 1..Len(L[a]), d \in 1..Len(L[c])
      DEF Distinct
    <2>7. i \in Int /\ j \in Int /\ i > 0 /\ j > 0 /\ n \in Int
      BY <1>0
    <2> QED BY ONLY <2>2, <2>4, <2>6, <2>7, p # 0
  <1> QED BY <1>3, <1>4 DEF Distinct

\* A request becomes a reply.
LEMMA AnsweredLanes ==
    ASSUME NEW L \in [Places -> Seq(Requests)], NEW M, Distinct(L),
           NEW p \in Places, NEW q \in Places, p # q, NEW n \in 1..Len(L[p]),
           M[p] = RemoveAt(L[p], n), M[q] = Append(L[q], L[p][n]),
           \A x \in Places : x # p /\ x # q => M[x] = L[x]
    PROVE  Distinct(M) /\ Within(M, L)
  <1> DEFINE At(x, i, a, b) ==
               /\ M[x][i] = L[a][b]
               /\ x = p => a = p /\ ((i < n /\ b = i) \/ (i >= n /\ b = i + 1))
               /\ x = q => \/ a = q /\ b = i
                           \/ a = p /\ b = n /\ i = Len(L[q]) + 1
               /\ x # p /\ x # q => a = x /\ b = i
  <1>0. Len(L[p]) \in Nat /\ n \in Nat /\ L[p] \in Seq(Requests) /\ L[q] \in Seq(Requests)
        /\ Len(L[q]) \in Nat /\ L[p][n] \in Requests
    OBVIOUS
  <1>1. /\ Len(M[p]) = Len(L[p]) - 1 /\ \A i \in 1..(n - 1) : M[p][i] = L[p][i]
        /\ \A i \in n..(Len(L[p]) - 1) : M[p][i] = L[p][i + 1]
    <2>1. Without(M[p], L[p], n)
      BY DEF Without
    <2>2. Removed(M[p], L[p], n)
      BY ONLY <1>0, <2>1, n \in 1..Len(L[p]), RemoveFacts
    <2> QED BY ONLY <2>2 DEF Removed
  <1>2. /\ Len(M[q]) = Len(L[q]) + 1 /\ \A i \in 1..Len(L[q]) : M[q][i] = L[q][i]
        /\ M[q][Len(L[q]) + 1] = L[p][n]
    BY <1>0, AppendFacts
  <1>3. ASSUME NEW x \in Places, NEW i \in 1..Len(M[x])
        PROVE  \E a \in Places : \E b \in 1..Len(L[a]) : At(x, i, a, b)
    <2>1. CASE x = p /\ i < n
      <3>1. i \in 1..(n - 1) /\ i \in 1..Len(L[p]) /\ i \in Int
        BY ONLY <1>0, <1>1, <2>1, i \in 1..Len(M[x]), n \in 1..Len(L[p])
      <3>2. M[x][i] = L[p][i]
        BY ONLY <1>0, <1>1, <2>1, <3>1
      <3>3. At(x, i, p, i)
        BY ONLY <1>0, <2>1, <3>1, <3>2, p # q
      <3> QED BY ONLY <3>1, <3>3, p \in Places
    <2>2. CASE x = p /\ ~ (i < n)
      <3>1. i \in n..(Len(L[p]) - 1) /\ i + 1 \in 1..Len(L[p]) /\ i >= n
        BY ONLY <1>0, <1>1, <2>2, i \in 1..Len(M[x]), n \in 1..Len(L[p])
      <3> QED BY <1>1, <2>2, <3>1
    <2>3. CASE x = q /\ i = Len(L[q]) + 1
      BY <1>2, <2>3, p # q
    <2>4. CASE x = q /\ i # Len(L[q]) + 1
      <3>1. i \in 1..Len(L[q])
        BY ONLY <1>0, <1>2, <2>4, i \in 1..Len(M[x])
      <3> QED BY <1>2, <2>4, <3>1, p # q
    <2>5. CASE x # p /\ x # q
      BY <2>5
    <2> QED BY <2>1, <2>2, <2>3, <2>4, <2>5
  <1>4. Within(M, L)
    BY ONLY <1>3 DEF Within
  <1> HIDE DEF At
  <1>5. ASSUME NEW x \in Places, NEW y \in Places, NEW i \in 1..Len(M[x]), NEW j \in 1..Len(M[y]),
               M[x][i] = M[y][j]
        PROVE  x = y /\ i = j
    <2>1. PICK a \in Places : \E b \in 1..Len(L[a]) : At(x, i, a, b)
      BY ONLY <1>3, x \in Places, i \in 1..Len(M[x]), Zenon
    <2>2. PICK b \in 1..Len(L[a]) : At(x, i, a, b)
      BY <2>1
    <2>3. PICK c \in Places : \E d \in 1..Len(L[c]) : At(y, j, c, d)
      BY ONLY <1>3, y \in Places, j \in 1..Len(M[y]), Zenon
    <2>4. PICK d \in 1..Len(L[c]) : At(y, j, c, d)
      BY <2>3
    <2>5. L[a][b] = L[c][d]
      BY ONLY <1>5, <2>2, <2>4 DEF At
    <2>6. a = c /\ b = d
      BY ONLY <2>5, Distinct(L), a \in Places, c \in Places, b \in 1..Len(L[a]), d \in 1..Len(L[c])
      DEF Distinct
    <2>7. i \in Int /\ j \in Int /\ i > 0 /\ j > 0 /\ n \in Int /\ Len(L[q]) \in Int
          /\ (x = q => i =< Len(L[q]) + 1) /\ (y = q => j =< Len(L[q]) + 1)
          /\ b \in 1..Len(L[a]) /\ d \in 1..Len(L[c])
      BY <1>0, <1>2
    <2> QED BY ONLY <2>2, <2>4, <2>6, <2>7, p # q DEF At
  <1> QED BY <1>4, <1>5 DEF Distinct

-----------------------------------------------------------------------------
(* What the operations do to the tables.                                   *)

\* Everything but the requests that were made is as before.
LEMMA RequestIs ==
    ASSUME Plain, NEW u \in Tables, u.nreq < MaxReq, NEW v, v = Request(u)
    PROVE  /\ v \in Tables /\ v.nreq = u.nreq + 1
           /\ v.conn = u.conn /\ v.peer = u.peer /\ v.up = u.up
           /\ v.todo = u.todo /\ v.inbox = u.inbox /\ v.armed = u.armed /\ v.watched = u.watched
           /\ v.closing = u.closing /\ v.a2s = u.a2s /\ v.queue = u.queue /\ v.map = u.map
           /\ v.heard = u.heard /\ v.exited = u.exited
  <1>1. _get_next_address(u) \in Nat /\ (u.rr + 1) % NAddr \in Nat /\ u.nreq + 1 \in Requests
        /\ u.nreq + 1 \in Nat
    BY ConstantFacts DEF _get_next_address, Tables, Plain
  <1>2. PICK a, b : a = _get_next_address(u) /\ b = (u.rr + 1) % NAddr
    OBVIOUS
  <1>3. v = [u EXCEPT !.nreq = u.nreq + 1, !.rr = b, !.dest = [u.dest EXCEPT ![u.nreq + 1] = a]]
    BY <1>2 DEF Request, Tables
  <1>4. [u.dest EXCEPT ![u.nreq + 1] = a] \in [Requests -> Nat]
    BY <1>1, <1>2 DEF Tables
  <1> QED BY ONLY <1>1, <1>2, <1>3, <1>4, u \in Tables DEF Tables

\* The address of every request.
LEMMA NextAddress == ASSUME Plain, NEW u \in Tables PROVE _get_next_address(u) = 1
  BY DEF _get_next_address, Plain, Tables

\* k is made, and fd is its number and that of the address.
Opened(u, v, fd, k) ==
    /\ u.conn[fd] = NoConn /\ k = Len(u.peer) + 1 /\ v \in Tables
    /\ v.conn = [u.conn EXCEPT ![fd] = k] /\ v.up = u.up \union {k}
    /\ Len(v.peer) = k /\ v.watched = u.watched \union {fd}
    /\ v.armed = IF fd \in u.watched THEN u.armed ELSE u.armed \union {fd}
    /\ v.a2s = [u.a2s EXCEPT ![1] = fd]
    /\ v.todo = u.todo /\ v.inbox = u.inbox /\ v.closing = u.closing
    /\ v.queue = u.queue /\ v.map = u.map /\ v.nreq = u.nreq
    /\ v.heard = u.heard /\ v.exited = u.exited

LEMMA OpenIs ==
    ASSUME Plain, NEW u \in Tables, Free(u) # {}, Len(u.peer) < MaxConn, NEW v, v = open(u, 1)
    PROVE  \E fd \in Fds, k \in Conns : Opened(u, v, fd, k)
  <1> USE ConstantFacts
  <1>1. PICK fd, k : fd = Min(Free(u)) /\ k = Len(u.peer) + 1
    OBVIOUS
  <1>2. fd \in Fds /\ u.conn[fd] = NoConn
    <2>1. Free(u) \subseteq Nat /\ Free(u) \subseteq Fds
      BY DEF Free
    <2>2. fd \in Free(u)
      BY ONLY <1>1, <2>1, LeastFacts, Free(u) # {}
    <2> QED BY <2>2 DEF Free
  <1>3. u.peer \in Seq(Addrs) /\ 1 \in Addrs /\ Len(u.peer) \in Nat
    BY DEF Tables
  <1>4. k \in Conns /\ Append(u.peer, 1) \in Seq(Addrs) /\ Len(Append(u.peer, 1)) = k
    BY <1>1, <1>3, AppendFacts
  <1>5. PICK c, p, b, a : /\ c = [u.conn EXCEPT ![fd] = k] /\ p = Append(u.peer, 1)
                          /\ b = (IF fd \in u.watched THEN u.armed ELSE u.armed \union {fd})
                          /\ a = [u.a2s EXCEPT ![1] = fd]
    OBVIOUS
  <1>6. v = [u EXCEPT !.conn = c, !.peer = p, !.up = u.up \union {k},
                      !.watched = u.watched \union {fd}, !.armed = b, !.a2s = a]
    BY <1>1, <1>5, v = open(u, 1) DEF open, watch, Tables
  <1>7. c \in [Fds -> Nat] /\ p \in Seq(Addrs) /\ b \subseteq Fds /\ a \in [Addrs -> Fds \union {NoFd}]
        /\ u.up \union {k} \subseteq Conns /\ u.watched \union {fd} \subseteq Fds
    <2>1. /\ u.conn \in [Fds -> Nat] /\ u.armed \subseteq Fds /\ u.a2s \in [Addrs -> Fds \union {NoFd}]
          /\ u.up \subseteq Conns /\ u.watched \subseteq Fds
      BY ONLY u \in Tables DEF Tables
    <2>2. k \in Nat
      BY <1>1, <1>3
    <2>3. c \in [Fds -> Nat]
      BY ONLY <1>2, <1>5, <2>1, <2>2
    <2>4. a \in [Addrs -> Fds \union {NoFd}]
      BY ONLY <1>2, <1>3, <1>5, <2>1
    <2> QED BY ONLY <1>2, <1>4, <1>5, <2>1, <2>3, <2>4
  <1>8. v \in Tables
    BY ONLY <1>6, <1>7, u \in Tables DEF Tables
  <1>9. /\ v.conn = c /\ v.peer = p /\ v.up = u.up \union {k} /\ v.watched = u.watched \union {fd}
        /\ v.armed = b /\ v.a2s = a
        /\ v.todo = u.todo /\ v.inbox = u.inbox /\ v.closing = u.closing
        /\ v.queue = u.queue /\ v.map = u.map /\ v.nreq = u.nreq
        /\ v.heard = u.heard /\ v.exited = u.exited
    BY ONLY <1>6, u \in Tables DEF Tables
  <1>10. Opened(u, v, fd, k)
    BY ONLY <1>1, <1>2, <1>4, <1>5, <1>8, <1>9 DEF Opened
  <1> QED BY ONLY <1>2, <1>4, <1>10

\* What a callback of r kept for the number fd changes.
Keeps(u, v, r, fd, callback) ==
    /\ v.queue = IF callback /\ proto = "Redis" THEN [u.queue EXCEPT ![fd] = Append(u.queue[fd], r)]
                 ELSE u.queue
    /\ v.map = IF callback /\ proto # "Redis" THEN [u.map EXCEPT ![fd] = u.map[fd] \union {r}]
               ELSE u.map

SameButWires(u, v) ==
    /\ v \in Tables
    /\ v.conn = u.conn /\ v.peer = u.peer /\ v.up = u.up /\ v.inbox = u.inbox /\ v.armed = u.armed
    /\ v.watched = u.watched /\ v.closing = u.closing /\ v.a2s = u.a2s /\ v.nreq = u.nreq
    /\ v.heard = u.heard /\ v.exited = u.exited

\* A write that the server is there for, or not, and the callback.
Sent(u, v, r, fd, callback) ==
    /\ SameButWires(u, v) /\ Keeps(u, v, r, fd, callback)
    /\ v.todo = [u.todo EXCEPT ![u.conn[fd]] = Append(u.todo[u.conn[fd]], r)]
Lost(u, v, r, fd, callback) ==
    /\ SameButWires(u, v) /\ Keeps(u, v, r, fd, callback) /\ v.todo = u.todo

LEMMA LostIs ==
    ASSUME NEW u \in Tables, NEW r \in Requests, NEW fd \in Fds, NEW callback \in BOOLEAN,
           NEW v, v = IF callback THEN add_callback(u, r, fd) ELSE u
    PROVE  Lost(u, v, r, fd, callback)
  <1>1. /\ u.queue \in [Fds -> Seq(Requests)] /\ u.map \in [Fds -> SUBSET Requests]
    BY DEF Tables
  <1>2. PICK q, m : q = [u.queue EXCEPT ![fd] = Append(u.queue[fd], r)]
                    /\ m = [u.map EXCEPT ![fd] = u.map[fd] \union {r}]
    OBVIOUS
  <1>3. q \in [Fds -> Seq(Requests)]
    <2>1. Append(u.queue[fd], r) \in Seq(Requests)
      BY <1>1, AppendFacts
    <2> QED BY ONLY <1>1, <1>2, <2>1, fd \in Fds
  <1>4. m \in [Fds -> SUBSET Requests]
    BY ONLY <1>1, <1>2, fd \in Fds, r \in Requests
  <1>5. CASE ~ callback
    BY ONLY <1>5, v = IF callback THEN add_callback(u, r, fd) ELSE u, u \in Tables
    DEF Lost, SameButWires, Keeps
  <1>6. CASE callback /\ proto = "Redis"
    <2>1. v = [u EXCEPT !.queue = q]
      BY <1>2, <1>6 DEF add_callback, Tables
    <2>2. v \in Tables
      BY ONLY <1>3, <2>1, u \in Tables DEF Tables
    <2> QED BY ONLY <1>2, <1>6, <2>1, <2>2, u \in Tables DEF Lost, SameButWires, Keeps, Tables
  <1>7. CASE callback /\ proto # "Redis"
    <2>1. v = [u EXCEPT !.map = m]
      BY <1>2, <1>7 DEF add_callback, Tables
    <2>2. v \in Tables
      BY ONLY <1>4, <2>1, u \in Tables DEF Tables
    <2> QED BY ONLY <1>2, <1>7, <2>1, <2>2, u \in Tables DEF Lost, SameButWires, Keeps, Tables
  <1> QED BY <1>5, <1>6, <1>7

LEMMA SentIs ==
    ASSUME NEW u \in Tables, NEW r \in Requests, NEW fd \in Fds, NEW callback \in BOOLEAN,
           u.conn[fd] \in Conns, NEW x, x = write(u, fd, r, "ok"),
           NEW v, v = IF callback THEN add_callback(x, r, fd) ELSE x
    PROVE  Sent(u, v, r, fd, callback)
  <1>1. PICK k : k = u.conn[fd]
    OBVIOUS
  <1>2. u.todo \in [Conns -> Seq(Requests)] /\ k \in Conns
    BY <1>1 DEF Tables
  <1>3. PICK d : d = [u.todo EXCEPT ![k] = Append(u.todo[k], r)]
    OBVIOUS
  <1>4. d \in [Conns -> Seq(Requests)]
    <2>1. Append(u.todo[k], r) \in Seq(Requests)
      BY <1>2, AppendFacts
    <2> QED BY ONLY <1>2, <1>3, <2>1
  <1>5. x = [u EXCEPT !.todo = d]
    BY <1>1, <1>3, x = write(u, fd, r, "ok") DEF write, Tables
  <1>6. x \in Tables /\ x.todo = d /\ SameButWires(u, x) /\ x.queue = u.queue /\ x.map = u.map
    <2>1. x \in Tables
      BY ONLY <1>4, <1>5, u \in Tables DEF Tables
    <2> QED BY ONLY <1>5, <2>1, u \in Tables DEF Tables, SameButWires
  <1>7. Lost(x, v, r, fd, callback)
    BY <1>6, LostIs
  <1> QED BY ONLY <1>1, <1>3, <1>6, <1>7 DEF Lost, Sent, SameButWires, Keeps

\* A number is unwatched and will be closed.
Closed(u, v, fd) ==
    /\ v \in Tables
    /\ v.watched = u.watched \ {fd} /\ v.armed = u.armed \ {fd} /\ v.closing = u.closing \union {fd}
    /\ v.queue = [u.queue EXCEPT ![fd] = <<>>] /\ v.map = [u.map EXCEPT ![fd] = {}]
    /\ v.conn = u.conn /\ v.peer = u.peer /\ v.up = u.up /\ v.todo = u.todo /\ v.inbox = u.inbox
    /\ v.a2s = u.a2s /\ v.nreq = u.nreq /\ v.heard = u.heard /\ v.exited = u.exited

LEMMA ClosedIs ==
    ASSUME NEW u \in Tables, NEW fd \in Fds, fd \in u.watched, fd \in u.armed,
           NEW force \in BOOLEAN, NEW v, v = close(u, fd, force)
    PROVE  Closed(u, v, fd)
  <1>1. PICK q, m, a, b, c :
            /\ q = [u.queue EXCEPT ![fd] = <<>>] /\ m = [u.map EXCEPT ![fd] = {}]
            /\ a = u.watched \ {fd} /\ b = u.armed \ {fd} /\ c = u.closing \union {fd}
    OBVIOUS
  <1>2. v = [u EXCEPT !.watched = a, !.armed = b, !.closing = c, !.queue = q, !.map = m]
    BY <1>1, v = close(u, fd, force) DEF close, on_close, Tables
  <1>3. q \in [Fds -> Seq(Requests)]
    <2>1. u.queue \in [Fds -> Seq(Requests)] /\ <<>> \in Seq(Requests)
      BY DEF Tables
    <2> QED BY ONLY <1>1, <2>1, fd \in Fds
  <1>4. m \in [Fds -> SUBSET Requests]
    <2>1. u.map \in [Fds -> SUBSET Requests]
      BY DEF Tables
    <2> QED BY ONLY <1>1, <2>1, fd \in Fds
  <1>5. a \subseteq Fds /\ b \subseteq Fds /\ c \subseteq Fds
    BY <1>1 DEF Tables
  <1>6. v \in Tables
    BY ONLY <1>2, <1>3, <1>4, <1>5, u \in Tables DEF Tables
  <1> QED BY ONLY <1>1, <1>2, <1>6, u \in Tables DEF Tables, Closed

\* The address has no number any more, and what was on the way is gone.
Dropped(u, v, fd) ==
    /\ v \in Tables /\ v.a2s = [u.a2s EXCEPT ![1] = NoFd] /\ v.closing = u.closing \union {fd}
    /\ \A k \in Conns : v.todo[k] = u.todo[k] \/ v.todo[k] = <<>>
    /\ \A k \in Conns : v.inbox[k] = u.inbox[k] \/ v.inbox[k] = <<>>
    /\ v.watched = u.watched /\ v.armed = u.armed /\ v.queue = u.queue /\ v.map = u.map
    /\ v.conn = u.conn /\ v.peer = u.peer /\ v.up = u.up
    /\ v.nreq = u.nreq /\ v.heard = u.heard /\ v.exited = u.exited

LEMMA DroppedIs ==
    ASSUME Plain, NEW u \in Tables, NEW fd \in Fds, u.a2s[1] = fd, fd \notin u.watched,
           NEW v, v = close_addr(u, 1)
    PROVE  Dropped(u, v, fd)
  <1> USE ConstantFacts
  <1>1. PICK k, d, i : /\ k = u.conn[fd]
                       /\ d = (IF k = NoConn THEN u.todo ELSE [u.todo EXCEPT ![k] = <<>>])
                       /\ i = (IF k = NoConn THEN u.inbox ELSE [u.inbox EXCEPT ![k] = <<>>])
    OBVIOUS
  <1>2. PICK a, c : a = [u.a2s EXCEPT ![1] = NoFd] /\ c = u.closing \union {fd}
    OBVIOUS
  <1>3. fd # NoFd
    OBVIOUS
  <1>4. PICK x : x = IF k = NoConn THEN u ELSE [u EXCEPT !.todo[k] = <<>>, !.inbox[k] = <<>>]
    OBVIOUS
  <1>5. x = [u EXCEPT !.todo = d, !.inbox = i]
    <2>1. CASE k = NoConn
      BY ONLY <1>1, <1>4, <2>1, u \in Tables DEF Tables
    <2>2. CASE k # NoConn
      BY ONLY <1>1, <1>4, <2>2, u \in Tables DEF Tables
    <2> QED BY <2>1, <2>2
  <1>6. x.watched = u.watched /\ x.closing = u.closing /\ x.a2s = u.a2s
    BY ONLY <1>5, u \in Tables DEF Tables
  <1>7. close(x, fd, TRUE) = [x EXCEPT !.closing = c]
    BY ONLY <1>2, <1>5, <1>6, fd \notin u.watched, u \in Tables DEF close, Tables
  <1>8. v = [close(x, fd, TRUE) EXCEPT !.a2s[1] = NoFd]
    BY ONLY <1>1, <1>3, <1>4, u.a2s[1] = fd, v = close_addr(u, 1) DEF close_addr
  <1>9. v = [u EXCEPT !.todo = d, !.inbox = i, !.closing = c, !.a2s = a]
    BY ONLY <1>2, <1>5, <1>6, <1>7, <1>8, u \in Tables DEF Tables
  <1>10. /\ u.todo \in [Conns -> Seq(Requests)] /\ u.inbox \in [Conns -> Seq(Requests)]
         /\ u.a2s \in [Addrs -> Fds \union {NoFd}] /\ u.closing \subseteq Fds /\ <<>> \in Seq(Requests)
    BY DEF Tables
  <1>11. d \in [Conns -> Seq(Requests)] /\ \A j \in Conns : d[j] = u.todo[j] \/ d[j] = <<>>
    BY ONLY <1>1, <1>10
  <1>12. i \in [Conns -> Seq(Requests)] /\ \A j \in Conns : i[j] = u.inbox[j] \/ i[j] = <<>>
    BY ONLY <1>1, <1>10
  <1>13. a \in [Addrs -> Fds \union {NoFd}] /\ c \subseteq Fds
    BY ONLY <1>2, <1>10, fd \in Fds
  <1>14. v \in Tables
    BY ONLY <1>9, <1>11, <1>12, <1>13, u \in Tables DEF Tables
  <1>15. /\ v.todo = d /\ v.inbox = i /\ v.closing = c /\ v.a2s = a
         /\ v.watched = u.watched /\ v.armed = u.armed /\ v.queue = u.queue /\ v.map = u.map
         /\ v.conn = u.conn /\ v.peer = u.peer /\ v.up = u.up
         /\ v.nreq = u.nreq /\ v.heard = u.heard /\ v.exited = u.exited
    BY ONLY <1>9, u \in Tables DEF Tables
  <1> QED BY ONLY <1>2, <1>11, <1>12, <1>14, <1>15 DEF Dropped

\* The process ends.
Ended(u, v) ==
    /\ v \in Tables /\ v.exited = TRUE /\ v.a2s = [u.a2s EXCEPT ![1] = NoFd]
    /\ v.watched = u.watched /\ v.armed = u.armed /\ v.queue = u.queue /\ v.map = u.map
    /\ v.conn = u.conn /\ v.peer = u.peer /\ v.up = u.up /\ v.todo = u.todo /\ v.inbox = u.inbox
    /\ v.nreq = u.nreq /\ v.heard = u.heard

LEMMA EndedIs ==
    ASSUME Plain, NEW u \in Tables, NEW fd \in Fds, u.a2s[1] = fd, fd \in u.watched, fd \notin u.armed,
           u.conn[fd] = NoConn, NEW v, v = close_addr(u, 1)
    PROVE  Ended(u, v)
  <1> USE ConstantFacts
  <1>1. PICK a : a = [u.a2s EXCEPT ![1] = NoFd]
    OBVIOUS
  <1>2. fd # NoFd
    OBVIOUS
  <1>3. close(u, fd, TRUE) = [u EXCEPT !.exited = TRUE]
    BY ONLY fd \in u.watched, fd \notin u.armed DEF close
  <1>4. v = [close(u, fd, TRUE) EXCEPT !.a2s[1] = NoFd]
    BY ONLY <1>2, u.a2s[1] = fd, u.conn[fd] = NoConn, v = close_addr(u, 1) DEF close_addr
  <1>5. v = [u EXCEPT !.exited = TRUE, !.a2s = a]
    BY ONLY <1>1, <1>3, <1>4, u \in Tables DEF Tables
  <1>6. a \in [Addrs -> Fds \union {NoFd}]
    <2>1. u.a2s \in [Addrs -> Fds \union {NoFd}]
      BY DEF Tables
    <2> QED BY ONLY <1>1, <2>1
  <1>7. v \in Tables
    BY ONLY <1>5, <1>6, u \in Tables DEF Tables
  <1> QED BY ONLY <1>1, <1>5, <1>7, u \in Tables DEF Ended, Tables

-----------------------------------------------------------------------------
(* What the operations keep.                                               *)

LEMMA TableTypes ==
    ASSUME NEW u \in Tables
    PROVE  /\ u.conn \in [Fds -> Nat] /\ u.peer \in Seq(Addrs) /\ Len(u.peer) \in Nat
           /\ u.up \subseteq Conns
           /\ u.todo \in [Conns -> Seq(Requests)] /\ u.inbox \in [Conns -> Seq(Requests)]
           /\ u.armed \subseteq Fds /\ u.watched \subseteq Fds /\ u.closing \subseteq Fds
           /\ u.a2s \in [Addrs -> Fds \union {NoFd}] /\ u.queue \in [Fds -> Seq(Requests)]
           /\ u.map \in [Fds -> SUBSET Requests] /\ u.nreq \in Nat
           /\ u.heard \in [Requests -> Seq(Requests)] /\ u.exited \in BOOLEAN
  BY DEF Tables

\* The lanes of tables that have the same.
LEMMA SameLanes ==
    ASSUME NEW u, NEW v, NEW g, v.todo = u.todo, v.inbox = u.inbox
    PROVE  Lanes(v, g) = Lanes(u, g)
  BY DEF Lanes

\* A request that has just been made.
Fresh(u, g, r) ==
    r \in Requests /\ r =< u.nreq /\ u.heard[r] = <<>> /\ Absent(Lanes(u, g), r)

LEMMA RequestKeeps ==
    ASSUME Plain, NEW u, NEW f, NEW g, NEW b, NEW x, Good(u, f, g, b, x), u.nreq < MaxReq,
           NEW v, v = Request(u)
    PROVE  Good(v, f, g, b, x) /\ Fresh(v, g, v.nreq) /\ v.nreq = u.nreq + 1
  <1> USE ConstantFacts
  <1>1. u \in Tables /\ g \in Seq(Requests)
    BY DEF Good
  <1>2. /\ v \in Tables /\ v.nreq = u.nreq + 1
        /\ v.conn = u.conn /\ v.peer = u.peer /\ v.up = u.up
        /\ v.todo = u.todo /\ v.inbox = u.inbox /\ v.armed = u.armed /\ v.watched = u.watched
        /\ v.closing = u.closing /\ v.a2s = u.a2s /\ v.queue = u.queue /\ v.map = u.map
        /\ v.heard = u.heard /\ v.exited = u.exited
    BY <1>1, RequestIs
  <1>3. PICK L : L = Lanes(u, g)
    OBVIOUS
  <1>4. Lanes(v, g) = L
    BY <1>2, <1>3, SameLanes
  <1>5. L \in [Places -> Seq(Requests)] /\ u.nreq \in Nat
    BY <1>1, <1>3, LaneFacts, TableTypes DEF LanesOf
  <1>6. ASSUME NEW y \in Places, NEW i \in 1..Len(L[y])
        PROVE  L[y][i] \in Requests /\ L[y][i] =< u.nreq /\ u.heard[L[y][i]] = <<>>
    BY <1>3, <1>5 DEF Good, WiresFit, Pending
  <1>7. \A y \in Places : \A i \in 1..Len(L[y]) :
            L[y][i] =< v.nreq /\ L[y][i] # v.nreq /\ v.heard[L[y][i]] = <<>>
    BY <1>2, <1>5, <1>6
  <1>8. WiresFit(v, g)
    BY <1>2, <1>3, <1>4, <1>7 DEF Good, WiresFit, Pending
  <1>9. HeardFits(v)
    <2>1. ASSUME NEW r \in Requests
          PROVE  v.heard[r] \in {<<>>, <<r>>} /\ (r > v.nreq => v.heard[r] = <<>>)
      <3>1. u.heard[r] \in {<<>>, <<r>>} /\ (r > u.nreq => u.heard[r] = <<>>)
        BY DEF Good, HeardFits
      <3>2. r \in Nat /\ (r > v.nreq => r > u.nreq)
        BY ONLY <1>2, <1>5, ConstantFacts, r \in Requests
      <3> QED BY ONLY <1>2, <3>1, <3>2
    <2> QED BY <2>1 DEF HeardFits
  <1>10. v.nreq \in Requests /\ v.nreq =< MaxReq /\ v.heard[v.nreq] = <<>>
    <2>1. v.nreq \in Requests /\ v.nreq > u.nreq /\ v.nreq =< MaxReq
      BY ONLY <1>2, <1>5, ConstantFacts, u.nreq < MaxReq
    <2>2. v.nreq > u.nreq => u.heard[v.nreq] = <<>>
      BY <2>1 DEF Good, HeardFits
    <2> QED BY ONLY <1>2, <2>1, <2>2
  <1>11. Fresh(v, g, v.nreq)
    <2>1. Absent(L, v.nreq)
      BY ONLY <1>7 DEF Absent
    <2>2. v.nreq =< v.nreq
      BY ONLY <1>10, ConstantFacts
    <2> QED BY ONLY <1>4, <1>10, <2>1, <2>2 DEF Fresh
  <1>12. ConnsFit(v) /\ NumbersFit(v) /\ HeldIsWatched(v, b) /\ CallbacksFit(v, f, g, x) /\ ReadFits(v, f, g, b)
    <2>1. ConnsFit(v) /\ NumbersFit(v)
      BY <1>2 DEF Good, ConnsFit, NumbersFit, TheNumber
    <2>2. HeldIsWatched(v, b) /\ ReadFits(v, f, g, b)
      BY <1>2 DEF Good, HeldIsWatched, ReadFits, TheNumber
    <2>3. CallbacksFit(u, f, g, x)
      BY DEF Good
    <2>4. CallbacksFit(v, f, g, x)
      BY ONLY <1>2, <2>3 DEF CallbacksFit
    <2> QED BY <2>1, <2>2, <2>4
  <1> QED BY <1>2, <1>8, <1>9, <1>10, <1>11, <1>12 DEF Good

LEMMA OpenKeeps ==
    ASSUME Plain, NEW u, NEW f, NEW b, NEW x, Good(u, f, <<>>, b, x),
           TheNumber(u) = NoFd, ~ u.exited, Free(u) # {}, Len(u.peer) < MaxConn,
           NEW v, v = open(u, 1)
    PROVE  /\ Good(v, f, <<>>, b, x) /\ v.heard = u.heard
           /\ TheNumber(v) \in Fds /\ TheNumber(v) \in v.watched /\ v.conn[TheNumber(v)] \in v.up
           /\ \A r : Fresh(u, <<>>, r) => Fresh(v, <<>>, r)
  <1> USE ConstantFacts
  <1>1. u \in Tables
    BY DEF Good
  <1>0. PICK fd \in Fds, k \in Conns : Opened(u, v, fd, k)
    BY ONLY <1>1, OpenIs, Plain, Free(u) # {}, Len(u.peer) < MaxConn, v = open(u, 1)
  <1>2. /\ u.conn[fd] = NoConn /\ k = Len(u.peer) + 1 /\ v \in Tables
        /\ v.conn = [u.conn EXCEPT ![fd] = k] /\ v.up = u.up \union {k}
        /\ Len(v.peer) = k /\ v.watched = u.watched \union {fd}
        /\ v.armed = IF fd \in u.watched THEN u.armed ELSE u.armed \union {fd}
        /\ v.a2s = [u.a2s EXCEPT ![1] = fd]
        /\ v.todo = u.todo /\ v.inbox = u.inbox /\ v.closing = u.closing
        /\ v.queue = u.queue /\ v.map = u.map /\ v.nreq = u.nreq
        /\ v.heard = u.heard /\ v.exited = u.exited
    BY ONLY <1>0 DEF Opened
  <1>3. /\ u.conn \in [Fds -> Nat] /\ Len(u.peer) \in Nat /\ u.up \subseteq Conns
        /\ u.watched \subseteq Fds /\ u.armed \subseteq Fds /\ u.a2s \in [Addrs -> Fds \union {NoFd}]
    BY <1>1, TableTypes
  <1>4. u.watched = {}
    BY <1>3 DEF Good, NumbersFit
  <1>5. v.watched = {fd} /\ v.armed = u.armed \union {fd} /\ TheNumber(v) = fd
    BY <1>2, <1>3, <1>4 DEF TheNumber
  <1>6. /\ v.conn[fd] = k /\ k # NoConn /\ k \notin u.up
        /\ \A e \in Fds : e # fd => v.conn[e] = u.conn[e]
        /\ \A e \in Fds : u.conn[e] =< Len(u.peer) /\ u.conn[e] # k /\ u.conn[e] \in Nat
    BY <1>2, <1>3, SMTT(30) DEF Good, ConnsFit
  <1>7. ConnsFit(v)
    <2>1. Len(v.peer) =< MaxConn /\ v.up \subseteq 1..Len(v.peer)
      BY <1>2, <1>3 DEF Good, ConnsFit
    <2>2. \A e \in Fds : v.conn[e] =< Len(v.peer)
      BY ONLY <1>2, <1>3, <1>6
    <2>3. ASSUME NEW e \in Fds, NEW h \in Fds, v.conn[e] = v.conn[h], v.conn[e] # NoConn PROVE e = h
      <3>1. u.conn[e] = u.conn[h] /\ u.conn[e] # NoConn => e = h
        BY DEF Good, ConnsFit
      <3> QED BY ONLY <1>6, <2>3, <3>1
    <2> QED BY <2>1, <2>2, <2>3 DEF ConnsFit
  <1>8. NumbersFit(v)
    <2>1. \A e \in Fds : u.queue[e] = <<>> /\ u.map[e] = {}
      BY <1>4 DEF Good, NumbersFit
    <2>2. \A e \in u.armed : u.conn[e] # NoConn
      BY DEF Good, NumbersFit
    <2>3. \A e \in v.armed : v.conn[e] # NoConn
      BY ONLY <1>3, <1>5, <1>6, <2>2
    <2> QED BY ONLY <1>2, <1>5, <2>1, <2>3 DEF NumbersFit
  <1>9. HeldIsWatched(v, b) /\ ReadFits(v, f, <<>>, b)
    BY ONLY <1>5 DEF HeldIsWatched, ReadFits
  <1>10. Lanes(v, <<>>) = Lanes(u, <<>>)
    BY ONLY <1>2, SameLanes
  <1>11. WiresFit(v, <<>>)
    <2>1. /\ Distinct(Lanes(u, <<>>)) /\ Pending(u, Lanes(u, <<>>))
          /\ \A j \in Conns : j \notin u.up => u.todo[j] = <<>>
          /\ \A j \in Conns : j > Len(u.peer) => u.inbox[j] = <<>>
      BY DEF Good, WiresFit
    <2>2. Pending(v, Lanes(v, <<>>))
      BY ONLY <1>2, <1>10, <2>1 DEF Pending
    <2>3. \A j \in Conns : j > Len(v.peer) => j > Len(u.peer)
      BY <1>2, <1>3
    <2> QED BY ONLY <1>2, <1>10, <2>1, <2>2, <2>3 DEF WiresFit
  <1>12. u.todo[k] = <<>> /\ u.inbox[k] = <<>> /\ u.queue[fd] = <<>> /\ u.map[fd] = {}
    <2>1. k > Len(u.peer)
      BY <1>2, <1>3
    <2> QED BY <1>2, <1>4, <1>6, <2>1 DEF Good, WiresFit, NumbersFit
  <1>13. CallbacksFit(v, f, <<>>, x)
    <2>1. ASSUME NEW e \in Fds, e \in v.watched, proto = "Redis"
          PROVE  QueueFits(v.queue[e], Handled(f, <<>>, e), v.inbox[v.conn[e]], v.todo[v.conn[e]],
                           v.conn[e] \in v.up)
      <3>1. e = fd /\ Handled(f, <<>>, e) = <<>>
        BY <1>5, <2>1 DEF Handled
      <3>2. QueueFits(<<>>, <<>>, <<>>, <<>>, v.conn[e] \in v.up)
        BY DEF QueueFits
      <3> QED BY ONLY <1>2, <1>6, <1>12, <3>1, <3>2
    <2>2. ASSUME NEW e \in Fds, e \in v.watched
          PROVE  MapFits(v.map[e] \ {x}, Handled(f, <<>>, e), v.inbox[v.conn[e]], v.todo[v.conn[e]])
      <3>1. v.map[e] \ {x} = {}
        BY <1>2, <1>5, <1>12, <2>2
      <3> QED BY ONLY <3>1 DEF MapFits
    <2> QED BY ONLY <2>1, <2>2 DEF CallbacksFit
  <1>14. HeardFits(v) /\ v.nreq =< MaxReq /\ f \in Fds \union {NoFd} /\ <<>> \in Seq(Requests)
    BY <1>2 DEF Good, HeardFits
  <1>15. Good(v, f, <<>>, b, x)
    BY ONLY <1>2, <1>7, <1>8, <1>9, <1>11, <1>13, <1>14 DEF Good
  <1>16. \A r : Fresh(u, <<>>, r) => Fresh(v, <<>>, r)
    BY ONLY <1>2, <1>10 DEF Fresh
  <1> QED BY <1>2, <1>5, <1>6, <1>15, <1>16

LEMMA EndedKeeps ==
    ASSUME Plain, NEW u, NEW f, NEW b, NEW x, Good(u, f, <<>>, b, x), NEW v, Ended(u, v)
    PROVE  Good(v, f, <<>>, FALSE, x) /\ v.heard = u.heard
  <1>1. u \in Tables /\ v \in Tables /\ v.nreq =< MaxReq /\ f \in Fds \union {NoFd} /\ <<>> \in Seq(Requests)
    BY DEF Good, Ended
  <1>2. ConnsFit(v) /\ NumbersFit(v)
    BY DEF Good, Ended, ConnsFit, NumbersFit
  <1>3. HeldIsWatched(v, FALSE) /\ ReadFits(v, f, <<>>, FALSE)
    BY DEF Ended, HeldIsWatched, ReadFits
  <1>4. v.todo = u.todo /\ v.inbox = u.inbox
    BY DEF Ended
  <1>5. Lanes(v, <<>>) = Lanes(u, <<>>)
    BY ONLY <1>4, SameLanes
  <1>6. WiresFit(v, <<>>)
    BY <1>5 DEF Good, Ended, WiresFit, Pending
  <1>7. CallbacksFit(u, f, <<>>, x)
    BY DEF Good
  <1>8. CallbacksFit(v, f, <<>>, x)
    BY ONLY <1>7, Ended(u, v) DEF CallbacksFit, Ended
  <1>9. HeardFits(v)
    BY DEF Good, HeardFits, Ended
  <1> QED BY <1>1, <1>2, <1>3, <1>6, <1>8, <1>9 DEF Good, Ended

LEMMA DroppedKeeps ==
    ASSUME Plain, NEW u, NEW f, NEW b, NEW x, Good(u, f, <<>>, b, x), ~ u.exited,
           NEW fd \in Fds, TheNumber(u) = fd, fd \notin u.watched, NEW v, Dropped(u, v, fd)
    PROVE  /\ Good(v, f, <<>>, FALSE, x) /\ v.heard = u.heard /\ TheNumber(v) = NoFd
           /\ \A r : Fresh(u, <<>>, r) => Fresh(v, <<>>, r)
  <1> USE ConstantFacts
  <1>1. u \in Tables /\ v \in Tables /\ v.nreq =< MaxReq /\ f \in Fds \union {NoFd} /\ <<>> \in Seq(Requests)
    BY DEF Good, Dropped
  <1>2. u.watched = {} /\ u.a2s \in [Addrs -> Fds \union {NoFd}]
    <2>1. u.watched \subseteq Fds /\ u.a2s \in [Addrs -> Fds \union {NoFd}]
      BY ONLY <1>1, TableTypes
    <2> QED BY <2>1 DEF Good, NumbersFit
  <1>3. TheNumber(v) = NoFd
    BY <1>2 DEF Dropped, TheNumber
  <1>4. ConnsFit(v) /\ NumbersFit(v)
    BY <1>2 DEF Good, Dropped, ConnsFit, NumbersFit
  <1>5. HeldIsWatched(v, FALSE) /\ ReadFits(v, f, <<>>, FALSE)
    BY <1>3 DEF HeldIsWatched, ReadFits
  <1>6. CallbacksFit(v, f, <<>>, x)
    BY <1>2 DEF CallbacksFit, Dropped
  <1>7. HeardFits(v)
    BY DEF Good, HeardFits, Dropped
  <1>8. PICK L, M : L = Lanes(u, <<>>) /\ M = Lanes(v, <<>>)
    OBVIOUS
  <1>9. LanesOf(L, u, <<>>) /\ LanesOf(M, v, <<>>)
    BY ONLY <1>1, <1>8, LaneFacts
  <1>10. ASSUME NEW y \in Places PROVE M[y] = L[y] \/ M[y] = <<>>
    <2>1. /\ \A k \in Conns : v.todo[k] = u.todo[k] \/ v.todo[k] = <<>>
          /\ \A k \in Conns : v.inbox[k] = u.inbox[k] \/ v.inbox[k] = <<>>
      BY DEF Dropped
    <2>2. CASE y = 0
      BY ONLY <1>9, <2>2 DEF LanesOf
    <2>3. CASE y \in Conns
      BY ONLY <1>9, <2>1, <2>3 DEF LanesOf
    <2>4. ASSUME NEW k \in Conns, y = MaxConn + k PROVE M[y] = L[y] \/ M[y] = <<>>
      <3>1. L[MaxConn + k] = u.todo[k] /\ M[MaxConn + k] = v.todo[k]
        BY ONLY <1>9, k \in Conns DEF LanesOf
      <3> QED BY ONLY <2>1, <2>4, <3>1, k \in Conns
    <2>5. y = 0 \/ y \in Conns \/ \E k \in Conns : y = MaxConn + k
      BY ONLY <1>9, y \in Places DEF LanesOf
    <2> QED BY ONLY <2>2, <2>3, <2>4, <2>5
  <1>11. Distinct(M) /\ Within(M, L)
    BY <1>8, <1>10, EmptiedLanes DEF Good, WiresFit
  <1>12. Pending(u, M) /\ \A r : Absent(L, r) => Absent(M, r)
    BY <1>8, <1>11, WithinFacts DEF Good, WiresFit
  <1>13. WiresFit(v, <<>>)
    <2>1. Pending(v, M)
      BY ONLY <1>12, Dropped(u, v, fd) DEF Pending, Dropped
    <2>2. /\ \A k \in Conns : k \notin v.up => v.todo[k] = <<>>
          /\ \A k \in Conns : k > Len(v.peer) => v.inbox[k] = <<>>
      BY DEF Good, WiresFit, Dropped
    <2> QED BY ONLY <1>8, <1>11, <2>1, <2>2 DEF WiresFit
  <1>14. Good(v, f, <<>>, FALSE, x)
    BY ONLY <1>1, <1>4, <1>5, <1>6, <1>7, <1>13 DEF Good
  <1>15. v.nreq = u.nreq /\ v.heard = u.heard
    BY DEF Dropped
  <1>16. \A r : Fresh(u, <<>>, r) => Fresh(v, <<>>, r)
    BY ONLY <1>8, <1>12, <1>15 DEF Fresh
  <1> QED BY <1>3, <1>14, <1>15, <1>16

LEMMA ClosedKeeps ==
    ASSUME Plain, NEW u, NEW f, NEW b, NEW x, Good(u, f, <<>>, b, x), ~ u.exited,
           NEW fd \in Fds, fd \in u.watched, u.conn[fd] \notin u.up, NEW v, Closed(u, v, fd)
    PROVE  /\ Good(v, f, <<>>, TRUE, x) /\ v.heard = u.heard /\ TheNumber(v) = fd
           /\ \A r : Fresh(u, <<>>, r) => Fresh(v, <<>>, r)
  <1> USE ConstantFacts
  <1>1. u \in Tables /\ v \in Tables /\ v.nreq =< MaxReq /\ f \in Fds \union {NoFd} /\ <<>> \in Seq(Requests)
    BY DEF Good, Closed
  <1>2. /\ u.watched \subseteq Fds /\ u.armed \subseteq Fds
        /\ u.queue \in [Fds -> Seq(Requests)] /\ u.map \in [Fds -> SUBSET Requests]
    BY ONLY <1>1, TableTypes
  <1>3. TheNumber(u) = fd /\ TheNumber(v) = fd /\ v.watched = {} /\ fd \in v.closing
    BY <1>2 DEF Good, NumbersFit, Closed, TheNumber
  <1>4. ConnsFit(v)
    BY DEF Good, Closed, ConnsFit
  <1>5. NumbersFit(v)
    <2>1. \A e \in v.armed : v.conn[e] # NoConn
      BY DEF Good, NumbersFit, Closed
    <2>2. ASSUME NEW e \in Fds PROVE v.queue[e] = <<>> /\ v.map[e] = {}
      <3>1. e # fd => e \notin u.watched
        BY <1>3 DEF Good, NumbersFit
      <3>2. e # fd => u.queue[e] = <<>> /\ u.map[e] = {}
        BY <3>1 DEF Good, NumbersFit
      <3>3. v.queue = [u.queue EXCEPT ![fd] = <<>>] /\ v.map = [u.map EXCEPT ![fd] = {}]
        BY DEF Closed
      <3> QED BY ONLY <1>2, <3>2, <3>3, e \in Fds, fd \in Fds
    <2> QED BY ONLY <1>3, <2>1, <2>2 DEF NumbersFit
  <1>6. HeldIsWatched(v, TRUE) /\ ReadFits(v, f, <<>>, TRUE)
    BY <1>3 DEF HeldIsWatched, ReadFits, Closed
  <1>7. CallbacksFit(v, f, <<>>, x)
    BY <1>3 DEF CallbacksFit
  <1>8. HeardFits(v) /\ v.nreq = u.nreq /\ v.heard = u.heard /\ v.todo = u.todo /\ v.inbox = u.inbox
    BY DEF Good, HeardFits, Closed
  <1>9. Lanes(v, <<>>) = Lanes(u, <<>>)
    BY ONLY <1>8, SameLanes
  <1>10. WiresFit(v, <<>>)
    BY <1>9 DEF Good, Closed, WiresFit, Pending
  <1>11. \A r : Fresh(u, <<>>, r) => Fresh(v, <<>>, r)
    BY ONLY <1>8, <1>9 DEF Fresh
  <1>12. Good(v, f, <<>>, TRUE, x)
    BY ONLY <1>1, <1>4, <1>5, <1>6, <1>7, <1>8, <1>10 DEF Good
  <1> QED BY ONLY <1>3, <1>8, <1>11, <1>12

\* A callback is added: for a request that was sent, or that got lost.
LEMMA QueueGrows ==
    ASSUME NEW q \in Seq(Requests), NEW g \in Seq(Requests), NEW i \in Seq(Requests),
           NEW o \in Seq(Requests), NEW r \in Requests, NEW there \in BOOLEAN,
           QueueFits(q, g, i, o, there)
    PROVE  /\ QueueFits(Append(q, r), g, i, o, FALSE)
           /\ there => QueueFits(Append(q, r), g, i, Append(o, r), TRUE)
  <1>0. Len(q) \in Nat /\ Len(g) \in Nat /\ Len(i) \in Nat /\ Len(o) \in Nat
    OBVIOUS
  <1>1. PICK p, s : p = Append(q, r) /\ s = Append(o, r)
    OBVIOUS
  <1>2. /\ Len(p) = Len(q) + 1 /\ \A j \in 1..Len(q) : p[j] = q[j]
        /\ p[Len(q) + 1] = r
    BY <1>1, AppendFacts
  <1>3. /\ Len(s) = Len(o) + 1 /\ \A j \in 1..Len(o) : s[j] = o[j]
        /\ s[Len(o) + 1] = r
    BY <1>1, AppendFacts
  <1>4. /\ Len(g) + Len(i) + Len(o) =< Len(q)
        /\ there => Len(g) + Len(i) + Len(o) = Len(q)
        /\ \A j \in 1..Len(g) : q[j] = g[j]
        /\ \A j \in 1..Len(i) : q[Len(g) + j] = i[j]
        /\ \A j \in 1..Len(o) : q[Len(g) + Len(i) + j] = o[j]
    BY DEF QueueFits
  <1>5. /\ \A j \in 1..Len(g) : p[j] = g[j]
        /\ \A j \in 1..Len(i) : p[Len(g) + j] = i[j]
        /\ \A j \in 1..Len(o) : p[Len(g) + Len(i) + j] = o[j]
    <2>0. Len(g) + Len(i) + Len(o) =< Len(q)
      BY ONLY <1>4
    <2>1. \A j \in 1..Len(g) : j \in 1..Len(q)
      BY ONLY <1>0, <2>0
    <2>2. \A j \in 1..Len(i) : Len(g) + j \in 1..Len(q)
      BY ONLY <1>0, <2>0
    <2>3. \A j \in 1..Len(o) : Len(g) + Len(i) + j \in 1..Len(q)
      BY ONLY <1>0, <2>0
    <2> QED BY ONLY <1>2, <1>4, <2>1, <2>2, <2>3
  <1>6. QueueFits(p, g, i, o, FALSE)
    BY ONLY <1>0, <1>2, <1>4, <1>5 DEF QueueFits
  <1>7. ASSUME there PROVE QueueFits(p, g, i, s, TRUE)
    <2>1. ASSUME NEW j \in 1..Len(s) PROVE p[Len(g) + Len(i) + j] = s[j]
      <3>1. CASE j = Len(o) + 1
        <4>1. Len(g) + Len(i) + j = Len(q) + 1
          BY ONLY <1>0, <1>4, <1>7, <3>1
        <4> QED BY ONLY <1>2, <1>3, <3>1, <4>1
      <3>2. CASE j # Len(o) + 1
        <4>1. j \in 1..Len(o)
          BY ONLY <1>0, <1>3, <3>2, j \in 1..Len(s)
        <4> QED BY ONLY <1>3, <1>5, <4>1
      <3> QED BY <3>1, <3>2
    <2>2. Len(g) + Len(i) + Len(s) = Len(p)
      <3>1. Len(p) = Len(q) + 1 /\ Len(s) = Len(o) + 1 /\ Len(g) + Len(i) + Len(o) = Len(q)
        BY <1>2, <1>3, <1>4, <1>7
      <3>2. PICK a, c, d, e, y, z : /\ a = Len(g) /\ c = Len(i) /\ d = Len(o) /\ e = Len(q)
                                    /\ y = Len(p) /\ z = Len(s)
        OBVIOUS
      <3>3. a \in Nat /\ c \in Nat /\ d \in Nat /\ e \in Nat /\ y = e + 1 /\ z = d + 1 /\ a + c + d = e
        BY ONLY <1>0, <3>1, <3>2
      <3>4. a + c + z = y
        BY ONLY <3>3
      <3> QED BY ONLY <3>2, <3>4
    <2>3. Len(g) + Len(i) + Len(s) =< Len(p)
      BY ONLY <1>0, <1>2, <2>2
    <2> QED BY ONLY <1>5, <2>1, <2>2, <2>3 DEF QueueFits
  <1> QED BY ONLY <1>1, <1>6, <1>7

LEMMA LostKeeps ==
    ASSUME Plain, NEW u, NEW f, NEW b, NEW x, Good(u, f, <<>>, b, x),
           NEW fd \in Fds, fd \in u.watched, u.conn[fd] # NoConn, u.conn[fd] \notin u.up,
           NEW r \in Requests, NEW callback \in BOOLEAN, NEW v, Lost(u, v, r, fd, callback)
    PROVE  Good(v, f, <<>>, b, x) /\ v.heard = u.heard
  <1> USE ConstantFacts
  <1>1. /\ u \in Tables /\ v \in Tables /\ v.nreq =< MaxReq /\ f \in Fds \union {NoFd}
        /\ <<>> \in Seq(Requests)
    BY DEF Good, Lost, SameButWires
  <1>2. /\ v.conn = u.conn /\ v.peer = u.peer /\ v.up = u.up /\ v.inbox = u.inbox /\ v.armed = u.armed
        /\ v.watched = u.watched /\ v.closing = u.closing /\ v.a2s = u.a2s /\ v.nreq = u.nreq
        /\ v.heard = u.heard /\ v.exited = u.exited /\ v.todo = u.todo /\ Keeps(u, v, r, fd, callback)
    BY DEF Lost, SameButWires
  <1>3. /\ u.queue \in [Fds -> Seq(Requests)] /\ u.map \in [Fds -> SUBSET Requests]
        /\ u.todo \in [Conns -> Seq(Requests)] /\ u.inbox \in [Conns -> Seq(Requests)]
        /\ u.conn \in [Fds -> Nat] /\ Len(u.peer) \in Nat
    BY ONLY <1>1, TableTypes
  <1>4. \A e \in Fds : e # fd => v.queue[e] = u.queue[e] /\ v.map[e] = u.map[e]
    BY ONLY <1>2, <1>3, fd \in Fds DEF Keeps
  <1>5. ConnsFit(v) /\ HeldIsWatched(v, b) /\ ReadFits(v, f, <<>>, b) /\ HeardFits(v)
    BY <1>2 DEF Good, ConnsFit, HeldIsWatched, ReadFits, HeardFits, TheNumber
  <1>6. NumbersFit(v)
    BY <1>2, <1>4 DEF Good, NumbersFit, TheNumber
  <1>7. Lanes(v, <<>>) = Lanes(u, <<>>)
    BY ONLY <1>2, SameLanes
  <1>8. WiresFit(v, <<>>)
    BY <1>2, <1>7 DEF Good, WiresFit, Pending
  <1>9. CallbacksFit(v, f, <<>>, x)
    <2>1. CallbacksFit(u, f, <<>>, x)
      BY DEF Good
    <2>2. ASSUME NEW e \in Fds, e \in v.watched, v.conn[e] # NoConn, proto = "Redis"
          PROVE  QueueFits(v.queue[e], Handled(f, <<>>, e), v.inbox[v.conn[e]], v.todo[v.conn[e]],
                           v.conn[e] \in v.up)
      <3>1. QueueFits(u.queue[e], Handled(f, <<>>, e), u.inbox[u.conn[e]], u.todo[u.conn[e]],
                      u.conn[e] \in u.up)
        BY ONLY <1>2, <2>1, <2>2 DEF CallbacksFit
      <3>2. CASE e # fd \/ ~ callback
        <4>1. v.queue[e] = u.queue[e]
          BY ONLY <1>2, <1>4, <3>2, e \in Fds DEF Keeps
        <4> QED BY ONLY <1>2, <3>1, <4>1
      <3>3. CASE e = fd /\ callback
        <4>1. PICK q, g, i, o : /\ q = u.queue[e] /\ g = Handled(f, <<>>, e)
                                /\ i = u.inbox[u.conn[e]] /\ o = u.todo[u.conn[e]]
          OBVIOUS
        <4>2. u.conn[e] \in Conns
          <5>1. u.conn[e] =< Len(u.peer) /\ Len(u.peer) =< MaxConn /\ u.conn[e] \in Nat /\ u.conn[e] # 0
            BY <1>2, <1>3, <2>2 DEF Good, ConnsFit
          <5> QED BY ONLY <1>3, <5>1, ConstantFacts
        <4>3. q \in Seq(Requests) /\ g \in Seq(Requests) /\ i \in Seq(Requests) /\ o \in Seq(Requests)
          BY ONLY <1>1, <1>3, <4>1, <4>2, e \in Fds DEF Handled
        <4>4. QueueFits(q, g, i, o, FALSE)
          BY ONLY <3>1, <3>3, <4>1, u.conn[fd] \notin u.up DEF QueueFits
        <4>5. QueueFits(Append(q, r), g, i, o, FALSE)
          BY ONLY <4>3, <4>4, r \in Requests, QueueGrows
        <4>6. v.queue[e] = Append(q, r)
          BY ONLY <1>2, <1>3, <2>2, <3>3, <4>1 DEF Keeps
        <4>7. (v.conn[e] \in v.up) = FALSE
          BY ONLY <1>2, <3>3, u.conn[fd] \notin u.up
        <4> QED BY ONLY <1>2, <4>1, <4>5, <4>6, <4>7
      <3> QED BY ONLY <3>2, <3>3
    <2>3. ASSUME NEW e \in Fds, e \in v.watched, v.conn[e] # NoConn, proto # "Redis", v.conn[e] \in v.up
          PROVE  MapFits(v.map[e] \ {x}, Handled(f, <<>>, e), v.inbox[v.conn[e]], v.todo[v.conn[e]])
      <3>1. e # fd
        BY ONLY <1>2, <2>3, u.conn[fd] \notin u.up
      <3> QED BY ONLY <1>2, <1>4, <2>1, <2>3, <3>1 DEF CallbacksFit
    <2> QED BY ONLY <2>2, <2>3 DEF CallbacksFit
  <1> QED BY <1>1, <1>2, <1>5, <1>6, <1>8, <1>9 DEF Good

LEMMA MapGrows ==
    ASSUME NEW m, NEW n, NEW g, NEW i, NEW o \in Seq(Requests), NEW r \in Requests,
           MapFits(m, g, i, o), n \subseteq m \union {r}
    PROVE  MapFits(n, g, i, Append(o, r))
  <1>1. PICK s : s = Append(o, r)
    OBVIOUS
  <1>2. /\ Len(o) \in Nat /\ Len(s) = Len(o) + 1 /\ \A j \in 1..Len(o) : s[j] = o[j]
        /\ s[Len(o) + 1] = r
    BY <1>1, AppendFacts
  <1>3. \A j \in 1..Len(o) : j \in 1..Len(s)
    BY ONLY <1>2
  <1>4. Len(o) + 1 \in 1..Len(s)
    BY ONLY <1>2
  <1>5. ASSUME NEW y \in n
        PROVE  \/ \E j \in 1..Len(g) : g[j] = y
               \/ \E j \in 1..Len(i) : i[j] = y
               \/ \E j \in 1..Len(s) : s[j] = y
    <2>1. CASE y = r
      BY ONLY <1>2, <1>4, <2>1
    <2>2. CASE y # r
      <3>1. y \in m
        BY <2>2
      <3>2. \/ \E j \in 1..Len(g) : g[j] = y
            \/ \E j \in 1..Len(i) : i[j] = y
            \/ \E j \in 1..Len(o) : o[j] = y
        BY ONLY <3>1, MapFits(m, g, i, o) DEF MapFits
      <3>3. (\E j \in 1..Len(o) : o[j] = y) => \E j \in 1..Len(s) : s[j] = y
        BY ONLY <1>2, <1>3
      <3> QED BY ONLY <3>2, <3>3
    <2> QED BY <2>1, <2>2
  <1> QED BY ONLY <1>1, <1>5 DEF MapFits

\* A connection that a number has.
LEMMA ConnOf ==
    ASSUME NEW u \in Tables, ConnsFit(u), NEW fd \in Fds, u.conn[fd] # NoConn
    PROVE  u.conn[fd] \in Conns
  <1> USE ConstantFacts
  <1>1. u.conn[fd] \in Nat /\ Len(u.peer) \in Nat
    BY TableTypes
  <1>2. u.conn[fd] =< Len(u.peer) /\ Len(u.peer) =< MaxConn
    BY DEF ConnsFit
  <1> QED BY ONLY <1>1, <1>2, ConstantFacts, u.conn[fd] # NoConn

LEMMA SentKeeps ==
    ASSUME Plain, NEW u, NEW f, NEW g, NEW b, NEW x, Good(u, f, g, b, x),
           NEW fd \in Fds, fd \in u.watched, u.conn[fd] \in u.up,
           NEW r, Fresh(u, g, r), NEW callback \in BOOLEAN, callback \/ proto # "Redis",
           NEW v, Sent(u, v, r, fd, callback)
    PROVE  Good(v, f, g, b, x) /\ v.heard = u.heard
  <1> USE ConstantFacts
  <1>0. PICK k : k = u.conn[fd]
    OBVIOUS
  <1>1. /\ u \in Tables /\ v \in Tables /\ v.nreq =< MaxReq /\ f \in Fds \union {NoFd}
        /\ g \in Seq(Requests) /\ <<>> \in Seq(Requests) /\ r \in Requests
    BY DEF Good, Sent, SameButWires, Fresh
  <1>2. /\ v.conn = u.conn /\ v.peer = u.peer /\ v.up = u.up /\ v.inbox = u.inbox /\ v.armed = u.armed
        /\ v.watched = u.watched /\ v.closing = u.closing /\ v.a2s = u.a2s /\ v.nreq = u.nreq
        /\ v.heard = u.heard /\ v.exited = u.exited /\ Keeps(u, v, r, fd, callback)
        /\ v.todo = [u.todo EXCEPT ![k] = Append(u.todo[k], r)]
    BY <1>0 DEF Sent, SameButWires
  <1>3. /\ u.queue \in [Fds -> Seq(Requests)] /\ u.map \in [Fds -> SUBSET Requests]
        /\ u.todo \in [Conns -> Seq(Requests)] /\ u.inbox \in [Conns -> Seq(Requests)]
        /\ u.conn \in [Fds -> Nat] /\ Len(u.peer) \in Nat /\ u.up \subseteq Conns
    BY ONLY <1>1, TableTypes
  <1>4. \A e \in Fds : e # fd => v.queue[e] = u.queue[e] /\ v.map[e] = u.map[e]
    BY ONLY <1>2, <1>3, fd \in Fds DEF Keeps
  <1>5. k \in Conns /\ k \in u.up /\ k # NoConn
    BY <1>0, <1>3
  <1>6. v.todo[k] = Append(u.todo[k], r) /\ \A j \in Conns : j # k => v.todo[j] = u.todo[j]
    BY ONLY <1>2, <1>3, <1>5
  <1>7. ConnsFit(v) /\ HeldIsWatched(v, b) /\ ReadFits(v, f, g, b) /\ HeardFits(v)
    <2>1. ConnsFit(v) /\ HeardFits(v)
      BY <1>2 DEF Good, ConnsFit, HeardFits
    <2>2. HeldIsWatched(v, b) /\ ReadFits(v, f, g, b)
      BY <1>2 DEF Good, HeldIsWatched, ReadFits, TheNumber
    <2> QED BY <2>1, <2>2
  <1>8. NumbersFit(v)
    BY <1>2, <1>4 DEF Good, NumbersFit, TheNumber
  <1>9. PICK L, M : L = Lanes(u, g) /\ M = Lanes(v, g)
    OBVIOUS
  <1>10. LanesOf(L, u, g) /\ LanesOf(M, v, g)
    BY ONLY <1>1, <1>9, LaneFacts
  <1>11. ASSUME NEW y \in Places, y # MaxConn + k PROVE M[y] = L[y]
    <2>1. CASE y = 0
      BY ONLY <1>10, <2>1 DEF LanesOf
    <2>2. CASE y \in Conns
      BY ONLY <1>2, <1>10, <2>2 DEF LanesOf
    <2>3. ASSUME NEW j \in Conns, y = MaxConn + j PROVE M[y] = L[y]
      <3>1. L[MaxConn + j] = u.todo[j] /\ M[MaxConn + j] = v.todo[j]
        BY ONLY <1>10, j \in Conns DEF LanesOf
      <3>2. j # k
        BY ONLY <1>11, <2>3
      <3> QED BY ONLY <1>6, <2>3, <3>1, <3>2, j \in Conns
    <2>4. y = 0 \/ y \in Conns \/ \E j \in Conns : y = MaxConn + j
      BY ONLY <1>10, y \in Places DEF LanesOf
    <2> QED BY ONLY <2>1, <2>2, <2>3, <2>4
  <1>12. MaxConn + k \in Places /\ L \in [Places -> Seq(Requests)]
         /\ M[MaxConn + k] = Append(L[MaxConn + k], r)
    BY ONLY <1>5, <1>6, <1>10 DEF LanesOf
  <1>13. Distinct(L) /\ Pending(u, L) /\ Absent(L, r) /\ r =< u.nreq /\ u.heard[r] = <<>>
    BY <1>9 DEF Good, WiresFit, Fresh
  <1>14. Distinct(M) /\ WithinOr(M, L, r)
    <2>1. PICK p : p = MaxConn + k
      OBVIOUS
    <2>2. /\ p \in Places /\ L \in [Places -> Seq(Requests)] /\ M[p] = Append(L[p], r)
          /\ \A y \in Places : y # p => M[y] = L[y]
      BY ONLY <1>11, <1>12, <2>1
    <2>3. SentOver(M, L, p, r)
      BY ONLY <2>2 DEF SentOver
    <2> QED BY ONLY <1>1, <1>13, <2>2, <2>3, SentLanes
  <1>15. Pending(v, M)
    <2>1. ASSUME NEW y \in Places, NEW i \in 1..Len(M[y])
          PROVE  M[y][i] =< v.nreq /\ v.heard[M[y][i]] = <<>>
      <3>1. M[y][i] = r \/ \E j \in 1..Len(L[y]) : M[y][i] = L[y][j]
        BY ONLY <1>14, <2>1 DEF WithinOr
      <3>2. \A j \in 1..Len(L[y]) : L[y][j] =< u.nreq /\ u.heard[L[y][j]] = <<>>
        BY ONLY <1>13, <2>1 DEF Pending
      <3> QED BY ONLY <1>2, <1>13, <3>1, <3>2
    <2> QED BY ONLY <2>1 DEF Pending
  <1>16. WiresFit(v, g)
    <2>1. /\ \A j \in Conns : j \notin u.up => u.todo[j] = <<>>
          /\ \A j \in Conns : j > Len(u.peer) => u.inbox[j] = <<>>
      BY DEF Good, WiresFit
    <2> QED BY ONLY <1>2, <1>5, <1>6, <1>9, <1>14, <1>15, <2>1 DEF WiresFit
  <1>17. CallbacksFit(v, f, g, x)
    <2>1. CallbacksFit(u, f, g, x)
      BY DEF Good
    <2>2. ASSUME NEW e \in Fds, e # fd, e \in v.watched, v.conn[e] # NoConn
          PROVE  v.conn[e] \in Conns /\ v.todo[v.conn[e]] = u.todo[u.conn[e]]
      <3>1. u.conn[e] \in Conns
        BY <1>1, <1>2, <2>2, ConnOf DEF Good
      <3>2. u.conn[e] # k
        BY <1>0, <1>2, <2>2 DEF Good, ConnsFit
      <3> QED BY ONLY <1>2, <1>6, <3>1, <3>2
    <2>3. PICK h : h = Handled(f, g, fd)
      OBVIOUS
    <2>4. h \in Seq(Requests) /\ u.queue[fd] \in Seq(Requests) /\ u.inbox[k] \in Seq(Requests)
          /\ u.todo[k] \in Seq(Requests)
      BY <1>1, <1>3, <1>5, <2>3 DEF Handled
    <2>5. ASSUME NEW e \in Fds, e \in v.watched, v.conn[e] # NoConn, proto = "Redis"
          PROVE  QueueFits(v.queue[e], Handled(f, g, e), v.inbox[v.conn[e]], v.todo[v.conn[e]],
                           v.conn[e] \in v.up)
      <3>1. QueueFits(u.queue[e], Handled(f, g, e), u.inbox[u.conn[e]], u.todo[u.conn[e]],
                      u.conn[e] \in u.up)
        BY ONLY <1>2, <2>1, <2>5 DEF CallbacksFit
      <3>2. CASE e # fd
        BY ONLY <1>2, <1>4, <2>2, <2>5, <3>1, <3>2
      <3>3. CASE e = fd
        <4>1. QueueFits(u.queue[fd], h, u.inbox[k], u.todo[k], TRUE)
          BY ONLY <1>0, <1>5, <2>3, <3>1, <3>3 DEF QueueFits
        <4>2. QueueFits(Append(u.queue[fd], r), h, u.inbox[k], Append(u.todo[k], r), TRUE)
          BY ONLY <1>1, <2>4, <4>1, QueueGrows
        <4>3. v.queue[fd] = Append(u.queue[fd], r)
          BY ONLY <1>2, <1>3, <2>5, callback \/ proto # "Redis", fd \in Fds DEF Keeps
        <4>4. QueueFits(v.queue[fd], h, v.inbox[k], v.todo[k], v.conn[e] \in v.up)
          BY ONLY <1>2, <1>6, <4>2, <4>3 DEF QueueFits
        <4> QED BY ONLY <1>0, <1>2, <2>3, <3>3, <4>4
      <3> QED BY ONLY <3>2, <3>3
    <2>6. ASSUME NEW e \in Fds, e \in v.watched, v.conn[e] # NoConn, proto # "Redis", v.conn[e] \in v.up
          PROVE  MapFits(v.map[e] \ {x}, Handled(f, g, e), v.inbox[v.conn[e]], v.todo[v.conn[e]])
      <3>1. MapFits(u.map[e] \ {x}, Handled(f, g, e), u.inbox[u.conn[e]], u.todo[u.conn[e]])
        BY ONLY <1>2, <2>1, <2>6 DEF CallbacksFit
      <3>2. CASE e # fd
        BY ONLY <1>2, <1>4, <2>2, <2>6, <3>1, <3>2
      <3>3. CASE e = fd
        <4>1. MapFits(u.map[fd] \ {x}, h, u.inbox[k], u.todo[k])
          BY ONLY <1>0, <2>3, <3>1, <3>3
        <4>2. v.map[fd] \ {x} \subseteq (u.map[fd] \ {x}) \union {r}
          <5>1. v.map[fd] \subseteq u.map[fd] \union {r}
            BY ONLY <1>2, <1>3, fd \in Fds DEF Keeps
          <5> QED BY ONLY <5>1
        <4>3. MapFits(v.map[fd] \ {x}, h, u.inbox[k], Append(u.todo[k], r))
          BY ONLY <1>1, <2>4, <4>1, <4>2, MapGrows
        <4> QED BY ONLY <1>0, <1>2, <1>6, <2>3, <3>3, <4>3
      <3> QED BY ONLY <3>2, <3>3
    <2> QED BY ONLY <2>5, <2>6 DEF CallbacksFit
  <1>18. Good(v, f, g, b, x)
    BY ONLY <1>1, <1>7, <1>8, <1>16, <1>17 DEF Good
  <1> QED BY <1>2, <1>18

\* A reply is taken: the head of the queue is its callback.
LEMMA QueueShrinks ==
    ASSUME NEW q \in Seq(Requests), NEW g \in Seq(Requests), NEW i \in Seq(Requests),
           NEW o \in Seq(Requests), NEW there \in BOOLEAN, QueueFits(q, g, i, o, there), g # <<>>
    PROVE  q # <<>> /\ Head(q) = Head(g) /\ QueueFits(Tail(q), Tail(g), i, o, there)
  <1>1. PICK a, c, d, e : a = Len(g) /\ c = Len(i) /\ d = Len(o) /\ e = Len(q)
    OBVIOUS
  <1>2. a \in Nat /\ c \in Nat /\ d \in Nat /\ e \in Nat /\ a > 0
    BY <1>1
  <1>3. a + c + d =< e /\ (there => a + c + d = e)
    BY <1>1 DEF QueueFits
  <1>4. /\ \A j \in 1..a : q[j] = g[j]
        /\ \A j \in 1..c : q[a + j] = i[j]
        /\ \A j \in 1..d : q[a + c + j] = o[j]
    BY <1>1 DEF QueueFits
  <1>5. e > 0 /\ 1 \in 1..a
    BY ONLY <1>2, <1>3
  <1>6. q # <<>>
    BY <1>1, <1>5
  <1>7. PICK p, s : p = Tail(q) /\ s = Tail(g)
    OBVIOUS
  <1>8. /\ Head(q) = q[1] /\ Len(p) = e - 1 /\ \A j \in 1..(e - 1) : p[j] = q[j + 1]
    BY <1>1, <1>6, <1>7, TailFacts
  <1>9. /\ Head(g) = g[1] /\ Len(s) = a - 1 /\ \A j \in 1..(a - 1) : s[j] = g[j + 1]
    BY <1>1, <1>7, TailFacts
  <1>10. Head(q) = Head(g)
    BY ONLY <1>4, <1>5, <1>8, <1>9
  <1>11. ASSUME NEW j \in 1..(a - 1) PROVE p[j] = s[j]
    <2>1. j \in 1..(e - 1) /\ j + 1 \in 1..a
      BY ONLY <1>2, <1>3, j \in 1..(a - 1)
    <2> QED BY ONLY <1>4, <1>8, <1>9, <2>1, j \in 1..(a - 1)
  <1>12. ASSUME NEW j \in 1..c PROVE p[(a - 1) + j] = i[j]
    <2>1. (a - 1) + j \in 1..(e - 1) /\ ((a - 1) + j) + 1 = a + j
      BY ONLY <1>2, <1>3, j \in 1..c
    <2> QED BY ONLY <1>4, <1>8, <2>1, j \in 1..c
  <1>13. ASSUME NEW j \in 1..d PROVE p[(a - 1) + c + j] = o[j]
    <2>1. (a - 1) + c + j \in 1..(e - 1) /\ ((a - 1) + c + j) + 1 = a + c + j
      BY ONLY <1>2, <1>3, j \in 1..d
    <2> QED BY ONLY <1>4, <1>8, <2>1, j \in 1..d
  <1>14. (a - 1) + c + d =< e - 1 /\ (there => (a - 1) + c + d = e - 1)
    BY ONLY <1>2, <1>3
  <1>15. Len(p) = e - 1 /\ Len(s) = a - 1
    BY <1>8, <1>9
  <1>16. QueueFits(p, s, i, o, there)
    BY ONLY <1>1, <1>11, <1>12, <1>13, <1>14, <1>15 DEF QueueFits
  <1> QED BY ONLY <1>6, <1>7, <1>10, <1>16

LEMMA MapShrinks ==
    ASSUME NEW m, NEW n, NEW g \in Seq(Requests), NEW i, NEW o, g # <<>>,
           MapFits(m, g, i, o), n \subseteq m, Head(g) \notin n
    PROVE  MapFits(n, Tail(g), i, o)
  <1>1. PICK s, a : s = Tail(g) /\ a = Len(g)
    OBVIOUS
  <1>2. /\ a \in Nat /\ a > 0 /\ Head(g) = g[1] /\ Len(s) = a - 1
        /\ \A j \in 1..(a - 1) : s[j] = g[j + 1]
    BY <1>1, TailFacts
  <1>3. ASSUME NEW y \in n
        PROVE  \/ \E j \in 1..Len(s) : s[j] = y
               \/ \E j \in 1..Len(i) : i[j] = y
               \/ \E j \in 1..Len(o) : o[j] = y
    <2>1. \/ \E j \in 1..a : g[j] = y
          \/ \E j \in 1..Len(i) : i[j] = y
          \/ \E j \in 1..Len(o) : o[j] = y
      BY <1>1 DEF MapFits
    <2>2. ASSUME NEW j \in 1..a, g[j] = y PROVE \E l \in 1..Len(s) : s[l] = y
      <3>1. j # 1
        BY <1>2, <2>2
      <3>2. j - 1 \in 1..(a - 1) /\ (j - 1) + 1 = j
        BY ONLY <1>2, <3>1, j \in 1..a
      <3>3. s[j - 1] = g[j]
        BY ONLY <1>2, <3>2
      <3> QED BY ONLY <1>2, <2>2, <3>2, <3>3
    <2> QED BY ONLY <2>1, <2>2
  <1> QED BY ONLY <1>1, <1>3 DEF MapFits

\* A reply has been taken; its callback, if there is one, has been called.
Took(u, v, f, r) ==
    /\ v \in Tables
    /\ v.heard = u.heard \/ v.heard = [u.heard EXCEPT ![r] = <<r>>]
    /\ v.queue = IF proto = "Redis" THEN [u.queue EXCEPT ![f] = Tail(u.queue[f])] ELSE u.queue
    /\ v.conn = u.conn /\ v.peer = u.peer /\ v.up = u.up /\ v.todo = u.todo /\ v.inbox = u.inbox
    /\ v.armed = u.armed /\ v.watched = u.watched /\ v.closing = u.closing /\ v.a2s = u.a2s
    /\ v.map = u.map /\ v.nreq = u.nreq /\ v.exited = u.exited

\* A reply is read from a watched connection, is the first that its callback
\* hears, and for Redis the next callback is its callback.
LEMMA ReadHead ==
    ASSUME Plain, NEW u, NEW f, NEW g, NEW b, NEW x, Good(u, f, g, b, x), g # <<>>
    PROVE  /\ f \in Fds /\ f \in u.watched /\ u.conn[f] \in Conns /\ ~ u.exited /\ b
           /\ Head(g) \in Requests /\ Head(g) =< u.nreq /\ u.heard[Head(g)] = <<>>
           /\ proto = "Redis" => /\ u.queue[f] # <<>> /\ Head(u.queue[f]) = Head(g)
                                 /\ QueueFits(Tail(u.queue[f]), Tail(g), u.inbox[u.conn[f]],
                                              u.todo[u.conn[f]], u.conn[f] \in u.up)
  <1> USE ConstantFacts
  <1>1. u \in Tables /\ g \in Seq(Requests)
    BY DEF Good
  <1>2. f \in Fds /\ f \in u.watched /\ u.conn[f] # NoConn /\ ~ u.exited /\ b
    BY DEF Good, ReadFits
  <1>3. u.conn[f] \in Conns
    BY <1>1, <1>2, ConnOf DEF Good
  <1>4. /\ u.queue \in [Fds -> Seq(Requests)] /\ u.todo \in [Conns -> Seq(Requests)]
        /\ u.inbox \in [Conns -> Seq(Requests)]
    BY <1>1, TableTypes
  <1>5. PICK L : L = Lanes(u, g)
    OBVIOUS
  <1>6. L[0] = g /\ 0 \in Places
    BY <1>1, <1>5, LaneFacts DEF LanesOf
  <1>7. Head(g) = g[1] /\ Head(g) \in Requests /\ 1 \in 1..Len(g)
    BY <1>1, TailFacts
  <1>8. L[0][1] =< u.nreq /\ u.heard[L[0][1]] = <<>>
    BY <1>5, <1>6, <1>7 DEF Good, WiresFit, Pending
  <1>9. ASSUME proto = "Redis"
        PROVE  /\ u.queue[f] # <<>> /\ Head(u.queue[f]) = Head(g)
               /\ QueueFits(Tail(u.queue[f]), Tail(g), u.inbox[u.conn[f]],
                            u.todo[u.conn[f]], u.conn[f] \in u.up)
    <2>1. Handled(f, g, f) = g
      BY DEF Handled
    <2>2. CallbacksFit(u, f, g, x)
      BY DEF Good
    <2>3. PICK q, i, o, there : /\ q = u.queue[f] /\ i = u.inbox[u.conn[f]] /\ o = u.todo[u.conn[f]]
                                /\ there = (u.conn[f] \in u.up)
      OBVIOUS
    <2>4. QueueFits(q, g, i, o, there)
      BY ONLY <1>2, <1>9, <2>1, <2>2, <2>3 DEF CallbacksFit
    <2>5. q \in Seq(Requests) /\ i \in Seq(Requests) /\ o \in Seq(Requests) /\ there \in BOOLEAN
      BY ONLY <1>2, <1>3, <1>4, <2>3
    <2>6. q # <<>> /\ Head(q) = Head(g) /\ QueueFits(Tail(q), Tail(g), i, o, there)
      BY ONLY <1>1, <2>4, <2>5, QueueShrinks, g # <<>>
    <2> QED BY ONLY <2>3, <2>6
  <1> QED BY <1>2, <1>3, <1>6, <1>7, <1>8, <1>9

LEMMA TookKeeps ==
    ASSUME Plain, NEW u, NEW f, NEW g, NEW b, Good(u, f, g, b, NoRequest), g # <<>>,
           NEW r, r = Head(g), NEW v, Took(u, v, f, r)
    PROVE  Good(v, f, Tail(g), b, r)
  <1> USE ConstantFacts
  <1>0. PICK s : s = Tail(g)
    OBVIOUS
  <1>1. u \in Tables /\ v \in Tables /\ g \in Seq(Requests) /\ v.nreq =< MaxReq /\ f \in Fds \union {NoFd}
    BY DEF Good, Took
  <1>2. /\ f \in Fds /\ f \in u.watched /\ u.conn[f] \in Conns /\ ~ u.exited /\ b
        /\ r \in Requests /\ r =< u.nreq /\ u.heard[r] = <<>>
        /\ proto = "Redis" => QueueFits(Tail(u.queue[f]), s, u.inbox[u.conn[f]],
                                        u.todo[u.conn[f]], u.conn[f] \in u.up)
    BY <1>0, ReadHead
  <1>3. s \in Seq(Requests)
    BY <1>0, <1>1, TailFacts
  <1>4. /\ u.queue \in [Fds -> Seq(Requests)] /\ u.todo \in [Conns -> Seq(Requests)]
        /\ u.inbox \in [Conns -> Seq(Requests)] /\ u.heard \in [Requests -> Seq(Requests)]
        /\ u.map \in [Fds -> SUBSET Requests] /\ u.nreq \in Nat
    BY <1>1, TableTypes
  <1>5. /\ v.heard = u.heard \/ v.heard = [u.heard EXCEPT ![r] = <<r>>]
        /\ v.queue = IF proto = "Redis" THEN [u.queue EXCEPT ![f] = Tail(u.queue[f])] ELSE u.queue
        /\ v.conn = u.conn /\ v.peer = u.peer /\ v.up = u.up /\ v.todo = u.todo /\ v.inbox = u.inbox
        /\ v.armed = u.armed /\ v.watched = u.watched /\ v.closing = u.closing /\ v.a2s = u.a2s
        /\ v.map = u.map /\ v.nreq = u.nreq /\ v.exited = u.exited
    BY DEF Took
  <1>6. /\ \A y \in Requests : y # r => v.heard[y] = u.heard[y]
        /\ v.heard[r] = <<>> \/ v.heard[r] = <<r>>
    BY ONLY <1>2, <1>4, <1>5
  <1>7. HeardFits(v)
    <2>1. ASSUME NEW y \in Requests
          PROVE  v.heard[y] \in {<<>>, <<y>>} /\ (y > v.nreq => v.heard[y] = <<>>)
      <3>1. u.heard[y] \in {<<>>, <<y>>} /\ (y > u.nreq => u.heard[y] = <<>>)
        BY DEF Good, HeardFits
      <3>2. CASE y = r
        <4>1. ~ (y > u.nreq)
          BY ONLY <1>2, <1>4, <3>2, ConstantFacts
        <4> QED BY ONLY <1>5, <1>6, <3>2, <4>1
      <3>3. CASE y # r
        BY ONLY <1>5, <1>6, <3>1, <3>3, y \in Requests
      <3> QED BY ONLY <3>2, <3>3
    <2> QED BY ONLY <2>1 DEF HeardFits
  <1>8. ConnsFit(v) /\ HeldIsWatched(v, b) /\ ReadFits(v, f, s, b)
    <2>1. ConnsFit(v) /\ HeldIsWatched(v, b)
      BY <1>5 DEF Good, ConnsFit, HeldIsWatched, TheNumber
    <2>2. ReadFits(v, f, s, b)
      BY <1>2, <1>5 DEF ReadFits
    <2> QED BY <2>1, <2>2
  <1>9. NumbersFit(v)
    <2>1. \A e \in Fds : e # f => v.queue[e] = u.queue[e]
      BY ONLY <1>2, <1>4, <1>5
    <2> QED BY <1>2, <1>5, <2>1 DEF Good, NumbersFit, TheNumber
  <1>10. PICK L, M : L = Lanes(u, g) /\ M = Lanes(v, s)
    OBVIOUS
  <1>11. LanesOf(L, u, g) /\ LanesOf(M, v, s)
    BY ONLY <1>1, <1>3, <1>10, LaneFacts
  <1>12. ASSUME NEW y \in Places, y # 0 PROVE M[y] = L[y]
    <2>1. CASE y \in Conns
      BY ONLY <1>5, <1>11, <2>1 DEF LanesOf
    <2>2. ASSUME NEW j \in Conns, y = MaxConn + j PROVE M[y] = L[y]
      <3>1. L[MaxConn + j] = u.todo[j] /\ M[MaxConn + j] = v.todo[j]
        BY ONLY <1>11, j \in Conns DEF LanesOf
      <3> QED BY ONLY <1>5, <2>2, <3>1
    <2>3. y = 0 \/ y \in Conns \/ \E j \in Conns : y = MaxConn + j
      BY ONLY <1>11, y \in Places DEF LanesOf
    <2> QED BY ONLY <1>12, <2>1, <2>2, <2>3
  <1>13. L \in [Places -> Seq(Requests)] /\ L[0] = g /\ M[0] = Tail(L[0]) /\ L[0] # <<>>
    BY ONLY <1>0, <1>11, g # <<>> DEF LanesOf
  <1>14. Distinct(L) /\ Pending(u, L)
    BY <1>10 DEF Good, WiresFit
  <1>15. Distinct(M) /\ Within(M, L) /\ Absent(M, r)
    <2>1. Distinct(M) /\ Within(M, L) /\ Absent(M, Head(L[0]))
      BY ONLY <1>12, <1>13, <1>14, TakenLanes
    <2> QED BY <1>13, <2>1
  <1>16. Pending(u, M)
    BY ONLY <1>14, <1>15, WithinFacts
  <1>17. M \in [Places -> Seq(Requests)]
    BY ONLY <1>11 DEF LanesOf
  <1>18. Pending(v, M)
    <2>1. ASSUME NEW y \in Places, NEW i \in 1..Len(M[y])
          PROVE  M[y][i] =< v.nreq /\ v.heard[M[y][i]] = <<>>
      <3>1. M[y][i] =< u.nreq /\ u.heard[M[y][i]] = <<>> /\ M[y][i] # r
        BY ONLY <1>15, <1>16, <2>1 DEF Pending, Absent
      <3>2. M[y][i] \in Requests
        BY ONLY <1>17, <2>1
      <3> QED BY ONLY <1>5, <1>6, <3>1, <3>2
    <2> QED BY ONLY <2>1 DEF Pending
  <1>19. WiresFit(v, s)
    <2>1. /\ \A j \in Conns : j \notin u.up => u.todo[j] = <<>>
          /\ \A j \in Conns : j > Len(u.peer) => u.inbox[j] = <<>>
      BY DEF Good, WiresFit
    <2> QED BY ONLY <1>5, <1>10, <1>15, <1>18, <2>1 DEF WiresFit
  <1>20. CallbacksFit(v, f, s, r)
    <2>1. CallbacksFit(u, f, g, NoRequest)
      BY DEF Good
    <2>2. Handled(f, s, f) = s /\ Handled(f, g, f) = g
          /\ \A e \in Fds : e # f => Handled(f, s, e) = Handled(f, g, e)
      BY DEF Handled
    <2>3. ASSUME NEW e \in Fds, e \in v.watched, v.conn[e] # NoConn, proto = "Redis"
          PROVE  QueueFits(v.queue[e], Handled(f, s, e), v.inbox[v.conn[e]], v.todo[v.conn[e]],
                           v.conn[e] \in v.up)
      <3>1. CASE e = f
        <4>1. v.queue[f] = Tail(u.queue[f])
          BY ONLY <1>2, <1>4, <1>5, <2>3
        <4> QED BY ONLY <1>2, <1>5, <2>2, <2>3, <3>1, <4>1
      <3>2. CASE e # f
        <4>1. v.queue[e] = u.queue[e]
          BY ONLY <1>2, <1>4, <1>5, <3>2, e \in Fds
        <4>2. QueueFits(u.queue[e], Handled(f, g, e), u.inbox[u.conn[e]], u.todo[u.conn[e]],
                        u.conn[e] \in u.up)
          BY ONLY <1>5, <2>1, <2>3 DEF CallbacksFit
        <4> QED BY ONLY <1>5, <2>2, <3>2, <4>1, <4>2, e \in Fds
      <3> QED BY ONLY <3>1, <3>2
    <2>4. ASSUME NEW e \in Fds, e \in v.watched, v.conn[e] # NoConn, proto # "Redis", v.conn[e] \in v.up
          PROVE  MapFits(v.map[e] \ {r}, Handled(f, s, e), v.inbox[v.conn[e]], v.todo[v.conn[e]])
      <3>1. MapFits(u.map[e] \ {NoRequest}, Handled(f, g, e), u.inbox[u.conn[e]], u.todo[u.conn[e]])
        BY ONLY <1>5, <2>1, <2>4 DEF CallbacksFit
      <3>2. u.map[e] \ {r} \subseteq u.map[e] \ {NoRequest} /\ r \notin u.map[e] \ {r}
        <4>1. u.map[e] \subseteq Requests /\ NoRequest \notin Requests
          BY <1>4 DEF NoRequest
        <4> QED BY ONLY <4>1
      <3>3. CASE e = f
        <4>1. PICK i, o, m, n : /\ i = u.inbox[u.conn[e]] /\ o = u.todo[u.conn[e]]
                                /\ m = u.map[e] \ {NoRequest} /\ n = u.map[e] \ {r}
          OBVIOUS
        <4>2. MapFits(m, g, i, o) /\ n \subseteq m /\ Head(g) \notin n
          BY ONLY <2>2, <3>1, <3>2, <3>3, <4>1, r = Head(g)
        <4>3. MapFits(n, Tail(g), i, o)
          BY ONLY <1>1, <4>2, MapShrinks, g # <<>>
        <4> QED BY ONLY <1>0, <1>5, <2>2, <3>3, <4>1, <4>3
      <3>4. CASE e # f
        <4>1. MapFits(u.map[e] \ {r}, Handled(f, g, e), u.inbox[u.conn[e]], u.todo[u.conn[e]])
          BY ONLY <3>1, <3>2 DEF MapFits
        <4> QED BY ONLY <1>5, <2>2, <3>4, <4>1, e \in Fds
      <3> QED BY ONLY <3>3, <3>4
    <2> QED BY ONLY <2>3, <2>4 DEF CallbacksFit
  <1>21. Good(v, f, s, b, r)
    BY ONLY <1>1, <1>3, <1>7, <1>8, <1>9, <1>19, <1>20 DEF Good
  <1> QED BY <1>0, <1>21

\* The callback is erased.
Erased(u, v) ==
    /\ v \in Tables
    /\ \A e \in Fds : v.map[e] \subseteq u.map[e]
    /\ v.heard = u.heard /\ v.queue = u.queue
    /\ v.conn = u.conn /\ v.peer = u.peer /\ v.up = u.up /\ v.todo = u.todo /\ v.inbox = u.inbox
    /\ v.armed = u.armed /\ v.watched = u.watched /\ v.closing = u.closing /\ v.a2s = u.a2s
    /\ v.nreq = u.nreq /\ v.exited = u.exited

LEMMA ErasedKeeps ==
    ASSUME NEW u, NEW f, NEW g, NEW b, NEW r, Good(u, f, g, b, r), NEW v, Erased(u, v),
           proto = "Redis" \/ \A e \in u.watched : r \notin v.map[e]
    PROVE  Good(v, f, g, b, NoRequest)
  <1>1. /\ v \in Tables /\ v.nreq =< MaxReq /\ f \in Fds \union {NoFd} /\ g \in Seq(Requests)
    BY DEF Good, Erased
  <1>2. /\ \A e \in Fds : v.map[e] \subseteq u.map[e]
        /\ v.heard = u.heard /\ v.queue = u.queue
        /\ v.conn = u.conn /\ v.peer = u.peer /\ v.up = u.up /\ v.todo = u.todo /\ v.inbox = u.inbox
        /\ v.armed = u.armed /\ v.watched = u.watched /\ v.closing = u.closing /\ v.a2s = u.a2s
        /\ v.nreq = u.nreq /\ v.exited = u.exited
    BY DEF Erased
  <1>3. ConnsFit(v) /\ HeldIsWatched(v, b) /\ ReadFits(v, f, g, b) /\ HeardFits(v)
    <2>1. ConnsFit(v) /\ HeldIsWatched(v, b)
      BY <1>2 DEF Good, ConnsFit, HeldIsWatched, TheNumber
    <2>2. ReadFits(v, f, g, b) /\ HeardFits(v)
      BY <1>2 DEF Good, ReadFits, HeardFits
    <2> QED BY <2>1, <2>2
  <1>4. NumbersFit(v)
    BY <1>2 DEF Good, NumbersFit, TheNumber
  <1>5. Lanes(v, g) = Lanes(u, g)
    BY ONLY <1>2, SameLanes
  <1>6. WiresFit(v, g)
    BY <1>2, <1>5 DEF Good, WiresFit, Pending
  <1>7. CallbacksFit(v, f, g, NoRequest)
    <2>1. CallbacksFit(u, f, g, r)
      BY DEF Good
    <2>2. ASSUME NEW e \in Fds, e \in v.watched, v.conn[e] # NoConn, proto # "Redis", v.conn[e] \in v.up
          PROVE  MapFits(v.map[e] \ {NoRequest}, Handled(f, g, e), v.inbox[v.conn[e]], v.todo[v.conn[e]])
      <3>1. MapFits(u.map[e] \ {r}, Handled(f, g, e), u.inbox[u.conn[e]], u.todo[u.conn[e]])
        BY ONLY <1>2, <2>1, <2>2 DEF CallbacksFit
      <3>2. v.map[e] \ {NoRequest} \subseteq u.map[e] \ {r}
        BY <1>2, <2>2
      <3>3. MapFits(v.map[e] \ {NoRequest}, Handled(f, g, e), u.inbox[u.conn[e]], u.todo[u.conn[e]])
        BY ONLY <3>1, <3>2 DEF MapFits
      <3> QED BY ONLY <1>2, <3>3
    <2>3. ASSUME NEW e \in Fds, e \in v.watched, v.conn[e] # NoConn, proto = "Redis"
          PROVE  QueueFits(v.queue[e], Handled(f, g, e), v.inbox[v.conn[e]], v.todo[v.conn[e]],
                           v.conn[e] \in v.up)
      BY ONLY <1>2, <2>1, <2>3 DEF CallbacksFit
    <2> QED BY ONLY <2>2, <2>3 DEF CallbacksFit
  <1> QED BY ONLY <1>1, <1>3, <1>4, <1>6, <1>7 DEF Good

-----------------------------------------------------------------------------
(* A command.                                                              *)

\* A write for which the server is there, and the callback.
Writes(u, v, r, callback) ==
    v = IF callback THEN add_callback(write(u, u.a2s[1], r, "ok"), r, u.a2s[1])
        ELSE write(u, u.a2s[1], r, "ok")

LEMMA WrittenKeeps ==
    ASSUME Plain, NEW u, NEW f, NEW g, NEW b, NEW x, Good(u, f, g, b, x),
           TheNumber(u) \in Fds, TheNumber(u) \in u.watched, u.conn[TheNumber(u)] \in u.up,
           NEW r, Fresh(u, g, r), NEW callback \in BOOLEAN, callback \/ proto # "Redis",
           NEW v, Writes(u, v, r, callback)
    PROVE  /\ Good(v, f, g, b, x) /\ v.heard = u.heard
           /\ Sent(u, v, r, TheNumber(u), callback)
  <1>1. PICK fd \in Fds : fd = TheNumber(u)
    OBVIOUS
  <1>2. fd = u.a2s[1] /\ fd \in u.watched /\ u.conn[fd] \in u.up
    BY <1>1 DEF TheNumber
  <1>3. u \in Tables /\ r \in Requests
    BY DEF Good, Fresh
  <1>4. u.conn[fd] \in Conns
    BY <1>2, <1>3, TableTypes
  <1>5. PICK y : y = write(u, fd, r, "ok") /\ v = IF callback THEN add_callback(y, r, fd) ELSE y
    BY ONLY <1>2, Writes(u, v, r, callback) DEF Writes
  <1>6. Sent(u, v, r, fd, callback)
    BY ONLY <1>3, <1>4, <1>5, callback \in BOOLEAN, fd \in Fds, SentIs
  <1>7. Good(v, f, g, b, x) /\ v.heard = u.heard
    BY <1>2, <1>6, SentKeeps
  <1> QED BY ONLY <1>1, <1>6, <1>7

\* The number of the address is watched if its connection is there.
LEMMA UpIsWatched ==
    ASSUME NEW u, NEW f, NEW g, NEW b, NEW x, Good(u, f, g, b, x), ~ u.exited, TheNumber(u) # NoFd,
           u.conn[TheNumber(u)] \in u.up
    PROVE  TheNumber(u) \in u.watched
  <1> USE ConstantFacts
  <1>1. u.up \subseteq Conns
    BY TableTypes DEF Good
  <1>2. u.conn[TheNumber(u)] # NoConn
    BY <1>1
  <1> QED BY <1>2 DEF Good, HeldIsWatched

LEMMA ANumber ==
    ASSUME Plain, NEW u \in Tables
    PROVE  u.a2s[1] = TheNumber(u) /\ TheNumber(u) \in Fds \union {NoFd}
  BY ConstantFacts, TableTypes DEF TheNumber

\* A request that a callback sends.
LEMMA NestedKeeps ==
    ASSUME Plain, NEW u, NEW f, NEW g, NEW b, NEW x, Good(u, f, g, b, x), ~ u.exited, MayNest(u),
           NEW v, v = Nested(u)
    PROVE  /\ Good(v, f, g, b, x) /\ v.heard = u.heard /\ v.watched = u.watched
           /\ \A e \in Fds : v.map[e] \subseteq u.map[e] \union {u.nreq + 1}
  <1> USE ConstantFacts
  <1>1. u \in Tables /\ _get_next_address(u) = 1
    BY NextAddress DEF Good
  <1>2. u.nreq < MaxReq /\ u.a2s[1] # NoFd /\ u.conn[u.a2s[1]] \in u.up
    BY <1>1 DEF MayNest
  <1>3. PICK c, r : c = Request(u) /\ r = u.nreq + 1
    OBVIOUS
  <1>4. Good(c, f, g, b, x) /\ Fresh(c, g, r)
    BY <1>2, <1>3, RequestKeeps
  <1>5. /\ c \in Tables /\ c.conn = u.conn /\ c.up = u.up /\ c.watched = u.watched
        /\ c.a2s = u.a2s /\ c.queue = u.queue /\ c.map = u.map /\ c.heard = u.heard
        /\ c.exited = u.exited
    BY <1>1, <1>2, <1>3, RequestIs
  <1>6. PICK y : y = write(c, c.a2s[1], r, "ok")
    OBVIOUS
  <1>7. v = add_callback(y, r, c.a2s[1])
    <2>1. connect(c, 1, FALSE, TRUE) = c
      BY ONLY <1>2, <1>5 DEF connect
    <2>2. <<"ok", "ok">>[1] = "ok"
      OBVIOUS
    <2>3. v = cmd_addr(c, r, 1, TRUE, TRUE, <<"ok", "ok">>)
      BY <1>1, <1>3 DEF Nested
    <2> QED BY ONLY <1>2, <1>5, <1>6, <2>1, <2>2, <2>3 DEF cmd_addr
  <1>8. c.a2s[1] = TheNumber(c) /\ TheNumber(c) \in Fds
    BY <1>2, <1>5, ANumber
  <1>9. TheNumber(c) \in c.watched /\ c.conn[TheNumber(c)] \in c.up
    BY <1>2, <1>4, <1>5, <1>8, UpIsWatched
  <1>10. Writes(c, v, r, TRUE)
    BY ONLY <1>6, <1>7 DEF Writes
  <1>11. Good(v, f, g, b, x) /\ v.heard = c.heard /\ Sent(c, v, r, TheNumber(c), TRUE)
    BY ONLY <1>4, <1>8, <1>9, <1>10, WrittenKeeps, Plain
  <1>12. v.watched = c.watched /\ Keeps(c, v, r, TheNumber(c), TRUE)
    BY ONLY <1>11 DEF Sent, SameButWires
  <1>13. c.map \in [Fds -> SUBSET Requests]
    BY <1>5, TableTypes
  <1>14. \A e \in Fds : v.map[e] \subseteq c.map[e] \union {r}
    BY ONLY <1>8, <1>12, <1>13 DEF Keeps
  <1> QED BY ONLY <1>3, <1>5, <1>11, <1>12, <1>14

\* The second attempt, on a new connection.
Retries(u, v, r, callback, there) ==
    LET d == connect(u, 1, TRUE, there) IN
    IF d.exited \/ d.a2s[1] = NoFd THEN v = d ELSE Writes(d, v, r, callback)

MayRetry(u, f, b, r) ==
    /\ Good(u, f, <<>>, b, NoRequest) /\ ~ u.exited /\ Fresh(u, <<>>, r)
    /\ TheNumber(u) \in Fds /\ (TheNumber(u) \in u.watched => u.conn[TheNumber(u)] = NoConn)
    /\ Free(u) # {} /\ Len(u.peer) < MaxConn

Kept(u, v, f) == Good(v, f, <<>>, FALSE, NoRequest) /\ v.heard = u.heard
HasCallback(callback) == callback \in BOOLEAN /\ (callback \/ proto # "Redis")

LEMMA SecondTry ==
    ASSUME Plain, NEW u, NEW f, NEW b, NEW r, MayRetry(u, f, b, r), NEW callback, HasCallback(callback),
           NEW there, NEW v, Retries(u, v, r, callback, there)
    PROVE  Kept(u, v, f)
  <1> USE ConstantFacts
  <1>a. /\ Good(u, f, <<>>, b, NoRequest) /\ ~ u.exited /\ Fresh(u, <<>>, r)
        /\ TheNumber(u) \in Fds /\ (TheNumber(u) \in u.watched => u.conn[TheNumber(u)] = NoConn)
        /\ Free(u) # {} /\ Len(u.peer) < MaxConn
        /\ callback \in BOOLEAN /\ (callback \/ proto # "Redis")
    BY DEF MayRetry, HasCallback
  <1>1. PICK fd \in Fds : fd = TheNumber(u)
    BY <1>a
  <1>2. u \in Tables /\ fd = u.a2s[1]
    BY <1>a, <1>1 DEF Good, TheNumber
  <1>3. PICK c : c = close_addr(u, 1)
    OBVIOUS
  <1>0. PICK d : d = connect(u, 1, TRUE, there)
    OBVIOUS
  <1>4. /\ d = IF c.a2s[1] # NoFd \/ ~ there \/ c.exited THEN c ELSE open(c, 1)
        /\ IF d.exited \/ d.a2s[1] = NoFd THEN v = d ELSE Writes(d, v, r, callback)
    <2>1. d = IF c.a2s[1] # NoFd \/ ~ there \/ c.exited THEN c ELSE open(c, 1)
      BY ONLY <1>0, <1>3 DEF connect
    <2>2. IF d.exited \/ d.a2s[1] = NoFd THEN v = d ELSE Writes(d, v, r, callback)
      BY ONLY <1>0, Retries(u, v, r, callback, there) DEF Retries
    <2> QED BY ONLY <2>1, <2>2
  <1>5. ASSUME fd \in u.watched PROVE Good(v, f, <<>>, FALSE, NoRequest) /\ v.heard = u.heard
    <2>1. u.conn[fd] = NoConn
      BY <1>a, <1>1, <1>5
    <2>2. fd \notin u.armed
      BY <1>a, <2>1 DEF Good, NumbersFit
    <2>3. Ended(u, c)
      BY <1>a, <1>2, <1>3, <1>5, <2>1, <2>2, EndedIs
    <2>4. Good(c, f, <<>>, FALSE, NoRequest) /\ c.heard = u.heard
      BY <1>a, <2>3, EndedKeeps
    <2>5. c.exited = TRUE
      BY ONLY <2>3 DEF Ended
    <2>6. v = c
      BY <1>a, <1>4, <2>5
    <2> QED BY ONLY <2>4, <2>6
  <1>6. ASSUME fd \notin u.watched PROVE Good(v, f, <<>>, FALSE, NoRequest) /\ v.heard = u.heard
    <2>1. Dropped(u, c, fd)
      BY <1>a, <1>2, <1>3, <1>6, DroppedIs
    <2>2. /\ Good(c, f, <<>>, FALSE, NoRequest) /\ c.heard = u.heard /\ TheNumber(c) = NoFd
          /\ Fresh(c, <<>>, r)
      BY <1>a, <1>1, <1>6, <2>1, DroppedKeeps
    <2>3. c.a2s[1] = NoFd /\ c.conn = u.conn /\ c.peer = u.peer /\ ~ c.exited
      BY <1>a, <2>1, <2>2 DEF Dropped, TheNumber
    <2>4. CASE ~ there
      <3>1. v = c
        BY <1>a, <1>4, <2>3, <2>4
      <3> QED BY ONLY <2>2, <3>1
    <2>5. CASE there
      <3>1. d = open(c, 1) /\ Free(c) # {} /\ Len(c.peer) < MaxConn
        BY <1>a, <1>4, <2>3, <2>5 DEF Free
      <3>2. /\ Good(d, f, <<>>, FALSE, NoRequest) /\ d.heard = c.heard
            /\ TheNumber(d) \in Fds /\ TheNumber(d) \in d.watched /\ d.conn[TheNumber(d)] \in d.up
            /\ Fresh(d, <<>>, r)
        BY ONLY <2>2, <2>3, <3>1, OpenKeeps, Plain
      <3>3. CASE d.exited \/ d.a2s[1] = NoFd
        BY <1>a, <1>4, <2>2, <3>2, <3>3
      <3>4. CASE ~ (d.exited \/ d.a2s[1] = NoFd)
        <4>1. Writes(d, v, r, callback)
          BY ONLY <1>4, <3>4
        <4>2. Good(v, f, <<>>, FALSE, NoRequest) /\ v.heard = d.heard
          <5>1. PICK h, g : h = FALSE /\ g = <<>>
            OBVIOUS
          <5>2. Good(d, f, g, h, NoRequest) /\ Fresh(d, g, r)
            BY ONLY <3>2, <5>1
          <5>3. Good(v, f, g, h, NoRequest) /\ v.heard = d.heard
            BY ONLY <3>2, <4>1, <5>2, <1>a, WrittenKeeps, Plain
          <5> QED BY ONLY <5>1, <5>3
        <4> QED BY ONLY <2>2, <3>2, <4>2
      <3> QED BY ONLY <3>3, <3>4
    <2> QED BY ONLY <2>4, <2>5
  <1>7. Good(v, f, <<>>, FALSE, NoRequest) /\ v.heard = u.heard
    BY ONLY <1>5, <1>6
  <1> QED BY ONLY <1>7 DEF Kept

\* cmd_addr, case by case.
Connects(u, c, there) == c = connect(u, 1, FALSE, there)
Commands(u, v, r, callback, there, outcomes) == v = cmd_addr(u, r, 1, callback, there, outcomes)

\* What comes of the command when the first write is made on c.
Comes(c, v, r, callback, there, outcomes) ==
    /\ c.a2s[1] = NoFd => v = c
    /\ c.a2s[1] # NoFd /\ outcomes[1] = "ok" => Writes(c, v, r, callback)
    /\ c.a2s[1] # NoFd /\ outcomes[1] = "lost" =>
          v = IF callback THEN add_callback(c, r, c.a2s[1]) ELSE c
    /\ c.a2s[1] # NoFd /\ outcomes[1] = "EBADF" /\ outcomes[2] = "ok" =>
          Retries(c, v, r, callback, there)
    /\ c.a2s[1] # NoFd /\ outcomes[1] = "EPIPE" /\ outcomes[2] = "ok" =>
          Retries(close(c, c.a2s[1], FALSE), v, r, callback, there)

LEMMA CmdCases ==
    ASSUME NEW u, NEW r, NEW callback, NEW there, NEW outcomes,
           NEW v, Commands(u, v, r, callback, there, outcomes), NEW c, Connects(u, c, there)
    PROVE  Comes(c, v, r, callback, there, outcomes)
  <1>0. v = cmd_addr(u, r, 1, callback, there, outcomes) /\ c = connect(u, 1, FALSE, there)
    BY DEF Commands, Connects
  <1>1. ASSUME c.a2s[1] = NoFd PROVE v = c
    BY <1>0, <1>1 DEF cmd_addr
  <1>2. ASSUME c.a2s[1] # NoFd, outcomes[1] = "ok" PROVE Writes(c, v, r, callback)
    BY <1>0, <1>2 DEF cmd_addr, Writes
  <1>3. ASSUME c.a2s[1] # NoFd, outcomes[1] = "lost"
        PROVE  v = IF callback THEN add_callback(c, r, c.a2s[1]) ELSE c
    <2>1. write(c, c.a2s[1], r, outcomes[1]) = c
      BY ONLY <1>3 DEF write
    <2> QED BY <1>0, <1>3, <2>1 DEF cmd_addr
  <1>4. ASSUME c.a2s[1] # NoFd, outcomes[2] = "ok", outcomes[1] \in {"EPIPE", "EBADF"}, NEW x,
               x = write(c, c.a2s[1], r, outcomes[1])
        PROVE  Retries(x, v, r, callback, there)
    <2>1. PICK d : d = connect(x, 1, TRUE, there)
      OBVIOUS
    <2>2. CASE d.exited \/ d.a2s[1] = NoFd
      <3>1. v = d
        BY <1>0, <1>4, <2>1, <2>2 DEF cmd_addr
      <3> QED BY ONLY <2>1, <2>2, <3>1 DEF Retries
    <2>3. CASE ~ (d.exited \/ d.a2s[1] = NoFd)
      <3>1. PICK y : y = write(d, d.a2s[1], r, "ok")
        OBVIOUS
      <3>2. v = IF callback /\ outcomes[2] \in {"ok", "lost"} THEN add_callback(y, r, d.a2s[1]) ELSE y
        BY <1>0, <1>4, <2>1, <2>3, <3>1 DEF cmd_addr
      <3>3. Writes(d, v, r, callback)
        BY ONLY <1>4, <3>1, <3>2 DEF Writes
      <3> QED BY ONLY <2>1, <2>3, <3>3 DEF Retries
    <2> QED BY <2>2, <2>3
  <1>5. ASSUME c.a2s[1] # NoFd, outcomes[1] = "EBADF", outcomes[2] = "ok"
        PROVE  Retries(c, v, r, callback, there)
    <2>1. c = write(c, c.a2s[1], r, outcomes[1])
      BY ONLY <1>5 DEF write
    <2> QED BY ONLY <1>4, <1>5, <2>1
  <1>6. ASSUME c.a2s[1] # NoFd, outcomes[1] = "EPIPE", outcomes[2] = "ok"
        PROVE  Retries(close(c, c.a2s[1], FALSE), v, r, callback, there)
    <2>1. PICK x : x = close(c, c.a2s[1], FALSE)
      OBVIOUS
    <2>2. x = write(c, c.a2s[1], r, outcomes[1])
      BY ONLY <1>6, <2>1 DEF write
    <2> QED BY ONLY <1>4, <1>6, <2>1, <2>2
  <1> QED BY ONLY <1>1, <1>2, <1>3, <1>5, <1>6 DEF Comes

\* What the writes may come to.
LEMMA OutcomeCases ==
    ASSUME Plain, NEW u, NEW there, NEW c, c = connect(u, 1, FALSE, there), c.a2s[1] # NoFd,
           NEW outcomes \in Outcomes(u, 1, there)
    PROVE  /\ outcomes[2] = "ok" /\ outcomes[1] \in WriteOutcomes(c, c.a2s[1])
           /\ WriteOutcomes(c, c.a2s[1]) =
                 IF c.conn[c.a2s[1]] = NoConn THEN {"EBADF"}
                 ELSE IF c.conn[c.a2s[1]] \notin c.up THEN {"lost", "EPIPE"} ELSE {"ok"}
  <1>1. Awkward \intersect {"partial"} = {} /\ {"ok"} \union {} = {"ok"}
    BY DEF Plain
  <1>2. outcomes \in WriteOutcomes(c, c.a2s[1]) \X {"ok"}
    BY <1>1 DEF Outcomes
  <1>3. outcomes[2] = "ok" /\ outcomes[1] \in WriteOutcomes(c, c.a2s[1])
    BY ONLY <1>2
  <1>4. WriteOutcomes(c, c.a2s[1]) =
                 IF c.conn[c.a2s[1]] = NoConn THEN {"EBADF"}
                 ELSE IF c.conn[c.a2s[1]] \notin c.up THEN {"lost", "EPIPE"} ELSE {"ok"}
    BY ONLY <1>1 DEF WriteOutcomes
  <1> QED BY <1>3, <1>4

MayCommand(u, f) ==
    /\ Good(u, f, <<>>, FALSE, NoRequest) /\ ~ u.exited /\ u.nreq < MaxReq
    /\ Free(u) # {} /\ Len(u.peer) < MaxConn

LEMMA CmdKeeps ==
    ASSUME Plain, NEW u, NEW f, MayCommand(u, f), NEW callback, HasCallback(callback),
           NEW there \in BOOLEAN, NEW outcomes, outcomes \in Outcomes(u, 1, there),
           NEW v, Commands(Request(u), v, u.nreq + 1, callback, there, outcomes)
    PROVE  Kept(u, v, f)
  <1> USE ConstantFacts
  <1> SUFFICES ASSUME Good(u, f, <<>>, FALSE, NoRequest), ~ u.exited, u.nreq < MaxReq,
                      Free(u) # {}, Len(u.peer) < MaxConn,
                      callback \in BOOLEAN, callback \/ proto # "Redis",
                      v = cmd_addr(Request(u), u.nreq + 1, 1, callback, there, outcomes)
               PROVE  Good(v, f, <<>>, FALSE, NoRequest) /\ v.heard = u.heard
    BY DEF MayCommand, HasCallback, Commands, Kept
  <1>0. PICK q, r : q = Request(u) /\ r = u.nreq + 1
    OBVIOUS
  <1>1. u \in Tables
    BY DEF Good
  <1>2. Good(q, f, <<>>, FALSE, NoRequest) /\ Fresh(q, <<>>, r)
    <2>1. PICK h, g : h = FALSE /\ g = <<>>
      OBVIOUS
    <2>2. Good(u, f, g, h, NoRequest)
      BY <2>1
    <2>3. Good(q, f, g, h, NoRequest) /\ Fresh(q, g, q.nreq) /\ q.nreq = u.nreq + 1
      BY ONLY <1>0, <2>2, RequestKeeps, Plain, u.nreq < MaxReq
    <2> QED BY ONLY <1>0, <2>1, <2>3
  <1>3. /\ q \in Tables /\ q.conn = u.conn /\ q.up = u.up /\ q.watched = u.watched /\ q.armed = u.armed
        /\ q.a2s = u.a2s /\ q.heard = u.heard /\ q.exited = u.exited /\ q.peer = u.peer
    BY <1>0, <1>1, RequestIs
  <1>4. q.a2s[1] = TheNumber(q) /\ TheNumber(q) \in Fds \union {NoFd} /\ r \in Requests
        /\ u.a2s[1] = TheNumber(u)
    BY <1>1, <1>2, <1>3, ANumber DEF Fresh
  <1>5. Free(q) # {} /\ Len(q.peer) < MaxConn /\ ~ q.exited
    BY <1>3 DEF Free
  <1>6. PICK c : c = connect(q, 1, FALSE, there)
    OBVIOUS
  <1>7. /\ c.a2s[1] = NoFd => v = c
        /\ c.a2s[1] # NoFd /\ outcomes[1] = "ok" => Writes(c, v, r, callback)
        /\ c.a2s[1] # NoFd /\ outcomes[1] = "lost" =>
              v = IF callback THEN add_callback(c, r, c.a2s[1]) ELSE c
        /\ c.a2s[1] # NoFd /\ outcomes[1] = "EBADF" /\ outcomes[2] = "ok" =>
              Retries(c, v, r, callback, there)
        /\ c.a2s[1] # NoFd /\ outcomes[1] = "EPIPE" /\ outcomes[2] = "ok" =>
              Retries(close(c, c.a2s[1], FALSE), v, r, callback, there)
    <2>1. Commands(q, v, r, callback, there, outcomes) /\ Connects(q, c, there)
      BY <1>0, <1>6 DEF Commands, Connects
    <2>2. Comes(c, v, r, callback, there, outcomes)
      BY ONLY <2>1, CmdCases
    <2> QED BY ONLY <2>2 DEF Comes
  <1>8. CASE q.a2s[1] = NoFd /\ ~ there
    <2>1. c = q
      BY ONLY <1>6, <1>8 DEF connect
    <2> QED BY ONLY <1>2, <1>3, <1>7, <1>8, <2>1
  <1>9. CASE q.a2s[1] = NoFd /\ there
    <2>1. c = open(q, 1)
      BY ONLY <1>5, <1>6, <1>9 DEF connect
    <2>2. /\ Good(c, f, <<>>, FALSE, NoRequest) /\ c.heard = q.heard
          /\ TheNumber(c) \in Fds /\ TheNumber(c) \in c.watched /\ c.conn[TheNumber(c)] \in c.up
          /\ Fresh(c, <<>>, r)
      BY ONLY <1>2, <1>4, <1>5, <1>9, <2>1, OpenKeeps, Plain
    <2>3. PICK o : o = connect(u, 1, FALSE, there)
      OBVIOUS
    <2>4. o = open(u, 1)
      BY ONLY <1>3, <1>9, <2>3, ~ u.exited DEF connect
    <2>5. TheNumber(u) = NoFd
      BY ONLY <1>3, <1>4, <1>9
    <2>6. Good(o, f, <<>>, FALSE, NoRequest) /\ TheNumber(o) \in Fds /\ o.conn[TheNumber(o)] \in o.up
      BY <2>4, <2>5, OpenKeeps
    <2>7. o.a2s[1] = TheNumber(o) /\ o.a2s[1] # NoFd /\ o.conn[o.a2s[1]] \in o.up
          /\ o.conn[o.a2s[1]] # NoConn
      <3>1. o.a2s[1] = TheNumber(o) /\ o.up \subseteq Conns
        BY <2>6, ANumber, TableTypes DEF Good
      <3> QED BY ONLY <2>6, <3>1, ConstantFacts
    <2>8. outcomes[1] = "ok"
      <3>1. outcomes[1] \in WriteOutcomes(o, o.a2s[1]) /\ WriteOutcomes(o, o.a2s[1]) =
                 IF o.conn[o.a2s[1]] = NoConn THEN {"EBADF"}
                 ELSE IF o.conn[o.a2s[1]] \notin o.up THEN {"lost", "EPIPE"} ELSE {"ok"}
        BY ONLY <2>3, <2>7, OutcomeCases, Plain, outcomes \in Outcomes(u, 1, there)
      <3> QED BY ONLY <2>7, <3>1
    <2>9. c.a2s[1] # NoFd
      BY <2>2 DEF TheNumber
    <2>10. Writes(c, v, r, callback)
      BY ONLY <1>7, <2>8, <2>9
    <2>11. PICK h, g : h = FALSE /\ g = <<>>
      OBVIOUS
    <2>12. Good(c, f, g, h, NoRequest) /\ Fresh(c, g, r)
      BY ONLY <2>2, <2>11
    <2>13. Good(v, f, g, h, NoRequest) /\ v.heard = c.heard
      BY ONLY <2>2, <2>10, <2>12, WrittenKeeps, Plain, callback \in BOOLEAN, callback \/ proto # "Redis"
    <2> QED BY ONLY <1>3, <2>2, <2>11, <2>13
  <1>11. HasCallback(callback)
    BY DEF HasCallback
  <1>10. CASE q.a2s[1] # NoFd
    <2>1. c = q /\ connect(u, 1, FALSE, there) = u
      BY ONLY <1>3, <1>6, <1>10 DEF connect
    <2>2. PICK fd \in Fds : fd = q.a2s[1]
      BY ONLY <1>4, <1>10
    <2>3. /\ outcomes[2] = "ok" /\ outcomes[1] \in WriteOutcomes(u, u.a2s[1])
          /\ WriteOutcomes(u, u.a2s[1]) =
                 IF u.conn[u.a2s[1]] = NoConn THEN {"EBADF"}
                 ELSE IF u.conn[u.a2s[1]] \notin u.up THEN {"lost", "EPIPE"} ELSE {"ok"}
      <3>1. u.a2s[1] # NoFd
        BY <1>3, <1>10
      <3> QED BY ONLY <2>1, <3>1, OutcomeCases, Plain, outcomes \in Outcomes(u, 1, there)
    <2>4. TheNumber(q) = fd /\ u.a2s[1] = fd
      BY ONLY <1>3, <1>4, <2>2
    <2>5. CASE u.conn[fd] = NoConn
      <3>1. outcomes[1] = "EBADF"
        BY ONLY <2>3, <2>4, <2>5
      <3>3. Retries(q, v, r, callback, there)
        BY ONLY <1>7, <1>10, <2>1, <2>3, <3>1
      <3>4. TheNumber(q) \in Fds /\ (TheNumber(q) \in q.watched => q.conn[TheNumber(q)] = NoConn)
        BY ONLY <1>3, <2>4, <2>5, fd \in Fds
      <3>5. PICK h : h = FALSE
        OBVIOUS
      <3>6. Good(q, f, <<>>, h, NoRequest)
        BY ONLY <1>2, <3>5
      <3>8. Good(v, f, <<>>, FALSE, NoRequest) /\ v.heard = q.heard
        <4>1. MayRetry(q, f, h, r)
          BY ONLY <1>2, <1>5, <3>4, <3>6 DEF MayRetry
        <4>2. Kept(q, v, f)
          BY ONLY <3>3, <4>1, SecondTry, Plain, <1>11
        <4> QED BY ONLY <4>2 DEF Kept
      <3> QED BY ONLY <1>3, <3>8
    <2>6. CASE u.conn[fd] # NoConn /\ u.conn[fd] \notin u.up
      <3>1. outcomes[1] \in {"lost", "EPIPE"}
        BY ONLY <2>3, <2>4, <2>6
      <3>2. fd \in q.watched
        <4>1. HeldIsWatched(q, FALSE)
          BY <1>2 DEF Good
        <4> QED BY ONLY <1>3, <1>5, <2>4, <2>6, <4>1, ConstantFacts, fd \in Fds DEF HeldIsWatched
      <3>3. q.conn[fd] # NoConn /\ q.conn[fd] \notin q.up
        BY ONLY <1>3, <2>6
      <3>4. CASE outcomes[1] = "lost"
        <4>2. v = IF callback THEN add_callback(q, r, fd) ELSE q
          BY ONLY <1>7, <1>10, <2>1, <2>2, <3>4
        <4>3. Lost(q, v, r, fd, callback)
          BY ONLY <1>3, <1>4, <4>2, LostIs, callback \in BOOLEAN, fd \in Fds
        <4>4. Good(v, f, <<>>, FALSE, NoRequest) /\ v.heard = q.heard
          <5>1. PICK h : h = FALSE
            OBVIOUS
          <5>2. Good(q, f, <<>>, h, NoRequest)
            BY ONLY <1>2, <5>1
          <5>3. Good(v, f, <<>>, h, NoRequest) /\ v.heard = q.heard
            BY ONLY <1>4, <3>2, <3>3, <4>3, <5>2, LostKeeps, Plain, callback \in BOOLEAN, fd \in Fds
          <5> QED BY ONLY <5>1, <5>3
        <4> QED BY ONLY <1>3, <4>4
      <3>5. CASE outcomes[1] = "EPIPE"
        <4>1. PICK x : x = close(q, fd, FALSE)
          OBVIOUS
        <4>2. fd \in q.armed
          BY <1>2, <3>2, <3>3 DEF Good, NumbersFit
        <4>3. Closed(q, x, fd)
          BY ONLY <1>3, <3>2, <4>1, <4>2, ClosedIs, fd \in Fds
        <4>4. /\ Good(x, f, <<>>, TRUE, NoRequest) /\ x.heard = q.heard /\ TheNumber(x) = fd
              /\ Fresh(x, <<>>, r)
          BY ONLY <1>2, <1>5, <3>2, <3>3, <4>3, ClosedKeeps, Plain, fd \in Fds
        <4>5. fd \notin x.watched /\ ~ x.exited /\ x.conn = q.conn /\ x.peer = q.peer
          BY <1>5, <4>3 DEF Closed
        <4>6. Free(x) # {} /\ Len(x.peer) < MaxConn
          BY <1>5, <4>5 DEF Free
        <4>7. Retries(x, v, r, callback, there)
          BY ONLY <1>7, <1>10, <2>1, <2>2, <2>3, <3>5, <4>1
        <4>8. PICK h : h = TRUE
          OBVIOUS
        <4>9. Good(x, f, <<>>, h, NoRequest) /\ TheNumber(x) \in Fds
              /\ (TheNumber(x) \in x.watched => x.conn[TheNumber(x)] = NoConn)
          BY ONLY <4>4, <4>5, <4>8, fd \in Fds
        <4>11. Good(v, f, <<>>, FALSE, NoRequest) /\ v.heard = x.heard
          <5>1. MayRetry(x, f, h, r)
            BY ONLY <4>4, <4>5, <4>6, <4>9 DEF MayRetry
          <5>2. Kept(x, v, f)
            BY ONLY <4>7, <5>1, SecondTry, Plain, <1>11
          <5> QED BY ONLY <5>2 DEF Kept
        <4> QED BY ONLY <1>3, <4>4, <4>11
      <3> QED BY ONLY <3>1, <3>4, <3>5
    <2>7. CASE u.conn[fd] # NoConn /\ u.conn[fd] \in u.up
      <3>1. outcomes[1] = "ok"
        BY ONLY <2>3, <2>4, <2>7
      <3>2. TheNumber(q) \in Fds /\ TheNumber(q) # NoFd /\ q.conn[TheNumber(q)] \in q.up
        BY <1>3, <2>4, <2>7
      <3>3. TheNumber(q) \in q.watched
        BY <1>2, <1>5, <3>2, UpIsWatched
      <3>4. Writes(q, v, r, callback)
        BY ONLY <1>7, <1>10, <2>1, <3>1
      <3>5. PICK h, g : h = FALSE /\ g = <<>>
        OBVIOUS
      <3>6. Good(q, f, g, h, NoRequest) /\ Fresh(q, g, r)
        BY ONLY <1>2, <3>5
      <3>7. Good(v, f, g, h, NoRequest) /\ v.heard = q.heard
        BY ONLY <3>2, <3>3, <3>4, <3>6, WrittenKeeps, Plain, callback \in BOOLEAN, callback \/ proto # "Redis"
      <3> QED BY ONLY <1>3, <3>5, <3>7
    <2> QED BY ONLY <2>5, <2>6, <2>7
  <1> QED BY ONLY <1>8, <1>9, <1>10, there \in BOOLEAN

-----------------------------------------------------------------------------
(* The servers, and the batches of events.                                 *)

\* Replies are read: i becomes g and s.
LEMMA QueueRead ==
    ASSUME NEW q \in Seq(Requests), NEW i \in Seq(Requests), NEW o \in Seq(Requests), NEW there,
           NEW n \in 0..Len(i), QueueFits(q, <<>>, i, o, there)
    PROVE  QueueFits(q, SubSeq(i, 1, n), SubSeq(i, n + 1, Len(i)), o, there)
  <1>0. PICK g, s : g = SubSeq(i, 1, n) /\ s = SubSeq(i, n + 1, Len(i))
    OBVIOUS
  <1>1. PICK c, d, e : c = Len(i) /\ d = Len(o) /\ e = Len(q)
    OBVIOUS
  <1>2. c \in Nat /\ d \in Nat /\ e \in Nat /\ n \in Nat /\ n =< c /\ Len(<<>>) = 0
    BY <1>1
  <1>3. 0 + c + d =< e /\ (there => 0 + c + d = e)
    BY <1>1, <1>2 DEF QueueFits
  <1>4. /\ \A j \in 1..c : q[0 + j] = i[j]
        /\ \A j \in 1..d : q[0 + c + j] = o[j]
    BY <1>1, <1>2 DEF QueueFits
  <1>5. /\ Len(s) = c - n /\ \A j \in 1..(c - n) : s[j] = i[n + j]
        /\ Len(g) = n /\ \A j \in 1..n : g[j] = i[j]
    BY <1>0, <1>1, CutFacts
  <1>6. ASSUME NEW j \in 1..n PROVE q[j] = g[j]
    <2>1. j \in 1..c /\ 0 + j = j
      BY ONLY <1>2, j \in 1..n
    <2> QED BY ONLY <1>4, <1>5, <2>1, j \in 1..n
  <1>7. ASSUME NEW j \in 1..(c - n) PROVE q[n + j] = s[j]
    <2>1. n + j \in 1..c /\ 0 + (n + j) = n + j
      BY ONLY <1>2, j \in 1..(c - n)
    <2> QED BY ONLY <1>4, <1>5, <2>1, j \in 1..(c - n)
  <1>8. ASSUME NEW j \in 1..d PROVE q[n + (c - n) + j] = o[j]
    <2>1. n + (c - n) + j = 0 + c + j
      BY ONLY <1>2, j \in 1..d
    <2> QED BY ONLY <1>4, <2>1, j \in 1..d
  <1>9. n + (c - n) + d =< e /\ (there => n + (c - n) + d = e)
    BY ONLY <1>2, <1>3
  <1>10. Len(g) = n /\ Len(s) = c - n
    BY <1>5
  <1>11. QueueFits(q, g, s, o, there)
    BY ONLY <1>1, <1>6, <1>7, <1>8, <1>9, <1>10 DEF QueueFits
  <1> QED BY ONLY <1>0, <1>11

LEMMA MapRead ==
    ASSUME NEW m, NEW i \in Seq(Requests), NEW o, NEW n \in 0..Len(i), MapFits(m, <<>>, i, o)
    PROVE  MapFits(m, SubSeq(i, 1, n), SubSeq(i, n + 1, Len(i)), o)
  <1>0. PICK g, s : g = SubSeq(i, 1, n) /\ s = SubSeq(i, n + 1, Len(i))
    OBVIOUS
  <1>1. PICK c : c = Len(i)
    OBVIOUS
  <1>2. c \in Nat /\ n \in Nat /\ n =< c /\ Len(<<>>) = 0
    BY <1>1
  <1>3. /\ Len(s) = c - n /\ \A j \in 1..(c - n) : s[j] = i[n + j]
        /\ Len(g) = n /\ \A j \in 1..n : g[j] = i[j]
    BY <1>0, <1>1, CutFacts
  <1>4. ASSUME NEW y \in m
        PROVE  \/ \E j \in 1..Len(g) : g[j] = y
               \/ \E j \in 1..Len(s) : s[j] = y
               \/ \E j \in 1..Len(o) : o[j] = y
    <2>1. \/ \E j \in 1..c : i[j] = y
          \/ \E j \in 1..Len(o) : o[j] = y
      BY <1>1, <1>2 DEF MapFits
    <2>2. ASSUME NEW j \in 1..c, i[j] = y
          PROVE  (\E l \in 1..Len(g) : g[l] = y) \/ (\E l \in 1..Len(s) : s[l] = y)
      <3>1. CASE j =< n
        <4>1. j \in 1..n
          BY ONLY <1>2, <3>1, j \in 1..c
        <4> QED BY ONLY <1>3, <2>2, <4>1
      <3>2. CASE ~ (j =< n)
        <4>1. j - n \in 1..(c - n) /\ n + (j - n) = j
          BY ONLY <1>2, <3>2, j \in 1..c
        <4>2. s[j - n] = i[j]
          BY ONLY <1>3, <4>1
        <4> QED BY ONLY <1>3, <2>2, <4>1, <4>2
      <3> QED BY ONLY <3>1, <3>2
    <2> QED BY ONLY <2>1, <2>2
  <1>5. MapFits(m, g, s, o)
    BY ONLY <1>4 DEF MapFits
  <1> QED BY ONLY <1>0, <1>5

\* An answer: the n-th request of o becomes the last reply of i.
LEMMA QueueAnswered ==
    ASSUME NEW q, NEW g, NEW i \in Seq(Requests), NEW o \in Seq(Requests), NEW there,
           Len(g) \in Nat, Len(q) \in Nat, 1 \in 1..Len(o),
           QueueFits(q, g, i, o, there)
    PROVE  QueueFits(q, g, Append(i, o[1]), RemoveAt(o, 1), there)
  <1>0. PICK s, p : s = Append(i, o[1]) /\ p = RemoveAt(o, 1)
    OBVIOUS
  <1>1. PICK a, c, d, e : a = Len(g) /\ c = Len(i) /\ d = Len(o) /\ e = Len(q)
    OBVIOUS
  <1>2. a \in Nat /\ c \in Nat /\ d \in Nat /\ e \in Nat /\ 1 \in 1..d /\ o[1] \in Requests
    BY <1>1
  <1>3. a + c + d =< e /\ (there => a + c + d = e)
    BY <1>1 DEF QueueFits
  <1>4. /\ \A j \in 1..a : q[j] = g[j]
        /\ \A j \in 1..c : q[a + j] = i[j]
        /\ \A j \in 1..d : q[a + c + j] = o[j]
    BY <1>1 DEF QueueFits
  <1>5. Len(s) = c + 1 /\ (\A j \in 1..c : s[j] = i[j]) /\ s[c + 1] = o[1]
    BY <1>0, <1>1, <1>2, AppendFacts
  <1>6. Len(p) = d - 1 /\ \A j \in 1..(d - 1) : p[j] = o[j + 1]
    <2>1. Without(p, o, 1)
      BY ONLY <1>0 DEF Without
    <2>2. Removed(p, o, 1)
      BY ONLY o \in Seq(Requests), 1 \in 1..Len(o), <2>1, RemoveFacts
    <2> QED BY ONLY <1>1, <2>2 DEF Removed
  <1>7. ASSUME NEW j \in 1..(c + 1) PROVE q[a + j] = s[j]
    <2>1. CASE j = c + 1
      <3>1. a + j = a + c + 1
        BY ONLY <1>2, <2>1
      <3> QED BY ONLY <1>2, <1>4, <1>5, <2>1, <3>1
    <2>2. CASE j # c + 1
      <3>1. j \in 1..c
        BY ONLY <1>2, <2>2, j \in 1..(c + 1)
      <3> QED BY ONLY <1>4, <1>5, <3>1
    <2> QED BY ONLY <2>1, <2>2
  <1>8. ASSUME NEW j \in 1..(d - 1) PROVE q[a + (c + 1) + j] = p[j]
    <2>1. j + 1 \in 1..d /\ a + (c + 1) + j = a + c + (j + 1)
      BY ONLY <1>2, j \in 1..(d - 1)
    <2> QED BY ONLY <1>4, <1>6, <2>1, j \in 1..(d - 1)
  <1>9. a + (c + 1) + (d - 1) =< e /\ (there => a + (c + 1) + (d - 1) = e)
    BY ONLY <1>2, <1>3
  <1>10. Len(s) = c + 1 /\ Len(p) = d - 1
    BY <1>5, <1>6
  <1>11. QueueFits(q, g, s, p, there)
    BY ONLY <1>1, <1>4, <1>7, <1>8, <1>9, <1>10 DEF QueueFits
  <1> QED BY ONLY <1>0, <1>11

LEMMA MapAnswered ==
    ASSUME NEW m, NEW g, NEW i \in Seq(Requests), NEW o \in Seq(Requests), NEW n \in 1..Len(o),
           MapFits(m, g, i, o)
    PROVE  MapFits(m, g, Append(i, o[n]), RemoveAt(o, n))
  <1>0. PICK s, p : s = Append(i, o[n]) /\ p = RemoveAt(o, n)
    OBVIOUS
  <1>1. PICK c, d : c = Len(i) /\ d = Len(o)
    OBVIOUS
  <1>2. c \in Nat /\ d \in Nat /\ n \in 1..d /\ o[n] \in Requests
    BY <1>1
  <1>3. Len(s) = c + 1 /\ (\A j \in 1..c : s[j] = i[j]) /\ s[c + 1] = o[n]
    BY <1>0, <1>1, <1>2, AppendFacts
  <1>4. Len(p) = d - 1 /\ (\A j \in 1..(n - 1) : p[j] = o[j]) /\ (\A j \in n..(d - 1) : p[j] = o[j + 1])
    <2>1. Without(p, o, n)
      BY ONLY <1>0 DEF Without
    <2>2. Removed(p, o, n)
      BY ONLY o \in Seq(Requests), n \in 1..Len(o), <2>1, RemoveFacts
    <2> QED BY ONLY <1>1, <2>2 DEF Removed
  <1>5. ASSUME NEW y \in m
        PROVE  \/ \E j \in 1..Len(g) : g[j] = y
               \/ \E j \in 1..Len(s) : s[j] = y
               \/ \E j \in 1..Len(p) : p[j] = y
    <2>1. \/ \E j \in 1..Len(g) : g[j] = y
          \/ \E j \in 1..c : i[j] = y
          \/ \E j \in 1..d : o[j] = y
      BY <1>1 DEF MapFits
    <2>2. ASSUME NEW j \in 1..c, i[j] = y PROVE \E l \in 1..Len(s) : s[l] = y
      <3>1. j \in 1..(c + 1)
        BY ONLY <1>2, j \in 1..c
      <3> QED BY ONLY <1>3, <2>2, <3>1
    <2>3. ASSUME NEW j \in 1..d, o[j] = y
          PROVE  (\E l \in 1..Len(s) : s[l] = y) \/ (\E l \in 1..Len(p) : p[l] = y)
      <3>1. CASE j = n
        <4>1. c + 1 \in 1..(c + 1)
          BY ONLY <1>2
        <4> QED BY ONLY <1>3, <2>3, <3>1, <4>1
      <3>2. CASE j < n
        <4>1. j \in 1..(n - 1) /\ j \in 1..(d - 1)
          BY ONLY <1>2, <3>2, j \in 1..d
        <4> QED BY ONLY <1>4, <2>3, <4>1
      <3>3. CASE j > n
        <4>1. j - 1 \in n..(d - 1) /\ j - 1 \in 1..(d - 1) /\ (j - 1) + 1 = j
          BY ONLY <1>2, <3>3, j \in 1..d
        <4>2. p[j - 1] = o[j]
          BY ONLY <1>4, <4>1
        <4> QED BY ONLY <1>4, <2>3, <4>1, <4>2
      <3>4. j = n \/ j < n \/ j > n
        BY ONLY <1>2, j \in 1..d
      <3> QED BY ONLY <3>1, <3>2, <3>3, <3>4
    <2> QED BY ONLY <2>1, <2>2, <2>3
  <1>6. MapFits(m, g, s, p)
    BY ONLY <1>5 DEF MapFits
  <1> QED BY ONLY <1>0, <1>6

\* Only what is on the way changes.
Carried(u, v) ==
    /\ v \in Tables
    /\ v.conn = u.conn /\ v.peer = u.peer /\ v.armed = u.armed /\ v.watched = u.watched
    /\ v.closing = u.closing /\ v.a2s = u.a2s /\ v.queue = u.queue /\ v.map = u.map
    /\ v.nreq = u.nreq /\ v.heard = u.heard /\ v.exited = u.exited
    /\ v.up \subseteq u.up

\* What is left to show of such a step.
Arrived(u, g, v, h, s, b, x) ==
    /\ s \in Seq(Requests) /\ h \in Fds \union {NoFd} /\ ReadFits(v, h, s, b)
    /\ Distinct(Lanes(v, s)) /\ Within(Lanes(v, s), Lanes(u, g))
    /\ \A k \in Conns : k \notin v.up => v.todo[k] = <<>>
    /\ \A k \in Conns : k > Len(v.peer) => v.inbox[k] = <<>>
    /\ CallbacksFit(v, h, s, x)

LEMMA CarriedKeeps ==
    ASSUME NEW u, NEW f, NEW g, NEW b, NEW x, Good(u, f, g, b, x), NEW v, Carried(u, v),
           NEW h, NEW s, Arrived(u, g, v, h, s, b, x)
    PROVE  Good(v, h, s, b, x)
  <1>1. /\ v \in Tables
        /\ v.conn = u.conn /\ v.peer = u.peer /\ v.armed = u.armed /\ v.watched = u.watched
        /\ v.closing = u.closing /\ v.a2s = u.a2s /\ v.queue = u.queue /\ v.map = u.map
        /\ v.nreq = u.nreq /\ v.heard = u.heard /\ v.exited = u.exited
        /\ v.up \subseteq u.up
    BY DEF Carried
  <1>2. ConnsFit(v) /\ HeardFits(v) /\ v.nreq =< MaxReq
    BY <1>1 DEF Good, ConnsFit, HeardFits
  <1>3. NumbersFit(v)
    BY <1>1 DEF Good, NumbersFit, TheNumber
  <1>4. HeldIsWatched(v, b)
    BY <1>1 DEF Good, HeldIsWatched, TheNumber
  <1>5. Pending(u, Lanes(v, s))
    <2>1. Within(Lanes(v, s), Lanes(u, g)) /\ Pending(u, Lanes(u, g))
      BY DEF Arrived, Good, WiresFit
    <2> QED BY ONLY <2>1, WithinFacts
  <1>6. Pending(v, Lanes(v, s))
    BY ONLY <1>1, <1>5 DEF Pending
  <1>7. WiresFit(v, s)
    BY <1>6 DEF Arrived, WiresFit
  <1> QED BY <1>1, <1>2, <1>3, <1>4, <1>7 DEF Arrived, Good

\* The n-th request that the server of k has is answered.
Answering(u, v, k, n) ==
    /\ k \in u.up /\ n \in 1..Len(u.todo[k]) /\ (proto = "Redis" => n = 1)
    /\ v = [u EXCEPT !.todo[k] = RemoveAt(@, n), !.inbox[k] = Append(@, u.todo[k][n])]

LEMMA AnswersKeeps ==
    ASSUME Plain, NEW u, NEW f, NEW g, NEW b, NEW x, Good(u, f, g, b, x),
           NEW v, NEW k \in Conns, NEW n, Answering(u, v, k, n)
    PROVE  Good(v, f, g, b, x) /\ v.heard = u.heard
  <1> USE ConstantFacts
  <1> SUFFICES ASSUME k \in u.up, n \in 1..Len(u.todo[k]), proto = "Redis" => n = 1,
                      v = [u EXCEPT !.todo[k] = RemoveAt(@, n), !.inbox[k] = Append(@, u.todo[k][n])]
               PROVE  Good(v, f, g, b, x) /\ v.heard = u.heard
    BY DEF Answering
  <1>1. u \in Tables /\ g \in Seq(Requests) /\ f \in Fds \union {NoFd}
    BY DEF Good
  <1>2. /\ u.queue \in [Fds -> Seq(Requests)] /\ u.conn \in [Fds -> Nat] /\ u.up \subseteq Conns
        /\ u.todo \in [Conns -> Seq(Requests)] /\ u.inbox \in [Conns -> Seq(Requests)]
        /\ u.todo[k] \in Seq(Requests) /\ u.inbox[k] \in Seq(Requests) /\ Len(u.peer) \in Nat
    BY <1>1, TableTypes
  <1>3. PICK p, s, d, i : /\ p = RemoveAt(u.todo[k], n) /\ s = Append(u.inbox[k], u.todo[k][n])
                          /\ d = [u.todo EXCEPT ![k] = p] /\ i = [u.inbox EXCEPT ![k] = s]
    OBVIOUS
  <1>4. p \in Seq(Requests)
    <2>1. Without(p, u.todo[k], n)
      BY ONLY <1>3 DEF Without
    <2> QED BY ONLY <1>2, <2>1, RemoveFacts, n \in 1..Len(u.todo[k])
  <1>5. s \in Seq(Requests)
    <2>1. u.todo[k][n] \in Requests
      BY <1>2
    <2> QED BY ONLY <1>2, <1>3, <2>1, AppendFacts
  <1>6. v = [u EXCEPT !.todo = d, !.inbox = i]
    BY ONLY <1>1, <1>3, v = [u EXCEPT !.todo[k] = RemoveAt(@, n), !.inbox[k] = Append(@, u.todo[k][n])]
    DEF Tables
  <1>7. d \in [Conns -> Seq(Requests)] /\ i \in [Conns -> Seq(Requests)]
    BY ONLY <1>2, <1>3, <1>4, <1>5
  <1>8. v \in Tables /\ v.todo = d /\ v.inbox = i /\ v.up = u.up /\ Carried(u, v)
    <2>1. v \in Tables
      BY ONLY <1>1, <1>6, <1>7 DEF Tables
    <2>2. v.todo = d /\ v.inbox = i /\ v.up = u.up
      BY ONLY <1>1, <1>6 DEF Tables
    <2>3. Carried(u, v)
      BY ONLY <1>1, <1>6, <2>1, <2>2 DEF Carried, Tables
    <2> QED BY <2>1, <2>2, <2>3
  <1>9. /\ v.todo[k] = p /\ v.inbox[k] = s
        /\ \A j \in Conns : j # k => v.todo[j] = u.todo[j] /\ v.inbox[j] = u.inbox[j]
    BY ONLY <1>2, <1>3, <1>8, k \in Conns
  <1>10. PICK L, M : L = Lanes(u, g) /\ M = Lanes(v, g)
    OBVIOUS
  <1>11. LanesOf(L, u, g) /\ LanesOf(M, v, g)
    BY ONLY <1>1, <1>8, <1>10, LaneFacts
  <1>12. PICK a : a = MaxConn + k
    OBVIOUS
  <1>13. /\ a \in Places /\ k \in Places /\ a # k /\ L \in [Places -> Seq(Requests)]
         /\ L[a] = u.todo[k] /\ L[k] = u.inbox[k] /\ M[a] = p /\ M[k] = s
    <2>1. a # k
      BY <1>12
    <2> QED BY ONLY <1>9, <1>11, <1>12, <2>1, k \in Conns DEF LanesOf
  <1>14. ASSUME NEW y \in Places, y # a, y # k PROVE M[y] = L[y]
    <2>1. CASE y = 0
      BY ONLY <1>11, <2>1 DEF LanesOf
    <2>2. CASE y \in Conns
      <3>1. M[y] = v.inbox[y] /\ L[y] = u.inbox[y]
        BY ONLY <1>11, <2>2 DEF LanesOf
      <3> QED BY ONLY <1>9, <1>14, <2>2, <3>1
    <2>3. ASSUME NEW j \in Conns, y = MaxConn + j PROVE M[y] = L[y]
      <3>1. L[MaxConn + j] = u.todo[j] /\ M[MaxConn + j] = v.todo[j]
        BY ONLY <1>11, j \in Conns DEF LanesOf
      <3>2. j # k
        BY ONLY <1>12, <1>14, <2>3
      <3> QED BY ONLY <1>9, <2>3, <3>1, <3>2, j \in Conns
    <2>4. y = 0 \/ y \in Conns \/ \E j \in Conns : y = MaxConn + j
      BY ONLY <1>11, y \in Places DEF LanesOf
    <2> QED BY ONLY <2>1, <2>2, <2>3, <2>4
  <1>15. Distinct(L)
    BY <1>10 DEF Good, WiresFit
  <1>16. Distinct(M) /\ Within(M, L)
    <2>1. n \in 1..Len(L[a]) /\ M[a] = RemoveAt(L[a], n) /\ M[k] = Append(L[k], L[a][n])
      BY ONLY <1>3, <1>13, n \in 1..Len(u.todo[k])
    <2> QED BY ONLY <1>13, <1>14, <1>15, <2>1, AnsweredLanes
  <1>17. CallbacksFit(v, f, g, x)
    <2>1. CallbacksFit(u, f, g, x)
      BY DEF Good
    <2>2. v.conn = u.conn /\ v.watched = u.watched /\ v.queue = u.queue /\ v.map = u.map /\ v.up = u.up
      BY <1>8 DEF Carried
    <2>3. ASSUME NEW e \in Fds, u.conn[e] # NoConn PROVE u.conn[e] \in Conns
      BY <1>1, <2>3, ConnOf DEF Good
    <2>4. ASSUME NEW e \in Fds, e \in v.watched, v.conn[e] # NoConn, proto = "Redis"
          PROVE  QueueFits(v.queue[e], Handled(f, g, e), v.inbox[v.conn[e]], v.todo[v.conn[e]],
                           v.conn[e] \in v.up)
      <3>1. QueueFits(u.queue[e], Handled(f, g, e), u.inbox[u.conn[e]], u.todo[u.conn[e]],
                      u.conn[e] \in u.up)
        BY ONLY <2>1, <2>2, <2>4 DEF CallbacksFit
      <3>2. CASE u.conn[e] # k
        BY ONLY <1>9, <2>2, <2>3, <2>4, <3>1, <3>2
      <3>3. CASE u.conn[e] = k
        <4>1. PICK q, h, there : q = u.queue[e] /\ h = Handled(f, g, e) /\ there = (k \in u.up)
          OBVIOUS
        <4>2. Len(h) \in Nat /\ Len(q) \in Nat
          <5>1. h \in Seq(Requests) /\ q \in Seq(Requests)
            BY ONLY <1>1, <1>2, <4>1, e \in Fds DEF Handled
          <5> QED BY ONLY <5>1
        <4>3. n = 1
          BY <2>4
        <4>4. QueueFits(q, h, u.inbox[k], u.todo[k], there)
          BY ONLY <3>1, <3>3, <4>1
        <4>5. QueueFits(q, h, s, p, there)
          <5>1. PICK y, z : y = u.inbox[k] /\ z = u.todo[k]
            OBVIOUS
          <5>2. y \in Seq(Requests) /\ z \in Seq(Requests) /\ 1 \in 1..Len(z) /\ QueueFits(q, h, y, z, there)
            BY ONLY <1>2, <4>3, <4>4, <5>1, n \in 1..Len(u.todo[k])
          <5>3. QueueFits(q, h, Append(y, z[1]), RemoveAt(z, 1), there)
            BY ONLY <4>2, <5>2, QueueAnswered
          <5> QED BY ONLY <1>3, <4>3, <5>1, <5>3
        <4> QED BY ONLY <1>9, <2>2, <3>3, <4>1, <4>5
      <3> QED BY ONLY <3>2, <3>3
    <2>5. ASSUME NEW e \in Fds, e \in v.watched, v.conn[e] # NoConn, proto # "Redis", v.conn[e] \in v.up
          PROVE  MapFits(v.map[e] \ {x}, Handled(f, g, e), v.inbox[v.conn[e]], v.todo[v.conn[e]])
      <3>1. MapFits(u.map[e] \ {x}, Handled(f, g, e), u.inbox[u.conn[e]], u.todo[u.conn[e]])
        BY ONLY <2>1, <2>2, <2>5 DEF CallbacksFit
      <3>2. CASE u.conn[e] # k
        BY ONLY <1>9, <2>2, <2>3, <2>5, <3>1, <3>2
      <3>3. CASE u.conn[e] = k
        <4>1. PICK m, h : m = u.map[e] \ {x} /\ h = Handled(f, g, e)
          OBVIOUS
        <4>2. MapFits(m, h, u.inbox[k], u.todo[k])
          BY ONLY <3>1, <3>3, <4>1
        <4>3. MapFits(m, h, s, p)
          <5>1. PICK y, z : y = u.inbox[k] /\ z = u.todo[k]
            OBVIOUS
          <5>2. y \in Seq(Requests) /\ z \in Seq(Requests) /\ n \in 1..Len(z) /\ MapFits(m, h, y, z)
            BY ONLY <1>2, <4>2, <5>1, n \in 1..Len(u.todo[k])
          <5>3. MapFits(m, h, Append(y, z[n]), RemoveAt(z, n))
            BY ONLY <5>2, MapAnswered
          <5> QED BY ONLY <1>3, <5>1, <5>3
        <4> QED BY ONLY <1>9, <2>2, <3>3, <4>1, <4>3
      <3> QED BY ONLY <3>2, <3>3
    <2> QED BY ONLY <2>4, <2>5 DEF CallbacksFit
  <1>18. \A j \in Conns : j \notin v.up => v.todo[j] = <<>>
    BY <1>8, <1>9 DEF Good, WiresFit
  <1>19. \A j \in Conns : j > Len(v.peer) => v.inbox[j] = <<>>
    <2>1. ~ (k > Len(u.peer))
      <3>1. k \in 1..Len(u.peer)
        BY DEF Good, ConnsFit
      <3> QED BY ONLY <1>2, <3>1
    <2>2. v.peer = u.peer
      BY <1>8 DEF Carried
    <2> QED BY <1>9, <2>1, <2>2 DEF Good, WiresFit
  <1>20. ReadFits(v, f, g, b)
    BY <1>8 DEF Good, ReadFits, Carried
  <1>21. Good(v, f, g, b, x)
    <2>1. Arrived(u, g, v, f, g, b, x)
      BY ONLY <1>1, <1>10, <1>16, <1>17, <1>18, <1>19, <1>20 DEF Arrived
    <2>2. Good(u, f, g, b, x) /\ Carried(u, v)
      BY <1>8
    <2> QED BY ONLY <2>1, <2>2, CarriedKeeps
  <1> QED BY <1>8, <1>21 DEF Carried

\* The first n replies of the connection of fd are read.
TakesFrom(u, v, fd, n, g) ==
    LET k == u.conn[fd]
    IN  /\ n \in 0..Len(u.inbox[k]) /\ g = SubSeq(u.inbox[k], 1, n)
        /\ v = [u EXCEPT !.inbox[k] = SubSeq(@, n + 1, Len(@))]

MayRead(u, f, fd) ==
    /\ Good(u, f, <<>>, TRUE, NoRequest) /\ ~ u.exited
    /\ fd \in Fds /\ fd \in u.watched /\ u.conn[fd] # NoConn

LEMMA ReadsKeeps ==
    ASSUME Plain, NEW u, NEW f, NEW fd, MayRead(u, f, fd), NEW v, NEW n, NEW g, TakesFrom(u, v, fd, n, g)
    PROVE  Good(v, fd, g, TRUE, NoRequest) /\ v.heard = u.heard
  <1> USE ConstantFacts
  <1>0. PICK b, k : b = TRUE /\ k = u.conn[fd]
    OBVIOUS
  <1> SUFFICES ASSUME Good(u, f, <<>>, b, NoRequest), b, ~ u.exited,
                      fd \in Fds, fd \in u.watched, k = u.conn[fd], k # NoConn,
                      n \in 0..Len(u.inbox[k]), g = SubSeq(u.inbox[k], 1, n),
                      v = [u EXCEPT !.inbox[k] = SubSeq(@, n + 1, Len(@))]
               PROVE  Good(v, fd, g, b, NoRequest) /\ v.heard = u.heard
    BY <1>0 DEF MayRead, TakesFrom
  <1>1. u \in Tables /\ <<>> \in Seq(Requests)
    BY DEF Good
  <1>2. k \in Conns
    BY <1>1, ConnOf DEF Good
  <1>3. /\ u.queue \in [Fds -> Seq(Requests)] /\ u.conn \in [Fds -> Nat] /\ u.up \subseteq Conns
        /\ u.todo \in [Conns -> Seq(Requests)] /\ u.inbox \in [Conns -> Seq(Requests)]
        /\ u.todo[k] \in Seq(Requests) /\ u.inbox[k] \in Seq(Requests) /\ Len(u.peer) \in Nat
    BY <1>1, <1>2, TableTypes
  <1>4. PICK y, s, i : /\ y = u.inbox[k] /\ s = SubSeq(y, n + 1, Len(y))
                       /\ i = [u.inbox EXCEPT ![k] = s]
    OBVIOUS
  <1>5. s \in Seq(Requests) /\ g \in Seq(Requests) /\ y \in Seq(Requests) /\ n \in 0..Len(y)
        /\ g = SubSeq(y, 1, n)
    <2>1. y \in Seq(Requests) /\ n \in 0..Len(y) /\ g = SubSeq(y, 1, n)
      BY <1>3, <1>4
    <2> QED BY ONLY <1>4, <2>1, CutFacts
  <1>6. v = [u EXCEPT !.inbox = i]
    BY ONLY <1>1, <1>4, v = [u EXCEPT !.inbox[k] = SubSeq(@, n + 1, Len(@))] DEF Tables
  <1>7. i \in [Conns -> Seq(Requests)]
    BY ONLY <1>2, <1>3, <1>4, <1>5
  <1>8. v \in Tables /\ v.todo = u.todo /\ v.inbox = i /\ v.up = u.up /\ Carried(u, v)
    <2>1. v \in Tables
      BY ONLY <1>1, <1>6, <1>7 DEF Tables
    <2>2. v.todo = u.todo /\ v.inbox = i /\ v.up = u.up
      BY ONLY <1>1, <1>6 DEF Tables
    <2>3. Carried(u, v)
      BY ONLY <1>1, <1>6, <2>1, <2>2 DEF Carried, Tables
    <2> QED BY <2>1, <2>2, <2>3
  <1>9. v.inbox[k] = s /\ \A j \in Conns : j # k => v.inbox[j] = u.inbox[j]
    BY ONLY <1>2, <1>3, <1>4, <1>8
  <1>10. PICK L, M : L = Lanes(u, <<>>) /\ M = Lanes(v, g)
    OBVIOUS
  <1>11. LanesOf(L, u, <<>>) /\ LanesOf(M, v, g)
    BY ONLY <1>1, <1>5, <1>8, <1>10, LaneFacts
  <1>12. /\ k \in Places /\ k # 0 /\ L \in [Places -> Seq(Requests)] /\ L[0] = <<>>
         /\ L[k] = y /\ M[0] = g /\ M[k] = s
    <2>1. k # 0
      BY <1>2
    <2> QED BY ONLY <1>2, <1>4, <1>9, <1>11, <2>1 DEF LanesOf
  <1>13. ASSUME NEW z \in Places, z # 0, z # k PROVE M[z] = L[z]
    <2>1. CASE z \in Conns
      <3>1. M[z] = v.inbox[z] /\ L[z] = u.inbox[z]
        BY ONLY <1>11, <2>1 DEF LanesOf
      <3> QED BY ONLY <1>9, <1>13, <2>1, <3>1
    <2>2. ASSUME NEW j \in Conns, z = MaxConn + j PROVE M[z] = L[z]
      <3>1. L[MaxConn + j] = u.todo[j] /\ M[MaxConn + j] = v.todo[j]
        BY ONLY <1>11, j \in Conns DEF LanesOf
      <3> QED BY ONLY <1>8, <2>2, <3>1
    <2>3. z = 0 \/ z \in Conns \/ \E j \in Conns : z = MaxConn + j
      BY ONLY <1>11, z \in Places DEF LanesOf
    <2> QED BY ONLY <1>13, <2>1, <2>2, <2>3
  <1>14. Distinct(L)
    BY <1>10 DEF Good, WiresFit
  <1>15. Distinct(M) /\ Within(M, L)
    <2>1. n \in 0..Len(L[k]) /\ M[0] = SubSeq(L[k], 1, n) /\ M[k] = SubSeq(L[k], n + 1, Len(L[k]))
      BY ONLY <1>4, <1>5, <1>12
    <2> QED BY ONLY <1>12, <1>13, <1>14, <2>1, ReadLanes
  <1>16. CallbacksFit(v, fd, g, NoRequest)
    <2>1. CallbacksFit(u, f, <<>>, NoRequest)
      BY DEF Good
    <2>2. v.conn = u.conn /\ v.watched = u.watched /\ v.queue = u.queue /\ v.map = u.map
      BY <1>8 DEF Carried
    <2>3. ASSUME NEW e \in Fds, e # fd, u.conn[e] # NoConn PROVE u.conn[e] \in Conns /\ u.conn[e] # k
      <3>1. u.conn[e] \in Conns
        BY <1>1, <2>3, ConnOf DEF Good
      <3>2. u.conn[e] # k
        BY <2>3 DEF Good, ConnsFit
      <3> QED BY <3>1, <3>2
    <2>4. /\ \A e \in Fds : Handled(f, <<>>, e) = <<>> /\ (e # fd => Handled(fd, g, e) = <<>>)
          /\ Handled(fd, g, fd) = g
      BY DEF Handled
    <2>5. ASSUME NEW e \in Fds, e \in v.watched, v.conn[e] # NoConn, proto = "Redis"
          PROVE  QueueFits(v.queue[e], Handled(fd, g, e), v.inbox[v.conn[e]], v.todo[v.conn[e]],
                           v.conn[e] \in v.up)
      <3>1. QueueFits(u.queue[e], <<>>, u.inbox[u.conn[e]], u.todo[u.conn[e]], u.conn[e] \in u.up)
        BY ONLY <2>1, <2>2, <2>4, <2>5 DEF CallbacksFit
      <3>2. CASE e # fd
        BY ONLY <1>8, <1>9, <2>2, <2>3, <2>4, <2>5, <3>1, <3>2
      <3>3. CASE e = fd
        <4>1. PICK q, o, there : q = u.queue[e] /\ o = u.todo[k] /\ there = (k \in u.up)
          OBVIOUS
        <4>2. QueueFits(q, <<>>, y, o, there) /\ q \in Seq(Requests) /\ o \in Seq(Requests)
          BY ONLY <1>3, <1>4, <3>1, <3>3, <4>1, k = u.conn[fd], e \in Fds
        <4>3. QueueFits(q, g, s, o, there)
          <5>1. QueueFits(q, SubSeq(y, 1, n), SubSeq(y, n + 1, Len(y)), o, there)
            BY ONLY <1>5, <4>2, QueueRead
          <5> QED BY ONLY <1>4, <1>5, <5>1
        <4> QED BY ONLY <1>8, <1>9, <2>2, <2>4, <3>3, <4>1, <4>3, k = u.conn[fd]
      <3> QED BY ONLY <3>2, <3>3
    <2>6. ASSUME NEW e \in Fds, e \in v.watched, v.conn[e] # NoConn, proto # "Redis", v.conn[e] \in v.up
          PROVE  MapFits(v.map[e] \ {NoRequest}, Handled(fd, g, e), v.inbox[v.conn[e]], v.todo[v.conn[e]])
      <3>1. MapFits(u.map[e] \ {NoRequest}, <<>>, u.inbox[u.conn[e]], u.todo[u.conn[e]])
        BY ONLY <1>8, <2>1, <2>2, <2>4, <2>6 DEF CallbacksFit
      <3>2. CASE e # fd
        BY ONLY <1>8, <1>9, <2>2, <2>3, <2>4, <2>6, <3>1, <3>2
      <3>3. CASE e = fd
        <4>1. PICK m, o : m = u.map[e] \ {NoRequest} /\ o = u.todo[k]
          OBVIOUS
        <4>2. MapFits(m, <<>>, y, o)
          BY ONLY <1>4, <3>1, <3>3, <4>1, k = u.conn[fd]
        <4>3. MapFits(m, g, s, o)
          <5>1. MapFits(m, SubSeq(y, 1, n), SubSeq(y, n + 1, Len(y)), o)
            BY ONLY <1>5, <4>2, MapRead
          <5> QED BY ONLY <1>4, <1>5, <5>1
        <4> QED BY ONLY <1>8, <1>9, <2>2, <2>4, <3>3, <4>1, <4>3, k = u.conn[fd]
      <3> QED BY ONLY <3>2, <3>3
    <2> QED BY ONLY <2>5, <2>6 DEF CallbacksFit
  <1>17. \A j \in Conns : j \notin v.up => v.todo[j] = <<>>
    BY <1>8 DEF Good, WiresFit
  <1>18. \A j \in Conns : j > Len(v.peer) => v.inbox[j] = <<>>
    <2>1. ~ (k > Len(u.peer))
      <3>1. k =< Len(u.peer)
        BY DEF Good, ConnsFit
      <3> QED BY ONLY <1>2, <1>3, <3>1, ConstantFacts
    <2>2. v.peer = u.peer
      BY <1>8 DEF Carried
    <2> QED BY <1>9, <2>1, <2>2 DEF Good, WiresFit
  <1>19. ReadFits(v, fd, g, b)
    BY <1>8 DEF ReadFits, Carried
  <1>20. Arrived(u, <<>>, v, fd, g, b, NoRequest)
    <2>1. fd \in Fds \union {NoFd}
      OBVIOUS
    <2> QED BY ONLY <1>5, <1>10, <1>15, <1>16, <1>17, <1>18, <1>19, <2>1 DEF Arrived
  <1>21. Good(v, fd, g, b, NoRequest)
    <2>1. Good(u, f, <<>>, b, NoRequest) /\ Carried(u, v)
      BY <1>8
    <2>2. PICK h : h = <<>>
      OBVIOUS
    <2>3. Good(u, f, h, b, NoRequest) /\ Arrived(u, h, v, fd, g, b, NoRequest)
      BY ONLY <1>20, <2>1, <2>2
    <2> QED BY ONLY <2>1, <2>3, CarriedKeeps
  <1> QED BY <1>8, <1>21 DEF Carried

\* The server of k goes.
Going(u, v, k) == k \in u.up /\ v = [u EXCEPT !.up = @ \ {k}, !.todo[k] = <<>>]

LEMMA ServerClosesKeeps ==
    ASSUME Plain, NEW u, NEW f, NEW g, NEW b, NEW x, Good(u, f, g, b, x),
           NEW v, NEW k \in Conns, Going(u, v, k)
    PROVE  Good(v, f, g, b, x) /\ v.heard = u.heard
  <1> USE ConstantFacts
  <1> SUFFICES ASSUME k \in u.up, v = [u EXCEPT !.up = @ \ {k}, !.todo[k] = <<>>]
               PROVE  Good(v, f, g, b, x) /\ v.heard = u.heard
    BY DEF Going
  <1>1. u \in Tables /\ g \in Seq(Requests) /\ f \in Fds \union {NoFd} /\ <<>> \in Seq(Requests)
    BY DEF Good
  <1>2. /\ u.up \subseteq Conns
        /\ u.todo \in [Conns -> Seq(Requests)] /\ u.inbox \in [Conns -> Seq(Requests)]
    BY <1>1, TableTypes
  <1>3. PICK d, a : d = [u.todo EXCEPT ![k] = <<>>] /\ a = u.up \ {k}
    OBVIOUS
  <1>4. v = [u EXCEPT !.up = a, !.todo = d]
    BY ONLY <1>1, <1>3, v = [u EXCEPT !.up = @ \ {k}, !.todo[k] = <<>>] DEF Tables
  <1>5. d \in [Conns -> Seq(Requests)] /\ a \subseteq Conns
    BY ONLY <1>1, <1>2, <1>3
  <1>6. v \in Tables /\ v.todo = d /\ v.inbox = u.inbox /\ v.up = a /\ Carried(u, v)
    <2>1. v \in Tables
      BY ONLY <1>1, <1>4, <1>5 DEF Tables
    <2>2. v.todo = d /\ v.inbox = u.inbox /\ v.up = a /\ a \subseteq u.up
      BY ONLY <1>1, <1>3, <1>4 DEF Tables
    <2>3. Carried(u, v)
      BY ONLY <1>1, <1>4, <2>1, <2>2 DEF Carried, Tables
    <2> QED BY <2>1, <2>2, <2>3
  <1>7. v.todo[k] = <<>> /\ \A j \in Conns : j # k => v.todo[j] = u.todo[j]
    BY ONLY <1>2, <1>3, <1>6, k \in Conns
  <1>8. PICK L, M : L = Lanes(u, g) /\ M = Lanes(v, g)
    OBVIOUS
  <1>9. LanesOf(L, u, g) /\ LanesOf(M, v, g)
    BY ONLY <1>1, <1>6, <1>8, LaneFacts
  <1>10. ASSUME NEW y \in Places PROVE M[y] = L[y] \/ M[y] = <<>>
    <2>1. CASE y = 0
      BY ONLY <1>9, <2>1 DEF LanesOf
    <2>2. CASE y \in Conns
      BY ONLY <1>6, <1>9, <2>2 DEF LanesOf
    <2>3. ASSUME NEW j \in Conns, y = MaxConn + j PROVE M[y] = L[y] \/ M[y] = <<>>
      <3>1. L[MaxConn + j] = u.todo[j] /\ M[MaxConn + j] = v.todo[j]
        BY ONLY <1>9, j \in Conns DEF LanesOf
      <3> QED BY ONLY <1>7, <2>3, <3>1, j \in Conns
    <2>4. y = 0 \/ y \in Conns \/ \E j \in Conns : y = MaxConn + j
      BY ONLY <1>9, y \in Places DEF LanesOf
    <2> QED BY ONLY <2>1, <2>2, <2>3, <2>4
  <1>11. Distinct(M) /\ Within(M, L)
    <2>1. Distinct(L)
      BY <1>8 DEF Good, WiresFit
    <2> QED BY ONLY <1>10, <2>1, EmptiedLanes
  <1>12. CallbacksFit(v, f, g, x)
    <2>1. CallbacksFit(u, f, g, x)
      BY DEF Good
    <2>2. v.conn = u.conn /\ v.watched = u.watched /\ v.queue = u.queue /\ v.map = u.map
      BY <1>6 DEF Carried
    <2>3. ASSUME NEW e \in Fds, u.conn[e] # NoConn PROVE u.conn[e] \in Conns
      BY <1>1, <2>3, ConnOf DEF Good
    <2>4. ASSUME NEW e \in Fds, e \in v.watched, v.conn[e] # NoConn, proto = "Redis"
          PROVE  QueueFits(v.queue[e], Handled(f, g, e), v.inbox[v.conn[e]], v.todo[v.conn[e]],
                           v.conn[e] \in v.up)
      <3>1. QueueFits(u.queue[e], Handled(f, g, e), u.inbox[u.conn[e]], u.todo[u.conn[e]],
                      u.conn[e] \in u.up)
        BY ONLY <2>1, <2>2, <2>4 DEF CallbacksFit
      <3>2. CASE u.conn[e] # k
        <4>1. (v.conn[e] \in v.up) = (u.conn[e] \in u.up)
          BY ONLY <1>3, <1>6, <2>2, <3>2
        <4> QED BY ONLY <1>6, <1>7, <2>2, <2>3, <2>4, <3>1, <3>2, <4>1
      <3>3. CASE u.conn[e] = k
        <4>1. PICK q, h, y, o : q = u.queue[e] /\ h = Handled(f, g, e) /\ y = u.inbox[k] /\ o = u.todo[k]
          OBVIOUS
        <4>2. Len(h) \in Nat /\ Len(y) \in Nat /\ Len(o) \in Nat /\ Len(q) \in Nat /\ Len(<<>>) = 0
          <5>1. u.queue[e] \in Seq(Requests)
            BY <1>1, TableTypes
          <5>2. h \in Seq(Requests) /\ y \in Seq(Requests) /\ o \in Seq(Requests) /\ q \in Seq(Requests)
            BY ONLY <1>1, <1>2, <4>1, <5>1, k \in Conns DEF Handled
          <5> QED BY ONLY <5>2
        <4>3. QueueFits(q, h, y, o, u.conn[e] \in u.up)
          BY ONLY <3>1, <3>3, <4>1
        <4>4. Len(h) + Len(y) + Len(<<>>) =< Len(q)
          <5>1. Len(h) + Len(y) + Len(o) =< Len(q)
            BY ONLY <4>3 DEF QueueFits
          <5> QED BY ONLY <4>2, <5>1
        <4>5. QueueFits(q, h, y, <<>>, FALSE)
          BY ONLY <4>2, <4>3, <4>4 DEF QueueFits
        <4>6. (v.conn[e] \in v.up) = FALSE
          BY ONLY <1>3, <1>6, <2>2, <3>3
        <4> QED BY ONLY <1>6, <1>7, <2>2, <3>3, <4>1, <4>5, <4>6
      <3> QED BY ONLY <3>2, <3>3
    <2>5. ASSUME NEW e \in Fds, e \in v.watched, v.conn[e] # NoConn, proto # "Redis", v.conn[e] \in v.up
          PROVE  MapFits(v.map[e] \ {x}, Handled(f, g, e), v.inbox[v.conn[e]], v.todo[v.conn[e]])
      <3>1. u.conn[e] # k /\ u.conn[e] \in u.up
        BY ONLY <1>3, <1>6, <2>2, <2>5
      <3>2. MapFits(u.map[e] \ {x}, Handled(f, g, e), u.inbox[u.conn[e]], u.todo[u.conn[e]])
        BY ONLY <2>1, <2>2, <2>5, <3>1 DEF CallbacksFit
      <3> QED BY ONLY <1>6, <1>7, <2>2, <2>3, <2>5, <3>1, <3>2
    <2> QED BY ONLY <2>4, <2>5 DEF CallbacksFit
  <1>13. \A j \in Conns : j \notin v.up => v.todo[j] = <<>>
    BY <1>3, <1>6, <1>7 DEF Good, WiresFit
  <1>14. \A j \in Conns : j > Len(v.peer) => v.inbox[j] = <<>>
    BY <1>6 DEF Good, WiresFit, Carried
  <1>15. ReadFits(v, f, g, b)
    BY <1>6 DEF Good, ReadFits, Carried
  <1>16. Good(v, f, g, b, x)
    <2>1. Arrived(u, g, v, f, g, b, x)
      BY ONLY <1>1, <1>8, <1>11, <1>12, <1>13, <1>14, <1>15 DEF Arrived
    <2>2. Good(u, f, g, b, x) /\ Carried(u, v)
      BY <1>6
    <2> QED BY ONLY <2>1, <2>2, CarriedKeeps
  <1> QED BY <1>6, <1>16 DEF Carried

\* The end of a batch of events: the numbers to be closed are free.
Swept(u, v) ==
    /\ v \in Tables
    /\ \A fd \in Fds : v.conn[fd] = IF fd \in u.closing THEN NoConn ELSE u.conn[fd]
    /\ v.armed = u.armed \ u.closing /\ v.closing = {}
    /\ v.peer = u.peer /\ v.up = u.up /\ v.todo = u.todo /\ v.inbox = u.inbox
    /\ v.watched = u.watched /\ v.a2s = u.a2s /\ v.queue = u.queue /\ v.map = u.map
    /\ v.nreq = u.nreq /\ v.heard = u.heard /\ v.exited = u.exited

LEMMA SweptIs ==
    ASSUME NEW u \in Tables,
           NEW v, v = [u EXCEPT !.conn = [fd \in Fds |-> IF fd \in u.closing THEN NoConn ELSE @[fd]],
                                !.armed = @ \ u.closing, !.closing = {}]
    PROVE  Swept(u, v)
  <1> USE ConstantFacts
  <1>1. PICK c, a : /\ c = [fd \in Fds |-> IF fd \in u.closing THEN NoConn ELSE u.conn[fd]]
                    /\ a = u.armed \ u.closing
    OBVIOUS
  <1>2. v = [u EXCEPT !.conn = c, !.armed = a, !.closing = {}]
    BY <1>1 DEF Tables
  <1>3. c \in [Fds -> Nat]
    <2>1. u.conn \in [Fds -> Nat] /\ NoConn \in Nat
      BY TableTypes
    <2> QED BY ONLY <1>1, <2>1
  <1>4. a \subseteq Fds
    BY <1>1, TableTypes
  <1>5. v \in Tables
    BY ONLY <1>2, <1>3, <1>4, u \in Tables DEF Tables
  <1>6. /\ v.conn = c /\ v.armed = a /\ v.closing = {}
        /\ v.peer = u.peer /\ v.up = u.up /\ v.todo = u.todo /\ v.inbox = u.inbox
        /\ v.watched = u.watched /\ v.a2s = u.a2s /\ v.queue = u.queue /\ v.map = u.map
        /\ v.nreq = u.nreq /\ v.heard = u.heard /\ v.exited = u.exited
    BY ONLY <1>2, u \in Tables DEF Tables
  <1> QED BY ONLY <1>1, <1>5, <1>6 DEF Swept

LEMMA SweptKeeps ==
    ASSUME Plain, NEW u, NEW f, NEW b, Good(u, f, <<>>, b, NoRequest), ~ u.exited,
           NEW v, Swept(u, v), NEW c
    PROVE  Good(v, NoFd, <<>>, c, NoRequest) /\ v.heard = u.heard
  <1> USE ConstantFacts
  <1>1. u \in Tables /\ v \in Tables /\ v.nreq =< MaxReq /\ <<>> \in Seq(Requests)
    BY DEF Good, Swept
  <1>2. /\ \A fd \in Fds : v.conn[fd] = IF fd \in u.closing THEN NoConn ELSE u.conn[fd]
        /\ v.armed = u.armed \ u.closing /\ v.closing = {}
        /\ v.peer = u.peer /\ v.up = u.up /\ v.todo = u.todo /\ v.inbox = u.inbox
        /\ v.watched = u.watched /\ v.a2s = u.a2s /\ v.queue = u.queue /\ v.map = u.map
        /\ v.nreq = u.nreq /\ v.heard = u.heard /\ v.exited = u.exited
    BY DEF Swept
  <1>3. u.armed \subseteq Fds /\ u.watched \subseteq Fds /\ u.closing \subseteq Fds
    BY <1>1, TableTypes
  <1>4. \A fd \in Fds : v.conn[fd] = NoConn \/ (v.conn[fd] = u.conn[fd] /\ fd \notin u.closing)
    BY ONLY <1>2
  <1>5. ConnsFit(v)
    <2>1. /\ Len(u.peer) =< MaxConn /\ u.up \subseteq 1..Len(u.peer) /\ Len(u.peer) \in Nat
          /\ \A fd \in Fds : u.conn[fd] =< Len(u.peer)
          /\ \A d, e \in Fds : u.conn[d] = u.conn[e] /\ u.conn[d] # NoConn => d = e
      BY <1>1, TableTypes DEF Good, ConnsFit
    <2>2. \A fd \in Fds : v.conn[fd] =< Len(v.peer)
      BY <1>2, <1>4, <2>1
    <2>3. \A d, e \in Fds : v.conn[d] = v.conn[e] /\ v.conn[d] # NoConn => d = e
      BY ONLY <1>4, <2>1
    <2> QED BY ONLY <1>2, <2>1, <2>2, <2>3 DEF ConnsFit
  <1>6. NumbersFit(v)
    <2>1. NumbersFit(u)
      BY DEF Good
    <2>2. \A fd \in v.armed : v.conn[fd] # NoConn
      BY ONLY <1>2, <1>3, <2>1 DEF NumbersFit
    <2>3. \A fd \in v.watched : fd \notin v.armed => v.conn[fd] = NoConn
      BY ONLY <1>2, <1>3, <2>1 DEF NumbersFit
    <2> QED BY ONLY <1>2, <2>1, <2>2, <2>3 DEF NumbersFit, TheNumber
  <1>7. HeldIsWatched(v, c)
    <2>1. HeldIsWatched(u, b)
      BY DEF Good
    <2>2. TheNumber(v) = TheNumber(u) /\ TheNumber(u) \in Fds \union {NoFd}
      BY <1>1, <1>2, ANumber DEF TheNumber
    <2> QED BY ONLY <1>2, <2>1, <2>2 DEF HeldIsWatched
  <1>8. Lanes(v, <<>>) = Lanes(u, <<>>)
    BY ONLY <1>2, SameLanes
  <1>9. WiresFit(v, <<>>)
    BY <1>2, <1>8 DEF Good, WiresFit, Pending
  <1>10. CallbacksFit(v, NoFd, <<>>, NoRequest)
    <2>1. CallbacksFit(u, f, <<>>, NoRequest)
      BY DEF Good
    <2>2. \A e \in Fds : Handled(f, <<>>, e) = <<>> /\ Handled(NoFd, <<>>, e) = <<>>
      BY DEF Handled
    <2>3. \A e \in Fds : v.conn[e] # NoConn => v.conn[e] = u.conn[e]
      BY ONLY <1>4
    <2> QED BY ONLY <1>2, <2>1, <2>2, <2>3 DEF CallbacksFit
  <1>11. HeardFits(v) /\ ReadFits(v, NoFd, <<>>, c)
    BY <1>2 DEF Good, HeardFits, ReadFits
  <1> QED BY <1>1, <1>2, <1>5, <1>6, <1>7, <1>9, <1>10, <1>11 DEF Good

LEMMA HangsUpKeeps ==
    ASSUME Plain, NEW u, NEW f, NEW b, Good(u, f, <<>>, b, NoRequest), b = TRUE, ~ u.exited,
           NEW fd \in Fds, fd \in u.watched, fd \in u.armed, u.conn[fd] \notin u.up,
           NEW v, v = close(u, fd, FALSE)
    PROVE  Good(v, f, <<>>, b, NoRequest) /\ v.heard = u.heard
  <1>1. u \in Tables
    BY DEF Good
  <1>2. Closed(u, v, fd)
    <2>1. PICK force \in BOOLEAN : v = close(u, fd, force)
      OBVIOUS
    <2> QED BY ONLY <1>1, <2>1, ClosedIs, fd \in Fds, fd \in u.watched, fd \in u.armed
  <1>3. Good(v, f, <<>>, TRUE, NoRequest) /\ v.heard = u.heard
    BY <1>2, ClosedKeeps
  <1> QED BY <1>3

-----------------------------------------------------------------------------
(* A reply.                                                                *)

\* The callback that was called may have sent a request.
MaySend(c, v, nested) == v = IF nested THEN Nested(c) ELSE c

\* Nothing is left of the callback of r that would wait for another reply.
NotLeft(u, z, f, r) == proto = "Redis" \/ r \notin u.map[f] \/ r \notin z.map[f]

LEMMA SendsKeeps ==
    ASSUME Plain, NEW u, NEW f, NEW g, NEW b, Good(u, f, g, b, NoRequest), g # <<>>,
           NEW r, r = Head(g), NEW c, Took(u, c, f, r),
           NEW nested \in BOOLEAN, nested => MayNest(u), NEW v, MaySend(c, v, nested)
    PROVE  /\ Good(v, f, Tail(g), b, r) /\ v.heard = c.heard /\ v.watched = u.watched
           /\ \A e \in Fds : v.map[e] \subseteq u.map[e] \union {u.nreq + 1}
  <1>1. PICK s : s = Tail(g)
    OBVIOUS
  <1>2. ~ u.exited
    BY ONLY ReadHead, Plain, Good(u, f, g, b, NoRequest), g # <<>>
  <1>3. u \in Tables /\ c \in Tables
    BY DEF Good, Took
  <1>4. Good(c, f, s, b, r)
    <2>1. Good(c, f, Tail(g), b, r)
      BY ONLY TookKeeps, Plain, Good(u, f, g, b, NoRequest), g # <<>>, r = Head(g), Took(u, c, f, r)
    <2> QED BY <1>1, <2>1
  <1>5. /\ c.conn = u.conn /\ c.up = u.up /\ c.watched = u.watched /\ c.a2s = u.a2s /\ c.map = u.map
        /\ c.nreq = u.nreq /\ c.exited = u.exited
    BY DEF Took
  <1>6. CASE nested
    <2>1. MayNest(c)
      <3>1. _get_next_address(u) = 1 /\ _get_next_address(c) = 1
        BY <1>3, NextAddress
      <3> QED BY <1>5, <1>6, <3>1 DEF MayNest
    <2>2. ~ c.exited /\ v = Nested(c)
      BY <1>2, <1>5, <1>6 DEF MaySend
    <2>3. /\ Good(v, f, s, b, r) /\ v.heard = c.heard /\ v.watched = c.watched
          /\ \A e \in Fds : v.map[e] \subseteq c.map[e] \union {c.nreq + 1}
      BY ONLY <1>4, <2>1, <2>2, NestedKeeps, Plain
    <2> QED BY ONLY <1>1, <1>5, <2>3
  <1>7. CASE ~ nested
    <2>1. v = c
      BY <1>7 DEF MaySend
    <2> QED BY <1>1, <1>4, <1>5, <2>1
  <1> QED BY <1>6, <1>7

LEMMA RepliedKeeps ==
    ASSUME Plain, NEW u, NEW f, NEW g, NEW b, Good(u, f, g, b, NoRequest), g # <<>>,
           NEW r, r = Head(g), NEW v, Good(v, f, Tail(g), b, r), v.watched = u.watched,
           \A e \in Fds : v.map[e] \subseteq u.map[e] \union {u.nreq + 1},
           NEW z, Erased(v, z), NotLeft(u, z, f, r)
    PROVE  Good(z, f, Tail(g), b, NoRequest) /\ z.heard = v.heard
  <1> USE ConstantFacts
  <1>1. PICK s : s = Tail(g)
    OBVIOUS
  <1>2. /\ f \in Fds /\ f \in u.watched /\ ~ u.exited /\ r \in Requests /\ r =< u.nreq
    BY ONLY ReadHead, Plain, Good(u, f, g, b, NoRequest), g # <<>>, r = Head(g)
  <1>3. u.nreq \in Nat /\ u.watched \subseteq Fds
    BY TableTypes DEF Good
  <1>4. \A e \in u.watched : e = f
    BY <1>2 DEF Good, NumbersFit
  <1>5. \A e \in Fds : z.map[e] \subseteq v.map[e]
    BY DEF Erased
  <1>6. r # u.nreq + 1
    BY ONLY <1>2, <1>3, ConstantFacts
  <1>7. proto = "Redis" \/ \A e \in v.watched : r \notin z.map[e]
    BY <1>2, <1>4, <1>5, <1>6 DEF NotLeft
  <1>8. Good(z, f, s, b, NoRequest)
    <2>1. Good(v, f, s, b, r)
      BY <1>1
    <2> QED BY ONLY <1>7, <2>1, ErasedKeeps, Erased(v, z)
  <1>9. z.heard = v.heard
    BY DEF Erased
  <1> QED BY <1>1, <1>8, <1>9

LEMMA CallTakes ==
    ASSUME NEW u \in Tables, NEW f \in Fds, NEW r \in Requests, u.heard[r] = <<>>,
           NEW c, c = [u EXCEPT !.heard[r] = Append(@, r)], proto # "Redis"
    PROVE  Took(u, c, f, r) /\ c.heard = [u.heard EXCEPT ![r] = <<r>>]
  <1>1. PICK h : h = [u.heard EXCEPT ![r] = <<r>>]
    OBVIOUS
  <1>2. u.heard \in [Requests -> Seq(Requests)] /\ Append(<<>>, r) = <<r>> /\ <<r>> \in Seq(Requests)
    BY TableTypes
  <1>3. c = [u EXCEPT !.heard = h]
    BY <1>1, <1>2 DEF Tables
  <1>4. h \in [Requests -> Seq(Requests)]
    BY ONLY <1>1, <1>2
  <1>5. c \in Tables
    BY ONLY <1>3, <1>4, u \in Tables DEF Tables
  <1>6. /\ c.heard = h /\ c.queue = u.queue
        /\ c.conn = u.conn /\ c.peer = u.peer /\ c.up = u.up /\ c.todo = u.todo /\ c.inbox = u.inbox
        /\ c.armed = u.armed /\ c.watched = u.watched /\ c.closing = u.closing /\ c.a2s = u.a2s
        /\ c.map = u.map /\ c.nreq = u.nreq /\ c.exited = u.exited
    BY ONLY <1>3, u \in Tables DEF Tables
  <1> QED BY ONLY <1>1, <1>5, <1>6, proto # "Redis" DEF Took

\* The next callback is called for r.
TakesNext(u, c, f, r) ==
    LET d == [u EXCEPT !.queue[f] = Tail(u.queue[f])]
    IN  c = [d EXCEPT !.heard[r] = Append(@, r)]

LEMMA RedisCallTakes ==
    ASSUME NEW u \in Tables, NEW f \in Fds, NEW r \in Requests, u.heard[r] = <<>>, u.queue[f] # <<>>,
           NEW c, TakesNext(u, c, f, r), proto = "Redis"
    PROVE  Took(u, c, f, r) /\ c.heard = [u.heard EXCEPT ![r] = <<r>>]
  <1>0. PICK d : d = [u EXCEPT !.queue[f] = Tail(u.queue[f])] /\ c = [d EXCEPT !.heard[r] = Append(@, r)]
    BY DEF TakesNext
  <1>1. PICK h, p, q : /\ h = [u.heard EXCEPT ![r] = <<r>>] /\ p = Tail(u.queue[f])
                       /\ q = [u.queue EXCEPT ![f] = p]
    OBVIOUS
  <1>2. /\ u.heard \in [Requests -> Seq(Requests)] /\ Append(<<>>, r) = <<r>> /\ <<r>> \in Seq(Requests)
        /\ u.queue \in [Fds -> Seq(Requests)]
    BY TableTypes
  <1>3. p \in Seq(Requests)
    <2>1. u.queue[f] \in Seq(Requests)
      BY <1>2
    <2> QED BY ONLY <1>1, <2>1, TailFacts, u.queue[f] # <<>>
  <1>4. d = [u EXCEPT !.queue = q]
    BY <1>0, <1>1 DEF Tables
  <1>5. d.heard = u.heard
    BY ONLY <1>4, u \in Tables DEF Tables
  <1>6. c = [u EXCEPT !.queue = q, !.heard = h]
    <2>1. c = [d EXCEPT !.heard = h]
      <3>1. [d.heard EXCEPT ![r] = Append(@, r)] = h
        BY ONLY <1>1, <1>2, <1>5, u.heard[r] = <<>>, r \in Requests
      <3> QED BY <1>0, <3>1
    <2> QED BY ONLY <1>4, <2>1, u \in Tables DEF Tables
  <1>7. h \in [Requests -> Seq(Requests)] /\ q \in [Fds -> Seq(Requests)]
    BY ONLY <1>1, <1>2, <1>3
  <1>8. c \in Tables
    BY ONLY <1>6, <1>7, u \in Tables DEF Tables
  <1>9. /\ c.heard = h /\ c.queue = q
        /\ c.conn = u.conn /\ c.peer = u.peer /\ c.up = u.up /\ c.todo = u.todo /\ c.inbox = u.inbox
        /\ c.armed = u.armed /\ c.watched = u.watched /\ c.closing = u.closing /\ c.a2s = u.a2s
        /\ c.map = u.map /\ c.nreq = u.nreq /\ c.exited = u.exited
    BY ONLY <1>6, u \in Tables DEF Tables
  <1> QED BY ONLY <1>1, <1>8, <1>9, proto = "Redis" DEF Took

\* A callback is called for r, and may send a request.
LEMMA CallsIs ==
    ASSUME NEW u, NEW r, NEW nested \in BOOLEAN, NEW v, v = Calls(u, r, r, nested),
           NEW c, c = [u EXCEPT !.heard[r] = Append(@, r)]
    PROVE  MaySend(c, v, nested)
  BY DEF Calls, MaySend

LEMMA SameIsErased == ASSUME NEW v \in Tables PROVE Erased(v, v)
  BY DEF Erased

LEMMA EntryIsErased ==
    ASSUME NEW v \in Tables, NEW f \in Fds, NEW r, NEW z, z = [v EXCEPT !.map[f] = @ \ {r}]
    PROVE  Erased(v, z) /\ r \notin z.map[f]
  <1>1. PICK m : m = [v.map EXCEPT ![f] = v.map[f] \ {r}]
    OBVIOUS
  <1>2. z = [v EXCEPT !.map = m]
    BY <1>1 DEF Tables
  <1>3. v.map \in [Fds -> SUBSET Requests]
    BY TableTypes
  <1>4. m \in [Fds -> SUBSET Requests] /\ r \notin m[f] /\ \A e \in Fds : m[e] \subseteq v.map[e]
    BY ONLY <1>1, <1>3, f \in Fds
  <1>5. z \in Tables
    BY ONLY <1>2, <1>4, v \in Tables DEF Tables
  <1>6. /\ z.map = m /\ z.heard = v.heard /\ z.queue = v.queue
        /\ z.conn = v.conn /\ z.peer = v.peer /\ z.up = v.up /\ z.todo = v.todo /\ z.inbox = v.inbox
        /\ z.armed = v.armed /\ z.watched = v.watched /\ z.closing = v.closing /\ z.a2s = v.a2s
        /\ z.nreq = v.nreq /\ z.exited = v.exited
    BY ONLY <1>2, v \in Tables DEF Tables
  <1> QED BY ONLY <1>4, <1>5, <1>6 DEF Erased

\* The state after a reply: what its callback heard, and nothing else.
Told(u, z, f, g, b) ==
    /\ Good(z, f, Tail(g), b, NoRequest)
    /\ z.heard = [u.heard EXCEPT ![Head(g)] = <<Head(g)>>]

LEMMA RedisReplyKeeps ==
    ASSUME Plain, NEW u, NEW f, NEW g, NEW b, Good(u, f, g, b, NoRequest), g # <<>>, proto = "Redis",
           NEW nested \in BOOLEAN, nested => MayNest(u),
           NEW z, z = Calls([u EXCEPT !.queue[f] = Tail(u.queue[f])], Head(u.queue[f]), Head(g), nested)
    PROVE  Told(u, z, f, g, b) /\ Head(u.queue[f]) = Head(g)
  <1>1. PICK r, d : r = Head(g) /\ d = [u EXCEPT !.queue[f] = Tail(u.queue[f])]
    OBVIOUS
  <1>2. PICK c : c = [d EXCEPT !.heard[r] = Append(@, r)]
    OBVIOUS
  <1>3. /\ f \in Fds /\ r \in Requests /\ u.heard[r] = <<>>
        /\ u.queue[f] # <<>> /\ Head(u.queue[f]) = r
    <2>1. r = Head(g)
      BY <1>1
    <2> QED BY ONLY <2>1, ReadHead, Plain, Good(u, f, g, b, NoRequest), g # <<>>, proto = "Redis"
  <1>4. MaySend(c, z, nested)
    <2>1. z = Calls(d, r, r, nested)
      BY <1>1, <1>3
    <2> QED BY ONLY <1>2, <2>1, CallsIs, nested \in BOOLEAN
  <1>5. u \in Tables
    BY DEF Good
  <1>6. Took(u, c, f, r) /\ c.heard = [u.heard EXCEPT ![r] = <<r>>]
    <2>1. TakesNext(u, c, f, r)
      BY ONLY <1>1, <1>2 DEF TakesNext
    <2> QED BY ONLY <1>3, <1>5, <2>1, RedisCallTakes, proto = "Redis"
  <1>7. /\ Good(z, f, Tail(g), b, r) /\ z.heard = c.heard /\ z.watched = u.watched
        /\ \A e \in Fds : z.map[e] \subseteq u.map[e] \union {u.nreq + 1}
    <2>1. r = Head(g)
      BY <1>1
    <2> QED BY ONLY <1>4, <1>6, <2>1, SendsKeeps, Plain, Good(u, f, g, b, NoRequest), g # <<>>,
                    nested \in BOOLEAN, nested => MayNest(u)
  <1>8. Erased(z, z) /\ NotLeft(u, z, f, r)
    <2>1. z \in Tables
      BY ONLY <1>7 DEF Good
    <2> QED BY <2>1, SameIsErased DEF NotLeft
  <1>9. Good(z, f, Tail(g), b, NoRequest)
    <2>1. r = Head(g)
      BY <1>1
    <2> QED BY ONLY <1>7, <1>8, <2>1, RepliedKeeps, Plain, Good(u, f, g, b, NoRequest), g # <<>>
  <1> QED BY ONLY <1>1, <1>3, <1>6, <1>7, <1>9 DEF Told

LEMMA SoaCallKeeps ==
    ASSUME Plain, NEW u, NEW f, NEW g, NEW b, Good(u, f, g, b, NoRequest), g # <<>>, proto # "Redis",
           NEW nested \in BOOLEAN, nested => MayNest(u), NEW v, v = Calls(u, Head(g), Head(g), nested),
           NEW z, Erased(v, z), NotLeft(u, z, f, Head(g))
    PROVE  Told(u, z, f, g, b)
  <1>1. PICK r : r = Head(g)
    OBVIOUS
  <1>2. PICK c : c = [u EXCEPT !.heard[r] = Append(@, r)]
    OBVIOUS
  <1>3. f \in Fds /\ r \in Requests /\ u.heard[r] = <<>>
    BY ONLY <1>1, ReadHead, Plain, Good(u, f, g, b, NoRequest), g # <<>>
  <1>4. MaySend(c, v, nested)
    <2>1. v = Calls(u, r, r, nested)
      BY <1>1
    <2> QED BY ONLY <1>2, <2>1, CallsIs, nested \in BOOLEAN
  <1>5. u \in Tables
    BY DEF Good
  <1>6. Took(u, c, f, r) /\ c.heard = [u.heard EXCEPT ![r] = <<r>>]
    BY ONLY <1>2, <1>3, <1>5, CallTakes, proto # "Redis"
  <1>7. /\ Good(v, f, Tail(g), b, r) /\ v.heard = c.heard /\ v.watched = u.watched
        /\ \A e \in Fds : v.map[e] \subseteq u.map[e] \union {u.nreq + 1}
    BY ONLY <1>1, <1>4, <1>6, SendsKeeps, Plain, Good(u, f, g, b, NoRequest), g # <<>>,
            nested \in BOOLEAN, nested => MayNest(u)
  <1>8. NotLeft(u, z, f, r)
    BY <1>1
  <1>9. Good(z, f, Tail(g), b, NoRequest) /\ z.heard = v.heard
    BY ONLY <1>1, <1>7, <1>8, RepliedKeeps, Plain, Good(u, f, g, b, NoRequest), g # <<>>, Erased(v, z)
  <1> QED BY ONLY <1>1, <1>6, <1>7, <1>9 DEF Told

LEMMA SoaReplyKeeps ==
    ASSUME Plain, NEW u, NEW f, NEW g, NEW b, Good(u, f, g, b, NoRequest), g # <<>>, proto # "Redis",
           NEW nested \in BOOLEAN, nested => MayNest(u),
           NEW z, z = [Calls(u, Head(g), Head(g), nested) EXCEPT !.map[f] = @ \ {Head(g)}]
    PROVE  Told(u, z, f, g, b)
  <1>1. PICK r, v : r = Head(g) /\ v = Calls(u, Head(g), Head(g), nested)
    OBVIOUS
  <1>2. PICK c : c = [u EXCEPT !.heard[r] = Append(@, r)]
    OBVIOUS
  <1>3. f \in Fds /\ r \in Requests /\ u.heard[r] = <<>>
    <2>1. r = Head(g)
      BY <1>1
    <2> QED BY ONLY <2>1, ReadHead, Plain, Good(u, f, g, b, NoRequest), g # <<>>
  <1>4. v \in Tables
    <2>1. MaySend(c, v, nested)
      <3>1. v = Calls(u, r, r, nested)
        BY <1>1
      <3> QED BY ONLY <1>2, <3>1, CallsIs, nested \in BOOLEAN
    <2>2. u \in Tables
      BY DEF Good
    <2>3. Took(u, c, f, r)
      BY ONLY <1>2, <1>3, <2>2, CallTakes, proto # "Redis"
    <2>4. r = Head(g)
      BY <1>1
    <2>5. Good(v, f, Tail(g), b, r)
      BY ONLY <2>1, <2>3, <2>4, SendsKeeps, Plain, Good(u, f, g, b, NoRequest), g # <<>>,
              nested \in BOOLEAN, nested => MayNest(u)
    <2> QED BY ONLY <2>5 DEF Good
  <1>5. Erased(v, z) /\ r \notin z.map[f]
    <2>1. z = [v EXCEPT !.map[f] = @ \ {r}]
      BY <1>1
    <2> QED BY ONLY <1>3, <1>4, <2>1, EntryIsErased
  <1>6. NotLeft(u, z, f, Head(g)) /\ v = Calls(u, Head(g), Head(g), nested)
    BY ONLY <1>1, <1>5 DEF NotLeft
  <1> QED BY ONLY <1>5, <1>6, SoaCallKeeps, Plain, Good(u, f, g, b, NoRequest), g # <<>>, proto # "Redis",
                  nested \in BOOLEAN, nested => MayNest(u)

LEMMA SoaPushKeeps ==
    ASSUME Plain, NEW u, NEW f, NEW g, NEW b, Good(u, f, g, b, NoRequest), g # <<>>, proto # "Redis",
           Head(g) \notin u.map[f],
           NEW nested \in BOOLEAN, nested => MayNest(u), NEW z, z = Calls(u, Head(g), Head(g), nested)
    PROVE  Told(u, z, f, g, b)
  <1>1. PICK r : r = Head(g)
    OBVIOUS
  <1>2. PICK c : c = [u EXCEPT !.heard[r] = Append(@, r)]
    OBVIOUS
  <1>3. f \in Fds /\ r \in Requests /\ u.heard[r] = <<>>
    BY ONLY <1>1, ReadHead, Plain, Good(u, f, g, b, NoRequest), g # <<>>
  <1>4. z \in Tables
    <2>1. MaySend(c, z, nested)
      <3>1. z = Calls(u, r, r, nested)
        BY <1>1
      <3> QED BY ONLY <1>2, <3>1, CallsIs, nested \in BOOLEAN
    <2>2. u \in Tables
      BY DEF Good
    <2>3. Took(u, c, f, r)
      BY ONLY <1>2, <1>3, <2>2, CallTakes, proto # "Redis"
    <2>4. Good(z, f, Tail(g), b, r)
      BY ONLY <1>1, <2>1, <2>3, SendsKeeps, Plain, Good(u, f, g, b, NoRequest), g # <<>>,
              nested \in BOOLEAN, nested => MayNest(u)
    <2> QED BY ONLY <2>4 DEF Good
  <1>5. Erased(z, z) /\ NotLeft(u, z, f, Head(g)) /\ z = Calls(u, Head(g), Head(g), nested)
    BY <1>4, SameIsErased DEF NotLeft
  <1> QED BY ONLY <1>5, SoaCallKeeps, Plain, Good(u, f, g, b, NoRequest), g # <<>>, proto # "Redis",
                  nested \in BOOLEAN, nested => MayNest(u)

\* Nobody is told.
LEMMA DroppedReplyKeeps ==
    ASSUME Plain, NEW u, NEW f, NEW g, NEW b, Good(u, f, g, b, NoRequest), g # <<>>, proto # "Redis",
           Head(g) \notin u.map[f]
    PROVE  Good(u, f, Tail(g), b, NoRequest)
  <1>1. PICK r : r = Head(g)
    OBVIOUS
  <1>2. u \in Tables
    BY DEF Good
  <1>3. Took(u, u, f, r)
    BY <1>2 DEF Took
  <1>4. Good(u, f, Tail(g), b, r)
    BY ONLY <1>1, <1>3, TookKeeps, Plain, Good(u, f, g, b, NoRequest), g # <<>>
  <1>5. Erased(u, u) /\ NotLeft(u, u, f, r) /\ u.watched = u.watched
        /\ \A e \in Fds : u.map[e] \subseteq u.map[e] \union {u.nreq + 1}
    BY <1>1, <1>2, SameIsErased DEF NotLeft
  <1> QED BY ONLY <1>1, <1>4, <1>5, RepliedKeeps, Plain, Good(u, f, g, b, NoRequest), g # <<>>

-----------------------------------------------------------------------------
(* The invariant is kept.                                                  *)

LEMMA GoodPrimed ==
    ASSUME proto' = proto, Good(t', from', got', waiting', NoRequest)
    PROVE  Good(t, from, got, waiting, NoRequest)'
  <1>1. CallbacksFit(t', from', got', NoRequest) => CallbacksFit(t, from, got, NoRequest)'
    BY DEF CallbacksFit
  <1> QED BY <1>1 DEF Good

\* What every step has to show.
LEMMA KeepsStep ==
    ASSUME ClientsInv, proto' = proto, push' = push, waiting' \in BOOLEAN,
           Good(t', from', got', waiting', NoRequest)
    PROVE  ClientsInv'
  <1>1. Good(t, from, got, waiting, NoRequest)'
    BY GoodPrimed
  <1> QED BY <1>1 DEF ClientsInv

\* The callback of the first reply has heard it.
LEMMA ToldStep ==
    ASSUME ClientsInv, UNCHANGED <<proto, push, waiting, from>>, got' = Tail(got),
           Told(t, t', from, got, waiting)
    PROVE  ClientsInv'
  <1>1. Good(t', from', got', waiting', NoRequest) /\ waiting' \in BOOLEAN
    BY DEF Told, ClientsInv
  <1> QED BY <1>1, KeepsStep

LEMMA CmdStep ==
    ASSUME Plain, ClientsInv, NEW callback \in BOOLEAN, NEW there \in BOOLEAN, NEW outcomes,
           cmd(callback, there, outcomes)
    PROVE  ClientsInv'
  <1> USE ConstantFacts
  <1>1. PICK v : v = t'
    OBVIOUS
  <1>2. Good(t, from, got, waiting, NoRequest) /\ waiting \in BOOLEAN
    BY DEF ClientsInv
  <1>3. t \in Tables
    BY <1>2 DEF Good
  <1>4. _get_next_address(t) = 1
    BY <1>3, NextAddress
  <1>5. /\ ~ t.exited /\ waiting = FALSE /\ t.nreq < MaxReq
        /\ Len(t.peer) + Attempts =< MaxConn /\ Cardinality(Free(t)) >= Attempts
        /\ callback \/ proto = "Soa"
        /\ outcomes \in Outcomes(t, 1, there)
        /\ t' = cmd_addr(Request(t), t.nreq + 1, 1, callback, there, outcomes)
        /\ UNCHANGED <<proto, push, waiting, from, got>>
    BY <1>2, <1>4 DEF cmd, Running, Plain
  <1>6. Attempts = 1
    BY DEF Attempts, Plain
  <1>7. Len(t.peer) < MaxConn /\ Free(t) # {}
    <2>1. Len(t.peer) \in Nat
      BY <1>3, TableTypes
    <2>2. Len(t.peer) < MaxConn
      BY <1>5, <1>6, <2>1
    <2>3. Cardinality({}) = 0
      BY FS_EmptySet
    <2>4. Cardinality(Free(t)) # 0
      <3>1. Free(t) = {} => Cardinality(Free(t)) = 0
        BY ONLY <2>3
      <3>2. ~ (0 >= 1)
        OBVIOUS
      <3> QED BY ONLY <1>5, <1>6, <3>1, <3>2
    <2>5. Free(t) # {}
      BY ONLY <2>3, <2>4
    <2> QED BY ONLY <2>2, <2>5
  <1>8. got = <<>>
    BY <1>2, <1>5 DEF Good, ReadFits
  <1>9. MayCommand(t, from) /\ HasCallback(callback) /\ outcomes \in Outcomes(t, 1, there)
    BY <1>2, <1>5, <1>7, <1>8 DEF MayCommand, HasCallback
  <1>10. Commands(Request(t), v, t.nreq + 1, callback, there, outcomes)
    BY <1>1, <1>5 DEF Commands
  <1>11. Kept(t, v, from)
    BY ONLY <1>9, <1>10, CmdKeeps, Plain, there \in BOOLEAN
  <1>12. Good(t', from', got', waiting', NoRequest)
    BY ONLY <1>1, <1>5, <1>8, <1>11 DEF Kept
  <1> QED BY <1>5, <1>12, KeepsStep

LEMMA WaitStep ==
    ASSUME ClientsInv, NEW asked \in SUBSET (1..t.nreq), NEW n \in 0..MaxReq, wait(asked, n)
    PROVE  ClientsInv'
  <1> USE ConstantFacts
  <1>1. Good(t, from, got, waiting, NoRequest) /\ waiting \in BOOLEAN
    BY DEF ClientsInv
  <1>2. t \in Tables /\ t.nreq \in Nat /\ t.nreq =< MaxReq
    BY <1>1, TableTypes DEF Good
  <1>3. /\ waiting = FALSE /\ waiting' = TRUE /\ UNCHANGED <<proto, push, t, from, got>>
    BY <1>1 DEF wait
  <1>4. got = <<>>
    BY <1>1, <1>3 DEF Good, ReadFits
  <1>5. Good(t', from', got', waiting', NoRequest)
    <2>1. HeldIsWatched(t, TRUE) /\ ReadFits(t, from, got, TRUE)
      BY <1>1, <1>3, <1>4 DEF Good, HeldIsWatched, ReadFits
    <2> QED BY <1>1, <1>3, <2>1 DEF Good
  <1>6. Good(t, from, got, waiting, NoRequest)'
    BY <1>3, <1>5, GoodPrimed
  <1> QED BY <1>3, <1>6 DEF ClientsInv

LEMMA ReadsStep ==
    ASSUME Plain, ClientsInv, NEW fd \in Fds, NEW n \in 1..MaxReq, Reads(fd, n)
    PROVE  ClientsInv'
  <1> USE ConstantFacts
  <1>1. PICK k, g, v : k = t.conn[fd] /\ g = got' /\ v = t'
    OBVIOUS
  <1>2. Good(t, from, got, waiting, NoRequest) /\ waiting \in BOOLEAN
    BY DEF ClientsInv
  <1>3. /\ ~ t.exited /\ waiting /\ got = <<>> /\ fd \in t.watched /\ k # NoConn
        /\ n =< Len(t.inbox[k]) /\ v = [t EXCEPT !.inbox[k] = SubSeq(@, n + 1, Len(@))]
        /\ g = SubSeq(t.inbox[k], 1, n) /\ from' = fd
        /\ UNCHANGED <<proto, push, waiting>>
    BY <1>1 DEF Reads, Live, Running
  <1>4. k \in Conns
    BY <1>1, <1>2, <1>3, ConnOf DEF Good
  <1>5. n \in 0..Len(t.inbox[k])
    <2>1. t.inbox[k] \in Seq(Requests)
      BY <1>2, <1>4, TableTypes DEF Good
    <2> QED BY <1>3, <2>1
  <1>6. MayRead(t, from, fd) /\ TakesFrom(t, v, fd, n, g)
    <2>1. waiting = TRUE
      BY <1>2, <1>3
    <2>2. MayRead(t, from, fd)
      BY <1>1, <1>2, <1>3, <2>1 DEF MayRead
    <2>3. TakesFrom(t, v, fd, n, g)
      BY <1>1, <1>3, <1>5 DEF TakesFrom
    <2> QED BY <2>2, <2>3
  <1>7. Good(v, fd, g, TRUE, NoRequest)
    BY ONLY <1>6, ReadsKeeps, Plain
  <1>8. Good(t', from', got', waiting', NoRequest)
    <2>1. waiting' = TRUE
      BY <1>2, <1>3
    <2> QED BY ONLY <1>1, <1>3, <1>7, <2>1
  <1> QED BY <1>2, <1>3, <1>8, KeepsStep

LEMMA HangsUpStep ==
    ASSUME Plain, ClientsInv, NEW fd \in Fds, HangsUp(fd)
    PROVE  ClientsInv'
  <1>1. PICK b, v : b = waiting /\ v = t'
    OBVIOUS
  <1>2. Good(t, from, got, waiting, NoRequest) /\ waiting \in BOOLEAN
    BY DEF ClientsInv
  <1>3. /\ ~ t.exited /\ waiting /\ got = <<>> /\ fd \in t.watched /\ fd \in t.armed
        /\ t.conn[fd] \notin t.up /\ v = close(t, fd, FALSE)
        /\ UNCHANGED <<proto, push, waiting, from, got>>
    BY <1>1 DEF HangsUp, Live, Running
  <1>4. Good(t, from, <<>>, b, NoRequest) /\ b = TRUE
    BY <1>1, <1>2, <1>3
  <1>5. Good(v, from, <<>>, b, NoRequest)
    BY ONLY <1>3, <1>4, HangsUpKeeps, Plain, fd \in Fds
  <1>6. Good(t', from', got', waiting', NoRequest)
    BY ONLY <1>1, <1>3, <1>5
  <1> QED BY <1>2, <1>3, <1>6, KeepsStep

LEMMA BatchEndsStep ==
    ASSUME Plain, ClientsInv, NEW time \in BOOLEAN, BatchEnds(time)
    PROVE  ClientsInv'
  <1>1. PICK v, c : v = t' /\ c = waiting'
    OBVIOUS
  <1>2. Good(t, from, got, waiting, NoRequest) /\ waiting \in BOOLEAN
    BY DEF ClientsInv
  <1>3. /\ ~ t.exited /\ waiting /\ got = <<>> /\ from' = NoFd
        /\ v = [t EXCEPT !.conn = [fd \in Fds |-> IF fd \in t.closing THEN NoConn ELSE @[fd]],
                         !.armed = @ \ t.closing, !.closing = {}]
        /\ UNCHANGED <<proto, push, got>> /\ waiting' \in BOOLEAN
    BY <1>1 DEF BatchEnds, Running
  <1>4. Good(t, from, <<>>, waiting, NoRequest) /\ t \in Tables
    BY <1>2, <1>3 DEF Good
  <1>5. Swept(t, v)
    BY ONLY <1>3, <1>4, SweptIs
  <1>6. Good(v, NoFd, <<>>, c, NoRequest)
    BY ONLY <1>3, <1>4, <1>5, SweptKeeps, Plain
  <1>7. Good(t', from', got', waiting', NoRequest)
    BY ONLY <1>1, <1>3, <1>6
  <1> QED BY <1>3, <1>7, KeepsStep

LEMMA RedisReplyStep ==
    ASSUME Plain, ClientsInv, NEW nested \in BOOLEAN, redis_reply(nested)
    PROVE  ClientsInv'
  <1>1. PICK v : v = t'
    OBVIOUS
  <1>2. Good(t, from, got, waiting, NoRequest)
    BY DEF ClientsInv
  <1>3. proto = "Redis" /\ got # <<>> /\ UNCHANGED <<proto, push, waiting, from>> /\ (nested => MayNest(t))
    BY DEF redis_reply
  <1>4. t.queue[from] # <<>>
    BY ONLY <1>2, <1>3, ReadHead, Plain
  <1>5. /\ v = Calls([t EXCEPT !.queue[from] = Tail(t.queue[from])], Head(t.queue[from]), Head(got), nested)
        /\ got' = Tail(got)
    BY <1>1, <1>4 DEF redis_reply
  <1>6. Told(t, v, from, got, waiting) /\ Head(t.queue[from]) = Head(got)
    BY ONLY <1>2, <1>3, <1>5, RedisReplyKeeps, Plain, nested \in BOOLEAN
  <1>7. Told(t, t', from, got, waiting)
    BY ONLY <1>1, <1>5, <1>6
  <1> QED BY ONLY <1>3, <1>5, <1>7, ToldStep, Plain, ClientsInv

LEMMA SoaReplyStep ==
    ASSUME Plain, ClientsInv, NEW nested \in BOOLEAN, soa_reply(nested)
    PROVE  ClientsInv'
  <1>1. PICK v : v = t'
    OBVIOUS
  <1>2. Good(t, from, got, waiting, NoRequest)
    BY DEF ClientsInv
  <1>3. /\ proto # "Redis" /\ got # <<>> /\ UNCHANGED <<proto, push, waiting, from>> /\ (nested => MayNest(t))
        /\ v = [Calls(t, Head(got), Head(got), nested) EXCEPT !.map[from] = @ \ {Head(got)}]
        /\ got' = Tail(got)
    BY <1>1 DEF soa_reply
  <1>4. Told(t, v, from, got, waiting)
    BY ONLY <1>2, <1>3, SoaReplyKeeps, Plain, nested \in BOOLEAN
  <1>5. Told(t, t', from, got, waiting)
    BY ONLY <1>1, <1>4
  <1> QED BY ONLY <1>3, <1>5, ToldStep, Plain, ClientsInv

LEMMA SoaPushStep ==
    ASSUME Plain, ClientsInv, NEW nested \in BOOLEAN, soa_push(nested)
    PROVE  ClientsInv'
  <1>1. PICK v : v = t'
    OBVIOUS
  <1>2. Good(t, from, got, waiting, NoRequest) /\ waiting \in BOOLEAN
    BY DEF ClientsInv
  <1>3. /\ proto # "Redis" /\ got # <<>> /\ UNCHANGED <<proto, push, waiting, from>>
        /\ Head(got) \notin t.map[from] /\ (nested => MayNest(t)) /\ got' = Tail(got)
    BY DEF soa_push
  <1>4. CASE push
    <2>1. v = Calls(t, Head(got), Head(got), nested)
      BY <1>1, <1>4 DEF soa_push
    <2>2. Told(t, v, from, got, waiting)
      BY ONLY <1>2, <1>3, <2>1, SoaPushKeeps, Plain, nested \in BOOLEAN
    <2>3. Told(t, t', from, got, waiting)
      BY ONLY <1>1, <2>2
    <2> QED BY ONLY <1>3, <2>1, <2>3, ToldStep, Plain, ClientsInv
  <1>5. CASE ~ push
    <2>1. t' = t
      BY <1>5 DEF soa_push
    <2>2. Good(t, from, Tail(got), waiting, NoRequest)
      BY ONLY <1>2, <1>3, DroppedReplyKeeps, Plain
    <2>3. Good(t', from', got', waiting', NoRequest)
      BY ONLY <1>3, <2>1, <2>2
    <2> QED BY <1>2, <1>3, <2>1, <2>3, KeepsStep
  <1> QED BY <1>4, <1>5

LEMMA AnswersStep ==
    ASSUME Plain, ClientsInv, NEW k \in Conns, NEW i \in 1..MaxReq, Answers(k, i)
    PROVE  ClientsInv'
  <1> USE ConstantFacts
  <1>1. PICK v : v = t'
    OBVIOUS
  <1>2. Good(t, from, got, waiting, NoRequest) /\ waiting \in BOOLEAN
    BY DEF ClientsInv
  <1>3. /\ k \in t.up /\ i =< Len(t.todo[k]) /\ (proto = "Redis" => i = 1)
        /\ v = [t EXCEPT !.todo[k] = RemoveAt(@, i), !.inbox[k] = Append(@, t.todo[k][i])]
        /\ UNCHANGED <<proto, push, waiting, from, got>>
    BY <1>1 DEF Answers
  <1>4. i \in 1..Len(t.todo[k])
    <2>1. t.todo[k] \in Seq(Requests)
      BY <1>2, TableTypes DEF Good
    <2> QED BY <1>3, <2>1
  <1>5. Good(v, from, got, waiting, NoRequest)
    <2>1. Answering(t, v, k, i)
      BY <1>3, <1>4 DEF Answering
    <2> QED BY ONLY <1>2, <2>1, AnswersKeeps, Plain, k \in Conns
  <1>6. Good(t', from', got', waiting', NoRequest)
    BY ONLY <1>1, <1>3, <1>5
  <1> QED BY <1>2, <1>3, <1>6, KeepsStep

LEMMA ServerClosesStep ==
    ASSUME Plain, ClientsInv, NEW k \in Conns, ServerCloses(k)
    PROVE  ClientsInv'
  <1>1. PICK v : v = t'
    OBVIOUS
  <1>2. Good(t, from, got, waiting, NoRequest) /\ waiting \in BOOLEAN
    BY DEF ClientsInv
  <1>3. /\ k \in t.up /\ v = [t EXCEPT !.up = @ \ {k}, !.todo[k] = <<>>]
        /\ UNCHANGED <<proto, push, waiting, from, got>>
    BY <1>1 DEF ServerCloses
  <1>4. Good(v, from, got, waiting, NoRequest)
    <2>1. Going(t, v, k)
      BY <1>3 DEF Going
    <2> QED BY ONLY <1>2, <2>1, ServerClosesKeeps, Plain, k \in Conns
  <1>5. Good(t', from', got', waiting', NoRequest)
    BY ONLY <1>1, <1>3, <1>4
  <1> QED BY <1>2, <1>3, <1>5, KeepsStep

LEMMA EmptyKeeps ==
    ASSUME Plain, NEW first \in Nat, NEW u, u = Empty(first)
    PROVE  Good(u, NoFd, <<>>, FALSE, NoRequest)
  <1> USE ConstantFacts
  <1>1. u \in Tables
    <2>1. /\ [fd \in Fds |-> NoConn] \in [Fds -> Nat] /\ <<>> \in Seq(Addrs)
          /\ [k \in Conns |-> <<>>] \in [Conns -> Seq(Requests)]
          /\ [a \in Addrs |-> NoFd] \in [Addrs -> Fds \union {NoFd}]
      OBVIOUS
    <2>2. /\ [fd \in Fds |-> <<>>] \in [Fds -> Seq(Requests)]
          /\ [fd \in Fds |-> {}] \in [Fds -> SUBSET Requests]
          /\ [r \in Requests |-> 0] \in [Requests -> Nat]
          /\ [r \in Requests |-> <<>>] \in [Requests -> Seq(Requests)]
      OBVIOUS
    <2> QED BY ONLY <2>1, <2>2, ConstantFacts, first \in Nat, u = Empty(first) DEF Empty, Tables
  <1>2. /\ u.conn = [fd \in Fds |-> NoConn] /\ u.peer = <<>> /\ u.up = {} /\ u.armed = {} /\ u.watched = {}
        /\ u.todo = [k \in Conns |-> <<>>] /\ u.inbox = [k \in Conns |-> <<>>]
        /\ u.a2s = [a \in Addrs |-> NoFd] /\ u.queue = [fd \in Fds |-> <<>>]
        /\ u.map = [fd \in Fds |-> {}] /\ u.nreq = 0 /\ u.heard = [r \in Requests |-> <<>>]
    BY DEF Empty
  <1>3. ConnsFit(u)
    BY <1>2 DEF ConnsFit
  <1>4. NumbersFit(u)
    BY <1>2 DEF NumbersFit
  <1>5. TheNumber(u) = NoFd
    BY <1>2 DEF TheNumber
  <1>6. HeldIsWatched(u, FALSE) /\ CallbacksFit(u, NoFd, <<>>, NoRequest)
    BY <1>2, <1>5 DEF HeldIsWatched, CallbacksFit
  <1>7. WiresFit(u, <<>>)
    <2>1. PICK L : L = Lanes(u, <<>>)
      OBVIOUS
    <2>2. LanesOf(L, u, <<>>)
      <3>1. PICK g : g = <<>>
        OBVIOUS
      <3>2. g \in Seq(Requests) /\ L = Lanes(u, g)
        BY <2>1, <3>1
      <3>3. LanesOf(L, u, g)
        BY ONLY <1>1, <3>2, LaneFacts
      <3> QED BY <3>1, <3>3
    <2>3. ASSUME NEW x \in Places PROVE L[x] = <<>>
      <3>1. x = 0 \/ x \in Conns \/ \E k \in Conns : x = MaxConn + k
        BY ONLY <2>2, x \in Places DEF LanesOf
      <3>2. \A k \in Conns : L[k] = u.inbox[k] /\ L[MaxConn + k] = u.todo[k]
        BY ONLY <2>2 DEF LanesOf
      <3>3. L[0] = <<>>
        BY ONLY <2>2 DEF LanesOf
      <3>4. \A k \in Conns : L[k] = <<>> /\ L[MaxConn + k] = <<>>
        BY ONLY <1>2, <3>2
      <3> QED BY ONLY <3>1, <3>3, <3>4
    <2>4. Distinct(L) /\ Pending(u, L)
      BY ONLY <2>3 DEF Distinct, Pending
    <2> QED BY <1>2, <2>1, <2>4 DEF WiresFit
  <1>8. HeardFits(u) /\ ReadFits(u, NoFd, <<>>, FALSE)
    BY <1>2 DEF HeardFits, ReadFits
  <1>9. u.nreq =< MaxReq /\ NoFd \in Fds \union {NoFd} /\ <<>> \in Seq(Requests)
    BY <1>2
  <1> QED BY ONLY <1>1, <1>3, <1>4, <1>6, <1>7, <1>8, <1>9 DEF Good

LEMMA ClientsInvInit == ASSUME Plain, Init PROVE ClientsInv
  <1> USE ConstantFacts
  <1>1. PICK first \in 0..(NAddr - 1) : t = Empty(first)
    BY DEF Init
  <1>2. Good(t, NoFd, <<>>, FALSE, NoRequest)
    <2>1. first \in Nat
      BY ClientsBounds
    <2> QED BY ONLY <1>1, <2>1, EmptyKeeps, Plain
  <1>3. /\ proto \in {"Redis", "Soa"} /\ push \in BOOLEAN /\ waiting = FALSE
        /\ from = NoFd /\ got = <<>>
    BY DEF Init
  <1> QED BY <1>2, <1>3 DEF ClientsInv

LEMMA ClientsInvStep == ASSUME Plain, ClientsInv, [Next]_vars PROVE ClientsInv'
  <1>1. CASE UNCHANGED vars
    <2>1. Good(t', from', got', waiting', NoRequest)
          /\ UNCHANGED <<proto, push, waiting>> /\ waiting \in BOOLEAN
      BY <1>1 DEF vars, ClientsInv
    <2> QED BY <2>1, KeepsStep
  <1>2. ASSUME NEW callback \in BOOLEAN, NEW there \in BOOLEAN, NEW outcomes, cmd(callback, there, outcomes)
        PROVE  ClientsInv'
    BY <1>2, CmdStep
  <1>3. ASSUME NEW asked \in SUBSET (1..t.nreq), NEW n \in 0..MaxReq, wait(asked, n)
        PROVE  ClientsInv'
    BY <1>3, WaitStep
  <1>4. ASSUME NEW fd \in Fds, NEW n \in 1..MaxReq, Reads(fd, n) PROVE ClientsInv'
    BY <1>4, ReadsStep
  <1>5. ASSUME NEW fd \in Fds, HangsUp(fd) PROVE ClientsInv'
    BY <1>5, HangsUpStep
  <1>6. ASSUME NEW nested \in BOOLEAN, redis_reply(nested) PROVE ClientsInv'
    BY <1>6, RedisReplyStep
  <1>7. ASSUME NEW nested \in BOOLEAN, soa_reply(nested) PROVE ClientsInv'
    BY <1>7, SoaReplyStep
  <1>8. ASSUME NEW nested \in BOOLEAN, soa_push(nested) PROVE ClientsInv'
    BY <1>8, SoaPushStep
  <1>9. ASSUME NEW time \in BOOLEAN, BatchEnds(time) PROVE ClientsInv'
    BY <1>9, BatchEndsStep
  <1>10. ASSUME NEW k \in Conns, NEW i \in 1..MaxReq, Answers(k, i) PROVE ClientsInv'
    BY <1>10, AnswersStep
  <1>11. ASSUME NEW k \in Conns, ServerCloses(k) PROVE ClientsInv'
    BY <1>11, ServerClosesStep
  <1> QED
    BY <1>1, <1>2, <1>3, <1>4, <1>5, <1>6, <1>7, <1>8, <1>9, <1>10, <1>11 DEF Next

-----------------------------------------------------------------------------
(* The theorem.                                                            *)

\* The inductive invariant holds of a client that has one address and to which
\* nothing awkward happens.
LEMMA ClientsAreSound == ASSUME Plain PROVE Spec => []ClientsInv
  <1>1. Init => ClientsInv
    BY ClientsInvInit
  <1>2. ClientsInv /\ [Next]_vars => ClientsInv'
    BY ClientsInvStep
  <1> QED BY <1>1, <1>2, PTL DEF Spec

\* OwnReply: the loops of Redis and Soa hand a reply to the callback of its own
\* request and to it alone, however often the server goes, a write fails and is
\* tried again, and callbacks send requests; for any numbers, connections and
\* requests, one address and nothing awkward.
THEOREM RepliesReachTheirCallbacks == ASSUME Plain PROVE Spec => []OwnReply
  <1>1. ClientsInv => OwnReply
    BY DEF ClientsInv, Good, HeardFits, OwnReply
  <1> QED BY <1>1, ClientsAreSound, PTL
=============================================================================
