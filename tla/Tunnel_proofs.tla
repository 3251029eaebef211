----------------------------- MODULE Tunnel_proofs -----------------------------
(***************************************************************************)
(* Proofs about the tunnels, for any numbers of descriptors, connections   *)
(* and messages, when the environment is not awkward: TunnelInv is         *)
(* inductive.  Every handler concerns the two numbers of one tunnel and    *)
(* leaves them Linked or Cut; PairSuffices does the rest.                  *)
(***************************************************************************)
EXTENDS Tunnel, TLAPS

\* The tables u and v agree on g.
SameAt(u, v, g) ==
    /\ v.role[g] = u.role[g] /\ v.cap[g] = u.cap[g] /\ v.armed[g] = u.armed[g]
    /\ v.c2r[g] = u.c2r[g] /\ v.state[g] = u.state[g] /\ v.buf[g] = u.buf[g]
    /\ g \in v.closing <=> g \in u.closing

\* Nothing is known about fd in the tables u but that it may be closed.
Unused(u, fd) ==
    /\ u.role[fd] = "none" /\ u.c2r[fd] = NoFd /\ u.state[fd] = "none" /\ u.buf[fd] = <<>>

\* The tables u hold the tunnel from c to r.
Holds(u, c, r) ==
    /\ u.role[c] = "client" /\ u.c2r[c] = r
    /\ u.role[r] = IF u.state[c] = "CONNECTED" THEN "remote" ELSE "connecting"
    /\ u.cap[r] = c
    /\ u.c2r[r] = NoFd /\ u.state[r] = "none" /\ u.buf[r] = <<>>

\* What FlowAgrees says of the client c.
FlowAt(c) ==
    LET k == conn[c] IN
    \/ /\ t.state[c] = "CONNECT"
       /\ Len(t.buf[c]) = nread[k] /\ \A i \in 1..nread[k] : t.buf[c][i] = <<k, i>>
       /\ sent[k] = <<>> /\ sent[k + 1] = <<>> /\ nread[k + 1] = 0
    \/ /\ t.state[c] = "CONNECTED" /\ t.buf[c] = <<>>
       /\ k + 1 \in broken \/ Len(sent[k + 1]) = Lead(k) + nread[k]
       /\ k \in broken \/ Len(sent[k]) = nread[k + 1]

\* The tunnel from c to r is there, with the connections that belong together.
Linked(c, r) ==
    /\ Holds(t, c, r)
    /\ t.armed[c] /\ t.armed[r] /\ c \notin t.closing /\ r \notin t.closing
    /\ conn[c] # NoConn /\ IsClient(conn[c]) /\ conn[r] = conn[c] + 1
    /\ FlowAt(c)

\* The tunnel from c to r is gone, and the numbers are still open.
Cut(c, r) ==
    /\ Unused(t, c) /\ Unused(t, r)
    /\ conn[c] # NoConn /\ conn[r] # NoConn

\* No number stands for none.
LEMMA ConstantFacts ==
    /\ NoFd \notin Fds /\ NoConn = 0
    /\ MaxConn \in Nat /\ MaxMsg \in Nat
  BY FdsAssumption, BoundsAssumption DEF NoFd, NoConn

\* Client and remote of a tunnel are told apart by the parity of their connections.
LEMMA OtherFacts ==
    /\ \A k \in Nat : IsClient(k) => Other(k) = k + 1 /\ ~IsClient(k + 1) /\ Other(k + 1) = k
    /\ \A k, j \in Nat : IsClient(k) /\ Other(j) = k + 1 => j = k
    /\ \A k, j \in Nat : IsClient(k) /\ Other(j) = k => j = k + 1
    /\ \A k, j \in Nat : IsClient(k) /\ IsClient(j) => k # j + 1
    /\ \A n \in Nat : n % 2 = 0 => IsClient(n + 1) /\ (n + 2) % 2 = 0
    /\ \A n, j \in Nat : n % 2 = 0 /\ j \in 1..n => Other(j) \in 1..n
    /\ \A k, j \in Nat \ {0} : Other(k) = Other(j) => k = j
  <1>1. \A k \in Nat : IsClient(k) => Other(k) = k + 1 /\ ~IsClient(k + 1) /\ Other(k + 1) = k
    BY DEF IsClient, Other
  <1>2. \A k, j \in Nat : IsClient(k) /\ Other(j) = k + 1 => j = k
    BY DEF IsClient, Other
  <1>3. \A k, j \in Nat : IsClient(k) /\ Other(j) = k => j = k + 1
    BY DEF IsClient, Other
  <1>4. \A k, j \in Nat : IsClient(k) /\ IsClient(j) => k # j + 1
    BY DEF IsClient
  <1>5. \A n \in Nat : n % 2 = 0 => IsClient(n + 1) /\ (n + 2) % 2 = 0
    BY DEF IsClient
  <1>6. \A n, j \in Nat : n % 2 = 0 /\ j \in 1..n => Other(j) \in 1..n
    BY DEF IsClient, Other
  <1>7. \A k, j \in Nat \ {0} : Other(k) = Other(j) => k = j
    BY DEF IsClient, Other
  <1> QED BY <1>1, <1>2, <1>3, <1>4, <1>5, <1>6, <1>7

-----------------------------------------------------------------------------
(* The tables.                                                             *)

\* drop takes fd out and leaves the rest alone.
LEMMA DropFacts ==
    ASSUME NEW u \in Tables, NEW fd \in Fds
    PROVE  LET v == drop(u, fd) IN
           /\ v \in Tables
           /\ v.role[fd] = "none" /\ v.c2r = u.c2r /\ v.state = u.state /\ v.buf = u.buf
           /\ fd \in v.closing
           /\ \A g \in Fds \ {fd} : SameAt(u, v, g)
  BY DEF drop, Tables, SameAt, Roles

\* erase_client_info forgets state, buffer and pair of the client, no more.
LEMMA EraseFacts ==
    ASSUME NEW u \in Tables, NEW c \in Fds
    PROVE  LET v == erase_client_info(u, c) IN
           /\ v \in Tables
           /\ v.role = u.role /\ v.closing = u.closing
           /\ v.c2r[c] = NoFd /\ v.state[c] = "none" /\ v.buf[c] = <<>>
           /\ \A g \in Fds \ {c} : SameAt(u, v, g)
  <1> DEFINE v == erase_client_info(u, c)
  <1>1. v.role = u.role /\ v.closing = u.closing /\ v.cap = u.cap /\ v.armed = u.armed
    BY DEF erase_client_info, Tables
  <1>2. /\ v.c2r = [u.c2r EXCEPT ![c] = NoFd] /\ v.state = [u.state EXCEPT ![c] = "none"]
        /\ v.buf = [u.buf EXCEPT ![c] = <<>>]
    BY DEF erase_client_info, Tables
  <1>3. <<>> \in Seq(Messages) /\ "none" \in States
    BY DEF States
  <1>4. v \in Tables
    BY <1>3 DEF erase_client_info, Tables
  <1> HIDE DEF v
  <1>5. /\ v.c2r[c] = NoFd /\ v.state[c] = "none" /\ v.buf[c] = <<>>
        /\ \A g \in Fds \ {c} : SameAt(u, v, g)
    BY <1>1, <1>2 DEF Tables, SameAt
  <1> QED BY <1>1, <1>4, <1>5 DEF v

\* Closing either side of a tunnel takes both out and leaves the rest alone.
LEMMA CloseFacts ==
    ASSUME NEW u \in Tables, NEW c \in Fds, NEW r \in Fds, Holds(u, c, r),
           NEW v, v = close(u, c) \/ v = close(u, r)
    PROVE  /\ v \in Tables /\ Unused(v, c) /\ Unused(v, r)
           /\ \A g \in Fds \ {c, r} : SameAt(u, v, g)
  <1>1. c # r /\ r # NoFd /\ u.role[c] # "none" /\ u.role[r] # "none"
    BY ConstantFacts DEF Holds
  <1>2. CASE v = close(u, c)
    <2> DEFINE d == drop(u, c)
               e == erase_client_info(d, c)
    <2>1. v = close_other(e, r)
      BY <1>1, <1>2 DEF close, Holds
    <2>2. /\ d \in Tables /\ d.role[c] = "none" /\ c \in d.closing
          /\ \A g \in Fds \ {c} : SameAt(u, d, g)
      BY DropFacts
    <2>3. /\ e \in Tables /\ Unused(e, c) /\ \A g \in Fds \ {c} : SameAt(d, e, g)
      <3> HIDE DEF d
      <3> QED BY <2>2, EraseFacts DEF Unused
    <2>4. /\ \A g \in Fds \ {c} : SameAt(u, e, g)
      <3> HIDE DEF d, e
      <3> QED BY <2>2, <2>3 DEF SameAt
    <2>5. v = drop(e, r)
      <3> HIDE DEF d, e
      <3> QED BY <2>1, <2>4, <1>1 DEF close_other, SameAt
    <2>6. /\ v \in Tables /\ v.role[r] = "none" /\ v.c2r = e.c2r /\ v.state = e.state /\ v.buf = e.buf
          /\ \A g \in Fds \ {r} : SameAt(e, v, g)
      <3> HIDE DEF d, e
      <3> QED BY <2>3, <2>5, DropFacts
    <2> HIDE DEF d, e
    <2>7. Unused(v, c)
      BY <1>1, <2>3, <2>6 DEF Unused, SameAt
    <2>8. Unused(v, r)
      BY <1>1, <2>4, <2>6 DEF Unused, SameAt, Holds
    <2>9. \A g \in Fds \ {c, r} : SameAt(u, v, g)
      BY <2>4, <2>6, ZenonT(40) DEF SameAt
    <2> QED BY <2>6, <2>7, <2>8, <2>9
  <1>3. CASE v = close(u, r)
    <2> DEFINE d == drop(u, r)
               e == erase_client_info(d, c)
    <2>1. v = close_other(e, c)
      BY <1>1, <1>3 DEF close, Holds
    <2>2. /\ d \in Tables /\ d.role[r] = "none" /\ d.c2r = u.c2r /\ d.state = u.state /\ d.buf = u.buf
          /\ \A g \in Fds \ {r} : SameAt(u, d, g)
      BY DropFacts
    <2>3. /\ e \in Tables /\ e.role = d.role
          /\ e.c2r[c] = NoFd /\ e.state[c] = "none" /\ e.buf[c] = <<>>
          /\ \A g \in Fds \ {c} : SameAt(d, e, g)
      <3> HIDE DEF d
      <3> QED BY <2>2, EraseFacts
    <2>4. v = drop(e, c)
      <3>1. e.role[c] = u.role[c]
        <4> HIDE DEF d, e
        <4> QED BY <2>2, <2>3, <1>1 DEF SameAt
      <3> HIDE DEF d, e
      <3> QED BY <3>1, <2>1, <1>1 DEF close_other
    <2>5. /\ v \in Tables /\ v.role[c] = "none" /\ v.c2r = e.c2r /\ v.state = e.state /\ v.buf = e.buf
          /\ \A g \in Fds \ {c} : SameAt(e, v, g)
      <3> HIDE DEF d, e
      <3> QED BY <2>3, <2>4, DropFacts
    <2> HIDE DEF d, e
    <2>6. Unused(v, c)
      BY <2>3, <2>5 DEF Unused
    <2>7. Unused(v, r)
      BY <1>1, <2>2, <2>3, <2>5 DEF Unused, SameAt, Holds
    <2>8. \A g \in Fds \ {c, r} : SameAt(u, v, g)
      <3> SUFFICES ASSUME NEW g \in Fds \ {c, r} PROVE SameAt(u, v, g)
        OBVIOUS
      <3>1. SameAt(u, d, g) /\ SameAt(d, e, g) /\ SameAt(e, v, g)
        BY <2>2, <2>3, <2>5
      <3> QED BY <3>1 DEF SameAt
    <2> QED BY <2>5, <2>6, <2>7, <2>8
  <1> QED BY <1>2, <1>3

-----------------------------------------------------------------------------
(* Tunnels one by one.                                                     *)

\* A watched client has its tunnel.
LEMMA ClientIsLinked ==
    ASSUME TunnelInv, NEW c \in Fds, t.role[c] = "client"
    PROVE  t.c2r[c] \in Fds \ {c} /\ Linked(c, t.c2r[c])
  <1> USE DEF TunnelInv
  <1>1. PICK r \in Fds : /\ t.c2r[c] = r /\ t.cap[r] = c
                         /\ t.role[r] = IF t.state[c] = "CONNECTED" THEN "remote"
                                                                    ELSE "connecting"
    BY DEF ClosedTogether
  <1>2. r # c /\ t.role[r] # "client" /\ t.role[r] # "none"
    BY <1>1
  <1>3. Holds(t, c, r)
    BY <1>1, <1>2 DEF ClosedTogether, Holds
  <1>4. /\ t.armed[c] /\ t.armed[r] /\ c \notin t.closing /\ r \notin t.closing
        /\ conn[c] # NoConn
    BY <1>2 DEF ClosedTogether
  <1>5. IsClient(conn[c]) /\ conn[r] = conn[c] + 1
    BY <1>1 DEF PairsAgree
  <1>6. FlowAt(c)
    BY DEF FlowAgrees, FlowAt
  <1> QED BY <1>1, <1>2, <1>3, <1>4, <1>5, <1>6 DEF Linked

\* A watched remote has its tunnel.
LEMMA RemoteIsLinked ==
    ASSUME TunnelInv, NEW r \in Fds, t.role[r] \in {"connecting", "remote"}
    PROVE  t.cap[r] \in Fds \ {r} /\ t.c2r[t.cap[r]] = r /\ Linked(t.cap[r], r)
  <1>1. t.cap[r] \in Fds /\ t.role[t.cap[r]] = "client" /\ t.c2r[t.cap[r]] = r
    BY DEF TunnelInv, ClosedTogether
  <1> QED BY <1>1, ClientIsLinked

\* The connections of a tunnel are two, and their other side is each other.
LEMMA LinkedConns ==
    ASSUME TunnelInv, NEW c \in Fds, NEW r \in Fds, Linked(c, r)
    PROVE  /\ conn[c] \in 1..nconn /\ conn[r] \in 1..nconn
           /\ conn[c] \in Conns /\ conn[r] \in Conns
           /\ nread[conn[c]] \in 0..MaxMsg /\ nread[conn[r]] \in 0..MaxMsg
           /\ sent[conn[c]] \in Seq(Messages) /\ sent[conn[r]] \in Seq(Messages)
           /\ c # r
  <1>1. conn[c] \in 0..nconn /\ conn[r] \in 0..nconn /\ nconn \in 0..MaxConn
    BY DEF TunnelInv, TypeOK
  <1>2. conn[c] \in 1..nconn /\ conn[r] \in 1..nconn /\ c # r
    BY <1>1, ConstantFacts DEF Linked
  <1>3. conn[c] \in Conns /\ conn[r] \in Conns
    BY <1>1, <1>2, ConstantFacts DEF Conns
  <1> QED BY <1>2, <1>3 DEF TunnelInv, TypeOK

\* A step that concerns one tunnel, old or new, preserves the invariant of the
\* others, and of the tables if it is linked or cut afterwards.
LEMMA PairSuffices ==
    ASSUME TunnelInv, TypeOK', ConnsAgree', NEW c \in Fds, NEW r \in Fds, c # r,
           Holds(t, c, r) \/ (t.role[c] = "none" /\ t.role[r] = "none"),
           \A g \in Fds \ {c, r} : SameAt(t, t', g) /\ conn'[g] = conn[g],
           \A j \in Conns \ {conn'[c], conn'[r]} : nread'[j] = nread[j] /\ sent'[j] = sent[j],
           broken \subseteq broken', proto' = proto,
           Linked(c, r)' \/ Cut(c, r)'
    PROVE  ClosingIsOpen' /\ ClosedTogether' /\ PairsAgree' /\ FlowAgrees'
  <1>1. conn'[c] # NoConn /\ conn'[r] # NoConn
    <2>1. conn'[c] \in Nat
      BY DEF TypeOK
    <2> QED BY <2>1, ConstantFacts DEF Linked, Cut
  <1>2. ASSUME NEW g \in Fds \ {c, r}, t.role[g] = "client"
        PROVE  t.c2r[g] \in Fds \ {c, r, g} /\ Linked(g, t.c2r[g])
    <2>1. t.c2r[g] \in Fds \ {g} /\ Linked(g, t.c2r[g])
      BY <1>2, ClientIsLinked
    <2>2. t.cap[t.c2r[g]] = g /\ t.role[t.c2r[g]] \in {"remote", "connecting"}
      BY <2>1 DEF Linked, Holds
    <2>3. t.c2r[g] # c /\ t.c2r[g] # r
      BY <2>2 DEF Holds
    <2> QED BY <2>1, <2>3
  <1>3. ASSUME NEW g \in Fds \ {c, r}, t.role[g] \in {"connecting", "remote"}
        PROVE  t.cap[g] \in Fds \ {c, r} /\ t.role[t.cap[g]] = "client" /\ t.c2r[t.cap[g]] = g
    <2>1. t.cap[g] \in Fds /\ t.c2r[t.cap[g]] = g /\ t.role[t.cap[g]] = "client"
      BY <1>3, RemoteIsLinked DEF Linked, Holds
    <2>2. t.cap[g] # c /\ t.cap[g] # r
      BY <2>1 DEF Holds
    <2> QED BY <2>1, <2>2
  <1>4. ClosingIsOpen'
    <2> SUFFICES ASSUME NEW g \in t'.closing PROVE conn'[g] # NoConn
      BY DEF ClosingIsOpen
    <2>1. g \in Fds
      BY DEF TypeOK, Tables
    <2>2. CASE g \in {c, r}
      BY <2>2, <1>1
    <2>3. CASE g \notin {c, r}
      BY <2>1, <2>3 DEF SameAt, TunnelInv, ClosingIsOpen
    <2> QED BY <2>2, <2>3
  <1>5. ClosedTogether'
    <2> SUFFICES ASSUME NEW g \in Fds
                 PROVE  /\ t'.role[g] = "client" =>
                              \E q \in Fds : /\ t'.c2r[g] = q /\ t'.cap[q] = g
                                             /\ t'.role[q] = IF t'.state[g] = "CONNECTED"
                                                              THEN "remote" ELSE "connecting"
                        /\ t'.role[g] \in {"connecting", "remote"} =>
                              /\ t'.cap[g] \in Fds /\ t'.role[t'.cap[g]] = "client"
                              /\ t'.c2r[t'.cap[g]] = g
                        /\ t'.role[g] # "client" =>
                              t'.c2r[g] = NoFd /\ t'.state[g] = "none" /\ t'.buf[g] = <<>>
                        /\ t'.role[g] # "none" =>
                              g \notin t'.closing /\ t'.armed[g] /\ conn'[g] # NoConn
      BY DEF ClosedTogether
    <2>1. CASE g \in {c, r} /\ Cut(c, r)'
      BY <2>1 DEF Cut, Unused
    <2>2. CASE g = c /\ Linked(c, r)'
      BY <2>2, <1>1 DEF Linked, Holds
    <2>3. CASE g = r /\ Linked(c, r)'
      BY <2>3, <1>1 DEF Linked, Holds
    <2>4. CASE g \notin {c, r}
      <3>1. SameAt(t, t', g) /\ conn'[g] = conn[g]
        BY <2>4
      <3>2. ASSUME t.role[g] = "client"
            PROVE  t.c2r[g] \in Fds \ {c, r} /\ SameAt(t, t', t.c2r[g]) /\ Holds(t, g, t.c2r[g])
        BY <1>2, <2>4, <3>2 DEF Linked
      <3>3. ASSUME t.role[g] \in {"connecting", "remote"}
            PROVE  /\ t.cap[g] \in Fds \ {c, r} /\ SameAt(t, t', t.cap[g])
                   /\ t.role[t.cap[g]] = "client" /\ t.c2r[t.cap[g]] = g
        BY <1>3, <2>4, <3>3
      <3>4. /\ t.role[g] # "client" => t.c2r[g] = NoFd /\ t.state[g] = "none" /\ t.buf[g] = <<>>
            /\ t.role[g] # "none" => g \notin t.closing /\ t.armed[g] /\ conn[g] # NoConn
        BY DEF TunnelInv, ClosedTogether
      <3> QED BY <3>1, <3>2, <3>3, <3>4 DEF SameAt, Holds
    <2> QED BY <2>1, <2>2, <2>3, <2>4
  <1>6. PairsAgree'
    <2> SUFFICES ASSUME NEW g \in Fds, t'.role[g] = "client"
                 PROVE  IsClient(conn'[g]) /\ conn'[t'.c2r[g]] = conn'[g] + 1
      BY DEF PairsAgree
    <2>1. CASE g \in {c, r}
      BY <2>1 DEF Linked, Holds, Cut, Unused
    <2>2. CASE g \notin {c, r}
      <3>1. t.role[g] = "client" /\ t'.c2r[g] = t.c2r[g] /\ conn'[g] = conn[g]
        BY <2>2 DEF SameAt
      <3>2. t.c2r[g] \in Fds \ {c, r} /\ Linked(g, t.c2r[g])
        BY <1>2, <2>2, <3>1
      <3> QED BY <3>1, <3>2 DEF Linked
    <2> QED BY <2>1, <2>2
  <1>7. FlowAgrees'
    <2> SUFFICES ASSUME NEW g \in Fds, t'.role[g] = "client" PROVE FlowAt(g)'
      BY DEF FlowAgrees, FlowAt
    <2>1. CASE g \in {c, r}
      BY <2>1 DEF Linked, Holds, Cut, Unused
    <2>2. CASE g \notin {c, r}
      <3> DEFINE q == t.c2r[g]
      <3>1. t.role[g] = "client" /\ SameAt(t, t', g)
        BY <2>2 DEF SameAt
      <3>2. q \in Fds \ {c, r} /\ Linked(g, q)
        BY <1>2, <2>2, <3>1
      <3> HIDE DEF q
      <3>3. conn[g] \in Conns /\ conn[q] \in Conns /\ conn[q] = conn[g] + 1
        BY <3>2, LinkedConns DEF Linked
      <3>4. conn'[g] = conn[g] /\ conn'[q] = conn[q]
        BY <2>2, <3>2
      <3>5. conn[g] \notin {conn'[c], conn'[r]} /\ conn[q] \notin {conn'[c], conn'[r]}
        BY <1>1, <2>2, <3>2, <3>4 DEF ConnsAgree
      <3>6. /\ nread'[conn[g]] = nread[conn[g]] /\ sent'[conn[g]] = sent[conn[g]]
            /\ nread'[conn[g] + 1] = nread[conn[g] + 1] /\ sent'[conn[g] + 1] = sent[conn[g] + 1]
        BY <3>3, <3>5
      <3>7. Lead(conn[g])' = Lead(conn[g]) /\ FlowAt(g)
        BY <3>2, <3>4 DEF Lead, Linked
      <3> QED BY <3>1, <3>4, <3>6, <3>7 DEF FlowAt, SameAt, Lead
    <2> QED BY <2>1, <2>2
  <1> QED BY <1>4, <1>5, <1>6, <1>7

\* Every connection has its other side.
LEMMA OtherSide ==
    ASSUME TunnelInv, NEW k \in 1..nconn
    PROVE  k \in Conns /\ Other(k) \in 1..nconn /\ Other(k) \in Conns
  <1>1. nconn \in Nat /\ nconn =< MaxConn /\ nconn % 2 = 0 /\ MaxConn \in Nat
    BY ConstantFacts DEF TunnelInv, TypeOK, ConnsAgree
  <1>2. k \in Nat
    BY <1>1
  <1>3. Other(k) \in 1..nconn
    BY <1>1, <1>2, OtherFacts
  <1>4. 1..nconn \subseteq Conns
    BY <1>1 DEF Conns
  <1> QED BY <1>3, <1>4

\* What has arrived from connection k so far is what Transparent says.
ArrivedFrom(k) ==
    /\ Len(sent[Other(k)]) =< Lead(k) + nread[k]
    /\ \A i \in 1..Len(sent[Other(k)]) : sent[Other(k)][i] = <<k, i - Lead(k)>>

\* A step that reads from one connection only, and writes to its other side.
LEMMA ReadStep ==
    ASSUME TunnelInv, UNCHANGED <<proto, nconn>>, NEW k \in 1..nconn,
           \A j \in Conns \ {k} : nread'[j] = nread[j],
           \A j \in Conns \ {Other(k)} : sent'[j] = sent[j],
           ArrivedFrom(k)'
    PROVE  Transparent' /\ NewIsSilent'
  <1>1. nconn \in Nat /\ nconn =< MaxConn /\ nconn % 2 = 0 /\ Conns = 1..MaxConn /\ MaxConn \in Nat
    BY ConstantFacts DEF TunnelInv, TypeOK, ConnsAgree, Conns
  <1>2. \A j \in 1..nconn : Other(j) \in 1..nconn /\ j \in Conns /\ Other(j) \in Conns
    BY OtherSide
  <1>3. ASSUME NEW j \in 1..nconn PROVE ArrivedFrom(j)'
    <2>1. CASE j = k
      BY <2>1
    <2>2. CASE j # k
      <3>1. Other(j) # Other(k)
        BY <1>1, <2>2, OtherFacts
      <3>2. nread'[j] = nread[j] /\ sent'[Other(j)] = sent[Other(j)]
        BY <1>2, <2>2, <3>1
      <3>3. ArrivedFrom(j)
        BY DEF TunnelInv, Transparent, ArrivedFrom
      <3>4. Lead(j)' = Lead(j)
        BY DEF Lead
      <3> QED BY <3>2, <3>3, <3>4 DEF ArrivedFrom, Lead
    <2> QED BY <2>1, <2>2
  <1>4. Transparent'
    BY <1>3 DEF Transparent, ArrivedFrom
  <1>5. NewIsSilent'
    <2> SUFFICES ASSUME NEW j \in Conns, j > nconn PROVE nread'[j] = 0 /\ sent'[j] = <<>>
      BY DEF NewIsSilent
    <2>1. j # k /\ j # Other(k)
      BY <1>1, <1>2
    <2> QED BY <2>1 DEF TunnelInv, NewIsSilent
  <1> QED BY <1>4, <1>5

\* What was written so far stays right when more is read.
LEMMA ReadMore ==
    ASSUME TunnelInv, UNCHANGED <<proto, sent>>, NEW k \in 1..nconn,
           nread'[k] \in Nat, nread[k] \in Nat, nread'[k] >= nread[k]
    PROVE  ArrivedFrom(k)'
  <1>1. ArrivedFrom(k)
    BY DEF TunnelInv, Transparent, ArrivedFrom
  <1>2. Lead(k)' = Lead(k) /\ Lead(k) \in Nat
    BY DEF Lead
  <1>3. Len(sent[Other(k)]) \in Nat
    <2>1. Other(k) \in Conns
      BY OtherSide
    <2> QED BY <2>1 DEF TunnelInv, TypeOK
  <1> QED BY <1>1, <1>2, <1>3 DEF ArrivedFrom, Lead

\* A step that cuts a tunnel, and may have read something that is lost.
LEMMA CutStep ==
    ASSUME TunnelInv, TypeOK', NEW c \in Fds, NEW r \in Fds, Linked(c, r),
           UNCHANGED <<proto, conn, nconn, broken, sent>>,
           Unused(t', c), Unused(t', r), \A g \in Fds \ {c, r} : SameAt(t, t', g),
           NEW k \in {conn[c], conn[r]}, nread'[k] >= nread[k],
           \A j \in Conns \ {k} : nread'[j] = nread[j]
    PROVE  TunnelInv'
  <1>1. c # r /\ k \in 1..nconn /\ k \in Conns /\ conn[c] # NoConn /\ conn[r] # NoConn
    BY LinkedConns, ConstantFacts
  <1>2. nread'[k] \in Nat /\ nread[k] \in Nat
    BY <1>1 DEF TunnelInv, TypeOK
  <1>3. Transparent' /\ NewIsSilent'
    BY <1>1, <1>2, ReadMore, ReadStep
  <1>4. ConnsAgree'
    BY DEF TunnelInv, ConnsAgree
  <1>5. Holds(t, c, r) /\ Cut(c, r)'
    BY <1>1 DEF Linked, Cut, Unused
  <1>6. ClosingIsOpen' /\ ClosedTogether' /\ PairsAgree' /\ FlowAgrees'
    BY <1>1, <1>4, <1>5, PairSuffices
  <1> QED BY <1>3, <1>4, <1>6 DEF TunnelInv

\* One side hangs up, or connecting fails.
LEMMA CloseStep ==
    ASSUME TunnelInv, NEW c \in Fds, NEW r \in Fds, Linked(c, r),
           t' = close(t, c) \/ t' = close(t, r),
           UNCHANGED <<proto, conn, nconn, broken, nread, sent>>
    PROVE  TunnelInv'
  <1>1. t \in Tables /\ Holds(t, c, r)
    BY DEF TunnelInv, TypeOK, Linked
  <1>2. /\ t' \in Tables /\ Unused(t', c) /\ Unused(t', r)
        /\ \A g \in Fds \ {c, r} : SameAt(t, t', g)
    BY <1>1, CloseFacts
  <1>3. TypeOK'
    BY <1>2 DEF TunnelInv, TypeOK
  <1>4. nread'[conn[c]] >= nread[conn[c]]
    BY LinkedConns
  <1> QED BY <1>2, <1>3, <1>4, CutStep

\* The handlers that only close.
LEMMA OnCloseStep ==
    ASSUME TunnelInv, NEW fd \in Fds,
           on_close(fd) \/ on_remote_close(fd) \/ on_remote_connect_ng(fd)
    PROVE  TunnelInv'
  <1>1. CASE on_close(fd)
    <2>1. t.role[fd] = "client"
      BY <1>1 DEF on_close, Live
    <2>2. t.c2r[fd] \in Fds /\ Linked(fd, t.c2r[fd])
      BY <2>1, ClientIsLinked
    <2> QED BY <1>1, <2>2, CloseStep DEF on_close
  <1>2. CASE on_remote_close(fd) \/ on_remote_connect_ng(fd)
    <2>1. t.role[fd] \in {"remote", "connecting"}
      BY <1>2 DEF on_remote_close, on_remote_connect_ng, Live
    <2>2. t.cap[fd] \in Fds /\ Linked(t.cap[fd], fd)
      BY <2>1, RemoteIsLinked
    <2> QED BY <1>2, <2>2, CloseStep DEF on_remote_close, on_remote_connect_ng
  <1> QED BY <1>1, <1>2

-----------------------------------------------------------------------------
(* Passing on.                                                             *)

\* A step that reads from one side of a tunnel and leaves it linked.
LEMMA LinkedStep ==
    ASSUME TunnelInv, TypeOK', NEW c \in Fds, NEW r \in Fds, Linked(c, r),
           UNCHANGED <<proto, conn, nconn, broken>>,
           \A g \in Fds \ {c, r} : SameAt(t, t', g),
           NEW k \in {conn[c], conn[r]},
           \A j \in Conns \ {k} : nread'[j] = nread[j],
           \A j \in Conns \ {Other(k)} : sent'[j] = sent[j],
           ArrivedFrom(k)', Linked(c, r)'
    PROVE  TunnelInv'
  <1>1. c # r /\ k \in 1..nconn /\ conn[c] \in Nat
    BY LinkedConns
  <1>2. Other(k) \in {conn[c], conn[r]}
    BY <1>1, OtherFacts DEF Linked
  <1>3. Transparent' /\ NewIsSilent'
    BY <1>1, ReadStep
  <1>4. ConnsAgree' /\ Holds(t, c, r)
    BY DEF TunnelInv, ConnsAgree, Linked
  <1>5. ClosingIsOpen' /\ ClosedTogether' /\ PairsAgree' /\ FlowAgrees'
    <2>1. \A g \in Fds \ {c, r} : SameAt(t, t', g) /\ conn'[g] = conn[g]
      OBVIOUS
    <2>2. \A j \in Conns \ {conn'[c], conn'[r]} : nread'[j] = nread[j] /\ sent'[j] = sent[j]
      BY <1>2
    <2> QED BY <1>1, <1>4, <2>1, <2>2, PairSuffices
  <1> QED BY <1>3, <1>4, <1>5 DEF TunnelInv

\* Only the buffer of c changes.
LEMMA BufFacts ==
    ASSUME NEW u \in Tables, NEW c \in Fds, NEW ms \in Seq(Messages)
    PROVE  LET v == [u EXCEPT !.buf[c] = ms] IN
           /\ v \in Tables
           /\ v.buf[c] = ms
           /\ v.role = u.role /\ v.cap = u.cap /\ v.armed = u.armed
           /\ v.c2r = u.c2r /\ v.state = u.state /\ v.closing = u.closing
           /\ \A g \in Fds \ {c} : SameAt(u, v, g)
  <1> DEFINE v == [u EXCEPT !.buf[c] = ms]
  <1>1. /\ v.role = u.role /\ v.cap = u.cap /\ v.armed = u.armed
        /\ v.c2r = u.c2r /\ v.state = u.state /\ v.closing = u.closing
        /\ v.buf = [u.buf EXCEPT ![c] = ms]
    BY DEF Tables
  <1>2. v \in Tables
    BY DEF Tables
  <1> HIDE DEF v
  <1>3. v.buf[c] = ms /\ \A g \in Fds \ {c} : SameAt(u, v, g)
    BY <1>1 DEF Tables, SameAt
  <1> QED BY <1>1, <1>2, <1>3 DEF v

\* What is read is a message of its connection.
LEMMA ReadFacts ==
    ASSUME TunnelInv, NEW k \in Conns, nread[k] < MaxMsg, nread' = [nread EXCEPT ![k] = @ + 1]
    PROVE  /\ nread' \in [Conns -> 0..MaxMsg]
           /\ nread[k] \in Nat /\ nread'[k] = nread[k] + 1
           /\ \A j \in Conns \ {k} : nread'[j] = nread[j]
           /\ <<k, nread[k] + 1>> \in Messages
  <1>1. nread \in [Conns -> 0..MaxMsg] /\ MaxMsg \in Nat
    BY ConstantFacts DEF TunnelInv, TypeOK
  <1>2. nread[k] \in Nat /\ nread[k] + 1 \in 0..MaxMsg
    BY <1>1
  <1> QED BY <1>1, <1>2 DEF Messages

\* What is written to a connection that takes bytes, or is lost.
LEMMA SendFacts ==
    ASSUME TunnelInv, NEW fd \in Fds, NEW result, NEW ms \in Seq(Messages),
           conn[fd] \in Conns, WriteMay(fd, result), Sends(fd, result, ms)
    PROVE  /\ sent' \in [Conns -> Seq(Messages)]
           /\ \A j \in Conns \ {conn[fd]} : sent'[j] = sent[j]
           /\ conn[fd] \in broken => result # "ok" /\ sent' = sent
           /\ conn[fd] \notin broken => result = "ok" /\ sent'[conn[fd]] = sent[conn[fd]] \o ms
  <1>1. sent \in [Conns -> Seq(Messages)]
    BY DEF TunnelInv, TypeOK
  <1>2. conn[fd] # NoConn
    BY ConstantFacts DEF Conns
  <1>3. result = "ok" <=> conn[fd] \notin broken
    BY <1>2 DEF WriteMay
  <1>4. sent[conn[fd]] \o ms \in Seq(Messages)
    BY <1>1
  <1> QED BY <1>1, <1>3, <1>4 DEF Sends

\* A client's message is buffered while its remote connects.
LEMMA BufferStep ==
    ASSUME TunnelInv, NEW c \in Fds, NEW result, on_message(c, result), t.state[c] # "CONNECTED"
    PROVE  TunnelInv'
  <1>0. PICK k, r : k = conn[c] /\ r = t.c2r[c]
    OBVIOUS
  <1> DEFINE m == <<k, nread[k] + 1>>
             ms == Append(t.buf[c], m)
  <1>1. /\ t.role[c] = "client" /\ nread[k] < MaxMsg /\ nread' = [nread EXCEPT ![k] = @ + 1]
        /\ t' = [t EXCEPT !.buf[c] = ms]
        /\ UNCHANGED <<proto, conn, nconn, broken, sent>>
    BY <1>0 DEF on_message, Live, append_buf
  <1>2. r \in Fds /\ Linked(c, r) /\ c # r
    BY <1>0, <1>1, ClientIsLinked
  <1>3. k \in 1..nconn /\ k \in Conns /\ k + 1 \in Conns
    BY <1>0, <1>2, LinkedConns DEF Linked
  <1>4. /\ nread' \in [Conns -> 0..MaxMsg]
        /\ nread[k] \in Nat /\ nread'[k] = nread[k] + 1
        /\ \A j \in Conns \ {k} : nread'[j] = nread[j]
        /\ m \in Messages
    BY <1>1, <1>3, ReadFacts
  <1>5. /\ Len(t.buf[c]) = nread[k] /\ \A i \in 1..nread[k] : t.buf[c][i] = <<k, i>>
        /\ t.state[c] = "CONNECT" /\ sent[k] = <<>> /\ sent[k + 1] = <<>> /\ nread[k + 1] = 0
    BY <1>0, <1>2 DEF Linked, FlowAt
  <1>6. t \in Tables /\ t.buf[c] \in Seq(Messages)
    BY DEF TunnelInv, TypeOK, Tables
  <1> HIDE DEF m
  <1>7. ms \in Seq(Messages) /\ Len(ms) = nread[k] + 1 /\ ms[nread[k] + 1] = m
    BY <1>4, <1>5, <1>6
  <1>8. \A i \in 1..(nread[k] + 1) : ms[i] = <<k, i>>
    <2> SUFFICES ASSUME NEW i \in 1..(nread[k] + 1) PROVE ms[i] = <<k, i>>
      OBVIOUS
    <2>1. CASE i = nread[k] + 1
      BY <2>1, <1>7 DEF m
    <2>2. CASE i # nread[k] + 1
      <3>1. i \in 1..nread[k]
        BY <2>2, <1>4
      <3>2. ms[i] = t.buf[c][i]
        BY <3>1, <1>4, <1>5, <1>6
      <3> QED BY <3>1, <3>2, <1>5
    <2> QED BY <2>1, <2>2
  <1> HIDE DEF ms
  <1>9. /\ t' \in Tables /\ t'.buf[c] = ms
        /\ t'.role = t.role /\ t'.cap = t.cap /\ t'.armed = t.armed
        /\ t'.c2r = t.c2r /\ t'.state = t.state /\ t'.closing = t.closing
        /\ \A g \in Fds \ {c} : SameAt(t, t', g)
    BY <1>1, <1>6, <1>7, BufFacts, ZenonT(40)
  <1>10. TypeOK'
    BY <1>1, <1>4, <1>9 DEF TunnelInv, TypeOK
  <1>11. ArrivedFrom(k)'
    BY <1>1, <1>3, <1>4, ReadMore
  <1>12. FlowAt(c)'
    <2>1. conn'[c] = k /\ nread'[k + 1] = 0
      BY <1>1, <1>3, <1>4, <1>5, <1>0
    <2> QED BY <1>1, <1>4, <1>5, <1>7, <1>8, <1>9, <2>1 DEF FlowAt
  <1>13. Linked(c, r)'
    BY <1>1, <1>2, <1>9, <1>12 DEF Linked, Holds, SameAt
  <1>14. k \in {conn[c], conn[r]}
    BY <1>0
  <1> QED BY <1>1, <1>2, <1>4, <1>9, <1>10, <1>11, <1>13, <1>14, LinkedStep

\* A message behind a sequence is its last, and one in front its first.
LEMMA AppendFacts ==
    ASSUME NEW q \in Seq(Messages), NEW x \in Messages
    PROVE  /\ q \o <<x>> \in Seq(Messages) /\ Len(q \o <<x>>) = Len(q) + 1 /\ (q \o <<x>>)[Len(q) + 1] = x
           /\ \A i \in 1..Len(q) : (q \o <<x>>)[i] = q[i]
           /\ <<x>> \o q \in Seq(Messages) /\ Len(<<x>> \o q) = Len(q) + 1 /\ (<<x>> \o q)[1] = x
           /\ \A i \in 2..(Len(q) + 1) : (<<x>> \o q)[i] = q[i - 1]
  OBVIOUS

\* One more message has been read and is written behind the others.
LEMMA AppendStep ==
    ASSUME TunnelInv, UNCHANGED proto, NEW k \in 1..nconn,
           nread[k] \in Nat, nread'[k] = nread[k] + 1, <<k, nread[k] + 1>> \in Messages,
           Len(sent[Other(k)]) = Lead(k) + nread[k],
           sent'[Other(k)] = sent[Other(k)] \o <<<<k, nread[k] + 1>>>>
    PROVE  ArrivedFrom(k)' /\ Len(sent'[Other(k)]) = Lead(k) + nread'[k]
  <1>0. PICK m, q : m = <<k, nread[k] + 1>> /\ q = sent[Other(k)]
    OBVIOUS
  <1>1. Lead(k)' = Lead(k) /\ Lead(k) \in Nat
    BY DEF Lead
  <1>2. q \in Seq(Messages)
    BY <1>0, OtherSide DEF TunnelInv, TypeOK
  <1>3. \A i \in 1..Len(q) : q[i] = <<k, i - Lead(k)>>
    BY <1>0 DEF TunnelInv, Transparent
  <1>4. sent'[Other(k)] = q \o <<m>> /\ Len(q) = Lead(k) + nread[k] /\ m \in Messages
    BY <1>0
  <1>5. m = <<k, (Len(q) + 1) - Lead(k)>>
    BY <1>0, <1>1, <1>4
  <1>6. /\ Len(q \o <<m>>) = Len(q) + 1 /\ (q \o <<m>>)[Len(q) + 1] = m
        /\ \A i \in 1..Len(q) : (q \o <<m>>)[i] = q[i]
    <2>1. m \in Messages
      BY <1>4
    <2> QED BY <2>1, <1>2, AppendFacts, Zenon
  <1>7. ASSUME NEW i \in 1..(Len(q) + 1) PROVE (q \o <<m>>)[i] = <<k, i - Lead(k)>>
    <2>1. CASE i = Len(q) + 1
      BY <2>1, <1>5, <1>6
    <2>2. CASE i # Len(q) + 1
      <3>1. Len(q) \in Nat
        BY <1>2
      <3>2. i \in 1..Len(q)
        BY <2>2, <3>1
      <3> QED BY <3>2, <1>3, <1>6
    <2> QED BY <2>1, <2>2
  <1>8. Len(sent'[Other(k)]) = Lead(k) + nread'[k]
    BY <1>1, <1>4, <1>6
  <1>9. \A i \in 1..Len(sent'[Other(k)]) : sent'[Other(k)][i] = <<k, i - Lead(k)>>
    BY <1>4, <1>6, <1>7
  <1>10. Len(sent'[Other(k)]) =< Lead(k) + nread'[k]
    BY <1>1, <1>8
  <1> QED BY <1>1, <1>8, <1>9, <1>10 DEF ArrivedFrom, Lead

\* A client's message is passed on once its remote is connected.
LEMMA PassOnStep ==
    ASSUME TunnelInv, NEW c \in Fds, NEW result, on_message(c, result), t.state[c] = "CONNECTED"
    PROVE  TunnelInv'
  <1>1. PICK k, r, m, u : /\ k = conn[c] /\ r = t.c2r[c] /\ m = <<k, nread[k] + 1>>
                          /\ u = [t EXCEPT !.buf[c] = <<>>]
    OBVIOUS
  <1>2. /\ t.role[c] = "client" /\ nread[k] < MaxMsg /\ nread' = [nread EXCEPT ![k] = @ + 1]
        /\ WriteMay(r, result) /\ Sends(r, result, Append(t.buf[c], m))
        /\ t' = IF result = "EPIPE" THEN close(u, r) ELSE u
        /\ UNCHANGED <<proto, conn, nconn, broken>>
    BY <1>1 DEF on_message, Live, append_buf
  <1>3. r \in Fds /\ Linked(c, r) /\ c # r
    BY <1>1, <1>2, ClientIsLinked
  <1>4. k \in 1..nconn /\ k \in Conns /\ k + 1 \in Conns /\ conn[r] = k + 1 /\ Other(k) = k + 1
    <2>1. /\ k \in 1..nconn /\ k \in Conns /\ k + 1 \in Conns /\ conn[r] = k + 1 /\ IsClient(k)
      BY <1>1, <1>3, LinkedConns DEF Linked
    <2>2. Other(k) = k + 1
      BY ONLY <2>1 DEF Other
    <2> QED BY ONLY <2>1, <2>2
  <1>5. /\ nread' \in [Conns -> 0..MaxMsg]
        /\ nread[k] \in Nat /\ nread'[k] = nread[k] + 1
        /\ \A j \in Conns \ {k} : nread'[j] = nread[j]
        /\ m \in Messages
    BY <1>1, <1>2, <1>4, ReadFacts
  <1>6. /\ t.buf[c] = <<>>
        /\ k + 1 \in broken \/ Len(sent[k + 1]) = Lead(k) + nread[k]
        /\ k \in broken \/ Len(sent[k]) = nread[k + 1]
    BY <1>1, <1>3 DEF Linked, FlowAt
  <1>7. Append(t.buf[c], m) = <<m>> /\ <<m>> \in Seq(Messages)
    BY <1>5, <1>6
  <1>8. /\ sent' \in [Conns -> Seq(Messages)]
        /\ \A j \in Conns \ {k + 1} : sent'[j] = sent[j]
        /\ k + 1 \in broken => result # "ok" /\ sent' = sent
        /\ k + 1 \notin broken => result = "ok" /\ sent'[k + 1] = sent[k + 1] \o <<m>>
    BY <1>2, <1>3, <1>4, <1>7, SendFacts
  <1>9. t \in Tables /\ <<>> \in Seq(Messages)
    BY DEF TunnelInv, TypeOK
  <1>10. /\ u \in Tables /\ u.buf[c] = <<>>
         /\ u.role = t.role /\ u.cap = t.cap /\ u.armed = t.armed
         /\ u.c2r = t.c2r /\ u.state = t.state /\ u.closing = t.closing
         /\ \A g \in Fds \ {c} : SameAt(t, u, g)
    BY <1>1, <1>9, BufFacts
  <1>11. CASE result = "EPIPE"
    <2>1. sent' = sent
      BY <1>8, <1>11
    <2>2. Holds(u, c, r)
      BY <1>3, <1>10 DEF Linked, Holds, SameAt
    <2>3. /\ t' \in Tables /\ Unused(t', c) /\ Unused(t', r)
          /\ \A g \in Fds \ {c, r} : SameAt(u, t', g)
      BY <1>2, <1>3, <1>10, <1>11, <2>2, CloseFacts
    <2>4. \A g \in Fds \ {c, r} : SameAt(t, t', g)
      BY <1>10, <2>3 DEF SameAt
    <2>5. TypeOK'
      BY <1>2, <1>5, <2>1, <2>3 DEF TunnelInv, TypeOK
    <2>6. nread'[k] >= nread[k] /\ k \in {conn[c], conn[r]}
      BY <1>1, <1>5
    <2> QED BY <1>2, <1>3, <1>5, <2>1, <2>3, <2>4, <2>5, <2>6, CutStep
  <1>12. CASE result # "EPIPE"
    <2>1. t' = u
      BY <1>2, <1>12
    <2>2. TypeOK'
      BY <1>2, <1>5, <1>8, <1>10, <2>1 DEF TunnelInv, TypeOK
    <2>3. ArrivedFrom(k)' /\ (k + 1 \in broken \/ Len(sent'[k + 1]) = Lead(k) + nread'[k])
      <3>1. CASE k + 1 \in broken
        BY <3>1, <1>2, <1>4, <1>5, <1>8, ReadMore
      <3>2. CASE k + 1 \notin broken
        BY <3>2, <1>1, <1>2, <1>4, <1>5, <1>6, <1>8, AppendStep
      <3> QED BY <3>1, <3>2
    <2>4. FlowAt(c)'
      <3>1. /\ conn'[c] = k /\ t'.state[c] = "CONNECTED" /\ t'.buf[c] = <<>> /\ broken' = broken
            /\ Lead(k)' = Lead(k)
        BY <1>1, <1>2, <1>10, <2>1 DEF Lead
      <3>2. k # k + 1 /\ sent'[k] = sent[k] /\ nread'[k + 1] = nread[k + 1]
        BY <1>4, <1>5, <1>8
      <3> QED BY <3>1, <3>2, <1>6, <2>3 DEF FlowAt, Lead
    <2>5. Linked(c, r)'
      BY <1>2, <1>3, <1>10, <2>1, <2>4 DEF Linked, Holds, SameAt
    <2>6. k \in {conn[c], conn[r]}
      BY <1>1
    <2> QED BY <1>2, <1>3, <1>4, <1>5, <1>8, <1>10, <2>1, <2>2, <2>3, <2>5, <2>6, LinkedStep
  <1> QED BY <1>11, <1>12

\* A remote's message is passed on to its client.
LEMMA PassBackStep ==
    ASSUME TunnelInv, NEW r \in Fds, NEW result, on_remote_message(r, result)
    PROVE  TunnelInv'
  <1>1. PICK k, c, m : k = conn[r] /\ c = t.cap[r] /\ m = <<k, nread[k] + 1>>
    OBVIOUS
  <1>2. /\ t.role[r] = "remote" /\ nread[k] < MaxMsg /\ nread' = [nread EXCEPT ![k] = @ + 1]
        /\ WriteMay(c, result) /\ Sends(c, result, <<m>>)
        /\ t' = IF result = "EPIPE" THEN close(t, c) ELSE t
        /\ UNCHANGED <<proto, conn, nconn, broken>>
    BY <1>1 DEF on_remote_message, Live
  <1>3. c \in Fds /\ Linked(c, r) /\ c # r /\ t.state[c] = "CONNECTED"
    <2>1. c \in Fds /\ Linked(c, r) /\ c # r
      BY <1>1, <1>2, RemoteIsLinked
    <2> QED BY <2>1, <1>2 DEF Linked, Holds
  <1>4. PICK j : j = conn[c]
    OBVIOUS
  <1>5. /\ j \in 1..nconn /\ j \in Conns /\ k \in 1..nconn /\ k \in Conns
        /\ k = j + 1 /\ Other(k) = j /\ Lead(k) = 0
    <2>1. /\ j \in 1..nconn /\ j \in Conns /\ k \in 1..nconn /\ k \in Conns
          /\ k = j + 1 /\ IsClient(j)
      BY <1>1, <1>3, <1>4, LinkedConns DEF Linked
    <2>2. Other(k) = j /\ ~IsClient(k)
      BY <2>1, OtherFacts
    <2> QED BY <2>1, <2>2 DEF Lead
  <1>6. /\ nread' \in [Conns -> 0..MaxMsg]
        /\ nread[k] \in Nat /\ nread'[k] = nread[k] + 1
        /\ \A i \in Conns \ {k} : nread'[i] = nread[i]
        /\ m \in Messages
    BY <1>1, <1>2, <1>5, ReadFacts
  <1>7. /\ t.buf[c] = <<>>
        /\ k \in broken \/ Len(sent[k]) = Lead(j) + nread[j]
        /\ j \in broken \/ Len(sent[j]) = nread[k]
    BY <1>3, <1>4, <1>5 DEF Linked, FlowAt
  <1>8. <<m>> \in Seq(Messages)
    BY <1>6
  <1>9. /\ sent' \in [Conns -> Seq(Messages)]
        /\ \A i \in Conns \ {j} : sent'[i] = sent[i]
        /\ j \in broken => result # "ok" /\ sent' = sent
        /\ j \notin broken => result = "ok" /\ sent'[j] = sent[j] \o <<m>>
    BY <1>2, <1>3, <1>4, <1>5, <1>8, SendFacts
  <1>10. t \in Tables
    BY DEF TunnelInv, TypeOK
  <1>11. CASE result = "EPIPE"
    <2>1. sent' = sent
      BY <1>9, <1>11
    <2>2. /\ t' \in Tables /\ Unused(t', c) /\ Unused(t', r)
          /\ \A g \in Fds \ {c, r} : SameAt(t, t', g)
      BY <1>2, <1>3, <1>10, <1>11, CloseFacts DEF Linked
    <2>3. TypeOK'
      BY <1>2, <1>6, <2>1, <2>2 DEF TunnelInv, TypeOK
    <2>4. nread'[k] >= nread[k] /\ k \in {conn[c], conn[r]}
      BY <1>1, <1>6
    <2> QED BY <1>2, <1>3, <1>6, <2>1, <2>2, <2>3, <2>4, CutStep
  <1>12. CASE result # "EPIPE"
    <2>1. t' = t
      BY <1>2, <1>12
    <2>2. TypeOK'
      BY <1>2, <1>6, <1>9, <2>1 DEF TunnelInv, TypeOK
    <2>3. ArrivedFrom(k)' /\ (j \in broken \/ Len(sent'[j]) = nread'[k])
      <3>1. CASE j \in broken
        BY <3>1, <1>2, <1>5, <1>6, <1>9, ReadMore
      <3>2. CASE j \notin broken
        <4>1. Len(sent[Other(k)]) = Lead(k) + nread[k]
          BY <3>2, <1>5, <1>6, <1>7
        <4>2. sent'[Other(k)] = sent[Other(k)] \o <<<<k, nread[k] + 1>>>>
          BY <3>2, <1>1, <1>5, <1>9
        <4>3. ArrivedFrom(k)' /\ Len(sent'[Other(k)]) = Lead(k) + nread'[k]
          BY <4>1, <4>2, <1>1, <1>2, <1>5, <1>6, AppendStep
        <4> QED BY <4>3, <1>5, <1>6
      <3> QED BY <3>1, <3>2
    <2>4. FlowAt(c)'
      <3>1. conn'[c] = j /\ broken' = broken /\ Lead(j)' = Lead(j)
        BY <1>2, <1>4 DEF Lead
      <3>2. j # k /\ sent'[k] = sent[k] /\ nread'[j] = nread[j]
        BY <1>5, <1>6, <1>9
      <3> QED BY <3>1, <3>2, <1>3, <1>5, <1>7, <2>1, <2>3 DEF FlowAt, Lead
    <2>5. Linked(c, r)'
      BY <1>2, <1>3, <2>1, <2>4 DEF Linked, Holds
    <2>6. k \in {conn[c], conn[r]} /\ \A g \in Fds \ {c, r} : SameAt(t, t', g)
      BY <1>1, <2>1 DEF SameAt
    <2> QED BY <1>2, <1>3, <1>5, <1>6, <1>9, <2>2, <2>3, <2>5, <2>6, LinkedStep
  <1> QED BY <1>11, <1>12

-----------------------------------------------------------------------------
(* Connecting.                                                             *)

\* The remote becomes connected: both sides of the tunnel know, nobody else.
LEMMA FlushFacts ==
    ASSUME NEW u \in Tables, NEW c \in Fds, NEW r \in Fds, c # r
    PROVE  LET v == watch([flush(u, c) EXCEPT !.role[r] = "none"], r, "remote", c) IN
           /\ v \in Tables
           /\ v.state[c] = "CONNECTED" /\ v.buf[c] = <<>>
           /\ v.role[c] = u.role[c] /\ v.armed[c] = u.armed[c]
           /\ v.role[r] = "remote" /\ v.cap[r] = c /\ v.armed[r]
           /\ v.state[r] = u.state[r] /\ v.buf[r] = u.buf[r]
           /\ v.c2r = u.c2r /\ v.closing = u.closing
           /\ \A g \in Fds \ {c, r} : SameAt(u, v, g)
  <1> DEFINE v == watch([flush(u, c) EXCEPT !.role[r] = "none"], r, "remote", c)
  <1>1. /\ u.role \in [Fds -> Roles] /\ u.cap \in [Fds -> Fds \union {NoFd}]
        /\ u.armed \in [Fds -> BOOLEAN] /\ u.state \in [Fds -> States]
        /\ u.buf \in [Fds -> Seq(Messages)]
    BY DEF Tables
  <1>2. v.c2r = u.c2r /\ v.closing = u.closing
    BY DEF watch, flush, Tables
  <1>3. v.state = [u.state EXCEPT ![c] = "CONNECTED"] /\ v.buf = [u.buf EXCEPT ![c] = <<>>]
    BY DEF watch, flush, Tables
  <1>4. v.cap = [u.cap EXCEPT ![r] = c] /\ v.role = [u.role EXCEPT ![r] = "remote"]
    BY DEF watch, flush, Tables
  <1>5. v.armed = [u.armed EXCEPT ![r] = TRUE]
    BY DEF watch, flush, Tables
  <1>6. <<>> \in Seq(Messages) /\ "CONNECTED" \in States /\ "remote" \in Roles
    BY DEF States, Roles
  <1>7. v \in Tables
    <2>1. v = [role |-> v.role, cap |-> v.cap, armed |-> v.armed, closing |-> v.closing,
               c2r |-> v.c2r, state |-> v.state, buf |-> v.buf]
      BY DEF watch, flush, Tables
    <2>2. /\ v.role \in [Fds -> Roles] /\ v.cap \in [Fds -> Fds \union {NoFd}]
          /\ v.armed \in [Fds -> BOOLEAN] /\ v.state \in [Fds -> States]
          /\ v.buf \in [Fds -> Seq(Messages)]
      <3> HIDE DEF v
      <3> QED BY <1>1, <1>3, <1>4, <1>5, <1>6
    <2>3. v.c2r \in [Fds -> Fds \union {NoFd}] /\ v.closing \in SUBSET Fds
      BY <1>2 DEF Tables
    <2> HIDE DEF v
    <2> QED BY <2>1, <2>2, <2>3 DEF Tables
  <1> HIDE DEF v
  <1>8. /\ v.state[c] = "CONNECTED" /\ v.buf[c] = <<>>
        /\ v.role[c] = u.role[c] /\ v.armed[c] = u.armed[c]
        /\ v.role[r] = "remote" /\ v.cap[r] = c /\ v.armed[r]
        /\ v.state[r] = u.state[r] /\ v.buf[r] = u.buf[r]
    BY <1>1, <1>3, <1>4, <1>5
  <1>9. \A g \in Fds \ {c, r} : SameAt(u, v, g)
    BY <1>1, <1>2, <1>3, <1>4, <1>5 DEF SameAt
  <1> QED BY <1>2, <1>7, <1>8, <1>9 DEF v

\* The session id and what was buffered behind it, as the remote gets them.
LEMMA FlushedFacts ==
    ASSUME NEW k \in Conns, IsClient(k), NEW n \in Nat, NEW b \in Seq(Messages),
           Len(b) = n, \A i \in 1..n : b[i] = <<k, i>>
    PROVE  LET ms == session_id(k) \o b IN
           /\ ms \in Seq(Messages) /\ Len(ms) = Lead(k) + n
           /\ \A i \in 1..Len(ms) : ms[i] = <<k, i - Lead(k)>>
  <1>1. CASE proto = "Remote"
    <2>1. PICK x : x = <<k, 0>>
      OBVIOUS
    <2>2. session_id(k) = <<x>> /\ Lead(k) = 1
      BY <1>1, <2>1 DEF session_id, Lead
    <2>3. x \in Messages
      BY <2>1, ConstantFacts DEF Messages
    <2>4. /\ <<x>> \o b \in Seq(Messages) /\ Len(<<x>> \o b) = Len(b) + 1 /\ (<<x>> \o b)[1] = x
          /\ \A i \in 2..(Len(b) + 1) : (<<x>> \o b)[i] = b[i - 1]
      BY <2>3, AppendFacts, Zenon
    <2>5. ASSUME NEW i \in 1..(n + 1) PROVE (<<x>> \o b)[i] = <<k, i - 1>>
      <3>1. CASE i = 1
        BY <3>1, <2>1, <2>4
      <3>2. CASE i # 1
        <4>1. i \in 2..(n + 1) /\ i - 1 \in 1..n
          BY <3>2
        <4> QED BY <4>1, <2>4
      <3> QED BY <3>1, <3>2
    <2> QED BY <2>2, <2>4, <2>5
  <1>2. CASE proto # "Remote"
    <2>1. session_id(k) = <<>> /\ Lead(k) = 0
      BY <1>2 DEF session_id, Lead
    <2>2. session_id(k) \o b = b
      BY <2>1
    <2> QED BY <2>1, <2>2
  <1> QED BY <1>1, <1>2

\* The remote is connected, and gets what was buffered.
LEMMA ConnectedStep ==
    ASSUME TunnelInv, Awkward = {}, NEW r \in Fds, NEW result, on_remote_connect_ok(r, result)
    PROVE  TunnelInv'
  <1>1. PICK c, k, ms : /\ c = t.cap[r] /\ k = conn[c]
                        /\ ms = session_id(k) \o t.buf[c]
    OBVIOUS
  <1>2. /\ t.role[r] = "connecting" /\ WriteMay(r, result) /\ Sends(r, result, ms)
        /\ t' = watch([flush(t, c) EXCEPT !.role[r] = "none"], r, "remote", c)
        /\ UNCHANGED <<proto, conn, nconn, broken, nread>>
    BY <1>1 DEF on_remote_connect_ok, Live
  <1>3. c \in Fds /\ Linked(c, r) /\ c # r /\ t.state[c] # "CONNECTED"
    <2>1. c \in Fds /\ Linked(c, r) /\ c # r
      BY <1>1, <1>2, RemoteIsLinked
    <2> QED BY <2>1, <1>2 DEF Linked, Holds
  <1>4. /\ k \in 1..nconn /\ k \in Conns /\ k + 1 \in Conns /\ conn[r] = k + 1 /\ Other(k) = k + 1
        /\ IsClient(k)
    <2>1. /\ k \in 1..nconn /\ k \in Conns /\ k + 1 \in Conns /\ conn[r] = k + 1 /\ IsClient(k)
      BY <1>1, <1>3, LinkedConns DEF Linked
    <2>2. Other(k) = k + 1
      BY ONLY <2>1 DEF Other
    <2> QED BY ONLY <2>1, <2>2
  <1>5. t \in Tables /\ t.buf[c] \in Seq(Messages) /\ nread[k] \in Nat
    BY <1>3, <1>4 DEF TunnelInv, TypeOK, Tables
  <1>6. /\ Len(t.buf[c]) = nread[k] /\ \A i \in 1..nread[k] : t.buf[c][i] = <<k, i>>
        /\ sent[k] = <<>> /\ sent[k + 1] = <<>> /\ nread[k + 1] = 0
    BY <1>1, <1>3 DEF Linked, FlowAt
  <1>7. /\ ms \in Seq(Messages) /\ Len(ms) = Lead(k) + nread[k]
        /\ \A i \in 1..Len(ms) : ms[i] = <<k, i - Lead(k)>>
    <2>1. PICK b, n : b = t.buf[c] /\ n = nread[k]
      OBVIOUS
    <2>2. n \in Nat /\ b \in Seq(Messages) /\ Len(b) = n /\ \A i \in 1..n : b[i] = <<k, i>>
      BY <2>1, <1>5, <1>6
    <2>3. LET q == session_id(k) \o b IN
          /\ q \in Seq(Messages) /\ Len(q) = Lead(k) + n
          /\ \A i \in 1..Len(q) : q[i] = <<k, i - Lead(k)>>
      BY <1>4, <2>2, FlushedFacts, Zenon
    <2> QED BY <1>1, <2>1, <2>3
  <1>8. /\ sent' \in [Conns -> Seq(Messages)]
        /\ \A j \in Conns \ {k + 1} : sent'[j] = sent[j]
        /\ k + 1 \in broken => result # "ok" /\ sent' = sent
        /\ k + 1 \notin broken => result = "ok" /\ sent'[k + 1] = sent[k + 1] \o ms
    BY <1>2, <1>4, <1>7, SendFacts
  <1>9. k + 1 \notin broken => sent'[k + 1] = ms
    BY <1>6, <1>7, <1>8
  <1>10. /\ t' \in Tables
         /\ t'.state[c] = "CONNECTED" /\ t'.buf[c] = <<>>
         /\ t'.role[c] = t.role[c] /\ t'.armed[c] = t.armed[c]
         /\ t'.role[r] = "remote" /\ t'.cap[r] = c /\ t'.armed[r]
         /\ t'.state[r] = t.state[r] /\ t'.buf[r] = t.buf[r]
         /\ t'.c2r = t.c2r /\ t'.closing = t.closing
         /\ \A g \in Fds \ {c, r} : SameAt(t, t', g)
    BY <1>2, <1>3, <1>5, FlushFacts
  <1>11. TypeOK'
    BY <1>2, <1>8, <1>10 DEF TunnelInv, TypeOK
  <1>12. Lead(k)' = Lead(k) /\ Lead(k) \in Nat
    BY <1>2 DEF Lead
  <1>13. ArrivedFrom(k)'
    <2>1. CASE k + 1 \in broken
      <3>1. nread'[k] >= nread[k] /\ nread'[k] \in Nat
        BY <1>2, <1>5
      <3> QED BY <2>1, <3>1, <1>2, <1>4, <1>5, <1>8, ReadMore
    <2>2. CASE k + 1 \notin broken
      <3>1. sent'[Other(k)] = ms /\ nread'[k] = nread[k]
        BY <2>2, <1>2, <1>4, <1>9
      <3>2. Len(ms) =< Lead(k) + nread[k]
        BY <1>5, <1>7, <1>12
      <3> QED BY <3>1, <3>2, <1>7, <1>12 DEF ArrivedFrom, Lead
    <2> QED BY <2>1, <2>2
  <1>14. FlowAt(c)'
    <2>1. conn'[c] = k /\ broken' = broken /\ nread' = nread
      BY <1>1, <1>2
    <2>2. k # k + 1 /\ sent'[k] = <<>>
      BY <1>4, <1>6, <1>8
    <2>3. Len(sent'[k]) = nread'[k + 1]
      BY <2>1, <2>2, <1>6
    <2>4. k + 1 \in broken \/ Len(sent'[k + 1]) = Lead(k) + nread'[k]
      BY <2>1, <1>7, <1>9
    <2> QED BY <2>1, <2>3, <2>4, <1>10, <1>12 DEF FlowAt, Lead
  <1>15. Linked(c, r)'
    BY <1>2, <1>3, <1>10, <1>14, ZenonT(40) DEF Linked, Holds
  <1>16. k \in {conn[c], conn[r]} /\ \A j \in Conns \ {k} : nread'[j] = nread[j]
    BY <1>1, <1>2
  <1> QED BY <1>2, <1>3, <1>4, <1>8, <1>10, <1>11, <1>13, <1>15, <1>16, LinkedStep, ZenonT(40)

-----------------------------------------------------------------------------
(* The other steps.                                                        *)

\* The pending closes are made: nobody uses these numbers any more.
LEMMA ClosePendingStep ==
    ASSUME TunnelInv, close_pending
    PROVE  TunnelInv'
  <1> USE DEF TunnelInv
  <1>1. /\ conn' = [fd \in Fds |-> IF fd \in t.closing THEN NoConn ELSE conn[fd]]
        /\ t' = [t EXCEPT !.closing = {},
                          !.armed = [fd \in Fds |-> @[fd] /\ fd \notin t.closing]]
        /\ UNCHANGED <<proto, nconn, broken, nread, sent>>
    BY DEF close_pending
  <1>2. /\ t' \in Tables /\ t'.closing = {}
        /\ t'.role = t.role /\ t'.cap = t.cap /\ t'.c2r = t.c2r /\ t'.state = t.state
        /\ t'.buf = t.buf
        /\ \A fd \in Fds : t'.armed[fd] <=> t.armed[fd] /\ fd \notin t.closing
    BY <1>1 DEF TypeOK, Tables
  <1>3. \A fd \in Fds : t.role[fd] # "none" => fd \notin t.closing /\ conn'[fd] = conn[fd]
    BY <1>1 DEF ClosedTogether
  <1>4. TypeOK'
    <2>1. conn' \in [Fds -> 0..nconn]
      BY <1>1, ConstantFacts DEF TypeOK
    <2> QED BY <1>1, <1>2, <2>1 DEF TypeOK
  <1>5. ConnsAgree'
    BY <1>1 DEF ConnsAgree
  <1>6. ClosingIsOpen'
    BY <1>2 DEF ClosingIsOpen
  <1>7. ClosedTogether'
    BY <1>1, <1>2, <1>3 DEF ClosedTogether
  <1>8. ASSUME NEW c \in Fds, t.role[c] = "client"
        PROVE  conn'[c] = conn[c] /\ conn'[t.c2r[c]] = conn[t.c2r[c]]
    <2>1. t.c2r[c] \in Fds /\ t.role[t.c2r[c]] # "none"
      BY <1>8, ClientIsLinked DEF Linked, Holds
    <2> QED BY <1>3, <1>8, <2>1
  <1>9. PairsAgree'
    BY <1>2, <1>8 DEF PairsAgree
  <1>10. NewIsSilent' /\ Transparent'
    BY <1>1 DEF NewIsSilent, Transparent, Lead
  <1>11. FlowAgrees'
    <2> SUFFICES ASSUME NEW c \in Fds, t'.role[c] = "client" PROVE FlowAt(c)'
      BY DEF FlowAgrees, FlowAt
    <2>1. FlowAt(c) /\ conn'[c] = conn[c]
      BY <1>2, <1>8 DEF FlowAgrees, FlowAt
    <2> QED BY <2>1, <1>1, <1>2 DEF FlowAt, Lead
  <1> QED BY <1>4, <1>5, <1>6, <1>7, <1>9, <1>10, <1>11

\* A peer that stops taking bytes.
LEMMA PeerBreaksStep ==
    ASSUME TunnelInv, NEW fd \in Fds, peer_breaks(fd)
    PROVE  TunnelInv'
  <1> USE DEF TunnelInv
  <1>1. /\ broken' = broken \union {conn[fd]} /\ conn[fd] # NoConn
        /\ UNCHANGED <<proto, conn, nconn, nread, sent, t>>
    BY DEF peer_breaks
  <1>2. conn[fd] \in 1..nconn
    BY <1>1, ConstantFacts DEF TypeOK
  <1>3. TypeOK'
    BY <1>1, <1>2 DEF TypeOK
  <1>4. ConnsAgree' /\ ClosingIsOpen' /\ ClosedTogether' /\ PairsAgree'
    BY <1>1 DEF ConnsAgree, ClosingIsOpen, ClosedTogether, PairsAgree
  <1>5. NewIsSilent' /\ Transparent'
    BY <1>1 DEF NewIsSilent, Transparent, Lead
  <1>6. FlowAgrees'
    <2> SUFFICES ASSUME NEW c \in Fds, t'.role[c] = "client" PROVE FlowAt(c)'
      BY DEF FlowAgrees, FlowAt
    <2>1. FlowAt(c)
      BY <1>1 DEF FlowAgrees, FlowAt
    <2> QED BY <2>1, <1>1 DEF FlowAt, Lead
  <1> QED BY <1>3, <1>4, <1>5, <1>6

-----------------------------------------------------------------------------
(* A new tunnel.                                                           *)

\* The tables v are u with a new tunnel from c to r.
NewTunnel(u, v, c, r) ==
    /\ v \in Tables /\ Holds(v, c, r) /\ v.armed[c] /\ v.armed[r] /\ v.closing = u.closing
    /\ v.buf[c] = <<>>
    /\ \A g \in Fds \ {c, r} : SameAt(u, v, g)

\* A free number is unknown.
LEMMA FreeIsUnused ==
    ASSUME TunnelInv, NEW fd \in Free
    PROVE  fd \in Fds /\ conn[fd] = NoConn /\ Unused(t, fd) /\ fd \notin t.closing
  <1>1. fd \in Fds /\ conn[fd] = NoConn
    BY DEF Free
  <1>2. fd \notin t.closing
    BY <1>1 DEF TunnelInv, ClosingIsOpen
  <1>3. t.role[fd] = "none"
    BY <1>1 DEF TunnelInv, ClosedTogether
  <1> QED BY <1>1, <1>2, <1>3 DEF TunnelInv, ClosedTogether, Unused

\* The tables v are u with an armed entry for fd.
Watched(u, v, fd, role, client) ==
    /\ v \in Tables
    /\ v.role = [u.role EXCEPT ![fd] = role] /\ v.cap = [u.cap EXCEPT ![fd] = client]
    /\ v.armed = [u.armed EXCEPT ![fd] = TRUE]
    /\ v.closing = u.closing /\ v.c2r = u.c2r /\ v.state = u.state /\ v.buf = u.buf

\* Watching a number that is not watched adds an entry that is armed.
LEMMA WatchFacts ==
    ASSUME NEW u \in Tables, NEW fd \in Fds, u.role[fd] = "none", NEW role \in Roles,
           NEW client \in Fds \union {NoFd}, NEW v, v = watch(u, fd, role, client)
    PROVE  Watched(u, v, fd, role, client)
  <1>1. /\ v.role = [u.role EXCEPT ![fd] = role] /\ v.cap = [u.cap EXCEPT ![fd] = client]
        /\ v.closing = u.closing /\ v.c2r = u.c2r /\ v.state = u.state /\ v.buf = u.buf
    BY DEF watch, Tables
  <1>2. v.armed = [u.armed EXCEPT ![fd] = TRUE]
    BY DEF watch, Tables
  <1>3. v \in Tables
    BY DEF watch, Tables
  <1> QED BY <1>1, <1>2, <1>3 DEF Watched

\* The tables of a tunnel whose remote is being connected.
LEMMA ConnectingFacts ==
    ASSUME NEW u \in Tables, NEW c \in Fds, NEW r \in Fds, c # r, Unused(u, c), Unused(u, r),
           NEW v, v = watch([watch(u, r, "connecting", c)
                                EXCEPT !.state[c] = "CONNECT", !.c2r[c] = r, !.armed[r] = TRUE],
                            c, "client", NoFd)
    PROVE  NewTunnel(u, v, c, r) /\ v.state[c] = "CONNECT"
  <1>1. PICK x : x = watch(u, r, "connecting", c)
    OBVIOUS
  <1>2. PICK w : w = [x EXCEPT !.state[c] = "CONNECT", !.c2r[c] = r, !.armed[r] = TRUE]
    OBVIOUS
  <1>3. v = watch(w, c, "client", NoFd)
    BY <1>1, <1>2
  <1>4. /\ u.role[c] = "none" /\ u.role[r] = "none"
        /\ "client" \in Roles /\ "connecting" \in Roles /\ "CONNECT" \in States
    BY DEF Unused, Roles, States
  <1>5. /\ x \in Tables
        /\ x.role = [u.role EXCEPT ![r] = "connecting"] /\ x.cap = [u.cap EXCEPT ![r] = c]
        /\ x.armed = [u.armed EXCEPT ![r] = TRUE]
        /\ x.closing = u.closing /\ x.c2r = u.c2r /\ x.state = u.state /\ x.buf = u.buf
    <2>1. Watched(u, x, r, "connecting", c)
      BY <1>1, <1>4, WatchFacts
    <2> QED BY <2>1 DEF Watched
  <1>6. /\ w \in Tables
        /\ w.role = x.role /\ w.cap = x.cap /\ w.closing = x.closing /\ w.buf = x.buf
        /\ w.armed = [x.armed EXCEPT ![r] = TRUE]
        /\ w.state = [x.state EXCEPT ![c] = "CONNECT"] /\ w.c2r = [x.c2r EXCEPT ![c] = r]
    BY <1>2, <1>4, <1>5 DEF Tables
  <1>7. w.role[c] = "none"
    BY <1>4, <1>5, <1>6 DEF Tables
  <1>8. /\ v \in Tables
        /\ v.role = [w.role EXCEPT ![c] = "client"] /\ v.cap = [w.cap EXCEPT ![c] = NoFd]
        /\ v.armed = [w.armed EXCEPT ![c] = TRUE]
        /\ v.closing = w.closing /\ v.c2r = w.c2r /\ v.state = w.state /\ v.buf = w.buf
    <2>1. w \in Tables /\ c \in Fds /\ "client" \in Roles /\ NoFd \in Fds \union {NoFd}
      BY <1>4, <1>6
    <2>2. Watched(w, v, c, "client", NoFd)
      BY <2>1, <1>3, <1>7, WatchFacts
    <2> QED BY <2>2 DEF Watched
  <1>9. /\ u.role \in [Fds -> Roles] /\ u.cap \in [Fds -> Fds \union {NoFd}]
        /\ u.armed \in [Fds -> BOOLEAN] /\ u.state \in [Fds -> States]
        /\ u.c2r \in [Fds -> Fds \union {NoFd}] /\ u.buf \in [Fds -> Seq(Messages)]
    BY DEF Tables
  <1>10. /\ v.armed[c] /\ v.armed[r] /\ v.closing = u.closing
         /\ v.buf[c] = <<>> /\ v.state[c] = "CONNECT"
    BY <1>5, <1>6, <1>8, <1>9 DEF Unused
  <1>11. Holds(v, c, r)
    BY <1>5, <1>6, <1>8, <1>9 DEF Unused, Holds
  <1>12. \A g \in Fds \ {c, r} : SameAt(u, v, g)
    BY <1>5, <1>6, <1>8, <1>9 DEF SameAt
  <1> QED BY <1>8, <1>10, <1>11, <1>12 DEF NewTunnel

\* The tables of a tunnel whose remote is connected at once.
LEMMA AtOnceFacts ==
    ASSUME NEW u \in Tables, NEW c \in Fds, NEW r \in Fds, c # r, Unused(u, c), Unused(u, r),
           NEW v, v = watch([watch(u, r, "remote", c)
                                EXCEPT !.state[c] = "CONNECTED", !.c2r[c] = r, !.buf[c] = <<>>],
                            c, "client", NoFd)
    PROVE  NewTunnel(u, v, c, r) /\ v.state[c] = "CONNECTED"
  <1>1. PICK x : x = watch(u, r, "remote", c)
    OBVIOUS
  <1>2. PICK w : w = [x EXCEPT !.state[c] = "CONNECTED", !.c2r[c] = r, !.buf[c] = <<>>]
    OBVIOUS
  <1>3. v = watch(w, c, "client", NoFd)
    BY <1>1, <1>2
  <1>4. /\ u.role[c] = "none" /\ u.role[r] = "none" /\ <<>> \in Seq(Messages)
        /\ "client" \in Roles /\ "remote" \in Roles /\ "CONNECTED" \in States
    BY DEF Unused, Roles, States
  <1>5. /\ x \in Tables
        /\ x.role = [u.role EXCEPT ![r] = "remote"] /\ x.cap = [u.cap EXCEPT ![r] = c]
        /\ x.armed = [u.armed EXCEPT ![r] = TRUE]
        /\ x.closing = u.closing /\ x.c2r = u.c2r /\ x.state = u.state /\ x.buf = u.buf
    <2>1. Watched(u, x, r, "remote", c)
      BY <1>1, <1>4, WatchFacts
    <2> QED BY <2>1 DEF Watched
  <1>6. /\ w \in Tables
        /\ w.role = x.role /\ w.cap = x.cap /\ w.closing = x.closing /\ w.armed = x.armed
        /\ w.buf = [x.buf EXCEPT ![c] = <<>>]
        /\ w.state = [x.state EXCEPT ![c] = "CONNECTED"] /\ w.c2r = [x.c2r EXCEPT ![c] = r]
    BY <1>2, <1>4, <1>5 DEF Tables
  <1>7. w.role[c] = "none"
    BY <1>4, <1>5, <1>6 DEF Tables
  <1>8. /\ v \in Tables
        /\ v.role = [w.role EXCEPT ![c] = "client"] /\ v.cap = [w.cap EXCEPT ![c] = NoFd]
        /\ v.armed = [w.armed EXCEPT ![c] = TRUE]
        /\ v.closing = w.closing /\ v.c2r = w.c2r /\ v.state = w.state /\ v.buf = w.buf
    <2>1. w \in Tables /\ c \in Fds /\ "client" \in Roles /\ NoFd \in Fds \union {NoFd}
      BY <1>4, <1>6
    <2>2. Watched(w, v, c, "client", NoFd)
      BY <2>1, <1>3, <1>7, WatchFacts
    <2> QED BY <2>2 DEF Watched
  <1>9. /\ u.role \in [Fds -> Roles] /\ u.cap \in [Fds -> Fds \union {NoFd}]
        /\ u.armed \in [Fds -> BOOLEAN] /\ u.state \in [Fds -> States]
        /\ u.c2r \in [Fds -> Fds \union {NoFd}] /\ u.buf \in [Fds -> Seq(Messages)]
    BY DEF Tables
  <1>10. /\ v.armed[c] /\ v.armed[r] /\ v.closing = u.closing
         /\ v.buf[c] = <<>> /\ v.state[c] = "CONNECTED"
    BY <1>5, <1>6, <1>8, <1>9 DEF Unused
  <1>11. Holds(v, c, r)
    <2>1. v.role[c] = "client" /\ v.role[r] = "remote" /\ v.cap[r] = c
      BY <1>5, <1>6, <1>8, <1>9
    <2>2. v.c2r[c] = r /\ v.c2r[r] = NoFd
      BY <1>5, <1>6, <1>8, <1>9 DEF Unused
    <2>3. v.state[r] = "none" /\ v.buf[r] = <<>>
      BY <1>5, <1>6, <1>8, <1>9 DEF Unused
    <2> QED BY <1>10, <2>1, <2>2, <2>3 DEF Holds
  <1>12. \A g \in Fds \ {c, r} : SameAt(u, v, g)
    BY <1>5, <1>6, <1>8, <1>9 DEF SameAt
  <1> QED BY <1>8, <1>10, <1>11, <1>12 DEF NewTunnel

\* A tunnel for an accepted client, over two connections that are new.
LEMMA NewTunnelStep ==
    ASSUME TunnelInv, NEW c \in Free, NEW r \in Free, c # r, nconn + 2 =< MaxConn,
           nconn' = nconn + 2, conn' = [conn EXCEPT ![c] = nconn + 1, ![r] = nconn + 2],
           UNCHANGED <<proto, broken, nread>>,
           NewTunnel(t, t', c, r),
           \/ t'.state[c] = "CONNECT" /\ sent' = sent
           \/ /\ t'.state[c] = "CONNECTED"
              /\ sent' = [sent EXCEPT ![nconn + 2] = session_id(nconn + 1)]
    PROVE  TunnelInv'
  <1>1. /\ c \in Fds /\ r \in Fds /\ Unused(t, c) /\ Unused(t, r)
        /\ c \notin t.closing /\ r \notin t.closing
    BY FreeIsUnused
  <1>2. PICK k : k = nconn + 1
    OBVIOUS
  <1>3. nconn \in Nat /\ nconn % 2 = 0 /\ MaxConn \in Nat
    BY ConstantFacts DEF TunnelInv, TypeOK, ConnsAgree
  <1>4. /\ k \in Conns /\ k + 1 \in Conns /\ k + 1 = nconn + 2 /\ k \in Nat
        /\ k > nconn /\ k + 1 > nconn /\ nconn' = k + 1
    BY <1>2, <1>3 DEF Conns
  <1>5. IsClient(k) /\ Other(k) = k + 1 /\ Other(k + 1) = k /\ ~IsClient(k + 1) /\ (nconn + 2) % 2 = 0
    BY <1>2, <1>3, OtherFacts
  <1>6. nread[k] = 0 /\ nread[k + 1] = 0 /\ sent[k] = <<>> /\ sent[k + 1] = <<>>
    BY <1>4 DEF TunnelInv, NewIsSilent
  <1>7. conn'[c] = k /\ conn'[r] = k + 1 /\ \A g \in Fds \ {c, r} : conn'[g] = conn[g]
    BY <1>1, <1>2, <1>4 DEF TunnelInv, TypeOK
  <1>8. /\ session_id(k) \in Seq(Messages) /\ Len(session_id(k)) = Lead(k) /\ Lead(k) \in Nat
        /\ \A i \in 1..Len(session_id(k)) : session_id(k)[i] = <<k, i - Lead(k)>>
    <2>1. CASE proto = "Remote"
      <3>1. session_id(k) = <<<<k, 0>>>> /\ Lead(k) = 1
        BY <2>1, <1>5 DEF session_id, Lead
      <3>2. <<k, 0>> \in Messages
        BY <1>4, ConstantFacts DEF Messages
      <3> QED BY <3>1, <3>2
    <2>2. CASE proto # "Remote"
      <3>1. session_id(k) = <<>> /\ Lead(k) = 0
        BY <2>2 DEF session_id, Lead
      <3> QED BY <3>1
    <2> QED BY <2>1, <2>2
  <1>9. /\ sent' \in [Conns -> Seq(Messages)] /\ \A j \in Conns \ {k + 1} : sent'[j] = sent[j]
        /\ \/ t'.state[c] = "CONNECT" /\ sent'[k + 1] = <<>>
           \/ t'.state[c] = "CONNECTED" /\ sent'[k + 1] = session_id(k)
    <2>1. sent \in [Conns -> Seq(Messages)]
      BY DEF TunnelInv, TypeOK
    <2>2. \/ t'.state[c] = "CONNECT" /\ sent' = sent
          \/ t'.state[c] = "CONNECTED" /\ sent' = [sent EXCEPT ![k + 1] = session_id(k)]
      BY <1>2, <1>4
    <2> QED BY <2>1, <2>2, <1>4, <1>6, <1>8
  <1>10. conn \in [Fds -> 0..nconn] /\ broken \subseteq 1..nconn
    BY DEF TunnelInv, TypeOK
  <1>11. TypeOK'
    <2>1. conn' \in [Fds -> 0..nconn']
      BY <1>1, <1>3, <1>4, <1>10
    <2>2. broken' \subseteq 1..nconn' /\ nconn' \in 0..MaxConn
      BY <1>3, <1>4, <1>10
    <2> QED BY <1>9, <2>1, <2>2 DEF TunnelInv, TypeOK, NewTunnel
  <1>12. ConnsAgree'
    <2> SUFFICES ASSUME NEW f \in Fds, NEW g \in Fds, conn'[f] = conn'[g], conn'[f] # NoConn
                 PROVE  f = g
      BY <1>5 DEF ConnsAgree
    <2>1. \A h \in Fds \ {c, r} : conn'[h] = conn[h] /\ conn'[h] # k /\ conn'[h] # k + 1
      BY <1>3, <1>4, <1>7, <1>10
    <2>2. k # k + 1
      BY <1>4
    <2> QED BY <2>1, <2>2, <1>7 DEF TunnelInv, ConnsAgree
  <1>13. Lead(k)' = Lead(k) /\ Lead(k + 1)' = 0 /\ Lead(k + 1) = 0
    BY <1>5 DEF Lead
  <1>14. sent'[k] = <<>>
    BY <1>4, <1>6, <1>9
  <1>15. FlowAt(c)'
    <2>1. CASE t'.state[c] = "CONNECT"
      <3>1. sent'[k + 1] = <<>>
        BY <2>1, <1>9
      <3>2. t'.buf[c] = <<>> /\ nread'[k] = 0 /\ nread'[k + 1] = 0
        BY <1>6 DEF NewTunnel
      <3>3. Len(t'.buf[c]) = nread'[k] /\ \A i \in 1..nread'[k] : t'.buf[c][i] = <<k, i>>
        BY <3>2
      <3> QED BY <2>1, <3>1, <3>2, <3>3, <1>7, <1>14 DEF FlowAt
    <2>2. CASE t'.state[c] = "CONNECTED"
      <3>1. Len(sent'[k + 1]) = Lead(k) + nread'[k]
        BY <2>2, <1>6, <1>8, <1>9
      <3>2. Len(sent'[k]) = nread'[k + 1]
        BY <1>6, <1>14
      <3> QED BY <2>2, <3>1, <3>2, <1>7, <1>13 DEF FlowAt, NewTunnel, Lead
    <2> QED BY <2>1, <2>2, <1>9
  <1>16. Linked(c, r)'
    <2>1. conn'[c] # NoConn
      BY <1>4, <1>7, ConstantFacts DEF Conns
    <2> QED BY <2>1, <1>1, <1>5, <1>7, <1>15 DEF Linked, NewTunnel
  <1>17. ClosingIsOpen' /\ ClosedTogether' /\ PairsAgree' /\ FlowAgrees'
    <2>1. t.role[c] = "none" /\ t.role[r] = "none"
      BY <1>1 DEF Unused
    <2>2. \A g \in Fds \ {c, r} : SameAt(t, t', g) /\ conn'[g] = conn[g]
      BY <1>7 DEF NewTunnel
    <2>3. \A j \in Conns \ {conn'[c], conn'[r]} : nread'[j] = nread[j] /\ sent'[j] = sent[j]
      BY <1>7, <1>9
    <2> QED BY <1>1, <1>11, <1>12, <1>16, <2>1, <2>2, <2>3, PairSuffices
  <1>18. NewIsSilent'
    <2> SUFFICES ASSUME NEW j \in Conns, j > nconn' PROVE nread'[j] = 0 /\ sent'[j] = <<>>
      BY DEF NewIsSilent
    <2>1. j > nconn /\ j # k + 1
      BY <1>3, <1>4 DEF Conns
    <2> QED BY <2>1, <1>9 DEF TunnelInv, NewIsSilent
  <1>19. ASSUME NEW j \in 1..nconn' PROVE ArrivedFrom(j)'
    <2>1. CASE j \in 1..nconn
      <3>1. Other(j) \in Conns /\ Other(j) # k + 1
        BY <2>1, <1>3, <1>4, OtherSide
      <3>2. sent'[Other(j)] = sent[Other(j)] /\ Lead(j)' = Lead(j)
        BY <3>1, <1>9 DEF Lead
      <3>3. ArrivedFrom(j)
        BY <2>1 DEF TunnelInv, Transparent, ArrivedFrom
      <3> QED BY <3>2, <3>3 DEF ArrivedFrom, Lead
    <2>2. CASE j = k
      <3>1. Len(sent'[k + 1]) =< Lead(k) + 0 /\ \A i \in 1..Len(sent'[k + 1]) : sent'[k + 1][i] = <<k, i - Lead(k)>>
        BY <1>8, <1>9
      <3> QED BY <2>2, <3>1, <1>5, <1>6, <1>13 DEF ArrivedFrom, Lead
    <2>3. CASE j = k + 1
      BY <2>3, <1>5, <1>6, <1>13, <1>14 DEF ArrivedFrom, Lead
    <2> QED BY <2>1, <2>2, <2>3, <1>2, <1>3, <1>4
  <1>20. Transparent'
    BY <1>19 DEF Transparent, ArrivedFrom
  <1> QED BY <1>11, <1>12, <1>17, <1>18, <1>20 DEF TunnelInv

\* A client is accepted; connecting does not fail at once.
LEMMA AcceptStep ==
    ASSUME TunnelInv, Awkward = {}, NEW c \in Fds, NEW r \in Fds, accept(c, r)
    PROVE  TunnelInv'
  <1>1. /\ c \in Free /\ r \in Free /\ c # r /\ nconn + 2 =< MaxConn /\ nconn' = nconn + 2
        /\ conn' = [conn EXCEPT ![c] = nconn + 1, ![r] = nconn + 2]
        /\ UNCHANGED <<proto, broken, nread>>
        /\ connecting(c, r) \/ connected_at_once(c, r)
    BY DEF accept, IsLowest, connect_failed_at_once
  <1>2. t \in Tables /\ Unused(t, c) /\ Unused(t, r)
    BY <1>1, FreeIsUnused DEF TunnelInv, TypeOK
  <1>3. CASE connecting(c, r)
    <2>1. sent' = sent /\ NewTunnel(t, t', c, r) /\ t'.state[c] = "CONNECT"
      BY <1>1, <1>2, <1>3, ConnectingFacts DEF connecting
    <2> QED BY <1>1, <2>1, NewTunnelStep
  <1>4. CASE connected_at_once(c, r)
    <2>1. NewTunnel(t, t', c, r) /\ t'.state[c] = "CONNECTED"
      BY <1>1, <1>2, <1>4, AtOnceFacts DEF connected_at_once
    <2>2. conn'[c] = nconn + 1 /\ conn'[r] = nconn + 2
      BY <1>1 DEF TunnelInv, TypeOK
    <2>3. sent' = [sent EXCEPT ![nconn + 2] = session_id(nconn + 1)]
      BY <1>4, <2>2 DEF connected_at_once
    <2> QED BY <1>1, <2>1, <2>3, NewTunnelStep
  <1> QED BY <1>1, <1>3, <1>4

-----------------------------------------------------------------------------
(* The theorems.                                                           *)

\* The inductive invariant holds before the first client.
LEMMA TunnelInit == Init => TunnelInv
  <1> SUFFICES ASSUME Init PROVE TunnelInv
    OBVIOUS
  <1>1. TypeOK
    <2>1. <<>> \in Seq(Messages) /\ 0 \in 0..MaxMsg /\ 0 \in 0..MaxConn /\ 0 \in 0..0
      BY ConstantFacts
    <2>2. t \in Tables
      BY <2>1 DEF Init, Tables, Roles, States
    <2> QED BY <2>1, <2>2 DEF Init, TypeOK, NoConn
  <1>2. ConnsAgree /\ ClosingIsOpen
    BY DEF Init, ConnsAgree, ClosingIsOpen
  <1>3. ClosedTogether /\ PairsAgree /\ FlowAgrees
    BY DEF Init, ClosedTogether, PairsAgree, FlowAgrees
  <1>4. NewIsSilent
    BY DEF Init, NewIsSilent
  <1>5. Transparent
    BY DEF Init, Transparent
  <1> QED BY <1>1, <1>2, <1>3, <1>4, <1>5 DEF TunnelInv

\* Every step preserves the inductive invariant.
LEMMA TunnelNext == Awkward = {} /\ TunnelInv /\ [Next]_vars => TunnelInv'
  <1> SUFFICES ASSUME Awkward = {}, TunnelInv, [Next]_vars PROVE TunnelInv'
    OBVIOUS
  <1>1. ASSUME NEW c \in Fds, NEW r \in Fds, accept(c, r) PROVE TunnelInv'
    BY <1>1, AcceptStep
  <1>2. ASSUME NEW fd \in Fds, NEW result \in WriteResults, on_remote_connect_ok(fd, result)
        PROVE  TunnelInv'
    BY <1>2, ConnectedStep
  <1>3. ASSUME NEW fd \in Fds, NEW result \in WriteResults, on_message(fd, result)
        PROVE  TunnelInv'
    BY <1>3, BufferStep, PassOnStep
  <1>4. ASSUME NEW fd \in Fds, NEW result \in WriteResults, on_remote_message(fd, result)
        PROVE  TunnelInv'
    BY <1>4, PassBackStep
  <1>5. ASSUME NEW fd \in Fds, on_close(fd) \/ on_remote_close(fd) \/ on_remote_connect_ng(fd)
        PROVE  TunnelInv'
    BY <1>5, OnCloseStep
  <1>6. ASSUME NEW fd \in Fds, peer_breaks(fd) PROVE TunnelInv'
    BY <1>6, PeerBreaksStep
  <1>7. CASE close_pending
    BY <1>7, ClosePendingStep
  <1>8. CASE UNCHANGED vars
    <2>1. UNCHANGED <<proto, conn, nconn, broken, nread, sent, t>>
      BY <1>8 DEF vars
    <2> QED BY <2>1 DEF TunnelInv, TypeOK, ConnsAgree, ClosingIsOpen, ClosedTogether, PairsAgree,
                        NewIsSilent, FlowAgrees, Transparent, Lead
  <1> QED BY <1>1, <1>2, <1>3, <1>4, <1>5, <1>6, <1>7, <1>8 DEF Next

\* TunnelInv is an invariant when the environment is not awkward.
LEMMA TunnelInvAlways == ASSUME Awkward = {} PROVE Spec => []TunnelInv
  <1>1. Init => TunnelInv
    BY TunnelInit
  <1>2. TunnelInv /\ [Next]_vars => TunnelInv'
    BY TunnelNext
  <1> QED BY <1>1, <1>2, PTL DEF Spec

\* For any number of clients, messages and numbers, however the handlers
\* interleave and the numbers are reused: what was written to one side of a
\* tunnel is what was read from the other, from its beginning and in order.
THEOREM TunnelsAreTransparent == ASSUME Awkward = {} PROVE Spec => []Transparent
  <1>1. TunnelInv => Transparent
    BY DEF TunnelInv
  <1> QED BY <1>1, TunnelInvAlways, PTL

\* What a client sent while its remote was connecting is in its buffer, and
\* from then on nothing that was read on either side is held back or lost but
\* to a broken receiver.
THEOREM TunnelsHoldNothingBack == ASSUME Awkward = {} PROVE Spec => []NothingHeldBack
  <1>1. TunnelInv => NothingHeldBack
    BY DEF TunnelInv, FlowAgrees, NothingHeldBack
  <1> QED BY <1>1, TunnelInvAlways, PTL
=============================================================================
