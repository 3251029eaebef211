------------------------- MODULE ProxySession_proofs -------------------------
(***************************************************************************)
(* Proofs about ProxySession.                                              *)
(***************************************************************************)
EXTENDS ProxySession, FiniteSetTheorems, WellFoundedInduction, TLAPS

Cred == [user : Names, pass : Names]
Token == [msg : Request, part : 0..3]

\* The operations in the clear, with the checks of the credentials, and those
\* after CONNECT.
Checking == {"v_resolve", "v_connect", "v_write", "v_read"}
Reaching == {"resolve", "connect"}
Tls == {"resolve_connect", "connect_connect", "write200", "handshake", "handshake2",
        "readssl", "write2ssl", "read2ssl", "replyssl"}
Kinds == Checking \cup Reaching \cup Tls \cup {"read", "write407", "write2", "read2", "reply"}

Operation == [kind : Kinds, left : Nat, cred : Cred]
Forwarded == [req : Request, host : Names, by : Request, uuid : Nat]
Post == [type : {"request", "response"}, uuid : Nat, msg : Nat, user : Names, host : Names]
Admission == [id : Nat, at : Nat]
Session ==
  [ops : SUBSET Operation, packet_in_ : Seq(Token), packet2_in_ : Seq(Token),
   p_request_ : Request, p_connect_request_ : Request, guid_ : Nat, auth_user_ : Names,
   filtered_response_ : Nat, domain : Names, up : Seq(Token), started : BOOLEAN,
   answers : Seq(Nat), forwarded : SUBSET Forwarded, posts : SUBSET Post,
   admitted : SUBSET Admission]

-----------------------------------------------------------------------------
(* The first invariant: a session has one operation at a time, and what it *)
(* forwards was confirmed.                                                 *)

ConfirmedFor(s, r, conf) ==
  \E a \in s.admitted, k \in conf :
    a.id = r.id /\ k.cred = r.cred /\ k.at =< a.at /\ a.at =< k.at + Expire

AnsweredFor(f) == IF f.by = NoRequest THEN f.req ELSE f.by

\* What an operation that is outstanding says about its session.
OpConfirmed(s, op, conf) ==
  /\ op.kind \in Checking => op.cred = s.p_request_.cred
  /\ op.kind \in Reaching => ConfirmedFor(s, s.p_request_, conf)
  /\ IF op.kind \in Tls THEN s.p_connect_request_.method = "connect"
     ELSE s.p_connect_request_ = NoRequest

\* A session between two operations: its handler has taken the one.
Between(s, conf) ==
  /\ s \in Session /\ s.started
  /\ s.p_connect_request_ # NoRequest => ConfirmedFor(s, s.p_connect_request_, conf)
  /\ \A f \in s.forwarded : ConfirmedFor(s, AnsweredFor(f), conf)

\* The members but the operations.
SameMembers(s, t) ==
  /\ t.packet_in_ = s.packet_in_ /\ t.packet2_in_ = s.packet2_in_ /\ t.p_request_ = s.p_request_
  /\ t.p_connect_request_ = s.p_connect_request_ /\ t.guid_ = s.guid_
  /\ t.auth_user_ = s.auth_user_ /\ t.filtered_response_ = s.filtered_response_
  /\ t.domain = s.domain /\ t.up = s.up /\ t.started = s.started /\ t.answers = s.answers
  /\ t.forwarded = s.forwarded /\ t.posts = s.posts /\ t.admitted = s.admitted

SessionConfirmed(s, conf) ==
  /\ s \in Session
  /\ s.ops = {} \/ \E op \in Operation : s.ops = {op} /\ OpConfirmed(s, op, conf)
  /\ IF s.started THEN Between(s, conf) ELSE s.ops = {} /\ SameMembers(NewSession, s)

\* Every cached password was confirmed Expire before it expires.
CacheConfirmed(cache, conf, time) ==
  \A u \in DOMAIN cache : \E k \in conf :
    /\ k.cred.user = u /\ k.cred.pass = cache[u].pass
    /\ cache[u].expire = k.at + Expire /\ k.at =< time

Types ==
  /\ sess \in [Sessions -> Session] /\ wire \in [Sessions -> Seq(Token)]
  /\ now \in Nat /\ confirmed \subseteq [cred : Cred, at : Nat]

ConfirmedInv ==
  /\ Types /\ CacheConfirmed(cached_credential_, confirmed, now)
  /\ \A c \in Sessions : SessionConfirmed(sess[c], confirmed)

-----------------------------------------------------------------------------
(* The second invariant: requests are answered in order and posted in      *)
(* pairs, when an origin sends one response for each.                      *)

\* The two tokens of a request, then TLS if it is CONNECT, then the next.
Ordered(q) ==
  \A i \in 1..Len(q) :
    /\ q[i].part = 1 /\ i + 1 =< Len(q) => q[i + 1] = [msg |-> q[i].msg, part |-> 2]
    /\ q[i].part = 2 /\ q[i].msg.method # "connect" /\ i + 1 =< Len(q)
         => q[i + 1].part = 1 /\ q[i + 1].msg.id = q[i].msg.id + 1
    /\ q[i].part = 2 /\ q[i].msg.method = "connect"
         => /\ i + 1 =< Len(q) => q[i + 1].part = 0
            /\ i + 2 =< Len(q) => q[i + 2].part = 1 /\ q[i + 2].msg.id = q[i].msg.id + 1

\* The next request of q is the n-th.
Due(q, n) ==
  /\ Len(q) > 0 => q[1].part \in {0, 1} /\ (q[1].part = 1 => q[1].msg.id = n)
  /\ Len(q) > 1 /\ q[1].part = 0 => q[2].part = 1 /\ q[2].msg.id = n

Posted(s, host) ==
  \E p \in s.posts : /\ p.type = "request" /\ p.uuid = s.guid_
                     /\ p.msg = s.p_request_.id /\ p.host = host

\* Origins send one response for a request.  What is said of responses below
\* is under this condition.
OneEach == "interim" \notin Upstream

\* The response to the request that is underway has yet to be posted.
Unanswered(s) == OneEach =>
  \A p \in s.posts : p.uuid = s.guid_ => p.type = "request" /\ p.msg = s.p_request_.id

Receiving == {"read2", "read2ssl"}
Tunnelling == {"resolve_connect", "connect_connect", "write200"}
Listening == {"read", "handshake", "handshake2", "readssl"}

\* The handshake of a client that did not get the answer to its CONNECT.
Broken(op) == op.kind = "handshake" /\ op.left = 0

\* Nothing of a response is left over.
AtRest(s) == OneEach => s.packet2_in_ = <<>> /\ s.up = <<>>

\* The requests that were forwarded are among the first n.
Behind(s, n) == \A f \in s.forwarded : f.req.id =< n

\* The phases of a session whose bytes that are not yet taken apart are q:
\* it waits for the next request, has it checked, reaches for its origin, has
\* sent it on, gets the response, passes it back, refuses the request, or
\* opens a tunnel for it.
Waiting(s, q) ==
  AtRest(s) /\ Due(q, Len(s.answers) + 1) /\ Behind(s, Len(s.answers))
Asked(s, q) ==
  /\ AtRest(s) /\ Due(q, Len(s.answers) + 2) /\ Behind(s, Len(s.answers))
  /\ s.p_request_.id = Len(s.answers) + 1
Going(s, q) == Asked(s, q) /\ Posted(s, s.p_request_.host) /\ Unanswered(s)
Outbound(s, q) ==
  /\ Due(q, Len(s.answers) + 2) /\ Behind(s, Len(s.answers) + 1)
  /\ s.p_request_.id = Len(s.answers) + 1 /\ Unanswered(s)
OnItsWay(s) ==
  /\ Len(s.packet2_in_) + Len(s.up) =< 2
  /\ \A i \in 1..Len(s.packet2_in_) : s.packet2_in_[i].msg = s.p_request_
  /\ \A i \in 1..Len(s.up) : s.up[i].msg = s.p_request_
Coming(s, q) == Outbound(s, q) /\ (OneEach => OnItsWay(s))
Back(s, q) ==
  /\ AtRest(s) /\ Due(q, Len(s.answers) + 2) /\ Behind(s, Len(s.answers) + 1)
  /\ OneEach => s.filtered_response_ = Len(s.answers) + 1
Refused(s, q) ==
  /\ AtRest(s) /\ Due(q, Len(s.answers) + 2) /\ Behind(s, Len(s.answers))
  /\ s.filtered_response_ = Len(s.answers) + 1
Opening(s, q) ==
  /\ AtRest(s) /\ Due(q, Len(s.answers) + 2) /\ Behind(s, Len(s.answers))
  /\ s.p_connect_request_.id = Len(s.answers) + 1

\* A complete request waits for a read only after a refusal.
Heard(s) ==
  Parse(s.packet_in_) = "OK" /\ s.answers # <<>> =>
    \A f \in s.forwarded : f.req.id # Last(s.answers)

OpOrdered(s, op, q) ==
  /\ op.kind \in Listening => Broken(op) \/ Waiting(s, q)
  /\ op.kind = "read" => Heard(s)
  /\ op.kind = "handshake" => s.packet_in_ = <<>>
  /\ op.kind \in Checking => Asked(s, q)
  /\ op.kind \in Reaching => Going(s, q)
  /\ op.kind \in {"write2", "write2ssl"} => Outbound(s, q) /\ AtRest(s)
  /\ op.kind \in Receiving => Coming(s, q)
  /\ op.kind \in {"reply", "replyssl"} => Back(s, q)
  /\ op.kind = "write407" => Refused(s, q)
  /\ op.kind \in Tunnelling => Opening(s, q)

Paired(s) == OneEach =>
  /\ \A p, q \in s.posts : p.uuid = q.uuid => p = q \/ (p.type # q.type /\ p.msg = q.msg)
  /\ \A p \in s.posts : p.uuid =< s.guid_
  /\ \A f \in s.forwarded : \E p \in s.posts :
       p.type = "request" /\ p.uuid = f.uuid /\ p.msg = f.req.id /\ p.host = f.host

\* A session between two operations.
Quiet(s, q) ==
  Paired(s) /\ Ordered(q) /\ (OneEach => \A i \in 1..Len(s.answers) : s.answers[i] = i)

SessionOrdered(s, q) ==
  /\ Quiet(s, q) /\ (~ s.started => Waiting(s, q))
  /\ \A op \in s.ops : OpOrdered(s, op, q)

OrderedInv == \A c \in Sessions : SessionOrdered(sess[c], sess[c].packet_in_ \o wire[c])

-----------------------------------------------------------------------------
(* Streams of tokens                                                       *)

LEMMA CredFacts == NoCred \in Cred /\ BadCred \in Cred /\ NoRequest \in Request /\ Hello \in Token
  <1>1. NoCred \in Cred /\ BadCred \in Cred
    BY ScriptsAssumption DEF NoCred, BadCred, Cred
  <1>2. NoRequest \in Request
    BY <1>1, ScriptsAssumption DEF Cred, NoRequest, Request
  <1> QED BY <1>1, <1>2 DEF Hello, Token

LEMMA TokensFacts ==
    ASSUME NEW m \in Request
    PROVE  /\ Tokens(m) \in Seq(Token) /\ Len(Tokens(m)) = 2
           /\ Tokens(m)[1] = [msg |-> m, part |-> 1] /\ Tokens(m)[2] = [msg |-> m, part |-> 2]
  BY DEF Tokens, Token

LEMMA ConcatFacts ==
    ASSUME NEW S, NEW p \in Seq(S), NEW q \in Seq(S)
    PROVE  /\ p \o q \in Seq(S) /\ Len(p \o q) = Len(p) + Len(q)
           /\ \A i \in 1..Len(p) : (p \o q)[i] = p[i]
           /\ \A i \in 1..Len(q) : (p \o q)[Len(p) + i] = q[i]
  OBVIOUS

LEMMA AppendFacts ==
    ASSUME NEW S, NEW p \in Seq(S), NEW x \in S
    PROVE  /\ Append(p, x) \in Seq(S) /\ Len(Append(p, x)) = Len(p) + 1
           /\ \A i \in 1..Len(p) : Append(p, x)[i] = p[i]
           /\ Append(p, x)[Len(p) + 1] = x
  OBVIOUS

\* What is left of p after its first n elements.
LEMMA CutFacts ==
    ASSUME NEW S, NEW p \in Seq(S), NEW n \in 0..Len(p)
    PROVE  /\ SubSeq(p, n + 1, Len(p)) \in Seq(S) /\ Len(SubSeq(p, n + 1, Len(p))) = Len(p) - n
           /\ \A i \in 1..(Len(p) - n) : SubSeq(p, n + 1, Len(p))[i] = p[n + i]
           /\ SubSeq(p, 1, n) \in Seq(S) /\ Len(SubSeq(p, 1, n)) = n
           /\ \A i \in 1..n : SubSeq(p, 1, n)[i] = p[i]
  OBVIOUS

\* Every set of numbers that is not empty has a least element.
LEMMA Least == ASSUME NEW S, S \subseteq Nat, S # {} PROVE \E x \in S : \A y \in S : x =< y
  <1> DEFINE R == OpToRel(<, Nat)
  <1>1. IsWellFoundedOn(R, Nat)
    BY NatLessThanWellFounded, Zenon
  <1> HIDE DEF R
  <1>2. PICK x \in S : \A y \in S : ~ (<<y, x>> \in R)
    BY <1>1, WFMin
  <1>3. \A y \in S : y < x => <<y, x>> \in R
    BY DEF R, OpToRel
  <1>4. \A y \in S : ~ (y < x)
    BY <1>2, <1>3
  <1> QED BY ONLY <1>4, x \in S, S \subseteq Nat

Flattened(f, seqs, n) ==
  f = [i \in 1..n |-> IF i = 1 THEN seqs[i] ELSE f[i - 1] \o seqs[i]]

\* The function that FlattenSeq is defined with exists.
LEMMA FlattenExists ==
    ASSUME NEW seqs, NEW n \in Nat PROVE \E f : Flattened(f, seqs, n)
  <1> DEFINE S == {k \in Nat : ~ \E f : Flattened(f, seqs, k)}
  <1>1. SUFFICES ASSUME S # {} PROVE FALSE
    OBVIOUS
  <1>2. PICK k \in S : \A y \in S : k =< y
    <2> HIDE DEF S
    <2>1. S \subseteq Nat
      BY DEF S
    <2> QED BY <1>1, <2>1, Least
  <1>3. k # 0
    <2>1. Flattened([i \in 1..0 |-> 0], seqs, 0)
      BY DEF Flattened
    <2> QED BY <2>1
  <1>4. k - 1 \in Nat /\ k - 1 \notin S
    BY <1>2, <1>3
  <1>5. PICK f : Flattened(f, seqs, k - 1)
    BY <1>4
  <1>6. PICK g : g = [i \in 1..k |-> IF i = 1 THEN seqs[i]
                                     ELSE IF i < k THEN f[i - 1] \o seqs[i]
                                     ELSE f[k - 1] \o seqs[i]]
    OBVIOUS
  <1>7. ASSUME NEW i \in 1..(k - 1) PROVE g[i] = f[i]
    <2>1. i \in 1..k /\ i < k
      BY <1>2, <1>3
    <2>2. f[i] = IF i = 1 THEN seqs[i] ELSE f[i - 1] \o seqs[i]
      BY <1>5, Zenon DEF Flattened
    <2>3. g[i] = IF i = 1 THEN seqs[i] ELSE f[i - 1] \o seqs[i]
      BY ONLY <2>1, <1>6
    <2> QED BY ONLY <2>2, <2>3
  <1>8. ASSUME NEW i \in 1..k PROVE g[i] = IF i = 1 THEN seqs[i] ELSE g[i - 1] \o seqs[i]
    <2>1. g[i] = IF i = 1 THEN seqs[i] ELSE IF i < k THEN f[i - 1] \o seqs[i] ELSE f[k - 1] \o seqs[i]
      BY ONLY <1>6, <1>8
    <2>2. k \in Nat
      BY <1>2
    <2>3. CASE i = 1
      BY ONLY <2>1, <2>3
    <2>4. CASE i # 1
      <3>1. i - 1 \in 1..(k - 1) /\ (~ (i < k) => i = k)
        BY ONLY <2>2, <1>8, <2>4
      <3>2. g[i - 1] = f[i - 1]
        BY <3>1, <1>7
      <3> QED BY ONLY <2>1, <2>4, <3>1, <3>2
    <2> QED BY ONLY <2>3, <2>4
  <1>9. Flattened(g, seqs, k)
    BY <1>6, <1>8 DEF Flattened
  <1> QED BY <1>9

\* p ends with the request m.
Ends(p, m) ==
  LET n == Len(p) IN
  /\ n >= 2
  /\ IF m.method = "connect"
     THEN n >= 3 /\ p[n].part = 0 /\ p[n - 1].part = 2 /\ p[n - 1].msg = m
     ELSE p[n].part = 2 /\ p[n].msg = m

LEMMA BytesFacts ==
    ASSUME NEW r \in Request, NEW b, b = BytesOf(r)
    PROVE  /\ b \in Seq(Token) /\ Len(b) = IF r.method = "connect" THEN 3 ELSE 2
           /\ b[1] = [msg |-> r, part |-> 1] /\ b[2] = [msg |-> r, part |-> 2]
           /\ r.method = "connect" => b[3] = Hello
  <1>1. PICK t : t = Tokens(r)
    OBVIOUS
  <1>2. /\ t \in Seq(Token) /\ Len(t) = 2
        /\ t[1] = [msg |-> r, part |-> 1] /\ t[2] = [msg |-> r, part |-> 2]
    BY <1>1, TokensFacts
  <1>3. b = IF r.method = "connect" THEN Append(t, Hello) ELSE t
    BY <1>1 DEF BytesOf
  <1>4. CASE r.method = "connect"
    <2>1. PICK h \in Token : h = Hello
      BY CredFacts
    <2>2. b = Append(t, h)
      BY <1>3, <1>4, <2>1
    <2>3. b \in Seq(Token) /\ Len(b) = 3 /\ b[1] = t[1] /\ b[2] = t[2] /\ b[3] = h
      <3>1. /\ Append(t, h) \in Seq(Token) /\ Len(Append(t, h)) = Len(t) + 1
            /\ \A i \in 1..Len(t) : Append(t, h)[i] = t[i]
            /\ Append(t, h)[Len(t) + 1] = h
        <4>1. t \in Seq(Token) /\ h \in Token
          BY <1>2
        <4> QED BY ONLY <4>1, AppendFacts
      <3>2. Len(t) = 2
        BY <1>2
      <3> QED BY ONLY <2>2, <3>1, <3>2
    <2> QED BY ONLY <1>2, <1>4, <2>1, <2>3
  <1>5. CASE r.method # "connect"
    BY <1>2, <1>3, <1>5
  <1> QED BY <1>4, <1>5

\* A stream stays in order when the next request is appended.
LEMMA OneMore ==
    ASSUME NEW p \in Seq(Token), NEW m \in Request, NEW r \in Request, r.id = m.id + 1,
           Ordered(p), Due(p, 1), Ends(p, m)
    PROVE  /\ p \o BytesOf(r) \in Seq(Token) /\ Ordered(p \o BytesOf(r))
           /\ Due(p \o BytesOf(r), 1) /\ Ends(p \o BytesOf(r), r)
  <1>1. PICK b, q, n : b = BytesOf(r) /\ q = p \o b /\ n = Len(p)
    OBVIOUS
  <1>2. /\ b \in Seq(Token) /\ Len(b) = IF r.method = "connect" THEN 3 ELSE 2
        /\ b[1] = [msg |-> r, part |-> 1] /\ b[2] = [msg |-> r, part |-> 2]
        /\ r.method = "connect" => b[3] = Hello
    BY <1>1, BytesFacts
  <1>3. /\ q \in Seq(Token) /\ Len(q) = n + Len(b) /\ n \in Nat
        /\ \A i \in 1..n : q[i] = p[i]
        /\ \A i \in 1..Len(b) : q[n + i] = b[i]
    <2>1. /\ p \o b \in Seq(Token) /\ Len(p \o b) = Len(p) + Len(b)
          /\ \A i \in 1..Len(p) : (p \o b)[i] = p[i]
          /\ \A i \in 1..Len(b) : (p \o b)[Len(p) + i] = b[i]
      <3>1. b \in Seq(Token) /\ p \in Seq(Token)
        BY <1>2
      <3> QED BY ONLY <3>1, ConcatFacts
    <2>2. Len(p) \in Nat
      OBVIOUS
    <2> QED BY ONLY <1>1, <2>1, <2>2
  <1>4. /\ q[n + 1] = [msg |-> r, part |-> 1] /\ q[n + 2] = [msg |-> r, part |-> 2]
        /\ r.method = "connect" => q[n + 3] = Hello
    BY ONLY <1>2, <1>3
  <1>5. Due(q, 1) /\ n >= 2
    BY <1>1, <1>3 DEF Due, Ends
  <1>6. Ends(q, r)
    BY <1>2, <1>3, <1>4 DEF Ends, Hello
  <1>7. Ordered(q)
    <2>1. SUFFICES ASSUME NEW i \in 1..Len(q)
          PROVE  /\ q[i].part = 1 /\ i + 1 =< Len(q) => q[i + 1] = [msg |-> q[i].msg, part |-> 2]
                 /\ q[i].part = 2 /\ q[i].msg.method # "connect" /\ i + 1 =< Len(q)
                      => q[i + 1].part = 1 /\ q[i + 1].msg.id = q[i].msg.id + 1
                 /\ q[i].part = 2 /\ q[i].msg.method = "connect"
                      => /\ i + 1 =< Len(q) => q[i + 1].part = 0
                         /\ i + 2 =< Len(q) => q[i + 2].part = 1 /\ q[i + 2].msg.id = q[i].msg.id + 1
      BY DEF Ordered
    <2>2. CASE i =< n - 2
      <3>1. i \in 1..n /\ i + 1 \in 1..n /\ i + 2 \in 1..n
        BY <1>3, <2>1, <2>2
      <3>2. q[i] = p[i] /\ q[i + 1] = p[i + 1] /\ q[i + 2] = p[i + 2] /\ i + 1 =< Len(p) /\ i + 2 =< Len(p)
        BY <1>1, <1>3, <3>1
      <3> QED BY <1>1, <3>1, <3>2 DEF Ordered
    <2>3. CASE i = n - 1
      <3>1. i \in 1..n /\ i + 1 = n /\ i + 2 = n + 1 /\ n \in 1..n
        BY <1>3, <2>1, <2>3
      <3>2. q[i] = p[i] /\ q[i + 1] = p[n] /\ q[i + 2] = [msg |-> r, part |-> 1] /\ i + 1 =< Len(p)
        <4>1. q[n] = p[n] /\ q[i] = p[i] /\ i + 1 =< Len(p)
          BY <1>1, <1>3, <3>1
        <4> QED BY ONLY <4>1, <1>4, <3>1
      <3>3. /\ p[i].part = 1 => p[n] = [msg |-> p[i].msg, part |-> 2]
            /\ p[i].part = 2 /\ p[i].msg.method # "connect" => p[n].part = 1 /\ p[n].msg.id = p[i].msg.id + 1
            /\ p[i].part = 2 /\ p[i].msg.method = "connect" => p[n].part = 0
        BY <1>1, <3>1, <3>2 DEF Ordered
      <3>4. IF m.method = "connect" THEN p[n].part = 0 /\ p[i].msg = m
            ELSE p[n].part = 2
        BY <1>1, <3>1 DEF Ends
      <3> QED BY <3>2, <3>3, <3>4
    <2>4. CASE i = n
      <3>1. q[i] = p[n] /\ q[i + 1] = [msg |-> r, part |-> 1] /\ q[i + 2] = [msg |-> r, part |-> 2]
        BY <1>3, <1>4, <1>5, <2>4
      <3>2. IF m.method = "connect" THEN p[n].part = 0 ELSE p[n].part = 2 /\ p[n].msg = m
        BY <1>1 DEF Ends
      <3> QED BY <3>1, <3>2
    <2>5. CASE i = n + 1
      <3>1. i + 1 = n + 2 /\ i + 2 = n + 3
        BY <1>3, <2>5
      <3> QED BY <1>2, <1>3, <1>4, <2>5, <3>1
    <2>6. CASE i = n + 2
      <3>1. i + 1 = n + 3 /\ ~ (i + 2 =< Len(q)) /\ (r.method # "connect" => ~ (i + 1 =< Len(q)))
        BY <1>2, <1>3, <2>6
      <3> QED BY <1>4, <2>6, <3>1 DEF Hello
    <2>7. CASE i = n + 3
      <3>1. r.method = "connect" /\ ~ (i + 1 =< Len(q))
        BY <1>2, <1>3, <2>1, <2>7
      <3> QED BY <1>4, <2>7, <3>1 DEF Hello
    <2> QED BY <1>2, <1>3, <2>1, <2>2, <2>3, <2>4, <2>5, <2>6, <2>7
  <1> QED BY <1>1, <1>3, <1>5, <1>6, <1>7

InOrder(p, m) == p \in Seq(Token) /\ Ordered(p) /\ Due(p, 1) /\ Ends(p, m)

\* The bytes of a client that has yet to connect.
LEMMA StreamFacts ==
    ASSUME NEW c \in Sessions, NEW script \in Scripts[c]
    PROVE  Stream(script) \in Seq(Token) /\ Ordered(Stream(script)) /\ Due(Stream(script), 1)
  <1>1. PICK n, seqs : n = Len(script) /\ seqs = [i \in DOMAIN script |-> BytesOf(script[i])]
    OBVIOUS
  <1>2. /\ script \in Seq(Request) /\ n \in Nat /\ DOMAIN script = 1..n
        /\ \A i \in 1..n : script[i] \in Request /\ script[i].id = i
    <2>1. script \in Seq(Request) /\ \A i \in DOMAIN script : script[i].id = i
      BY ScriptsAssumption, Zenon
    <2>2. Len(script) \in Nat /\ DOMAIN script = 1..Len(script) /\ \A i \in 1..Len(script) : script[i] \in Request
      BY <2>1
    <2> QED BY ONLY <1>1, <2>1, <2>2
  <1>3. /\ \A i \in 1..n : seqs[i] = BytesOf(script[i]) /\ seqs[i] \in Seq(Token)
        /\ seqs \in Seq(Seq(Token)) /\ Len(seqs) = n
    <2>1. \A i \in 1..n : seqs[i] = BytesOf(script[i]) /\ seqs[i] \in Seq(Token)
      BY <1>1, <1>2, BytesFacts
    <2>2. seqs = [i \in 1..n |-> seqs[i]]
      BY <1>1, <1>2
    <2> QED BY <1>2, <2>1, <2>2
  <1>4. CASE n = 0
    <2>1. Stream(script) = seqs /\ seqs = <<>>
      BY <1>1, <1>3, <1>4 DEF Stream, FlattenSeq
    <2> QED BY <2>1 DEF Ordered, Due
  <1>5. CASE n # 0
    <2>1. PICK f : Flattened(f, seqs, n) /\ Stream(script) = f[n]
      <3>1. \E f : Flattened(f, seqs, n)
        BY <1>2, FlattenExists
      <3>2. Flattened(CHOOSE f : Flattened(f, seqs, n), seqs, n)
        BY <3>1, Zenon
      <3>3. FlattenSeq(seqs) = (CHOOSE f : Flattened(f, seqs, n))[n]
        BY <1>3, <1>5 DEF FlattenSeq, Flattened
      <3> QED BY <1>1, <3>2, <3>3 DEF Stream
    <2>2. f[1] = seqs[1] /\ \A i \in 2..n : f[i] = f[i - 1] \o seqs[i]
      <3>1. \A i \in 1..n : f[i] = IF i = 1 THEN seqs[i] ELSE f[i - 1] \o seqs[i]
        BY <2>1, Zenon DEF Flattened
      <3>2. 1 \in 1..n /\ \A i \in 2..n : i \in 1..n /\ i # 1
        BY <1>2, <1>5
      <3> QED BY ONLY <3>1, <3>2
    <2> DEFINE S == {k \in Nat : k \in 1..n /\ ~ InOrder(f[k], script[k])}
    <2>3. S = {}
      <3>1. SUFFICES ASSUME S # {} PROVE FALSE
        OBVIOUS
      <3>2. PICK k \in S : \A y \in S : k =< y
        <4> HIDE DEF S
        <4>1. S \subseteq Nat
          BY DEF S
        <4> QED BY <3>1, <4>1, Least
      <3>3. k \in 1..n /\ ~ InOrder(f[k], script[k])
        BY <3>2
      <3>4. CASE k = 1
        <4>1. /\ f[1] \in Seq(Token) /\ Len(f[1]) = IF script[1].method = "connect" THEN 3 ELSE 2
              /\ f[1][1] = [msg |-> script[1], part |-> 1] /\ f[1][2] = [msg |-> script[1], part |-> 2]
              /\ script[1].method = "connect" => f[1][3] = Hello
          BY <1>2, <1>3, <2>2, <3>3, <3>4, BytesFacts
        <4>2. script[1].id = 1
          BY <1>2, <3>3, <3>4
        <4>3. Ordered(f[1])
          BY <4>1 DEF Ordered, Hello
        <4>4. Due(f[1], 1) /\ Ends(f[1], script[1])
          BY <4>1, <4>2 DEF Due, Ends, Hello
        <4> QED BY <3>3, <3>4, <4>1, <4>3, <4>4 DEF InOrder
      <3>5. CASE k # 1
        <4>1. k - 1 \in 1..n /\ k \in 2..n /\ k - 1 \in Nat /\ ~ (k =< k - 1)
          BY <1>2, <3>3, <3>5
        <4>2. InOrder(f[k - 1], script[k - 1])
          BY <3>2, <4>1
        <4>3. script[k].id = script[k - 1].id + 1 /\ script[k] \in Request /\ script[k - 1] \in Request
          BY <1>2, <3>3, <4>1
        <4>4. f[k] = f[k - 1] \o BytesOf(script[k])
          BY <1>3, <2>2, <3>3, <4>1
        <4>5. InOrder(f[k], script[k])
          BY <4>2, <4>3, <4>4, OneMore DEF InOrder
        <4> QED BY <3>3, <4>5
      <3> QED BY <3>4, <3>5
    <2>4. InOrder(f[n], script[n])
      BY <1>2, <1>5, <2>3
    <2> QED BY <2>1, <2>4 DEF InOrder
  <1> QED BY <1>4, <1>5

-----------------------------------------------------------------------------
(* Steps of one session                                                    *)

\* t keeps what was confirmed for s.
Keeps(s, t) ==
  /\ t.started = s.started /\ t.p_connect_request_ = s.p_connect_request_
  /\ t.forwarded = s.forwarded /\ s.admitted \subseteq t.admitted

LEMMA ConfirmedStays ==
    ASSUME NEW s, NEW t, NEW r, NEW conf, NEW more,
           s.admitted \subseteq t.admitted, conf \subseteq more, ConfirmedFor(s, r, conf)
    PROVE  ConfirmedFor(t, r, more)
  BY DEF ConfirmedFor

LEMMA KeepsBetween ==
    ASSUME NEW s, NEW t \in Session, NEW conf, NEW more, conf \subseteq more,
           Between(s, conf), Keeps(s, t)
    PROVE  Between(t, more)
  BY ConfirmedStays DEF Between, Keeps

LEMMA StartFacts ==
    ASSUME NEW s \in Session, s.ops = {}, NEW op \in Operation, NEW t, t = Start(s, op)
    PROVE  t \in Session /\ t.ops = {op} /\ SameMembers(s, t)
  <1>1. t = [s EXCEPT !.ops = {op}]
    BY DEF Start
  <1> QED BY <1>1 DEF Session, SameMembers

\* A session that is accepted.
Runs(t, conf) == SessionConfirmed(t, conf) /\ t.started

\* A session that starts an operation, and one that does not.
LEMMA Starts ==
    ASSUME NEW s, NEW conf, Between(s, conf), s.ops = {},
           NEW op \in Operation, OpConfirmed(s, op, conf), NEW t, t = Start(s, op)
    PROVE  Runs(t, conf)
  <1>1. t \in Session /\ t.ops = {op} /\ SameMembers(s, t)
    BY StartFacts DEF Between
  <1>2. Between(t, conf) /\ t.started
    BY <1>1, KeepsBetween DEF Keeps, SameMembers, Between
  <1>3. OpConfirmed(t, op, conf)
    BY <1>1, ConfirmedStays DEF OpConfirmed, SameMembers
  <1> QED BY <1>1, <1>2, <1>3 DEF SessionConfirmed, Runs

LEMMA Stops ==
    ASSUME NEW s, NEW conf, Between(s, conf), s.ops = {}
    PROVE  Runs(s, conf)
  BY DEF SessionConfirmed, Between, Runs

\* The handler of op has taken it.
Idle(s, op, conf) ==
  /\ Between(s, conf) /\ s.ops = {} /\ op \in Operation /\ OpConfirmed(s, op, conf)

LEMMA TakeFacts ==
    ASSUME ConfirmedInv, NEW c \in Sessions, NEW op \in sess[c].ops, NEW s, s = Take(c, op)
    PROVE  Idle(s, op, confirmed) /\ SameMembers(sess[c], s) /\ s \in Session
  <1>1. PICK x : x = sess[c]
    OBVIOUS
  <1>2. SessionConfirmed(x, confirmed) /\ x \in Session
    BY <1>1 DEF ConfirmedInv, SessionConfirmed
  <1>3. x.ops = {op} /\ op \in Operation /\ OpConfirmed(x, op, confirmed)
    BY <1>1, <1>2 DEF SessionConfirmed
  <1>4. x.started /\ Between(x, confirmed)
    BY <1>2, <1>3 DEF SessionConfirmed
  <1>5. s \in Session /\ s.ops = {} /\ SameMembers(x, s)
    <2>1. s = [x EXCEPT !.ops = @ \ {op}]
      BY <1>1 DEF Take
    <2> QED BY <1>2, <1>3, <2>1 DEF Session, SameMembers
  <1>6. Between(s, confirmed)
    BY <1>4, <1>5, KeepsBetween DEF Keeps, SameMembers
  <1>7. OpConfirmed(s, op, confirmed)
    BY <1>3, <1>5, ConfirmedStays DEF OpConfirmed, SameMembers
  <1> QED BY <1>1, <1>3, <1>5, <1>6, <1>7 DEF Idle

LEMMA NewFacts == NewSession \in Session /\ SessionConfirmed(NewSession, {})
  <1>1. NewSession \in Session
    <2>1. "none" \in Names /\ NoHost \in Names /\ NoRequest \in Request
      BY CredFacts, ScriptsAssumption
    <2>2. <<>> \in Seq(Token) /\ <<>> \in Seq(Nat)
      OBVIOUS
    <2>3. {} \subseteq Operation /\ {} \subseteq Forwarded /\ {} \subseteq Post
          /\ {} \subseteq Admission /\ FALSE \in BOOLEAN /\ 0 \in Nat
      OBVIOUS
    <2> QED BY ONLY <2>1, <2>2, <2>3, Zenon DEF NewSession, Session
  <1> QED BY <1>1 DEF SessionConfirmed, NewSession, SameMembers

\* What a step has to show: its own session.
LEMMA ConfirmedStep ==
    ASSUME ConfirmedInv, NEW c \in Sessions, NEW t, sess' = [sess EXCEPT ![c] = t],
           SessionConfirmed(t, confirmed'), confirmed \subseteq confirmed',
           confirmed' \subseteq [cred : Cred, at : Nat], wire' \in [Sessions -> Seq(Token)],
           now' = now, CacheConfirmed(cached_credential_', confirmed', now)
    PROVE  ConfirmedInv'
  <1>1. t \in Session /\ sess \in [Sessions -> Session] /\ now \in Nat
    BY DEF ConfirmedInv, Types, SessionConfirmed
  <1>2. Types'
    BY <1>1 DEF Types
  <1>3. ASSUME NEW d \in Sessions PROVE SessionConfirmed(sess'[d], confirmed')
    <2>1. CASE d = c
      BY <1>1, <2>1
    <2>2. CASE d # c
      <3>1. PICK x : x = sess[d]
        OBVIOUS
      <3>2. x = sess'[d] /\ SessionConfirmed(x, confirmed)
        BY <1>1, <2>2, <3>1 DEF ConfirmedInv
      <3>3. x \in Session /\ (x.started => Between(x, confirmed'))
        BY <3>2, KeepsBetween DEF SessionConfirmed, Keeps
      <3>4. \A op : OpConfirmed(x, op, confirmed) => OpConfirmed(x, op, confirmed')
        BY ConfirmedStays DEF OpConfirmed
      <3>5. SessionConfirmed(x, confirmed')
        BY <3>2, <3>3, <3>4 DEF SessionConfirmed
      <3> QED BY <3>2, <3>5
    <2> QED BY <2>1, <2>2
  <1> QED BY <1>2, <1>3 DEF ConfirmedInv

-----------------------------------------------------------------------------
(* What the handlers make of a session                                     *)

LEMMA OpFacts ==
    ASSUME NEW k \in Kinds, NEW n \in Nat
    PROVE  /\ Op(k) \in Operation /\ Op(k).kind = k
           /\ OpLeft(k, n) \in Operation /\ OpLeft(k, n).kind = k /\ OpLeft(k, n).left = n
  BY CredFacts DEF Op, OpLeft, Operation

\* do_after_auth for CONNECT and for other requests, before it resolves.
AdmitConnect(s) == [Admit(s) EXCEPT !.p_connect_request_ = s.p_request_]
AdmitDirect(s) == post_request([Admit(s) EXCEPT !.guid_ = @ + 1])

RequestPost(s, guid) ==
  [type |-> "request", uuid |-> guid, msg |-> s.p_request_.id, user |-> s.auth_user_,
   host |-> IF s.p_connect_request_ # NoRequest
            THEN s.p_connect_request_.host ELSE s.p_request_.host]

\* The members that neither changes.
SameTraffic(s, t) ==
  /\ t.ops = s.ops /\ t.started = s.started /\ t.forwarded = s.forwarded
  /\ t.packet_in_ = s.packet_in_ /\ t.packet2_in_ = s.packet2_in_ /\ t.up = s.up
  /\ t.answers = s.answers /\ t.filtered_response_ = s.filtered_response_

LEMMA AdmitFacts ==
    ASSUME NEW s \in Session, now \in Nat, NEW u, u = Admit(s)
    PROVE  /\ u \in Session /\ SameTraffic(s, u)
           /\ u.p_request_ = s.p_request_ /\ u.p_connect_request_ = s.p_connect_request_
           /\ u.guid_ = s.guid_ /\ u.posts = s.posts /\ u.auth_user_ = s.auth_user_
           /\ u.admitted = s.admitted \cup {[id |-> s.p_request_.id, at |-> now]}
  <1>1. PICK a : a = [id |-> s.p_request_.id, at |-> now]
    OBVIOUS
  <1>2. s.p_request_ \in Request
    BY DEF Session
  <1>3. a \in Admission
    BY <1>1, <1>2 DEF Request, Admission
  <1>4. u = [s EXCEPT !.admitted = s.admitted \cup {a}]
    BY <1>1 DEF Admit
  <1>5. PICK x \in SUBSET Admission : x = s.admitted \cup {a}
    BY <1>3 DEF Session
  <1>6. u = [s EXCEPT !.admitted = x]
    BY <1>4, <1>5
  <1>7. u \in Session
    BY ONLY <1>6, s \in Session, x \in SUBSET Admission DEF Session
  <1>8. /\ SameTraffic(s, u)
        /\ u.p_request_ = s.p_request_ /\ u.p_connect_request_ = s.p_connect_request_
        /\ u.guid_ = s.guid_ /\ u.posts = s.posts /\ u.auth_user_ = s.auth_user_
        /\ u.admitted = x
    BY ONLY <1>6, s \in Session DEF Session, SameTraffic
  <1> QED BY <1>1, <1>5, <1>7, <1>8

LEMMA AdmitConnectFacts ==
    ASSUME NEW s \in Session, now \in Nat, NEW u, u = AdmitConnect(s)
    PROVE  /\ u \in Session /\ SameTraffic(s, u)
           /\ u.p_request_ = s.p_request_ /\ u.p_connect_request_ = s.p_request_
           /\ u.guid_ = s.guid_ /\ u.posts = s.posts
           /\ u.admitted = s.admitted \cup {[id |-> s.p_request_.id, at |-> now]}
  <1>1. PICK a : a = Admit(s)
    OBVIOUS
  <1>2. /\ a \in Session /\ SameTraffic(s, a) /\ a.p_request_ = s.p_request_
        /\ a.guid_ = s.guid_ /\ a.posts = s.posts
        /\ a.admitted = s.admitted \cup {[id |-> s.p_request_.id, at |-> now]}
    BY <1>1, AdmitFacts
  <1>3. u = [a EXCEPT !.p_connect_request_ = s.p_request_] /\ s.p_request_ \in Request
    BY <1>1 DEF AdmitConnect, Session
  <1> QED BY <1>2, <1>3 DEF Session, SameTraffic

LEMMA PostFacts ==
    ASSUME NEW s \in Session, NEW u, u = post_request(s)
    PROVE  /\ u \in Session /\ SameTraffic(s, u)
           /\ u.p_request_ = s.p_request_ /\ u.p_connect_request_ = s.p_connect_request_
           /\ u.guid_ = s.guid_ /\ u.admitted = s.admitted
           /\ u.posts = s.posts \cup {RequestPost(s, s.guid_)}
  <1>1. PICK p : p = RequestPost(s, s.guid_)
    OBVIOUS
  <1>2. /\ s.p_request_ \in Request /\ s.p_connect_request_ \in Request /\ s.auth_user_ \in Names
        /\ s.guid_ \in Nat
    BY DEF Session
  <1>3. s.p_request_.id \in Nat /\ s.p_request_.host \in Names /\ s.p_connect_request_.host \in Names
    BY <1>2 DEF Request
  <1>4. p \in Post
    BY <1>1, <1>2, <1>3 DEF RequestPost, Post
  <1>5. u = [s EXCEPT !.posts = s.posts \cup {p}]
    BY <1>1 DEF post_request, RequestPost
  <1>6. PICK x \in SUBSET Post : x = s.posts \cup {p}
    BY <1>4 DEF Session
  <1>7. u = [s EXCEPT !.posts = x]
    BY <1>5, <1>6
  <1>8. u \in Session
    BY ONLY <1>7, s \in Session, x \in SUBSET Post DEF Session
  <1>9. /\ SameTraffic(s, u) /\ u.p_request_ = s.p_request_
        /\ u.p_connect_request_ = s.p_connect_request_
        /\ u.guid_ = s.guid_ /\ u.admitted = s.admitted /\ u.posts = x
    BY ONLY <1>7, s \in Session DEF Session, SameTraffic
  <1> QED BY <1>1, <1>6, <1>8, <1>9

LEMMA AdmitDirectFacts ==
    ASSUME NEW s \in Session, now \in Nat, NEW u, u = AdmitDirect(s)
    PROVE  /\ u \in Session /\ SameTraffic(s, u)
           /\ u.p_request_ = s.p_request_ /\ u.p_connect_request_ = s.p_connect_request_
           /\ u.guid_ = s.guid_ + 1 /\ u.posts = s.posts \cup {RequestPost(s, s.guid_ + 1)}
           /\ u.admitted = s.admitted \cup {[id |-> s.p_request_.id, at |-> now]}
  <1>1. PICK a, b : a = Admit(s) /\ b = [a EXCEPT !.guid_ = @ + 1]
    OBVIOUS
  <1>2. /\ a \in Session /\ SameTraffic(s, a) /\ a.p_request_ = s.p_request_
        /\ a.guid_ = s.guid_ /\ a.posts = s.posts /\ a.auth_user_ = s.auth_user_
        /\ a.p_connect_request_ = s.p_connect_request_
        /\ a.admitted = s.admitted \cup {[id |-> s.p_request_.id, at |-> now]}
    BY <1>1, AdmitFacts
  <1>3. /\ b \in Session /\ SameTraffic(a, b) /\ b.p_request_ = a.p_request_
        /\ b.guid_ = a.guid_ + 1 /\ b.posts = a.posts /\ b.auth_user_ = a.auth_user_
        /\ b.p_connect_request_ = a.p_connect_request_ /\ b.admitted = a.admitted
    <2>1. PICK n \in Nat : n = a.guid_ + 1
      BY <1>2 DEF Session
    <2>2. b = [a EXCEPT !.guid_ = n] /\ a \in Session
      BY <1>1, <1>2, <2>1
    <2>3. b \in Session
      BY ONLY <2>2, n \in Nat DEF Session
    <2>4. /\ SameTraffic(a, b) /\ b.p_request_ = a.p_request_
          /\ b.guid_ = n /\ b.posts = a.posts /\ b.auth_user_ = a.auth_user_
          /\ b.p_connect_request_ = a.p_connect_request_ /\ b.admitted = a.admitted
      BY ONLY <2>2 DEF Session, SameTraffic
    <2> QED BY <2>1, <2>3, <2>4
  <1>4. /\ u \in Session /\ SameTraffic(b, u) /\ u.p_request_ = b.p_request_
        /\ u.p_connect_request_ = b.p_connect_request_ /\ u.guid_ = b.guid_
        /\ u.admitted = b.admitted /\ u.posts = b.posts \cup {RequestPost(b, b.guid_)}
    BY <1>1, <1>3, PostFacts DEF AdmitDirect
  <1>5. RequestPost(b, b.guid_) = RequestPost(s, s.guid_ + 1)
    BY <1>2, <1>3 DEF RequestPost
  <1> QED BY <1>2, <1>3, <1>4, <1>5 DEF SameTraffic

\* do_after_auth resolves, or ends a session whose request has no host.
LEMMA AfterAuthIs ==
    ASSUME NEW s \in Session, now \in Nat
    PROVE  do_after_auth(s) =
             IF s.p_request_.method = "connect"
             THEN IF s.p_request_.host = NoHost THEN AdmitConnect(s)
                  ELSE Start(AdmitConnect(s), Op("resolve_connect"))
             ELSE IF s.p_request_.host = NoHost THEN AdmitDirect(s)
                  ELSE Start(AdmitDirect(s), Op("resolve"))
  <1>1. AdmitConnect(s).p_request_ = s.p_request_ /\ AdmitDirect(s).p_request_ = s.p_request_
    BY AdmitConnectFacts, AdmitDirectFacts
  <1>2. CASE s.p_request_.method = "connect"
    <2>1. do_after_auth(s) = do_connect_request(AdmitConnect(s))
      BY <1>2 DEF do_after_auth, AdmitConnect
    <2> QED BY <1>1, <1>2, <2>1 DEF do_connect_request
  <1>3. CASE s.p_request_.method # "connect"
    <2>1. do_after_auth(s) = do_direct_request(AdmitDirect(s))
      BY <1>3 DEF do_after_auth, AdmitDirect
    <2> QED BY <1>1, <1>3, <2>1 DEF do_direct_request
  <1> QED BY <1>2, <1>3

\* Credentials confirmed recently enough.
Fresh(cred, conf) == \E k \in conf : k.cred = cred /\ k.at =< now /\ now =< k.at + Expire

LEMMA AfterAuthConfirmed ==
    ASSUME now \in Nat, NEW conf, NEW s, Between(s, conf), s.ops = {}, s.p_connect_request_ = NoRequest,
           Fresh(s.p_request_.cred, conf), NEW t, t = do_after_auth(s)
    PROVE  Runs(t, conf)
  <1>1. s \in Session
    BY DEF Between
  <1>2. CASE s.p_request_.method = "connect"
    <2>1. PICK u : u = AdmitConnect(s)
      OBVIOUS
    <2>2. /\ u \in Session /\ SameTraffic(s, u) /\ u.p_connect_request_ = s.p_request_
          /\ u.admitted = s.admitted \cup {[id |-> s.p_request_.id, at |-> now]}
      BY <1>1, <2>1, AdmitConnectFacts
    <2>3. ConfirmedFor(u, s.p_request_, conf)
      <3>1. PICK a : a = [id |-> s.p_request_.id, at |-> now] /\ a \in u.admitted
        BY <2>2
      <3>2. PICK k \in conf : k.cred = s.p_request_.cred /\ k.at =< now /\ now =< k.at + Expire
        BY DEF Fresh
      <3>3. a.id = s.p_request_.id /\ k.at =< a.at /\ a.at =< k.at + Expire
        BY <3>1, <3>2
      <3> QED BY <3>1, <3>2, <3>3 DEF ConfirmedFor
    <2>4. Between(u, conf) /\ u.ops = {}
      <3>1. \A f \in u.forwarded : ConfirmedFor(u, AnsweredFor(f), conf)
        BY <2>2, ConfirmedStays DEF Between, SameTraffic
      <3> QED BY <2>2, <2>3, <3>1 DEF Between, SameTraffic
    <2>5. CASE t = u
      BY <2>4, <2>5, Stops
    <2>6. CASE t = Start(u, Op("resolve_connect"))
      <3>1. PICK op \in Operation : op = Op("resolve_connect") /\ op.kind = "resolve_connect"
        BY OpFacts DEF Kinds, Tls
      <3>2. OpConfirmed(u, op, conf)
        BY <1>2, <2>2, <3>1 DEF OpConfirmed, Checking, Reaching, Tls
      <3> QED BY <2>4, <2>6, <3>1, <3>2, Starts
    <2> QED BY <1>1, <1>2, <2>1, <2>5, <2>6, AfterAuthIs
  <1>3. CASE s.p_request_.method # "connect"
    <2>1. PICK u : u = AdmitDirect(s)
      OBVIOUS
    <2>2. /\ u \in Session /\ SameTraffic(s, u) /\ u.p_request_ = s.p_request_
          /\ u.p_connect_request_ = s.p_connect_request_
          /\ u.admitted = s.admitted \cup {[id |-> s.p_request_.id, at |-> now]}
      BY <1>1, <2>1, AdmitDirectFacts
    <2>3. ConfirmedFor(u, s.p_request_, conf)
      <3>1. PICK a : a = [id |-> s.p_request_.id, at |-> now] /\ a \in u.admitted
        BY <2>2
      <3>2. PICK k \in conf : k.cred = s.p_request_.cred /\ k.at =< now /\ now =< k.at + Expire
        BY DEF Fresh
      <3>3. a.id = s.p_request_.id /\ k.at =< a.at /\ a.at =< k.at + Expire
        BY <3>1, <3>2
      <3> QED BY <3>1, <3>2, <3>3 DEF ConfirmedFor
    <2>4. Between(u, conf) /\ u.ops = {}
      BY <2>2, KeepsBetween DEF Keeps, SameTraffic
    <2>5. CASE t = u
      BY <2>4, <2>5, Stops
    <2>6. CASE t = Start(u, Op("resolve"))
      <3>1. PICK op \in Operation : op = Op("resolve") /\ op.kind = "resolve"
        BY OpFacts DEF Kinds, Reaching
      <3>2. OpConfirmed(u, op, conf)
        BY <2>2, <2>3, <3>1 DEF OpConfirmed, Checking, Reaching, Tls
      <3> QED BY <2>4, <2>6, <3>1, <3>2, Starts
    <2> QED BY <1>1, <1>3, <2>1, <2>5, <2>6, AfterAuthIs
  <1> QED BY <1>2, <1>3

\* The members of a session that change together.
SameCore(s, t) ==
  /\ t.ops = s.ops /\ t.started = s.started
  /\ t.p_connect_request_ = s.p_connect_request_ /\ t.admitted = s.admitted
SameIn(s, t) == t.packet_in_ = s.packet_in_ /\ t.p_request_ = s.p_request_
SameOut(s, t) == t.packet2_in_ = s.packet2_in_ /\ t.up = s.up
SameSent(s, t) == t.answers = s.answers /\ t.filtered_response_ = s.filtered_response_
SamePosted(s, t) == t.guid_ = s.guid_ /\ t.posts = s.posts

\* Bytes of the client are added or cut off.
LEMMA InputFacts ==
    ASSUME NEW s \in Session, NEW x \in Seq(Token), NEW u,
           u = [s EXCEPT !.packet_in_ = x]
    PROVE  /\ u \in Session
           /\ SameCore(s, u) /\ SameOut(s, u) /\ SameSent(s, u)
           /\ SamePosted(s, u) /\ u.forwarded = s.forwarded /\ u.packet_in_ = x
           /\ u.p_request_ = s.p_request_
  <1>1. u \in Session
    BY DEF Session
  <1>2. /\ SameCore(s, u) /\ SameOut(s, u) /\ SameSent(s, u)
        /\ SamePosted(s, u) /\ u.forwarded = s.forwarded /\ u.packet_in_ = x
        /\ u.p_request_ = s.p_request_
    BY DEF Session, SameCore, SameIn, SameOut, SameSent, SamePosted
  <1> QED BY <1>1, <1>2

\* A request is found in them.
LEMMA RequestFacts ==
    ASSUME NEW s \in Session, NEW m \in Request, NEW u,
           u = [s EXCEPT !.p_request_ = m]
    PROVE  /\ u \in Session
           /\ SameCore(s, u) /\ SameOut(s, u) /\ SameSent(s, u)
           /\ SamePosted(s, u) /\ u.forwarded = s.forwarded /\ u.packet_in_ = s.packet_in_
           /\ u.p_request_ = m
  <1>1. u \in Session
    BY DEF Session
  <1>2. /\ SameCore(s, u) /\ SameOut(s, u) /\ SameSent(s, u)
        /\ SamePosted(s, u) /\ u.forwarded = s.forwarded /\ u.packet_in_ = s.packet_in_
        /\ u.p_request_ = m
    BY DEF Session, SameCore, SameIn, SameOut, SameSent, SamePosted
  <1> QED BY <1>1, <1>2

\* Its user is known.
LEMMA UserFacts ==
    ASSUME NEW s \in Session, NEW x \in Names, NEW u,
           u = [s EXCEPT !.auth_user_ = x]
    PROVE  /\ u \in Session
           /\ SameCore(s, u) /\ SameIn(s, u) /\ SameOut(s, u)
           /\ SameSent(s, u) /\ SamePosted(s, u) /\ u.forwarded = s.forwarded
  <1>1. u \in Session
    BY DEF Session
  <1>2. /\ SameCore(s, u) /\ SameIn(s, u) /\ SameOut(s, u)
        /\ SameSent(s, u) /\ SamePosted(s, u) /\ u.forwarded = s.forwarded
    BY DEF Session, SameCore, SameIn, SameOut, SameSent, SamePosted
  <1> QED BY <1>1, <1>2

\* The response is chosen.
LEMMA FilteredFacts ==
    ASSUME NEW s \in Session, NEW x \in Nat, NEW u,
           u = [s EXCEPT !.filtered_response_ = x]
    PROVE  /\ u \in Session
           /\ SameCore(s, u) /\ SameIn(s, u) /\ SameOut(s, u)
           /\ SamePosted(s, u) /\ u.forwarded = s.forwarded /\ u.answers = s.answers
           /\ u.filtered_response_ = x
  <1>1. u \in Session
    BY DEF Session
  <1>2. /\ SameCore(s, u) /\ SameIn(s, u) /\ SameOut(s, u)
        /\ SamePosted(s, u) /\ u.forwarded = s.forwarded /\ u.answers = s.answers
        /\ u.filtered_response_ = x
    BY DEF Session, SameCore, SameIn, SameOut, SameSent, SamePosted
  <1> QED BY <1>1, <1>2

\* The client is answered.
LEMMA AnswersFacts ==
    ASSUME NEW s \in Session, NEW x \in Seq(Nat), NEW u,
           u = [s EXCEPT !.answers = x]
    PROVE  /\ u \in Session
           /\ SameCore(s, u) /\ SameIn(s, u) /\ SameOut(s, u)
           /\ SamePosted(s, u) /\ u.forwarded = s.forwarded /\ u.answers = x
           /\ u.filtered_response_ = s.filtered_response_
  <1>1. u \in Session
    BY DEF Session
  <1>2. /\ SameCore(s, u) /\ SameIn(s, u) /\ SameOut(s, u)
        /\ SamePosted(s, u) /\ u.forwarded = s.forwarded /\ u.answers = x
        /\ u.filtered_response_ = s.filtered_response_
    BY DEF Session, SameCore, SameIn, SameOut, SameSent, SamePosted
  <1> QED BY <1>1, <1>2

\* The origin sends.
LEMMA UpFacts ==
    ASSUME NEW s \in Session, NEW x \in Seq(Token), NEW u,
           u = [s EXCEPT !.up = x]
    PROVE  /\ u \in Session
           /\ SameCore(s, u) /\ SameIn(s, u) /\ SameSent(s, u)
           /\ SamePosted(s, u) /\ u.forwarded = s.forwarded /\ u.up = x
           /\ u.packet2_in_ = s.packet2_in_
  <1>1. u \in Session
    BY DEF Session
  <1>2. /\ SameCore(s, u) /\ SameIn(s, u) /\ SameSent(s, u)
        /\ SamePosted(s, u) /\ u.forwarded = s.forwarded /\ u.up = x
        /\ u.packet2_in_ = s.packet2_in_
    BY DEF Session, SameCore, SameIn, SameOut, SameSent, SamePosted
  <1> QED BY <1>1, <1>2

\* A request is sent to its origin.
LEMMA ForwardedFacts ==
    ASSUME NEW s \in Session, NEW x \in SUBSET Forwarded, NEW u,
           u = [s EXCEPT !.forwarded = x]
    PROVE  /\ u \in Session
           /\ SameCore(s, u) /\ SameIn(s, u) /\ SameOut(s, u)
           /\ SameSent(s, u) /\ SamePosted(s, u) /\ u.forwarded = x
  <1>1. u \in Session
    BY DEF Session
  <1>2. /\ SameCore(s, u) /\ SameIn(s, u) /\ SameOut(s, u)
        /\ SameSent(s, u) /\ SamePosted(s, u) /\ u.forwarded = x
    BY DEF Session, SameCore, SameIn, SameOut, SameSent, SamePosted
  <1> QED BY <1>1, <1>2

Received(s, x, y) == [s EXCEPT !.packet2_in_ = x, !.up = y]

\* Bytes of the origin arrive.
LEMMA ReceivedFacts ==
    ASSUME NEW s \in Session, NEW x \in Seq(Token), NEW y \in Seq(Token), NEW u,
           u = Received(s, x, y)
    PROVE  /\ u \in Session
           /\ SameCore(s, u) /\ SameIn(s, u) /\ SameSent(s, u)
           /\ SamePosted(s, u) /\ u.forwarded = s.forwarded /\ u.packet2_in_ = x
           /\ u.up = y
  <1>1. u \in Session
    BY DEF Session, Received
  <1>2. /\ SameCore(s, u) /\ SameIn(s, u) /\ SameSent(s, u)
        /\ SamePosted(s, u) /\ u.forwarded = s.forwarded /\ u.packet2_in_ = x
        /\ u.up = y
    BY DEF Received, Session, SameCore, SameIn, SameOut, SameSent, SamePosted
  <1> QED BY <1>1, <1>2

\* The context of the domain is used.
LEMMA DomainFacts ==
    ASSUME NEW s \in Session, NEW x \in Names, NEW u,
           u = [s EXCEPT !.domain = x]
    PROVE  /\ u \in Session
           /\ SameCore(s, u) /\ SameIn(s, u) /\ SameOut(s, u)
           /\ SameSent(s, u) /\ SamePosted(s, u) /\ u.forwarded = s.forwarded
  <1>1. u \in Session
    BY DEF Session
  <1>2. /\ SameCore(s, u) /\ SameIn(s, u) /\ SameOut(s, u)
        /\ SameSent(s, u) /\ SamePosted(s, u) /\ u.forwarded = s.forwarded
    BY DEF Session, SameCore, SameIn, SameOut, SameSent, SamePosted
  <1> QED BY <1>1, <1>2

PostedOn(s, n, x) == [s EXCEPT !.guid_ = n, !.posts = x]

\* A copy is posted.
LEMMA PostsFacts ==
    ASSUME NEW s \in Session, NEW n \in Nat, NEW x \in SUBSET Post, NEW u,
           u = PostedOn(s, n, x)
    PROVE  /\ u \in Session
           /\ SameCore(s, u) /\ SameIn(s, u) /\ SameOut(s, u)
           /\ SameSent(s, u) /\ u.forwarded = s.forwarded /\ u.guid_ = n
           /\ u.posts = x
  <1>1. u \in Session
    BY DEF Session, PostedOn
  <1>2. /\ SameCore(s, u) /\ SameIn(s, u) /\ SameOut(s, u)
        /\ SameSent(s, u) /\ u.forwarded = s.forwarded /\ u.guid_ = n
        /\ u.posts = x
    BY DEF PostedOn, Session, SameCore, SameIn, SameOut, SameSent, SamePosted
  <1> QED BY <1>1, <1>2

-----------------------------------------------------------------------------
(* The first invariant is kept by every handler                            *)

LEMMA CoreKeeps ==
    ASSUME NEW conf, NEW s, Between(s, conf), NEW u \in Session, SameCore(s, u),
           u.forwarded = s.forwarded
    PROVE  Between(u, conf) /\ u.ops = s.ops
  BY KeepsBetween DEF Keeps, SameCore

\* The bytes of the client do not matter to it.
LEMMA CutConfirmed ==
    ASSUME NEW conf, NEW h, Runs(h, conf), NEW x \in Seq(Token),
           NEW t, t = [h EXCEPT !.packet_in_ = x]
    PROVE  Runs(t, conf)
  <1>1. h \in Session
    BY DEF SessionConfirmed, Runs
  <1>2. /\ t \in Session /\ SameCore(h, t) /\ t.forwarded = h.forwarded
        /\ t.p_request_ = h.p_request_
    BY <1>1, InputFacts
  <1>3. Between(t, conf)
    BY <1>2, CoreKeeps DEF SessionConfirmed, Runs
  <1>4. \A op : OpConfirmed(h, op, conf) => OpConfirmed(t, op, conf)
    BY <1>2, ConfirmedStays DEF OpConfirmed, SameCore
  <1> QED BY <1>2, <1>3, <1>4 DEF SessionConfirmed, SameCore, Runs

LEMMA AuthConfirmed ==
    ASSUME now \in Nat, NEW conf, conf \subseteq [cred : Cred, at : Nat],
           NEW cache, CacheConfirmed(cache, conf, now),
           NEW s, Between(s, conf), s.ops = {}, s.p_connect_request_ = NoRequest,
           NEW t, t = do_auth(s, cache)
    PROVE  Runs(t, conf)
  <1>1. s \in Session
    BY DEF Between
  <1>2. PICK cred, u : cred = s.p_request_.cred /\ u = [s EXCEPT !.auth_user_ = cred.user]
    OBVIOUS
  <1>3. cred \in Cred /\ cred.user \in Names
    BY <1>1, <1>2 DEF Session, Request, Cred
  <1>4. /\ u \in Session /\ SameCore(s, u) /\ u.forwarded = s.forwarded
        /\ u.p_request_ = s.p_request_
    BY <1>1, <1>2, <1>3, UserFacts DEF SameIn
  <1>5. Between(u, conf) /\ u.ops = {} /\ u.p_connect_request_ = NoRequest
    BY <1>4, CoreKeeps DEF SameCore
  <1>6. CASE t = s
    BY <1>6, Stops
  <1>7. CASE t = u
    BY <1>5, <1>7, Stops
  <1>8. CASE t = Verify(u)
    <2>1. PICK op : op = [kind |-> "v_resolve", left |-> 0, cred |-> u.p_request_.cred]
      OBVIOUS
    <2>2. op \in Operation /\ op.kind = "v_resolve" /\ op.cred = u.p_request_.cred
      BY <1>2, <1>3, <1>4, <2>1 DEF Operation, Kinds, Checking
    <2>3. OpConfirmed(u, op, conf)
      BY <1>5, <2>2 DEF OpConfirmed, Checking, Reaching, Tls
    <2>4. t = Start(u, op)
      BY <1>8, <2>1 DEF Verify
    <2> QED BY <1>5, <2>2, <2>3, <2>4, Starts
  <1>9. CASE CacheHit(cache, cred.user) /\ cache[cred.user].pass = cred.pass /\ t = do_after_auth(u)
    <2>1. cred.user \in DOMAIN cache /\ ~ (cache[cred.user].expire < now)
      BY <1>9 DEF CacheHit
    <2>2. PICK k \in conf : /\ k.cred.user = cred.user /\ k.cred.pass = cache[cred.user].pass
                            /\ cache[cred.user].expire = k.at + Expire /\ k.at =< now
      BY <2>1 DEF CacheConfirmed
    <2>3. k.cred \in Cred /\ k.at \in Nat /\ Expire \in Nat
      BY BoundsAssumption
    <2>4. k.cred = cred
      BY <1>3, <1>9, <2>2, <2>3 DEF Cred
    <2>5. now =< k.at + Expire
      BY <2>1, <2>2, <2>3
    <2>6. Fresh(u.p_request_.cred, conf)
      BY <1>2, <1>4, <2>2, <2>4, <2>5 DEF Fresh
    <2> QED BY <1>5, <1>9, <2>6, AfterAuthConfirmed
  <1> QED BY <1>2, <1>6, <1>7, <1>8, <1>9 DEF do_auth

\* Operations that need nothing confirmed of their own.
Plain(u, k) ==
  /\ k \in Kinds \ (Checking \cup Reaching)
  /\ IF k \in Tls THEN u.p_connect_request_.method = "connect" ELSE u.p_connect_request_ = NoRequest

LEMMA PlainStarts ==
    ASSUME NEW conf, NEW u, Between(u, conf), u.ops = {}, NEW op \in Operation, Plain(u, op.kind),
           NEW t, t = Start(u, op)
    PROVE  Runs(t, conf)
  BY Starts DEF OpConfirmed, Plain

\* do_write_407_unauthorized, from a read or after a refusal.
LEMMA RefusedConfirmed ==
    ASSUME NEW conf, NEW r, Between(r, conf), r.ops = {}, r.p_connect_request_ = NoRequest,
           NEW h, h = do_write_407_unauthorized(r)
    PROVE  Runs(h, conf)
  <1>1. r \in Session
    BY DEF Between
  <1>2. PICK n, v : n = r.p_request_.id /\ v = [r EXCEPT !.filtered_response_ = n]
    OBVIOUS
  <1>3. n \in Nat
    BY <1>1, <1>2 DEF Session, Request
  <1>4. v \in Session /\ SameCore(r, v) /\ v.forwarded = r.forwarded
    BY <1>1, <1>2, <1>3, FilteredFacts
  <1>5. Between(v, conf) /\ v.ops = {} /\ v.p_connect_request_ = NoRequest
    BY <1>4, CoreKeeps DEF SameCore
  <1>6. PICK op \in Operation : op = Op("write407") /\ op.kind = "write407"
    BY OpFacts DEF Kinds
  <1>7. Plain(v, op.kind)
    BY <1>5, <1>6 DEF Plain, Checking, Reaching, Tls, Kinds
  <1>8. h = Start(v, op)
    BY <1>2, <1>6 DEF do_write_407_unauthorized
  <1> QED BY <1>5, <1>6, <1>7, <1>8, PlainStarts

\* A read hands at most one request on.
LEMMA ReadConfirmed ==
    ASSUME now \in Nat, NEW conf, conf \subseteq [cred : Cred, at : Nat],
           NEW cache, CacheConfirmed(cache, conf, now), NEW got \in Seq(Token),
           NEW s, Between(s, conf), s.ops = {}, s.p_connect_request_ = NoRequest,
           NEW t, t = handle_read_http_request(s, got, cache)
    PROVE  Runs(t, conf)
  <1>1. s \in Session /\ s.packet_in_ \in Seq(Token)
    BY DEF Between, Session
  <1>2. PICK x, u : x = s.packet_in_ \o got /\ u = [s EXCEPT !.packet_in_ = x]
    OBVIOUS
  <1>3. x \in Seq(Token)
    BY ONLY <1>1, <1>2, got \in Seq(Token)
  <1>4. u \in Session /\ SameCore(s, u) /\ u.forwarded = s.forwarded /\ u.packet_in_ = x
    <2>1. u = [s EXCEPT !.packet_in_ = x]
      BY <1>2
    <2> QED BY ONLY <1>1, <1>3, <2>1, InputFacts
  <1>5. Between(u, conf) /\ u.ops = {} /\ u.p_connect_request_ = NoRequest
    BY <1>4, CoreKeeps DEF SameCore
  <1>6. CASE t = u
    BY <1>5, <1>6, Stops
  <1>7. CASE t = do_read_http_request(u)
    <2>1. PICK op \in Operation : op = Op("read") /\ op.kind = "read"
      BY OpFacts DEF Kinds
    <2>2. OpConfirmed(u, op, conf)
      BY <1>5, <2>1 DEF OpConfirmed, Checking, Reaching, Tls
    <2>3. t = Start(u, op)
      BY <1>7, <2>1 DEF do_read_http_request
    <2> QED BY <1>5, <2>1, <2>2, <2>3, Starts
  <1>8. CASE Parse(x) \notin {"NG", "AG"}
    <2>1. Len(x) >= 2 /\ x[1] \in Token
      <3>1. Len(x) >= 2
        BY <1>8 DEF Parse
      <3> QED BY <1>3, <3>1
    <2>2. PICK m, r : m = x[1].msg /\ r = [u EXCEPT !.p_request_ = m]
      OBVIOUS
    <2>3. m \in Request
      BY <2>1, <2>2 DEF Token
    <2>4. r \in Session /\ SameCore(u, r) /\ r.forwarded = u.forwarded /\ r.packet_in_ = x
      BY <1>4, <2>2, <2>3, RequestFacts
    <2>5. Between(r, conf) /\ r.ops = {} /\ r.p_connect_request_ = NoRequest
      BY <1>5, <2>4, CoreKeeps DEF SameCore
    <2>6. PICK h : h = IF r.p_request_.cred = NoCred THEN do_write_407_unauthorized(r)
                       ELSE do_auth(r, cache)
      OBVIOUS
    <2>7. Runs(h, conf)
      <3>1. CASE h = do_write_407_unauthorized(r)
        BY <2>5, <3>1, RefusedConfirmed
      <3>2. CASE h = do_auth(r, cache)
        BY <2>5, <3>2, AuthConfirmed
      <3> QED BY <2>6, <3>1, <3>2
    <2>8. h.packet_in_ \in Seq(Token)
      BY <2>7 DEF Runs, SessionConfirmed, Session
    <2>9. SubSeq(h.packet_in_, parsed_length + 1, Len(h.packet_in_)) \in Seq(Token)
      BY <2>8 DEF parsed_length
    <2>10. PICK y \in Seq(Token) : y = SubSeq(h.packet_in_, parsed_length + 1, Len(h.packet_in_))
      BY <2>9
    <2>11. CASE t = [h EXCEPT !.packet_in_ = y]
      BY <2>7, <2>11, CutConfirmed
    <2>12. t = u \/ t = [h EXCEPT !.packet_in_ = y]
      <3>1. r = [u EXCEPT !.p_request_ = u.packet_in_[1].msg]
        BY <1>4, <2>2
      <3>2. t = IF Len(u.packet_in_) > MaxPacket \/ Parse(u.packet_in_) = "NG" THEN u
                ELSE IF Parse(u.packet_in_) = "AG" THEN do_read_http_request(u)
                ELSE [h EXCEPT !.packet_in_ = SubSeq(@, parsed_length + 1, Len(@))]
        <4>1. u = [s EXCEPT !.packet_in_ = @ \o got]
          BY <1>2
        <4> QED BY ONLY <4>1, <2>6, <3>1, t = handle_read_http_request(s, got, cache)
                DEF handle_read_http_request
      <3> QED BY ONLY <1>4, <1>8, <2>10, <3>2
    <2> QED BY <1>6, <2>11, <2>12
  <1>9. CASE Parse(x) = "NG"
    BY <1>2, <1>4, <1>6, <1>9 DEF handle_read_http_request
  <1>10. CASE Parse(x) = "AG"
    BY <1>2, <1>4, <1>6, <1>7, <1>10 DEF handle_read_http_request
  <1> QED BY <1>8, <1>9, <1>10

\* A request that goes out leaves a record.
LEMMA ForwardConfirmed ==
    ASSUME NEW conf, NEW s, Between(s, conf), s.ops = {}, NEW host \in Names, NEW k, Plain(s, k),
           s.p_connect_request_ = NoRequest => ConfirmedFor(s, s.p_request_, conf),
           NEW t, t = Forward(s, host, k)
    PROVE  Runs(t, conf)
  <1>1. s \in Session /\ s.p_request_ \in Request /\ s.p_connect_request_ \in Request /\ s.guid_ \in Nat
    BY DEF Between, Session
  <1>2. PICK f, x, u : /\ f = [req |-> s.p_request_, host |-> host, by |-> s.p_connect_request_,
                               uuid |-> s.guid_]
                       /\ x = s.forwarded \cup {f} /\ u = [s EXCEPT !.forwarded = x]
    OBVIOUS
  <1>3. f \in Forwarded
    BY <1>1, <1>2 DEF Forwarded
  <1>4. x \in SUBSET Forwarded
    BY <1>1, <1>2, <1>3 DEF Session
  <1>5. u \in Session /\ SameCore(s, u) /\ u.forwarded = x
    BY <1>1, <1>2, <1>4, ForwardedFacts
  <1>6. AnsweredFor(f) = IF s.p_connect_request_ = NoRequest THEN s.p_request_ ELSE s.p_connect_request_
    BY <1>2 DEF AnsweredFor
  <1>7. ConfirmedFor(s, AnsweredFor(f), conf)
    BY <1>6 DEF Between
  <1>8. \A g \in u.forwarded : ConfirmedFor(u, AnsweredFor(g), conf)
    <2>1. \A g \in x : ConfirmedFor(s, AnsweredFor(g), conf)
      BY <1>2, <1>7 DEF Between
    <2> QED BY <1>5, <2>1, ConfirmedStays DEF SameCore
  <1>9. Between(u, conf) /\ u.ops = {}
    <2>1. u.p_connect_request_ # NoRequest => ConfirmedFor(u, u.p_connect_request_, conf)
      BY <1>5, ConfirmedStays DEF Between, SameCore
    <2> QED BY <1>5, <1>8, <2>1 DEF Between, SameCore
  <1>10. PICK op \in Operation : op = Op(k) /\ op.kind = k
    BY OpFacts DEF Plain
  <1>11. Plain(u, op.kind)
    BY <1>5, <1>10 DEF Plain, SameCore
  <1>12. t = Start(u, op)
    BY <1>2, <1>10 DEF Forward
  <1> QED BY <1>9, <1>10, <1>11, <1>12, PlainStarts

\* A read from the origin.
LEMMA RespondConfirmed ==
    ASSUME NEW conf, NEW s, Between(s, conf), s.ops = {}, NEW n \in 1..Len(s.up),
           NEW got, got = SubSeq(s.up, 1, n), NEW again, NEW reply, Plain(s, again), Plain(s, reply),
           NEW t, t = Respond(s, got, again, reply)
    PROVE  Runs(t, conf)
  <1>1. s \in Session /\ s.up \in Seq(Token) /\ s.packet2_in_ \in Seq(Token)
    BY DEF Between, Session
  <1>2. n \in 0..Len(s.up)
    BY <1>1
  <1>3. got \in Seq(Token) /\ Len(got) = n
    BY <1>1, <1>2, CutFacts
  <1>4. PICK x, y, u : /\ x = s.packet2_in_ \o got /\ y = Rest(s.up, got)
                       /\ u = [s EXCEPT !.packet2_in_ = x, !.up = y]
    OBVIOUS
  <1>5. x \in Seq(Token)
    BY ONLY <1>1, <1>3, <1>4
  <1>6. y \in Seq(Token)
    <2>1. y = SubSeq(s.up, n + 1, Len(s.up))
      BY <1>3, <1>4 DEF Rest
    <2> QED BY <1>1, <1>2, <2>1, CutFacts
  <1>7. u \in Session /\ SameCore(s, u) /\ u.forwarded = s.forwarded /\ u.packet2_in_ = x
    <2>1. u = Received(s, x, y)
      BY <1>4 DEF Received
    <2>2. s \in Session
      BY <1>1
    <2> QED BY ONLY <1>5, <1>6, <2>1, <2>2, ReceivedFacts
  <1>8. Between(u, conf) /\ u.ops = {} /\ Plain(u, again) /\ Plain(u, reply)
    BY <1>7, CoreKeeps DEF SameCore, Plain
  <1>9. CASE t = u
    BY <1>8, <1>9, Stops
  <1>10. CASE t = Start(u, Op(again))
    <2>1. PICK op \in Operation : op = Op(again) /\ op.kind = again
      BY OpFacts DEF Plain
    <2> QED BY <1>8, <1>10, <2>1, PlainStarts
  <1>11. CASE Parse(x) \notin {"NG", "AG"}
    <2>1. x[1] \in Token
      <3>1. Len(x) >= 2
        BY <1>11 DEF Parse
      <3> QED BY <1>5, <3>1
    <2>2. PICK i, f, p : /\ i = x[1].msg.id /\ f = [u EXCEPT !.filtered_response_ = i]
                         /\ p = post_response(f)
      OBVIOUS
    <2>3. i \in Nat
      BY <2>1, <2>2 DEF Token, Request
    <2>4. f \in Session /\ SameCore(u, f) /\ f.forwarded = u.forwarded /\ f.filtered_response_ = i
      BY <1>7, <2>2, <2>3, FilteredFacts
    <2>5. PICK z, w : /\ w = f.guid_
                      /\ z = f.posts \cup (IF i \in Large THEN {}
                                            ELSE {[type |-> "response", uuid |-> w, msg |-> i,
                                                   user |-> "", host |-> ""]})
      OBVIOUS
    <2>6. z \in SUBSET Post /\ w \in Nat
      <3>1. f.posts \in SUBSET Post /\ w \in Nat
        BY <2>4, <2>5 DEF Session
      <3>2. [type |-> "response", uuid |-> w, msg |-> i, user |-> "", host |-> ""] \in Post
        BY <2>3, <3>1, ScriptsAssumption DEF Post
      <3> QED BY ONLY <2>5, <3>1, <3>2
    <2>7. p = [f EXCEPT !.posts = z]
      BY <2>2, <2>4, <2>5 DEF post_response
    <2>8. p \in Session /\ SameCore(f, p) /\ p.forwarded = f.forwarded
      <3>1. p = PostedOn(f, w, z)
        BY <2>4, <2>5, <2>7 DEF Session, PostedOn
      <3> QED BY ONLY <2>4, <2>6, <3>1, PostsFacts
    <2>9. PICK e, v : e = <<>> /\ v = [p EXCEPT !.packet2_in_ = e]
      OBVIOUS
    <2>10. v \in Session /\ SameCore(p, v) /\ v.forwarded = p.forwarded
      <3>1. e \in Seq(Token) /\ p.up \in Seq(Token)
        BY <2>8, <2>9 DEF Session
      <3>2. v = Received(p, e, p.up)
        BY <2>8, <2>9 DEF Session, Received
      <3> QED BY ONLY <2>8, <3>1, <3>2, ReceivedFacts
    <2>11. SameCore(s, v) /\ v.forwarded = s.forwarded
      BY <1>7, <2>4, <2>8, <2>10 DEF SameCore
    <2>12. Between(v, conf) /\ v.ops = {} /\ Plain(v, reply)
      BY <2>10, <2>11, CoreKeeps DEF SameCore, Plain
    <2>13. PICK op \in Operation : op = Op(reply) /\ op.kind = reply
      BY OpFacts DEF Plain
    <2>14. t = Start(v, op)
      BY <1>4, <1>7, <1>11, <2>2, <2>9, <2>13 DEF Respond
    <2> QED BY <2>12, <2>13, <2>14, PlainStarts
  <1>12. Parse(x) = "NG" => t = u
    BY <1>4, <1>7 DEF Respond
  <1>13. Parse(x) = "AG" => t = Start(u, Op(again))
    BY <1>4, <1>7 DEF Respond
  <1> QED BY <1>9, <1>10, <1>11, <1>12, <1>13

\* A request that comes through the tunnel: numbered and posted.
Numbered(u, m) == post_request([u EXCEPT !.p_request_ = m, !.guid_ = @ + 1])

LEMMA NumberedFacts ==
    ASSUME NEW u \in Session, NEW m \in Request, NEW v, v = Numbered(u, m)
    PROVE  /\ v \in Session /\ SameCore(u, v) /\ SameOut(u, v) /\ SameSent(u, v)
           /\ v.forwarded = u.forwarded /\ v.packet_in_ = u.packet_in_ /\ v.p_request_ = m
           /\ v.guid_ = u.guid_ + 1
           /\ \E p \in Post : /\ v.posts = u.posts \cup {p}
                              /\ p.type = "request" /\ p.uuid = u.guid_ + 1 /\ p.msg = m.id
                              /\ p.host = IF u.p_connect_request_ # NoRequest
                                          THEN u.p_connect_request_.host ELSE m.host
  <1>1. PICK n \in Nat : n = u.guid_ + 1
    BY DEF Session
  <1>2. PICK a : a = [u EXCEPT !.p_request_ = m]
    OBVIOUS
  <1>3. /\ a \in Session /\ SameCore(u, a) /\ SameOut(u, a) /\ SameSent(u, a) /\ SamePosted(u, a)
        /\ a.forwarded = u.forwarded /\ a.packet_in_ = u.packet_in_ /\ a.p_request_ = m
    BY <1>2, RequestFacts
  <1>4. PICK b : b = PostedOn(a, n, a.posts)
    OBVIOUS
  <1>5. a.posts \in SUBSET Post
    BY <1>3 DEF Session
  <1>6. /\ b \in Session /\ SameCore(a, b) /\ SameOut(a, b) /\ SameSent(a, b) /\ SameIn(a, b)
        /\ b.forwarded = a.forwarded /\ b.guid_ = n /\ b.posts = a.posts
    <2>1. a \in Session
      BY <1>3
    <2> QED BY ONLY <1>4, <1>5, <2>1, n \in Nat, PostsFacts
  <1>7. b = [u EXCEPT !.p_request_ = m, !.guid_ = @ + 1]
    BY <1>1, <1>2, <1>3, <1>4 DEF PostedOn, Session
  <1>8. /\ v \in Session /\ SameTraffic(b, v) /\ v.p_request_ = b.p_request_
        /\ v.p_connect_request_ = b.p_connect_request_ /\ v.guid_ = b.guid_
        /\ v.admitted = b.admitted /\ v.posts = b.posts \cup {RequestPost(b, b.guid_)}
    BY <1>6, <1>7, PostFacts DEF Numbered
  <1>9. PICK p : p = RequestPost(b, b.guid_)
    OBVIOUS
  <1>10. p \in Post
    BY <1>8, <1>9 DEF Session
  <1>11. /\ p.type = "request" /\ p.uuid = u.guid_ + 1 /\ p.msg = m.id
         /\ p.host = IF u.p_connect_request_ # NoRequest THEN u.p_connect_request_.host ELSE m.host
    BY <1>1, <1>3, <1>6, <1>9 DEF RequestPost, SameIn, SameCore
  <1>12. /\ SameCore(u, v) /\ SameOut(u, v) /\ SameSent(u, v)
         /\ v.forwarded = u.forwarded /\ v.packet_in_ = u.packet_in_ /\ v.p_request_ = m
         /\ v.guid_ = u.guid_ + 1 /\ v.posts = u.posts \cup {p}
    BY <1>1, <1>3, <1>6, <1>8, <1>9 DEF SameIn, SameCore, SameOut, SameSent, SamePosted, SameTraffic
  <1> QED BY <1>8, <1>10, <1>11, <1>12

\* A read through the tunnel forwards at most one request.
LEMMA SslReadConfirmed ==
    ASSUME NEW conf, NEW got \in Seq(Token), NEW s, Between(s, conf), s.ops = {},
           s.p_connect_request_.method = "connect",
           NEW t, t = handle_read_after_handshake_for_connect_request(s, got)
    PROVE  Runs(t, conf)
  <1>1. s \in Session /\ s.packet_in_ \in Seq(Token)
    BY DEF Between, Session
  <1>2. PICK x, u : x = s.packet_in_ \o got /\ u = [s EXCEPT !.packet_in_ = x]
    OBVIOUS
  <1>3. x \in Seq(Token)
    BY ONLY <1>1, <1>2, got \in Seq(Token)
  <1>4. u \in Session /\ SameCore(s, u) /\ u.forwarded = s.forwarded /\ u.packet_in_ = x
    <2>1. u = [s EXCEPT !.packet_in_ = x]
      BY <1>2
    <2> QED BY ONLY <1>1, <1>3, <2>1, InputFacts
  <1>5. Between(u, conf) /\ u.ops = {} /\ u.p_connect_request_.method = "connect"
    BY <1>4, CoreKeeps DEF SameCore
  <1>6. CASE t = u
    BY <1>5, <1>6, Stops
  <1>7. CASE t = do_read_after_handshake_for_connect_request(u)
    <2>1. PICK op \in Operation : op = Op("readssl") /\ op.kind = "readssl"
      BY OpFacts DEF Kinds, Tls
    <2>2. Plain(u, op.kind)
      BY <1>5, <2>1 DEF Plain, Checking, Reaching, Tls, Kinds
    <2>3. t = Start(u, op)
      BY <1>7, <2>1 DEF do_read_after_handshake_for_connect_request
    <2> QED BY <1>5, <2>1, <2>2, <2>3, PlainStarts
  <1>8. CASE Parse(x) \notin {"NG", "AG"}
    <2>1. Len(x) >= 2 /\ x[1] \in Token
      <3>1. Len(x) >= 2
        BY <1>8 DEF Parse
      <3> QED BY <1>3, <3>1
    <2>2. PICK m, v, host, h : /\ m = x[1].msg /\ v = Numbered(u, m)
                               /\ host = v.p_connect_request_.host
                               /\ h = Forward(v, host, "write2ssl")
      OBVIOUS
    <2>3. m \in Request
      BY <2>1, <2>2 DEF Token
    <2>4. v \in Session /\ SameCore(u, v) /\ v.forwarded = u.forwarded
      BY <1>4, <2>2, <2>3, NumberedFacts
    <2>5. Between(v, conf) /\ v.ops = {} /\ v.p_connect_request_.method = "connect"
      BY <1>5, <2>4, CoreKeeps DEF SameCore
    <2>6. host \in Names /\ Plain(v, "write2ssl") /\ v.p_connect_request_ # NoRequest
      <3>1. v.p_connect_request_ \in Request
        BY <2>4 DEF Session
      <3>2. v.p_connect_request_ # NoRequest
        BY <2>5 DEF NoRequest
      <3> QED BY <2>2, <2>5, <3>1, <3>2 DEF Request, Plain, Kinds, Tls, Checking, Reaching
    <2>7. Runs(h, conf)
      BY <2>2, <2>5, <2>6, ForwardConfirmed
    <2>8. h.packet_in_ \in Seq(Token)
      BY <2>7 DEF Runs, SessionConfirmed, Session
    <2>9. SubSeq(h.packet_in_, parsed_length + 1, Len(h.packet_in_)) \in Seq(Token)
      BY <2>8 DEF parsed_length
    <2>10. PICK y \in Seq(Token) : y = SubSeq(h.packet_in_, parsed_length + 1, Len(h.packet_in_))
      BY <2>9
    <2>11. CASE t = [h EXCEPT !.packet_in_ = y]
      BY <2>7, <2>11, CutConfirmed
    <2>12. t = u \/ t = [h EXCEPT !.packet_in_ = y]
      <3>1. v = post_request([u EXCEPT !.p_request_ = u.packet_in_[1].msg, !.guid_ = @ + 1])
        BY <1>4, <2>2 DEF Numbered
      <3>2. h = do_ssl_proxy_request_for_connect_request(v)
        BY <2>2 DEF do_ssl_proxy_request_for_connect_request
      <3>3. t = IF Len(u.packet_in_) > MaxPacket \/ Parse(u.packet_in_) = "NG" THEN u
                ELSE IF Parse(u.packet_in_) = "AG"
                     THEN do_read_after_handshake_for_connect_request(u)
                ELSE [h EXCEPT !.packet_in_ = SubSeq(@, parsed_length + 1, Len(@))]
        <4>1. u = [s EXCEPT !.packet_in_ = @ \o got]
          BY <1>2
        <4> QED BY ONLY <4>1, <3>1, <3>2, t = handle_read_after_handshake_for_connect_request(s, got)
                DEF handle_read_after_handshake_for_connect_request
      <3> QED BY ONLY <1>4, <1>8, <2>10, <3>3
    <2> QED BY <1>6, <2>11, <2>12
  <1>9. CASE Parse(x) = "NG"
    BY <1>2, <1>4, <1>6, <1>9 DEF handle_read_after_handshake_for_connect_request
  <1>10. CASE Parse(x) = "AG"
    BY <1>2, <1>4, <1>6, <1>7, <1>10 DEF handle_read_after_handshake_for_connect_request
  <1> QED BY <1>8, <1>9, <1>10

LEMMA ChunkFacts ==
    ASSUME NEW w \in Seq(Token), NEW got \in Chunks(w)
    PROVE  /\ got \in Seq(Token) /\ Rest(w, got) \in Seq(Token)
           /\ \E n \in 1..Len(w) : /\ got = SubSeq(w, 1, n) /\ Len(got) = n
                                   /\ Rest(w, got) = SubSeq(w, n + 1, Len(w))
  <1>1. PICK n \in 1..Len(w) : got = SubSeq(w, 1, n)
    BY DEF Chunks
  <1>2. n \in 0..Len(w)
    BY <1>1
  <1>3. got \in Seq(Token) /\ Len(got) = n /\ SubSeq(w, n + 1, Len(w)) \in Seq(Token)
    BY ONLY <1>1, <1>2, w \in Seq(Token), CutFacts
  <1> QED BY <1>1, <1>3 DEF Rest

\* A step that changes nothing but its session.
LEMMA OwnStep ==
    ASSUME ConfirmedInv, NEW c \in Sessions, NEW t, Set(c, t), Runs(t, confirmed),
           wire' \in [Sessions -> Seq(Token)], UNCHANGED <<cached_credential_, now, confirmed>>
    PROVE  ConfirmedInv'
  BY ConfirmedStep DEF Set, Runs, ConfirmedInv, Types

\* The operation of kind k that a handler of session c takes.
LEMMA HandlerFacts ==
    ASSUME ConfirmedInv, NEW c \in Sessions, NEW k, NEW op \in Outstanding(c, k), NEW s, s = Take(c, op)
    PROVE  /\ op \in Operation /\ op.kind = k /\ s \in Session /\ SameMembers(sess[c], s)
           /\ Between(s, confirmed) /\ s.ops = {} /\ OpConfirmed(s, op, confirmed)
  BY TakeFacts DEF Outstanding, Idle

LEMMA AcceptConfirmed == ASSUME ConfirmedInv, NEW c \in Sessions, do_accept(c) PROVE ConfirmedInv'
  <1>1. PICK x, u, b : x = sess[c] /\ b = TRUE /\ u = [x EXCEPT !.started = b]
    OBVIOUS
  <1>2. x \in Session /\ x.ops = {} /\ SameMembers(NewSession, x)
    BY <1>1 DEF do_accept, ConfirmedInv, SessionConfirmed
  <1>3. /\ u \in Session /\ u.started /\ u.ops = {} /\ u.p_connect_request_ = NoRequest
        /\ u.forwarded = {}
    <2>1. u \in Session
      BY ONLY <1>1, <1>2 DEF Session
    <2>2. /\ u.started = b /\ u.ops = x.ops /\ u.forwarded = x.forwarded
          /\ u.p_connect_request_ = x.p_connect_request_
      BY ONLY <1>1, <1>2 DEF Session
    <2> QED BY <1>1, <1>2, <2>1, <2>2 DEF NewSession, SameMembers
  <1>4. Between(u, confirmed)
    BY <1>3 DEF Between
  <1>5. PICK op \in Operation : op = Op("read") /\ op.kind = "read"
    BY OpFacts DEF Kinds
  <1>6. Plain(u, op.kind)
    BY <1>3, <1>5 DEF Plain, Checking, Reaching, Tls, Kinds
  <1>7. Runs(Start(u, op), confirmed)
    BY <1>3, <1>4, <1>6, PlainStarts
  <1>8. Set(c, Start(u, op)) /\ UNCHANGED <<wire, cached_credential_, now, confirmed>>
    BY <1>1, <1>5 DEF do_accept, do_read_http_request, Shared
  <1> QED BY <1>7, <1>8, OwnStep DEF ConfirmedInv, Types

LEMMA FailConfirmed == ASSUME ConfirmedInv, NEW c \in Sessions, Fail(c) PROVE ConfirmedInv'
  <1>1. PICK op \in sess[c].ops : /\ Set(c, Take(c, op))
                                  /\ UNCHANGED <<wire, cached_credential_, now, confirmed>>
    BY DEF Fail, Shared
  <1>2. Runs(Take(c, op), confirmed)
    BY TakeFacts, Stops DEF Idle
  <1> QED BY <1>1, <1>2, OwnStep DEF ConfirmedInv, Types

\* Cache::get keeps what was confirmed.
LEMMA CacheKept ==
    ASSUME NEW cache, NEW conf, NEW time, CacheConfirmed(cache, conf, time), NEW user
    PROVE  CacheConfirmed(CacheAfterGet(cache, user), conf, time)
  BY DEF CacheConfirmed, CacheAfterGet

LEMMA CacheReadKept ==
    ASSUME NEW cache, NEW conf, NEW time, CacheConfirmed(cache, conf, time), NEW s, NEW got
    PROVE  CacheConfirmed(CacheAfterRead(s, got, cache), conf, time)
  <1>1. \/ CacheAfterRead(s, got, cache) = cache
        \/ \E user : CacheAfterRead(s, got, cache) = CacheAfterGet(cache, user)
    BY DEF CacheAfterRead
  <1> QED BY <1>1, CacheKept

LEMMA ReadRequestConfirmed ==
    ASSUME ConfirmedInv, NEW c \in Sessions, ReadRequest(c) PROVE ConfirmedInv'
  <1>1. PICK op \in Outstanding(c, "read"), got \in Chunks(wire[c]) :
          /\ Set(c, handle_read_http_request(Take(c, op), got, cached_credential_))
          /\ wire' = [wire EXCEPT ![c] = Rest(@, got)]
          /\ cached_credential_' = CacheAfterRead(Take(c, op), got, cached_credential_)
          /\ UNCHANGED <<now, confirmed>>
    BY DEF ReadRequest
  <1>2. PICK s, t : s = Take(c, op) /\ t = handle_read_http_request(s, got, cached_credential_)
    OBVIOUS
  <1>3. /\ op.kind = "read" /\ Between(s, confirmed) /\ s.ops = {} /\ OpConfirmed(s, op, confirmed)
    BY <1>2, HandlerFacts
  <1>4. s.p_connect_request_ = NoRequest
    BY <1>3 DEF OpConfirmed, Tls
  <1>5. wire[c] \in Seq(Token) /\ wire \in [Sessions -> Seq(Token)]
    BY DEF ConfirmedInv, Types
  <1>6. got \in Seq(Token) /\ Rest(wire[c], got) \in Seq(Token)
    BY <1>5, ChunkFacts
  <1>7. /\ now \in Nat /\ confirmed \subseteq [cred : Cred, at : Nat]
        /\ CacheConfirmed(cached_credential_, confirmed, now)
    BY DEF ConfirmedInv, Types
  <1>8. Runs(t, confirmed)
    BY <1>2, <1>3, <1>4, <1>6, <1>7, ReadConfirmed
  <1>9. CacheConfirmed(cached_credential_', confirmed, now)
    BY <1>1, <1>7, CacheReadKept
  <1>10. wire' \in [Sessions -> Seq(Token)]
    BY <1>1, <1>5, <1>6
  <1> QED BY <1>1, <1>2, <1>7, <1>8, <1>9, <1>10, ConfirmedStep DEF Runs, Set

\* The client gets the answer that was chosen.
LEMMA AnsweredFacts ==
    ASSUME NEW s \in Session, NEW n \in Nat, NEW u, u = [s EXCEPT !.answers = Append(@, n)]
    PROVE  /\ u \in Session /\ SameCore(s, u) /\ SameIn(s, u) /\ SameOut(s, u) /\ SamePosted(s, u)
           /\ u.forwarded = s.forwarded /\ u.answers = Append(s.answers, n)
           /\ u.filtered_response_ = s.filtered_response_
  <1>1. PICK x : x = Append(s.answers, n)
    OBVIOUS
  <1>2. x \in Seq(Nat)
    BY <1>1 DEF Session
  <1>3. u = [s EXCEPT !.answers = x]
    BY <1>1
  <1>4. /\ u \in Session /\ SameCore(s, u) /\ SameIn(s, u) /\ SameOut(s, u) /\ SamePosted(s, u)
        /\ u.forwarded = s.forwarded /\ u.answers = x /\ u.filtered_response_ = s.filtered_response_
    BY ONLY <1>2, <1>3, s \in Session, AnswersFacts
  <1> QED BY <1>1, <1>4

LEMMA Wrote407Confirmed == ASSUME ConfirmedInv, NEW c \in Sessions, Wrote407(c) PROVE ConfirmedInv'
  <1>1. PICK op \in Outstanding(c, "write407") :
          /\ Set(c, do_read_http_request(
                 [Take(c, op) EXCEPT !.answers = Append(@, sess[c].filtered_response_)]))
          /\ UNCHANGED <<wire, cached_credential_, now, confirmed>>
    BY DEF Wrote407, Shared
  <1>2. PICK s, n, u : /\ s = Take(c, op) /\ n = sess[c].filtered_response_
                       /\ u = [s EXCEPT !.answers = Append(@, n)]
    OBVIOUS
  <1>3. /\ op.kind = "write407" /\ Between(s, confirmed) /\ s.ops = {} /\ OpConfirmed(s, op, confirmed)
        /\ s \in Session /\ SameMembers(sess[c], s)
    BY <1>2, HandlerFacts
  <1>4. n \in Nat
    BY <1>2, <1>3 DEF SameMembers, Session
  <1>5. u \in Session /\ SameCore(s, u) /\ u.forwarded = s.forwarded
    BY <1>2, <1>3, <1>4, AnsweredFacts
  <1>6. Between(u, confirmed) /\ u.ops = {} /\ u.p_connect_request_ = NoRequest
    BY <1>3, <1>5, CoreKeeps DEF SameCore, OpConfirmed, Tls
  <1>7. PICK p \in Operation : p = Op("read") /\ p.kind = "read"
    BY OpFacts DEF Kinds
  <1>8. Plain(u, p.kind)
    BY <1>6, <1>7 DEF Plain, Checking, Reaching, Tls, Kinds
  <1>9. Runs(Start(u, p), confirmed)
    BY <1>6, <1>8, PlainStarts
  <1>10. Set(c, Start(u, p))
    BY <1>1, <1>2, <1>7 DEF do_read_http_request
  <1> QED BY <1>1, <1>9, <1>10, OwnStep DEF ConfirmedInv, Types

Onward(op, k, n) == [op EXCEPT !.kind = k, !.left = n]

\* The client of the verification service goes on with the credentials.
LEMMA VerifierMoves ==
    ASSUME ConfirmedInv, NEW c \in Sessions,
           VerifierResolved(c) \/ VerifierConnected(c) \/ VerifierWritten(c)
    PROVE  \E op \in sess[c].ops, p \in Operation :
             /\ op.kind \in Checking /\ p.kind \in Checking /\ p.cred = op.cred
             /\ Set(c, Start(Take(c, op), p))
             /\ UNCHANGED <<wire, Shared>>
  <1>1. \A op \in sess[c].ops : op \in Operation
    BY TakeFacts DEF Idle
  <1>2. ASSUME NEW op \in Operation, NEW k \in Checking, NEW n \in Nat
        PROVE  /\ Onward(op, k, n) \in Operation
               /\ Onward(op, k, n).kind = k
               /\ Onward(op, k, n).cred = op.cred
               /\ [op EXCEPT !.kind = k] \in Operation
               /\ [op EXCEPT !.kind = k].kind = k /\ [op EXCEPT !.kind = k].cred = op.cred
               /\ [op EXCEPT !.left = n] \in Operation
               /\ [op EXCEPT !.left = n].kind = op.kind /\ [op EXCEPT !.left = n].cred = op.cred
    BY DEF Operation, Kinds, Onward
  <1>3. CASE VerifierResolved(c)
    <2>1. PICK op \in Outstanding(c, "v_resolve"), n \in 1..MaxAddrs :
            /\ Set(c, Start(Take(c, op), [op EXCEPT !.kind = "v_connect", !.left = n - 1]))
            /\ UNCHANGED <<wire, Shared>>
      BY <1>3 DEF VerifierResolved
    <2>2. n - 1 \in Nat /\ "v_connect" \in Checking /\ op.kind = "v_resolve" /\ op \in sess[c].ops
      BY <2>1, BoundsAssumption DEF Outstanding, Checking
    <2>3. PICK p : p = Onward(op, "v_connect", n - 1)
      OBVIOUS
    <2>4. p \in Operation /\ p.kind = "v_connect" /\ p.cred = op.cred
      <3>1. op \in Operation /\ "v_connect" \in Checking /\ n - 1 \in Nat
        BY <1>1, <2>2
      <3> QED BY ONLY <1>2, <2>3, <3>1
    <2>5. Set(c, Start(Take(c, op), p))
      BY <2>1, <2>3 DEF Onward
    <2> QED BY <1>1, <2>1, <2>2, <2>4, <2>5 DEF Checking
  <1>4. CASE VerifierConnected(c)
    <2>1. PICK op \in Outstanding(c, "v_connect") :
            /\ \/ Set(c, Start(Take(c, op), [op EXCEPT !.kind = "v_write", !.left = 0]))
               \/ /\ op.left > 0
                  /\ Set(c, Start(Take(c, op), [op EXCEPT !.left = @ - 1]))
            /\ UNCHANGED <<wire, Shared>>
      BY <1>4 DEF VerifierConnected
    <2>2. "v_write" \in Checking /\ op.kind = "v_connect" /\ op \in sess[c].ops /\ op.left \in Nat
      BY <1>1, <2>1 DEF Outstanding, Checking, Operation
    <2>3. CASE Set(c, Start(Take(c, op), [op EXCEPT !.kind = "v_write", !.left = 0]))
      <3>1. PICK p : p = Onward(op, "v_write", 0)
        OBVIOUS
      <3>2. p \in Operation /\ p.kind = "v_write" /\ p.cred = op.cred
        <4>1. op \in Operation /\ "v_write" \in Checking /\ 0 \in Nat
          BY <1>1, <2>2
        <4> QED BY ONLY <1>2, <3>1, <4>1
      <3>3. Set(c, Start(Take(c, op), p))
        BY <2>3, <3>1 DEF Onward
      <3> QED BY <1>1, <2>1, <2>2, <3>2, <3>3 DEF Checking
    <2>4. CASE op.left > 0 /\ Set(c, Start(Take(c, op), [op EXCEPT !.left = @ - 1]))
      <3>1. PICK n, p : n = op.left - 1 /\ p = [op EXCEPT !.left = n]
        OBVIOUS
      <3>2. n \in Nat
        BY <2>2, <2>4, <3>1
      <3>3. p \in Operation /\ p.kind = op.kind /\ p.cred = op.cred
        BY <1>1, <1>2, <2>2, <3>1, <3>2
      <3>4. Set(c, Start(Take(c, op), p))
        BY <2>4, <3>1
      <3> QED BY <1>1, <2>1, <2>2, <3>3, <3>4 DEF Checking
    <2> QED BY <2>1, <2>3, <2>4
  <1>5. CASE VerifierWritten(c)
    <2>1. PICK op \in Outstanding(c, "v_write") :
            /\ Set(c, Start(Take(c, op), [op EXCEPT !.kind = "v_read"]))
            /\ UNCHANGED <<wire, Shared>>
      BY <1>5 DEF VerifierWritten
    <2>2. "v_read" \in Checking /\ op.kind = "v_write" /\ op \in sess[c].ops
      BY <2>1 DEF Outstanding, Checking
    <2>3. PICK p : p = [op EXCEPT !.kind = "v_read"]
      OBVIOUS
    <2>4. p \in Operation /\ p.kind = "v_read" /\ p.cred = op.cred
      BY <1>1, <1>2, <2>2, <2>3
    <2>5. Set(c, Start(Take(c, op), p))
      BY <2>1, <2>3
    <2> QED BY <1>1, <2>1, <2>2, <2>4, <2>5 DEF Checking
  <1> QED BY <1>3, <1>4, <1>5

LEMMA VerifierConfirmed ==
    ASSUME ConfirmedInv, NEW c \in Sessions,
           VerifierResolved(c) \/ VerifierConnected(c) \/ VerifierWritten(c)
    PROVE  ConfirmedInv'
  <1>1. PICK op \in sess[c].ops, p \in Operation :
             /\ op.kind \in Checking /\ p.kind \in Checking /\ p.cred = op.cred
             /\ Set(c, Start(Take(c, op), p))
             /\ UNCHANGED <<wire, cached_credential_, now, confirmed>>
    BY VerifierMoves DEF Shared
  <1>2. PICK s : s = Take(c, op)
    OBVIOUS
  <1>3. Between(s, confirmed) /\ s.ops = {} /\ OpConfirmed(s, op, confirmed)
    BY <1>1, <1>2, TakeFacts DEF Idle
  <1>4. OpConfirmed(s, p, confirmed)
    BY <1>1, <1>3 DEF OpConfirmed, Checking, Reaching, Tls
  <1>5. Runs(Start(s, p), confirmed)
    BY <1>3, <1>4, Starts
  <1> QED BY <1>1, <1>2, <1>5, OwnStep DEF ConfirmedInv, Types

LEMMA VerifiedConfirmed == ASSUME ConfirmedInv, NEW c \in Sessions, Verified(c) PROVE ConfirmedInv'
  <1>1. PICK op \in Outstanding(c, "v_read") :
          /\ \/ /\ cached_credential_' =
                     CacheSet(cached_credential_, op.cred.user, op.cred.pass)
                /\ confirmed' = confirmed \cup {[cred |-> op.cred, at |-> now]}
                /\ Set(c, do_after_auth(Take(c, op)))
             \/ /\ Set(c, do_write_407_unauthorized(Take(c, op)))
                /\ UNCHANGED <<cached_credential_, confirmed>>
          /\ UNCHANGED <<wire, now>>
    BY DEF Verified
  <1>2. PICK s : s = Take(c, op)
    OBVIOUS
  <1>3. /\ op.kind = "v_read" /\ op \in Operation /\ Between(s, confirmed) /\ s.ops = {}
        /\ OpConfirmed(s, op, confirmed) /\ s \in Session
    BY <1>2, HandlerFacts
  <1>4. s.p_connect_request_ = NoRequest /\ op.cred = s.p_request_.cred /\ op.cred \in Cred
    BY <1>3 DEF OpConfirmed, Tls, Checking, Operation
  <1>5. /\ now \in Nat /\ confirmed \subseteq [cred : Cred, at : Nat] /\ Expire \in Nat
        /\ wire \in [Sessions -> Seq(Token)]
        /\ CacheConfirmed(cached_credential_, confirmed, now)
    BY BoundsAssumption DEF ConfirmedInv, Types
  <1>6. CASE /\ cached_credential_' = CacheSet(cached_credential_, op.cred.user, op.cred.pass)
             /\ confirmed' = confirmed \cup {[cred |-> op.cred, at |-> now]}
             /\ Set(c, do_after_auth(Take(c, op)))
    <2>1. PICK k : k = [cred |-> op.cred, at |-> now]
      OBVIOUS
    <2>2. /\ confirmed' = confirmed \cup {k} /\ k.cred = op.cred /\ k.at = now
          /\ k \in [cred : Cred, at : Nat]
      BY <1>4, <1>5, <1>6, <2>1
    <2>3. confirmed' \subseteq [cred : Cred, at : Nat] /\ confirmed \subseteq confirmed'
      BY <1>5, <2>2
    <2>4. Fresh(s.p_request_.cred, confirmed')
      BY <1>4, <1>5, <2>2 DEF Fresh
    <2>5. Between(s, confirmed')
      BY <1>3, <2>3, KeepsBetween DEF Keeps
    <2>6. Runs(do_after_auth(s), confirmed')
      BY <1>3, <1>4, <1>5, <2>4, <2>5, AfterAuthConfirmed
    <2>7. CacheConfirmed(cached_credential_', confirmed', now)
      <3>1. PICK d, user, pass : d = cached_credential_' /\ user = op.cred.user /\ pass = op.cred.pass
        OBVIOUS
      <3>2. d = [u \in DOMAIN cached_credential_ \cup {user} |->
                   IF u = user THEN [pass |-> pass, expire |-> now + Expire] ELSE cached_credential_[u]]
        BY <1>6, <3>1 DEF CacheSet
      <3>3. SUFFICES ASSUME NEW u \in DOMAIN d
                     PROVE  \E j \in confirmed' : /\ j.cred.user = u /\ j.cred.pass = d[u].pass
                                                  /\ d[u].expire = j.at + Expire /\ j.at =< now
        BY <3>1 DEF CacheConfirmed
      <3>4. CASE u = user
        <4>1. d[u].pass = pass /\ d[u].expire = now + Expire
          BY <3>2, <3>3, <3>4
        <4>2. k \in confirmed' /\ k.cred.user = u /\ k.cred.pass = pass /\ k.at =< now
          BY <1>5, <2>2, <3>1, <3>4
        <4> QED BY <2>2, <4>1, <4>2
      <3>5. CASE u # user
        <4>1. d[u] = cached_credential_[u] /\ u \in DOMAIN cached_credential_
          BY <3>2, <3>3, <3>5
        <4> QED BY <1>5, <2>3, <4>1 DEF CacheConfirmed
      <3> QED BY <3>4, <3>5
    <2>8. Set(c, do_after_auth(s))
      BY <1>2, <1>6
    <2> QED BY <1>1, <1>5, <2>3, <2>6, <2>7, <2>8, ConfirmedStep DEF Runs, Set
  <1>7. CASE Set(c, do_write_407_unauthorized(Take(c, op))) /\ UNCHANGED <<cached_credential_, confirmed>>
    <2>1. Runs(do_write_407_unauthorized(s), confirmed)
      BY <1>3, <1>4, RefusedConfirmed
    <2> QED BY <1>1, <1>2, <1>5, <1>7, <2>1, OwnStep
  <1> QED BY <1>1, <1>6, <1>7

\* The process dies with all of its sessions.
LEMMA VerifierFailsConfirmed ==
    ASSUME ConfirmedInv, NEW c \in Sessions, VerifierFails(c) PROVE ConfirmedInv'
  <1>1. /\ sess' = [x \in Sessions |-> [sess[x] EXCEPT !.ops = {}]]
        /\ UNCHANGED <<wire, cached_credential_, now, confirmed>>
    BY DEF VerifierFails
  <1>2. ASSUME NEW d \in Sessions
        PROVE  sess'[d] \in Session /\ SessionConfirmed(sess'[d], confirmed)
    <2>1. PICK x, e, y : x = sess[d] /\ e = {} /\ y = [x EXCEPT !.ops = e]
      OBVIOUS
    <2>2. SessionConfirmed(x, confirmed) /\ x \in Session /\ sess'[d] = y
      BY <1>1, <2>1 DEF ConfirmedInv, SessionConfirmed
    <2>3. e \in SUBSET Operation
      BY <2>1
    <2>4. y \in Session
      BY ONLY <2>1, <2>2, <2>3 DEF Session
    <2>5. y.ops = {} /\ SameMembers(x, y)
      BY ONLY <2>1, <2>2 DEF Session, SameMembers
    <2>6. CASE x.started
      <3>1. Between(y, confirmed)
        BY <2>2, <2>4, <2>5, <2>6, KeepsBetween DEF SessionConfirmed, Keeps, SameMembers
      <3> QED BY <2>2, <2>4, <2>5, <3>1 DEF SessionConfirmed, Between
    <2>7. CASE ~ x.started
      <3>1. SameMembers(NewSession, x) /\ ~ y.started
        BY <2>2, <2>5, <2>7 DEF SessionConfirmed, SameMembers
      <3>2. SameMembers(NewSession, y)
        BY <2>5, <3>1 DEF SameMembers
      <3> QED BY <2>2, <2>4, <2>5, <3>1, <3>2 DEF SessionConfirmed
    <2> QED BY <2>2, <2>4, <2>6, <2>7
  <1>3. sess' \in [Sessions -> Session]
    BY <1>1, <1>2
  <1> QED BY <1>1, <1>2, <1>3 DEF ConfirmedInv, Types

\* A handler that starts one of these operations.
LEMMA PlainMove ==
    ASSUME NEW conf, NEW s, Between(s, conf), s.ops = {}, NEW u \in Session, SameCore(s, u),
           u.forwarded = s.forwarded, NEW k, Plain(s, k), NEW n \in Nat, NEW t,
           t = Start(u, Op(k)) \/ t = Start(u, OpLeft(k, n))
    PROVE  Runs(t, conf)
  <1>1. k \in Kinds
    BY DEF Plain
  <1>2. /\ Op(k) \in Operation /\ Op(k).kind = k
        /\ OpLeft(k, n) \in Operation /\ OpLeft(k, n).kind = k
    BY <1>1, OpFacts
  <1>3. Between(u, conf) /\ u.ops = {} /\ Plain(u, k)
    BY CoreKeeps DEF SameCore, Plain
  <1> QED BY <1>2, <1>3, PlainStarts

LEMMA SelfCore == ASSUME NEW s PROVE SameCore(s, s) /\ s.forwarded = s.forwarded
  BY DEF SameCore

LEMMA EmptyUpFacts ==
    ASSUME NEW s \in Session, NEW u, u = [s EXCEPT !.up = <<>>]
    PROVE  /\ u \in Session /\ SameCore(s, u) /\ SameIn(s, u) /\ SameSent(s, u) /\ SamePosted(s, u)
           /\ u.forwarded = s.forwarded /\ u.up = <<>> /\ u.packet2_in_ = s.packet2_in_
  <1>1. PICK e : e = <<>>
    OBVIOUS
  <1>2. e \in Seq(Token) /\ u = [s EXCEPT !.up = e]
    BY <1>1
  <1>3. /\ u \in Session /\ SameCore(s, u) /\ SameIn(s, u) /\ SameSent(s, u) /\ SamePosted(s, u)
        /\ u.forwarded = s.forwarded /\ u.up = e /\ u.packet2_in_ = s.packet2_in_
    BY ONLY <1>2, s \in Session, UpFacts
  <1> QED BY <1>1, <1>3

\* An address of the origin is tried.
LEMMA TriesDirect ==
    ASSUME NEW conf, NEW s, Between(s, conf), s.ops = {}, s.p_connect_request_ = NoRequest,
           ConfirmedFor(s, s.p_request_, conf), NEW n \in Nat, n > 0,
           NEW t, t = handle_resolve_for_direct_request(s, n)
    PROVE  Runs(t, conf)
  <1>1. s \in Session /\ n - 1 \in Nat /\ "connect" \in Kinds
    BY DEF Between, Kinds, Reaching
  <1>2. PICK u, op : u = [s EXCEPT !.up = <<>>] /\ op = OpLeft("connect", n - 1)
    OBVIOUS
  <1>3. op \in Operation /\ op.kind = "connect"
    BY <1>1, <1>2, OpFacts
  <1>4. u \in Session /\ SameCore(s, u) /\ SameIn(s, u) /\ u.forwarded = s.forwarded
    BY <1>1, <1>2, EmptyUpFacts
  <1>5. Between(u, conf) /\ u.ops = {}
    BY <1>4, CoreKeeps DEF SameCore
  <1>6. ConfirmedFor(u, u.p_request_, conf)
    BY <1>4, ConfirmedStays DEF SameCore, SameIn
  <1>7. OpConfirmed(u, op, conf)
    BY <1>3, <1>4, <1>6 DEF OpConfirmed, SameCore, Checking, Reaching, Tls
  <1>8. t = Start(u, op)
    BY <1>2 DEF handle_resolve_for_direct_request
  <1> QED BY <1>3, <1>5, <1>7, <1>8, Starts

LEMMA TriesConnect ==
    ASSUME NEW conf, NEW s, Between(s, conf), s.ops = {}, s.p_connect_request_.method = "connect",
           NEW n \in Nat, n > 0, NEW t, t = handle_resolve_for_connect_request(s, n)
    PROVE  Runs(t, conf)
  <1>1. s \in Session /\ n - 1 \in Nat /\ Plain(s, "connect_connect")
    BY DEF Between, Plain, Kinds, Tls, Checking, Reaching
  <1>2. PICK u : u = [s EXCEPT !.up = <<>>]
    OBVIOUS
  <1>3. u \in Session /\ SameCore(s, u) /\ u.forwarded = s.forwarded
    BY <1>1, <1>2, EmptyUpFacts
  <1>4. t = Start(u, OpLeft("connect_connect", n - 1))
    BY <1>2 DEF handle_resolve_for_connect_request
  <1> QED BY <1>1, <1>3, <1>4, PlainMove

LEMMA ReplyFacts ==
    ASSUME NEW r \in Request, NEW how \in Upstream, NEW q, q = ReplyTokens(r, how)
    PROVE  /\ q \in Seq(Token)
           /\ how # "interim" => Len(q) =< 2 /\ \A i \in 1..Len(q) : q[i].msg = r
  <1>1. how \in {"whole", "bad", "interim"}
    BY BoundsAssumption
  <1>2. CASE how = "whole"
    <2>1. q = Tokens(r)
      BY <1>2 DEF ReplyTokens
    <2> QED BY <2>1 DEF Tokens, Token
  <1>3. CASE how = "bad"
    <2>1. q = <<[msg |-> r, part |-> 3]>>
      BY <1>3 DEF ReplyTokens
    <2>2. [msg |-> r, part |-> 3] \in Token
      BY DEF Token
    <2> QED BY <2>1, <2>2
  <1>4. CASE how = "interim"
    <2>1. PICK r0, a, b : r0 = [r EXCEPT !.id = 0] /\ a = Tokens(r0) /\ b = Tokens(r)
      OBVIOUS
    <2>2. r0 \in Request
      BY <2>1 DEF Request
    <2>3. a \in Seq(Token) /\ b \in Seq(Token)
      BY <2>1, <2>2, TokensFacts
    <2>4. q = a \o b
      BY <1>4, <2>1 DEF ReplyTokens
    <2> QED BY ONLY <1>4, <2>3, <2>4
  <1> QED BY <1>1, <1>2, <1>3, <1>4

LEMMA RepliedFacts ==
    ASSUME NEW s \in Session, NEW q \in Seq(Token), NEW u, u = [s EXCEPT !.up = @ \o q]
    PROVE  /\ u \in Session /\ SameCore(s, u) /\ SameIn(s, u) /\ SameSent(s, u) /\ SamePosted(s, u)
           /\ u.forwarded = s.forwarded /\ u.up = s.up \o q /\ u.packet2_in_ = s.packet2_in_
  <1>1. PICK x, y : y = s.up /\ x = y \o q
    OBVIOUS
  <1>2. y \in Seq(Token)
    BY <1>1 DEF Session
  <1>3. x \in Seq(Token)
    BY ONLY <1>1, <1>2, q \in Seq(Token)
  <1>4. u = [s EXCEPT !.up = x]
    BY <1>1
  <1>5. /\ u \in Session /\ SameCore(s, u) /\ SameIn(s, u) /\ SameSent(s, u) /\ SamePosted(s, u)
        /\ u.forwarded = s.forwarded /\ u.up = x /\ u.packet2_in_ = s.packet2_in_
    BY ONLY <1>3, <1>4, s \in Session, UpFacts
  <1> QED BY <1>1, <1>5

\* The handlers of a request in the clear.
LEMMA DirectConfirmed ==
    ASSUME ConfirmedInv, NEW c \in Sessions,
           \/ ResolvedDirect(c) \/ handle_connect_for_direct_request(c)
           \/ handle_write_for_direct_request(c) \/ handle_read_for_direct_request(c)
    PROVE  ConfirmedInv'
  <1> USE DEF Tls, Checking, Reaching
  <1>1. PICK t : Set(c, t) /\ Runs(t, confirmed) /\ UNCHANGED <<wire, Shared>>
    <2>1. CASE ResolvedDirect(c)
      <3>1. PICK op \in Outstanding(c, "resolve"), n \in 1..MaxAddrs :
              /\ Set(c, handle_resolve_for_direct_request(Take(c, op), n))
              /\ UNCHANGED <<wire, Shared>>
        BY <2>1 DEF ResolvedDirect
      <3>2. PICK s : s = Take(c, op)
        OBVIOUS
      <3>3. op.kind = "resolve" /\ Between(s, confirmed) /\ s.ops = {} /\ OpConfirmed(s, op, confirmed)
        BY <3>2, HandlerFacts
      <3>4. s.p_connect_request_ = NoRequest /\ ConfirmedFor(s, s.p_request_, confirmed)
        BY <3>3 DEF OpConfirmed
      <3>5. n \in Nat /\ n > 0
        BY <3>1, BoundsAssumption
      <3>6. Runs(handle_resolve_for_direct_request(s, n), confirmed)
        BY <3>3, <3>4, <3>5, TriesDirect
      <3> QED BY <3>1, <3>2, <3>6
    <2>2. CASE handle_connect_for_direct_request(c)
      <3>1. PICK op \in Outstanding(c, "connect") :
              /\ \/ Set(c, Forward(Take(c, op), sess[c].p_request_.host, "write2"))
                 \/ op.left > 0 /\ Set(c, handle_resolve_for_direct_request(Take(c, op), op.left))
                 \/ Set(c, Take(c, op))
              /\ UNCHANGED <<wire, Shared>>
        BY <2>2 DEF handle_connect_for_direct_request
      <3>2. PICK s, host : s = Take(c, op) /\ host = sess[c].p_request_.host
        OBVIOUS
      <3>3. /\ op.kind = "connect" /\ Between(s, confirmed) /\ s.ops = {}
            /\ OpConfirmed(s, op, confirmed) /\ s \in Session /\ SameMembers(sess[c], s)
            /\ op \in Operation
        BY <3>2, HandlerFacts
      <3>4. s.p_connect_request_ = NoRequest /\ ConfirmedFor(s, s.p_request_, confirmed)
        BY <3>3 DEF OpConfirmed
      <3>5. host \in Names /\ op.left \in Nat /\ Plain(s, "write2")
        <4>1. s.p_request_ \in Request /\ s.p_request_ = sess[c].p_request_
          BY <3>3 DEF SameMembers, Session
        <4> QED BY <3>2, <3>3, <3>4, <4>1 DEF Request, Operation, Plain, Kinds
      <3>6. Runs(Forward(s, host, "write2"), confirmed)
        BY <3>3, <3>4, <3>5, ForwardConfirmed
      <3>7. op.left > 0 => Runs(handle_resolve_for_direct_request(s, op.left), confirmed)
        BY <3>3, <3>4, <3>5, TriesDirect
      <3>8. Runs(s, confirmed)
        BY <3>3, Stops
      <3> QED BY <3>1, <3>2, <3>6, <3>7, <3>8
    <2>3. CASE handle_write_for_direct_request(c)
      <3>1. PICK op \in Outstanding(c, "write2"), how \in Upstream :
              /\ Set(c, Start([Take(c, op) EXCEPT !.up = @ \o ReplyTokens(sess[c].p_request_, how)],
                              Op("read2")))
              /\ UNCHANGED <<wire, Shared>>
        BY <2>3 DEF handle_write_for_direct_request
      <3>2. PICK s, q, u : /\ s = Take(c, op) /\ q = ReplyTokens(sess[c].p_request_, how)
                           /\ u = [s EXCEPT !.up = @ \o q]
        OBVIOUS
      <3>3. /\ op.kind = "write2" /\ Between(s, confirmed) /\ s.ops = {}
            /\ OpConfirmed(s, op, confirmed) /\ s \in Session /\ SameMembers(sess[c], s)
        BY <3>2, HandlerFacts
      <3>4. sess[c].p_request_ \in Request
        BY <3>3 DEF SameMembers, Session
      <3>5. q \in Seq(Token)
        BY <3>2, <3>4, ReplyFacts
      <3>6. u \in Session /\ SameCore(s, u) /\ u.forwarded = s.forwarded
        BY <3>2, <3>3, <3>5, RepliedFacts, ZenonT(40)
      <3>7. Plain(s, "read2")
        BY <3>3 DEF OpConfirmed, Plain, Kinds
      <3>8. Runs(Start(u, Op("read2")), confirmed)
        BY <3>3, <3>6, <3>7, PlainMove
      <3> QED BY <3>1, <3>2, <3>8
    <2>4. CASE handle_read_for_direct_request(c)
      <3>1. PICK op \in Outstanding(c, "read2"), got \in Chunks(sess[c].up) :
              /\ Set(c, Respond(Take(c, op), got, "read2", "reply"))
              /\ UNCHANGED <<wire, Shared>>
        BY <2>4 DEF handle_read_for_direct_request
      <3>2. PICK s : s = Take(c, op)
        OBVIOUS
      <3>3. /\ op.kind = "read2" /\ Between(s, confirmed) /\ s.ops = {}
            /\ OpConfirmed(s, op, confirmed) /\ s \in Session /\ SameMembers(sess[c], s)
        BY <3>2, HandlerFacts
      <3>4. s.up \in Seq(Token) /\ got \in Chunks(s.up)
        BY <3>1, <3>3 DEF SameMembers, Session
      <3>5. PICK n \in 1..Len(s.up) : got = SubSeq(s.up, 1, n)
        BY <3>4, ChunkFacts
      <3>6. Plain(s, "read2") /\ Plain(s, "reply")
        BY <3>3 DEF OpConfirmed, Plain, Kinds
      <3>7. Runs(Respond(s, got, "read2", "reply"), confirmed)
        BY <3>3, <3>5, <3>6, RespondConfirmed
      <3> QED BY <3>1, <3>2, <3>7
    <2> QED BY <2>1, <2>2, <2>3, <2>4
  <1> QED BY <1>1, OwnStep DEF ConfirmedInv, Types, Shared

\* After a response the next request may be in the buffer already.
LEMMA ResponseConfirmed ==
    ASSUME ConfirmedInv, NEW c \in Sessions, handle_response_for_direct_request(c)
    PROVE  ConfirmedInv'
  <1>1. PICK op \in Outstanding(c, "reply") : \E u :
          /\ u = Answered(Take(c, op))
          /\ \/ /\ Set(c, handle_read_http_request(u, <<>>, cached_credential_))
                /\ cached_credential_' = CacheAfterRead(u, <<>>, cached_credential_)
             \/ /\ Set(c, do_read_http_request(u))
                /\ UNCHANGED cached_credential_
          /\ UNCHANGED <<wire, now, confirmed>>
    BY DEF handle_response_for_direct_request
  <1>2. PICK s, n, u : /\ s = Take(c, op) /\ n = s.filtered_response_ /\ u = Answered(Take(c, op))
                       /\ \/ /\ Set(c, handle_read_http_request(u, <<>>, cached_credential_))
                             /\ cached_credential_' = CacheAfterRead(u, <<>>, cached_credential_)
                          \/ Set(c, do_read_http_request(u)) /\ UNCHANGED cached_credential_
                       /\ UNCHANGED <<wire, now, confirmed>>
    BY <1>1
  <1>3. /\ op.kind = "reply" /\ Between(s, confirmed) /\ s.ops = {}
        /\ OpConfirmed(s, op, confirmed) /\ s \in Session
    BY <1>2, HandlerFacts
  <1>4. n \in Nat /\ u = [s EXCEPT !.answers = Append(@, n)]
    BY <1>2, <1>3 DEF Session, Answered
  <1>5. u \in Session /\ SameCore(s, u) /\ u.forwarded = s.forwarded
    BY <1>3, <1>4, AnsweredFacts
  <1>6. Between(u, confirmed) /\ u.ops = {} /\ u.p_connect_request_ = NoRequest
    BY <1>3, <1>5, CoreKeeps DEF SameCore, OpConfirmed, Tls
  <1>7. /\ now \in Nat /\ confirmed \subseteq [cred : Cred, at : Nat]
        /\ CacheConfirmed(cached_credential_, confirmed, now) /\ wire \in [Sessions -> Seq(Token)]
    BY DEF ConfirmedInv, Types
  <1>8. CASE /\ Set(c, handle_read_http_request(u, <<>>, cached_credential_))
             /\ cached_credential_' = CacheAfterRead(u, <<>>, cached_credential_)
    <2>1. PICK e \in Seq(Token) : e = <<>>
      <3>1. <<>> \in Seq(Token)
        OBVIOUS
      <3> QED BY <3>1, Zenon
    <2>2. PICK t : t = handle_read_http_request(u, e, cached_credential_)
      OBVIOUS
    <2>3. Runs(t, confirmed)
      BY <1>6, <1>7, <2>2, ReadConfirmed
    <2>4. CacheConfirmed(cached_credential_', confirmed, now)
      BY <1>7, <1>8, CacheReadKept
    <2> QED BY <1>2, <1>7, <1>8, <2>1, <2>2, <2>3, <2>4, ConfirmedStep DEF Runs, Set
  <1>9. CASE Set(c, do_read_http_request(u)) /\ UNCHANGED cached_credential_
    <2>1. Plain(u, "read")
      BY <1>6 DEF Plain, Kinds, Tls, Checking, Reaching
    <2>2. Runs(Start(u, Op("read")), confirmed)
      BY <1>5, <1>6, <2>1, SelfCore, PlainMove
    <2> QED BY <1>2, <1>7, <1>9, <2>2, OwnStep DEF do_read_http_request
  <1> QED BY <1>2, <1>8, <1>9

\* The handlers after CONNECT.
LEMMA ConnectConfirmed ==
    ASSUME ConfirmedInv, NEW c \in Sessions,
           \/ ResolvedConnect(c) \/ handle_connect_for_connect_request(c)
           \/ HandshakeDone(c) \/ handle_ssl_proxy_request_for_connect_request(c)
           \/ handle_ssl_read_for_connect_request(c) \/ handle_ssl_response_for_connect_request(c)
    PROVE  ConfirmedInv'
  <1>1. ASSUME NEW k \in Tls, NEW op \in Outstanding(c, k), NEW s, s = Take(c, op)
        PROVE  /\ op.kind = k /\ op \in Operation /\ Between(s, confirmed) /\ s.ops = {} /\ s \in Session
               /\ s.p_connect_request_.method = "connect" /\ SameMembers(sess[c], s)
               /\ \A x \in Tls : Plain(s, x)
    <2>1. /\ op.kind = k /\ op \in Operation /\ Between(s, confirmed) /\ s.ops = {} /\ s \in Session
          /\ OpConfirmed(s, op, confirmed) /\ SameMembers(sess[c], s)
      BY <1>1, HandlerFacts
    <2>2. s.p_connect_request_.method = "connect"
      BY <1>1, <2>1 DEF OpConfirmed
    <2> QED BY <2>1, <2>2 DEF Plain, Kinds, Tls, Checking, Reaching
  <1>2. PICK t : Set(c, t) /\ Runs(t, confirmed) /\ UNCHANGED <<wire, Shared>>
    <2>1. CASE ResolvedConnect(c)
      <3>1. PICK op \in Outstanding(c, "resolve_connect"), n \in 1..MaxAddrs :
              /\ Set(c, handle_resolve_for_connect_request(Take(c, op), n))
              /\ UNCHANGED <<wire, Shared>>
        BY <2>1 DEF ResolvedConnect
      <3>2. PICK s : s = Take(c, op)
        OBVIOUS
      <3>3. "resolve_connect" \in Tls /\ n \in Nat /\ n > 0
        BY <3>1, BoundsAssumption DEF Tls
      <3>4. Runs(handle_resolve_for_connect_request(s, n), confirmed)
        BY <1>1, <3>2, <3>3, TriesConnect
      <3> QED BY <3>1, <3>2, <3>4
    <2>2. CASE handle_connect_for_connect_request(c)
      <3>1. PICK op \in Outstanding(c, "connect_connect") :
              /\ \/ Set(c, Start(Take(c, op), Op("write200")))
                 \/ op.left > 0 /\ Set(c, handle_resolve_for_connect_request(Take(c, op), op.left))
                 \/ Set(c, Take(c, op))
              /\ UNCHANGED <<wire, Shared>>
        BY <2>2 DEF handle_connect_for_connect_request
      <3>2. PICK s : s = Take(c, op)
        OBVIOUS
      <3>3. "connect_connect" \in Tls /\ "write200" \in Tls
        BY DEF Tls
      <3>4. /\ Between(s, confirmed) /\ s.ops = {} /\ s \in Session /\ op.left \in Nat
            /\ s.p_connect_request_.method = "connect" /\ Plain(s, "write200")
        BY <1>1, <3>2, <3>3 DEF Operation
      <3>5. Runs(Start(s, Op("write200")), confirmed)
        BY <3>4, SelfCore, PlainMove
      <3>6. op.left > 0 => Runs(handle_resolve_for_connect_request(s, op.left), confirmed)
        BY <3>4, TriesConnect
      <3>7. Runs(s, confirmed)
        BY <3>4, Stops
      <3> QED BY <3>1, <3>2, <3>5, <3>6, <3>7
    <2>3. CASE HandshakeDone(c)
      <3>1. PICK op \in Outstanding(c, "handshake2") :
              /\ Set(c, Start(Take(c, op), Op("readssl"))) /\ UNCHANGED <<wire, Shared>>
        BY <2>3 DEF HandshakeDone, do_read_after_handshake_for_connect_request
      <3>2. PICK s : s = Take(c, op)
        OBVIOUS
      <3>3. "handshake2" \in Tls /\ "readssl" \in Tls
        BY DEF Tls
      <3>4. Between(s, confirmed) /\ s.ops = {} /\ s \in Session /\ Plain(s, "readssl")
        BY <1>1, <3>2, <3>3
      <3>5. Runs(Start(s, Op("readssl")), confirmed)
        BY <3>4, SelfCore, PlainMove
      <3> QED BY <3>1, <3>2, <3>5
    <2>4. CASE handle_ssl_proxy_request_for_connect_request(c)
      <3>1. PICK op \in Outstanding(c, "write2ssl"), how \in Upstream :
              /\ Set(c, Start([Take(c, op) EXCEPT !.up = @ \o ReplyTokens(sess[c].p_request_, how)],
                              Op("read2ssl")))
              /\ UNCHANGED <<wire, Shared>>
        BY <2>4 DEF handle_ssl_proxy_request_for_connect_request
      <3>2. PICK s, q, u : /\ s = Take(c, op) /\ q = ReplyTokens(sess[c].p_request_, how)
                           /\ u = [s EXCEPT !.up = @ \o q]
        OBVIOUS
      <3>3. "write2ssl" \in Tls /\ "read2ssl" \in Tls
        BY DEF Tls
      <3>4. /\ Between(s, confirmed) /\ s.ops = {} /\ s \in Session /\ Plain(s, "read2ssl")
            /\ SameMembers(sess[c], s)
        BY <1>1, <3>2, <3>3
      <3>5. sess[c].p_request_ \in Request
        BY <3>4 DEF SameMembers, Session
      <3>6. q \in Seq(Token)
        BY <3>2, <3>5, ReplyFacts
      <3>7. u \in Session /\ SameCore(s, u) /\ u.forwarded = s.forwarded
        BY <3>2, <3>4, <3>6, RepliedFacts, ZenonT(40)
      <3>8. Runs(Start(u, Op("read2ssl")), confirmed)
        BY <3>4, <3>7, PlainMove
      <3> QED BY <3>1, <3>2, <3>8
    <2>5. CASE handle_ssl_read_for_connect_request(c)
      <3>1. PICK op \in Outstanding(c, "read2ssl"), got \in Chunks(sess[c].up) :
              /\ Set(c, Respond(Take(c, op), got, "read2ssl", "replyssl"))
              /\ UNCHANGED <<wire, Shared>>
        BY <2>5 DEF handle_ssl_read_for_connect_request
      <3>2. PICK s : s = Take(c, op)
        OBVIOUS
      <3>3. "read2ssl" \in Tls /\ "replyssl" \in Tls
        BY DEF Tls
      <3>4. /\ Between(s, confirmed) /\ s.ops = {} /\ s \in Session /\ Plain(s, "read2ssl")
            /\ Plain(s, "replyssl") /\ SameMembers(sess[c], s)
        BY <1>1, <3>2, <3>3
      <3>5. s.up \in Seq(Token) /\ got \in Chunks(s.up)
        BY <3>1, <3>4 DEF SameMembers, Session
      <3>6. PICK n \in 1..Len(s.up) : got = SubSeq(s.up, 1, n)
        BY <3>5, ChunkFacts
      <3>7. Runs(Respond(s, got, "read2ssl", "replyssl"), confirmed)
        BY <3>4, <3>6, RespondConfirmed
      <3> QED BY <3>1, <3>2, <3>7
    <2>6. CASE handle_ssl_response_for_connect_request(c)
      <3>1. PICK op \in Outstanding(c, "replyssl") :
              /\ Set(c, Start(Answered(Take(c, op)), Op("readssl"))) /\ UNCHANGED <<wire, Shared>>
        BY <2>6 DEF handle_ssl_response_for_connect_request, do_read_after_handshake_for_connect_request
      <3>2. PICK s, n, u : s = Take(c, op) /\ n = s.filtered_response_ /\ u = Answered(s)
        OBVIOUS
      <3>3. "replyssl" \in Tls /\ "readssl" \in Tls
        BY DEF Tls
      <3>4. Between(s, confirmed) /\ s.ops = {} /\ s \in Session /\ Plain(s, "readssl")
        BY <1>1, <3>2, <3>3
      <3>5. n \in Nat /\ u = [s EXCEPT !.answers = Append(@, n)]
        BY <3>2, <3>4 DEF Session, Answered
      <3>6. u \in Session /\ SameCore(s, u) /\ u.forwarded = s.forwarded
        BY <3>4, <3>5, AnsweredFacts
      <3>7. Runs(Start(u, Op("readssl")), confirmed)
        BY <3>4, <3>6, PlainMove
      <3> QED BY <3>1, <3>2, <3>7
    <2> QED BY <2>1, <2>2, <2>3, <2>4, <2>5, <2>6
  <1> QED BY <1>2, OwnStep DEF ConfirmedInv, Types, Shared

\* What is done after the answer to CONNECT: the session ends or shakes hands.
LEMMA EstablishedMoves ==
    ASSUME NEW c \in Sessions, do_read_for_connect_request(c)
    PROVE  \E op \in Outstanding(c, "write200"), sent \in BOOLEAN : \E v :
             /\ v = IF sent
                    THEN [Take(c, op) EXCEPT !.answers = Append(@, sess[c].p_connect_request_.id)]
                    ELSE Take(c, op)
             /\ \/ Set(c, v)
                \/ /\ v.packet_in_ = <<>>
                   /\ Set(c, Start([v EXCEPT !.domain = sess[c].p_connect_request_.host],
                                   OpLeft("handshake", IF sent THEN 1 ELSE 0)))
             /\ UNCHANGED <<wire, cached_credential_, now, crashed, confirmed>>
  <1>1. PICK op \in Outstanding(c, "write200"), sent \in BOOLEAN :
      LET domain == sess[c].p_connect_request_.host
          s == IF sent
               THEN [Take(c, op) EXCEPT !.answers = Append(@, sess[c].p_connect_request_.id)]
               ELSE Take(c, op)
      IN
      /\ \/ s.packet_in_ # <<>> /\ Set(c, s) /\ UNCHANGED <<certs, domain_context_>>
         \/ /\ s.packet_in_ = <<>>
            /\ \E ok \in cert_for_domain(domain) :
                 IF ok
                 THEN /\ certs' = certs \cup {domain}
                      /\ context_for_domain(domain)
                      /\ Set(c, Start([s EXCEPT !.domain = domain],
                                     OpLeft("handshake", IF sent THEN 1 ELSE 0)))
                 ELSE Set(c, s) /\ UNCHANGED <<certs, domain_context_>>
      /\ UNCHANGED <<wire, cached_credential_, now, crashed, confirmed>>
    BY Zenon DEF do_read_for_connect_request
  <1>2. PICK v : v = IF sent
                     THEN [Take(c, op) EXCEPT !.answers = Append(@, sess[c].p_connect_request_.id)]
                     ELSE Take(c, op)
    OBVIOUS
  <1>3. /\ \/ Set(c, v)
           \/ /\ v.packet_in_ = <<>>
              /\ Set(c, Start([v EXCEPT !.domain = sess[c].p_connect_request_.host],
                              OpLeft("handshake", IF sent THEN 1 ELSE 0)))
        /\ UNCHANGED <<wire, cached_credential_, now, crashed, confirmed>>
    BY <1>1, <1>2
  <1> QED BY <1>2, <1>3

LEMMA EstablishedConfirmed ==
    ASSUME ConfirmedInv, NEW c \in Sessions, do_read_for_connect_request(c) PROVE ConfirmedInv'
  <1>0. PICK op \in Outstanding(c, "write200"), sent \in BOOLEAN : \E v :
             /\ v = IF sent
                    THEN [Take(c, op) EXCEPT !.answers = Append(@, sess[c].p_connect_request_.id)]
                    ELSE Take(c, op)
             /\ \/ Set(c, v)
                \/ /\ v.packet_in_ = <<>>
                   /\ Set(c, Start([v EXCEPT !.domain = sess[c].p_connect_request_.host],
                                   OpLeft("handshake", IF sent THEN 1 ELSE 0)))
             /\ UNCHANGED <<wire, cached_credential_, now, confirmed>>
    BY EstablishedMoves
  <1>1. PICK v :
             /\ v = IF sent
                    THEN [Take(c, op) EXCEPT !.answers = Append(@, sess[c].p_connect_request_.id)]
                    ELSE Take(c, op)
             /\ \/ Set(c, v)
                \/ /\ v.packet_in_ = <<>>
                   /\ Set(c, Start([v EXCEPT !.domain = sess[c].p_connect_request_.host],
                                   OpLeft("handshake", IF sent THEN 1 ELSE 0)))
             /\ UNCHANGED <<wire, cached_credential_, now, confirmed>>
    BY <1>0
  <1>2. PICK s, n, host : /\ s = Take(c, op) /\ n = sess[c].p_connect_request_.id
                          /\ host = sess[c].p_connect_request_.host
    OBVIOUS
  <1>3. /\ op.kind = "write200" /\ Between(s, confirmed) /\ s.ops = {}
        /\ OpConfirmed(s, op, confirmed) /\ s \in Session /\ SameMembers(sess[c], s)
    BY <1>2, HandlerFacts
  <1>4. n \in Nat /\ host \in Names
    <2>1. sess[c].p_connect_request_ \in Request
      BY <1>3 DEF SameMembers, Session
    <2> QED BY <1>2, <2>1 DEF Request
  <1>5. v \in Session /\ SameCore(s, v) /\ v.forwarded = s.forwarded
    <2>1. CASE sent
      <3>1. v = [s EXCEPT !.answers = Append(@, n)]
        BY <1>1, <1>2, <2>1
      <3> QED BY <1>3, <1>4, <3>1, AnsweredFacts
    <2>2. CASE ~ sent
      BY <1>1, <1>2, <1>3, <2>2, SelfCore
    <2> QED BY <2>1, <2>2
  <1>6. Between(v, confirmed) /\ v.ops = {} /\ Plain(v, "handshake")
    BY <1>3, <1>5, CoreKeeps DEF SameCore, OpConfirmed, Plain, Kinds, Tls, Checking, Reaching
  <1>7. CASE Set(c, v)
    <2>1. Runs(v, confirmed)
      BY <1>6, Stops
    <2> QED BY <1>1, <1>7, <2>1, OwnStep DEF ConfirmedInv, Types
  <1>8. CASE Set(c, Start([v EXCEPT !.domain = sess[c].p_connect_request_.host],
                          OpLeft("handshake", IF sent THEN 1 ELSE 0)))
    <2>1. PICK u, left : u = [v EXCEPT !.domain = host] /\ left = IF sent THEN 1 ELSE 0
      OBVIOUS
    <2>2. u \in Session /\ SameCore(v, u) /\ u.forwarded = v.forwarded
      BY <1>4, <1>5, <2>1, DomainFacts
    <2>3. Runs(Start(u, OpLeft("handshake", left)), confirmed)
      <3>1. left \in Nat
        BY <2>1
      <3> QED BY <1>6, <2>2, <3>1, PlainMove
    <2> QED BY <1>1, <1>2, <1>8, <2>1, <2>3, OwnStep DEF ConfirmedInv, Types
  <1> QED BY <1>1, <1>7, <1>8

LEMMA HandshakeConfirmed ==
    ASSUME ConfirmedInv, NEW c \in Sessions, handle_handshake_for_connect_request(c)
    PROVE  ConfirmedInv'
  <1>1. PICK op \in Outstanding(c, "handshake") :
          /\ wire[c] # <<>> /\ wire' = [wire EXCEPT ![c] = Tail(@)]
          /\ Set(c, Start(Take(c, op), Op("handshake2"))) /\ UNCHANGED Shared
    BY DEF handle_handshake_for_connect_request
  <1>2. PICK s : s = Take(c, op)
    OBVIOUS
  <1>3. /\ op.kind = "handshake" /\ Between(s, confirmed) /\ s.ops = {}
        /\ OpConfirmed(s, op, confirmed) /\ s \in Session
    BY <1>2, HandlerFacts
  <1>4. Plain(s, "handshake2")
    BY <1>3 DEF OpConfirmed, Plain, Kinds, Tls, Checking, Reaching
  <1>5. Runs(Start(s, Op("handshake2")), confirmed)
    BY <1>3, <1>4, SelfCore, PlainMove
  <1>6. wire' \in [Sessions -> Seq(Token)]
    <2>1. wire \in [Sessions -> Seq(Token)] /\ wire[c] \in Seq(Token)
      BY DEF ConfirmedInv, Types
    <2>2. Tail(wire[c]) \in Seq(Token)
      BY <1>1, <2>1
    <2> QED BY <1>1, <2>1, <2>2
  <1> QED BY <1>1, <1>2, <1>5, <1>6, OwnStep DEF Shared

LEMMA ReadSslConfirmed ==
    ASSUME ConfirmedInv, NEW c \in Sessions, ReadSsl(c) PROVE ConfirmedInv'
  <1>1. PICK op \in Outstanding(c, "readssl"), got \in Chunks(wire[c]) :
          /\ Set(c, handle_read_after_handshake_for_connect_request(Take(c, op), got))
          /\ wire' = [wire EXCEPT ![c] = Rest(@, got)] /\ UNCHANGED Shared
    BY DEF ReadSsl
  <1>2. PICK s : s = Take(c, op)
    OBVIOUS
  <1>3. op.kind = "readssl" /\ Between(s, confirmed) /\ s.ops = {} /\ OpConfirmed(s, op, confirmed)
    BY <1>2, HandlerFacts
  <1>4. s.p_connect_request_.method = "connect"
    BY <1>3 DEF OpConfirmed, Tls
  <1>5. wire[c] \in Seq(Token) /\ wire \in [Sessions -> Seq(Token)]
    BY DEF ConfirmedInv, Types
  <1>6. got \in Seq(Token) /\ Rest(wire[c], got) \in Seq(Token)
    BY <1>5, ChunkFacts
  <1>7. Runs(handle_read_after_handshake_for_connect_request(s, got), confirmed)
    BY <1>3, <1>4, <1>6, SslReadConfirmed
  <1>8. wire' \in [Sessions -> Seq(Token)]
    BY <1>1, <1>5, <1>6
  <1> QED BY <1>1, <1>2, <1>7, <1>8, OwnStep DEF Shared

LEMMA InitConfirmed == Init => ConfirmedInv
  <1> SUFFICES ASSUME Init PROVE ConfirmedInv
    OBVIOUS
  <1>1. PICK f \in [Sessions -> UNION {Scripts[c] : c \in Sessions}] :
          (\A c \in Sessions : f[c] \in Scripts[c]) /\ wire = [c \in Sessions |-> Stream(f[c])]
    BY DEF Init
  <1>2. \A c \in Sessions : Stream(f[c]) \in Seq(Token)
    BY <1>1, StreamFacts
  <1>3. sess = [c \in Sessions |-> NewSession] /\ confirmed = {} /\ now = 0 /\ cached_credential_ = <<>>
    BY DEF Init
  <1>4. Types
    BY <1>1, <1>2, <1>3, NewFacts DEF Types
  <1>5. \A c \in Sessions : SessionConfirmed(sess[c], confirmed)
    BY <1>3, NewFacts
  <1>6. CacheConfirmed(cached_credential_, confirmed, now)
    BY <1>3 DEF CacheConfirmed
  <1> QED BY <1>4, <1>5, <1>6 DEF ConfirmedInv

LEMMA TickConfirmed == ASSUME ConfirmedInv, Tick PROVE ConfirmedInv'
  <1>1. now' = now + 1 /\ UNCHANGED <<sess, wire, cached_credential_, confirmed>> /\ now \in Nat
    BY DEF Tick, ConfirmedInv, Types
  <1>2. CacheConfirmed(cached_credential_, confirmed, now + 1)
    <2>1. \A k \in confirmed : k.at \in Nat
      BY DEF ConfirmedInv, Types
    <2> QED BY <1>1, <2>1 DEF ConfirmedInv, CacheConfirmed
  <1> QED BY <1>1, <1>2 DEF ConfirmedInv, Types

LEMMA NextConfirmed == ConfirmedInv /\ [Next]_vars => ConfirmedInv'
  <1> SUFFICES ASSUME ConfirmedInv, [Next]_vars PROVE ConfirmedInv'
    OBVIOUS
  <1>1. CASE UNCHANGED vars
    BY <1>1 DEF vars, ConfirmedInv, Types
  <1>2. CASE Tick
    BY <1>2, TickConfirmed
  <1>3. ASSUME NEW c \in Sessions,
               \/ do_accept(c) \/ Fail(c) \/ ReadRequest(c) \/ Wrote407(c)
               \/ VerifierResolved(c) \/ VerifierConnected(c) \/ VerifierWritten(c)
               \/ Verified(c) \/ VerifierFails(c)
        PROVE  ConfirmedInv'
    BY <1>3, AcceptConfirmed, FailConfirmed, ReadRequestConfirmed, Wrote407Confirmed,
       VerifierConfirmed, VerifiedConfirmed, VerifierFailsConfirmed
  <1>4. ASSUME NEW c \in Sessions,
               \/ ResolvedDirect(c) \/ handle_connect_for_direct_request(c)
               \/ handle_write_for_direct_request(c) \/ handle_read_for_direct_request(c)
               \/ handle_response_for_direct_request(c)
        PROVE  ConfirmedInv'
    BY <1>4, DirectConfirmed, ResponseConfirmed
  <1>5. ASSUME NEW c \in Sessions,
               \/ ResolvedConnect(c) \/ handle_connect_for_connect_request(c)
               \/ do_read_for_connect_request(c) \/ handle_handshake_for_connect_request(c)
               \/ HandshakeDone(c) \/ ReadSsl(c)
               \/ handle_ssl_proxy_request_for_connect_request(c)
               \/ handle_ssl_read_for_connect_request(c)
               \/ handle_ssl_response_for_connect_request(c)
        PROVE  ConfirmedInv'
    BY <1>5, ConnectConfirmed, EstablishedConfirmed, HandshakeConfirmed, ReadSslConfirmed
  <1> QED BY <1>1, <1>2, <1>3, <1>4, <1>5 DEF Next

LEMMA AlwaysConfirmed == Spec => []ConfirmedInv
  BY InitConfirmed, NextConfirmed, PTL DEF Spec

-----------------------------------------------------------------------------
(* The properties that follow from it                                      *)

\* However handlers follow each other, a session never has two asynchronous
\* operations outstanding (session.cpp: every handler starts at most one).
THEOREM OneAtATime == Spec => []OneOperation
  <1>1. ConfirmedInv => OneOperation
    <2> SUFFICES ASSUME ConfirmedInv, NEW c \in Sessions PROVE Cardinality(sess[c].ops) =< 1
      BY DEF OneOperation
    <2>1. sess[c].ops = {} \/ \E op : sess[c].ops = {op}
      BY DEF ConfirmedInv, SessionConfirmed
    <2> QED BY <2>1, FS_EmptySet, FS_Singleton, SMTT(30)
  <1> QED BY <1>1, AlwaysConfirmed, PTL

\* Nothing reaches an origin on credentials that the verification service
\* did not confirm within Cache::DEFAULT_EXPIRE of their use, with a cache
\* shared by all sessions and whatever order their answers come in.
THEOREM ForwardedIsConfirmed == Spec => []ForwardedWasConfirmed
  <1>1. ConfirmedInv => ForwardedWasConfirmed
    <2> SUFFICES ASSUME ConfirmedInv, NEW c \in Sessions, NEW f \in sess[c].forwarded
        PROVE  ConfirmedFor(sess[c], AnsweredFor(f), confirmed)
      BY DEF ForwardedWasConfirmed, ConfirmedFor, AnsweredFor
    <2>1. SessionConfirmed(sess[c], confirmed)
      BY DEF ConfirmedInv
    <2>2. sess[c].started
      BY <2>1 DEF SessionConfirmed, SameMembers, NewSession
    <2> QED BY <2>1, <2>2 DEF SessionConfirmed, Between
  <1> QED BY <1>1, AlwaysConfirmed, PTL

-----------------------------------------------------------------------------
(* The client's bytes: read, and taken apart                               *)

\* The elements of two sequences one after the other.
LEMMA SameElements ==
    ASSUME NEW p \in Seq(Token), NEW q \in Seq(Token), Len(p) = Len(q),
           \A i \in 1..Len(p) : p[i] = q[i]
    PROVE  p = q
  OBVIOUS

\* Reading moves bytes; it does not change the stream.
LEMMA Regroup ==
    ASSUME NEW p \in Seq(Token), NEW w \in Seq(Token), NEW got \in Chunks(w)
    PROVE  (p \o got) \o Rest(w, got) = p \o w
  <1>1. PICK n \in 1..Len(w) : /\ got = SubSeq(w, 1, n) /\ Len(got) = n
                              /\ Rest(w, got) = SubSeq(w, n + 1, Len(w))
    BY ChunkFacts
  <1>2. PICK r : r = Rest(w, got)
    OBVIOUS
  <1>3. n \in 0..Len(w) /\ n \in Nat /\ Len(w) \in Nat /\ Len(p) \in Nat
    BY <1>1
  <1>4. /\ r \in Seq(Token) /\ Len(r) = Len(w) - n /\ \A i \in 1..(Len(w) - n) : r[i] = w[n + i]
        /\ got \in Seq(Token) /\ \A i \in 1..n : got[i] = w[i]
    <2>1. /\ SubSeq(w, n + 1, Len(w)) \in Seq(Token) /\ Len(SubSeq(w, n + 1, Len(w))) = Len(w) - n
          /\ \A i \in 1..(Len(w) - n) : SubSeq(w, n + 1, Len(w))[i] = w[n + i]
          /\ SubSeq(w, 1, n) \in Seq(Token)
          /\ \A i \in 1..n : SubSeq(w, 1, n)[i] = w[i]
      BY ONLY <1>3, w \in Seq(Token), CutFacts
    <2> QED BY ONLY <1>1, <1>2, <2>1
  <1>5. PICK a, b, z : a = p \o got /\ b = a \o r /\ z = p \o w
    OBVIOUS
  <1>6. /\ a \in Seq(Token) /\ Len(a) = Len(p) + n
        /\ \A i \in 1..Len(p) : a[i] = p[i]
        /\ \A i \in 1..n : a[Len(p) + i] = got[i]
    <2>1. got \in Seq(Token)
      BY <1>4
    <2>2. /\ p \o got \in Seq(Token) /\ Len(p \o got) = Len(p) + Len(got)
          /\ \A i \in 1..Len(p) : (p \o got)[i] = p[i]
          /\ \A i \in 1..Len(got) : (p \o got)[Len(p) + i] = got[i]
      BY ONLY <2>1, p \in Seq(Token), ConcatFacts
    <2> QED BY ONLY <1>1, <1>5, <2>2
  <1>7. /\ b \in Seq(Token) /\ Len(b) = Len(a) + Len(r)
        /\ \A i \in 1..Len(a) : b[i] = a[i]
        /\ \A i \in 1..Len(r) : b[Len(a) + i] = r[i]
    <2>1. a \in Seq(Token) /\ r \in Seq(Token)
      BY <1>4, <1>6
    <2>2. /\ a \o r \in Seq(Token) /\ Len(a \o r) = Len(a) + Len(r)
          /\ \A i \in 1..Len(a) : (a \o r)[i] = a[i]
          /\ \A i \in 1..Len(r) : (a \o r)[Len(a) + i] = r[i]
      BY ONLY <2>1, ConcatFacts
    <2> QED BY ONLY <1>5, <2>2
  <1>8. /\ z \in Seq(Token) /\ Len(z) = Len(p) + Len(w)
        /\ \A i \in 1..Len(p) : z[i] = p[i]
        /\ \A i \in 1..Len(w) : z[Len(p) + i] = w[i]
    <2>1. /\ p \o w \in Seq(Token) /\ Len(p \o w) = Len(p) + Len(w)
          /\ \A i \in 1..Len(p) : (p \o w)[i] = p[i]
          /\ \A i \in 1..Len(w) : (p \o w)[Len(p) + i] = w[i]
      BY ONLY p \in Seq(Token), w \in Seq(Token), ConcatFacts
    <2> QED BY ONLY <1>5, <2>1
  <1>9. Len(b) = Len(z)
    BY ONLY <1>3, <1>4, <1>6, <1>7, <1>8
  <1>10. ASSUME NEW i \in 1..Len(b) PROVE b[i] = z[i]
    <2>1. CASE i =< Len(p)
      <3>1. i \in 1..Len(p) /\ i \in 1..Len(a)
        BY ONLY <1>3, <1>6, <1>10, <2>1
      <3> QED BY ONLY <1>6, <1>7, <1>8, <3>1
    <2>2. CASE i > Len(p) /\ i =< Len(p) + n
      <3>1. PICK j : j = i - Len(p)
        OBVIOUS
      <3>2. j \in 1..n /\ j \in 1..Len(w) /\ i \in 1..Len(a) /\ i = Len(p) + j
        BY ONLY <1>3, <1>6, <1>10, <2>2, <3>1
      <3> QED BY ONLY <1>4, <1>6, <1>7, <1>8, <3>2, SMTT(30)
    <2>3. CASE i > Len(p) + n
      <3>1. PICK j : j = i - (Len(p) + n)
        OBVIOUS
      <3>2. j \in 1..Len(r) /\ j \in 1..(Len(w) - n) /\ n + j \in 1..Len(w)
            /\ i = Len(a) + j /\ i = Len(p) + (n + j)
        BY ONLY <1>3, <1>4, <1>6, <1>7, <1>9, <1>10, <2>3, <3>1
      <3>3. b[Len(a) + j] = r[j]
        BY ONLY <1>7, <3>2
      <3>4. r[j] = w[n + j]
        BY ONLY <1>4, <3>2
      <3>5. PICK m : m = n + j
        OBVIOUS
      <3>6. z[Len(p) + m] = w[m] /\ i = Len(p) + m
        BY ONLY <1>8, <3>2, <3>5
      <3> QED BY ONLY <3>2, <3>3, <3>4, <3>5, <3>6
    <2> QED BY ONLY <1>3, <1>10, <2>1, <2>2, <2>3
  <1>11. b = z
    BY <1>7, <1>8, <1>9, <1>10, SameElements
  <1> QED BY ONLY <1>2, <1>5, <1>11

\* Cutting what came first.
LEMMA CutStream ==
    ASSUME NEW x \in Seq(Token), NEW w \in Seq(Token), NEW n \in 0..Len(x)
    PROVE  SubSeq(x, n + 1, Len(x)) \o w = SubSeq(x \o w, n + 1, Len(x \o w))
  <1>1. PICK y, q, z, v : /\ y = SubSeq(x, n + 1, Len(x)) /\ q = x \o w /\ z = y \o w
                          /\ v = SubSeq(q, n + 1, Len(q))
    OBVIOUS
  <1>2. Len(x) \in Nat /\ Len(w) \in Nat /\ n \in Nat
    OBVIOUS
  <1>3. y \in Seq(Token) /\ Len(y) = Len(x) - n /\ \A i \in 1..(Len(x) - n) : y[i] = x[n + i]
    <2>1. /\ SubSeq(x, n + 1, Len(x)) \in Seq(Token) /\ Len(SubSeq(x, n + 1, Len(x))) = Len(x) - n
          /\ \A i \in 1..(Len(x) - n) : SubSeq(x, n + 1, Len(x))[i] = x[n + i]
      BY ONLY x \in Seq(Token), n \in 0..Len(x), CutFacts
    <2> QED BY ONLY <1>1, <2>1
  <1>4. /\ q \in Seq(Token) /\ Len(q) = Len(x) + Len(w)
        /\ \A i \in 1..Len(x) : q[i] = x[i]
        /\ \A i \in 1..Len(w) : q[Len(x) + i] = w[i]
    <2>1. /\ x \o w \in Seq(Token) /\ Len(x \o w) = Len(x) + Len(w)
          /\ \A i \in 1..Len(x) : (x \o w)[i] = x[i]
          /\ \A i \in 1..Len(w) : (x \o w)[Len(x) + i] = w[i]
      BY ONLY x \in Seq(Token), w \in Seq(Token), ConcatFacts
    <2> QED BY ONLY <1>1, <2>1
  <1>5. /\ z \in Seq(Token) /\ Len(z) = Len(y) + Len(w)
        /\ \A i \in 1..Len(y) : z[i] = y[i]
        /\ \A i \in 1..Len(w) : z[Len(y) + i] = w[i]
    <2>1. y \in Seq(Token)
      BY <1>3
    <2>2. /\ y \o w \in Seq(Token) /\ Len(y \o w) = Len(y) + Len(w)
          /\ \A i \in 1..Len(y) : (y \o w)[i] = y[i]
          /\ \A i \in 1..Len(w) : (y \o w)[Len(y) + i] = w[i]
      BY ONLY <2>1, w \in Seq(Token), ConcatFacts
    <2> QED BY ONLY <1>1, <2>2
  <1>6. v \in Seq(Token) /\ Len(v) = Len(q) - n /\ \A i \in 1..(Len(q) - n) : v[i] = q[n + i]
    <2>1. q \in Seq(Token) /\ n \in 0..Len(q)
      BY <1>2, <1>4
    <2>2. /\ SubSeq(q, n + 1, Len(q)) \in Seq(Token) /\ Len(SubSeq(q, n + 1, Len(q))) = Len(q) - n
          /\ \A i \in 1..(Len(q) - n) : SubSeq(q, n + 1, Len(q))[i] = q[n + i]
      BY ONLY <2>1, CutFacts
    <2> QED BY ONLY <1>1, <2>2
  <1>7. Len(z) = Len(v)
    BY ONLY <1>2, <1>3, <1>4, <1>5, <1>6
  <1>8. ASSUME NEW i \in 1..Len(z) PROVE z[i] = v[i]
    <2>1. i \in 1..(Len(q) - n)
      BY ONLY <1>6, <1>7, <1>8
    <2>2. CASE i =< Len(x) - n
      <3>1. i \in 1..Len(y) /\ i \in 1..(Len(x) - n) /\ n + i \in 1..Len(x)
        BY ONLY <1>2, <1>3, <1>8, <2>2
      <3> QED BY ONLY <1>3, <1>4, <1>5, <1>6, <2>1, <3>1
    <2>3. CASE i > Len(x) - n
      <3>1. PICK j : j = i - (Len(x) - n)
        OBVIOUS
      <3>2. j \in 1..Len(w) /\ i = Len(y) + j /\ n + i = Len(x) + j
        BY ONLY <1>2, <1>3, <1>5, <1>8, <2>3, <3>1
      <3> QED BY ONLY <1>4, <1>5, <1>6, <2>1, <3>2
    <2> QED BY ONLY <1>2, <1>8, <2>2, <2>3
  <1>9. z = v
    BY <1>5, <1>6, <1>7, <1>8, SameElements
  <1> QED BY ONLY <1>1, <1>9

\* What is left of a stream is in order.
LEMMA OrderedRest ==
    ASSUME NEW q \in Seq(Token), NEW n \in 0..Len(q), Ordered(q), NEW v,
           v = SubSeq(q, n + 1, Len(q))
    PROVE  /\ Ordered(v) /\ v \in Seq(Token) /\ Len(v) = Len(q) - n
           /\ \A i \in 1..Len(v) : v[i] = q[n + i]
  <1>1. /\ SubSeq(q, n + 1, Len(q)) \in Seq(Token) /\ Len(SubSeq(q, n + 1, Len(q))) = Len(q) - n
        /\ \A i \in 1..(Len(q) - n) : SubSeq(q, n + 1, Len(q))[i] = q[n + i]
    BY ONLY q \in Seq(Token), n \in 0..Len(q), CutFacts
  <1>2. v \in Seq(Token) /\ Len(v) = Len(q) - n /\ \A i \in 1..Len(v) : v[i] = q[n + i]
    BY <1>1
  <1>3. n \in Nat /\ Len(q) \in Nat
    OBVIOUS
  <1>4. Ordered(v)
    <2>1. SUFFICES ASSUME NEW i \in 1..Len(v)
          PROVE  /\ v[i].part = 1 /\ i + 1 =< Len(v) => v[i + 1] = [msg |-> v[i].msg, part |-> 2]
                 /\ v[i].part = 2 /\ v[i].msg.method # "connect" /\ i + 1 =< Len(v)
                      => v[i + 1].part = 1 /\ v[i + 1].msg.id = v[i].msg.id + 1
                 /\ v[i].part = 2 /\ v[i].msg.method = "connect"
                      => /\ i + 1 =< Len(v) => v[i + 1].part = 0
                         /\ i + 2 =< Len(v) => v[i + 2].part = 1 /\ v[i + 2].msg.id = v[i].msg.id + 1
      BY DEF Ordered
    <2>2. PICK j : j = n + i
      OBVIOUS
    <2>3. /\ j \in 1..Len(q) /\ v[i] = q[j]
          /\ i + 1 =< Len(v) => j + 1 =< Len(q) /\ i + 1 \in 1..Len(v)
          /\ i + 2 =< Len(v) => j + 2 =< Len(q) /\ i + 2 \in 1..Len(v)
      BY ONLY <1>2, <1>3, <2>1, <2>2
    <2>4. /\ i + 1 =< Len(v) => v[i + 1] = q[j + 1]
          /\ i + 2 =< Len(v) => v[i + 2] = q[j + 2]
      <3>1. n + (i + 1) = j + 1 /\ n + (i + 2) = j + 2
        BY ONLY <1>3, <2>1, <2>2
      <3>2. i + 1 =< Len(v) => v[i + 1] = q[n + (i + 1)]
        BY ONLY <1>2, <2>3
      <3>3. i + 2 =< Len(v) => v[i + 2] = q[n + (i + 2)]
        BY ONLY <1>2, <2>3
      <3> QED BY ONLY <3>1, <3>2, <3>3
    <2>5. /\ q[j].part = 1 /\ j + 1 =< Len(q) => q[j + 1] = [msg |-> q[j].msg, part |-> 2]
          /\ q[j].part = 2 /\ q[j].msg.method # "connect" /\ j + 1 =< Len(q)
               => q[j + 1].part = 1 /\ q[j + 1].msg.id = q[j].msg.id + 1
          /\ q[j].part = 2 /\ q[j].msg.method = "connect"
               => /\ j + 1 =< Len(q) => q[j + 1].part = 0
                  /\ j + 2 =< Len(q) => q[j + 2].part = 1 /\ q[j + 2].msg.id = q[j].msg.id + 1
      BY <2>3 DEF Ordered
    <2> QED BY ONLY <2>3, <2>4, <2>5
  <1> QED BY <1>2, <1>4

\* After a request comes the next.
LEMMA DueNext ==
    ASSUME NEW q \in Seq(Token), Ordered(q), NEW n \in Nat, Due(q, n), Len(q) >= 2, q[1].part = 1,
           NEW v, v = SubSeq(q, 3, Len(q))
    PROVE  Ordered(v) /\ Due(v, n + 1)
  <1>1. 2 \in 0..Len(q) /\ v = SubSeq(q, 2 + 1, Len(q))
    OBVIOUS
  <1>2. Ordered(v) /\ v \in Seq(Token) /\ Len(v) = Len(q) - 2 /\ \A i \in 1..Len(v) : v[i] = q[2 + i]
    BY ONLY <1>1, q \in Seq(Token), Ordered(q), OrderedRest, ZenonT(40)
  <1>3. q[1].msg.id = n /\ q[2] = [msg |-> q[1].msg, part |-> 2]
    <2>1. 1 \in 1..Len(q) /\ 1 + 1 =< Len(q)
      OBVIOUS
    <2>2. q[1 + 1] = [msg |-> q[1].msg, part |-> 2]
      BY <2>1 DEF Ordered
    <2> QED BY <2>1, <2>2 DEF Due
  <1>4. q[2].part = 2 /\ q[2].msg.id = n
    BY <1>3
  <1>5. /\ q[2].msg.method # "connect" /\ 3 =< Len(q) => q[3].part = 1 /\ q[3].msg.id = n + 1
        /\ q[2].msg.method = "connect" => /\ 3 =< Len(q) => q[3].part = 0
                                          /\ 4 =< Len(q) => q[4].part = 1 /\ q[4].msg.id = n + 1
    <2>1. 2 \in 1..Len(q) /\ 2 + 1 = 3 /\ 2 + 2 = 4
      OBVIOUS
    <2> QED BY <1>4, <2>1 DEF Ordered
  <1>6. (Len(v) > 0 => v[1] = q[3] /\ 3 =< Len(q)) /\ (Len(v) > 1 => v[2] = q[4] /\ 4 =< Len(q))
    <2>1. Len(v) \in Nat /\ (Len(v) > 0 => 1 \in 1..Len(v)) /\ (Len(v) > 1 => 2 \in 1..Len(v))
      BY <1>2
    <2> QED BY <1>2, <2>1
  <1>7. Due(v, n + 1)
    BY <1>5, <1>6 DEF Due
  <1> QED BY <1>2, <1>7

\* The handshake takes the hello.
LEMMA DueAfterHello ==
    ASSUME NEW q \in Seq(Token), Ordered(q), NEW n \in Nat, Due(q, n), Len(q) > 0, q[1].part = 0,
           NEW v, v = SubSeq(q, 2, Len(q))
    PROVE  Ordered(v) /\ Due(v, n)
  <1>1. 1 \in 0..Len(q) /\ v = SubSeq(q, 1 + 1, Len(q))
    OBVIOUS
  <1>2. Ordered(v) /\ v \in Seq(Token) /\ Len(v) = Len(q) - 1 /\ \A i \in 1..Len(v) : v[i] = q[1 + i]
    BY ONLY <1>1, q \in Seq(Token), Ordered(q), OrderedRest, ZenonT(40)
  <1>3. Len(v) > 0 => v[1] = q[2] /\ Len(q) > 1
    <2>1. Len(v) \in Nat /\ (Len(v) > 0 => 1 \in 1..Len(v))
      BY <1>2
    <2> QED BY <1>2, <2>1
  <1>4. Due(v, n)
    BY <1>3 DEF Due
  <1> QED BY <1>2, <1>4

-----------------------------------------------------------------------------
(* The second invariant is kept by every handler                           *)

Rested(s, q) == s \in Session /\ s.started /\ s.ops = {} /\ Quiet(s, q)

\* The outcome of a handler that leaves the bytes x of the client alone.
OrderedAs(t, q, x) == SessionOrdered(t, q) /\ t.packet_in_ = x

\* One that has taken a request does not listen for the next.
Handed(t, q, x) ==
  OrderedAs(t, q, x) /\ t \in Session /\ \A op \in t.ops : op.kind \notin Listening

\* The phases depend on the members alone.
LEMMA SamePhase ==
    ASSUME NEW s, NEW t, SameMembers(s, t), NEW q
    PROVE  /\ Quiet(s, q) => Quiet(t, q)
           /\ \A op : OpOrdered(s, op, q) => OpOrdered(t, op, q)
  <1> USE DEF SameMembers
  <1>1. Quiet(s, q) => Quiet(t, q)
    BY DEF Quiet, Paired
  <1>2. AtRest(s) => AtRest(t)
    BY DEF AtRest
  <1>3. \A n : Behind(s, n) => Behind(t, n)
    BY DEF Behind
  <1>4. Unanswered(s) => Unanswered(t)
    BY DEF Unanswered
  <1>5. Asked(s, q) => Asked(t, q)
    BY <1>2, <1>3 DEF Asked
  <1>6. Outbound(s, q) => Outbound(t, q)
    BY <1>3, <1>4 DEF Outbound
  <1>7. Waiting(s, q) => Waiting(t, q)
    BY <1>2, <1>3 DEF Waiting
  <1>8. Going(s, q) => Going(t, q)
    BY <1>4, <1>5 DEF Going, Posted
  <1>9. Coming(s, q) => Coming(t, q)
    BY <1>6 DEF Coming, OnItsWay
  <1>10. Back(s, q) => Back(t, q)
    BY <1>2, <1>3 DEF Back
  <1>11. Refused(s, q) => Refused(t, q)
    BY <1>2, <1>3 DEF Refused
  <1>12. Opening(s, q) => Opening(t, q)
    BY <1>2, <1>3 DEF Opening
  <1>13. Heard(s) => Heard(t)
    BY DEF Heard
  <1> QED BY <1>1, <1>2, <1>5, <1>6, <1>7, <1>8, <1>9, <1>10, <1>11, <1>12, <1>13 DEF OpOrdered

\* What each operation has to show.
LEMMA Phases ==
    ASSUME NEW u, NEW q, NEW op,
           \/ op.kind = "read" /\ Waiting(u, q) /\ Heard(u)
           \/ op.kind = "handshake" /\ (Broken(op) \/ Waiting(u, q)) /\ u.packet_in_ = <<>>
           \/ op.kind \in {"handshake2", "readssl"} /\ Waiting(u, q)
           \/ op.kind \in Checking /\ Asked(u, q)
           \/ op.kind \in Reaching /\ Going(u, q)
           \/ op.kind \in {"write2", "write2ssl"} /\ Outbound(u, q) /\ AtRest(u)
           \/ op.kind \in Receiving /\ Coming(u, q)
           \/ op.kind \in {"reply", "replyssl"} /\ Back(u, q)
           \/ op.kind = "write407" /\ Refused(u, q)
           \/ op.kind \in Tunnelling /\ Opening(u, q)
    PROVE  OpOrdered(u, op, q)
  <1> USE DEF Checking, Reaching, Receiving, Tunnelling, Listening
  <1>1. CASE op.kind = "read" /\ Waiting(u, q) /\ Heard(u)
    BY <1>1 DEF OpOrdered
  <1>2. CASE op.kind = "handshake" /\ (Broken(op) \/ Waiting(u, q)) /\ u.packet_in_ = <<>>
    BY <1>2 DEF OpOrdered
  <1>3. CASE op.kind \in {"handshake2", "readssl"} /\ Waiting(u, q)
    BY <1>3 DEF OpOrdered
  <1>4. CASE op.kind \in Checking /\ Asked(u, q)
    BY <1>4 DEF OpOrdered
  <1>5. CASE op.kind \in Reaching /\ Going(u, q)
    BY <1>5 DEF OpOrdered
  <1>6. CASE op.kind \in {"write2", "write2ssl"} /\ Outbound(u, q) /\ AtRest(u)
    BY <1>6 DEF OpOrdered
  <1>7. CASE op.kind \in Receiving /\ Coming(u, q)
    BY <1>7 DEF OpOrdered
  <1>8. CASE op.kind \in {"reply", "replyssl"} /\ Back(u, q)
    BY <1>8 DEF OpOrdered
  <1>9. CASE op.kind = "write407" /\ Refused(u, q)
    BY <1>9 DEF OpOrdered
  <1>10. CASE op.kind \in Tunnelling /\ Opening(u, q)
    BY <1>10 DEF OpOrdered
  <1> QED BY <1>1, <1>2, <1>3, <1>4, <1>5, <1>6, <1>7, <1>8, <1>9, <1>10

LEMMA OrderedStarts ==
    ASSUME NEW s, NEW q, Rested(s, q), NEW op \in Operation, OpOrdered(s, op, q),
           NEW t, t = Start(s, op)
    PROVE  OrderedAs(t, q, s.packet_in_) /\ (op.kind \notin Listening => Handed(t, q, s.packet_in_))
  <1>1. t \in Session /\ t.ops = {op} /\ SameMembers(s, t)
    BY StartFacts DEF Rested
  <1>2. Quiet(t, q) /\ OpOrdered(t, op, q)
    BY <1>1, SamePhase DEF Rested
  <1>3. t.started /\ t.packet_in_ = s.packet_in_
    BY <1>1 DEF Rested, SameMembers
  <1> QED BY <1>1, <1>2, <1>3 DEF OrderedAs, SessionOrdered, Handed

LEMMA OrderedStops ==
    ASSUME NEW s, NEW q, Rested(s, q)
    PROVE  OrderedAs(s, q, s.packet_in_) /\ Handed(s, q, s.packet_in_)
  BY DEF Rested, OrderedAs, SessionOrdered, Handed

\* A handler that neither posts, forwards nor answers.
LEMMA RestedSame ==
    ASSUME NEW s, NEW q, Rested(s, q), NEW u \in Session, SameCore(s, u), SamePosted(s, u),
           u.forwarded = s.forwarded, u.answers = s.answers
    PROVE  Rested(u, q)
  BY DEF Rested, Quiet, Paired, SameCore, SamePosted

\* The handler of op has taken it.
LEMMA TakeOrdered ==
    ASSUME ConfirmedInv, OrderedInv, NEW c \in Sessions, NEW op \in sess[c].ops, NEW s, s = Take(c, op),
           NEW q, q = sess[c].packet_in_ \o wire[c]
    PROVE  /\ Rested(s, q) /\ OpOrdered(s, op, q) /\ op \in Operation /\ SameMembers(sess[c], s)
           /\ s.packet_in_ = sess[c].packet_in_ /\ OpConfirmed(s, op, confirmed)
           /\ s.packet_in_ \in Seq(Token) /\ wire[c] \in Seq(Token) /\ q \in Seq(Token)
  <1>1. PICK x : x = sess[c]
    OBVIOUS
  <1>2. SessionOrdered(x, q)
    BY <1>1 DEF OrderedInv
  <1>3. Idle(s, op, confirmed) /\ SameMembers(x, s) /\ s \in Session
    BY <1>1, TakeFacts
  <1>4. Quiet(x, q) /\ OpOrdered(x, op, q)
    BY <1>1, <1>2 DEF SessionOrdered
  <1>5. Quiet(s, q) /\ OpOrdered(s, op, q)
    BY <1>3, <1>4, SamePhase
  <1>6. Rested(s, q) /\ op \in Operation /\ OpConfirmed(s, op, confirmed)
    BY <1>3, <1>5 DEF Rested, Idle, Between
  <1>7. s.packet_in_ = x.packet_in_ /\ s.packet_in_ \in Seq(Token) /\ wire[c] \in Seq(Token)
    BY <1>3 DEF SameMembers, Session, ConfirmedInv, Types
  <1>8. q \in Seq(Token)
    BY ONLY <1>1, <1>7, q = sess[c].packet_in_ \o wire[c]
  <1> QED BY <1>1, <1>3, <1>5, <1>6, <1>7, <1>8

\* What a step has to show: its own session, over the bytes it left.
LEMMA OrderedStep ==
    ASSUME ConfirmedInv, OrderedInv, NEW c \in Sessions, NEW t, Set(c, t),
           \A d \in Sessions \ {c} : wire'[d] = wire[d], SessionOrdered(t, t.packet_in_ \o wire'[c])
    PROVE  OrderedInv'
  <1>1. sess \in [Sessions -> Session] /\ sess' = [sess EXCEPT ![c] = t]
    BY DEF Set, ConfirmedInv, Types
  <1>2. ASSUME NEW d \in Sessions PROVE SessionOrdered(sess'[d], sess'[d].packet_in_ \o wire'[d])
    <2>1. CASE d = c
      BY <1>1, <2>1
    <2>2. CASE d # c
      <3>1. sess'[d] = sess[d] /\ wire'[d] = wire[d]
        BY <1>1, <2>2
      <3> QED BY <3>1 DEF OrderedInv
    <2> QED BY <2>1, <2>2
  <1> QED BY <1>2 DEF OrderedInv

\* A step that reads nothing from the client.
LEMMA OrderedOwnStep ==
    ASSUME ConfirmedInv, OrderedInv, NEW c \in Sessions, NEW t, Set(c, t), wire' = wire,
           NEW q, q = sess[c].packet_in_ \o wire[c], OrderedAs(t, q, sess[c].packet_in_)
    PROVE  OrderedInv'
  <1>1. SessionOrdered(t, t.packet_in_ \o wire'[c])
    BY DEF OrderedAs
  <1> QED BY <1>1, OrderedStep

\* A number that was not used before names the request that is posted.
LEMMA NewPost ==
    ASSUME NEW s \in Session, Paired(s), NEW u \in Session, NEW p \in Post,
           u.posts = s.posts \cup {p}, u.guid_ = s.guid_ + 1, u.forwarded = s.forwarded,
           p.type = "request", p.uuid = s.guid_ + 1, p.msg = u.p_request_.id
    PROVE  Paired(u) /\ Unanswered(u) /\ Posted(u, p.host)
  <1>1. s.guid_ \in Nat /\ s.posts \subseteq Post
    BY DEF Session
  <1>2. ASSUME OneEach PROVE Paired(u) /\ Unanswered(u)
    <2>2. \A a \in s.posts : a.uuid \in Nat /\ a.uuid =< s.guid_
      BY <1>1, <1>2 DEF Paired, Post
    <2>3. \A a \in s.posts : a.uuid # p.uuid
      BY <1>1, <2>2
    <2>4. \A a, b \in u.posts : a.uuid = b.uuid => a = b \/ (a.type # b.type /\ a.msg = b.msg)
      BY <1>2, <2>3 DEF Paired
    <2>5. \A a \in u.posts : a.uuid =< u.guid_
      BY <1>1, <2>2
    <2>6. \A f \in u.forwarded : \E a \in u.posts :
            a.type = "request" /\ a.uuid = f.uuid /\ a.msg = f.req.id /\ a.host = f.host
      BY <1>2 DEF Paired
    <2>7. Paired(u)
      BY <2>4, <2>5, <2>6 DEF Paired
    <2>8. Unanswered(u)
      BY <2>3 DEF Unanswered
    <2> QED BY <2>7, <2>8
  <1>3. ASSUME ~ OneEach PROVE Paired(u) /\ Unanswered(u)
    BY <1>3 DEF Paired, Unanswered
  <1>4. Posted(u, p.host)
    BY DEF Posted
  <1> QED BY <1>2, <1>3, <1>4

\* A request whose credentials hold: resolved, or dropped without a host.
LEMMA AfterAuthOrdered ==
    ASSUME now \in Nat, NEW s, NEW q, Rested(s, q), Asked(s, q), s.p_connect_request_ = NoRequest,
           NEW t, t = do_after_auth(s)
    PROVE  Handed(t, q, s.packet_in_)
  <1>1. s \in Session /\ s.ops = {} /\ s.started /\ Paired(s)
    BY DEF Rested, Quiet
  <1>2. CASE s.p_request_.method = "connect"
    <2>1. PICK u : u = AdmitConnect(s)
      OBVIOUS
    <2>2. /\ u \in Session /\ SameTraffic(s, u) /\ u.p_connect_request_ = s.p_request_
          /\ u.guid_ = s.guid_ /\ u.posts = s.posts
      BY <1>1, <2>1, AdmitConnectFacts
    <2>3. Rested(u, q)
      BY <2>2 DEF Rested, Quiet, Paired, SameTraffic
    <2>4. Opening(u, q)
      BY <2>2 DEF Opening, Asked, AtRest, Behind, SameTraffic
    <2>5. u.packet_in_ = s.packet_in_
      BY <2>2 DEF SameTraffic
    <2>6. CASE t = u
      BY <2>3, <2>5, <2>6, OrderedStops
    <2>7. CASE t = Start(u, Op("resolve_connect"))
      <3>1. PICK op \in Operation : op = Op("resolve_connect") /\ op.kind = "resolve_connect"
        BY OpFacts DEF Kinds, Tls
      <3>2. OpOrdered(u, op, q) /\ op.kind \notin Listening
        BY <2>4, <3>1, Phases DEF Tunnelling, Listening
      <3> QED BY <2>3, <2>5, <2>7, <3>1, <3>2, OrderedStarts
    <2> QED BY <1>1, <1>2, <2>1, <2>6, <2>7, AfterAuthIs
  <1>3. CASE s.p_request_.method # "connect"
    <2>1. PICK u, p : u = AdmitDirect(s) /\ p = RequestPost(s, s.guid_ + 1)
      OBVIOUS
    <2>2. /\ u \in Session /\ SameTraffic(s, u) /\ u.p_request_ = s.p_request_
          /\ u.guid_ = s.guid_ + 1 /\ u.posts = s.posts \cup {p}
      BY <1>1, <2>1, AdmitDirectFacts
    <2>3. /\ p \in Post /\ p.type = "request" /\ p.uuid = s.guid_ + 1
          /\ p.msg = u.p_request_.id /\ p.host = u.p_request_.host
      <3>1. p \in Post
        BY <2>2 DEF Session
      <3> QED BY <2>1, <2>2, <3>1 DEF RequestPost
    <2>4. u.forwarded = s.forwarded /\ u.packet_in_ = s.packet_in_
      BY <2>2 DEF SameTraffic
    <2>5. Paired(u) /\ Unanswered(u) /\ Posted(u, p.host)
      BY <1>1, <2>2, <2>3, <2>4, NewPost
    <2>6. Rested(u, q)
      BY <2>2, <2>5 DEF Rested, Quiet, SameTraffic
    <2>7. Going(u, q)
      BY <2>2, <2>3, <2>5 DEF Going, Asked, AtRest, Behind, SameTraffic
    <2>8. CASE t = u
      BY <2>4, <2>6, <2>8, OrderedStops
    <2>9. CASE t = Start(u, Op("resolve"))
      <3>1. PICK op \in Operation : op = Op("resolve") /\ op.kind = "resolve"
        BY OpFacts DEF Kinds, Reaching
      <3>2. OpOrdered(u, op, q) /\ op.kind \notin Listening
        BY <2>7, <3>1, Phases DEF Reaching, Listening
      <3> QED BY <2>4, <2>6, <2>9, <3>1, <3>2, OrderedStarts
    <2> QED BY <1>1, <1>3, <2>1, <2>8, <2>9, AfterAuthIs
  <1> QED BY <1>2, <1>3

LEMMA AuthOrdered ==
    ASSUME now \in Nat, NEW s, NEW q, Rested(s, q), Asked(s, q), s.p_connect_request_ = NoRequest,
           NEW cache, NEW t, t = do_auth(s, cache)
    PROVE  Handed(t, q, s.packet_in_)
  <1>1. s \in Session
    BY DEF Rested
  <1>2. PICK cred, u : cred = s.p_request_.cred /\ u = [s EXCEPT !.auth_user_ = cred.user]
    OBVIOUS
  <1>3. cred \in Cred /\ cred.user \in Names
    BY <1>1, <1>2 DEF Session, Request, Cred
  <1>4. /\ u \in Session /\ SameCore(s, u) /\ SameIn(s, u) /\ SameOut(s, u)
        /\ SameSent(s, u) /\ SamePosted(s, u) /\ u.forwarded = s.forwarded
    BY <1>1, <1>2, <1>3, UserFacts
  <1>5. Rested(u, q)
    BY <1>4, RestedSame DEF SameSent
  <1>6. Asked(u, q) /\ u.p_connect_request_ = NoRequest /\ u.packet_in_ = s.packet_in_
    BY <1>4 DEF Asked, AtRest, Behind, SameCore, SameIn, SameOut, SameSent
  <1>7. CASE t = s
    BY <1>7, OrderedStops
  <1>8. CASE t = u
    BY <1>5, <1>6, <1>8, OrderedStops
  <1>9. CASE t = Verify(u)
    <2>1. PICK op : op = [kind |-> "v_resolve", left |-> 0, cred |-> u.p_request_.cred]
      OBVIOUS
    <2>2. op \in Operation /\ op.kind = "v_resolve"
      BY <1>2, <1>3, <1>4, <2>1 DEF Operation, Kinds, Checking, SameIn
    <2>3. OpOrdered(u, op, q) /\ op.kind \notin Listening
      BY <1>6, <2>2, Phases DEF Checking, Listening
    <2>4. t = Start(u, op)
      BY <1>9, <2>1 DEF Verify
    <2> QED BY <1>5, <1>6, <2>2, <2>3, <2>4, OrderedStarts
  <1>10. CASE t = do_after_auth(u)
    BY <1>5, <1>6, <1>10, AfterAuthOrdered
  <1> QED BY <1>2, <1>7, <1>8, <1>9, <1>10 DEF do_auth

LEMMA RefusedOrdered ==
    ASSUME NEW s, NEW q, Rested(s, q), Asked(s, q), NEW t, t = do_write_407_unauthorized(s)
    PROVE  Handed(t, q, s.packet_in_)
  <1>1. s \in Session
    BY DEF Rested
  <1>2. PICK n, u : n = s.p_request_.id /\ u = [s EXCEPT !.filtered_response_ = n]
    OBVIOUS
  <1>3. n \in Nat
    BY <1>1, <1>2 DEF Session, Request
  <1>4. /\ u \in Session /\ SameCore(s, u) /\ SameIn(s, u) /\ SameOut(s, u)
        /\ SamePosted(s, u) /\ u.forwarded = s.forwarded /\ u.answers = s.answers
        /\ u.filtered_response_ = n
    BY <1>1, <1>2, <1>3, FilteredFacts
  <1>5. Rested(u, q)
    BY <1>4, RestedSame
  <1>6. Refused(u, q) /\ u.packet_in_ = s.packet_in_
    BY <1>2, <1>4 DEF Refused, Asked, AtRest, Behind, SameIn, SameOut
  <1>7. PICK op \in Operation : op = Op("write407") /\ op.kind = "write407"
    BY OpFacts DEF Kinds
  <1>8. OpOrdered(u, op, q) /\ op.kind \notin Listening
    BY <1>6, <1>7, Phases DEF Listening
  <1>9. t = Start(u, op)
    BY <1>2, <1>7 DEF do_write_407_unauthorized
  <1> QED BY <1>5, <1>6, <1>7, <1>8, <1>9, OrderedStarts

\* Of the bytes q, of which x are read and w are not, v are left after a request.
TakenOff(x, w, q, y, v) == q = x \o w /\ y = SubSeq(x, 3, Len(x)) /\ v = y \o w

\* A request that is complete is the one that is due; the next comes after it.
LEMMA TakenApart ==
    ASSUME NEW x \in Seq(Token), NEW w \in Seq(Token), NEW q, NEW y, NEW v, TakenOff(x, w, q, y, v),
           Ordered(q), NEW n \in Nat, Due(q, n), Parse(x) \notin {"NG", "AG"}
    PROVE  /\ x[1].msg \in Request /\ x[1].msg.id = n /\ y \in Seq(Token)
           /\ Ordered(v) /\ Due(v, n + 1)
  <1>0. q = x \o w /\ y = SubSeq(x, 3, Len(x)) /\ v = y \o w
    BY DEF TakenOff
  <1>1. Len(x) >= 2 /\ x[1].part = 1 /\ Len(x) \in Nat
    BY DEF Parse
  <1>2. x[1] \in Token
    BY <1>1
  <1>3. q \in Seq(Token) /\ Len(q) = Len(x) + Len(w) /\ \A i \in 1..Len(x) : q[i] = x[i]
    BY ONLY <1>0, x \in Seq(Token), w \in Seq(Token), ConcatFacts
  <1>4. Len(w) \in Nat
    OBVIOUS
  <1>5. Len(q) >= 2 /\ q[1] = x[1] /\ q[1].part = 1
    BY ONLY <1>1, <1>3, <1>4
  <1>6. x[1].msg.id = n
    <2>1. Len(q) > 0
      BY ONLY <1>3, <1>5
    <2> QED BY <1>5, <2>1 DEF Due
  <1>7. v = SubSeq(q, 3, Len(q))
    <2>1. 2 \in 0..Len(x)
      BY <1>1
    <2>2. SubSeq(x, 2 + 1, Len(x)) \o w = SubSeq(x \o w, 2 + 1, Len(x \o w))
      BY ONLY <2>1, x \in Seq(Token), w \in Seq(Token), CutStream
    <2>3. 2 + 1 = 3
      OBVIOUS
    <2> QED BY ONLY <1>0, <2>2, <2>3
  <1>8. Ordered(v) /\ Due(v, n + 1)
    BY ONLY <1>3, <1>5, <1>7, Ordered(q), n \in Nat, Due(q, n), DueNext
  <1>9. y \in Seq(Token)
    BY <1>0, <1>1
  <1> QED BY <1>2, <1>6, <1>8, <1>9 DEF Token

\* The request that was handed on is cut off.
LEMMA CutOrdered ==
    ASSUME NEW h, NEW q, NEW x, Handed(h, q, x), NEW y \in Seq(Token),
           NEW t, t = [h EXCEPT !.packet_in_ = y]
    PROVE  SessionOrdered(t, q) /\ t.packet_in_ = y
  <1>1. h \in Session /\ SessionOrdered(h, q) /\ \A op \in h.ops : op.kind \notin Listening
    BY DEF Handed, OrderedAs
  <1>2. /\ t \in Session
        /\ SameCore(h, t) /\ SameOut(h, t) /\ SameSent(h, t)
        /\ SamePosted(h, t) /\ t.forwarded = h.forwarded /\ t.packet_in_ = y
        /\ t.p_request_ = h.p_request_
    BY <1>1, InputFacts
  <1>3. /\ t.ops = h.ops /\ t.started = h.started /\ t.p_connect_request_ = h.p_connect_request_
        /\ t.packet2_in_ = h.packet2_in_ /\ t.up = h.up /\ t.answers = h.answers
        /\ t.filtered_response_ = h.filtered_response_ /\ t.guid_ = h.guid_ /\ t.posts = h.posts
    BY <1>2 DEF SameCore, SameOut, SameSent, SamePosted
  <1>4. t.forwarded = h.forwarded /\ t.p_request_ = h.p_request_
    BY <1>2
  <1>5. Quiet(h, q) => Quiet(t, q)
    BY <1>3, <1>4 DEF Quiet, Paired
  <1>6. AtRest(h) => AtRest(t)
    BY <1>3 DEF AtRest
  <1>7. \A n : Behind(h, n) => Behind(t, n)
    BY <1>4 DEF Behind
  <1>8. Unanswered(h) => Unanswered(t)
    BY <1>3, <1>4 DEF Unanswered
  <1>9. Waiting(h, q) => Waiting(t, q)
    BY <1>3, <1>6, <1>7 DEF Waiting
  <1>10. Asked(h, q) => Asked(t, q)
    BY <1>3, <1>4, <1>6, <1>7 DEF Asked
  <1>11. Outbound(h, q) => Outbound(t, q)
    BY <1>3, <1>4, <1>7, <1>8 DEF Outbound
  <1>12. Going(h, q) => Going(t, q)
    BY <1>3, <1>4, <1>8, <1>10 DEF Going, Posted
  <1>13. Coming(h, q) => Coming(t, q)
    BY <1>3, <1>4, <1>11 DEF Coming, OnItsWay
  <1>14. Back(h, q) => Back(t, q)
    BY <1>3, <1>6, <1>7 DEF Back
  <1>15. Refused(h, q) => Refused(t, q)
    BY <1>3, <1>6, <1>7 DEF Refused
  <1>16. Opening(h, q) => Opening(t, q)
    BY <1>3, <1>6, <1>7 DEF Opening
  <1>17. ASSUME NEW op \in h.ops PROVE OpOrdered(t, op, q)
    <2>1. OpOrdered(h, op, q) /\ op.kind \notin Listening
      BY <1>1 DEF SessionOrdered
    <2> QED BY <2>1, <1>6, <1>10, <1>11, <1>12, <1>13, <1>14, <1>15, <1>16 DEF OpOrdered, Listening
  <1> QED BY <1>1, <1>2, <1>3, <1>5, <1>9, <1>17 DEF SessionOrdered

\* A read in the clear, or a look at what is left of the last one.
LEMMA ReadOrdered ==
    ASSUME now \in Nat, NEW s, NEW q, Rested(s, q), Waiting(s, q), s.p_connect_request_ = NoRequest,
           NEW got \in Seq(Token), NEW w \in Seq(Token), (s.packet_in_ \o got) \o w = q,
           NEW cache, NEW t, t = handle_read_http_request(s, got, cache)
    PROVE  SessionOrdered(t, t.packet_in_ \o w)
  <1>1. s \in Session /\ s.packet_in_ \in Seq(Token) /\ s.answers \in Seq(Nat)
    BY DEF Rested, Session
  <1>2. PICK x, u : x = s.packet_in_ \o got /\ u = [s EXCEPT !.packet_in_ = x]
    OBVIOUS
  <1>3. x \in Seq(Token) /\ q = x \o w
    BY ONLY <1>1, <1>2, got \in Seq(Token), (s.packet_in_ \o got) \o w = q
  <1>4. /\ u \in Session /\ SameCore(s, u) /\ SameOut(s, u) /\ SameSent(s, u)
        /\ SamePosted(s, u) /\ u.forwarded = s.forwarded /\ u.packet_in_ = x
    <2>1. u = [s EXCEPT !.packet_in_ = x]
      BY <1>2
    <2> QED BY ONLY <1>1, <1>3, <2>1, InputFacts
  <1>5. Rested(u, q)
    BY <1>4, RestedSame DEF SameSent
  <1>6. Waiting(u, q) /\ u.p_connect_request_ = NoRequest /\ u.answers = s.answers
    BY <1>4 DEF Waiting, AtRest, Behind, SameCore, SameOut, SameSent
  <1>7. CASE t = u
    <2>1. SessionOrdered(u, q)
      BY <1>5, OrderedStops DEF OrderedAs
    <2> QED BY <1>3, <1>4, <1>7, <2>1
  <1>8. CASE Parse(x) = "AG" /\ t = do_read_http_request(u)
    <2>1. PICK op \in Operation : op = Op("read") /\ op.kind = "read"
      BY OpFacts DEF Kinds
    <2>2. Heard(u)
      BY <1>4, <1>8 DEF Heard
    <2>3. OpOrdered(u, op, q)
      BY <1>6, <2>1, <2>2, Phases
    <2>4. t = Start(u, op)
      BY <1>8, <2>1 DEF do_read_http_request
    <2>5. OrderedAs(t, q, u.packet_in_)
      BY <1>5, <2>1, <2>3, <2>4, OrderedStarts
    <2> QED BY <1>3, <1>4, <2>5 DEF OrderedAs
  <1>9. CASE Parse(x) \notin {"NG", "AG"}
    <2>1. PICK n, y, v : n = Len(s.answers) + 1 /\ y = SubSeq(x, 3, Len(x)) /\ v = y \o w
      OBVIOUS
    <2>2. n \in Nat /\ Ordered(q) /\ Due(q, n)
      BY <1>1, <2>1 DEF Rested, Quiet, Waiting
    <2>3. /\ x[1].msg \in Request /\ x[1].msg.id = n /\ y \in Seq(Token)
          /\ Ordered(v) /\ Due(v, n + 1)
      <3>1. x \in Seq(Token) /\ TakenOff(x, w, q, y, v)
        BY <1>3, <2>1 DEF TakenOff
      <3> QED BY ONLY <1>9, <2>2, <3>1, w \in Seq(Token), TakenApart
    <2>4. PICK m, r : m = x[1].msg /\ r = [u EXCEPT !.p_request_ = m]
      OBVIOUS
    <2>5. /\ r \in Session /\ SameCore(u, r) /\ SameOut(u, r) /\ SameSent(u, r) /\ SamePosted(u, r)
          /\ r.forwarded = u.forwarded /\ r.packet_in_ = x /\ r.p_request_ = m
      BY <1>4, <2>3, <2>4, RequestFacts
    <2>6. Rested(r, v)
      <3>1. Rested(r, q)
        BY <1>5, <2>5, RestedSame DEF SameSent
      <3> QED BY <2>3, <3>1 DEF Rested, Quiet
    <2>7. Asked(r, v) /\ r.p_connect_request_ = NoRequest
      <3>1. r.answers = s.answers /\ AtRest(r) /\ Behind(r, Len(s.answers))
        BY <1>6, <2>5 DEF Waiting, AtRest, Behind, SameOut, SameSent
      <3>2. Len(s.answers) + 2 = n + 1 /\ r.p_request_.id = n
        BY <1>1, <2>1, <2>3, <2>4, <2>5
      <3> QED BY <1>6, <2>1, <2>3, <2>5, <3>1, <3>2 DEF Asked, SameCore
    <2>8. PICK h : h = IF r.p_request_.cred = NoCred THEN do_write_407_unauthorized(r)
                       ELSE do_auth(r, cache)
      OBVIOUS
    <2>9. Handed(h, v, x)
      <3>1. CASE h = do_write_407_unauthorized(r)
        BY <2>5, <2>6, <2>7, <3>1, RefusedOrdered
      <3>2. CASE h = do_auth(r, cache)
        BY <2>5, <2>6, <2>7, <3>2, AuthOrdered
      <3> QED BY <2>8, <3>1, <3>2
    <2>10. CASE t = [h EXCEPT !.packet_in_ = y]
      <3>1. SessionOrdered(t, v) /\ t.packet_in_ = y
        BY <2>3, <2>9, <2>10, CutOrdered
      <3> QED BY <2>1, <3>1
    <2>11. t = u \/ t = [h EXCEPT !.packet_in_ = y]
      <3>1. r = [u EXCEPT !.p_request_ = u.packet_in_[1].msg]
        BY <1>4, <2>4
      <3>2. t = IF Len(u.packet_in_) > MaxPacket \/ Parse(u.packet_in_) = "NG" THEN u
                ELSE IF Parse(u.packet_in_) = "AG" THEN do_read_http_request(u)
                ELSE [h EXCEPT !.packet_in_ = SubSeq(@, parsed_length + 1, Len(@))]
        <4>1. u = [s EXCEPT !.packet_in_ = @ \o got]
          BY <1>2
        <4> QED BY ONLY <4>1, <2>8, <3>1, t = handle_read_http_request(s, got, cache), SMTT(30)
                DEF handle_read_http_request
      <3>3. h.packet_in_ = x
        BY <2>9 DEF Handed, OrderedAs
      <3>4. SubSeq(h.packet_in_, parsed_length + 1, Len(h.packet_in_)) = y
        BY <2>1, <3>3 DEF parsed_length
      <3> QED BY ONLY <1>4, <1>9, <3>2, <3>4
    <2> QED BY <1>7, <2>10, <2>11
  <1>10. CASE Parse(x) = "NG"
    BY <1>2, <1>4, <1>7, <1>10 DEF handle_read_http_request
  <1>11. CASE Parse(x) = "AG"
    BY <1>2, <1>4, <1>7, <1>8, <1>11 DEF handle_read_http_request
  <1> QED BY <1>9, <1>10, <1>11

\* A request that goes out was posted and has no response yet.
LEMMA ForwardOrdered ==
    ASSUME NEW s, NEW q, Rested(s, q), Asked(s, q), NEW host \in Names, Posted(s, host), Unanswered(s),
           NEW k \in {"write2", "write2ssl"}, NEW t, t = Forward(s, host, k)
    PROVE  Handed(t, q, s.packet_in_)
  <1>1. /\ s \in Session /\ s.p_request_ \in Request /\ s.p_connect_request_ \in Request
        /\ s.guid_ \in Nat /\ s.forwarded \subseteq Forwarded /\ s.answers \in Seq(Nat)
    BY DEF Rested, Session
  <1>2. PICK f, x, u : /\ f = [req |-> s.p_request_, host |-> host, by |-> s.p_connect_request_,
                               uuid |-> s.guid_]
                       /\ x = s.forwarded \cup {f} /\ u = [s EXCEPT !.forwarded = x]
    OBVIOUS
  <1>3. /\ f \in Forwarded /\ f.req = s.p_request_ /\ f.host = host /\ f.uuid = s.guid_
    BY <1>1, <1>2 DEF Forwarded
  <1>4. x \in SUBSET Forwarded
    BY <1>1, <1>2, <1>3
  <1>5. /\ u \in Session /\ SameCore(s, u) /\ SameIn(s, u) /\ SameOut(s, u)
        /\ SameSent(s, u) /\ SamePosted(s, u) /\ u.forwarded = x
    BY <1>1, <1>2, <1>4, ForwardedFacts
  <1>6. Paired(u)
    <2>1. Paired(s)
      BY DEF Rested, Quiet
    <2>2. ASSUME OneEach, NEW g \in x
          PROVE  \E p \in s.posts : /\ p.type = "request" /\ p.uuid = g.uuid /\ p.msg = g.req.id
                                    /\ p.host = g.host
      <3>1. CASE g = f
        BY <1>3, <3>1 DEF Posted
      <3>2. CASE g \in s.forwarded
        BY <2>1, <2>2, <3>2 DEF Paired
      <3> QED BY <1>2, <2>2, <3>1, <3>2
    <2> QED BY <1>5, <2>1, <2>2 DEF Paired, SamePosted
  <1>7. Rested(u, q)
    BY <1>5, <1>6 DEF Rested, Quiet, SameCore, SameSent
  <1>8. Outbound(u, q) /\ AtRest(u)
    <2>1. /\ AtRest(s) /\ Due(q, Len(s.answers) + 2) /\ Behind(s, Len(s.answers))
          /\ s.p_request_.id = Len(s.answers) + 1
      BY DEF Asked
    <2>2. Behind(u, Len(s.answers) + 1)
      <3>1. Len(s.answers) \in Nat /\ \A g \in s.forwarded : g.req.id \in Nat
        BY <1>1 DEF Forwarded, Request
      <3>2. \A g \in x : g.req.id =< Len(s.answers) + 1
        BY <1>2, <1>3, <2>1, <3>1 DEF Behind
      <3> QED BY <1>5, <3>2 DEF Behind
    <2> QED BY <1>5, <2>1, <2>2 DEF Outbound, AtRest, Unanswered, SameIn, SameOut, SameSent, SamePosted
  <1>9. PICK op \in Operation : op = Op(k) /\ op.kind = k
    BY OpFacts DEF Kinds, Tls
  <1>10. OpOrdered(u, op, q) /\ op.kind \notin Listening
    BY <1>8, <1>9, Phases DEF Listening
  <1>11. t = Start(u, op) /\ u.packet_in_ = s.packet_in_
    BY <1>2, <1>5, <1>9 DEF Forward, SameIn
  <1> QED BY <1>7, <1>9, <1>10, <1>11, OrderedStarts

\* A read through the tunnel.
LEMMA SslReadOrdered ==
    ASSUME NEW s, NEW q, Rested(s, q), Waiting(s, q), s.p_connect_request_.method = "connect",
           NEW got \in Seq(Token), NEW w \in Seq(Token), (s.packet_in_ \o got) \o w = q,
           NEW t, t = handle_read_after_handshake_for_connect_request(s, got)
    PROVE  SessionOrdered(t, t.packet_in_ \o w)
  <1>1. s \in Session /\ s.packet_in_ \in Seq(Token) /\ s.answers \in Seq(Nat)
    BY DEF Rested, Session
  <1>2. PICK x, u : x = s.packet_in_ \o got /\ u = [s EXCEPT !.packet_in_ = x]
    OBVIOUS
  <1>3. x \in Seq(Token) /\ q = x \o w
    BY ONLY <1>1, <1>2, got \in Seq(Token), (s.packet_in_ \o got) \o w = q
  <1>4. /\ u \in Session /\ SameCore(s, u) /\ SameOut(s, u) /\ SameSent(s, u)
        /\ SamePosted(s, u) /\ u.forwarded = s.forwarded /\ u.packet_in_ = x
    <2>1. u = [s EXCEPT !.packet_in_ = x]
      BY <1>2
    <2> QED BY ONLY <1>1, <1>3, <2>1, InputFacts
  <1>5. Rested(u, q)
    BY <1>4, RestedSame DEF SameSent
  <1>6. Waiting(u, q) /\ u.p_connect_request_.method = "connect" /\ u.answers = s.answers
    BY <1>4 DEF Waiting, AtRest, Behind, SameCore, SameOut, SameSent
  <1>7. CASE t = u
    <2>1. SessionOrdered(u, q)
      BY <1>5, OrderedStops DEF OrderedAs
    <2> QED BY <1>3, <1>4, <1>7, <2>1
  <1>8. CASE t = do_read_after_handshake_for_connect_request(u)
    <2>1. PICK op \in Operation : op = Op("readssl") /\ op.kind = "readssl"
      BY OpFacts DEF Kinds, Tls
    <2>2. OpOrdered(u, op, q)
      BY <1>6, <2>1, Phases
    <2>3. t = Start(u, op)
      BY <1>8, <2>1 DEF do_read_after_handshake_for_connect_request
    <2>4. OrderedAs(t, q, u.packet_in_)
      BY <1>5, <2>1, <2>2, <2>3, OrderedStarts
    <2> QED BY <1>3, <1>4, <2>4 DEF OrderedAs
  <1>9. CASE Parse(x) \notin {"NG", "AG"}
    <2>1. PICK n, y, z : n = Len(s.answers) + 1 /\ y = SubSeq(x, 3, Len(x)) /\ z = y \o w
      OBVIOUS
    <2>2. n \in Nat /\ Ordered(q) /\ Due(q, n)
      BY <1>1, <2>1 DEF Rested, Quiet, Waiting
    <2>3. /\ x[1].msg \in Request /\ x[1].msg.id = n /\ y \in Seq(Token)
          /\ Ordered(z) /\ Due(z, n + 1)
      <3>1. x \in Seq(Token) /\ TakenOff(x, w, q, y, z)
        BY <1>3, <2>1 DEF TakenOff
      <3> QED BY ONLY <1>9, <2>2, <3>1, w \in Seq(Token), TakenApart
    <2>4. PICK m, v, host, h : /\ m = x[1].msg /\ v = Numbered(u, m)
                               /\ host = v.p_connect_request_.host
                               /\ h = Forward(v, host, "write2ssl")
      OBVIOUS
    <2>5. m \in Request /\ m.id = n
      BY <2>3, <2>4
    <2>6. /\ v \in Session /\ SameCore(u, v) /\ SameOut(u, v) /\ SameSent(u, v)
          /\ v.forwarded = u.forwarded /\ v.packet_in_ = u.packet_in_ /\ v.p_request_ = m
          /\ v.guid_ = u.guid_ + 1
      BY <1>4, <2>4, <2>5, NumberedFacts
    <2>7. PICK p \in Post : /\ v.posts = u.posts \cup {p}
                            /\ p.type = "request" /\ p.uuid = u.guid_ + 1 /\ p.msg = m.id
                            /\ p.host = IF u.p_connect_request_ # NoRequest
                                        THEN u.p_connect_request_.host ELSE m.host
      BY <1>4, <2>4, <2>5, NumberedFacts
    <2>8. p.host = host /\ host \in Names
      <3>1. u.p_connect_request_ # NoRequest /\ u.p_connect_request_ \in Request
        BY <1>4, <1>6 DEF NoRequest, Session
      <3> QED BY <2>4, <2>6, <2>7, <3>1 DEF SameCore, Request
    <2>9. Paired(v) /\ Unanswered(v) /\ Posted(v, host)
      <3>1. u \in Session /\ v \in Session /\ Paired(u)
        BY <1>4, <1>5, <2>6 DEF Rested, Quiet
      <3> QED BY <2>6, <2>7, <2>8, <3>1, NewPost
    <2>10. Rested(v, z)
      BY <1>5, <2>3, <2>6, <2>9 DEF Rested, Quiet, SameCore, SameSent
    <2>11. Asked(v, z)
      <3>1. v.answers = s.answers /\ AtRest(v) /\ Behind(v, Len(s.answers))
        BY <1>6, <2>6 DEF Waiting, AtRest, Behind, SameOut, SameSent
      <3>2. Len(s.answers) + 2 = n + 1 /\ v.p_request_.id = n
        BY <1>1, <2>1, <2>5, <2>6
      <3> QED BY <2>1, <2>3, <3>1, <3>2 DEF Asked
    <2>12. Handed(h, z, x)
      <3>1. PICK k \in {"write2", "write2ssl"} : k = "write2ssl"
        OBVIOUS
      <3>2. h = Forward(v, host, k) /\ v.packet_in_ = x /\ host \in Names /\ Unanswered(v) /\ Posted(v, host)
        BY <1>4, <2>4, <2>6, <2>8, <2>9, <3>1
      <3>3. Handed(h, z, v.packet_in_)
        BY ONLY <2>10, <2>11, <3>1, <3>2, ForwardOrdered
      <3> QED BY ONLY <3>2, <3>3
    <2>13. CASE t = [h EXCEPT !.packet_in_ = y]
      <3>1. SessionOrdered(t, z) /\ t.packet_in_ = y
        BY <2>3, <2>12, <2>13, CutOrdered
      <3> QED BY <2>1, <3>1
    <2>14. t = u \/ t = [h EXCEPT !.packet_in_ = y]
      <3>1. v = post_request([u EXCEPT !.p_request_ = u.packet_in_[1].msg, !.guid_ = @ + 1])
        BY <1>4, <2>4 DEF Numbered
      <3>2. h = do_ssl_proxy_request_for_connect_request(v)
        BY <2>4 DEF do_ssl_proxy_request_for_connect_request
      <3>3. t = IF Len(u.packet_in_) > MaxPacket \/ Parse(u.packet_in_) = "NG" THEN u
                ELSE IF Parse(u.packet_in_) = "AG"
                     THEN do_read_after_handshake_for_connect_request(u)
                ELSE [h EXCEPT !.packet_in_ = SubSeq(@, parsed_length + 1, Len(@))]
        <4>1. u = [s EXCEPT !.packet_in_ = @ \o got]
          BY <1>2
        <4> QED BY ONLY <4>1, <3>1, <3>2, t = handle_read_after_handshake_for_connect_request(s, got)
                DEF handle_read_after_handshake_for_connect_request
      <3>4. h.packet_in_ = x
        BY <2>12 DEF Handed, OrderedAs
      <3>5. SubSeq(h.packet_in_, parsed_length + 1, Len(h.packet_in_)) = y
        BY <2>1, <3>4 DEF parsed_length
      <3> QED BY ONLY <1>4, <1>9, <3>3, <3>5
    <2> QED BY <1>7, <2>13, <2>14
  <1>10. CASE Parse(x) = "NG"
    BY <1>2, <1>4, <1>7, <1>10 DEF handle_read_after_handshake_for_connect_request
  <1>11. CASE Parse(x) = "AG"
    BY <1>2, <1>4, <1>7, <1>8, <1>11 DEF handle_read_after_handshake_for_connect_request
  <1> QED BY <1>9, <1>10, <1>11

\* The response to the request that is underway makes its pair.
LEMMA PairPost ==
    ASSUME NEW s \in Session, Paired(s), Unanswered(s), NEW u \in Session, NEW p \in Post,
           u.posts = s.posts \/ u.posts = s.posts \cup {p}, u.guid_ = s.guid_,
           u.forwarded = s.forwarded,
           p.type = "response", p.uuid = s.guid_, OneEach => p.msg = s.p_request_.id
    PROVE  Paired(u)
  <1> SUFFICES ASSUME OneEach PROVE Paired(u)
    BY DEF Paired
  <1>1. s.guid_ \in Nat
    BY DEF Session
  <1>2. \A a \in s.posts : a.uuid = p.uuid => a.type # p.type /\ a.msg = p.msg
    BY DEF Unanswered
  <1>3. \A a, b \in u.posts : a.uuid = b.uuid => a = b \/ (a.type # b.type /\ a.msg = b.msg)
    BY <1>2 DEF Paired
  <1>4. \A a \in u.posts : a.uuid =< u.guid_
    BY <1>1 DEF Paired
  <1>5. \A f \in u.forwarded : \E a \in u.posts :
          a.type = "request" /\ a.uuid = f.uuid /\ a.msg = f.req.id /\ a.host = f.host
    BY DEF Paired
  <1> QED BY <1>3, <1>4, <1>5 DEF Paired

\* A read from an origin, in the clear or through the tunnel.
LEMMA RespondOrdered ==
    ASSUME NEW s, NEW q, Rested(s, q), Coming(s, q), NEW got \in Chunks(s.up),
           NEW again \in Receiving, NEW reply \in {"reply", "replyssl"},
           NEW t, t = Respond(s, got, again, reply)
    PROVE  OrderedAs(t, q, s.packet_in_)
  <1>1. /\ s \in Session /\ s.up \in Seq(Token) /\ s.packet2_in_ \in Seq(Token) /\ Paired(s)
        /\ s.p_request_ \in Request
    BY DEF Rested, Session, Quiet
  <1>2. PICK r, a, b : r = s.p_request_ /\ a = s.packet2_in_ /\ b = s.up
    OBVIOUS
  <1>3. /\ Outbound(s, q)
        /\ OneEach => /\ Len(a) + Len(b) =< 2
                      /\ \A i \in 1..Len(a) : a[i].msg = r
                      /\ \A i \in 1..Len(b) : b[i].msg = r
    BY <1>2 DEF Coming, OnItsWay
  <1>4. a \in Seq(Token) /\ b \in Seq(Token) /\ Len(a) \in Nat /\ Len(b) \in Nat
    BY <1>1, <1>2
  <1>5. PICK n \in 1..Len(b) : /\ got = SubSeq(b, 1, n) /\ Len(got) = n
                               /\ Rest(b, got) = SubSeq(b, n + 1, Len(b))
    BY <1>2, <1>4, ChunkFacts
  <1>6. PICK x, y, u : x = a \o got /\ y = Rest(b, got) /\ u = Received(s, x, y)
    OBVIOUS
  <1>7. n \in 0..Len(b) /\ n \in Nat
    BY <1>4, <1>5
  <1>8. /\ y \in Seq(Token) /\ Len(y) = Len(b) - n /\ \A i \in 1..(Len(b) - n) : y[i] = b[n + i]
        /\ got \in Seq(Token) /\ \A i \in 1..n : got[i] = b[i]
    <2>1. /\ SubSeq(b, n + 1, Len(b)) \in Seq(Token) /\ Len(SubSeq(b, n + 1, Len(b))) = Len(b) - n
          /\ \A i \in 1..(Len(b) - n) : SubSeq(b, n + 1, Len(b))[i] = b[n + i]
          /\ SubSeq(b, 1, n) \in Seq(Token)
          /\ \A i \in 1..n : SubSeq(b, 1, n)[i] = b[i]
      BY ONLY <1>4, <1>7, CutFacts
    <2> QED BY ONLY <1>5, <1>6, <2>1
  <1>9. /\ x \in Seq(Token) /\ Len(x) = Len(a) + n
        /\ \A i \in 1..Len(a) : x[i] = a[i]
        /\ \A i \in 1..n : x[Len(a) + i] = got[i]
    <2>1. /\ a \o got \in Seq(Token) /\ Len(a \o got) = Len(a) + Len(got)
          /\ \A i \in 1..Len(a) : (a \o got)[i] = a[i]
          /\ \A i \in 1..Len(got) : (a \o got)[Len(a) + i] = got[i]
      BY ONLY <1>4, <1>8, ConcatFacts
    <2> QED BY ONLY <1>5, <1>6, <2>1
  <1>10. OneEach => Len(x) + Len(y) =< 2
    BY ONLY <1>3, <1>4, <1>7, <1>8, <1>9
  <1>11. OneEach => \A i \in 1..Len(y) : y[i].msg = r
    <2>1. SUFFICES ASSUME OneEach, NEW i \in 1..Len(y) PROVE y[i].msg = r
      OBVIOUS
    <2>2. i \in 1..(Len(b) - n) /\ n + i \in 1..Len(b)
      BY ONLY <1>4, <1>7, <1>8, <2>1
    <2>3. y[i] = b[n + i]
      BY ONLY <1>8, <2>2
    <2> QED BY ONLY <1>3, <2>1, <2>2, <2>3
  <1>12. OneEach => \A i \in 1..Len(x) : x[i].msg = r
    <2>1. SUFFICES ASSUME OneEach, NEW i \in 1..Len(x) PROVE x[i].msg = r
      OBVIOUS
    <2>2. CASE i =< Len(a)
      <3>1. i \in 1..Len(a)
        BY ONLY <1>4, <1>9, <2>1, <2>2
      <3> QED BY ONLY <1>3, <1>9, <2>1, <3>1
    <2>3. CASE i > Len(a)
      <3>1. PICK j : j = i - Len(a)
        OBVIOUS
      <3>2. j \in 1..n /\ j \in 1..Len(b) /\ i = Len(a) + j
        BY ONLY <1>4, <1>7, <1>9, <2>1, <2>3, <3>1
      <3> QED BY ONLY <1>3, <1>8, <1>9, <2>1, <3>2
    <2> QED BY ONLY <1>4, <2>1, <2>2, <2>3
  <1>13. /\ u \in Session /\ SameCore(s, u) /\ SameIn(s, u) /\ SameSent(s, u) /\ SamePosted(s, u)
         /\ u.forwarded = s.forwarded /\ u.packet2_in_ = x /\ u.up = y
    <2>1. s \in Session /\ x \in Seq(Token) /\ y \in Seq(Token) /\ u = Received(s, x, y)
      BY <1>1, <1>6, <1>8, <1>9
    <2> QED BY ONLY <2>1, ReceivedFacts
  <1>14. Rested(u, q)
    BY <1>13, RestedSame DEF SameSent
  <1>15. Outbound(u, q) /\ u.packet_in_ = s.packet_in_ /\ u.p_request_ = r
    BY <1>2, <1>3, <1>13 DEF Outbound, Behind, Unanswered, SameIn, SameSent, SamePosted
  <1>16. CASE t = u
    BY <1>14, <1>15, <1>16, OrderedStops
  <1>17. CASE t = Start(u, Op(again))
    <2>1. PICK op \in Operation : op = Op(again) /\ op.kind = again
      BY OpFacts DEF Receiving, Kinds, Tls
    <2>2. Coming(u, q)
      BY <1>10, <1>11, <1>12, <1>13, <1>15 DEF Coming, OnItsWay
    <2>3. OpOrdered(u, op, q)
      BY <2>1, <2>2, Phases
    <2> QED BY <1>14, <1>15, <1>17, <2>1, <2>3, OrderedStarts
  <1>18. CASE Parse(x) \notin {"NG", "AG"}
    <2>1. Len(x) >= 2
      BY <1>18 DEF Parse
    <2>2. /\ 1 \in 1..Len(x) /\ x[1] \in Token
          /\ OneEach => Len(y) = 0 /\ x[1].msg = r
      <3>1. x \in Seq(Token) /\ y \in Seq(Token)
        BY ONLY <1>8, <1>9
      <3>2. Len(x) \in Nat /\ Len(y) \in Nat
        BY ONLY <3>1
      <3>3. 1 \in 1..Len(x) /\ (OneEach => Len(y) = 0)
        BY ONLY <1>10, <2>1, <3>2
      <3>4. x[1] \in Token
        BY ONLY <3>1, <3>3
      <3> QED BY ONLY <1>12, <3>3, <3>4
    <2>3. OneEach => y = <<>>
      BY ONLY <1>8, <2>2
    <2>4. PICK i, f, p : /\ i = x[1].msg.id /\ f = [u EXCEPT !.filtered_response_ = i]
                         /\ p = post_response(f)
      OBVIOUS
    <2>5. i \in Nat /\ (OneEach => i = r.id)
      BY <2>2, <2>4 DEF Token, Request
    <2>6. /\ f \in Session /\ SameCore(u, f) /\ SameIn(u, f) /\ SameOut(u, f) /\ SamePosted(u, f)
          /\ f.forwarded = u.forwarded /\ f.answers = u.answers /\ f.filtered_response_ = i
      BY <1>13, <2>4, <2>5, FilteredFacts
    <2>7. PICK g, w, z : /\ w = f.guid_
                         /\ g = [type |-> "response", uuid |-> w, msg |-> i, user |-> "", host |-> ""]
                         /\ z = f.posts \cup (IF i \in Large THEN {} ELSE {g})
      OBVIOUS
    <2>8. f.posts \in SUBSET Post /\ w \in Nat
      BY <2>6, <2>7 DEF Session
    <2>9. g \in Post /\ g.type = "response" /\ g.uuid = w /\ g.msg = i
      BY <2>5, <2>7, <2>8, ScriptsAssumption DEF Post
    <2>10. z \in SUBSET Post
      BY ONLY <2>7, <2>8, <2>9
    <2>11. /\ p \in Session /\ SameCore(f, p) /\ SameIn(f, p) /\ SameOut(f, p) /\ SameSent(f, p)
           /\ p.forwarded = f.forwarded /\ p.guid_ = w /\ p.posts = z
      <3>1. p = [f EXCEPT !.posts = z]
        BY <2>4, <2>6, <2>7 DEF post_response
      <3>2. p = PostedOn(f, w, z)
        BY <2>6, <2>7, <3>1 DEF Session, PostedOn
      <3> QED BY ONLY <2>6, <2>8, <2>10, <3>2, PostsFacts
    <2>12. PICK e, v : e = <<>> /\ v = [p EXCEPT !.packet2_in_ = e]
      OBVIOUS
    <2>13. /\ v \in Session /\ SameCore(p, v) /\ SameIn(p, v) /\ SameSent(p, v) /\ SamePosted(p, v)
           /\ v.forwarded = p.forwarded /\ v.packet2_in_ = e /\ v.up = p.up
      <3>1. e \in Seq(Token) /\ p.up \in Seq(Token)
        BY <2>11, <2>12 DEF Session
      <3>2. v = Received(p, e, p.up)
        BY <2>11, <2>12 DEF Session, Received
      <3> QED BY ONLY <2>11, <3>1, <3>2, ReceivedFacts
    <2>14. /\ v.ops = u.ops /\ v.started = u.started /\ v.packet_in_ = u.packet_in_
           /\ v.p_request_ = r /\ v.packet2_in_ = <<>> /\ v.answers = u.answers
           /\ v.guid_ = u.guid_ /\ (v.posts = u.posts \/ v.posts = u.posts \cup {g})
           /\ v.forwarded = u.forwarded /\ g.uuid = u.guid_
           /\ OneEach => v.up = <<>> /\ v.filtered_response_ = r.id /\ g.msg = r.id
      <3>1. /\ v.ops = u.ops /\ v.started = u.started /\ v.packet_in_ = u.packet_in_
            /\ v.p_request_ = u.p_request_ /\ v.forwarded = u.forwarded
        BY <2>6, <2>11, <2>13 DEF SameCore, SameIn
      <3>2. v.packet2_in_ = <<>> /\ v.up = u.up /\ v.answers = u.answers /\ v.filtered_response_ = i
        BY <2>6, <2>11, <2>12, <2>13 DEF SameOut, SameSent
      <3>3. w = u.guid_ /\ v.guid_ = w /\ v.posts = z /\ f.posts = u.posts
        BY <2>6, <2>7, <2>11, <2>13 DEF SamePosted
      <3> QED BY ONLY <1>13, <1>15, <2>3, <2>5, <2>7, <2>9, <3>1, <3>2, <3>3
    <2>15. Paired(v)
      <3>1. u \in Session /\ v \in Session /\ Paired(u) /\ Unanswered(u)
        BY <1>13, <1>14, <1>15, <2>13 DEF Rested, Quiet, Outbound
      <3> QED BY <1>15, <2>9, <2>14, <3>1, PairPost
    <2>16. Rested(v, q)
      BY <1>14, <2>13, <2>14, <2>15 DEF Rested, Quiet
    <2>17. Back(v, q)
      <3>1. AtRest(v) /\ Behind(v, Len(v.answers) + 1)
        BY <1>15, <2>14 DEF AtRest, Behind, Outbound
      <3> QED BY <1>15, <2>14, <3>1 DEF Back, Outbound
    <2>18. PICK op \in Operation : op = Op(reply) /\ op.kind = reply
      BY OpFacts DEF Kinds, Tls
    <2>19. OpOrdered(v, op, q)
      BY <2>17, <2>18, Phases
    <2>20. t = Start(v, op)
      <3>1. u = [s EXCEPT !.packet2_in_ = @ \o got, !.up = Rest(@, got)]
        BY <1>2, <1>6 DEF Received
      <3> QED BY <1>13, <1>18, <2>4, <2>12, <2>18, <3>1 DEF Respond
    <2> QED BY <1>15, <2>14, <2>16, <2>18, <2>19, <2>20, OrderedStarts
  <1>19. u = [s EXCEPT !.packet2_in_ = @ \o got, !.up = Rest(@, got)]
    BY <1>2, <1>6 DEF Received
  <1>20. Parse(x) = "NG" => t = u
    BY <1>13, <1>19 DEF Respond
  <1>21. Parse(x) = "AG" => t = Start(u, Op(again))
    BY <1>13, <1>19 DEF Respond
  <1> QED BY <1>16, <1>17, <1>18, <1>20, <1>21

\* The next answer is given.
LEMMA AnsweredOrdered ==
    ASSUME NEW s, NEW q, Rested(s, q), NEW n \in Nat, OneEach => n = Len(s.answers) + 1, NEW u,
           u = [s EXCEPT !.answers = Append(@, n)],
           AtRest(s), Due(q, Len(s.answers) + 2), Behind(s, Len(s.answers) + 1)
    PROVE  /\ Rested(u, q) /\ Waiting(u, q) /\ u.packet_in_ = s.packet_in_
           /\ u.forwarded = s.forwarded /\ Last(u.answers) = n
           /\ u.p_connect_request_ = s.p_connect_request_
  <1>1. s \in Session /\ s.answers \in Seq(Nat) /\ Len(s.answers) \in Nat
    BY DEF Rested, Session
  <1>2. PICK m : m = Len(s.answers) + 1 /\ m \in Nat /\ m + 1 = Len(s.answers) + 2
    BY <1>1
  <1>3. /\ u \in Session /\ SameCore(s, u) /\ SameIn(s, u) /\ SameOut(s, u) /\ SamePosted(s, u)
        /\ u.forwarded = s.forwarded /\ u.answers = Append(s.answers, n)
    BY <1>1, AnsweredFacts
  <1>4. /\ Len(u.answers) = m /\ u.answers[m] = n
        /\ \A i \in 1..Len(s.answers) : u.answers[i] = s.answers[i]
    BY <1>1, <1>2, <1>3, AppendFacts
  <1>5. OneEach => \A i \in 1..Len(u.answers) : u.answers[i] = i
    <2>1. SUFFICES ASSUME OneEach, NEW i \in 1..m PROVE u.answers[i] = i
      BY <1>4
    <2>2. CASE i = m
      BY <1>2, <1>4, <2>1, <2>2
    <2>3. CASE i # m
      <3>1. i \in 1..Len(s.answers)
        BY <1>1, <1>2, <2>1, <2>3
      <3> QED BY <1>4, <2>1, <3>1 DEF Rested, Quiet
    <2> QED BY <2>2, <2>3
  <1>6. Rested(u, q)
    BY <1>3, <1>5 DEF Rested, Quiet, Paired, SameCore, SamePosted
  <1>7. Waiting(u, q)
    BY <1>2, <1>3, <1>4 DEF Waiting, AtRest, Behind, SameOut
  <1> QED BY <1>3, <1>4, <1>6, <1>7 DEF SameIn, SameCore, Last

LEMMA BehindMore ==
    ASSUME NEW s \in Session, NEW n \in Nat, Behind(s, n)
    PROVE  Behind(s, n + 1) /\ \A f \in s.forwarded : f.req.id # n + 1
  <1>1. \A f \in s.forwarded : f.req.id \in Nat
    BY DEF Session, Forwarded, Request
  <1> QED BY <1>1 DEF Behind

\* An address of an origin is tried.
LEMMA TriesOrdered ==
    ASSUME NEW s, NEW q, Rested(s, q), NEW n \in Nat, n > 0, NEW t,
           \/ Going(s, q) /\ t = handle_resolve_for_direct_request(s, n)
           \/ Opening(s, q) /\ t = handle_resolve_for_connect_request(s, n)
    PROVE  OrderedAs(t, q, s.packet_in_)
  <1>1. s \in Session /\ n - 1 \in Nat
    BY DEF Rested
  <1>2. PICK u : u = [s EXCEPT !.up = <<>>]
    OBVIOUS
  <1>3. /\ u \in Session /\ SameCore(s, u) /\ SameIn(s, u) /\ SameSent(s, u) /\ SamePosted(s, u)
        /\ u.forwarded = s.forwarded /\ u.up = <<>> /\ u.packet2_in_ = s.packet2_in_
    BY <1>1, <1>2, EmptyUpFacts
  <1>4. Rested(u, q) /\ u.packet_in_ = s.packet_in_
    BY <1>3, RestedSame DEF SameSent, SameIn
  <1>5. CASE Going(s, q) /\ t = handle_resolve_for_direct_request(s, n)
    <2>1. Going(u, q)
      BY <1>3, <1>5 DEF Going, Asked, AtRest, Behind, Posted, Unanswered, SameIn, SameSent, SamePosted
    <2>2. PICK op \in Operation : op = OpLeft("connect", n - 1) /\ op.kind = "connect"
      BY <1>1, OpFacts DEF Kinds, Reaching
    <2>3. OpOrdered(u, op, q)
      BY <2>1, <2>2, Phases DEF Reaching
    <2>4. t = Start(u, op)
      BY <1>2, <1>5, <2>2 DEF handle_resolve_for_direct_request
    <2> QED BY <1>4, <2>2, <2>3, <2>4, OrderedStarts
  <1>6. CASE Opening(s, q) /\ t = handle_resolve_for_connect_request(s, n)
    <2>1. Opening(u, q)
      BY <1>3, <1>6 DEF Opening, AtRest, Behind, SameCore, SameSent
    <2>2. PICK op \in Operation : op = OpLeft("connect_connect", n - 1) /\ op.kind = "connect_connect"
      BY <1>1, OpFacts DEF Kinds, Tls
    <2>3. OpOrdered(u, op, q)
      BY <2>1, <2>2, Phases DEF Tunnelling
    <2>4. t = Start(u, op)
      BY <1>2, <1>6, <2>2 DEF handle_resolve_for_connect_request
    <2> QED BY <1>4, <2>2, <2>3, <2>4, OrderedStarts
  <1> QED BY <1>5, <1>6

\* The request is written, and its origin responds.
LEMMA RepliedOrdered ==
    ASSUME NEW s, NEW q, Rested(s, q), Outbound(s, q), AtRest(s), NEW how \in Upstream,
           NEW k \in Receiving, NEW t,
           t = Start([s EXCEPT !.up = @ \o ReplyTokens(s.p_request_, how)], Op(k))
    PROVE  OrderedAs(t, q, s.packet_in_)
  <1>1. s \in Session /\ s.p_request_ \in Request
    BY DEF Rested, Session
  <1>2. PICK r, z, u : r = s.p_request_ /\ z = ReplyTokens(r, how) /\ u = [s EXCEPT !.up = @ \o z]
    OBVIOUS
  <1>3. z \in Seq(Token) /\ (OneEach => Len(z) =< 2 /\ \A i \in 1..Len(z) : z[i].msg = r)
    <2>1. OneEach => how # "interim"
      BY DEF OneEach
    <2> QED BY <1>1, <1>2, <2>1, ReplyFacts
  <1>4. /\ u \in Session /\ SameCore(s, u) /\ SameIn(s, u) /\ SameSent(s, u) /\ SamePosted(s, u)
        /\ u.forwarded = s.forwarded /\ u.up = s.up \o z /\ u.packet2_in_ = s.packet2_in_
    BY <1>1, <1>2, <1>3, RepliedFacts, ZenonT(40)
  <1>5. OneEach => u.up = z /\ u.packet2_in_ = <<>>
    <2>1. OneEach => s.up = <<>> /\ s.packet2_in_ = <<>>
      BY DEF AtRest
    <2>2. <<>> \o z = z
      BY <1>3
    <2> QED BY <1>4, <2>1, <2>2
  <1>6. Rested(u, q) /\ u.packet_in_ = s.packet_in_
    BY <1>4, RestedSame DEF SameSent, SameIn
  <1>7. Coming(u, q)
    <2>1. Outbound(u, q) /\ u.p_request_ = r
      BY <1>2, <1>4 DEF Outbound, Behind, Unanswered, SameIn, SameSent, SamePosted
    <2>2. OneEach => Len(u.packet2_in_) = 0
      BY <1>5
    <2>3. ASSUME OneEach PROVE OnItsWay(u)
      <3>1. Len(z) \in Nat /\ Len(z) =< 2 /\ u.up = z /\ Len(u.packet2_in_) = 0
        BY <1>3, <1>5, <2>2, <2>3
      <3> QED BY <1>3, <2>1, <2>3, <3>1 DEF OnItsWay
    <2> QED BY <2>1, <2>3 DEF Coming
  <1>8. PICK op \in Operation : op = Op(k) /\ op.kind = k
    BY OpFacts DEF Receiving, Kinds, Tls
  <1>9. OpOrdered(u, op, q)
    BY <1>7, <1>8, Phases
  <1>10. t = Start(u, op)
    BY <1>2, <1>8
  <1> QED BY <1>6, <1>8, <1>9, <1>10, OrderedStarts

LEMMA AcceptOrdered ==
    ASSUME ConfirmedInv, OrderedInv, NEW c \in Sessions, do_accept(c) PROVE OrderedInv'
  <1>1. PICK x, u, b, q : /\ x = sess[c] /\ b = TRUE /\ u = [x EXCEPT !.started = b]
                          /\ q = sess[c].packet_in_ \o wire[c]
    OBVIOUS
  <1>2. x \in Session /\ x.ops = {} /\ SameMembers(NewSession, x) /\ ~ x.started
    BY <1>1 DEF do_accept, ConfirmedInv, SessionConfirmed
  <1>3. Quiet(x, q) /\ Waiting(x, q)
    BY <1>1, <1>2 DEF OrderedInv, SessionOrdered
  <1>4. /\ u \in Session /\ u.started /\ u.ops = {} /\ u.forwarded = {}
        /\ u.packet_in_ = x.packet_in_ /\ SameOut(x, u) /\ SameSent(x, u) /\ SamePosted(x, u)
    <2>1. u \in Session
      BY ONLY <1>1, <1>2 DEF Session
    <2>2. /\ u.started = b /\ u.ops = x.ops /\ u.forwarded = x.forwarded
          /\ u.packet_in_ = x.packet_in_ /\ SameOut(x, u) /\ SameSent(x, u) /\ SamePosted(x, u)
      BY ONLY <1>1, <1>2 DEF Session, SameOut, SameSent, SamePosted
    <2>3. x.forwarded = {}
      BY <1>2 DEF NewSession, SameMembers
    <2> QED BY <1>1, <1>2, <2>1, <2>2, <2>3
  <1>5. x.forwarded = u.forwarded
    BY <1>2, <1>4 DEF NewSession, SameMembers
  <1>6. Rested(u, q)
    BY <1>3, <1>4, <1>5 DEF Rested, Quiet, Paired, SameSent, SamePosted
  <1>7. Waiting(u, q) /\ Heard(u)
    BY <1>3, <1>4, <1>5 DEF Waiting, AtRest, Behind, Heard, SameOut, SameSent
  <1>8. PICK op \in Operation : op = Op("read") /\ op.kind = "read"
    BY OpFacts DEF Kinds
  <1>9. OpOrdered(u, op, q)
    BY <1>7, <1>8, Phases
  <1>10. PICK t : t = Start(u, op)
    OBVIOUS
  <1>11. OrderedAs(t, q, x.packet_in_)
    BY <1>4, <1>6, <1>9, <1>10, OrderedStarts
  <1>12. Set(c, t) /\ wire' = wire
    BY <1>1, <1>8, <1>10 DEF do_accept, do_read_http_request, Shared
  <1> QED BY <1>1, <1>11, <1>12, OrderedOwnStep

LEMMA FailOrdered ==
    ASSUME ConfirmedInv, OrderedInv, NEW c \in Sessions, Fail(c) PROVE OrderedInv'
  <1>1. PICK op \in sess[c].ops : Set(c, Take(c, op)) /\ wire' = wire
    BY DEF Fail
  <1>2. PICK s, q : s = Take(c, op) /\ q = sess[c].packet_in_ \o wire[c]
    OBVIOUS
  <1>3. Rested(s, q) /\ s.packet_in_ = sess[c].packet_in_
    BY <1>2, TakeOrdered
  <1>4. OrderedAs(s, q, sess[c].packet_in_)
    BY <1>3, OrderedStops
  <1> QED BY <1>1, <1>2, <1>4, OrderedOwnStep

LEMMA ReadRequestOrdered ==
    ASSUME ConfirmedInv, OrderedInv, NEW c \in Sessions, ReadRequest(c) PROVE OrderedInv'
  <1>1. PICK op \in Outstanding(c, "read"), got \in Chunks(wire[c]) :
          /\ Set(c, handle_read_http_request(Take(c, op), got, cached_credential_))
          /\ wire' = [wire EXCEPT ![c] = Rest(@, got)]
    BY DEF ReadRequest
  <1>2. PICK s, q, w, t : /\ s = Take(c, op) /\ q = sess[c].packet_in_ \o wire[c]
                          /\ w = Rest(wire[c], got)
                          /\ t = handle_read_http_request(s, got, cached_credential_)
    OBVIOUS
  <1>3. op \in sess[c].ops /\ op.kind = "read"
    BY <1>1 DEF Outstanding
  <1>4. /\ Rested(s, q) /\ OpOrdered(s, op, q) /\ s.packet_in_ = sess[c].packet_in_
        /\ OpConfirmed(s, op, confirmed) /\ s.packet_in_ \in Seq(Token) /\ wire[c] \in Seq(Token)
    BY <1>2, <1>3, TakeOrdered
  <1>5. Waiting(s, q) /\ s.p_connect_request_ = NoRequest
    BY <1>3, <1>4 DEF OpOrdered, OpConfirmed, Listening, Broken, Tls
  <1>6. got \in Seq(Token) /\ w \in Seq(Token)
    BY <1>2, <1>4, ChunkFacts
  <1>7. (s.packet_in_ \o got) \o w = q
    <2>1. (s.packet_in_ \o got) \o Rest(wire[c], got) = s.packet_in_ \o wire[c]
      BY ONLY <1>4, got \in Chunks(wire[c]), Regroup
    <2> QED BY ONLY <1>2, <1>4, <2>1
  <1>8. now \in Nat /\ wire \in [Sessions -> Seq(Token)]
    BY DEF ConfirmedInv, Types
  <1>9. SessionOrdered(t, t.packet_in_ \o w)
    BY <1>2, <1>4, <1>5, <1>6, <1>7, <1>8, ReadOrdered
  <1>10. wire'[c] = w /\ \A d \in Sessions \ {c} : wire'[d] = wire[d]
    BY <1>1, <1>2, <1>8
  <1> QED BY <1>1, <1>2, <1>9, <1>10, OrderedStep

LEMMA ReadSslOrdered ==
    ASSUME ConfirmedInv, OrderedInv, NEW c \in Sessions, ReadSsl(c) PROVE OrderedInv'
  <1>1. PICK op \in Outstanding(c, "readssl"), got \in Chunks(wire[c]) :
          /\ Set(c, handle_read_after_handshake_for_connect_request(Take(c, op), got))
          /\ wire' = [wire EXCEPT ![c] = Rest(@, got)]
    BY DEF ReadSsl
  <1>2. PICK s, q, w, t : /\ s = Take(c, op) /\ q = sess[c].packet_in_ \o wire[c]
                          /\ w = Rest(wire[c], got)
                          /\ t = handle_read_after_handshake_for_connect_request(s, got)
    OBVIOUS
  <1>3. op \in sess[c].ops /\ op.kind = "readssl"
    BY <1>1 DEF Outstanding
  <1>4. /\ Rested(s, q) /\ OpOrdered(s, op, q) /\ s.packet_in_ = sess[c].packet_in_
        /\ OpConfirmed(s, op, confirmed) /\ s.packet_in_ \in Seq(Token) /\ wire[c] \in Seq(Token)
    BY <1>2, <1>3, TakeOrdered
  <1>5. Waiting(s, q) /\ s.p_connect_request_.method = "connect"
    BY <1>3, <1>4 DEF OpOrdered, OpConfirmed, Listening, Broken, Tls
  <1>6. got \in Seq(Token) /\ w \in Seq(Token)
    BY <1>2, <1>4, ChunkFacts
  <1>7. (s.packet_in_ \o got) \o w = q
    <2>1. (s.packet_in_ \o got) \o Rest(wire[c], got) = s.packet_in_ \o wire[c]
      BY ONLY <1>4, got \in Chunks(wire[c]), Regroup
    <2> QED BY ONLY <1>2, <1>4, <2>1
  <1>8. wire \in [Sessions -> Seq(Token)]
    BY DEF ConfirmedInv, Types
  <1>9. SessionOrdered(t, t.packet_in_ \o w)
    BY <1>2, <1>4, <1>5, <1>6, <1>7, SslReadOrdered
  <1>10. wire'[c] = w /\ \A d \in Sessions \ {c} : wire'[d] = wire[d]
    BY <1>1, <1>2, <1>8
  <1> QED BY <1>1, <1>2, <1>9, <1>10, OrderedStep

LEMMA Wrote407Ordered ==
    ASSUME ConfirmedInv, OrderedInv, NEW c \in Sessions, Wrote407(c) PROVE OrderedInv'
  <1>1. PICK op \in Outstanding(c, "write407") :
          /\ Set(c, do_read_http_request(
                 [Take(c, op) EXCEPT !.answers = Append(@, sess[c].filtered_response_)]))
          /\ wire' = wire
    BY DEF Wrote407
  <1>2. PICK s, n, u, q : /\ s = Take(c, op) /\ n = sess[c].filtered_response_
                          /\ u = [s EXCEPT !.answers = Append(@, n)]
                          /\ q = sess[c].packet_in_ \o wire[c]
    OBVIOUS
  <1>3. op \in sess[c].ops /\ op.kind = "write407"
    BY <1>1 DEF Outstanding
  <1>4. /\ Rested(s, q) /\ OpOrdered(s, op, q) /\ s.packet_in_ = sess[c].packet_in_
        /\ SameMembers(sess[c], s)
    BY <1>2, <1>3, TakeOrdered
  <1>5. /\ Refused(s, q) /\ n = s.filtered_response_ /\ s \in Session /\ Len(s.answers) \in Nat
        /\ n \in Nat
    BY <1>2, <1>3, <1>4 DEF OpOrdered, SameMembers, Rested, Session
  <1>6. n = Len(s.answers) + 1 /\ AtRest(s) /\ Due(q, Len(s.answers) + 2) /\ Behind(s, Len(s.answers))
    BY <1>5 DEF Refused
  <1>7. Behind(s, Len(s.answers) + 1) /\ \A f \in s.forwarded : f.req.id # Len(s.answers) + 1
    BY <1>5, <1>6, BehindMore
  <1>8. /\ Rested(u, q) /\ Waiting(u, q) /\ u.packet_in_ = s.packet_in_
        /\ u.forwarded = s.forwarded /\ Last(u.answers) = n
    <2>1. Rested(s, q) /\ n \in Nat /\ (OneEach => n = Len(s.answers) + 1)
      BY ONLY <1>4, <1>5, <1>6
    <2>2. u = [s EXCEPT !.answers = Append(@, n)]
      BY ONLY <1>2
    <2>3. AtRest(s) /\ Due(q, Len(s.answers) + 2) /\ Behind(s, Len(s.answers) + 1)
      BY ONLY <1>6, <1>7
    <2> QED BY ONLY <2>1, <2>2, <2>3, AnsweredOrdered
  <1>9. Heard(u)
    BY <1>6, <1>7, <1>8 DEF Heard
  <1>10. PICK p \in Operation : p = Op("read") /\ p.kind = "read"
    BY OpFacts DEF Kinds
  <1>11. OpOrdered(u, p, q)
    BY <1>8, <1>9, <1>10, Phases
  <1>12. PICK t : t = Start(u, p)
    OBVIOUS
  <1>13. OrderedAs(t, q, sess[c].packet_in_)
    BY <1>4, <1>8, <1>11, <1>12, OrderedStarts
  <1>14. Set(c, t)
    BY <1>1, <1>2, <1>10, <1>12 DEF do_read_http_request
  <1> QED BY <1>1, <1>2, <1>13, <1>14, OrderedOwnStep

LEMMA VerifierOrdered ==
    ASSUME ConfirmedInv, OrderedInv, NEW c \in Sessions,
           VerifierResolved(c) \/ VerifierConnected(c) \/ VerifierWritten(c)
    PROVE  OrderedInv'
  <1>1. PICK op \in sess[c].ops, p \in Operation :
             /\ op.kind \in Checking /\ p.kind \in Checking
             /\ Set(c, Start(Take(c, op), p)) /\ wire' = wire
    BY VerifierMoves
  <1>2. PICK s, q, t : s = Take(c, op) /\ q = sess[c].packet_in_ \o wire[c] /\ t = Start(s, p)
    OBVIOUS
  <1>3. Rested(s, q) /\ OpOrdered(s, op, q) /\ s.packet_in_ = sess[c].packet_in_
    BY <1>2, TakeOrdered
  <1>4. Asked(s, q)
    BY <1>1, <1>3 DEF OpOrdered
  <1>5. OpOrdered(s, p, q)
    BY <1>1, <1>4, Phases
  <1>6. OrderedAs(t, q, sess[c].packet_in_)
    BY <1>2, <1>3, <1>5, OrderedStarts
  <1> QED BY <1>1, <1>2, <1>6, OrderedOwnStep

LEMMA VerifiedOrdered ==
    ASSUME ConfirmedInv, OrderedInv, NEW c \in Sessions, Verified(c) PROVE OrderedInv'
  <1>1. PICK op \in Outstanding(c, "v_read") :
          /\ \/ Set(c, do_after_auth(Take(c, op)))
             \/ Set(c, do_write_407_unauthorized(Take(c, op)))
          /\ wire' = wire
    BY DEF Verified
  <1>2. PICK s, q : s = Take(c, op) /\ q = sess[c].packet_in_ \o wire[c]
    OBVIOUS
  <1>3. op \in sess[c].ops /\ op.kind = "v_read"
    BY <1>1 DEF Outstanding
  <1>4. /\ Rested(s, q) /\ OpOrdered(s, op, q) /\ s.packet_in_ = sess[c].packet_in_
        /\ OpConfirmed(s, op, confirmed)
    BY <1>2, <1>3, TakeOrdered
  <1>5. Asked(s, q) /\ s.p_connect_request_ = NoRequest /\ now \in Nat
    BY <1>3, <1>4 DEF OpOrdered, OpConfirmed, Checking, Tls, ConfirmedInv, Types
  <1>6. Handed(do_after_auth(s), q, s.packet_in_) /\ Handed(do_write_407_unauthorized(s), q, s.packet_in_)
    BY <1>4, <1>5, AfterAuthOrdered, RefusedOrdered
  <1>7. PICK t : Set(c, t) /\ OrderedAs(t, q, sess[c].packet_in_)
    BY <1>1, <1>2, <1>4, <1>6 DEF Handed
  <1> QED BY <1>1, <1>2, <1>7, OrderedOwnStep

LEMMA VerifierFailsOrdered ==
    ASSUME ConfirmedInv, OrderedInv, NEW c \in Sessions, VerifierFails(c) PROVE OrderedInv'
  <1>1. sess' = [x \in Sessions |-> [sess[x] EXCEPT !.ops = {}]] /\ wire' = wire
    BY DEF VerifierFails
  <1>2. ASSUME NEW d \in Sessions PROVE SessionOrdered(sess'[d], sess'[d].packet_in_ \o wire'[d])
    <2>1. PICK x, y, q : /\ x = sess[d] /\ y = [x EXCEPT !.ops = {}]
                         /\ q = x.packet_in_ \o wire[d]
      OBVIOUS
    <2>2. SessionOrdered(x, q) /\ x \in Session /\ sess'[d] = y
      BY <1>1, <2>1 DEF ConfirmedInv, SessionConfirmed, OrderedInv
    <2>3. y.ops = {} /\ SameMembers(x, y)
      BY ONLY <2>1, <2>2 DEF Session, SameMembers
    <2>4. Quiet(y, q)
      BY <2>2, <2>3, SamePhase DEF SessionOrdered
    <2>5. y.started = x.started /\ y.packet_in_ = x.packet_in_ /\ (Waiting(x, q) => Waiting(y, q))
      BY <2>3 DEF SameMembers, Waiting, AtRest, Behind
    <2>6. SessionOrdered(y, q)
      BY <2>2, <2>3, <2>4, <2>5 DEF SessionOrdered
    <2> QED BY <1>1, <2>1, <2>2, <2>5, <2>6
  <1> QED BY <1>2 DEF OrderedInv

\* The handlers of a request in the clear.
LEMMA DirectOrdered ==
    ASSUME ConfirmedInv, OrderedInv, NEW c \in Sessions,
           \/ ResolvedDirect(c) \/ handle_connect_for_direct_request(c)
           \/ handle_write_for_direct_request(c) \/ handle_read_for_direct_request(c)
    PROVE  OrderedInv'
  <1>1. PICK q : q = sess[c].packet_in_ \o wire[c]
    OBVIOUS
  <1>2. PICK t : Set(c, t) /\ OrderedAs(t, q, sess[c].packet_in_) /\ wire' = wire
    <2>1. CASE ResolvedDirect(c)
      <3>1. PICK op \in Outstanding(c, "resolve"), n \in 1..MaxAddrs :
              Set(c, handle_resolve_for_direct_request(Take(c, op), n)) /\ wire' = wire
        BY <2>1 DEF ResolvedDirect
      <3>2. PICK s : s = Take(c, op) /\ op \in sess[c].ops /\ op.kind = "resolve"
        BY <3>1 DEF Outstanding
      <3>3. Rested(s, q) /\ OpOrdered(s, op, q) /\ s.packet_in_ = sess[c].packet_in_
        BY <1>1, <3>2, TakeOrdered
      <3>4. Going(s, q)
        BY <3>2, <3>3 DEF OpOrdered, Reaching
      <3>5. n \in Nat /\ n > 0
        BY <3>1, BoundsAssumption
      <3>6. OrderedAs(handle_resolve_for_direct_request(s, n), q, s.packet_in_)
        BY <3>3, <3>4, <3>5, TriesOrdered
      <3> QED BY <3>1, <3>2, <3>3, <3>6
    <2>2. CASE handle_connect_for_direct_request(c)
      <3>1. PICK op \in Outstanding(c, "connect") :
              /\ \/ Set(c, Forward(Take(c, op), sess[c].p_request_.host, "write2"))
                 \/ op.left > 0 /\ Set(c, handle_resolve_for_direct_request(Take(c, op), op.left))
                 \/ Set(c, Take(c, op))
              /\ wire' = wire
        BY <2>2 DEF handle_connect_for_direct_request
      <3>2. PICK s, host : /\ s = Take(c, op) /\ host = sess[c].p_request_.host
                           /\ op \in sess[c].ops /\ op.kind = "connect"
        BY <3>1 DEF Outstanding
      <3>3. /\ Rested(s, q) /\ OpOrdered(s, op, q) /\ s.packet_in_ = sess[c].packet_in_
            /\ op \in Operation /\ SameMembers(sess[c], s)
        BY <1>1, <3>2, TakeOrdered
      <3>4. Going(s, q)
        BY <3>2, <3>3 DEF OpOrdered, Reaching
      <3>5. host \in Names /\ op.left \in Nat /\ host = s.p_request_.host
        <4>1. s.p_request_ \in Request /\ s.p_request_ = sess[c].p_request_
          BY <3>3 DEF SameMembers, Session, Rested
        <4> QED BY <3>2, <3>3, <4>1 DEF Request, Operation
      <3>6. OrderedAs(Forward(s, host, "write2"), q, s.packet_in_)
        <4>1. Asked(s, q) /\ Posted(s, host) /\ Unanswered(s)
          BY <3>4, <3>5 DEF Going
        <4>2. PICK k \in {"write2", "write2ssl"} : k = "write2"
          OBVIOUS
        <4>3. Handed(Forward(s, host, k), q, s.packet_in_)
          BY <3>3, <3>5, <4>1, ForwardOrdered
        <4> QED BY <4>2, <4>3 DEF Handed
      <3>7. op.left > 0 => OrderedAs(handle_resolve_for_direct_request(s, op.left), q, s.packet_in_)
        BY <3>3, <3>4, <3>5, TriesOrdered
      <3>8. OrderedAs(s, q, s.packet_in_)
        BY <3>3, OrderedStops
      <3> QED BY <3>1, <3>2, <3>3, <3>6, <3>7, <3>8
    <2>3. CASE handle_write_for_direct_request(c)
      <3>1. PICK op \in Outstanding(c, "write2"), how \in Upstream :
              /\ Set(c, Start([Take(c, op) EXCEPT !.up = @ \o ReplyTokens(sess[c].p_request_, how)],
                              Op("read2")))
              /\ wire' = wire
        BY <2>3 DEF handle_write_for_direct_request
      <3>2. PICK s, t : /\ s = Take(c, op) /\ op \in sess[c].ops /\ op.kind = "write2"
                        /\ t = Start([s EXCEPT !.up = @ \o ReplyTokens(s.p_request_, how)], Op("read2"))
        BY <3>1 DEF Outstanding
      <3>3. /\ Rested(s, q) /\ OpOrdered(s, op, q) /\ s.packet_in_ = sess[c].packet_in_
            /\ SameMembers(sess[c], s)
        BY <1>1, <3>2, TakeOrdered
      <3>4. Outbound(s, q) /\ AtRest(s) /\ "read2" \in Receiving
        BY <3>1, <3>2, <3>3 DEF OpOrdered, Receiving
      <3>5. OrderedAs(t, q, s.packet_in_)
        BY <3>2, <3>3, <3>4, RepliedOrdered
      <3>6. s.p_request_ = sess[c].p_request_
        BY <3>3 DEF SameMembers
      <3> QED BY <3>1, <3>2, <3>3, <3>5, <3>6
    <2>4. CASE handle_read_for_direct_request(c)
      <3>1. PICK op \in Outstanding(c, "read2"), got \in Chunks(sess[c].up) :
              Set(c, Respond(Take(c, op), got, "read2", "reply")) /\ wire' = wire
        BY <2>4 DEF handle_read_for_direct_request
      <3>2. PICK s : s = Take(c, op) /\ op \in sess[c].ops /\ op.kind = "read2"
        BY <3>1 DEF Outstanding
      <3>3. /\ Rested(s, q) /\ OpOrdered(s, op, q) /\ s.packet_in_ = sess[c].packet_in_
            /\ SameMembers(sess[c], s)
        BY <1>1, <3>2, TakeOrdered
      <3>4. Coming(s, q) /\ got \in Chunks(s.up) /\ "read2" \in Receiving
        BY <3>1, <3>2, <3>3 DEF OpOrdered, Receiving, SameMembers
      <3>5. OrderedAs(Respond(s, got, "read2", "reply"), q, s.packet_in_)
        BY <3>3, <3>4, RespondOrdered
      <3> QED BY <3>1, <3>2, <3>3, <3>5
    <2> QED BY <2>1, <2>2, <2>3, <2>4
  <1> QED BY <1>1, <1>2, OrderedOwnStep

\* The response is written: the next request may be in the buffer already.
LEMMA ResponseOrdered ==
    ASSUME ConfirmedInv, OrderedInv, NEW c \in Sessions, handle_response_for_direct_request(c)
    PROVE  OrderedInv'
  <1>1. PICK op \in Outstanding(c, "reply") : \E u :
          /\ u = Answered(Take(c, op))
          /\ \/ Set(c, handle_read_http_request(u, <<>>, cached_credential_))
             \/ u.packet_in_ = <<>> /\ Set(c, do_read_http_request(u))
          /\ wire' = wire
    BY DEF handle_response_for_direct_request
  <1>2. PICK u : /\ u = Answered(Take(c, op))
                 /\ \/ Set(c, handle_read_http_request(u, <<>>, cached_credential_))
                    \/ u.packet_in_ = <<>> /\ Set(c, do_read_http_request(u))
                 /\ wire' = wire
    BY <1>1
  <1>3. PICK s, n, q : /\ s = Take(c, op) /\ n = s.filtered_response_
                       /\ q = sess[c].packet_in_ \o wire[c]
                       /\ op \in sess[c].ops /\ op.kind = "reply"
    BY <1>1 DEF Outstanding
  <1>4. /\ Rested(s, q) /\ OpOrdered(s, op, q) /\ s.packet_in_ = sess[c].packet_in_
        /\ OpConfirmed(s, op, confirmed) /\ s.packet_in_ \in Seq(Token) /\ wire[c] \in Seq(Token)
        /\ SameMembers(sess[c], s)
    BY <1>3, TakeOrdered
  <1>5. Back(s, q) /\ s.p_connect_request_ = NoRequest
    BY <1>3, <1>4 DEF OpOrdered, OpConfirmed, Tls
  <1>6. /\ n \in Nat /\ (OneEach => n = Len(s.answers) + 1) /\ AtRest(s) /\ Due(q, Len(s.answers) + 2)
        /\ Behind(s, Len(s.answers) + 1)
    BY <1>3, <1>4, <1>5 DEF Back, Rested, Session
  <1>7. u = [s EXCEPT !.answers = Append(@, n)]
    BY <1>2, <1>3 DEF Answered
  <1>8. /\ Rested(u, q) /\ Waiting(u, q) /\ u.packet_in_ = s.packet_in_
        /\ u.p_connect_request_ = NoRequest
    BY <1>4, <1>5, <1>6, <1>7, AnsweredOrdered
  <1>9. CASE Set(c, handle_read_http_request(u, <<>>, cached_credential_))
    <2>1. PICK e \in Seq(Token) : e = <<>>
      <3>1. <<>> \in Seq(Token)
        OBVIOUS
      <3> QED BY <3>1, Zenon
    <2>2. PICK t : t = handle_read_http_request(u, e, cached_credential_)
      OBVIOUS
    <2>3. u.packet_in_ \o e = u.packet_in_
      BY <1>4, <1>8, <2>1
    <2>4. (u.packet_in_ \o e) \o wire[c] = q
      BY <1>3, <1>4, <1>8, <2>3
    <2>5. SessionOrdered(t, t.packet_in_ \o wire[c])
      <3>1. now \in Nat /\ wire[c] \in Seq(Token)
        BY <1>4 DEF ConfirmedInv, Types
      <3> QED BY ONLY <1>8, <2>1, <2>2, <2>4, <3>1, ReadOrdered
    <2>6. Set(c, t)
      BY <1>9, <2>1, <2>2
    <2>7. SessionOrdered(t, t.packet_in_ \o wire'[c]) /\ \A d \in Sessions \ {c} : wire'[d] = wire[d]
      BY <1>2, <2>5
    <2> QED BY <2>6, <2>7, OrderedStep
  <1>10. CASE u.packet_in_ = <<>> /\ Set(c, do_read_http_request(u))
    <2>1. Heard(u)
      BY <1>10 DEF Heard, Parse
    <2>2. PICK p \in Operation : p = Op("read") /\ p.kind = "read"
      BY OpFacts DEF Kinds
    <2>3. OpOrdered(u, p, q)
      BY <1>8, <2>1, <2>2, Phases
    <2>4. PICK t : t = Start(u, p)
      OBVIOUS
    <2>5. OrderedAs(t, q, sess[c].packet_in_)
      BY <1>4, <1>8, <2>3, <2>4, OrderedStarts
    <2>6. Set(c, t)
      BY <1>10, <2>2, <2>4 DEF do_read_http_request
    <2> QED BY <1>2, <1>3, <2>5, <2>6, OrderedOwnStep
  <1> QED BY <1>2, <1>9, <1>10

\* The handlers after CONNECT.
LEMMA ConnectOrdered ==
    ASSUME ConfirmedInv, OrderedInv, NEW c \in Sessions,
           \/ ResolvedConnect(c) \/ handle_connect_for_connect_request(c)
           \/ HandshakeDone(c) \/ handle_ssl_proxy_request_for_connect_request(c)
           \/ handle_ssl_read_for_connect_request(c) \/ handle_ssl_response_for_connect_request(c)
    PROVE  OrderedInv'
  <1>1. PICK q : q = sess[c].packet_in_ \o wire[c]
    OBVIOUS
  <1>2. PICK t : Set(c, t) /\ OrderedAs(t, q, sess[c].packet_in_) /\ wire' = wire
    <2>1. CASE ResolvedConnect(c)
      <3>1. PICK op \in Outstanding(c, "resolve_connect"), n \in 1..MaxAddrs :
              Set(c, handle_resolve_for_connect_request(Take(c, op), n)) /\ wire' = wire
        BY <2>1 DEF ResolvedConnect
      <3>2. PICK s : s = Take(c, op) /\ op \in sess[c].ops /\ op.kind = "resolve_connect"
        BY <3>1 DEF Outstanding
      <3>3. Rested(s, q) /\ OpOrdered(s, op, q) /\ s.packet_in_ = sess[c].packet_in_
        BY <1>1, <3>2, TakeOrdered
      <3>4. Opening(s, q)
        BY <3>2, <3>3 DEF OpOrdered, Tunnelling
      <3>5. n \in Nat /\ n > 0
        BY <3>1, BoundsAssumption
      <3>6. OrderedAs(handle_resolve_for_connect_request(s, n), q, s.packet_in_)
        BY <3>3, <3>4, <3>5, TriesOrdered
      <3> QED BY <3>1, <3>2, <3>3, <3>6
    <2>2. CASE handle_connect_for_connect_request(c)
      <3>1. PICK op \in Outstanding(c, "connect_connect") :
              /\ \/ Set(c, Start(Take(c, op), Op("write200")))
                 \/ op.left > 0 /\ Set(c, handle_resolve_for_connect_request(Take(c, op), op.left))
                 \/ Set(c, Take(c, op))
              /\ wire' = wire
        BY <2>2 DEF handle_connect_for_connect_request
      <3>2. PICK s : s = Take(c, op) /\ op \in sess[c].ops /\ op.kind = "connect_connect"
        BY <3>1 DEF Outstanding
      <3>3. /\ Rested(s, q) /\ OpOrdered(s, op, q) /\ s.packet_in_ = sess[c].packet_in_
            /\ op \in Operation
        BY <1>1, <3>2, TakeOrdered
      <3>4. Opening(s, q) /\ op.left \in Nat
        BY <3>2, <3>3 DEF OpOrdered, Tunnelling, Operation
      <3>5. OrderedAs(Start(s, Op("write200")), q, s.packet_in_)
        <4>1. PICK p \in Operation : p = Op("write200") /\ p.kind = "write200"
          BY OpFacts DEF Kinds, Tls
        <4>2. OpOrdered(s, p, q)
          BY <3>4, <4>1, Phases DEF Tunnelling
        <4> QED BY <3>3, <4>1, <4>2, OrderedStarts
      <3>6. op.left > 0 => OrderedAs(handle_resolve_for_connect_request(s, op.left), q, s.packet_in_)
        BY <3>3, <3>4, TriesOrdered
      <3>7. OrderedAs(s, q, s.packet_in_)
        BY <3>3, OrderedStops
      <3> QED BY <3>1, <3>2, <3>3, <3>5, <3>6, <3>7
    <2>3. CASE HandshakeDone(c)
      <3>1. PICK op \in Outstanding(c, "handshake2") :
              Set(c, Start(Take(c, op), Op("readssl"))) /\ wire' = wire
        BY <2>3 DEF HandshakeDone, do_read_after_handshake_for_connect_request
      <3>2. PICK s : s = Take(c, op) /\ op \in sess[c].ops /\ op.kind = "handshake2"
        BY <3>1 DEF Outstanding
      <3>3. Rested(s, q) /\ OpOrdered(s, op, q) /\ s.packet_in_ = sess[c].packet_in_
        BY <1>1, <3>2, TakeOrdered
      <3>4. Waiting(s, q)
        BY <3>2, <3>3 DEF OpOrdered, Listening, Broken
      <3>5. PICK p \in Operation : p = Op("readssl") /\ p.kind = "readssl"
        BY OpFacts DEF Kinds, Tls
      <3>6. OpOrdered(s, p, q)
        BY <3>4, <3>5, Phases
      <3>7. OrderedAs(Start(s, p), q, s.packet_in_)
        BY <3>3, <3>6, OrderedStarts
      <3> QED BY <3>1, <3>2, <3>3, <3>5, <3>7
    <2>4. CASE handle_ssl_proxy_request_for_connect_request(c)
      <3>1. PICK op \in Outstanding(c, "write2ssl"), how \in Upstream :
              /\ Set(c, Start([Take(c, op) EXCEPT !.up = @ \o ReplyTokens(sess[c].p_request_, how)],
                              Op("read2ssl")))
              /\ wire' = wire
        BY <2>4 DEF handle_ssl_proxy_request_for_connect_request
      <3>2. PICK s, t : /\ s = Take(c, op) /\ op \in sess[c].ops /\ op.kind = "write2ssl"
                        /\ t = Start([s EXCEPT !.up = @ \o ReplyTokens(s.p_request_, how)],
                                     Op("read2ssl"))
        BY <3>1 DEF Outstanding
      <3>3. /\ Rested(s, q) /\ OpOrdered(s, op, q) /\ s.packet_in_ = sess[c].packet_in_
            /\ SameMembers(sess[c], s)
        BY <1>1, <3>2, TakeOrdered
      <3>4. Outbound(s, q) /\ AtRest(s) /\ "read2ssl" \in Receiving
        BY <3>1, <3>2, <3>3 DEF OpOrdered, Receiving
      <3>5. OrderedAs(t, q, s.packet_in_)
        BY <3>2, <3>3, <3>4, RepliedOrdered
      <3>6. s.p_request_ = sess[c].p_request_
        BY <3>3 DEF SameMembers
      <3> QED BY <3>1, <3>2, <3>3, <3>5, <3>6
    <2>5. CASE handle_ssl_read_for_connect_request(c)
      <3>1. PICK op \in Outstanding(c, "read2ssl"), got \in Chunks(sess[c].up) :
              Set(c, Respond(Take(c, op), got, "read2ssl", "replyssl")) /\ wire' = wire
        BY <2>5 DEF handle_ssl_read_for_connect_request
      <3>2. PICK s : s = Take(c, op) /\ op \in sess[c].ops /\ op.kind = "read2ssl"
        BY <3>1 DEF Outstanding
      <3>3. /\ Rested(s, q) /\ OpOrdered(s, op, q) /\ s.packet_in_ = sess[c].packet_in_
            /\ SameMembers(sess[c], s)
        BY <1>1, <3>2, TakeOrdered
      <3>4. Coming(s, q) /\ got \in Chunks(s.up) /\ "read2ssl" \in Receiving
        BY <3>1, <3>2, <3>3 DEF OpOrdered, Receiving, SameMembers
      <3>5. OrderedAs(Respond(s, got, "read2ssl", "replyssl"), q, s.packet_in_)
        BY <3>3, <3>4, RespondOrdered
      <3> QED BY <3>1, <3>2, <3>3, <3>5
    <2>6. CASE handle_ssl_response_for_connect_request(c)
      <3>1. PICK op \in Outstanding(c, "replyssl") :
              Set(c, Start(Answered(Take(c, op)), Op("readssl"))) /\ wire' = wire
        BY <2>6 DEF handle_ssl_response_for_connect_request, do_read_after_handshake_for_connect_request
      <3>2. PICK s, n, u : /\ s = Take(c, op) /\ op \in sess[c].ops /\ op.kind = "replyssl"
                           /\ n = s.filtered_response_ /\ u = Answered(s)
        BY <3>1 DEF Outstanding
      <3>3. Rested(s, q) /\ OpOrdered(s, op, q) /\ s.packet_in_ = sess[c].packet_in_
        BY <1>1, <3>2, TakeOrdered
      <3>4. Back(s, q)
        BY <3>2, <3>3 DEF OpOrdered
      <3>5. /\ n \in Nat /\ (OneEach => n = Len(s.answers) + 1) /\ AtRest(s)
            /\ Due(q, Len(s.answers) + 2) /\ Behind(s, Len(s.answers) + 1)
        BY <3>2, <3>3, <3>4 DEF Back, Rested, Session
      <3>6. u = [s EXCEPT !.answers = Append(@, n)]
        BY <3>2 DEF Answered
      <3>7. Rested(u, q) /\ Waiting(u, q) /\ u.packet_in_ = s.packet_in_
        BY <3>3, <3>5, <3>6, AnsweredOrdered
      <3>8. PICK p \in Operation : p = Op("readssl") /\ p.kind = "readssl"
        BY OpFacts DEF Kinds, Tls
      <3>9. OpOrdered(u, p, q)
        BY <3>7, <3>8, Phases
      <3>10. OrderedAs(Start(u, p), q, u.packet_in_)
        BY <3>7, <3>9, OrderedStarts
      <3> QED BY <3>1, <3>2, <3>3, <3>7, <3>8, <3>10
    <2> QED BY <2>1, <2>2, <2>3, <2>4, <2>5, <2>6
  <1> QED BY <1>1, <1>2, OrderedOwnStep

\* The answer to CONNECT, sent or not.
LEMMA EstablishedOrdered ==
    ASSUME ConfirmedInv, OrderedInv, NEW c \in Sessions, do_read_for_connect_request(c)
    PROVE  OrderedInv'
  <1>0. PICK op \in Outstanding(c, "write200"), sent \in BOOLEAN : \E v :
             /\ v = IF sent
                    THEN [Take(c, op) EXCEPT !.answers = Append(@, sess[c].p_connect_request_.id)]
                    ELSE Take(c, op)
             /\ \/ Set(c, v)
                \/ /\ v.packet_in_ = <<>>
                   /\ Set(c, Start([v EXCEPT !.domain = sess[c].p_connect_request_.host],
                                   OpLeft("handshake", IF sent THEN 1 ELSE 0)))
             /\ wire' = wire
    BY EstablishedMoves
  <1>1. PICK v :
             /\ v = IF sent
                    THEN [Take(c, op) EXCEPT !.answers = Append(@, sess[c].p_connect_request_.id)]
                    ELSE Take(c, op)
             /\ \/ Set(c, v)
                \/ /\ v.packet_in_ = <<>>
                   /\ Set(c, Start([v EXCEPT !.domain = sess[c].p_connect_request_.host],
                                   OpLeft("handshake", IF sent THEN 1 ELSE 0)))
             /\ wire' = wire
    BY <1>0
  <1>2. PICK s, n, host, q : /\ s = Take(c, op) /\ n = sess[c].p_connect_request_.id
                             /\ host = sess[c].p_connect_request_.host
                             /\ q = sess[c].packet_in_ \o wire[c]
                             /\ op \in sess[c].ops /\ op.kind = "write200"
    BY DEF Outstanding
  <1>3. /\ Rested(s, q) /\ OpOrdered(s, op, q) /\ s.packet_in_ = sess[c].packet_in_
        /\ SameMembers(sess[c], s) /\ s \in Session
    <2>1. /\ Rested(s, q) /\ OpOrdered(s, op, q) /\ s.packet_in_ = sess[c].packet_in_
          /\ SameMembers(sess[c], s)
      BY <1>2, TakeOrdered
    <2> QED BY <2>1 DEF Rested
  <1>4. Opening(s, q) /\ host \in Names /\ Len(s.answers) \in Nat /\ n = s.p_connect_request_.id
    <2>1. sess[c].p_connect_request_ \in Request /\ s.p_connect_request_ = sess[c].p_connect_request_
          /\ s.answers \in Seq(Nat)
      BY <1>3 DEF SameMembers, Session
    <2> QED BY <1>2, <1>3, <2>1 DEF Request, OpOrdered, Tunnelling
  <1>5. /\ n = Len(s.answers) + 1 /\ n \in Nat /\ AtRest(s) /\ Due(q, Len(s.answers) + 2)
        /\ Behind(s, Len(s.answers) + 1)
    BY <1>3, <1>4, BehindMore DEF Opening
  <1>6. /\ Rested(v, q) /\ (sent => Waiting(v, q)) /\ v.packet_in_ = s.packet_in_
    <2>1. CASE sent
      <3>1. v = [s EXCEPT !.answers = Append(@, n)]
        BY <1>1, <1>2, <2>1
      <3> QED BY <1>3, <1>5, <3>1, AnsweredOrdered
    <2>2. CASE ~ sent
      BY <1>1, <1>2, <1>3, <2>2
    <2> QED BY <2>1, <2>2
  <1>7. CASE Set(c, v)
    <2>1. OrderedAs(v, q, sess[c].packet_in_)
      BY <1>3, <1>6, OrderedStops
    <2> QED BY <1>1, <1>2, <1>7, <2>1, OrderedOwnStep
  <1>8. CASE /\ v.packet_in_ = <<>>
             /\ Set(c, Start([v EXCEPT !.domain = sess[c].p_connect_request_.host],
                             OpLeft("handshake", IF sent THEN 1 ELSE 0)))
    <2>1. PICK u, left : u = [v EXCEPT !.domain = host] /\ left = IF sent THEN 1 ELSE 0
      OBVIOUS
    <2>2. v \in Session
      BY <1>6 DEF Rested
    <2>3. /\ u \in Session /\ SameCore(v, u) /\ SameIn(v, u) /\ SameOut(v, u)
          /\ SameSent(v, u) /\ SamePosted(v, u) /\ u.forwarded = v.forwarded
      BY <1>4, <2>1, <2>2, DomainFacts
    <2>4. Rested(u, q) /\ u.packet_in_ = v.packet_in_
      BY <1>6, <2>3, RestedSame DEF SameSent, SameIn
    <2>5. Waiting(v, q) => Waiting(u, q)
      BY <2>3 DEF Waiting, AtRest, Behind, SameOut, SameSent
    <2>6. left \in Nat /\ (~ sent => left = 0)
      BY <2>1
    <2>7. PICK p \in Operation : p = OpLeft("handshake", left) /\ p.kind = "handshake" /\ p.left = left
      BY <2>6, OpFacts DEF Kinds, Tls
    <2>8. Broken(p) \/ Waiting(u, q)
      BY <1>6, <2>5, <2>6, <2>7 DEF Broken
    <2>9. OpOrdered(u, p, q)
      BY <1>8, <2>4, <2>7, <2>8, Phases
    <2>10. PICK t : t = Start(u, p)
      OBVIOUS
    <2>11. OrderedAs(t, q, sess[c].packet_in_)
      BY <1>3, <1>6, <2>4, <2>9, <2>10, OrderedStarts
    <2>12. Set(c, t)
      BY <1>2, <1>8, <2>1, <2>7, <2>10
    <2> QED BY <1>1, <1>2, <2>11, <2>12, OrderedOwnStep
  <1> QED BY <1>1, <1>7, <1>8

LEMMA HandshakeOrdered ==
    ASSUME ConfirmedInv, OrderedInv, NEW c \in Sessions, handle_handshake_for_connect_request(c)
    PROVE  OrderedInv'
  <1>1. PICK op \in Outstanding(c, "handshake") :
          /\ op.left = 1 /\ wire[c] # <<>> /\ Head(wire[c]) = Hello
          /\ wire' = [wire EXCEPT ![c] = Tail(@)]
          /\ Set(c, Start(Take(c, op), Op("handshake2")))
    BY DEF handle_handshake_for_connect_request
  <1>2. PICK s, q, v : /\ s = Take(c, op) /\ q = sess[c].packet_in_ \o wire[c] /\ v = Tail(wire[c])
                       /\ op \in sess[c].ops /\ op.kind = "handshake"
    BY <1>1 DEF Outstanding
  <1>3. /\ Rested(s, q) /\ OpOrdered(s, op, q) /\ s.packet_in_ = sess[c].packet_in_
        /\ wire[c] \in Seq(Token) /\ q \in Seq(Token)
    BY <1>2, TakeOrdered
  <1>4. Waiting(s, q) /\ s.packet_in_ = <<>>
    BY <1>1, <1>2, <1>3 DEF OpOrdered, Listening, Broken
  <1>5. q = wire[c]
    <2>1. <<>> \o wire[c] = wire[c]
      BY <1>3
    <2> QED BY <1>2, <1>3, <1>4, <2>1
  <1>6. /\ Len(q) > 0 /\ q[1].part = 0 /\ v = SubSeq(q, 2, Len(q)) /\ v \in Seq(Token)
    <2>1. Len(q) > 0 /\ q[1] = Hello /\ Tail(q) \in Seq(Token) /\ Tail(q) = SubSeq(q, 2, Len(q))
      BY <1>1, <1>3, <1>5
    <2> QED BY <1>2, <1>5, <2>1 DEF Hello
  <1>7. PICK n \in Nat : n = Len(s.answers) + 1
    BY <1>3 DEF Rested, Session
  <1>8. Ordered(v) /\ Due(v, n)
    <2>1. Ordered(q) /\ Due(q, n)
      BY <1>3, <1>4, <1>7 DEF Rested, Quiet, Waiting
    <2> QED BY <1>3, <1>6, <2>1, DueAfterHello
  <1>9. Rested(s, v) /\ Waiting(s, v)
    BY <1>3, <1>4, <1>7, <1>8 DEF Rested, Quiet, Waiting
  <1>10. PICK p \in Operation : p = Op("handshake2") /\ p.kind = "handshake2"
    BY OpFacts DEF Kinds, Tls
  <1>11. OpOrdered(s, p, v)
    BY <1>9, <1>10, Phases
  <1>12. PICK t : t = Start(s, p)
    OBVIOUS
  <1>13. OrderedAs(t, v, s.packet_in_)
    BY <1>9, <1>11, <1>12, OrderedStarts
  <1>14. t.packet_in_ \o v = v
    BY <1>4, <1>6, <1>13 DEF OrderedAs
  <1>15. wire'[c] = v /\ \A d \in Sessions \ {c} : wire'[d] = wire[d]
    BY <1>1, <1>2 DEF ConfirmedInv, Types
  <1>16. SessionOrdered(t, t.packet_in_ \o wire'[c])
    BY <1>13, <1>14, <1>15 DEF OrderedAs
  <1> QED BY <1>1, <1>2, <1>10, <1>12, <1>15, <1>16, OrderedStep

LEMMA InitOrdered == Init => OrderedInv
  <1> SUFFICES ASSUME Init PROVE OrderedInv
    OBVIOUS
  <1>1. PICK f \in [Sessions -> UNION {Scripts[c] : c \in Sessions}] :
          (\A c \in Sessions : f[c] \in Scripts[c]) /\ wire = [c \in Sessions |-> Stream(f[c])]
    BY DEF Init
  <1>2. sess = [c \in Sessions |-> NewSession]
    BY DEF Init
  <1>3. SUFFICES ASSUME NEW c \in Sessions PROVE SessionOrdered(sess[c], sess[c].packet_in_ \o wire[c])
    BY DEF OrderedInv
  <1>4. PICK x, w : x = sess[c] /\ w = wire[c]
    OBVIOUS
  <1>5. w \in Seq(Token) /\ Ordered(w) /\ Due(w, 1)
    BY <1>1, <1>4, StreamFacts
  <1>6. /\ x.ops = {} /\ x.packet_in_ = <<>> /\ x.packet2_in_ = <<>> /\ x.up = <<>>
        /\ x.answers = <<>> /\ x.forwarded = {} /\ x.posts = {}
    BY <1>2, <1>4 DEF NewSession
  <1>7. x.packet_in_ \o w = w /\ Len(x.answers) = 0
    BY <1>5, <1>6
  <1>8. Quiet(x, w)
    BY <1>5, <1>6, <1>7 DEF Quiet, Paired
  <1>9. Waiting(x, w)
    BY <1>5, <1>6, <1>7 DEF Waiting, AtRest, Behind
  <1>10. SessionOrdered(x, w)
    BY <1>6, <1>8, <1>9 DEF SessionOrdered
  <1> QED BY <1>4, <1>7, <1>10

LEMMA NextOrdered == ConfirmedInv /\ OrderedInv /\ [Next]_vars => OrderedInv'
  <1> SUFFICES ASSUME ConfirmedInv, OrderedInv, [Next]_vars PROVE OrderedInv'
    OBVIOUS
  <1>1. CASE UNCHANGED vars
    BY <1>1 DEF vars, OrderedInv
  <1>2. CASE Tick
    BY <1>2 DEF Tick, OrderedInv
  <1>3. ASSUME NEW c \in Sessions,
               \/ do_accept(c) \/ Fail(c) \/ ReadRequest(c) \/ Wrote407(c)
               \/ VerifierResolved(c) \/ VerifierConnected(c) \/ VerifierWritten(c)
               \/ Verified(c) \/ VerifierFails(c)
        PROVE  OrderedInv'
    BY <1>3, AcceptOrdered, FailOrdered, ReadRequestOrdered, Wrote407Ordered,
       VerifierOrdered, VerifiedOrdered, VerifierFailsOrdered
  <1>4. ASSUME NEW c \in Sessions,
               \/ ResolvedDirect(c) \/ handle_connect_for_direct_request(c)
               \/ handle_write_for_direct_request(c) \/ handle_read_for_direct_request(c)
               \/ handle_response_for_direct_request(c)
        PROVE  OrderedInv'
    BY <1>4, DirectOrdered, ResponseOrdered
  <1>5. ASSUME NEW c \in Sessions,
               \/ ResolvedConnect(c) \/ handle_connect_for_connect_request(c)
               \/ do_read_for_connect_request(c) \/ handle_handshake_for_connect_request(c)
               \/ HandshakeDone(c) \/ ReadSsl(c)
               \/ handle_ssl_proxy_request_for_connect_request(c)
               \/ handle_ssl_read_for_connect_request(c)
               \/ handle_ssl_response_for_connect_request(c)
        PROVE  OrderedInv'
    BY <1>5, ConnectOrdered, EstablishedOrdered, HandshakeOrdered, ReadSslOrdered
  <1> QED BY <1>1, <1>2, <1>3, <1>4, <1>5 DEF Next

LEMMA AlwaysOrdered == Spec => [](ConfirmedInv /\ OrderedInv)
  <1>1. Init => ConfirmedInv /\ OrderedInv
    BY InitConfirmed, InitOrdered
  <1>2. ConfirmedInv /\ OrderedInv /\ [Next]_vars => (ConfirmedInv /\ OrderedInv)'
    BY NextConfirmed, NextOrdered
  <1> QED BY <1>1, <1>2, PTL DEF Spec

-----------------------------------------------------------------------------
(* The properties that follow from it, the first two for origins that send *)
(* one response for a request                                              *)

\* A client gets the answers to its requests in the order it sent them, and
\* none twice, however its bytes and those of the origins are fragmented,
\* whatever it pipelines and wherever its session ends (session.cpp: answers
\* are the writes of a 407, of "200 Connection established" and of a response).
THEOREM AnsweredInOrder == ASSUME "interim" \notin Upstream PROVE Spec => []AnswersInOrder
  <1>1. ConfirmedInv /\ OrderedInv => AnswersInOrder
    <2> SUFFICES ASSUME ConfirmedInv, OrderedInv, NEW c \in Sessions, NEW i \in DOMAIN sess[c].answers
        PROVE  sess[c].answers[i] = i
      BY DEF AnswersInOrder
    <2>1. SessionOrdered(sess[c], sess[c].packet_in_ \o wire[c])
      BY DEF OrderedInv
    <2>2. sess[c].answers \in Seq(Nat)
      BY DEF ConfirmedInv, Types, Session
    <2>3. i \in 1..Len(sess[c].answers)
      BY <2>2
    <2> QED BY <2>1, <2>3 DEF SessionOrdered, Quiet, OneEach
  <1> QED BY <1>1, AlwaysOrdered, PTL

\* Whatever is posted to the collector can be paired: guid_ names one request
\* and at most one response to it, and what was forwarded was posted under it
\* with the host it went to.
THEOREM PostsArePaired == ASSUME "interim" \notin Upstream PROVE Spec => []CollectorCanPair
  <1>1. OrderedInv => CollectorCanPair
    BY DEF OrderedInv, SessionOrdered, Quiet, Paired, OneEach, CollectorCanPair
  <1> QED BY <1>1, AlwaysOrdered, PTL

\* After a response in the clear, a request that is complete in packet_in_ is
\* served without waiting for the client (handle_response_for_direct_request),
\* whatever origins send.
THEOREM PipelinedRequestsAreServed == Spec => []PipelinedIsServed
  <1>1. OrderedInv => PipelinedIsServed
    <2> SUFFICES ASSUME OrderedInv, NEW c \in Sessions, NEW op \in sess[c].ops,
                        op.kind = "read", Parse(sess[c].packet_in_) = "OK",
                        NEW f \in sess[c].forwarded, sess[c].answers # <<>>
        PROVE  f.req.id # Last(sess[c].answers)
      BY DEF PipelinedIsServed
    <2>1. SessionOrdered(sess[c], sess[c].packet_in_ \o wire[c])
      BY DEF OrderedInv
    <2>2. Heard(sess[c])
      BY <2>1 DEF SessionOrdered, OpOrdered
    <2> QED BY <2>2 DEF Heard
  <1> QED BY <1>1, AlwaysOrdered, PTL
==============================================================================
