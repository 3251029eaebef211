---------------------------- MODULE ProxySession ----------------------------
(***************************************************************************)
(* The intercepting proxy of http_proxy/: asio sessions that read requests *)
(* from a client, check its credentials with a verification service (and   *)
(* a cache shared by all sessions), forward the requests to their origin,  *)
(* pass the responses back and post a copy of both to a collector.  After  *)
(* CONNECT the session talks TLS to both sides and goes on with requests.  *)
(*                                                                         *)
(* A session is the record of its members.  `ops' holds the asynchronous   *)
(* operations it has outstanding: a handler takes its operation out and    *)
(* may start others; a session without any is destroyed (nothing holds     *)
(* `self').  Every operator below that is named after a method takes the   *)
(* record before the call and returns the record after it.                 *)
(*                                                                         *)
(* Bytes are abstracted to tokens: a message arrives as two of them, part  *)
(* 1 and part 2, in any fragmentation; the TLS hello is one.               *)
(***************************************************************************)
EXTENDS Naturals, Sequences, FiniteSets, SequencesExt

CONSTANTS
  Sessions,        \* the connections the server may accept
  Names,           \* the methods, users, passwords and hosts of requests
  Scripts,         \* per session: the request sequences its client may send
  Upstream,        \* what an origin answers: "whole", "bad", "interim"
  MaxAddrs,        \* addresses a name may resolve to
  MaxPacket,       \* MAX_REQUEST_PACKET_SIZE, in tokens
  Large,           \* the requests with a response above MAX_RESPONSE_PACKET_SIZE
  Expire,          \* Cache::DEFAULT_EXPIRE, in ticks
  MaxTime          \* bound on the clock

ASSUME BoundsAssumption ==
  /\ MaxAddrs \in Nat \ {0} /\ MaxPacket \in Nat \ {0}
  /\ Expire \in Nat /\ MaxTime \in Nat
  /\ Upstream \subseteq {"whole", "bad", "interim"}

VARIABLES
  sess,            \* [Sessions -> the members of the session]
  wire,            \* [Sessions -> tokens the client has yet to be read from]
  cached_credential_,  \* user -> [pass, expire]
  certs,           \* domains whose certificate file exists
  domain_context_, \* domains with an SSL context
  now,             \* the clock of the cache
  crashed,         \* the process is gone
  confirmed        \* history: the verifier's positive answers, [cred, at]

vars == <<sess, wire, cached_credential_, certs, domain_context_, now, crashed,
          confirmed>>

NoHost == "nohost"
\* The Proxy-Authorization of a request: none, one that is not "Basic" with a
\* user and a password, or those two.
NoCred == [user |-> "none", pass |-> ""]
BadCred == [user |-> "malformed", pass |-> ""]
NoRequest == [id |-> 0, method |-> "none", cred |-> NoCred, host |-> NoHost]
Hello == [msg |-> NoRequest, part |-> 0]
Tokens(m) == <<[msg |-> m, part |-> 1], [msg |-> m, part |-> 2]>>

Request == [id : Nat, method : Names, cred : [user : Names, pass : Names], host : Names]

\* Requests are told apart by their place in what their client sends.
ASSUME ScriptsAssumption ==
  /\ {"", "none", "malformed", NoHost} \subseteq Names
  /\ \A c \in Sessions : \A script \in Scripts[c] :
       script \in Seq(Request) /\ \A i \in DOMAIN script : script[i].id = i

\* What the client sends for a request: after CONNECT it begins TLS.
BytesOf(r) == IF r.method = "connect" THEN Append(Tokens(r), Hello) ELSE Tokens(r)
Stream(script) == FlattenSeq([i \in DOMAIN script |-> BytesOf(script[i])])

NewSession ==
  [ops |-> {}, packet_in_ |-> <<>>, packet2_in_ |-> <<>>, p_request_ |-> NoRequest,
   p_connect_request_ |-> NoRequest, guid_ |-> 0, auth_user_ |-> "none",
   filtered_response_ |-> 0, domain |-> NoHost, up |-> <<>>, started |-> FALSE,
   \* history: answers sent, requests forwarded, posts, admissions
   answers |-> <<>>, forwarded |-> {}, posts |-> {}, admitted |-> {}]

Op(kind) == [kind |-> kind, left |-> 0, cred |-> NoCred]
\* An operation that is under way already and is started again counts.
Start(s, op) == [s EXCEPT !.ops = @ \cup {IF op \in @ THEN Op("twice") ELSE op}]
OpLeft(kind, left) == [Op(kind) EXCEPT !.left = left]

-----------------------------------------------------------------------------
(* Parsing.  A request or response is complete with its second token.      *)

\* HttpRequest::parse_request, HttpResponse::parse_response: "AG" asks for
\* more bytes, "NG" gives up; a complete message may be followed by others.
Parse(packet) ==
  IF packet # <<>> /\ packet[1].part = 3 THEN "NG"
  ELSE IF Len(packet) >= 2 /\ packet[1].part = 1 THEN "OK" ELSE "AG"
parsed_length == 2

\* What an origin sends for request r: a response in two tokens, one that
\* does not parse, or an interim response (100) and then the real one.
ReplyTokens(r, how) ==
  CASE how = "whole"   -> Tokens(r)
    [] how = "bad"     -> <<[msg |-> r, part |-> 3]>>
    [] how = "interim" -> Tokens([r EXCEPT !.id = 0]) \o Tokens(r)

-----------------------------------------------------------------------------
(* Cache                                                                   *)

\* Cache::set
CacheSet(cache, user, pass) ==
  [u \in DOMAIN cache \cup {user} |->
     IF u = user THEN [pass |-> pass, expire |-> now + Expire] ELSE cache[u]]

CacheHitForgetsExpiry(cache, user) == user \in DOMAIN cache

\* Cache::get: whether it finds the user, and the cache afterwards.
CacheHit(cache, user) == user \in DOMAIN cache /\ ~ (cache[user].expire < now)
CacheAfterGet(cache, user) ==
  IF CacheHit(cache, user) THEN cache
  ELSE [u \in DOMAIN cache \ {user} |-> cache[u]]

-----------------------------------------------------------------------------
(* Copies to the collector.  post_http_request hands the text to a client  *)
(* of its own whose outcome is ignored, so only what is posted is kept.    *)

post_request(s) ==
  [s EXCEPT !.posts = @ \cup
     {[type |-> "request", uuid |-> s.guid_, msg |-> s.p_request_.id,
       user |-> s.auth_user_,
       host |-> IF s.p_connect_request_ # NoRequest
                THEN s.p_connect_request_.host ELSE s.p_request_.host]}]

\* A response that is too large is not posted.
post_response(s) ==
  LET copy == [type |-> "response", uuid |-> s.guid_, msg |-> s.filtered_response_,
               user |-> "", host |-> ""]
  IN  [s EXCEPT !.posts = @ \cup (IF s.filtered_response_ \in Large THEN {} ELSE {copy})]

-----------------------------------------------------------------------------
(* Admission of a request                                                  *)

do_read_http_request(s) == Start(s, Op("read"))

do_write_407_unauthorized(s) ==
  Start([s EXCEPT !.filtered_response_ = s.p_request_.id], Op("write407"))

do_direct_request(s) ==
  IF s.p_request_.host = NoHost THEN s ELSE Start(s, Op("resolve"))

do_connect_request(s) ==
  IF s.p_request_.host = NoHost THEN s ELSE Start(s, Op("resolve_connect"))

Admit(s) == [s EXCEPT !.admitted = @ \cup {[id |-> s.p_request_.id, at |-> now]}]

do_after_auth_keeps_guid(s) ==
  IF s.p_request_.method = "connect"
  THEN do_connect_request([Admit(s) EXCEPT !.p_connect_request_ = s.p_request_])
  ELSE do_direct_request(post_request(Admit(s)))

do_after_auth(s) ==
  IF s.p_request_.method = "connect"
  THEN do_connect_request([Admit(s) EXCEPT !.p_connect_request_ = s.p_request_])
  ELSE do_direct_request(post_request([Admit(s) EXCEPT !.guid_ = @ + 1]))

\* p_client->post: the client of the verification service begins to resolve.
Verify(s) == Start(s, [kind |-> "v_resolve", left |-> 0, cred |-> s.p_request_.cred])

do_auth_falls_through(s, cache) ==
  LET cred == s.p_request_.cred
      t == [s EXCEPT !.auth_user_ = cred.user]
  IN  IF cred = BadCred THEN s
      ELSE IF CacheHit(cache, cred.user) /\ cache[cred.user].pass = cred.pass
           THEN Verify(do_after_auth(t))
           ELSE Verify(t)

\* A credential that cannot be taken apart, or one that differs from the
\* cached one, ends the session; a user that is not cached is verified.
do_auth(s, cache) ==
  LET cred == s.p_request_.cred
      t == [s EXCEPT !.auth_user_ = cred.user]
  IN  IF cred = BadCred THEN s
      ELSE IF ~ CacheHit(cache, cred.user) THEN Verify(t)
      ELSE IF cache[cred.user].pass # cred.pass THEN t
      ELSE do_after_auth(t)

Consults(s) == s.p_request_.cred \notin {NoCred, BadCred}

\* handle_read_http_request without an error: got is what was read.  The
\* request is cut off packet_in_ after its handler was called.
handle_read_http_request_keeps(s, got, cache) ==
  LET t == [s EXCEPT !.packet_in_ = @ \o got]
      r == [t EXCEPT !.p_request_ = t.packet_in_[1].msg]
  IN  IF Len(t.packet_in_) > MaxPacket \/ Parse(t.packet_in_) = "NG" THEN t
      ELSE IF Parse(t.packet_in_) = "AG" THEN do_read_http_request(t)
      ELSE IF r.p_request_.cred = NoCred THEN do_write_407_unauthorized(r)
           ELSE do_auth(r, cache)

handle_read_http_request(s, got, cache) ==
  LET t == [s EXCEPT !.packet_in_ = @ \o got]
      r == [t EXCEPT !.p_request_ = t.packet_in_[1].msg]
      h == IF r.p_request_.cred = NoCred THEN do_write_407_unauthorized(r)
           ELSE do_auth(r, cache)
  IN  IF Len(t.packet_in_) > MaxPacket \/ Parse(t.packet_in_) = "NG" THEN t
      ELSE IF Parse(t.packet_in_) = "AG" THEN do_read_http_request(t)
      ELSE [h EXCEPT !.packet_in_ = SubSeq(@, parsed_length + 1, Len(@))]

\* The cache after that: Cache::get erases an entry that has expired.
CacheAfterRead(s, got, cache) ==
  LET t == handle_read_http_request(s, got, cache)
      packet == s.packet_in_ \o got
  IN  IF Len(packet) <= MaxPacket /\ Parse(packet) = "OK" /\ Consults(t)
      THEN CacheAfterGet(cache, t.p_request_.cred.user) ELSE cache

-----------------------------------------------------------------------------
(* Handlers.  Done(c, k) is the completion of session c's operation of     *)
(* kind k; Failed is its completion with an error, after which the session *)
(* has nothing left to do.                                                 *)

Outstanding(c, k) == {op \in sess[c].ops : op.kind = k}
Take(c, op) == [sess[c] EXCEPT !.ops = @ \ {op}]
Set(c, s) == sess' = [sess EXCEPT ![c] = s]
Chunks(q) == {SubSeq(q, 1, n) : n \in 1 .. Len(q)}
Rest(q, got) == SubSeq(q, Len(got) + 1, Len(q))
Shared == <<cached_credential_, certs, domain_context_, now, crashed, confirmed>>

\* Server::do_accept: the session begins to read.
do_accept(c) ==
  /\ ~ sess[c].started
  /\ Set(c, do_read_http_request([sess[c] EXCEPT !.started = TRUE]))
  /\ UNCHANGED <<wire, Shared>>

\* Any operation of a session but its own verification may fail: every
\* handler with an error code returns without starting another, except that
\* a connect goes on with the next address.
Fail(c) ==
  \E op \in sess[c].ops :
    /\ op.kind \notin {"connect", "connect_connect", "write200",
                       "v_resolve", "v_connect", "v_write", "v_read"}
    /\ Set(c, Take(c, op))
    /\ UNCHANGED <<wire, Shared>>

ReadRequest(c) ==
  \E op \in Outstanding(c, "read"), got \in Chunks(wire[c]) :
    /\ Set(c, handle_read_http_request(Take(c, op), got, cached_credential_))
    /\ wire' = [wire EXCEPT ![c] = Rest(@, got)]
    /\ cached_credential_' = CacheAfterRead(Take(c, op), got, cached_credential_)
    /\ UNCHANGED <<certs, domain_context_, now, crashed, confirmed>>

Wrote407(c) ==
  \E op \in Outstanding(c, "write407") :
    /\ Set(c, do_read_http_request(
           [Take(c, op) EXCEPT !.answers = Append(@, sess[c].filtered_response_)]))
    /\ UNCHANGED <<wire, Shared>>
-----------------------------------------------------------------------------
(* AsyncHttpClient, here for the verification service: it resolves, tries  *)
(* each address, writes the request and reads until a response is complete *)
(* (how many reads that takes does not matter to the session).  done calls *)
(* back once and deletes the client.                                       *)

\* handle_resolve with the addresses found.
VerifierResolved(c) ==
  \E op \in Outstanding(c, "v_resolve"), n \in 1 .. MaxAddrs :
    /\ Set(c, Start(Take(c, op), [op EXCEPT !.kind = "v_connect", !.left = n - 1]))
    /\ UNCHANGED <<wire, Shared>>

\* handle_connect: on to the write, or the next address.
VerifierConnected(c) ==
  \E op \in Outstanding(c, "v_connect") :
    /\ \/ Set(c, Start(Take(c, op), [op EXCEPT !.kind = "v_write", !.left = 0]))
       \/ /\ op.left > 0
          /\ Set(c, Start(Take(c, op), [op EXCEPT !.left = @ - 1]))
    /\ UNCHANGED <<wire, Shared>>

VerifierWritten(c) ==
  \E op \in Outstanding(c, "v_write") :
    /\ Set(c, Start(Take(c, op), [op EXCEPT !.kind = "v_read"]))
    /\ UNCHANGED <<wire, Shared>>

\* done(true, response): the callback of do_auth.  Anything but a body that
\* says status 200 is a refusal.
Verified(c) ==
  \E op \in Outstanding(c, "v_read") :
    /\ \/ /\ cached_credential_' =
               CacheSet(cached_credential_, op.cred.user, op.cred.pass)
          /\ confirmed' = confirmed \cup {[cred |-> op.cred, at |-> now]}
          /\ Set(c, do_after_auth(Take(c, op)))
       \/ /\ Set(c, do_write_407_unauthorized(Take(c, op)))
          /\ UNCHANGED <<cached_credential_, confirmed>>
    /\ UNCHANGED <<wire, certs, domain_context_, now, crashed>>

\* done(false): the callback reads the body of a response that is null, and
\* the process dies with all of its sessions.  handle_resolve, the write and
\* the read fail at once, a connect when it was the last address.
VerifierFails(c) ==
  /\ \E op \in sess[c].ops :
       \/ op.kind \in {"v_resolve", "v_write", "v_read"}
       \/ op.kind = "v_connect" /\ op.left = 0
  /\ crashed' = TRUE
  /\ sess' = [x \in Sessions |-> [sess[x] EXCEPT !.ops = {}]]
  /\ UNCHANGED <<wire, cached_credential_, certs, domain_context_, now, confirmed>>

-----------------------------------------------------------------------------
(* Direct requests: a connection to the origin of its own for each.        *)

handle_resolve_for_direct_request(s, n) ==
  Start([s EXCEPT !.up = <<>>], OpLeft("connect", n - 1))

ResolvedDirect(c) ==
  \E op \in Outstanding(c, "resolve"), n \in 1 .. MaxAddrs :
    /\ Set(c, handle_resolve_for_direct_request(Take(c, op), n))
    /\ UNCHANGED <<wire, Shared>>

\* The packet goes out to the host of the request, without its credentials.
Forward(s, host, kind) ==
  Start([s EXCEPT !.forwarded = @ \cup {[req |-> s.p_request_, host |-> host,
                                         by |-> s.p_connect_request_,
                                         uuid |-> s.guid_]}],
        Op(kind))

handle_connect_for_direct_request(c) ==
  \E op \in Outstanding(c, "connect") :
    /\ \/ Set(c, Forward(Take(c, op), sess[c].p_request_.host, "write2"))
       \/ IF op.left > 0
          THEN Set(c, handle_resolve_for_direct_request(Take(c, op), op.left))
          ELSE Set(c, Take(c, op))
    /\ UNCHANGED <<wire, Shared>>

handle_write_for_direct_request(c) ==
  \E op \in Outstanding(c, "write2"), how \in Upstream :
    /\ Set(c, Start([Take(c, op) EXCEPT
                        !.up = @ \o ReplyTokens(sess[c].p_request_, how)],
                    Op("read2")))
    /\ UNCHANGED <<wire, Shared>>

\* A read from the origin: more is read until a response parses; then it is
\* posted and written to the client, and whatever followed it is dropped.
Respond(s, got, again, reply) ==
  LET t == [s EXCEPT !.packet2_in_ = @ \o got, !.up = Rest(@, got)]
      f == [t EXCEPT !.filtered_response_ = t.packet2_in_[1].msg.id]
  IN  CASE Parse(t.packet2_in_) = "NG" -> t
        [] Parse(t.packet2_in_) = "AG" -> Start(t, Op(again))
        [] OTHER -> Start([post_response(f) EXCEPT !.packet2_in_ = <<>>], Op(reply))

handle_read_for_direct_request(c) ==
  \E op \in Outstanding(c, "read2"), got \in Chunks(sess[c].up) :
    /\ Set(c, Respond(Take(c, op), got, "read2", "reply"))
    /\ UNCHANGED <<wire, Shared>>

Answered(s) == [s EXCEPT !.answers = Append(@, s.filtered_response_)]

\* A pipelined request is handled without waiting for more bytes.
handle_response_just_reads(c) ==
  \E op \in Outstanding(c, "reply") :
    /\ Set(c, do_read_http_request(Answered(Take(c, op))))
    /\ UNCHANGED <<wire, Shared>>

handle_response_for_direct_request(c) ==
  \E op \in Outstanding(c, "reply") :
    LET s == Answered(Take(c, op)) IN
    /\ IF s.packet_in_ # <<>>
       THEN /\ Set(c, handle_read_http_request(s, <<>>, cached_credential_))
            /\ cached_credential_' = CacheAfterRead(s, <<>>, cached_credential_)
       ELSE /\ Set(c, do_read_http_request(s))
            /\ UNCHANGED cached_credential_
    /\ UNCHANGED <<wire, certs, domain_context_, now, crashed, confirmed>>

-----------------------------------------------------------------------------
(* CONNECT: one connection to the origin, TLS on both sides, then requests *)

handle_resolve_for_connect_request(s, n) ==
  Start([s EXCEPT !.up = <<>>], OpLeft("connect_connect", n - 1))

ResolvedConnect(c) ==
  \E op \in Outstanding(c, "resolve_connect"), n \in 1 .. MaxAddrs :
    /\ Set(c, handle_resolve_for_connect_request(Take(c, op), n))
    /\ UNCHANGED <<wire, Shared>>

handle_connect_for_connect_request(c) ==
  \E op \in Outstanding(c, "connect_connect") :
    /\ \/ Set(c, Start(Take(c, op), Op("write200")))
       \/ IF op.left > 0
          THEN Set(c, handle_resolve_for_connect_request(Take(c, op), op.left))
          ELSE Set(c, Take(c, op))
    /\ UNCHANGED <<wire, Shared>>

\* Cert::cert_for_domain: an existing file is used, else openssl may fail.
cert_for_domain(domain) == IF domain \in certs THEN {TRUE} ELSE BOOLEAN

\* context_for_domain with the certificate there: the context is created
\* once and kept.
context_for_domain(domain) == domain_context_' = domain_context_ \cup {domain}

\* The write of "200 Connection established" is over, ec is not looked at:
\* after an error the handshake is what fails.  Bytes that came along with
\* the CONNECT end the session.
do_read_for_connect_request(c) ==
  \E op \in Outstanding(c, "write200"), sent \in BOOLEAN :
    LET domain == sess[c].p_connect_request_.host
        s == IF sent
             THEN [Take(c, op) EXCEPT !.answers = Append(@, sess[c].p_connect_request_.id)]
             ELSE Take(c, op)
    IN
    /\ \/ s.packet_in_ # <<>> /\ Set(c, s) /\ UNCHANGED <<certs, domain_context_>>
       \/ /\ s.packet_in_ = <<>>
          /\ \E ok \in cert_for_domain(domain) :
               IF ok
               THEN /\ certs' = certs \cup {domain}
                    /\ context_for_domain(domain)
                    /\ Set(c, Start([s EXCEPT !.domain = domain],
                                   OpLeft("handshake", IF sent THEN 1 ELSE 0)))
               ELSE Set(c, s) /\ UNCHANGED <<certs, domain_context_>>
    /\ UNCHANGED <<wire, cached_credential_, now, crashed, confirmed>>

\* The handshake with the client succeeds if TLS is what the client speaks
\* and the connection is intact (left = 1); then the origin's.
handle_handshake_for_connect_request(c) ==
  \E op \in Outstanding(c, "handshake") :
    /\ op.left = 1 /\ wire[c] # <<>> /\ Head(wire[c]) = Hello
    /\ wire' = [wire EXCEPT ![c] = Tail(@)]
    /\ Set(c, Start(Take(c, op), Op("handshake2")))
    /\ UNCHANGED Shared

do_read_after_handshake_for_connect_request(s) == Start(s, Op("readssl"))

HandshakeDone(c) ==
  \E op \in Outstanding(c, "handshake2") :
    /\ Set(c, do_read_after_handshake_for_connect_request(Take(c, op)))
    /\ UNCHANGED <<wire, Shared>>

\* do_ssl_proxy_request_for_connect_request: to the origin of the CONNECT.
do_ssl_proxy_request_for_connect_request(s) == Forward(s, s.p_connect_request_.host, "write2ssl")

\* As in the clear, but for the credentials: CONNECT brought those.
handle_read_after_handshake_for_connect_request(s, got) ==
  LET t == [s EXCEPT !.packet_in_ = @ \o got]
      r == [t EXCEPT !.p_request_ = t.packet_in_[1].msg, !.guid_ = @ + 1]
      h == do_ssl_proxy_request_for_connect_request(post_request(r))
  IN  IF Len(t.packet_in_) > MaxPacket \/ Parse(t.packet_in_) = "NG" THEN t
      ELSE IF Parse(t.packet_in_) = "AG"
           THEN do_read_after_handshake_for_connect_request(t)
      ELSE [h EXCEPT !.packet_in_ = SubSeq(@, parsed_length + 1, Len(@))]

ReadSsl(c) ==
  \E op \in Outstanding(c, "readssl"), got \in Chunks(wire[c]) :
    /\ Set(c, handle_read_after_handshake_for_connect_request(Take(c, op), got))
    /\ wire' = [wire EXCEPT ![c] = Rest(@, got)]
    /\ UNCHANGED Shared

handle_ssl_proxy_request_for_connect_request(c) ==
  \E op \in Outstanding(c, "write2ssl"), how \in Upstream :
    /\ Set(c, Start([Take(c, op) EXCEPT
                        !.up = @ \o ReplyTokens(sess[c].p_request_, how)],
                    Op("read2ssl")))
    /\ UNCHANGED <<wire, Shared>>

handle_ssl_read_for_connect_request(c) ==
  \E op \in Outstanding(c, "read2ssl"), got \in Chunks(sess[c].up) :
    /\ Set(c, Respond(Take(c, op), got, "read2ssl", "replyssl"))
    /\ UNCHANGED <<wire, Shared>>

\* Unlike in the clear, a pipelined request waits for more bytes.
handle_ssl_response_for_connect_request(c) ==
  \E op \in Outstanding(c, "replyssl") :
    /\ Set(c, do_read_after_handshake_for_connect_request(Answered(Take(c, op))))
    /\ UNCHANGED <<wire, Shared>>

-----------------------------------------------------------------------------
Init ==
  /\ sess = [c \in Sessions |-> NewSession]
  /\ \E f \in [Sessions -> UNION {Scripts[c] : c \in Sessions}] :
       /\ \A c \in Sessions : f[c] \in Scripts[c]
       /\ wire = [c \in Sessions |-> Stream(f[c])]
  /\ cached_credential_ = <<>> /\ certs = {} /\ domain_context_ = {}
  /\ now = 0 /\ crashed = FALSE /\ confirmed = {}

Tick ==
  /\ now < MaxTime /\ now' = now + 1
  /\ UNCHANGED <<sess, wire, cached_credential_, certs, domain_context_, crashed, confirmed>>

Next ==
  /\ ~ crashed
  /\ \/ Tick
     \/ \E c \in Sessions :
          \/ do_accept(c) \/ Fail(c) \/ ReadRequest(c) \/ Wrote407(c)
          \/ VerifierResolved(c) \/ VerifierConnected(c) \/ VerifierWritten(c)
          \/ Verified(c) \/ VerifierFails(c)
          \/ ResolvedDirect(c) \/ handle_connect_for_direct_request(c)
          \/ handle_write_for_direct_request(c) \/ handle_read_for_direct_request(c)
          \/ handle_response_for_direct_request(c)
          \/ ResolvedConnect(c) \/ handle_connect_for_connect_request(c)
          \/ do_read_for_connect_request(c) \/ handle_handshake_for_connect_request(c)
          \/ HandshakeDone(c) \/ ReadSsl(c)
          \/ handle_ssl_proxy_request_for_connect_request(c)
          \/ handle_ssl_read_for_connect_request(c)
          \/ handle_ssl_response_for_connect_request(c)

Spec == Init /\ [][Next]_vars

-----------------------------------------------------------------------------
(* Properties                                                              *)

\* A session has at most one asynchronous operation outstanding: buffer_,
\* packet_in_ and filtered_response_ are shared by all of its handlers, and
\* two operations at a time would overwrite what the other still needs.
OneOperation == \A c \in Sessions : Cardinality(sess[c].ops) <= 1

\* Every request that reaches an origin was admitted with credentials the
\* verification service had confirmed no longer than Cache::DEFAULT_EXPIRE
\* before: its own, or those of the CONNECT whose tunnel it came through.
ForwardedWasConfirmed ==
  \A c \in Sessions : \A f \in sess[c].forwarded :
    LET r == IF f.by = NoRequest THEN f.req ELSE f.by IN
    \E a \in sess[c].admitted, k \in confirmed :
      /\ a.id = r.id /\ k.cred = r.cred
      /\ k.at <= a.at /\ a.at <= k.at + Expire

\* The client gets one answer for each request, in the order of its requests,
\* and each response is the origin's response to that request, however the
\* bytes of either side are fragmented and however requests are pipelined.
AnswersInOrder ==
  \A c \in Sessions : \A i \in DOMAIN sess[c].answers : sess[c].answers[i] = i

\* The collector can pair what it gets: a uuid names one request and at most
\* one response, the response is the one to that request, and the host it is
\* told is the one the request was sent to.
CollectorCanPair ==
  \A c \in Sessions :
    LET s == sess[c] IN
    /\ \A p, q \in s.posts : p.uuid = q.uuid => p = q \/ (p.type # q.type /\ p.msg = q.msg)
    /\ \A f \in s.forwarded : \E p \in s.posts :
         p.type = "request" /\ p.uuid = f.uuid /\ p.msg = f.req.id /\ p.host = f.host

\* After a response in the clear the session does not wait for the client
\* while a complete request is already in packet_in_.  (After a 407 it does:
\* do_write_407_unauthorized reads without looking at what is left.)
PipelinedIsServed ==
  \A c \in Sessions : \A op \in sess[c].ops :
    LET s == sess[c] IN
    op.kind = "read" /\ Parse(s.packet_in_) = "OK"
      => \A f \in s.forwarded : s.answers # <<>> => f.req.id # Last(s.answers)
=============================================================================
