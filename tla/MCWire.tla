------------------------------- MODULE MCWire -------------------------------
(* Everything that reads bytes: one connection of a protocol, or one call  *)
(* of a pure function.  The messages below are short but have bodies,      *)
(* chunks, masks, queries and nested arrays, and every script of up to     *)
(* three of them is sent in every fragmentation.                           *)
EXTENDS Framing

Ok(bytes, msg) == [bytes |-> bytes, msg |-> msg, kind |-> "ok", head |-> Len(bytes)]
As(kind, item) == [item EXCEPT !.kind = kind]

A == <<Word + 40>>
B == <<Word + 41>>
H(name, value) == <<<<name>>, value>>
Msg(line, hs, body) == [line |-> line, headers |-> hs, body |-> body]
Path == <<SLASH>> \o A
Asks(path, key, value) == path \o <<QUERY>> \o key \o <<EQ>> \o value
GetOf(uri) == <<A, uri, <<Word + 31>>>>
Get == GetOf(Path)
Sent(m) == Ok(Packet(m), m)

HttpItems ==
  {Sent(Msg(GetOf(Asks(Path, A, B)), <<>>, <<>>)),
   \* a header that comes twice
   Ok(Packet(Msg(Get, <<H(AcceptEncoding, A), H(Host, A), H(ContentLength, NumberOf(2)), H(Host, B)>>, <<CR, 65>>)),
      Msg(Get, <<H(AcceptEncoding, A), H(ContentLength, NumberOf(2)), H(Host, B)>>, <<CR, 65>>)),
   \* a query with an address in it
   As("last", Sent(Msg(GetOf(Asks(Path, B, A \o <<COLON, SLASH, SLASH>> \o B \o Path)), <<H(Connection, <<Close>>)>>, <<>>))),
   As("last", Sent(Msg(<<A, Asks(Path, B, A) \o <<HASH>> \o A, <<Http10>>>>, <<>>, <<>>))),
   As("bad", Sent(Msg(Get, <<H(TransferEncoding, <<Chunked>>)>>, <<>>)))}
MCTargets == {[host |-> A, path |-> <<SLASH>> \o B, query |-> q] :
                q \in {<<>>, A \o <<EQ>> \o A}}

ProxyRequestItems ==
  {Sent(Msg(Get, <<H(AcceptEncoding, A), H(ProxyConnection, A), H(ContentLength, NumberOf(2))>>, <<CR, LF>>)),
   Sent(Msg(Get, <<H(Host, A), H(ProxyAuthorization, A)>>, <<>>))}

Key == Sent(Msg(Get, <<H(SecWebSocketKey, A)>>, <<>>))
Frame(op, text) == Ok(send(text, op, TRUE), [opcode |-> op, payload |-> text])
Mask(text) == [i \in DOMAIN text |-> text[i] ^^ ((i - 1) % 4)]
WebSocketItems ==
  {Frame(1, <<>>), Frame(9, <<7>>), As("last", Frame(8, <<1, 2>>)), As("last", Frame(3, <<>>)),
   \* masked by the key 0 1 2 3, in two fragments, one with a long length
   Ok(<<1, 128 + 5, 0, 1, 2, 3>> \o Mask(<<5, 6, 7, 8, 9>>) \o <<128, 126, 0, 1, 4>>,
      [opcode |-> 1, payload |-> <<5, 6, 7, 8, 9, 4>>])}

SoaItem(uuid, json) == Ok(SoaRequest_to_string(uuid, json), [uuid |-> uuid, json |-> json])

Node(t, v, n) == [type |-> t, reply |-> v, size |-> n]
RedisItems ==
  {Ok(resp_encode(<<CR, LF>>), <<Node(Bulk, <<CR, LF>>, 0)>>),
   Ok(resp_encode(<<>>), <<Node(Bulk, <<>>, 0)>>),
   Ok(resp_encode_null, <<Node(SP, <<>>, 0)>>),
   Ok(<<Array>> \o NumberOf(2) \o CRLF \o <<Array>> \o NumberOf(1) \o CRLF \o resp_encode(A)
        \o resp_encode_number(3),
      <<Node(Array, <<>>, 2), Node(Array, <<>>, 1), Node(Bulk, A, 0), Node(COLON, NumberOf(3), 0)>>),
   Ok(<<Array>> \o NumberOf(0) \o CRLF, <<Node(Array, <<>>, 0)>>),
   As("bad", Ok(<<Simple>> \o A \o <<CR, CR>>, <<>>))}

Status == <<A, NumberOf(200), B>>
Last1(bytes, hs, body) == As("last", Ok(bytes, Msg(Status, hs, body)))
Body == <<65, CR>>
Sized == Msg(Status, <<H(Sts, A), H(Sts, B), H(ContentLength, NumberOf(2))>>, Body)
ChunkedBytes ==
  LineBytes(Status) \o HeaderBytes(<<H(TransferEncoding, <<Chunked>>)>>) \o CRLF
  \o NumberOf(1) \o CRLF \o <<65>> \o CRLF \o NumberOf(1) \o CRLF \o <<CR>> \o CRLF
  \o NumberOf(0) \o CRLF \o CRLF
Empty == Msg(Status, <<H(ContentLength, NumberOf(0))>>, <<>>)
Bare == Msg(Status, <<>>, <<>>)
GatewayItems ==
  {Last1(Packet(Sized), Sized.headers, Body), Last1(ChunkedBytes, <<>>, Body),
   As("bad", Ok(Packet(Empty), Empty)), As("bad", Ok(Packet(Bare), Bare))}
ProxyItems ==
  {Last1(Packet(Sized), Sized.headers, Body),
   Last1(ChunkedBytes, <<H(ContentLength, NumberOf(2))>>, Body),
   Last1(Packet(Empty), Empty.headers, <<>>),
   Last1(Packet(Bare), Empty.headers, <<>>),
   \* neither length nor chunks, but a body
   [Ok(Packet([Bare EXCEPT !.body = Body]), Empty)
      EXCEPT !.kind = "unframed", !.head = Len(Packet(Bare))]}

Upto3(S) == UNION {[1 .. n -> S] : n \in 1 .. 3}
MCScripts ==
  [http |-> Upto3(HttpItems),
   proxy_request |-> Upto3(ProxyRequestItems),
   websocket |-> {<<Key>> \o q : q \in Upto3(WebSocketItems)},
   soa |-> Upto3({SoaItem(A, <<>>), SoaItem(B, <<65, 66>>)}),
   redis |-> Upto3(RedisItems),
   gateway |-> {<<i>> : i \in GatewayItems},
   proxy |-> {<<i>> : i \in ProxyItems}]

Letters == {<<97>>, <<98>>, <<195, 169>>}
Texts(n) == UNION {{FlattenSeq(q) : q \in [1 .. k -> Letters]} : k \in 0 .. n}
Pairs == {<<k, v>> : k \in {Word, Word + 1}, v \in {Word + 2, Word + 3}}
Keywords == {{<<97>>, <<97, 98>>}, {<<97, 98>>, <<98, 97, 97>>, <<>>},
             {<<98>>, <<98, 195, 169>>, <<195, 169, 97>>}}
Parts ==
  {m \in [{"schema", "host", "port", "path", "query", "fragment"} -> {<<>>, A}] :
     (m["port"] # <<>> => m["host"] # <<>>) /\ (m["host"] # <<>> <=> m["schema"] # <<>>)
     /\ (m["path"] = <<>> => m["query"] = <<>> /\ m["fragment"] = <<>> /\ m["host"] # <<>>)}
Given(m) ==
  [k \in {k \in DOMAIN m : m[k] # <<>>} |-> IF k = "path" THEN <<SLASH>> \o m[k] ELSE m[k]]
Sample(f, S) == {[of |-> f, data |-> d] : d \in S}
MCSamples ==
  Sample("utf8", UNION {[1 .. n -> {0, 127, 128, 2047, 2048, 65535, 65536, 1114111}] : n \in 1 .. 2})
  \cup Sample("base64", UNION {[1 .. n -> {0, 3, 128, 255}] : n \in 0 .. 4})
  \cup Sample("trie", [keywords : Keywords, text : Texts(4)])
  \cup Sample("json", [text : UNION {[1 .. n -> {91, 34}] : n \in 1 .. 3},
                       encoding : {"Utf8", "Utf16LE", "Utf16BE", "Utf32LE", "Utf32BE"}])
  \cup Sample("escape", UNION {[1 .. n -> {0, 10, 38, 47, 65, 126, 128, 255}] : n \in 0 .. 3})
  \cup Sample("url", {Given(m) : m \in Parts})
  \cup Sample("query", LET Q == UNION {[1 .. n -> Pairs] : n \in 0 .. 2} IN Q \X Q)

WireInit ==
  \/ Init /\ sample = [of |-> "none", data |-> <<>>]
  \/ /\ sample \in MCSamples
     /\ proto = "none" /\ script = <<>> /\ received = 0 /\ buf = <<>>
     /\ delivered = <<>> /\ closed = FALSE /\ state = "OPEN"
WireSpec == WireInit /\ [][Receive /\ UNCHANGED sample]_<<vars, sample>>
=============================================================================
