------------------------------ MODULE Framing ------------------------------
(***************************************************************************)
(* The protocols that parse a byte stream with a StreamReader and ask for  *)
(* more bytes when a message is incomplete: Http, WebSocket, Soa, the      *)
(* replies of Redis, the responses HttpGateway gets, and the responses     *)
(* http_proxy gets.  One connection is modelled: its peer sends a script   *)
(* of messages, which arrive in any fragmentation.                         *)
(*                                                                         *)
(* An item of a script is [bytes, msg, kind, head]: "ok" is a message to   *)
(* be delivered, "last" one after which the connection is closed, "bad"    *)
(* one that closes it without being delivered, "unframed" a response that  *)
(* does not say where its body ends; its first `head' symbols are all but  *)
(* the body.  How messages are encoded is taken from the encoders of the   *)
(* repository where it has one.  Addresses are those of Codecs.            *)
(***************************************************************************)
EXTENDS Codecs, Bitwise

CONSTANTS
  Scripts,     \* per protocol: a set of sequences of items
  Targets      \* the providers a gateway knows: [host, path, query]

VARIABLES
  proto,       \* the protocol of the connection
  script,      \* what its peer sends
  received,    \* how many symbols of it have arrived
  buf,         \* _buf[client], packet2_in_; empty if there is none
  state,       \* of a WebSocket: "HANDSHAKE" or "OPEN"
  delivered,   \* the messages handed to the callbacks
  closed

vars == <<proto, script, received, buf, state, delivered, closed>>

-----------------------------------------------------------------------------
(* HTTP.  A header is a pair of a name and a value.                        *)

Host == Word + 1
AcceptEncoding == Word + 2
ContentLength == Word + 3
TransferEncoding == Word + 4
Connection == Word + 5
SecWebSocketKey == Word + 6
Sts == Word + 7
ProxyAuthorization == Word + 8
ProxyConnection == Word + 9
Close == Word + 20
Chunked == Word + 21
Http10 == Word + 30

Values(hs, name) == SelectSeq(hs, LAMBDA h : h[1] = <<name>>)
Has(hs, name) == Values(hs, name) # <<>>
\* content_length, of a message that has one
GivenLength(hs) == ValueOf(Last(Values(hs, ContentLength))[2])
Without(hs, names) == SelectSeq(hs, LAMBDA h : \A n \in names : h[1] # <<n>>)
\* headers[name] = value: the headers of a request are a map, a name is in it
\* once; those of a response are a list.
PutHeader(hs, name, value, role) ==
  Append(SelectSeq(hs, LAMBDA h : role # "request" \/ h[1] # name), <<name, value>>)

\* The loop over the headers, up to the empty line.  http_proxy takes any
\* number of blanks after the colon of a response, the others exactly one;
\* a request must not have a Transfer-Encoding, a response only "chunked".
header_gap(name, role) ==
  IF role = "proxy_response" THEN read_up(name, {SP})
  ELSE Then(read_plain(name), LAMBDA one :
       fail_if(one, one.val # <<SP>> \/ (role = "request" /\ name.val = <<TransferEncoding>>)))
header_end(name, value) ==
  fail_if(read_crlf(value), name = <<TransferEncoding>> /\ value.val # <<Chunked>>)
RECURSIVE parse_headers(_, _, _)
parse_headers(s, hs, role) ==
  Then(pread_plain(s), LAMBDA next :
    IF next.val = <<CR>> THEN Returns(next, hs)
    ELSE Then(read_until(next, {COLON}, TRUE), LAMBDA name :
         Then(read_until(header_gap(name, role), {CR}, FALSE), LAMBDA value :
         Then(header_end(name.val, value), LAMBDA line :
           parse_headers(line, PutHeader(hs, name.val, value.val, role), role)))))

\* Three words, separated by blanks, and the end of the line.
first_line(s) ==
  Then(read_until(s, {SP}, FALSE), LAMBDA a :
  Then(read_until(read_up(a, {SP}), {SP}, FALSE), LAMBDA b :
  Then(read_until(read_up(b, {SP}), {CR}, FALSE), LAMBDA c :
    Returns(read_crlf(c), <<a.val, b.val, c.val>>))))

\* The first line, the headers and the empty line; what follows gets the
\* reader and what was read.
parse_head(s, role, Body(_, _, _)) ==
  Then(first_line(s), LAMBDA line :
  Then(parse_headers(line, <<>>, role), LAMBDA hs :
  Then(read_crlf(hs), LAMBDA t : Body(t, line.val, hs.val))))
Message(s, line, hs) == Returns(s, [line |-> line, headers |-> hs, body |-> s.val])

\* The body of a message with a positive length, if it has one.
HasBody(hs) == Has(hs, ContentLength) /\ GivenLength(hs) > 0
read_body(s, hs) == IF HasBody(hs) THEN read_size(s, GivenLength(hs)) ELSE Returns(s, <<>>)

parse_request_ignores_length(s) ==
  parse_head(s, "request", LAMBDA t, line, hs : Message(Returns(t, <<>>), line, hs))

\* Http::parse_request
parse_request(s) ==
  parse_head(s, "request", LAMBDA t, line, hs : Message(read_body(t, hs), line, hs))

\* HttpRequest::parse_request of http_proxy
proxy_parse_request(s) == parse_request(s)

RECURSIVE parse_chunked_body(_, _)
parse_chunked_body(s, body) ==
  Then(read_until(s, {CR}, FALSE), LAMBDA size :
  Then(read_size(read_crlf(size), ValueOf(size.val)), LAMBDA data :
  Then(read_crlf(data), LAMBDA line :
    IF ValueOf(size.val) = 0 THEN Returns(line, body)
    ELSE parse_chunked_body(line, body \o data.val))))

\* HttpGateway::parse_response: chunked, or a length that is not zero.
parse_response(s) ==
  parse_head(s, "response", LAMBDA t, line, hs :
    Message(IF HasBody(hs) THEN read_body(t, hs)
            ELSE IF Has(hs, TransferEncoding) THEN parse_chunked_body(t, <<>>)
            ELSE fail_if(t, TRUE),
            line, Without(hs, {TransferEncoding})))

\* HttpResponse::parse_response of http_proxy: a length of zero will do, and
\* so does no length at all if nothing follows; the length of a chunked body
\* is made a header.
proxy_parse_response(s) ==
  parse_head(s, "proxy_response", LAMBDA t, line, hs :
    LET kept == Without(hs, {TransferEncoding})
        Counted(b) == Message(b, line, Append(kept, <<<<ContentLength>>, NumberOf(Len(b.val))>>))
    IN  IF HasBody(hs) THEN Message(read_body(t, hs), line, kept)
        ELSE IF Has(hs, TransferEncoding) THEN Then(parse_chunked_body(t, <<>>), Counted)
        ELSE IF Has(hs, ContentLength) THEN Message(Returns(t, <<>>), line, kept)
        ELSE Then(fail_if(Returns(t, <<>>), ~ end(t)), Counted))

HeaderBytes(hs) ==
  FlattenSeq([i \in DOMAIN hs |-> hs[i][1] \o <<COLON, SP>> \o hs[i][2] \o CRLF])
LineBytes(line) == line[1] \o <<SP>> \o line[2] \o <<SP>> \o line[3] \o CRLF
Packet(m) == LineBytes(m.line) \o HeaderBytes(m.headers) \o CRLF \o m.body

WithLength_keeps(m) == m

\* HttpResponse::to_string: the length is that of the body.
WithLength(m) ==
  [m EXCEPT !.headers = Append(Without(@, {ContentLength}),
                               <<<<ContentLength>>, NumberOf(Len(m.body))>>)]
to_string(m) == Packet(WithLength(m))

\* HttpRequest::forward_packet to a provider: the path is the provider's, the
\* query its own on top of the one that came, the host is replaced or added,
\* and no encoding is asked for.
forward_query(parts, query) ==
  IF "query" \in DOMAIN parts THEN merge_url_query(parts["query"], query) ELSE query
WithQuery(path, query) == path \o (IF query # <<>> THEN <<QUERY>> \o query ELSE <<>>)
request_uri(uri, target) ==
  WithQuery(target.path, forward_query(parse_url(uri), target.query))
Forwarded(m, target) ==
  LET hs == Without(m.headers, {AcceptEncoding})
      host == <<<<Host>>, target.host>>
      at == [i \in DOMAIN hs |-> IF hs[i][1] = <<Host>> THEN host ELSE hs[i]]
  IN  [m EXCEPT !.line[2] = request_uri(@, target),
                !.headers = IF Has(hs, Host) THEN at ELSE Append(at, host)]
forward_packet(m, target) == Packet(Forwarded(m, target))

\* HttpRequest::forward_proxy_packet
ProxyForwarded(m) ==
  [m EXCEPT !.headers = Without(@, {AcceptEncoding, ProxyAuthorization, ProxyConnection})]
forward_proxy_packet(m) == Packet(ProxyForwarded(m))

\* HttpResponse::to_string of http_proxy.
ProxyFiltered(m) == [m EXCEPT !.headers = Without(@, {Sts})]
proxy_to_string(m) == Packet(ProxyFiltered(m))

\* Http::close_if_necessary
close_if_necessary(m) ==
  LET c == Values(m.headers, Connection) IN
  IF c # <<>> THEN Last(c)[2] = <<Close>> ELSE m.line[3] = <<Http10>>

-----------------------------------------------------------------------------
(* WebSocket                                                               *)

\* One frame: fin and opcode, the length in one of three forms, the mask.
\* (The size of extended lengths is that of the code, two and eight bytes.)
BigEndian(q) == FoldLeft(LAMBDA acc, b : acc * 256 + b, 0, q)
length_form(s, len) ==
  IF len = 126 THEN read_size(s, 2) ELSE IF len = 127 THEN read_size(s, 8) ELSE s
length_of(len, size) == IF len >= 126 THEN BigEndian(size.val) ELSE len
unmask(data, key) == [i \in DOMAIN data |-> data[i] ^^ key[((i - 1) % 4) + 1]]

payload_of(key, second_byte, len) ==
  Then(read_size(key, len), LAMBDA data :
    IF second_byte >= 128 THEN Returns(data, unmask(data.val, key.val)) ELSE data)
RECURSIVE parse_message(_, _, _)
parse_message(s, opcode, payload) ==
  Then(read_plain(s), LAMBDA one :
  Then(read_plain(one), LAMBDA two :
  Then(length_form(two, two.val[1] % 128), LAMBDA size :
  Then(IF two.val[1] >= 128 THEN read_size(size, 4) ELSE size, LAMBDA key :
  Then(payload_of(key, two.val[1], length_of(two.val[1] % 128, size)), LAMBDA data :
    LET op == IF opcode < 0 THEN one.val[1] % 16 ELSE opcode IN
    IF one.val[1] >= 128 THEN Returns(data, [opcode |-> op, payload |-> payload \o data.val])
    ELSE parse_message(data, op, payload \o data.val))))))

\* WebSocket::send: the header it writes for a payload of len bytes.
BytesOf(n, width) == [i \in 1 .. width |-> (n \div (256 ^ (width - i))) % 256]
send_header(len, opcode, fin) ==
  <<(IF fin THEN 128 ELSE 0) + opcode>> \o
  (IF len > 65535 THEN <<127, 0, 0, 0, 0>> \o BytesOf(len, 4)
   ELSE IF len > 125 THEN <<126>> \o BytesOf(len, 2) ELSE <<len>>)
send(payload, opcode, fin) == send_header(Len(payload), opcode, fin) \o payload

\* Opcodes after which the connection goes on: text, binary, ping, pong.
goes_on(m) == m.opcode \in {1, 2, 9, 10}

-----------------------------------------------------------------------------
(* Soa: sixteen bytes of uuid (here one symbol), a size (here one symbol), *)
(* the json.  SoaProxy and the client's parse_response do the same.        *)

soa_parse_request(s) ==
  Then(read_plain(s), LAMBDA uuid :
  Then(read_plain(uuid), LAMBDA size :
  Then(read_size(size, ValueOf(size.val)), LAMBDA json :
    Returns(json, [uuid |-> uuid.val, json |-> json.val]))))

SoaRequest_to_string(uuid, json) == uuid \o NumberOf(Len(json)) \o json

-----------------------------------------------------------------------------
(* Redis replies.  Null is the length -1.                                  *)

Null == Num + 999
Simple == 43
Error == 45
Bulk == 36
Array == 42

\* Redis::parse_response.  A reply is the list of its values, each array in
\* front of its elements; missing is how many values are still to be read.
\* A byte that is no type is taken for a value of its own.
Leaf(s, type, reply, size) == Returns(s, [type |-> type, reply |-> reply, size |-> size])
reply_value(line, type, word) ==
  CASE type = Bulk /\ word # <<Null>> ->
         Then(read_size(line, ValueOf(word)), LAMBDA data : Leaf(read_crlf(data), Bulk, data.val, 0))
    [] type = Bulk /\ word = <<Null>> -> Leaf(line, SP, <<>>, 0)
    [] type = Array -> Leaf(line, Array, <<>>, IF word = <<Null>> THEN 0 ELSE ValueOf(word))
    [] OTHER -> Leaf(line, type, word, 0)
parse_value(type) ==
  IF type.val[1] \notin {Bulk, Array, Simple, Error, COLON} THEN Leaf(type, type.val[1], <<>>, 0)
  ELSE Then(read_until(type, {CR}, TRUE), LAMBDA word :
       Then(read_plain(word), LAMBDA nl :
       Then(fail_if(nl, nl.val # <<LF>>), LAMBDA line :
         reply_value(line, type.val[1], word.val))))
RECURSIVE parse_reply(_, _, _)
parse_reply(s, missing, seen) ==
  Then(read_plain(s), LAMBDA type :
  Then(parse_value(type), LAMBDA value :
    IF missing - 1 + value.val.size = 0 THEN Returns(value, Append(seen, value.val))
    ELSE parse_reply(value, missing - 1 + value.val.size, Append(seen, value.val))))

\* IRedis::resp_encode
resp_encode(text) == <<Bulk>> \o NumberOf(Len(text)) \o CRLF \o text \o CRLF
resp_encode_null == <<Bulk, Null>> \o CRLF
resp_encode_number(n) == <<COLON>> \o NumberOf(n) \o CRLF

-----------------------------------------------------------------------------
(* What arrives                                                            *)

parse(s) ==
  CASE proto = "http" -> parse_request(s)
    [] proto = "proxy_request" -> proxy_parse_request(s)
    [] proto = "websocket" -> parse_message(s, -1, <<>>)
    [] proto = "soa" -> soa_parse_request(s)
    [] proto = "redis" -> parse_reply(s, 1, <<>>)
    [] proto = "gateway" -> parse_response(s)
    [] proto = "proxy" -> proxy_parse_response(s)

\* Whether the connection is closed by the handler of message m: HTTP by the
\* headers, WebSocket by the opcode; the two readers of responses stop after
\* the one they wait for.
Ends(m) ==
  \/ proto = "http" /\ close_if_necessary(m)
  \/ proto = "websocket" /\ ~ goes_on(m)
  \/ proto \in {"gateway", "proxy"}

\* The loop of on_message: each complete message is delivered, the rest is
\* kept from the end of the last complete one on.
RECURSIVE messages(_, _, _)
after_message(s, r, offset, out) ==
  CASE r.st = "AG" -> [out |-> out, rest |-> SubSeq(s.str, offset + 1, Len(s.str)), over |-> FALSE]
    [] r.st = "NG" -> [out |-> out, rest |-> <<>>, over |-> TRUE]
    [] OTHER -> IF Ends(r.val) THEN [out |-> Append(out, r.val), rest |-> <<>>, over |-> TRUE]
                ELSE IF end(r) THEN [out |-> Append(out, r.val), rest |-> <<>>, over |-> FALSE]
                ELSE messages(r, r.off, Append(out, r.val))
messages(s, offset, out) == after_message(s, parse(s), offset, out)

\* on_message of Http, Soa, the Redis client, and an open WebSocket, with
\* what append_buf has made of the message.
on_message(message) ==
  \E m \in {messages(Reader(message), 0, <<>>)} :
    /\ delivered' = delivered \o m.out
    /\ buf' = m.rest
    /\ closed' = m.over
    /\ UNCHANGED state

\* A WebSocket that is not open yet: a request with a key, and nothing after
\* it.
on_handshake(message) ==
  \E r \in {Then(parse_request(Reader(message)), LAMBDA q :
               fail_if(q, ~ Has(q.val.headers, SecWebSocketKey)))} :
    /\ state' = IF r.st = "OK" THEN "OPEN" ELSE state
    /\ buf' = IF r.st = "AG" THEN message ELSE <<>>
    /\ closed' = (r.st = "NG" \/ (r.st = "OK" /\ ~ end(r)))
    /\ UNCHANGED delivered

Stream == FlattenSeq([i \in DOMAIN script |-> script[i].bytes])
EndOf(i) == Len(FlattenSeq([j \in 1 .. i |-> script[j].bytes]))

\* A peer sends no frames before its handshake is answered.
Sendable == IF state = "HANDSHAKE" THEN EndOf(1) ELSE Len(Stream)

Receive ==
  /\ ~ closed
  /\ \E n \in received + 1 .. Sendable :
       LET message == buf \o SubSeq(Stream, received + 1, n) IN
       /\ received' = n
       /\ IF state = "HANDSHAKE" THEN on_handshake(message) ELSE on_message(message)
  /\ UNCHANGED <<proto, script>>

Init ==
  /\ proto \in DOMAIN Scripts
  /\ script \in Scripts[proto]
  /\ received = 0 /\ buf = <<>> /\ delivered = <<>> /\ closed = FALSE
  /\ state = IF proto = "websocket" THEN "HANDSHAKE" ELSE "OPEN"

Spec == Init /\ [][Receive]_vars

-----------------------------------------------------------------------------
(* Properties                                                              *)

\* The messages among the first n items: a handshake is not one.
Due(n) == [i \in 1 .. n |-> script[i].msg]
Upto(n) == IF proto = "websocket" THEN Tail(Due(n)) ELSE Due(n)
Complete == {i \in DOMAIN script : EndOf(i) <= received}
Stops == {i \in DOMAIN script : script[i].kind # "ok"}

\* Whether the connection has got more than the head of an item that does not
\* say where its body ends.
PastHead(i) == received > EndOf(i - 1) + script[i].head
Refused(i) == script[i].kind = "bad" \/ (script[i].kind = "unframed" /\ PastHead(i))

\* Exactly the messages that have come in full are delivered, in order, each
\* as it was encoded; the connection is closed no later than by the end of a
\* message that closes it and for no other reason.
\*
\* The exception is a response without length and chunks that http_proxy gets
\* (http.cpp:203): if a read ends with its head it is taken for one without a
\* body, otherwise it is refused.
DeliveredIsWhatCame ==
  IF closed
  THEN /\ Stops # {}
       /\ LET i == Min(Stops) IN
          /\ EndOf(i - 1) < received
          /\ script[i].kind = "unframed" => received >= EndOf(i - 1) + script[i].head
          /\ delivered = Upto(IF Refused(i) THEN i - 1 ELSE i)
  ELSE /\ \A i \in Stops : received < EndOf(i - 1) + script[i].head
       /\ Complete # {} => delivered = Upto(Max(Complete))
       /\ Complete = {} => delivered = <<>>

\* What is kept for the next read is what has come of the message that is
\* incomplete, no byte more or less.
KeptIsTheRest ==
  ~ closed => buf = SubSeq(Stream, (IF Complete = {} THEN 0 ELSE EndOf(Max(Complete))) + 1,
                           received)

\* It does not matter how the bytes are cut into reads, but for the response
\* above: what is delivered depends on what has come only, and nothing of it is
\* kept or forgotten that the next read needs otherwise.
CutDoesNotMatter == DeliveredIsWhatCame /\ KeptIsTheRest

\* What a provider reads in the line of a request that was forwarded to it: its
\* own path, and the query that came with its own values on top.  A URI with
\* "://" in it is left out: parse_url takes what is before for a schema, also
\* if it is in the query, and the query is lost (Utils.cpp:241).
QueryIn(parts) == QueryMap(IF "query" \in DOMAIN parts THEN parts["query"] ELSE <<>>)
UriFor(came, uri, target) ==
  /\ came["path"] = target.path
  /\ find(uri, <<COLON, SLASH, SLASH>>, 0) < 0 =>
       QueryIn(came) = QueryMap(target.query) @@ QueryIn(parse_url(uri))
LineFor(again, line, target) ==
  /\ again[1] = line[1] /\ again[3] = line[3]
  /\ UriFor(parse_url(again[2]), line[2], target)

\* A request or a response that is passed on is read by whoever gets it with
\* the same body and nothing after it: a length that fits is written also
\* when the body came in chunks or without a length, and the headers that
\* are left out take nothing else with them.  The line is the same, or names
\* what the provider expects and what the client asked.
PassedOnIntact ==
  \A i \in DOMAIN delivered :
    LET m == delivered[i]
        Whole(again) == again.st = "OK" /\ end(again) /\ again.val.body = m.body
        Same(again) == Whole(again) /\ again.val.line = m.line
        AtProvider(again, target) ==
          /\ Whole(again) /\ LineFor(again.val.line, m.line, target)
          /\ Values(again.val.headers, Host) = <<<<<<Host>>, target.host>>>>
    IN  /\ proto = "http" => \A target \in Targets :
             AtProvider(parse_request(Reader(forward_packet(m, target))), target)
        /\ proto = "proxy_request" => Same(proxy_parse_request(Reader(forward_proxy_packet(m))))
        /\ proto = "gateway" => Same(proxy_parse_response(Reader(to_string(m))))
        /\ proto = "proxy" => Same(proxy_parse_response(Reader(proxy_to_string(m))))
=============================================================================
