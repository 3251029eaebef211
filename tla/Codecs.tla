------------------------------- MODULE Codecs -------------------------------
(***************************************************************************)
(* The pure functions of the repository: UTF-8, Base64, the keyword trie,  *)
(* the encoding of a JSON text, addresses and their query strings.  Text   *)
(* is a sequence of bytes, or of the symbols of StreamReader where only    *)
(* the separators matter.  `sample' is an input; the properties compare    *)
(* what a function makes of it with what it should.                        *)
(***************************************************************************)
EXTENDS StreamReader, SequencesExt

VARIABLE sample    \* [of |-> the function, data |-> its input]

Sub(q, from, to) == SubSeq(q, from + 1, to)      \* substr by offsets
FirstOf(hits, none) == IF hits = {} THEN none ELSE Min(hits)

-----------------------------------------------------------------------------
(* UTF-8                                                                   *)

\* Utf8::encode: the ranges and the bits of each byte.
encode_off_by_one(u) ==
  IF u < 127 THEN <<u>>
  ELSE <<192 + ((u \div 64) % 32), 128 + (u % 64)>>

encode(u) ==
  CASE u <= 127 -> <<u>>
    [] u \in 128 .. 2047 -> <<192 + ((u \div 64) % 32), 128 + (u % 64)>>
    [] u \in 2048 .. 65535 ->
         <<224 + ((u \div 4096) % 16), 128 + ((u \div 64) % 64), 128 + (u % 64)>>
    [] u >= 65536 ->
         <<240 + ((u \div 262144) % 8), 128 + ((u \div 4096) % 64),
           128 + ((u \div 64) % 64), 128 + (u % 64)>>

\* How many bytes the first one announces: 0 for one that begins no character.
announced(b) ==
  CASE b < 128 -> 1
    [] b >= 128 /\ (b \div 32) % 4 = 2 -> 2
    [] b >= 128 /\ (b \div 16) % 8 = 6 -> 3
    [] b >= 128 /\ (b \div 8) % 16 = 14 -> 4
    [] OTHER -> 0

\* Utf8::decode_char_length: 0 if the text ends before the character does.
decode_char_length(s, offset) ==
  IF Len(s) <= offset THEN 0
  ELSE LET n == announced(s[offset + 1]) IN IF Len(s) < offset + n THEN 0 ELSE n

codepoint(s, offset) ==
  LET n == decode_char_length(s, offset)
      low == IF n = 2 THEN 32 ELSE IF n = 3 THEN 16 ELSE 8
  IN  IF n = 1 THEN s[offset + 1]
      ELSE FoldLeft(LAMBDA acc, b : (acc * 64) + (b % 64), s[offset + 1] % low,
                    SubSeq(s, offset + 2, offset + n))

\* The characters of a text from an offset on, as Utf8::decode_char walks it.
RECURSIVE characters(_, _)
characters(s, offset) ==
  LET n == decode_char_length(s, offset) IN
  IF n = 0 THEN <<>> ELSE <<Sub(s, offset, offset + n)>> \o characters(s, offset + n)

\* Utf8::length
utf8_length(s) == Len(characters(s, 0))

\* pread_character and read_character<Utf8>: `val' is a code point; FALSE, here
\* "NG", without throwing, if no whole character is left.
read_character(r) ==
  LET n == decode_char_length(r.str, r.off) IN
  IF n = 0 THEN [r EXCEPT !.st = "NG", !.val = <<>>]
  ELSE [r EXCEPT !.off = @ + n, !.val = codepoint(r.str, r.off)]

RECURSIVE read_characters(_, _)
read_characters(r, n) ==
  LET one == read_character(r)
      more == read_characters(one, n - 1)
  IN  IF n = 0 THEN [r EXCEPT !.val = <<>>]
      ELSE IF one.st # "OK" THEN one
      ELSE [more EXCEPT !.val = <<one.val>> \o @]

\* read_up<Utf8>: unlike the one for bytes it stops at the end of the text.
RECURSIVE read_up_characters(_, _)
read_up_characters(r, chars) ==
  LET one == read_character(r) IN
  IF one.st = "OK" /\ one.val \in chars \cap (0 .. 255) THEN read_up_characters(one, chars) ELSE r

-----------------------------------------------------------------------------
(* Base64: a byte is taken from, or given to, the bits collected so far.   *)
(* Values of six bits stand for the letters of b64_table, Pad for '='.     *)

Pad == 64
Blank == 65
Illegal == 66
\* The unsigned accumulator: only the low bits matter, it may run over.
Shift(acc, bits, v) == ((acc % 65536) * (2 ^ bits)) + v

RECURSIVE sextets(_)
sextets(st) ==
  IF st.bits < 6 THEN st
  ELSE sextets([st EXCEPT !.bits = @ - 6,
                          !.out = Append(@, (st.acc \div (2 ^ (st.bits - 6))) % 64)])

\* The letters of the data, the trailing bits included: outpos of them.
base64_letters(data) ==
  LET st == FoldLeft(LAMBDA s, b : sextets([s EXCEPT !.acc = Shift(@, 8, b), !.bits = @ + 8]),
                     [acc |-> 0, bits |-> 0, out |-> <<>>], data)
  IN  IF st.bits > 0 THEN Append(st.out, (st.acc * (2 ^ (6 - st.bits))) % 64) ELSE st.out
base64_size(data) == ((Len(data) + 2) \div 3) * 4

\* The copy of http_proxy.
proxy_base64_encode(data) ==
  LET letters == base64_letters(data)
  IN  letters \o [i \in 1 .. base64_size(data) - Len(letters) |-> Pad]

\* Base64::encode asserts that two letters at most are missing.  Sizes are
\* unsigned (the range stands for 2^64), and L.assert ends the process.
SizeRange == 2 ^ 30
Exit == 67
asserted(outpos, size) == outpos >= (size + SizeRange - 2) % SizeRange /\ outpos <= size
base64_encode(data) ==
  IF asserted(Len(base64_letters(data)), base64_size(data)) THEN proxy_base64_encode(data)
  ELSE <<Exit>>

\* Blanks and padding are skipped; any other byte that is no letter of the
\* table makes the result empty.
base64_decode(text) ==
  LET Step(s, c) ==
        LET bits == s.bits + 6
            acc == Shift(s.acc, 6, c)
        IN  IF c \in {Pad, Blank} THEN s
            ELSE IF bits < 8 THEN [acc |-> acc, bits |-> bits, out |-> s.out]
            ELSE [acc |-> acc, bits |-> bits - 8,
                  out |-> Append(s.out, (acc \div (2 ^ (bits - 8))) % 256)]
  IN  IF Illegal \in ToSet(text) THEN <<>>
      ELSE FoldLeft(Step, [acc |-> 0, bits |-> 0, out |-> <<>>], text).out

\* The copy of http_proxy.
proxy_base64_decode(text) == base64_decode(text)

-----------------------------------------------------------------------------
(* The trie.  A node is the path to it; nodes that end a keyword have it   *)
(* as their value.                                                         *)

TrieNodes(keywords) ==
  UNION {{SubSeq(characters(k, 0), 1, n) : n \in 0 .. Len(characters(k, 0))} : k \in keywords}
get_value(keywords, node) == {k \in keywords : k # <<>> /\ characters(k, 0) = node}

\* The walk from one character of the text: the nodes it passes that have a
\* value, with the offsets they end at, the last one first.
RECURSIVE walk(_, _, _, _)
walk(keywords, text, node, offset) ==
  LET n == decode_char_length(text, offset)
      next == Append(node, Sub(text, offset, offset + n))
      found == get_value(keywords, next)
      here == IF found = {} THEN <<>>
              ELSE <<[value |-> CHOOSE k \in found : TRUE, at |-> offset + n]>>
  IN  IF n = 0 \/ next \notin TrieNodes(keywords) THEN <<>>
      ELSE walk(keywords, text, next, offset + n) \o here

search_shortest(keywords, text, no_overlap) ==
  {Last(walk(keywords, text, <<>>, o)).value : o \in
     {o \in 0 .. Len(text) : walk(keywords, text, <<>>, o) # <<>>}}

\* Trie::search: all the values on the way, or the longest, after which the
\* text goes on behind it.
RECURSIVE search_from(_, _, _, _)
search_from(keywords, text, no_overlap, offset) ==
  LET n == decode_char_length(text, offset)
      hits == walk(keywords, text, <<>>, offset)
  IN  IF n = 0 THEN {}
      ELSE IF no_overlap /\ hits # <<>>
           THEN {hits[1].value} \cup search_from(keywords, text, no_overlap, hits[1].at)
           ELSE {hits[i].value : i \in DOMAIN hits}
                  \cup search_from(keywords, text, no_overlap, offset + n)
search(keywords, text, no_overlap) == search_from(keywords, text, no_overlap, 0)

-----------------------------------------------------------------------------
(* JSON                                                                    *)

\* Json::detect_encoding, from zeros among the first and last two bytes.
detect_encoding(s) ==
  LET l == Len(s) IN
  CASE l < 2 -> "Utf8"
    [] l >= 2 /\ s[1] = 0 /\ s[2] = 0 -> "Utf32BE"
    [] l >= 2 /\ ~ (s[1] = 0 /\ s[2] = 0) /\ s[l] = 0 /\ s[l - 1] = 0 -> "Utf32LE"
    [] l >= 2 /\ s[1] # 0 /\ s[l] # 0 -> "Utf8"
    [] l >= 2 /\ s[1] = 0 /\ s[2] # 0 /\ s[l] # 0 -> "Utf16BE"
    [] OTHER -> "Utf16LE"

calculate_decimal(h) ==
  IF h - 48 >= 49 THEN h - 97 + 10 ELSE IF h - 48 >= 17 THEN h - 65 + 10 ELSE h - 48
calculate_hex(u_hex) == FoldLeft(LAMBDA acc, h : (acc * 16) + calculate_decimal(h), 0, u_hex)

-----------------------------------------------------------------------------
(* Bytes in hexadecimal                                                    *)

PERCENT == 37
Digit(n) == IF n < 10 THEN 48 + n ELSE 65 + n - 10
HexByte(b) == <<Digit(b \div 16), Digit(b % 16)>>

\* Utils::string2hex: a char is signed, so "%02X" of one from 128 up has eight
\* digits, of which the buffer holds the first two.
string2hex(data) == FlattenSeq([i \in DOMAIN data |-> IF data[i] < 128 THEN HexByte(data[i]) ELSE HexByte(255)])

\* Utils::url_encode of http_proxy: letters, digits and -_.~ stay.
Kept == (48 .. 57) \cup (65 .. 90) \cup (97 .. 122) \cup {45, 95, 46, 126}
url_encode(value) ==
  FlattenSeq([i \in DOMAIN value |-> IF value[i] \in Kept THEN <<value[i]>>
                                     ELSE <<PERCENT>> \o HexByte(value[i])])

-----------------------------------------------------------------------------
(* Addresses: schema://host:port/path?query#fragment                       *)

SLASH == 47
QUERY == 63
HASH == 35
AMP == 38
EQ == 61

\* find: the first offset from `from' on where sub stands, -1 if nowhere.
find(s, sub, from) ==
  FirstOf({i \in from .. Len(s) - Len(sub) : Sub(s, i, i + Len(sub)) = sub}, -1)
find_first_of(s, chars, from) ==
  FirstOf({i \in from .. Len(s) - 1 : s[i + 1] \in chars}, -1)

HostPort(hp) ==
  LET c == find(hp, <<COLON>>, 0) IN
  IF c >= 0 THEN "host" :> Sub(hp, 0, c) @@ "port" :> Sub(hp, c + 1, Len(hp))
  ELSE "host" :> hp

\* From the path on; a fragment that is empty is left out.
PathOn(url, next) ==
  LET i == find_first_of(url, {QUERY, HASH}, next)
      f == find(url, <<HASH>>, i + 1)
      asks == i >= 0 /\ url[i + 1] = QUERY
      after == IF ~ asks THEN i + 1 ELSE IF f >= 0 THEN f + 1 ELSE Len(url)
  IN  IF i < 0 THEN "path" :> Sub(url, next, Len(url))
      ELSE ("path" :> Sub(url, next, i))
           @@ (IF asks THEN "query" :> Sub(url, i + 1, IF f >= 0 THEN f ELSE Len(url)) ELSE <<>>)
           @@ (IF after < Len(url) THEN "fragment" :> Sub(url, after, Len(url)) ELSE <<>>)

Schema(url) == LET i == find(url, <<COLON, SLASH, SLASH>>, 0) IN
               IF i >= 0 THEN "schema" :> Sub(url, 0, i) ELSE <<>>
AfterSchema(url) == LET i == find(url, <<COLON, SLASH, SLASH>>, 0) IN IF i >= 0 THEN i + 3 ELSE 0

parse_url_ignores_fragment(url) ==
  LET next == AfterSchema(url)
      i == find(url, <<SLASH>>, next)
  IN  Schema(url) @@ HostPort(Sub(url, next, i)) @@ ("path" :> Sub(url, i, Len(url)))

\* Utils::parse_url of mixin_handler: a host only in front of a slash.
parse_url(url) ==
  LET next == AfterSchema(url)
      i == find(url, <<SLASH>>, next)
  IN  IF i > next THEN Schema(url) @@ HostPort(Sub(url, next, i)) @@ PathOn(url, i)
      ELSE Schema(url) @@ PathOn(url, next)

\* Utils::parse_url of http_proxy: without a slash all of it is the host.
proxy_parse_url(url) ==
  LET next == AfterSchema(url)
      i == find(url, <<SLASH>>, next)
  IN  IF i < 0 THEN Schema(url) @@ HostPort(Sub(url, next, Len(url)))
      ELSE IF i > next THEN Schema(url) @@ HostPort(Sub(url, next, i)) @@ PathOn(url, i)
      ELSE Schema(url) @@ PathOn(url, next)

\* Utils::split: the pieces between delimiters that are not empty.
RECURSIVE split(_, _)
split(s, delim) ==
  LET i == find(s, <<delim>>, 0)
      piece == IF i < 0 THEN s ELSE Sub(s, 0, i)
      rest == IF i < 0 THEN <<>> ELSE split(Sub(s, i + 1, Len(s)), delim)
  IN  IF piece = <<>> THEN rest ELSE <<piece>> \o rest

\* A query as a map; a later key replaces an earlier one.
Pair(kv) == kv[1] :> IF Len(kv) > 1 THEN kv[2] ELSE <<>>
QueryMap(query) ==
  FoldLeft(LAMBDA m, token : Pair(split(token, EQ)) @@ m, <<>>, split(query, AMP))
\* Utils::join; the order is that of the map.
JoinQuery(m) ==
  LET keys == SetToSeq(DOMAIN m) IN
  FlattenSeq([i \in DOMAIN keys |-> (IF i = 1 THEN <<>> ELSE <<AMP>>)
                                    \o keys[i] \o <<EQ>> \o m[keys[i]]])
\* Utils::merge_url_query
merge_url_query(query1, query2) ==
  IF query2 = <<>> THEN query1 ELSE JoinQuery(QueryMap(query2) @@ QueryMap(query1))

-----------------------------------------------------------------------------
(* Properties                                                              *)

\* A code point is read back from what Utf8::encode writes, with its length,
\* at any place in a text; a text that breaks off inside of a character has
\* the characters before it.
Utf8ReadsBack ==
  sample.of = "utf8" =>
    LET us == sample.data
        text == FlattenSeq([i \in DOMAIN us |-> encode(us[i])])
        at(i) == Len(FlattenSeq([j \in 1 .. i - 1 |-> encode(us[j])]))
    IN  /\ utf8_length(text) = Len(us)
        /\ \A i \in DOMAIN us : codepoint(text, at(i)) = us[i]
        /\ utf8_length(Front(text)) = Len(us) - 1
        /\ read_characters(Reader(text), Len(us)).val = us
        /\ read_characters(Reader(text), Len(us) + 1).st = "NG"
        /\ LET up == {us[1]} \cap (0 .. 255)
               stays == {i \in DOMAIN us : us[i] \notin up}
           IN  read_up_characters(Reader(text), up).off = at(FirstOf(stays, Len(us) + 1))

\* Base64 gives back the bytes it was given, for every length modulo three,
\* whatever bits are left over, in both copies of it, also when the text is
\* broken by blanks.  The exception is Base64::encode of no bytes, for which
\* size() - 2 runs over and its own assertion ends the process (Base64.cpp:48);
\* what the repository encodes with it, a SHA-1, is never empty.
Base64ReadsBack ==
  sample.of = "base64" =>
    LET text == proxy_base64_encode(sample.data) IN
    /\ base64_encode(sample.data) = IF sample.data = <<>> THEN <<Exit>> ELSE text
    /\ base64_decode(text) = sample.data
    /\ Len(text) % 4 = 0
    /\ \A i \in 0 .. Len(text) :
         proxy_base64_decode(SubSeq(text, 1, i) \o <<Blank>> \o SubSeq(text, i + 1, Len(text)))
           = sample.data

\* Whether keyword k stands in text at offset o, and how the text is covered
\* from the left by longest keywords: the reference for the trie.
StandsAt(k, text, o) == o + Len(k) <= Len(text) /\ Sub(text, o, o + Len(k)) = k
LongestAt(ks, text, o) == {k \in ks : k # <<>> /\ StandsAt(k, text, o)
                             /\ \A l \in ks : StandsAt(l, text, o) => Len(l) <= Len(k)}
Jumps(ks, text) ==
  {js \in SUBSET (0 .. Len(text)) :
     /\ 0 \in js
     /\ \A o \in 0 .. Len(text) - 1 : o \in js =>
          LET n == IF LongestAt(ks, text, o) = {} THEN 1
                   ELSE Len(CHOOSE k \in LongestAt(ks, text, o) : TRUE)
          IN  o + n \in js /\ \A p \in o + 1 .. o + n - 1 : p \notin js}

\* The trie finds the keywords a walk from left to right by longest matches
\* meets, or all that occur if overlaps are wanted.
TrieFindsKeywords ==
  sample.of = "trie" =>
    LET ks == sample.data.keywords
        text == sample.data.text
        walked == CHOOSE js \in Jumps(ks, text) : TRUE
    IN  /\ search(ks, text, FALSE) =
             {k \in ks : k # <<>> /\ \E o \in 0 .. Len(text) : StandsAt(k, text, o)}
        /\ search(ks, text, TRUE) = UNION {LongestAt(ks, text, o) : o \in walked}

\* The encoding of a text that begins and ends with an ASCII character is
\* found from its first and last bytes, for every encoding and length.
Widen(c, e) ==
  CASE e = "Utf8" -> <<c>>
    [] e = "Utf16LE" -> <<c, 0>>
    [] e = "Utf16BE" -> <<0, c>>
    [] e = "Utf32LE" -> <<c, 0, 0, 0>>
    [] e = "Utf32BE" -> <<0, 0, 0, c>>
EncodingIsFound ==
  sample.of = "json" =>
    LET cs == sample.data.text IN
    detect_encoding(FlattenSeq([i \in DOMAIN cs |-> Widen(cs[i], sample.data.encoding)]))
      = sample.data.encoding

\* What is written in an encoding is read back, at the borders of lengths and
\* groups where the codecs change their case; only the assertion of
\* Base64::encode does not allow for no bytes at all.
CodecsReadBack == Utf8ReadsBack /\ Base64ReadsBack /\ EncodingIsFound

\* What url_encode escapes is read back as the bytes it came from, also those
\* from 128 up, and nothing of it is a separator of an address.
RECURSIVE Unescape(_)
Unescape(t) ==
  IF t = <<>> THEN <<>>
  ELSE IF t[1] = PERCENT THEN <<calculate_hex(SubSeq(t, 2, 3))>> \o Unescape(SubSeq(t, 4, Len(t)))
  ELSE <<t[1]>> \o Unescape(Tail(t))
EscapesReadBack ==
  sample.of = "escape" =>
    LET text == url_encode(sample.data) IN
    /\ Unescape(text) = sample.data
    /\ ToSet(text) \cap {SLASH, QUERY, HASH, AMP, EQ} = {}

\* An address with a path is taken apart into the parts it was put together
\* from, by http_proxy also one without a path, query and fragment.  (Without a
\* path both copies take a query for part of something else, and a host counts
\* as one behind a schema only; these are not among the parts.)
Put(m, key, before) == IF key \in DOMAIN m THEN before \o m[key] ELSE <<>>
Built(m) ==
  (IF "schema" \in DOMAIN m THEN m["schema"] \o <<COLON, SLASH, SLASH>> ELSE <<>>)
  \o Put(m, "host", <<>>) \o Put(m, "port", <<COLON>>) \o Put(m, "path", <<>>)
  \o Put(m, "query", <<QUERY>>) \o Put(m, "fragment", <<HASH>>)
AddressIsTakenApart ==
  sample.of = "url" =>
    /\ proxy_parse_url(Built(sample.data)) = sample.data
    /\ "path" \in DOMAIN sample.data => parse_url(Built(sample.data)) = sample.data

\* Merging two queries gives the keys of both, each once, with the last value
\* the second query has for it, or else the first.
QueryOf(pairs) ==
  FlattenSeq([i \in DOMAIN pairs |-> (IF i = 1 THEN <<>> ELSE <<AMP>>)
                                     \o <<pairs[i][1], EQ, pairs[i][2]>>])
LastFor(pairs, k) == pairs[Max({i \in DOMAIN pairs : pairs[i][1] = k})][2]
KeysOf(pairs) == {pairs[i][1] : i \in DOMAIN pairs}
QueriesAreMerged ==
  sample.of = "query" =>
    LET a == sample.data[1]
        b == sample.data[2]
        merged == split(merge_url_query(QueryOf(a), QueryOf(b)), AMP)
    IN  b # <<>> =>
        /\ ToSet(merged) =
             {<<k, EQ, LastFor(IF k \in KeysOf(b) THEN b ELSE a, k)>> : k \in KeysOf(a) \cup KeysOf(b)}
        /\ Len(merged) = Cardinality(KeysOf(a) \cup KeysOf(b))

\* What the functions on addresses put together is what they take apart: the
\* parts of an address, the bytes of an escaped value, the keys of a query.
AddressesReadBack == AddressIsTakenApart /\ EscapesReadBack /\ QueriesAreMerged
=============================================================================
