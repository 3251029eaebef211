---------------------------- MODULE StreamReader ----------------------------
(***************************************************************************)
(* StreamReader: a cursor over the bytes received so far.  Every operation *)
(* takes a reader and returns the reader after it: `off' is how far it has *)
(* read, `val' what the operation read, and `st' turns from "OK" to "AG"   *)
(* (throw AG: more bytes are needed) or "NG" (throw NG: never valid).  An  *)
(* operation on a reader that has thrown does nothing.                     *)
(*                                                                         *)
(* A symbol below 256 is a byte.  A symbol from Word up stands for a run   *)
(* of ordinary bytes, which a reader can only skip or return as a whole;   *)
(* one from Num up is a run of digits.  Cutting such a run in two is like  *)
(* cutting before it: what looks for its end finds none.                   *)
(***************************************************************************)
EXTENDS Naturals, Sequences, FiniteSetsExt

Word == 1000
Num == 2000
SP == 32
CR == 13
LF == 10
COLON == 58
CRLF == <<CR, LF>>

\* atoi, atol, hex2long on a run of symbols: the number, 0 if there is none.
ValueOf(q) == IF q # <<>> /\ q[1] >= Num THEN q[1] - Num ELSE 0
NumberOf(n) == <<Num + n>>

Reader(str) == [str |-> str, off |-> 0, st |-> "OK", val |-> <<>>]
Left(s) == Len(s.str) - s.off
end(s) == s.off >= Len(s.str)

\* What follows in the code, unless an exception was thrown.
Then(s, Next(_)) == IF s.st = "OK" THEN Next(s) ELSE s
Returns(s, value) == [s EXCEPT !.val = value]

fail_if(s, cond) == IF s.st = "OK" /\ cond THEN [s EXCEPT !.st = "NG"] ELSE s

read_size(s, size) ==
  IF s.st # "OK" THEN s
  ELSE IF size > Left(s) THEN [s EXCEPT !.st = "AG"]
  ELSE [s EXCEPT !.off = @ + size, !.val = SubSeq(s.str, s.off + 1, s.off + size)]

\* read_plain of one byte, and pread_plain, which does not advance.
read_plain(s) == read_size(s, 1)
pread_plain(s) ==
  IF s.st # "OK" THEN s
  ELSE IF Left(s) = 0 THEN [s EXCEPT !.st = "AG"]
  ELSE [s EXCEPT !.val = <<s.str[s.off + 1]>>]

\* read_up: skip the symbols of chars; the end of the bytes is not the end of
\* the run.
read_up(s, chars) ==
  LET others == {i \in s.off + 1 .. Len(s.str) : s.str[i] \notin chars} IN
  IF s.st # "OK" THEN s
  ELSE IF others = {} THEN [s EXCEPT !.st = "AG", !.off = Len(s.str)]
  ELSE [s EXCEPT !.off = Min(others) - 1]

\* read_until: up to the first symbol of stops, which is eaten too on request.
read_until(s, stops, eatup_final) ==
  LET hits == {i \in s.off + 1 .. Len(s.str) : s.str[i] \in stops} IN
  IF s.st # "OK" THEN s
  ELSE IF hits = {} THEN [s EXCEPT !.st = "AG", !.off = Len(s.str)]
  ELSE [s EXCEPT !.off = IF eatup_final THEN Min(hits) ELSE Min(hits) - 1,
                 !.val = SubSeq(s.str, s.off + 1, Min(hits) - 1)]

\* The pair of lines that reads two bytes and fails unless they are CR LF.
read_crlf(s) == Then(read_size(s, 2), LAMBDA t : fail_if(t, t.val # CRLF))
=============================================================================
