----------------------------- MODULE MCSessions -----------------------------
(***************************************************************************)
(* One master and two workers.  Two connections may be in one worker at a *)
(* time, or follow one another on a number; which worker takes one is      *)
(* open, and any two of them may be lost on the way.                       *)
(***************************************************************************)
EXTENDS Sessions

MCFds == 1..2
=============================================================================
