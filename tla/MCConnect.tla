----------------------------- MODULE MCConnect -----------------------------
(***************************************************************************)
(* Two requests for two numbers: they exist together, or the second gets   *)
(* the number of the first.  Three addresses: a first, a middle and a last *)
(* one.                                                                    *)
(***************************************************************************)
EXTENDS Connect

MCFds == 1..2
=============================================================================
