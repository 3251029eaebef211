----------------------------- MODULE MCClients ------------------------------
(***************************************************************************)
(* One address, whose server goes away and comes back, and as many numbers *)
(* as connections that may be open at a time.                              *)
(***************************************************************************)
EXTENDS Clients

MCFds == 1..3
=============================================================================
