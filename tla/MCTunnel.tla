------------------------------ MODULE MCTunnel ------------------------------
(***************************************************************************)
(* Four numbers for two tunnels, which may exist together or one after     *)
(* the other, the second with the numbers the first has given back.        *)
(***************************************************************************)
EXTENDS Tunnel

MCFds == 1..4
=============================================================================
