----------------------------- MODULE MCGateways -----------------------------
(***************************************************************************)
(* Two clients and their remotes on few numbers, so that each number is    *)
(* used by a client and by a remote, one after the other.                  *)
(***************************************************************************)
EXTENDS Gateways

MCFds == 1..5
MCMaxToken == [Socks |-> 6, HttpGateway |-> 4]
=============================================================================
