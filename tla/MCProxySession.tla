---------------------------- MODULE MCProxySession ----------------------------
(* Two sessions of one user: the first sends up to three requests,        *)
(* pipelined or not, in the clear or through CONNECT; the second one.      *)
EXTENDS ProxySession

CONSTANTS s1, s2

Good == [user |-> "u", pass |-> "new"]
Old == [user |-> "u", pass |-> "old"]
R(i, m, cred, h) == [id |-> i, method |-> m, cred |-> cred, host |-> h]

MCSessions == {s1, s2}
MCScripts ==
  (s1 :> {<<R(1, "get", Good, "a"), R(2, "get", Good, "b"), R(3, "get", NoCred, "a")>>,
          <<R(1, "get", NoCred, "a"), R(2, "get", Old, "a"), R(3, "get", BadCred, "b")>>,
          <<R(1, "get", Good, "a"), R(2, "connect", Good, "b"), R(3, "get", NoCred, "b")>>,
          <<R(1, "connect", Old, "b"), R(2, "get", NoCred, "b"), R(3, "get", NoCred, "b")>>,
          <<R(1, "get", Good, NoHost), R(2, "get", NoCred, "a")>>}
   @@ s2 :> {<<R(1, "get", Good, "a")>>, <<R(1, "connect", Old, "a")>>})
=============================================================================
