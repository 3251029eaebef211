SPECIFICATION Spec
CONSTANTS
  s1 = s1
  s2 = s2
  Sessions <- MCSessions
  Names = {"", "none", "malformed", "nohost", "get", "connect", "u", "new", "old", "a", "b"}
  Scripts <- MCScripts
  Upstream = {"whole", "bad"}
  MaxAddrs = 2
  MaxPacket = 5
  Large = {2}
  Expire = 1
  MaxTime = 2
INVARIANTS
  OneOperation
  ForwardedWasConfirmed
  AnswersInOrder
  CollectorCanPair
  PipelinedIsServed
CHECK_DEADLOCK FALSE
