--------------------------- MODULE MCEventManager ---------------------------
EXTENDS EventManager

MCCbSets == {{"CONNECT"}, {"READ", "CLOSE"}}
\* For the run with nested callbacks: a connect that succeeds or a flush, all
\* of a connection at once, and a failure.
MCFlagSets == {{"OUT"}, {"IN", "OUT", "RDHUP"}, {"OUT", "ERR", "HUP"}}
\* For the other one: what comes alone as well.
MCSingleFlagSets ==
    {{"OUT"}, {"IN"}, {"IN", "OUT"}, {"IN", "RDHUP"}, {"OUT", "ERR", "HUP"}}
=============================================================================
