SPECIFICATION WireSpec
CONSTANTS
  Scripts <- MCScripts
  Targets <- MCTargets
INVARIANTS CutDoesNotMatter PassedOnIntact CodecsReadBack TrieFindsKeywords AddressesReadBack
CHECK_DEADLOCK FALSE
