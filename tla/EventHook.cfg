SPECIFICATION HookSpec
CONSTANTS
    IdRange = 5
    MaxAttach = 4
    MaxFire = 3
INVARIANTS IteratorStaysValid FireReachesAll DetachTakesEffect
CHECK_DEADLOCK FALSE
