\* Three operations over a count that saturates at two, two transfer ids.
SPECIFICATION FairSpec
CONSTANTS
    Leases = {l1, l2, l3}
    CountMax = 2
    U64Max = 3
INVARIANTS CountIsLeases RetiredIsEmpty CommitCannotPanic DrainIsStable NoStrandedWaiter
PROPERTIES WaitEnds
CHECK_DEADLOCK FALSE
