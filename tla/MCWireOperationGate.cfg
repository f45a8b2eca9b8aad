\* Three guard holders over a counter that saturates at two, and two sessions.
SPECIFICATION FairSpec
CONSTANTS
    Holders = {h1, h2, h3}
    Sessions = {s1, s2}
    Supervisor = supervisor
    CountMax = 2
INVARIANTS CountsAreGuards GracefulDrainIsFinal NoLostWakeup
PROPERTIES ShutdownTerminates
CHECK_DEADLOCK FALSE
