\* The smallest topology with a guest: one TAP, one crash, nobody else.
CONSTANTS
    NB = 1
    NR = 0
    NE = 1
    KindOf <- OneTap
    SwitchOf <- AllOnFirst
    RouterOf <- AllOnFirst
    Ids = {1, 2, 3, 4, 5, 6, 7, 8, 9}
    Exposed = {}
    MaxCrashes = 1
    MaxFaults = 0
    MaxForeign = 0
SPECIFICATION Spec
INVARIANT CleanupReplays
CHECK_DEADLOCK FALSE
