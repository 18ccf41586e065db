\* Nobody else on the host: two crashes and one failing command, then the
\* operator repeats `down`.
CONSTANTS
    NB = 1
    NR = 1
    NE = 2
    KindOf <- RouterAndContainer
    SwitchOf <- AllOnFirst
    RouterOf <- AllOnFirst
    Ids = {1, 2, 3, 4, 5, 6, 7, 8, 9}
    Exposed = {}
    MaxCrashes = 2
    MaxFaults = 1
    MaxForeign = 0
SPECIFICATION FairSpec
INVARIANT CleanupReplays
PROPERTY CleanupCompletes
\* A ledger that cannot be loaded leaves the operator nothing to do.
CHECK_DEADLOCK FALSE
