\* A container and a TAP on one switch next to a router namespace; one crash,
\* one failing command and two steps of somebody else, at any moment outside
\* the name windows.
CONSTANTS
    NB = 1
    NR = 1
    NE = 2
    KindOf <- ContainerAndTap
    SwitchOf <- AllOnFirst
    RouterOf <- AllOnFirst
    Ids = {1, 2, 3, 4, 5, 6, 7, 8, 9}
    Exposed = {}
    MaxCrashes = 1
    MaxFaults = 1
    MaxForeign = 2
SPECIFICATION Spec
INVARIANTS
    NoOrphan
    RecordsIdentifyOurs
PROPERTY
    ForeignPreserved
\* A ledger that cannot be loaded leaves the operator nothing to do.
CHECK_DEADLOCK FALSE
