\* One container endpoint, one failing command, no crash, nobody else.
CONSTANTS
    NB = 1
    NR = 0
    NE = 1
    KindOf <- OneContainer
    SwitchOf <- AllOnFirst
    RouterOf <- AllOnFirst
    Ids = {1, 2, 3, 4, 5, 6, 7, 8, 9}
    Exposed = {}
    MaxCrashes = 0
    MaxFaults = 1
    MaxForeign = 0
SPECIFICATION Spec
INVARIANT LedgerLoadable
CHECK_DEADLOCK FALSE
