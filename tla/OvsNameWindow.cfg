\* The same graph when somebody else may act between the last ownership check
\* of a link or namespace and the command that deletes it.
CONSTANTS
    NB = 1
    NR = 1
    NE = 2
    KindOf <- ContainerAndTap
    SwitchOf <- AllOnFirst
    RouterOf <- AllOnFirst
    Ids = {1, 2, 3, 4, 5, 6, 7, 8, 9}
    Exposed = {"deleteLink", "deleteNamespace"}
    MaxCrashes = 0
    MaxFaults = 0
    MaxForeign = 2
SPECIFICATION Spec
PROPERTY
    ForeignPreserved
\* A ledger that cannot be loaded leaves the operator nothing to do.
CHECK_DEADLOCK FALSE
