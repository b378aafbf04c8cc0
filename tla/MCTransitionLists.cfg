\* Deadlock is not checked: loading comes to an end.
SPECIFICATION ListsFairSpec
CONSTANTS
    States = {"A", "B", "C"}
    N = 4
    Configs <- AllConfigs
CHECK_DEADLOCK FALSE
INVARIANTS NothingLost DocumentOrder
PROPERTY MachineLoadingEnds
