CONSTANTS
    x = x
    y = y
    N = 3
    Names = {x, y}
    Setups <- MCSetups
    MAX_BRIDGES = 2
    Capacity = 2
    Lengths = {1, 3, 4}
    Forgetful = {1}
    MaxItems = 3
    MaxUpdates = 2
CHECK_DEADLOCK FALSE
SPECIFICATION FairSpec
INVARIANTS NewestLongEnough FieldsInPlace SpillsOnlyIfWider OwnBridges
PROPERTIES IsARelay RelayDelivers UpdateIsForwarded
