SPECIFICATION RegistryFairSpec
CONSTANTS
    Files <- FileNames
    Graphs <- AnyGraph
    Uses <- Names
    Tasks <- TwoAndOne
    Garbage = "garbage"
    Residues <- AnyResidue
    Depths = 4
CHECK_DEADLOCK FALSE
INVARIANTS NoFlowContainsItself
PROPERTY LoadingEnds
