SPECIFICATION RegistrySpec
CONSTANTS
    Files <- FileNames
    Graphs <- NestedOnly
    Uses <- Names
    Tasks <- Both
    Garbage = "garbage"
    Residues <- Terminated
    Depths = 4
CHECK_DEADLOCK FALSE
INVARIANT AnswersAreOfTheFile
