SPECIFICATION LoaderSpec
CONSTANTS
    None = None
    TooLong = TooLong
    RootDir = "cfg"
    Documents <- AllDocuments
    MaxTasks = 4
    MaxBusses = 4
    MaxServices = 4
    MaxNodes = 3
CHECK_DEADLOCK FALSE
INVARIANTS LoadedAsWritten WholeDocumentsLoadWhole
