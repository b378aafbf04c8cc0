SPECIFICATION FairSpec
CONSTANTS
    Null = null
    Space = " "
    Words <- Names
    Sources <- TwoFiles
    Pieces = 3
    MAX_ATTRS = 6
    MAX_TAG_BUFFER = 13
    MAX_TOKEN_LEN = 30
    MAX_XML_FILE_SIZE = 60
    Chunk = 20
CHECK_DEADLOCK FALSE
INVARIANTS NoNullIsFollowed DomIsATree WellFormedIsParsed AcceptedIsAPart
PROPERTY ParsingEnds
