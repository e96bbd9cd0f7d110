SPECIFICATION FairSpec
CONSTANTS
    Streams <- MCStreams
    Claims <- MCClaims
    HeaderSize = 5
    Chunk = 2
    MaxSize = 3
INVARIANT TypeOK
PROPERTIES ImplementsStream HandlerLeaves
CHECK_DEADLOCK FALSE
