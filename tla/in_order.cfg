\* No completion is stale, datagrams are lost and repeated in order; the numbers roll over.
SPECIFICATION Spec
CONSTANTS
    MaxBlock = 2
    LastChunk = 5
    Retries = 1
    Dally = TRUE
    Verdicts <- Accepting
    Requests <- PlainWrite
    Aborters <- Nothing
    Faults <- Nothing
    Coincide = FALSE
    Overtaking = FALSE
    Redelivery = TRUE
    Strays <- Nothing
INVARIANTS TypeOK Numbering NoCrash NoProtocolError AgreedOutcome
PROPERTIES ImplementsFileTransfer
CHECK_DEADLOCK FALSE
