\* dataHandler->start() of the server throws.
SPECIFICATION PeerSpec
CONSTANTS
    MaxBlock = 3
    LastChunk = 2
    Retries = 1
    Dally = TRUE
    Verdicts <- AnyVerdict
    Requests <- AnyRequest
    Aborters <- Nothing
    Faults <- StartFails
    Coincide = FALSE
    Overtaking = TRUE
    Redelivery = TRUE
    Strays <- PeerAndStranger
INVARIANTS NeverStuck
CONSTRAINT Bounded
CHECK_DEADLOCK FALSE
