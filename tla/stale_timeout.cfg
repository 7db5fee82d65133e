\* A timeout is queued behind the packet it waits for.
SPECIFICATION Spec
CONSTANTS
    MaxBlock = 4
    LastChunk = 2
    Retries = 1
    Dally = TRUE
    Verdicts <- Accepting
    Requests <- OnlyRead
    Aborters <- Nothing
    Faults <- Nothing
    Coincide = TRUE
    Overtaking = FALSE
    Redelivery = TRUE
    Strays <- Nothing
INVARIANTS NoCrash
CHECK_DEADLOCK FALSE
