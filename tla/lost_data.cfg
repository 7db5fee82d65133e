\* A DATA packet is lost; both timeouts are the same.
SPECIFICATION TimelySpec
CONSTANTS
    MaxBlock = 4
    LastChunk = 3
    Retries = 1
    Dally = TRUE
    Verdicts <- Accepting
    Requests <- PlainRead
    Aborters <- Nothing
    Faults <- Nothing
    Coincide = FALSE
    Overtaking = TRUE
    Redelivery = FALSE
    Strays <- Nothing
    MaxLosses = 1
    Patient = FALSE
PROPERTIES Survives
CHECK_DEADLOCK FALSE
