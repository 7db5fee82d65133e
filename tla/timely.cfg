\* Up to Retries datagrams are lost; the receiver has the longer timeout.
SPECIFICATION TimelySpec
CONSTANTS
    MaxBlock = 4
    LastChunk = 3
    Retries = 2
    Dally = TRUE
    Verdicts <- Accepting
    Requests <- AnyRequest
    Aborters <- Nothing
    Faults <- Nothing
    Coincide = FALSE
    Overtaking = TRUE
    Redelivery = FALSE
    Strays <- Nothing
    MaxLosses = 2
    Patient = TRUE
PROPERTIES Survives
CHECK_DEADLOCK FALSE
