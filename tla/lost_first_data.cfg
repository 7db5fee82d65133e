\* The first DATA packet after an OACK is lost; both timeouts are the same.
SPECIFICATION TimelySpec
CONSTANTS
    MaxBlock = 4
    LastChunk = 3
    Retries = 1
    Dally = TRUE
    Verdicts <- Accepting
    Requests <- WriteWithOptions
    Aborters <- Nothing
    Faults <- Nothing
    Coincide = FALSE
    Overtaking = TRUE
    Redelivery = FALSE
    Strays <- Nothing
    MaxLosses = 1
    Patient = FALSE
PROPERTIES OackAfterWrq
CHECK_DEADLOCK FALSE
