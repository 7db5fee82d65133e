\* The first packet is queued behind the last timeout.
SPECIFICATION PeerSpec
CONSTANTS
    MaxBlock = 3
    LastChunk = 2
    Retries = 1
    Dally = TRUE
    Verdicts <- AnyVerdict
    Requests <- AnyRequest
    Aborters <- Nothing
    Faults <- Nothing
    Coincide = TRUE
    Overtaking = TRUE
    Redelivery = TRUE
    Strays <- Peer
PROPERTIES ReportedOnce
CONSTRAINT Bounded
CHECK_DEADLOCK FALSE
