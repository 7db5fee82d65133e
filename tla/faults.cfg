\* The network repeats nothing; sockets and data handlers fail, users abort, options are refused.
SPECIFICATION FairSpec
CONSTANTS
    MaxBlock = 4
    LastChunk = 3
    Retries = 1
    Dally = TRUE
    Verdicts <- AnyVerdict
    Requests <- AnyRequest
    Aborters <- Users
    Faults <- AnyFault
    Coincide = FALSE
    Overtaking = FALSE
    Redelivery = FALSE
    Strays <- Nothing
PROPERTIES ImplementsFileTransfer OperationsEnd
CHECK_DEADLOCK FALSE
