\* Any order, loss and repetition of datagrams; any coincidence of completions.
SPECIFICATION Spec
CONSTANTS
    MaxBlock = 4
    LastChunk = 3
    Retries = 1
    Dally = FALSE
    Verdicts <- Accepting
    Requests <- PlainWrite
    Aborters <- Nothing
    Faults <- Nothing
    Coincide = TRUE
    Overtaking = TRUE
    Redelivery = TRUE
    Strays <- Nothing
INVARIANTS ReceivedIsPrefix ReceiverSuccessIsComplete SenderSuccessIsDelivered LockStep NegotiatedBeforeData
CHECK_DEADLOCK FALSE
