\* A peer that sends any packet at any time, and a third party; nothing fails locally,
\* the user of the server may abort.
SPECIFICATION PeerSpec
CONSTANTS
    MaxBlock = 3
    LastChunk = 2
    Retries = 1
    Dally = TRUE
    Verdicts <- AnyVerdict
    Requests <- AnyRequest
    Aborters <- Server
    Faults <- Nothing
    Coincide = FALSE
    Overtaking = TRUE
    Redelivery = TRUE
    Strays <- PeerAndStranger
INVARIANTS NeverStuck NoCrash RefusedBeforeTransfer SuccessIsAllSent NoGap
PROPERTIES CompletionIsFinal
CONSTRAINT Bounded
CHECK_DEADLOCK FALSE
