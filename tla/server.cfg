\* Two operations of the server process, one of which may replace the other.
SPECIFICATION FairSpec
CONSTANTS
    Files = {"old", "new"}
    Worlds <- OneAtATime
    InitialDisks <- OneFile
    Retries = 1
    MaxPackets = 4
    MaxOperations = 2
    MaxChunks = 2
INVARIANTS TypeOK ListensUntilStopped NoDanglingHandler KeepsRunning NothingOutlivesMain OneWriter SuccessIsOnDisk SentAsAnnounced PacketsCounted
PROPERTIES AnsweredOnce StopEndsServer
CHECK_DEADLOCK FALSE
