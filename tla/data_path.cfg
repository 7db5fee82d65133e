\* Every combination of the setups of MCDataPath, and a second request of each client.
SPECIFICATION Spec
CONSTANTS
    MaxBlock = 40
    HeaderSize = 2
    DefaultDataSize = 16
    BlockSizeMin = 2
    BlockSizeMax = 24
    TimeoutMin = 1
    TimeoutMax = 10
    Word = 32
    OtherOptions = {"a", "b"}
    Setups <- AllSetups
    SecondServers <- OtherServers
    Rounds = 2
    DefaultTimeout = 2
INVARIANTS BothSidesAgree Delivered EndsWithShortBlock LegalTransferSucceeds NobodyIsLeftWaiting RequestUnderstood HandlerIsConsulted AnnouncedIsReceived
PROPERTIES CutPacketIsRejected
CHECK_DEADLOCK FALSE
