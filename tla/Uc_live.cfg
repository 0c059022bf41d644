CONSTANTS
    Host = Host
    Device = Device
    MaxSeq = 255
    RetransmitMax = 2
    PoolSize = 1
    Production = FALSE
    Timely = FALSE
    MaxMsgs <- OneEach
    SendKinds <- PlainSends
    MaxFaults = 1
    MaxReboots = 0
    MaxSessions = 0
SPECIFICATION FairSpec
INVARIANTS SuccessMeansReceived
PROPERTIES SendReturns ReceiverUnblocks AckIsSent
CHECK_DEADLOCK FALSE
