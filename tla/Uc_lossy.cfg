CONSTANTS
    Host = Host
    Device = Device
    MaxSeq = 255
    RetransmitMax = 2
    PoolSize = 1
    Production = FALSE
    Timely = FALSE
    MaxMsgs <- HostThree
    SendKinds <- BothTimings
    MaxFaults = 2
    MaxReboots = 1
    MaxSessions = 0
SPECIFICATION Spec
INVARIANTS TypeOK OrderedOnce SuccessMeansReceived
PROPERTIES ImplementsChannel
CHECK_DEADLOCK FALSE
