CONSTANTS
    Host = Host
    Device = Device
    MaxSeq = 255
    RetransmitMax = 3
    PoolSize = 1
    Production = FALSE
    Timely = TRUE
    MaxMsgs <- HostThree
    SendKinds <- BothTimings
    MaxFaults = 1
    MaxReboots = 0
    MaxSessions = 0
SPECIFICATION Spec
INVARIANTS NoSendGivesUp
CHECK_DEADLOCK FALSE
