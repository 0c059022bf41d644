CONSTANTS
    Host = Host
    Device = Device
    MaxSeq = 4
    RetransmitMax = 2
    PoolSize = 1
    Production = FALSE
    Timely = TRUE
    MaxMsgs <- LongSilence
    SendKinds <- PlainSends
    MaxFaults = 0
    MaxReboots = 0
    MaxSessions = 0
SPECIFICATION Spec
INVARIANTS DroppedWasReceived
CHECK_DEADLOCK FALSE
