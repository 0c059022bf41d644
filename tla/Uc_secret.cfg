CONSTANTS
    Host = Host
    Device = Device
    MaxSeq = 255
    RetransmitMax = 2
    PoolSize = 1
    Production = TRUE
    Timely = FALSE
    MaxMsgs <- HostTwo
    SendKinds <- SecretSends
    MaxFaults = 1
    MaxReboots = 1
    MaxSessions = 2
SPECIFICATION Spec
INVARIANTS SecretOnce
CHECK_DEADLOCK FALSE
