SPECIFICATION Spec
CONSTANTS
    LogSize = 3
    PageSize = 2
    MaxCount = 2
    Limit = 1
    Delay <- OneDelay
    MaxFaults = 1
    MaxReboots = 1
    MaxUpdates = 1
INVARIANTS TypeOK GuessesCounted DelayWaitedOut
