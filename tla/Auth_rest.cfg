SPECIFICATION FairSpec
CONSTANTS
    QueueSize = 2
    MaxInputs = 3
INVARIANTS TypeOK SomeTimerRuns LockScreenMeansLocked
PROPERTIES LatchHolds GoesOff
CHECK_DEADLOCK FALSE
