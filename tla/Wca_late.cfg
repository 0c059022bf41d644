SPECIFICATION FairSpec
CONSTANTS
    Handlers = {"key_manager", "fwup"}
    Parts = 2
    QueueSize = 1
    PoolSize = 3
    MaxCommands = 4
INVARIANTS TypeOK OwnResponse ShortOnlyWithBacklog
PROPERTIES ExchangeReturns
