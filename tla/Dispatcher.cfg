SPECIFICATION FairSpec
CONSTANTS
    Feed <- MCFeed
    Shards <- MCShards
    shardHash <- MCShardHash
    shardQueueDepth = 1
    BatchLimit = 4
    transientAttempts = 2
    MaxLives = 2
INVARIANTS
    TypeOK
    NeverOvertakes
    AcknowledgedIsServed
PROPERTIES
    EveryUpdateAcknowledged
    ShutdownCompletes
    OneBudgetPerOutage
