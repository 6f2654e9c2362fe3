CONSTANTS
    Workers = {w1}
    MaxCaptures = 2
    QueueDepth = 1
    Concurrency = 2
    MaxAttempts = 2
    Visibility = 1
    BackoffBase = 1
    Horizon = 3
    MaxAbandons = 1
SPECIFICATION FairSpec
INVARIANTS DoneIsEmbedded DeadOnlyWhenExhausted
PROPERTY KeepsPromise
