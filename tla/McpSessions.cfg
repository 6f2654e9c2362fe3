CONSTANTS
    s1 = s1
    s2 = s2
    Servers <- MCServers
    Messages = {"blank", "ready", "long", "ping", "tool", "remember"}
    MaxLines <- MCMaxLines
    MaxLine = 2
    ChunkMax = 2
    QueueDepth = 1
    OldRelease = old
SPECIFICATION McpFairSpec
INVARIANT StoreMatchesReplies
PROPERTY KeepsPromise
CHECK_DEADLOCK FALSE
