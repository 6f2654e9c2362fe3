CONSTANTS
    Conns = {c1}
    Worker = worker
    MaxConnections = 2
    Concurrency = 1
SPECIFICATION FairSpec
PROPERTY ServeReturns
CHECK_DEADLOCK FALSE
