CONSTANTS
    Conns = {c1, c2, c3}
    Worker = worker
    MaxConnections = 2
    Concurrency = 1
SPECIFICATION FairSpec
INVARIANTS AnswersTruthful NoRequestCut
PROPERTIES EveryConnectionEnds ShutdownCompletes
CHECK_DEADLOCK FALSE
