CONSTANTS
    None = None
    Histories <- MCHistories
    Secrets = {"key"}
    TextCap = 2
    Importers = {p1, p2}
    Now = 1750000000
    RetainAfter = 1720000000
    MaxFileLines = 4
    MaxActiveJobs = 1
    MaxFailures = 1
    MaxSweeps = 1
SPECIFICATION FairSpec
INVARIANTS NeverStoredTwice CompletedIsStaged EventsAreTurns
PROPERTY EveryTurnStored
