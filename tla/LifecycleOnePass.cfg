CONSTANTS
    Passes = {p1}
    MaxMemories = 3
    HalfLife = 1
    DormantAfter = 2
    ArchiveAfter = 4
    AssociateBatch = 2
    DecayBatch = 1
    MaxSeconds = 2
    Retaining = {TRUE, FALSE}
    Horizon = 5
    MaxInterrupts = 1
SPECIFICATION FairSpec
INVARIANTS StatesCurrent CompletedIsCaughtUp
PROPERTIES DecayEnds EveryMemoryArchived
