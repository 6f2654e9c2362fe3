CONSTANTS
    Passes = {p1}
    MaxEvents = 3
    Sessions = {1, 2}
    Texts = {t1}
    ConsolidateBatch = 2
    SessionsPerPass = 1
    MinMemories = 2
    SweepLimit = 1
    ChatAdapter = TRUE
    Price = 1
    Budget = 3
    MaxArchived = 1
    MaxInterrupts = 1
SPECIFICATION FairSpec
INVARIANTS EventsKept ConsolidatedOnce SpendCapped
PROPERTIES EveryEventConsolidated EverySessionSettles
