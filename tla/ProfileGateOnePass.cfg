CONSTANTS
    Passes = {p1}
    MaxMemories = 3
    ApprovalIds = {1, 2, 3}
    FactKeys = {"k1", "k2"}
    HeuristicKeys = {"h1"}
    ExtractBatch = 2
    MinInputs = 1
    MaxProposals = 1
    AutoApprove = TRUE
    MaxInterrupts = 1
SPECIFICATION OrderedSpec
INVARIANTS FactsCiteApprovals LatestFactActive ProposeOnce RejectionDurable
PROPERTY EveryKeyDecided
