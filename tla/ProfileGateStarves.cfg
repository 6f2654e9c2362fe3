CONSTANTS
    Passes = {p1}
    MaxMemories = 2
    ApprovalIds = {1, 2, 3}
    FactKeys = {"k1", "k2"}
    HeuristicKeys = {"h1"}
    ExtractBatch = 1
    MinInputs = 1
    MaxProposals = 1
    AutoApprove = TRUE
    MaxInterrupts = 0
SPECIFICATION OrderedSpec
PROPERTY EveryCandidateProposed
