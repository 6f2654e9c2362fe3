CONSTANTS
    Machines <- MCMachines
    Bins = {"b1", "b2"}
    Dbs = {"d"}
    NoDb = "default"
    Databases = {"home"}
    Opens <- MCOpens
    MaxRuns = 2
    MaxEdits = 1
    MaxEvents = 1
    Conns = {c1, c2}
    Peers = {p1, p2}
    Loopback = {p1}
    Limit = 2
    Window = 2
    Lockout = 2
    NoPeer = none
    MaxEntries = 1
SPECIFICATION WaySpec
INVARIANTS OwnEntriesKept BackupIsOriginal RunsIdempotent CapturedOnce NoEcho AnswersMatchRows
PROPERTY LockoutEarned
CHECK_DEADLOCK FALSE
