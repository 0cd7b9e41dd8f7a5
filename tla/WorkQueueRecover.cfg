\* Two consumers, one of which may die at any point while it holds a lease.
SPECIFICATION FairSpec
CONSTANTS
    Task = {t1}
    UnitsPerTask = 1
    NowTasks = {}
    NowLane = now
    BulkLane = now
    AnyLane = any
    Unit <- MCUnit
    TaskOf <- MCTaskOf
    LaneOf <- MCLaneOf
    Lane <- MCLane
    GapTask = {}
    Costly = {}
    Internal = {c1, c2}
    External = {}
    Reaper = reaper
    None = none
    Size = 1
    Lease = 1
    Backoff = 1
    MaxAttempts = 2
    MaxInFlight = 1
    PauseAfter = 0
    AutoPause = FALSE
    ConsumeMax = 1
    PatchTargets = {"cancelled"}
    FaultKinds = {"process", "message"}
    MaxFaults = 1
PROPERTIES
    LeasesEnd
    QueuedWorkMoves
