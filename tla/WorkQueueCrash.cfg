\* One consumer that may die once, at any point between two transactions.
SPECIFICATION FairSpec
CONSTANTS
    Task = {t1}
    UnitsPerTask = 1
    NowTasks = {}
    NowLane = now
    BulkLane = now
    AnyLane = any
    Unit <- MCUnit
    TaskOf <- MCTaskOf
    LaneOf <- MCLaneOf
    Lane <- MCLane
    GapTask = {}
    Costly = {}
    Internal = {c1}
    External = {}
    Reaper = reaper
    None = none
    Size = 1
    Lease = 0
    Backoff = 0
    MaxAttempts = 1
    MaxInFlight = 1
    PauseAfter = 0
    AutoPause = FALSE
    ConsumeMax = 1
    PatchTargets = {}
    FaultKinds = {"process"}
    MaxFaults = 1
PROPERTIES
    TasksSettle
