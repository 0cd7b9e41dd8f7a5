\* A gap task that may reach its cost limit, on one consumer; Celery loses a message, leases expire,
\* the operator cancels at any moment.
SPECIFICATION FairSpec
CONSTANTS
    Task = {t1}
    UnitsPerTask = 2
    NowTasks = {}
    NowLane = now
    BulkLane = now
    AnyLane = any
    Unit <- MCUnit
    TaskOf <- MCTaskOf
    LaneOf <- MCLaneOf
    Lane <- MCLane
    GapTask = {t1}
    Costly = {t1}
    Internal = {c1}
    External = {}
    Reaper = reaper
    None = none
    Size = 1
    Lease = 0
    Backoff = 0
    MaxAttempts = 1
    MaxInFlight = 1
    PauseAfter = 2
    AutoPause = TRUE
    ConsumeMax = 1
    PatchTargets = {"cancelled"}
    FaultKinds = {"message"}
    MaxFaults = 1
PROPERTIES
    TasksSettle
