\* Two units of one task on two consumers that handle up to two units per run, with room for one lease;
\* the task is cancelled or set done by hand, and its planning raises, at any moment.
SPECIFICATION Spec
CONSTANTS
    Task = {t1}
    UnitsPerTask = 2
    NowTasks = {}
    NowLane = now
    BulkLane = now
    AnyLane = any
    Unit <- MCUnit
    TaskOf <- MCTaskOf
    LaneOf <- MCLaneOf
    Lane <- MCLane
    GapTask = {}
    Costly = {}
    Internal = {c1, c2}
    External = {}
    Reaper = reaper
    None = none
    Size = 1
    Lease = 0
    Backoff = 0
    MaxAttempts = 1
    MaxInFlight = 1
    PauseAfter = 0
    AutoPause = FALSE
    ConsumeMax = 2
    PatchTargets = {"cancelled", "done"}
    FaultKinds = {"plan"}
    MaxFaults = 1
SYMMETRY Instances
INVARIANTS
    TypeOK
PROPERTIES
    SettledStays
    SettlesWhenQuiet
