\* An interactive and two bulk tasks, two external instances that claim from one lane or from any, room
\* for one lease per lane; two failures in a row or one budget error pause the worker, the operator resumes
\* at any moment.
SPECIFICATION Spec
CONSTANTS
    Task = {t1, t2, t3}
    UnitsPerTask = 1
    NowTasks = {t1}
    NowLane = now
    BulkLane = bulk
    AnyLane = any
    Unit <- MCUnit
    TaskOf <- MCTaskOf
    LaneOf <- MCLaneOf
    Lane <- MCLane
    GapTask = {}
    Costly = {}
    Internal = {}
    External = {x1, x2}
    Reaper = reaper
    None = none
    Size = 1
    Lease = 0
    Backoff = 0
    MaxAttempts = 1
    MaxInFlight = 1
    PauseAfter = 2
    AutoPause = TRUE
    ConsumeMax = 1
    PatchTargets = {}
    FaultKinds = {}
    MaxFaults = 0
SYMMETRY Instances
INVARIANTS
    LaneInFlightCap
    PauseSticks
