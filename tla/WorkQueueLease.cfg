\* One unit, an internal consumer and two external instances that repeat their calls, a crash or a
\* failing intake at any point, the operator cancelling at any moment.
SPECIFICATION Spec
CONSTANTS
    Task = {t1}
    UnitsPerTask = 1
    NowTasks = {}
    NowLane = now
    BulkLane = now
    AnyLane = any
    Unit <- MCUnit
    TaskOf <- MCTaskOf
    LaneOf <- MCLaneOf
    Lane <- MCLane
    GapTask = {}
    Costly = {}
    Internal = {c1}
    External = {x1, x2}
    Reaper = reaper
    None = none
    Size = 2
    Lease = 1
    Backoff = 1
    MaxAttempts = 2
    MaxInFlight = 2
    PauseAfter = 0
    AutoPause = FALSE
    ConsumeMax = 1
    PatchTargets = {"cancelled"}
    FaultKinds = {"process", "intake"}
    MaxFaults = 1
SYMMETRY Instances
INVARIANTS
    LeaseInv
    NoSharedLease
    ResultsCountOnce
    FailedCountExact
PROPERTIES
    UnitLeaseSpec
