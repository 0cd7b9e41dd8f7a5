\* A bulk reject against a concurrent accept.
SPECIFICATION Spec
CONSTANTS
    Proposal = {p1, p2}
    Request = {r1, r2}
    Value = {v1, v2}
    TheTarget = target
    TheRef = ref
    SameRef = {}
    Target <- MCTarget
    TargetOf <- MCTargetOf
    Ref <- MCRef
    RefOf <- MCRefOf
    Staged = {}
    Artifact = {}
    None = none
    Ops = {"intake", "accept", "bulk_reject"}
    MaxRevision = 1
SYMMETRY Alike
INVARIANTS
    RejectedNeverWritten
CHECK_DEADLOCK FALSE
