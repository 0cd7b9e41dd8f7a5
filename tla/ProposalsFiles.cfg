\* Two documents for one target, one with a cover picture, edited and corrected, decided one by one and in bulk, and
\* pruned.  MaxRevision 2: unedited, and edited or corrected.  No crashes: a file without a row is left behind by one.
\* The instance stops when everything was pruned.
SPECIFICATION Spec
CONSTANTS
    Proposal = {p1, p2}
    Request = {r1, r2}
    Value = {v1, v2}
    TheTarget = target
    TheRef = ref
    SameRef = {}
    Target <- MCTarget
    TargetOf <- MCTargetOf
    Ref <- MCRef
    RefOf <- MCRefOf
    Staged = {p2}
    Artifact = {}
    None = none
    Ops = {"intake", "accept", "reject", "bulk_reject", "edit", "revise", "prune"}
    MaxRevision = 2
SYMMETRY Alike
INVARIANTS
    TypeOK
    NoOrphanFile
PROPERTIES
    DecidedValueStays
CHECK_DEADLOCK FALSE
