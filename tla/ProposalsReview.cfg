\* Two proposals for one target, two requests that intake, accept, reject and undo them at once while the
\* catalogue is edited from outside.  No bulk reject: see ProposalsBulkReject.
SPECIFICATION Spec
CONSTANTS
    Proposal = {p1, p2}
    Request = {r1, r2}
    Value = {v1, v2}
    TheTarget = target
    TheRef = ref
    SameRef = {}
    Target <- MCTarget
    TargetOf <- MCTargetOf
    Ref <- MCRef
    RefOf <- MCRefOf
    Staged = {}
    Artifact = {}
    None = none
    Ops = {"intake", "accept", "reject", "undo", "outside"}
    MaxRevision = 1
SYMMETRY Alike
INVARIANTS
    DecidedOnce
    CatalogueMatches
PROPERTIES
    ReviewSpec
