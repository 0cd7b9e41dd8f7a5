\* Three artifacts of one workflow step, two of them posted with one external_ref, two intakes at once, with and
\* without keep_edited, while the operator edits, approves and tries to undo; a request may die at any point.
SPECIFICATION Spec
CONSTANTS
    Proposal = {p1, p2, p3}
    Request = {r1, r2}
    Value = {v1, v2}
    TheTarget = target
    TheRef = ref
    SameRef = {p2, p3}
    Target <- MCTarget
    TargetOf <- MCTargetOf
    Ref <- MCRef
    RefOf <- MCRefOf
    Staged = {p3}
    Artifact = {p1, p2, p3}
    None = none
    Ops = {"intake", "keep", "edit", "accept", "undo", "crash"}
    MaxRevision = 2
SYMMETRY Alike
INVARIANTS
    SupersededReplaced
PROPERTIES
    EditsKept
CHECK_DEADLOCK FALSE
