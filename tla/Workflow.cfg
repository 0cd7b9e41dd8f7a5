\* Three steps, two attempts at each, one accept request under way.
CONSTANTS
    outline = outline
    text = text
    document = document
    Steps = {outline, text, document}
    Needs <- MCNeeds
    WorkerOf <- MCWorkerOf
    AutoGates = {text}
    Documents = {document}
    Attempts = 2
    MaxTasks = 4
    Reviewers = {"r1"}
SPECIFICATION FairSpec
INVARIANTS RunInv InputsApproved ApprovedIffApplied NeverWedged
PROPERTIES CancelledRunStands LifeSpec ComesToRest
\* The instance stops when the run is closed or its attempts are used up.
CHECK_DEADLOCK FALSE
