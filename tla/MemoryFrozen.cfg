\* One job after the other, nothing evicted or cancelled before it saves.
SPECIFICATION Spec
CONSTANTS
    Templates = {1, 2, 3, 4}
    ErrorLines = {2, 3}
    Touched = {2}
    NoBaseline = NoBaseline
    Nothing = Nothing
    Jobs = {1, 2, 3}
    RunIds = {"r1", "r2", "r3", "r4", "r5"}
    WorkflowOf <- MCWorkflowOf
    BranchOf <- MCBranchOf
    LogOf <- MCLogOf
    ArtifactsOf <- MCArtifactsOf
    Succeeded = {"r3"}
    Maskings = {1, 2}
    RunIdCap = 1
    MaxEvictions = 1
    MaxOverlap = 1
INVARIANT
    HistoryAccumulates
CHECK_DEADLOCK FALSE
