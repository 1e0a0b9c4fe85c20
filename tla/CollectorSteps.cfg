SPECIFICATION CollectorSpec
CONSTANTS
    None = None
    \* RunnerMemory, LogTemplates
    Templates = {1, 2, 3, 4}
    ErrorLines = {2, 3}
    Touched = {2}
    NoBaseline = NoBaseline
    Nothing = Nothing
    Jobs = {1, 2, 3}
    RunIds = {"r1", "r2", "r3", "r4", "r5"}
    WorkflowOf <- MCWorkflowOf
    BranchOf <- MCBranchOf
    LogOf <- MCLogOf
    ArtifactsOf <- MCArtifactsOf
    Succeeded = {"r3"}
    Maskings = {1, 2}
    RunIdCap = 1
    MaxEvictions = 1
    MaxOverlap = 2
    \* BranchHistory
    MaxCommits = 3
    MaxRuns = 4
    Outcomes = {"success", "failure", "cancelled"}
    PageSize = 3
    WalkCap = 3
    \* Analysis
    Summaries <- MCSummaries
    Answers <- MCAnswers
    LongQuotes = {"r"}
    MaxAnalyses = 2
    \* Diagnosis
    Evidence <- MCEvidence
    \* Collection
    Offers <- MCOffers
    MaxPipeline = 3
    MaxAttempts = 3
    MaxPages = 2
INVARIANTS
    RecurrenceIsWitnessed
    DriftIsTold
    BaselineIsHealthy
    FirstFailingIsFirst
    StreakIsSinceGreen
    HighIsGrounded
    AnswerIsCited
    InfraStaysInfra
    QuestionsBounded
    TerminalIsNamed
    OverrunIsBounded
PROPERTIES
    DiagnosisIsStable
CHECK_DEADLOCK FALSE
