----------------------------- MODULE MCCollector -----------------------------
(***************************************************************************)
(* The parts of the collector that share no state, checked in one run: a   *)
(* behaviour is of the one part that "part" names, the variables of the    *)
(* others stay as they are.                                                *)
(***************************************************************************)
EXTENDS MCRunnerMemory

CONSTANTS None,
          MaxCommits, MaxRuns, Outcomes, PageSize, WalkCap,      \* BranchHistory
          Summaries, Answers, LongQuotes, MaxAnalyses,           \* Analysis
          Evidence,                                              \* Diagnosis
          Offers, MaxPipeline, MaxAttempts, MaxPages             \* Collection

VARIABLES part,
          commits, runs, clock,
          pc, summary, record, persona, posts, cache, published, analyses,
          phase, evidence, card, hunks,
          step, offer, low, optional, todo, found, zips, told, overrun

memoryVars     == vars
branchVars     == <<commits, runs, clock>>
analysisVars   == <<pc, summary, record, persona, posts, cache, published, analyses>>
diagnosisVars  == <<phase, evidence, card, hunks>>
collectionVars == <<step, offer, low, optional, todo, found, zips, told, overrun>>

Br == INSTANCE BranchHistory
An == INSTANCE Analysis
Dg == INSTANCE Diagnosis
Co == INSTANCE Collection

ASSUME AnalysisAssumption   == An!WellFormedInputs
ASSUME BranchAssumption     == WalkCap \in Nat /\ PageSize \in Nat
ASSUME DiagnosisAssumption  == Dg!WellFormedEvidence
ASSUME CollectionAssumption == Co!WellFormedOffers

IdleDiagnosis  == /\ phase = None /\ evidence = None /\ card = None /\ hunks = None
IdleCollection == /\ step = None /\ offer = None /\ low = None /\ optional = None /\ todo = None
                  /\ found = None /\ zips = None /\ told = None /\ overrun = None

CollectorInit ==
    /\ part \in {"memory", "branch", "analysis", "diagnosis", "collection"}
    /\ Init /\ Br!Init /\ An!Init
    /\ IF part = "diagnosis"  THEN Dg!Init ELSE IdleDiagnosis
    /\ IF part = "collection" THEN Co!Init ELSE IdleCollection

CollectorNext ==
    \/ /\ part = "memory" /\ Next
       /\ UNCHANGED <<part, branchVars, analysisVars, diagnosisVars, collectionVars>>
    \/ /\ part = "branch" /\ Br!Next
       /\ UNCHANGED <<part, memoryVars, analysisVars, diagnosisVars, collectionVars>>
    \/ /\ part = "analysis" /\ An!Next
       /\ UNCHANGED <<part, memoryVars, branchVars, diagnosisVars, collectionVars>>
    \/ /\ part = "diagnosis" /\ Dg!Next
       /\ UNCHANGED <<part, memoryVars, branchVars, analysisVars, collectionVars>>
    \/ /\ part = "collection" /\ Co!Next
       /\ UNCHANGED <<part, memoryVars, branchVars, analysisVars, diagnosisVars>>

CollectorSpec ==
    CollectorInit
      /\ [][CollectorNext]_<<part, memoryVars, branchVars, analysisVars, diagnosisVars, collectionVars>>

-----------------------------------------------------------------------------
(* The properties of the parts; RunnerMemory's own come with EXTENDS.       *)

\* BranchHistory: the first failing commit that is named is one.
FirstFailingIsFirst == part = "branch" => Br!FirstFailingIsFirst
\* BranchHistory: the default branch is red since its last green run.
StreakIsSinceGreen  == part = "branch" => Br!StreakIsSinceGreen

\* Analysis: high confidence is published only with a quote of the failed step.
HighIsGrounded   == part = "analysis" => An!HighIsGrounded
\* Analysis: a valid answer cites, and cites the evidence it was given.
AnswerIsCited    == part = "analysis" => An!AnswerIsCited
\* Analysis: an outage or a flake is never published as the model's bug in the code.
InfraStaysInfra  == part = "analysis" => An!InfraStaysInfra
\* Analysis: a failure costs the bridge a bounded number of requests.
QuestionsBounded == part = "analysis" => An!QuestionsBounded

\* Diagnosis: the second diagnosis of a summary names the same cause.
DiagnosisIsStable == Dg!DiagnosisIsStable
\* Diagnosis: a terminal cause in the failed step is named.
TerminalIsNamed   == part = "diagnosis" => Dg!TerminalIsNamed

\* Collection: a spent budget lets a bounded number of optional requests through.
OverrunIsBounded == part = "collection" => Co!OverrunIsBounded

-----------------------------------------------------------------------------
(* Analysis: quotes p, q and r; failures that share a cache key but not     *)
(* their evidence, two short-circuited, and answers good and bad, two of    *)
(* which name a source of their own.                                       *)

LOCAL Result(fix, confidence, quotes, cannot, side, rule, source) ==
    [root |-> TRUE, fix |-> fix, confidence |-> confidence, citations |-> quotes,
     cannot |-> cannot, side |-> side, rule |-> rule, source |-> source]
LOCAL Det(confidence, quotes, side) ==
    Result(TRUE, confidence, quotes, FALSE, side, TRUE, "deterministic")
LOCAL Answer(fix, confidence, quotes, cannot, side, rule) ==
    Result(fix, confidence, quotes, cannot, side, rule, None)
LOCAL Sourced(source, confidence, quotes, side) ==
    Result(TRUE, confidence, quotes, FALSE, side, FALSE, source)
LOCAL Failure(key, short, ev, focused, anchor, det, benign, signature, resolved) ==
    [key |-> key, short |-> short, evidence |-> ev, focused |-> focused, anchor |-> anchor,
     det |-> det, benign |-> benign, signature |-> signature, resolved |-> resolved]

MCSummaries ==
    {Failure("k1", None, {"p", "q"}, {"p"}, {"p"}, Det("high", {"p"}, "code"), FALSE, FALSE, FALSE),
     Failure("k1", None, {"q", "r"}, {"r", "p"}, {"r"}, Det("high", {"q"}, "code"), FALSE, TRUE, FALSE),
     Failure("k2", None, {"q"}, {"q"}, {"p"}, Det("low", {"q"}, "unknown"), FALSE, FALSE, TRUE),
     Failure("k2", None, {"p", "q"}, {"q"}, {"q"}, Det("medium", {"p"}, "unknown"), TRUE, FALSE, FALSE),
     Failure("k3", "infra_runner", {"p", "q"}, {"p"}, {"p"}, Det("high", {"p"}, "infra"), FALSE, TRUE, FALSE),
     Failure("k4", "flake_same_sha_passed", {"p", "q"}, {"q"}, {"q"}, Det("high", {"p"}, "code"), FALSE, FALSE, FALSE)}

MCAnswers ==
    {Answer(TRUE,  "high",   {"p"},      FALSE, "code",  FALSE),
     Answer(FALSE, "high",   {"q"},      FALSE, "infra", FALSE),
     Answer(TRUE,  "high",   {"q"},      FALSE, "code",  TRUE),
     Answer(TRUE,  "medium", {"q", "r"}, FALSE, "code",  TRUE),
     Answer(TRUE,  "high",   {"p", "r"}, FALSE, "code",  TRUE),
     Answer(TRUE,  "medium", {"p", "q"}, FALSE, "code",  TRUE),
     Answer(TRUE,  "low",    {"q"},      TRUE,  None,    FALSE),
     Answer(TRUE,  "high",   {},         FALSE, "code",  FALSE),
     Sourced("deterministic", "high", {"p"}, "infra"),
     Sourced("other",         "high", {"q"}, "unknown")}

-----------------------------------------------------------------------------
(* Diagnosis: every kind of line in the failed step with every kind of line *)
(* after it, and around it the pipeline logs and the other findings, a few  *)
(* kinds at a time.                                                         *)

LOCAL Job(raw, kept, anchor, named) ==
    [raw |-> raw, kept |-> kept, anchor |-> anchor, named |-> named,
     conclusion |-> "failure", brief |-> TRUE]
LOCAL Stream(stage, at, docker, lines) ==
    [stage |-> stage, phase |-> at, docker |-> docker, lines |-> lines]

LOCAL AnchorLines ==
    {"AssertionError", "FAILED test", "ENOSPC", "error TS", "version already exists", "coverage below",
     "ERESOLVE", "error:", "timed out", "exit code 1", "plain line", "in .github/workflows"}
LOCAL TailLines ==
    {"connection reset", "orphan process", "operation canceled",
     "pull access denied", "403 on upload", "runner shutdown"}

LOCAL JobLists ==
    {<<>>}
    \union {<<Job(<<a, t>>, <<a, t>>, <<a>>, TRUE)>>  : a \in AnchorLines, t \in TailLines}
    \union {<<Job(<<a, t>>, <<a>>, <<a>>, TRUE)>>     : a \in AnchorLines, t \in TailLines}
    \union {<<Job(<<t, a>>, <<t, a>>, <<a>>, FALSE)>> : a \in AnchorLines, t \in {"orphan process", "plain line"}}

LOCAL StreamLists ==
    {<<>>,
     <<Stream("build", "run", TRUE, <<"error:">>)>>,
     <<Stream("test", "run", TRUE, <<"403 on upload">>)>>,
     <<Stream("build", "run", FALSE, <<"layer already exists">>),
       Stream("test", "teardown", TRUE, <<"connection reset", "killed process">>)>>}

LOCAL Plain ==
    [junit |-> "none", classes |-> {"source"}, stack |-> "none", errorPaths |-> "several",
     drain |-> "none", novelError |-> "no line", green |-> <<>>, history |-> "none",
     passedBefore |-> FALSE, paths |-> TRUE]

LOCAL Findings ==
    {[Plain EXCEPT !.junit = j, !.classes = c, !.stack = s] :
        j \in {"none", "specific", "generic"}, c \in {{}, {"ci_config"}, {"lockfile"}, {"source"}},
        s \in {"none", "source", "changed source"}}
    \union {[Plain EXCEPT !.history = h, !.passedBefore = b, !.classes = c] :
        h \in {"none", "resolved", "resolved elsewhere", "other branch"}, b \in BOOLEAN, c \in {{"ci_config"}, {"source"}}}
    \union {[Plain EXCEPT !.drain = d, !.novelError = n, !.green = g, !.paths = FALSE] :
        d \in {"none", "retry flood", "depleted"}, n \in {"panic", "plain line"},
        g \in {<<>>, <<"plain line", "timed out">>, <<"ERESOLVE">>}}
    \union {[Plain EXCEPT !.errorPaths = p, !.paths = FALSE] : p \in {"none", "one", "outside"}}

MCEvidence ==
    {[jobs |-> j, streams |-> s, classes |-> r.classes, junit |-> r.junit, stack |-> r.stack,
      errorPaths |-> r.errorPaths, drain |-> r.drain, novelError |-> r.novelError, green |-> r.green,
      history |-> r.history, passedBefore |-> r.passedBefore, paths |-> r.paths] :
        j \in JobLists, s \in StreamLists, r \in Findings}

-----------------------------------------------------------------------------
(* Collection: runs with and without a pull request, green twins, JUnit and *)
(* pipeline artifacts.                                                      *)

LOCAL Offer(inPayload, onCommit, twins, success, junit, pipeline, green) ==
    [inPayload |-> inPayload, onCommit |-> onCommit, twins |-> twins, success |-> success,
     junit |-> junit, pipeline |-> pipeline, green |-> green]

MCOffers ==
    {Offer(TRUE,  FALSE, 0, TRUE,  1, <<"build">>, <<"test", "build">>),
     Offer(FALSE, TRUE,  2, TRUE,  0, <<"build", "test", "lint", "docs">>, <<"test", "build">>),
     Offer(FALSE, FALSE, 1, FALSE, 2, <<"build", "test">>, <<>>),
     Offer(FALSE, TRUE,  0, TRUE,  2, <<"build", "test">>, <<"lint", "test", "build">>)}
=============================================================================
