------------------------------ MODULE Diagnosis ------------------------------
(***************************************************************************)
(* The deterministic diagnosis of a collected failure (diagnose.py): the   *)
(* rules R1-R19, tried in order over the evidence and over the             *)
(* classification already on the summary; the verdict is written back over *)
(* that classification, and the diagnosis is run a second time around the  *)
(* fetch of source hunks.                                                  *)
(***************************************************************************)
EXTENDS FailureRules

CONSTANT Evidence  \* the evidence of the failures that are diagnosed

(* Evidence: jobs (a sequence of [raw, kept, anchor, conclusion, named, brief]: *)
(* the raw log, the lines of its windows, the failed step's own lines), streams *)
(* of pipeline logs in file order, the classes of the changed files, the JUnit  *)
(* report, and what the other collectors found.                                 *)

\* Logs are sequences of lines.
WellFormedEvidence ==
  \A e \in Evidence :
    /\ e.green \in Seq(STRING)
    /\ e.jobs = <<>> \/ e.jobs[1].anchor \in Seq(STRING)

VARIABLES phase,     \* "collected", "diagnosed", "finished"
          evidence,  \* a member of Evidence
          card,      \* verdict, classification and diagnosis of the summary
          hunks      \* code_context holds hunks

vars == <<phase, evidence, card, hunks>>

NoLine == "no line"
Rules == {"none", "no_failed_jobs", "R1", "R3", "R4", "R5", "R6", "R7", "R8", "R9", "R10", "R11",
          "R12", "R13", "R14", "R15", "R16", "R17", "R18", "R19"}
ConfigOnly  == {"ci_config", "container", "build_config"}
BlastRadius == ConfigOnly \cup {"lockfile", "dependency"}

----------------------------------------------------------------------------
(* What the rules read of the evidence *)

Teardown(stream) == stream.phase = "teardown"

\* _job_logs_are_exit_only and _pipeline_has_first_error
PipelineHasError(e) == \E k \in DOMAIN e.streams : e.streams[k].lines # <<>>
Uninformative(e) ==
  /\ e.jobs # <<>>
  /\ \A k \in DOMAIN e.jobs : ToSet(e.jobs[k].kept) \subseteq (ExitOnly \cup Benign)
IgnoreJob(e) == Uninformative(e) /\ PipelineHasError(e)

\* terminal_cause_present: the failed step's own lines that explain the exit.
AnchorTerminals(e) ==
  IF e.jobs = <<>> THEN {}
  ELSE {k \in DOMAIN e.jobs[1].anchor :
          e.jobs[1].anchor[k] \notin Benign /\ IsTerminal(e.jobs[1].anchor[k])}
TerminalCause(e) == ~IgnoreJob(e) /\ AnchorTerminals(e) # {}
AnchorCategory(e) ==
  IF TerminalCause(e) THEN TerminalCategory[e.jobs[1].anchor[Min(AnchorTerminals(e))]] ELSE "none"

\* _union_hit: with a terminal cause the teardown streams and the symptom lines
\* of the others are out; the lines of the jobs are taken as they are.
JobLines(e) == UNION {ToSet(e.jobs[k].kept) : k \in DOMAIN e.jobs}
StreamLines(e) ==
  LET terminal == TerminalCause(e)
      streams == {k \in DOMAIN e.streams : ~(terminal /\ Teardown(e.streams[k]))}
      follows == IF terminal THEN {l \in Symptoms : ~IsTerminal(l)} ELSE {}
  IN UNION {ToSet(e.streams[k].lines) : k \in streams} \ follows
UnionLines(e) == StreamLines(e) \cup (IF IgnoreJob(e) THEN {} ELSE JobLines(e))
UnionHitOrKnown(e, c) ==   \* mutant: the known classification whenever no rule matches
  IF RulesFor(UnionLines(e) \ Benign) = {} THEN c
  ELSE [ClassifyUnion(UnionLines(e)) EXCEPT !.flaky = @ \/ c.flaky]
UnionHit(e, c) ==
  IF e.jobs = <<>> /\ e.streams = <<>> THEN c
  ELSE [ClassifyUnion(UnionLines(e)) EXCEPT !.flaky = @ \/ c.flaky]

\* _all_text and the searches over it: every stream, and the jobs unless ignored.
AllText(e, ignoreJob) ==
  UNION {ToSet(e.streams[k].lines) : k \in DOMAIN e.streams}
    \cup (IF ignoreJob THEN {} ELSE JobLines(e))
SearchCategory(e, category) == category \in Categories(AllText(e, FALSE))
ErrorFromWorkflow(e) == AllText(e, FALSE) \cap WorkflowLines # {}

\* application_stack_in_diff and is_blast_radius_skip
StackInDiff(e) == e.stack = "changed source"
StackNamesSource(e) == e.stack \in {"changed source", "source"}
BlastRadiusSkip(e) == e.classes # {} /\ e.classes \subseteq BlastRadius /\ ~StackInDiff(e)

----------------------------------------------------------------------------
(* The rules.  Each gives a verdict, or NoVerdict. *)

Verdict(rule, category, confidence, side) ==
  [rule |-> rule, category |-> category, confidence |-> confidence, side |-> side,
   analysis |-> FALSE, short |-> "none", flaky |-> FALSE, pattern |-> "none"]
NoVerdict == Verdict("none", "unknown", "high", "unknown")
FromHit(rule, h) ==
  [rule |-> rule, category |-> h.category, confidence |-> h.confidence, side |-> h.side,
   analysis |-> FALSE, short |-> "none", flaky |-> h.flaky, pattern |-> h.pattern]
\* The pattern is the hit's where the hit is of the category the rule names.
Matched(v, h) == [v EXCEPT !.pattern = IF h.category = v.category THEN h.pattern ELSE "none"]

\* _rule_short_circuits.  concurrent_failures is never collected: no R2.
ShortCircuit(e, c) ==
  IF c.short = "no_failed_jobs"
    THEN [Verdict("no_failed_jobs", "unknown", "low", "unknown") EXCEPT !.short = c.short]
  ELSE IF c.short = "infra_runner" \/ c.category = "infra_runner" THEN
    IF \/ c.pattern \in {"no space left", "pull access denied"}
       \/ SearchCategory(e, "disk_space")
       \/ SearchCategory(e, "image_pull")
      THEN NoVerdict
      ELSE [Verdict("R1", "infra_runner", "high", "infra") EXCEPT
              !.short = "infra_runner", !.pattern = c.pattern]
  ELSE IF c.short = "flake_same_sha_passed"
    THEN [Verdict("R3", c.category, "high", c.side) EXCEPT
            !.short = c.short, !.flaky = TRUE, !.pattern = c.pattern]
  ELSE NoVerdict

Timeout(e, h) ==
  IF h.category = "timeout" THEN [FromHit("R4", h) EXCEPT !.side = "infra"]
  ELSE IF \E k \in DOMAIN e.jobs : ~IgnoreJob(e) /\ TimeoutSignature(ToSet(e.jobs[k].kept))
    THEN Verdict("R4", "timeout", "high", "infra")
  ELSE NoVerdict

OutOfMemory(e, h) ==
  IF /\ h.category = "oom" \/ "oom" \in Categories(AllText(e, IgnoreJob(e)))
     /\ AllText(e, IgnoreJob(e)) \cap ToSet(RunnerFailure) = {}
    THEN Matched(Verdict("R5", "oom", "high", "code"), h) ELSE NoVerdict

DiskFull(e, h) ==
  IF h.category = "disk_space" THEN FromHit("R6", h)
  ELSE IF SearchCategory(e, "disk_space") THEN Verdict("R6", "disk_space", "high", "infra")
  ELSE NoVerdict

ImagePull(e, h) ==
  LET dockerish == \/ \E k \in DOMAIN e.streams : e.streams[k].docker
                   \/ "pull access denied" \in AllText(e, FALSE)
  IN IF \/ h.category = "image_pull"
        \/ h.category = "auth" /\ dockerish
        \/ SearchCategory(e, "image_pull")
       THEN [Verdict("R7", "image_pull", "high", "infra") EXCEPT !.pattern = h.pattern]
       ELSE NoVerdict

Dependency(e, h) ==
  IF h.category = "dependency" \/ SearchCategory(e, "dependency")
    THEN Matched(Verdict("R8", "dependency", "high", "code"), h) ELSE NoVerdict

\* e.errorPaths: the source paths the logs name ("none", "one", "several"), or
\* "outside" when there are some and none is in the diff.
Compile(e, h) ==
  LET inBuild == \E k \in DOMAIN e.streams :
                   /\ e.streams[k].stage = "build"
                   /\ "compile" \in Categories(ToSet(e.streams[k].lines))
  IN IF ~(h.category = "compile" \/ SearchCategory(e, "compile")) THEN NoVerdict
     ELSE IF ~inBuild THEN
       IF h.category = "compile" /\ h.confidence = "high"
         THEN Matched(Verdict("R9", "compile", "high", "code"), h) ELSE NoVerdict
     ELSE IF e.classes # {} /\ e.errorPaths \in {"none", "outside"} THEN NoVerdict
     ELSE [Matched(Verdict("R9", "compile", "high", "code"), h) EXCEPT
             !.analysis = (e.errorPaths = "several")]

\* _rule_junit.  e.junit: "none", "specific", "generic", or "many" (over 5).
JUnit(e, code) ==
  IF e.junit \notin {"specific", "generic"} THEN NoVerdict
  ELSE IF e.junit = "generic" /\ code
    THEN [Verdict("R10", "test_failure", "medium", "code") EXCEPT !.analysis = TRUE]
  ELSE Verdict("R10", "test_failure", "high", "code")

Flooding(e) ==
  IF e.drain = "retry flood" THEN Verdict("R11", "crash", "high", "code") ELSE NoVerdict

\* _rule_depleted: healthy traffic is gone and e.novelError is a new error line.
Depleted(e, h) ==
  LET classified == ClassifyLines(<<e.novelError>>)
      category == CASE classified.category # "unknown" -> classified.category
                    [] classified.category = "unknown" /\ h.category # "unknown" -> h.category
                    [] OTHER -> "crash"
  IN IF e.drain # "depleted" \/ e.novelError = NoLine THEN NoVerdict
     ELSE [Verdict("R12", category, IF classified.confidence = "high" THEN "high" ELSE "medium",
                   Side(category)) EXCEPT !.pattern = classified.pattern]

\* _rule_last_green: the first line new since the last green that classifies.
LastGreen(e) ==
  IF LinesHit(e.green) = {} THEN NoVerdict
  ELSE LET h == ClassifyLines(e.green)
       IN [FromHit("R13", h) EXCEPT !.analysis = (h.confidence # "high")]

ConfigChangeOnly(e, h) ==
  IF /\ ~TerminalCause(e)
     /\ h.category \in Signature => ErrorFromWorkflow(e)
     /\ e.classes # {} /\ e.classes \subseteq ConfigOnly
     /\ ErrorFromWorkflow(e) \/ h.category \in {"image_pull", "auth", "unknown"}
    THEN Verdict("R14", IF h.category \in Signature THEN "unknown" ELSE h.category, "high", "infra")
    ELSE NoVerdict

\* e.history: "none", or an exact match and what is known of it.
HistoryResolution(e, h) ==
  IF e.history \in {"resolved", "resolved elsewhere"}
    THEN [FromHit("R15", h) EXCEPT !.flaky = @ \/ e.history = "resolved elsewhere"]
    ELSE NoVerdict
HistoryCrossBranch(e, h) ==
  IF e.history = "other branch" THEN [FromHit("R16", h) EXCEPT !.flaky = TRUE] ELSE NoVerdict

FirstPipelineError(e) ==
  \E k \in DOMAIN e.streams : ~Teardown(e.streams[k]) /\ ~(ToSet(e.streams[k].lines) \subseteq Benign)
PipelineOverJob(e, h) ==
  IF /\ IgnoreJob(e)
     /\ h.category = "unknown" \/ h.confidence = "low" => FirstPipelineError(e)
    THEN FromHit("R17", h) ELSE NoVerdict

SignatureRule(h) ==
  LET rule == CASE h.category = "dependency" -> "R8" [] h.category = "compile" -> "R9"
                [] h.category = "oom" -> "R5" [] h.category = "timeout" -> "R4"
                [] h.category \in {"image_pull", "auth"} -> "R7"
                [] h.category = "test_failure" -> "R10" [] h.category = "disk_space" -> "R6"
                [] OTHER -> "none"
  IN IF h.confidence = "high" /\ rule # "none" THEN FromHit(rule, h) ELSE NoVerdict

Residual(e, h) ==
  IF ~TerminalCause(e) /\ e.classes # {} /\ e.classes \subseteq ConfigOnly
    THEN Verdict("R14", "unknown", "medium", "infra")
    ELSE [FromHit("R18", h) EXCEPT !.analysis = TRUE]

\* _gap_fill: R19 where R14 or R18 would leave the category unknown and the
\* first terminal line of the failed step maps to one.
Named(category) == Verdict("R19", category, "high", Side(category))
GapFillConfigOnly(e, v) ==   \* mutant: R18 is left as it is
  IF v.rule = "R14" /\ v.category = "unknown" /\ AnchorCategory(e) # "none"
    THEN Named(AnchorCategory(e)) ELSE v
GapFill(e, v) ==
  IF v.rule \in {"R14", "R18"} /\ v.category = "unknown" /\ AnchorCategory(e) # "none"
    THEN Named(AnchorCategory(e)) ELSE v

----------------------------------------------------------------------------
\* refine_blast_radius, what it changes beyond the wording.
RefineBlastRadius(e, v) ==
  IF /\ ~TerminalCause(e)
     /\ v.category \in Signature => ErrorFromWorkflow(e)
     /\ BlastRadiusSkip(e)
     /\ v.category \in {"dependency", "image_pull", "auth"}
    THEN [v EXCEPT !.analysis = FALSE] ELSE v

\* enrich_display: the confidence the card shows.
Display(v) ==
  IF v.category \in Signature \/ (v.confidence = "high" /\ v.category # "unknown")
    THEN [v EXCEPT !.confidence = "high"] ELSE v

\* diagnose: the first rule that matches; h is the union hit.
Verdicts(e, c, h, code) ==
  << ShortCircuit(e, c), Timeout(e, h), OutOfMemory(e, h), DiskFull(e, h), ImagePull(e, h),
     Dependency(e, h), Compile(e, h), JUnit(e, code), Flooding(e), Depleted(e, h), LastGreen(e),
     GapFill(e, ConfigChangeOnly(e, h)), HistoryResolution(e, h), HistoryCrossBranch(e, h),
     PipelineOverJob(e, h), SignatureRule(h), GapFill(e, Residual(e, h)) >>
FirstVerdict(chain) == chain[Min({k \in DOMAIN chain : chain[k].rule # "none"})]
Diagnose(e, c, code) ==
  Display(RefineBlastRadius(e, FirstVerdict(Verdicts(e, c, UnionHit(e, c), code))))

\* apply_verdict: the verdict is written over the classification.
Apply(c, v) ==
  [c EXCEPT !.rule = v.rule, !.category = v.category, !.confidence = v.confidence, !.side = v.side,
            !.analysis = v.analysis, !.short = v.short, !.flaky = v.flaky \/ c.flaky,
            !.pattern = IF v.pattern = "none" THEN c.pattern ELSE v.pattern]

----------------------------------------------------------------------------
(* Fetching source *)

\* should_fetch_code_context.  e.paths: code_paths_for_fetch names some path.
ShouldFetch(e, v) ==
  LET skip == /\ v.category \in {"oom", "timeout", "disk_space", "image_pull", "auth",
                                 "network_dns", "dependency"}
              /\ ~StackNamesSource(e)
  IN IF StackInDiff(e) THEN ~skip
     ELSE ~BlastRadiusSkip(e) /\ ~skip /\ v.side = "code" /\ v.analysis /\ e.paths

\* _verdict_from_hit and _classification_from_hit: the summary as built.
Built(e) ==
  LET h == ClassifyFailure(e.jobs, e.passedBefore)
  IN [rule |-> "none", category |-> h.category, confidence |-> h.confidence, side |-> h.side,
      analysis |-> h.analysis, short |-> h.short, flaky |-> h.flaky,
      pattern |-> h.pattern]

Init ==
  /\ phase = "collected"
  /\ evidence \in Evidence
  /\ card = Built(evidence)
  /\ hunks = FALSE

\* The end of _build_summary.
DiagnoseSummary ==
  /\ phase = "collected"
  /\ card' = Apply(card, Diagnose(evidence, card, hunks))
  /\ phase' = "diagnosed"
  /\ UNCHANGED <<evidence, hunks>>

\* _maybe_fetch_code_context: the diff holds no code, so no source is fetched.
SkipSource ==
  /\ phase = "diagnosed"
  /\ BlastRadiusSkip(evidence) /\ ~ShouldFetch(evidence, Diagnose(evidence, card, hunks))
  /\ card' = Apply(card, Diagnose(evidence, card, hunks))
  /\ phase' = "finished"
  /\ UNCHANGED <<evidence, hunks>>

\* ... the diagnosis asks for none.
NoSource ==
  /\ phase = "diagnosed"
  /\ ~BlastRadiusSkip(evidence) /\ ~ShouldFetch(evidence, Diagnose(evidence, card, hunks))
  /\ phase' = "finished"
  /\ UNCHANGED <<evidence, card, hunks>>

\* ... source is fetched and the summary diagnosed again with it, a path that
\* could not be read being a hunk with a note; or there is no client to ask.
FetchSource(failed) ==
  /\ phase = "diagnosed"
  /\ ShouldFetch(evidence, Diagnose(evidence, card, hunks))
  /\ hunks' = ~failed
  /\ card' = IF failed THEN card ELSE Apply(card, Diagnose(evidence, card, hunks'))
  /\ phase' = "finished"
  /\ UNCHANGED evidence

Next ==
  \/ DiagnoseSummary
  \/ SkipSource
  \/ NoSource
  \/ \E failed \in BOOLEAN : FetchSource(failed)

Spec == Init /\ [][Next]_vars

----------------------------------------------------------------------------
\* A second diagnosis of a summary names the same cause although the first one
\* wrote its verdict over the classification the rules read: only a generic
\* assertion may ask for analysis once hunks are there (tools/rca/diagnose.py,
\* apply_verdict; cli.py, _maybe_fetch_code_context).
DiagnosisIsStable ==
  [][phase = "diagnosed" =>
       /\ card'.rule = card.rule /\ card'.category = card.category
       /\ card'.short = card.short /\ card'.side = card.side
       /\ card'.analysis # card.analysis => hunks' /\ evidence.junit = "generic"]_vars

\* A terminal cause of the failed step that maps to a category is never left
\* unnamed: the card names a category unless the history already answered or the
\* run was short-circuited (tools/rca/diagnose.py, _gap_fill).
TerminalIsNamed ==
  /\ phase # "collected"
  /\ AnchorCategory(evidence) # "none"
  => card.category # "unknown" \/ card.short # "none" \/ card.rule \in {"R15", "R16"}
=============================================================================
