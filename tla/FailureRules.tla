---------------------------- MODULE FailureRules ----------------------------
(***************************************************************************)
(* The tables of tools/rca/config.py and the classification of             *)
(* tools/rca/classify.py.                                                   *)
(*                                                                         *)
(* A log line is named for the pattern it matches: one line of each        *)
(* category and confidence of CLASSIFY_RULES, of each kind of              *)
(* TERMINAL_CAUSE_RULES and SYMPTOM_PATTERNS, and lines no table knows.    *)
(***************************************************************************)
EXTENDS Integers, Sequences, FiniteSets, SequencesExt

\* ClassifyRule
Row(category, confidence, lines) ==
  [category |-> category, confidence |-> confidence, lines |-> lines]

\* CLASSIFY_RULES, in its order; rows nothing tells apart are one row.
ClassifyRules ==
  << Row("oom",          "high",   {"killed process"}),
     Row("timeout",      "medium", {"timed out"}),
     Row("timeout",      "high",   {"deadline exceeded", "operation canceled", "orphan process"}),
     Row("disk_space",   "high",   {"no space left", "ENOSPC"}),
     Row("crash",        "high",   {"panic"}),
     Row("dependency",   "high",   {"ERESOLVE"}),
     Row("network_dns",  "high",   {"connection reset"}),
     Row("auth",         "high",   {"401 unauthorized"}),
     Row("auth",         "medium", {"403 on upload"}),
     Row("image_pull",   "high",   {"pull access denied"}),
     Row("test_failure", "high",   {"AssertionError"}),
     Row("test_failure", "medium", {"FAILED test"}),
     Row("compile",      "high",   {"error TS"}),
     Row("compile",      "low",    {"error:"}) >>

\* RUNNER_FAILURE_PATTERNS, in its order.
RunnerFailure == <<"runner shutdown", "operation canceled", "no space left", "pull access denied">>
Symptoms      == {"403 on upload", "connection reset", "orphan process", "stopping container"}
Benign        == {"layer already exists"}
ExitOnly      == {"exit code 1"}
WorkflowLines == {"in .github/workflows"}

\* TERMINAL_CAUSE_RULES: the category a terminal line maps to, "none" for the
\* quality-gate rows.
TerminalCategory ==
  [l \in {"version already exists", "ERESOLVE", "error TS", "AssertionError", "FAILED test",
          "ENOSPC", "coverage below"} |->
     CASE l = "version already exists"             -> "release"
       [] l = "ERESOLVE"                           -> "dependency"
       [] l = "error TS"                           -> "compile"
       [] l \in {"AssertionError", "FAILED test"}  -> "test_failure"
       [] l = "ENOSPC"                             -> "disk_space"
       [] l = "coverage below"                     -> "none"]
IsTerminal(l) == l \in DOMAIN TerminalCategory

Signature == {"dependency", "compile", "oom", "timeout", "image_pull", "auth", "test_failure",
              "disk_space", "release"}

Side(category) ==
  IF category \in {"infra_runner", "oom", "timeout", "disk_space", "network_dns", "auth", "image_pull"}
    THEN "infra"
  ELSE IF category \in {"dependency", "compile", "test_failure", "crash", "release"} THEN "code"
  ELSE "unknown"

----------------------------------------------------------------------------
NoHit == [category |-> "unknown", confidence |-> "low", side |-> "unknown",
          pattern |-> "none", flaky |-> FALSE, short |-> "none", analysis |-> TRUE]
HitOf(row, lines) ==
  [NoHit EXCEPT !.category = row.category, !.confidence = row.confidence,
                !.side = Side(row.category), !.pattern = CHOOSE l \in lines : l \in row.lines]

RulesFor(lines) == {i \in DOMAIN ClassifyRules : lines \cap ClassifyRules[i].lines # {}}
Categories(lines) == {ClassifyRules[i].category : i \in RulesFor(lines)}
HighRules == {i \in DOMAIN ClassifyRules : ClassifyRules[i].confidence = "high"}

\* classify_union over the lines of all its streams: the first high-confidence
\* rule any line matches, else the first rule any line matches.
Preferred(found) == IF found \cap HighRules # {} THEN found \cap HighRules ELSE found
HitOfRules(found, lines) ==
  IF found = {} THEN NoHit ELSE HitOf(ClassifyRules[Min(Preferred(found))], lines)
ClassifyUnion(lines) == HitOfRules(RulesFor(lines \ Benign), lines)

\* classify_lines: the first line any rule matches decides.
LinesHit(lines) == {k \in DOMAIN lines : RulesFor({lines[k]}) # {}}
ClassifyLines(lines) ==
  IF LinesHit(lines) = {} THEN NoHit
  ELSE LET line == lines[Min(LinesHit(lines))]
       IN HitOf(ClassifyRules[Min(RulesFor({line}))], {line})

----------------------------------------------------------------------------
\* _has_timeout_signature.  Durations and timeout-minutes never reach it (no
\* caller passes them), so the near-timeout disjuncts are out.
TimeoutSignature(lines) ==
  \/ {"operation canceled", "orphan process"} \subseteq lines
  \/ lines \cap {"timed out", "deadline exceeded", "orphan process"} # {}

\* check_runner_health on one raw log.
RunnerHealth(job) ==
  LET raw == ToSet(job.raw)
      timeoutLike == TimeoutSignature(raw)
      found == {i \in DOMAIN RunnerFailure :
                  RunnerFailure[i] \in raw /\ ~(timeoutLike /\ RunnerFailure[i] = "operation canceled")}
      infra == [NoHit EXCEPT !.category = "infra_runner", !.side = "infra",
                             !.short = "infra_runner", !.analysis = FALSE]
  IN IF found # {} THEN [infra EXCEPT !.confidence = "high", !.pattern = RunnerFailure[Min(found)]]
     ELSE IF job.conclusion = "failure" /\ job.brief /\ ~job.named /\ ~timeoutLike
       THEN [infra EXCEPT !.confidence = "medium", !.pattern = "short log"]
     ELSE NoHit

\* classify_failure: runner health of every job, then the first job's lines and
\* the same-SHA flake.
ClassifyFailure(jobs, passedBefore) ==
  LET infra == {k \in DOMAIN jobs : RunnerHealth(jobs[k]).short # "none"}
      regex == IF jobs = <<>> THEN NoHit ELSE ClassifyLines(jobs[1].raw)
      timeoutLike == \E k \in DOMAIN jobs : TimeoutSignature(ToSet(jobs[k].raw))
      hit == IF timeoutLike /\ regex.category = "unknown"
               THEN [NoHit EXCEPT !.category = "timeout", !.confidence = "medium", !.side = "infra",
                                  !.pattern = "workflow timeout"]
               ELSE regex
  IN IF jobs = <<>> THEN [NoHit EXCEPT !.short = "no_failed_jobs", !.analysis = FALSE]
     ELSE IF infra # {} THEN RunnerHealth(jobs[Min(infra)])
     ELSE IF passedBefore
       THEN [hit EXCEPT !.flaky = TRUE, !.short = "flake_same_sha_passed", !.analysis = FALSE]
     ELSE hit
=============================================================================
