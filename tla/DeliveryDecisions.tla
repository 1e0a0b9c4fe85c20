-------------------------- MODULE DeliveryDecisions --------------------------
(***************************************************************************)
(* What a delivery decides from its context, the failure and the switches  *)
(* of the repository, before it writes anything: where the failure is told *)
(* (targets.py), whether that is suppressed (suppress.py), how severe it   *)
(* is (severity.py) and whether anybody is notified (notify.py).           *)
(***************************************************************************)
EXTENDS Integers

Triggers == {"pull_request", "push_default", "push_branch", "merge_group", "tag",
             "schedule", "dispatch", "unknown"}

\* resolve_context: a run with a pull request has that trigger whatever its event.
Contexts == [trigger : Triggers, draft : BOOLEAN, fork : BOOLEAN]

\* The inputs that switch something off.
Switches == {"comment_on_pr", "comment_on_commit", "comment_on_branch_push",
             "create_issues", "allow_fork_issues"}

\* What the decisions read of a summary: its fingerprint, is_flaky and the
\* short circuit, seen_count >= issue-threshold, and whether the default branch
\* has been red for long.
ShortCircuits == {"none", "flake_same_sha_passed", "infra_widespread", "infra_runner"}
Failures(fps) == [fp : fps, flaky : BOOLEAN, short : ShortCircuits, recurring : BOOLEAN, red : BOOLEAN]

-----------------------------------------------------------------------------
(* Routing *)

RouteVariant(ctx) ==
    CASE ctx.trigger # "pull_request" -> ctx.trigger
      [] ctx.trigger = "pull_request" /\ ctx.draft -> "pr_draft"
      [] ctx.trigger = "pull_request" /\ ~ctx.draft /\ ctx.fork -> "pr_fork"
      [] OTHER -> "pr_ready"

\* The routing table: the channel and the switches it needs, the issue policy
\* and the switches that needs.
Route(ctx) ==
    LET row(comment, needs, issue, issueNeeds) ==
            [comment |-> comment, comment_requires |-> needs,
             issue |-> issue, issue_requires |-> issueNeeds \union {"create_issues"}] IN
    CASE RouteVariant(ctx) = "pr_ready"     -> row("pr", {"comment_on_pr"}, "on_recurrence", {})
      [] RouteVariant(ctx) = "pr_fork"      -> row("pr", {"comment_on_pr"}, "on_recurrence", {"allow_fork_issues"})
      [] RouteVariant(ctx) = "push_default" -> row("commit", {"comment_on_commit"}, "always", {})
      [] RouteVariant(ctx) = "tag"          -> row("commit", {"comment_on_commit"}, "always", {})
      [] RouteVariant(ctx) = "push_branch"  -> row("commit", {"comment_on_commit", "comment_on_branch_push"}, "on_recurrence", {})
      [] RouteVariant(ctx) = "merge_group"  -> row("none", {}, "on_recurrence", {})
      [] RouteVariant(ctx) = "schedule"     -> row("none", {}, "always", {})
      [] OTHER                              -> row("none", {}, "none", {})

CommentChannel(ctx, on) == IF Route(ctx).comment_requires \subseteq on THEN Route(ctx).comment ELSE "none"

ShouldOpenIssue(ctx, f, on) ==
    /\ Route(ctx).issue_requires \subseteq on
    /\ \/ Route(ctx).issue = "always"
       \/ Route(ctx).issue = "on_recurrence" /\ f.recurring

-----------------------------------------------------------------------------
(* Suppression, stage A and B *)

IsFlaky(f) == f.flaky \/ f.short = "flake_same_sha_passed"

SuppressedBy(ctx, f) ==
    CASE IsFlaky(f) -> "flaky"
      [] ~IsFlaky(f) /\ f.short = "infra_widespread" -> "infra_widespread"
      [] ~IsFlaky(f) /\ f.short = "infra_runner" -> "infra_runner"
      [] ~IsFlaky(f) /\ f.short = "none" /\ ctx.trigger = "pull_request" /\ ctx.draft -> "draft"
      [] OTHER -> "none"

AddFlakyLabel(ctx, f) == SuppressedBy(ctx, f) = "flaky" /\ ctx.trigger = "pull_request"

WithinOpen(stamp, now, minutes) == 0 <= now - stamp /\ now - stamp < minutes   \* mutant: open at its end

\* within_quiet_window: a stamp of the future is not in it.
Within(stamp, now, minutes) == 0 <= now - stamp /\ now - stamp <= minutes

-----------------------------------------------------------------------------
(* Severity and notification *)

Severity(ctx, f) ==
    CASE IsFlaky(f) -> "info"
      [] ~IsFlaky(f) /\ ctx.trigger \in {"push_default", "tag"} /\ f.red -> "critical"
      [] ~IsFlaky(f) /\ ctx.trigger \in {"push_default", "tag"} /\ ~f.red -> "high"
      [] ~IsFlaky(f) /\ ctx.trigger = "merge_group" -> "high"
      [] ~IsFlaky(f) /\ (RouteVariant(ctx) \in {"pr_ready", "pr_fork"} \/ ctx.trigger = "schedule") -> "normal"
      [] OTHER -> "low"

PlatformPath(ctx, f) ==
    CASE SuppressedBy(ctx, f) = "infra_widespread" -> "A2"
      [] SuppressedBy(ctx, f) = "infra_runner" -> "A3"
      [] OTHER -> "none"

SeverityOk(ctx, f) ==
    Severity(ctx, f) \in {"high", "critical"} \/ ctx.trigger \in {"schedule", "dispatch"}

\* in_quiet_window: of the stamps a delivery has seen, that of its comment and
\* that of its issue before it wrote them itself.
InQuietWindow(stamps, now, minutes) == \E t \in stamps : Within(t, now, minutes)

\* plan_notification, as far as it depends on the failure alone; the quiet
\* window comes on top.
Notifies(ctx, f) ==
    /\ SuppressedBy(ctx, f) = "none" \/ PlatformPath(ctx, f) # "none"
    /\ PlatformPath(ctx, f) = "A2" \/ SeverityOk(ctx, f)
=============================================================================
