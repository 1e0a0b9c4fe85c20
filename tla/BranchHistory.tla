--------------------------- MODULE BranchHistory ---------------------------
(***************************************************************************)
(* What the collector concludes from the list of runs of a branch: the     *)
(* last green commit and the first failing one (tools/rca/history.py) and, *)
(* at delivery, how long the default branch has been red                   *)
(* (tools/rca/deliver/targets.py).                                         *)
(*                                                                         *)
(* A branch is a line of commits 1, 2, ...  Pushes bring one or more and   *)
(* start a run on the last of them; the head can be run again.  Runs       *)
(* conclude in any order, and all of this goes on while a failed run is    *)
(* being collected.                                                        *)
(***************************************************************************)
EXTENDS Integers, Sequences, FiniteSets

CONSTANTS
    MaxCommits,   \* bound on commits
    MaxRuns,      \* bound on runs
    Outcomes,     \* how runs conclude
    PageSize,     \* runs in the page of recent branch runs (10 in the code)
    WalkCap,      \* RUN_WALK_CAP (50 in the code)
    None          \* nothing found

VARIABLES
    commits,   \* commits pushed so far
    runs,      \* the runs in the order they were created: [sha, outcome, updated]
    clock      \* stamps given so far

vars == <<commits, runs, clock>>

Failed   == {"failure", "timed_out"}    \* _FAIL
Running  == "running"

Init == commits = 0 /\ runs = <<>> /\ clock = 0

StartRun(sha) ==
    /\ Len(runs) < MaxRuns
    /\ runs' = Append(runs, [sha |-> sha, outcome |-> Running, updated |-> clock + 1])
    /\ clock' = clock + 1

Push(n) ==
    /\ commits + n <= MaxCommits
    /\ commits' = commits + n
    /\ StartRun(commits + n)

RunAgain ==
    /\ commits > 0
    /\ StartRun(commits)
    /\ UNCHANGED commits

Conclude(i, outcome) ==
    /\ runs[i].outcome = Running
    /\ runs' = [runs EXCEPT ![i].outcome = outcome, ![i].updated = clock + 1]
    /\ clock' = clock + 1
    /\ UNCHANGED commits

Next ==
    \/ \E n \in 1 .. 2 : Push(n)
    \/ RunAgain
    \/ \E i \in DOMAIN runs, outcome \in Outcomes : Conclude(i, outcome)

Spec == Init /\ [][Next]_vars

-----------------------------------------------------------------------------
(* What GitHub lists of the branch: newest created first.  Runs are named  *)
(* by their position in the order of creation.                             *)

Ids == DOMAIN runs
Green(i) == runs[i].outcome = "success"
Completed(i) == runs[i].outcome # Running

LastOf(S)  == CHOOSE i \in S : \A k \in S : k <= i
FirstOf(S) == CHOOSE i \in S : \A k \in S : i <= k
Newest(S, n) == {i \in S : Cardinality({k \in S : k > i}) < n}

SuccessListed == {i \in Ids : Green(i)}
BranchPage    == Newest(Ids, PageSize)

\* _newest_first: by time of the last update.
Newer(i, k) == runs[i].updated > runs[k].updated
NewestUpdated(S)  == CHOOSE i \in S : \A k \in S \ {i} : Newer(i, k)
OldestUpdated(S)  == CHOOSE i \in S : \A k \in S \ {i} : Newer(k, i)

-----------------------------------------------------------------------------
(* summarize, for the collection of run cur.  known says which of the      *)
(* three requests were answered: last success, branch runs, compare.       *)
(* pull is the base commit of the pull request: None without one, 0 for a  *)
(* base the whole branch comes after.                                      *)

Requests == {"last_success", "branch_runs", "compare"}

Listed(cur, known) == IF "branch_runs" \in known THEN BranchPage ELSE {}

LastSuccess(cur, known) ==
    LET fetched  == IF "last_success" \in known THEN SuccessListed ELSE {}
        fromPage == {i \in Listed(cur, known) : i # cur /\ Green(i)}
    IN  IF fetched \ {cur} # {} /\ LastOf(fetched) # cur THEN LastOf(fetched)
        ELSE IF fromPage # {} THEN NewestUpdated(fromPage)
        ELSE None

\* The conclusion recorded for a commit: that of its most recent run.
RunsOn(sha, cur, known) == {i \in Listed(cur, known) : runs[i].sha = sha}
ConclusionOn(sha, cur, known) == runs[NewestUpdated(RunsOn(sha, cur, known))].outcome

\* A base only tells when the last success was not answered: with an answer that
\* there is none, there is no green commit either.
PullBases(cur, known) ==
    {None} \union IF known \intersect {"last_success", "compare"} = {"compare"} THEN 0 .. runs[cur].sha ELSE {}

\* The compare is from the last success the API gave, or else from the base of
\* the pull request; it lists the commits after its base.
CompareBase(cur, known, pull) ==
    IF "last_success" \in known /\ SuccessListed # {} /\ LastOf(SuccessListed) # cur
    THEN runs[LastOf(SuccessListed)].sha
    ELSE pull
CompareRange(cur, known, pull) ==
    LET base == CompareBase(cur, known, pull) IN
    IF "compare" \in known /\ base # None THEN (base + 1) .. runs[cur].sha ELSE {}

\* Of a list of commits, those that are not the green one; the head if that
\* leaves none.
Pending(range, green, cur) ==
    IF range \subseteq {green} THEN {runs[cur].sha} ELSE range \ {green}

\* _from_commit_list: every commit that is pending has a run; the first of them
\* after the last that passed.
FromAnyCommits(pending, cur, known) ==   \* mutant: a commit without a run is no objection
    LET ran    == {sha \in pending : RunsOn(sha, cur, known) # {}}
        passed == {sha \in ran : ConclusionOn(sha, cur, known) = "success"}
        after  == {sha \in pending : \A p \in passed : p < sha}
    IN  IF after = {} THEN None ELSE FirstOf(after)
FromCommitList(pending, cur, known) ==
    LET passed == {sha \in pending : ConclusionOn(sha, cur, known) = "success"}
        after  == {sha \in pending : \A p \in passed : p < sha}
    IN  IF \E sha \in pending : RunsOn(sha, cur, known) = {} THEN None
        ELSE IF after = {} THEN None
        ELSE FirstOf(after)

\* Without a list: the oldest run since the last success, if that failed.
FromRuns(green, cur, known) ==
    LET page    == Listed(cur, known)
        since   == {i \in page : \A k \in page : runs[k].sha = green => Newer(i, k)}
        between == {i \in since : i # cur /\ runs[i].sha # green}
        oldest  == OldestUpdated(between)
        sha     == runs[oldest].sha
    IN  IF \A k \in page : runs[k].sha # green THEN None
        ELSE IF between = {} THEN None
        ELSE IF ConclusionOn(sha, cur, known) \notin Failed THEN None
        ELSE sha

NarrowFirstFailing(cur, known, pull) ==
    LET last  == LastSuccess(cur, known)
        range == CompareRange(cur, known, pull)
        green == runs[last].sha
    IN  IF last = None THEN None
        ELSE IF range # {} THEN FromCommitList(Pending(range, green, cur), cur, known)
        ELSE FromRuns(green, cur, known)

-----------------------------------------------------------------------------
(* default_branch_state, for the delivery of run cur.  The list may not    *)
(* have caught up with cur.                                                *)

StateListed(cur, lagging) ==
    Newest({i \in Ids : Completed(i)} \ (IF lagging THEN {cur} ELSE {}), WalkCap)

\* The runs walked, newest first, starting with cur.
WalkedFromNewest(cur, lagging) ==      \* mutant: the runs after cur are walked too
    {cur} \union Newest(StateListed(cur, lagging), WalkCap - 1)
Walked(cur, lagging) ==
    LET page == StateListed(cur, lagging)
        tail == IF cur \in page THEN {i \in page : i < cur} ELSE page
    IN  {cur} \union Newest(tail, WalkCap - 1)

Streak(cur, lagging) ==
    LET greens == {i \in Walked(cur, lagging) : i # cur /\ Green(i)}
        older  == Walked(cur, lagging) \ {cur}
    IN  {cur} \union
        IF greens = {} THEN older ELSE {i \in older : i > LastOf(greens)}

StreakGreen(cur, lagging) ==
    LET greens == {i \in Walked(cur, lagging) : i # cur /\ Green(i)} IN
    IF greens = {} THEN None ELSE runs[LastOf(greens)].sha

-----------------------------------------------------------------------------
(* Properties                                                              *)

Collectable == {i \in Ids : runs[i].outcome \in Failed}

\* The first failing commit is only named when the boundary is unambiguous
\* (tools/rca/history.py, narrow_first_failing): it did fail, an earlier
\* commit passed, and no commit in between failed.  Three cases are left out.
\* Commits whose run is still going or was cancelled: _from_commit_list takes
\* them for failing.  Where the compare is missing, runs that conclude out of
\* the order they were created in or are newer than the failed one: the walk by
\* time of update takes them for runs in between.  And a compare that is not
\* from the green commit that is named, but from the base of a pull request.
Settled(cur, sha) ==
    \A i \in Ids : (runs[i].sha <= sha) => runs[i].outcome \in Failed \union {"success"}

InOrder(cur) == \A i, k \in Ids : i < k => runs[i].updated < runs[k].updated /\ k <= cur

PassedOn(sha) == \E i \in Ids : runs[i].sha = sha /\ Green(i)
FailedOn(sha) == \E i \in Ids : runs[i].sha = sha /\ runs[i].outcome \in Failed

\* The commits compare lists are those after the green commit that is named.
ListsAfterGreen(cur, known, pull) ==
    CompareBase(cur, known, pull) = runs[LastSuccess(cur, known)].sha

FirstFailingIsFirst ==
    \A cur \in Collectable, known \in SUBSET Requests : \A pull \in PullBases(cur, known) :
        LET sha == NarrowFirstFailing(cur, known, pull) IN
        /\ sha # None
        /\ Settled(cur, sha)
        /\ IF CompareRange(cur, known, pull) # {} THEN ListsAfterGreen(cur, known, pull) ELSE InOrder(cur)
        =>  /\ FailedOn(sha)
            /\ \E green \in 1 .. sha - 1 :
                  /\ PassedOn(green)
                  /\ \A between \in green + 1 .. sha - 1 : ~FailedOn(between)

\* The default branch has been red since the run after the last green one
\* before this failure, and that green is the one named, however many runs have
\* concluded since and whether or not cur is listed already
\* (tools/rca/deliver/targets.py, default_branch_state) - as long as the page
\* of WalkCap runs reaches back to it, and no run after cur is listed while cur
\* is not.
CompletedUpTo(cur) == {i \in Ids : Completed(i) /\ i <= cur}
GreensBefore(cur)  == {i \in Ids : Green(i) /\ i < cur}
RedRuns(cur) ==
    {i \in CompletedUpTo(cur) : \A g \in GreensBefore(cur) : g < i}

Since(i) == {k \in Ids : Completed(k) /\ k >= i}
OnPage(i) == Cardinality(Since(i)) <= WalkCap

StreakIsSinceGreen ==
    \A cur \in Collectable, lagging \in BOOLEAN :
        OnPage(cur) /\ (lagging => Since(cur) = {cur}) =>
            /\ Streak(cur, lagging) \subseteq RedRuns(cur)
            /\ OnPage(FirstOf(RedRuns(cur))) => Streak(cur, lagging) = RedRuns(cur)
            /\ StreakGreen(cur, lagging) # None => GreensBefore(cur) # {}
            /\ GreensBefore(cur) # {} /\ OnPage(LastOf(GreensBefore(cur))) =>
                  StreakGreen(cur, lagging) = runs[LastOf(GreensBefore(cur))].sha
=============================================================================
