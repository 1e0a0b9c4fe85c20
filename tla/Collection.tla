----------------------------- MODULE Collection -----------------------------
(***************************************************************************)
(* What `collect` asks of GitHub (cli.py: _fetch_live and the functions it *)
(* calls): the run, its jobs and the logs of the failed ones, which it     *)
(* cannot do without, and then what is optional, which it must give up     *)
(* when the hourly request budget runs low.                                *)
(*                                                                         *)
(* Every response says whether the budget is low; other jobs spend from    *)
(* the same budget and it is refilled every hour, so a response may say    *)
(* either.  A call is several requests: one for every page of a listing,   *)
(* and each of them again when it meets a 5xx or no answer.                *)
(***************************************************************************)
EXTENDS Integers, Sequences, FiniteSets, SequencesExt

CONSTANTS
    Offers,       \* what GitHub holds: [inPayload, onCommit, twins, success, junit, pipeline, green]
    MaxPipeline,  \* --max-pipeline-log-artifacts
    MaxAttempts,  \* _MAX_ATTEMPTS: 3
    MaxPages      \* the pages of the longest listing; the code has no bound on them

VARIABLES
    step,      \* what _fetch_live is about to do
    offer,     \* a member of Offers
    low,       \* the last response put rate_limit_remaining under the floor
    optional,  \* the local of _fetch_live: optional_collection_allowed, read once
    todo,      \* what is left to ask for in the loop of this step
    found,     \* the pieces collected
    zips,      \* pipeline-log zips downloaded, of the run and of the last green one
    told,      \* what collection_notes speak of
    overrun    \* history: optional requests made since the budget is known to be low

vars == <<step, offer, low, optional, todo, found, zips, told, overrun>>

\* The names of the artifacts of a run are distinct.
Names == UNION {ToSet(o.green) : o \in Offers}
WellFormedOffers ==
  /\ MaxPipeline \in Nat /\ MaxAttempts \in Nat \ {0} /\ MaxPages \in Nat \ {0}
  /\ \A o \in Offers : o.green \in Seq(Names) /\ IsInjective(o.green)

Pieces == {"run", "jobs", "pulls", "logs", "same-SHA", "twin", "success", "branch", "pull",
           "compare", "artifacts", "junit", "green-artifacts"}

\* optional_collection_allowed
Allowed == ~low

\* The responses to a call: the budget they report, noted by _note_rate_limit
\* when it is low.
Responses(note) ==
  /\ low' \in BOOLEAN
  /\ \E noted \in BOOLEAN : /\ low' \/ overrun' > 0 => noted
                            /\ told' = told \cup note \cup (IF noted THEN {"limit"} ELSE {})

\* A call the collection cannot do without.
Require(note) == overrun' = overrun /\ Responses(note)

\* An optional call, of up to so many pages: its requests count from the first
\* response that says the budget is low, and again after one that says it is not.
Spend(pages, note) ==
  /\ \E n \in 1 .. MaxAttempts * pages :
       overrun' \in 0 .. n - 1 \cup IF low THEN {overrun + n} ELSE {}
  /\ Responses(note)

\* One call that is answered, whose GitHubAPIError is caught and noted, or that
\* fails otherwise: a connection reset while the answer is read is no
\* GitHubAPIError, and ends the collection with a stub.
Endings(piece) == {{}, {piece}, {"stub"}}
Obtain(piece, note) == found' = IF note = {} THEN found \cup {piece} ELSE found
Ask(piece, pages) ==
  \E note \in Endings(piece) : Spend(pages, note) /\ Obtain(piece, note)

Goto(next) == step' = IF "stub" \in told' THEN "emit" ELSE next

Tell(note) == told' = told \cup note /\ UNCHANGED <<low, overrun>>

Init ==
  /\ step = "run"
  /\ offer \in Offers
  /\ low = FALSE /\ optional = FALSE
  /\ todo = <<>>
  /\ found = {} /\ zips = [run |-> {}, green |-> {}]
  /\ told = {} /\ overrun = 0

----------------------------------------------------------------------------
(* What it cannot do without *)

\* get_run and list_jobs: their errors end the collection with a stub.
Mandatory(piece, next) ==
  /\ step = piece
  /\ \E note \in {{}, {"stub"}} : Require(note) /\ Obtain(piece, note)
  /\ Goto(next)
  /\ UNCHANGED <<offer, optional, todo, zips>>

\* list_commit_pulls, when the payload of the run names no pull request.
CommitPulls ==
  /\ step = "pulls"
  /\ IF offer.inPayload THEN UNCHANGED <<low, told, overrun, found>>
     ELSE \E note \in Endings("pulls") : Require(note) /\ Obtain("pulls", note)
  /\ Goto("logs")
  /\ UNCHANGED <<offer, optional, todo, zips>>

\* list_runs by SHA, and the other green runs of the workflow it finds.
SameSha ==
  /\ step = "same-SHA"
  /\ \E note \in Endings("same-SHA") : Require(note) /\ Obtain("same-SHA", note)
  /\ Goto("twins")
  /\ todo' = IF "same-SHA" \in found' THEN [k \in 1 .. offer.twins |-> "twin"] ELSE <<>>
  /\ UNCHANGED <<offer, optional, zips>>

----------------------------------------------------------------------------
(* What is optional *)

\* _enrich_same_sha_jobs: the pages of one twin's jobs are all asked for.
TwinJobs ==
  /\ step = "twins" /\ todo # <<>>
  /\ IF Allowed
       THEN Ask("twin", MaxPages) /\ todo' = Tail(todo)
       ELSE Tell({"limit"}) /\ todo' = <<>> /\ found' = found
  /\ Goto("twins")
  /\ UNCHANGED <<offer, optional, zips>>

\* The budget is looked at once for the history, the pull request, the compare
\* and the artifacts.
ReadBudget ==
  /\ step = "twins" /\ todo = <<>>
  /\ optional' = Allowed
  /\ IF Allowed THEN told' = told ELSE told' = told \cup {"limit"}
  /\ step' = "success"
  /\ UNCHANGED <<offer, low, todo, found, zips, overrun>>

OptionalCall(piece, next, wanted) ==
  /\ step = piece
  /\ IF optional /\ wanted
       THEN Ask(piece, 1) ELSE UNCHANGED <<low, told, overrun, found>>
  /\ Goto(next)
  /\ UNCHANGED <<offer, optional, todo, zips>>

HasPull    == offer.inPayload \/ ("pulls" \in found /\ offer.onCommit)
LastGreen  == "success" \in found /\ offer.success
HasCompare == LastGreen \/ "pull" \in found

\* _collect_artifacts_live: the listing, the JUnit zips, then the pipeline-log
\* zips, the best ranked first.
ListArtifacts ==
  /\ step = "artifacts"
  /\ IF optional THEN Ask("artifacts", MaxPages)
     ELSE Tell({"limit"}) /\ found' = found
  /\ Goto(IF "artifacts" \in found' THEN "junit" ELSE "emit")
  /\ todo' = [k \in 1 .. offer.junit |-> "junit"]
  /\ UNCHANGED <<offer, optional, zips>>

\* A download answers with the zip or with nothing, which nobody is told of;
\* its error is not caught and ends the collection with a stub.
Download(got) ==
  \/ Spend(1, {}) /\ got
  \/ Spend(1, {"stub"}) /\ UNCHANGED <<found, zips>>

JUnitZipOfSnapshot ==   \* mutant: the local is asked instead of the client
  /\ step = "junit" /\ todo # <<>>
  /\ todo' = Tail(todo)
  /\ IF optional
       THEN Download(found' \in {found, found \cup {"junit"}} /\ zips' = zips)
       ELSE UNCHANGED <<low, told, overrun, found, zips>>
  /\ Goto("junit")
  /\ UNCHANGED <<offer, optional>>
JUnitZip ==
  /\ step = "junit" /\ todo # <<>>
  /\ todo' = Tail(todo)
  /\ IF Allowed
       THEN Download(found' \in {found, found \cup {"junit"}} /\ zips' = zips)
       ELSE UNCHANGED <<low, told, overrun, found, zips>>
  /\ Goto("junit")
  /\ UNCHANGED <<offer, optional>>

RankPipeline ==
  /\ step = "junit" /\ todo = <<>>
  /\ todo' = SubSeq(offer.pipeline, 1, IF Len(offer.pipeline) < MaxPipeline THEN Len(offer.pipeline)
                                       ELSE MaxPipeline)
  /\ step' = "pipeline"
  /\ UNCHANGED <<offer, low, optional, found, zips, told, overrun>>

PipelineZip ==
  /\ step = "pipeline" /\ todo # <<>>
  /\ IF Allowed
       THEN /\ Download(zips' \in {zips, [zips EXCEPT !.run = @ \cup {Head(todo)}]} /\ found' = found)
            /\ todo' = Tail(todo)
       ELSE Tell({"limit"}) /\ todo' = <<>> /\ UNCHANGED <<found, zips>>
  /\ Goto("pipeline")
  /\ UNCHANGED <<offer, optional>>

\* The zips of the last green run, of the same names, within the same cap.
Remaining == MaxPipeline - Cardinality(zips.run)
ListGreen ==
  /\ step = "pipeline" /\ todo = <<>>
  /\ IF Remaining > 0 /\ LastGreen /\ zips.run # {} /\ Allowed
       THEN Ask("green-artifacts", MaxPages)
       ELSE /\ found' = found
            /\ Tell(IF LastGreen /\ zips.run # {} /\ Remaining <= 0 THEN {"cap"} ELSE {})
  /\ todo' = IF "green-artifacts" \in found' THEN offer.green ELSE <<>>
  /\ Goto("green")
  /\ UNCHANGED <<offer, optional, zips>>

\* The budget is not looked at here: the cap alone ends the loop.
GreenZip ==
  /\ step = "green" /\ todo # <<>> /\ Remaining > Cardinality(zips.green)
  /\ IF Head(todo) \in zips.run
       THEN Download(zips' \in {zips, [zips EXCEPT !.green = @ \cup {Head(todo)}]} /\ found' = found)
       ELSE UNCHANGED <<low, told, overrun, found, zips>>
  /\ todo' = Tail(todo)
  /\ Goto("green")
  /\ UNCHANGED <<offer, optional>>

GreenDone ==
  /\ step = "green" /\ (todo = <<>> \/ Remaining <= Cardinality(zips.green))
  /\ step' = "emit"
  /\ UNCHANGED <<offer, low, optional, todo, found, zips, told, overrun>>

Next ==
  \/ Mandatory("run", "jobs")
  \/ Mandatory("jobs", "pulls")
  \/ CommitPulls
  \/ Mandatory("logs", "same-SHA")
  \/ SameSha
  \/ TwinJobs
  \/ ReadBudget
  \/ OptionalCall("success", "branch", TRUE)
  \/ OptionalCall("branch", "pull", TRUE)
  \/ OptionalCall("pull", "compare", HasPull)
  \/ OptionalCall("compare", "artifacts", HasCompare)
  \/ ListArtifacts
  \/ JUnitZip
  \/ RankPipeline
  \/ PipelineZip
  \/ ListGreen
  \/ GreenZip
  \/ GreenDone

Spec == Init /\ [][Next]_vars

----------------------------------------------------------------------------
(* Properties *)

\* Below the floor optional collection stops (github_api.py,
\* optional_collection_allowed; docs/ci-rca-collector-spec-v8.md, Stage 4: "below
\* 50, stop optional collection").  What a spent budget lets through: the rest of a listing that is under way,
\* and with it either the four other requests that were decided on the same
\* reading of the budget or the zips of the last green run, before which it is
\* not read; each of them as often as it is attempted.
OverrunIsBounded ==
  overrun <= MaxAttempts * MaxPages - 1 + MaxAttempts * Max({4, MaxPipeline - 1})
=============================================================================
