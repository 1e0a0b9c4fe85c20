# Verification of ci-rca-collector

TLA+ models of the parts of the program where several jobs, retries and failures
meet, checked with TLC, and theorems about them proved with TLAPS. Paths are
relative to `src/`; `deliver/` stands for `tools/rca/deliver/`.

## The system

A failed GitHub Actions run starts a *collect* job (logs, facts, diagnosis,
optionally a language model), which uploads `rca/summary.json`. A separate
*deliver* job, limited to five minutes, reads it and tells people: it maintains one
issue per failure fingerprint, one sticky comment per pull request or commit, and
sends chat and email. A third kind of job, *feedback*, is started by a `/resolved`
comment. Nothing is shared between jobs but GitHub itself: issues, comments and an
index issue are the database, every access is an HTTP call, and there are no locks,
transactions or conditional requests. The consumer workflow queues the runs of one
head branch (`examples/rca-collect.yml:15-17`); jobs of different branches, and
feedback jobs (`docs/examples/rca-feedback.yml`), overlap freely.

### Components

| Component | State it keeps | Operations | Hard behaviour | What makes it correct |
|---|---|---|---|---|
| Issue history: `deliver/issues.py`, `FailureRecord` in `models.py` | fingerprint issues, record in each body; index issue; per job: cached index, cached scan, snapshot, budget | `sync` (find, update, create, self-heal), `sweep_stale`, `close`, `resolve_issue` | lost updates, duplicate creation, blind creation after failed reads, stale scans, cancellation | one open issue per fingerprint, no run counted twice or lost, resolutions kept, never a foreign issue touched |
| Feedback: `deliver/feedback.py`, `_cmd_feedback` | none of its own | parse, check permission, resolve | overlaps deliveries, redelivered events | as above |
| Platform incidents: `deliver/incidents.py` | incident issues, their `updated_at` | join, open, re-check, close duplicates, supersede | leader election through a list, clock skew, fail-open | one message per burst, and not none |
| GitHub client: `github_api.py` | attempts of a request, pages of a listing | request, paginate | ambiguous outcomes, retries of creates, rate limits | a create is not repeated blind, a listing is not silently short, calls end |
| Sticky comments: `deliver/sticky.py`, `pr_comment.py`, `commit_comment.py` | comments found by marker | find, create, edit, confirm | two creators, create that timed out | one comment per fingerprint and pull request, the newest text wins |
| Delivery pipeline: `_cmd_deliver`, `_plan_delivery` in `cli.py` | the outcome of each channel | issue, comment, sweep, flush, notify | one channel fails, budget runs out in between | a failure never blocks another channel; the error summary is right |
| Decisions: `deliver/targets.py`, `suppress.py`, `severity.py`, `notify.py` (planning) | none (pure) | route, evaluate, severity, default-branch state, quiet window | boundary cases: 50-run cap, window edges | precedence of the suppression stages |
| Notifications: `notify.py` (senders), `_deliver_notifications` | none | chat, email | time-outs within the budget | sends what was decided, once |
| Owners, rendering: `owners.py`, `owners_io.py`, `render_comment.py`, `render.py` | none | match CODEOWNERS, lay out text | none | pure functions |
| Collection: `_fetch_live` in `cli.py`, `extract`, `cleaner`, `classify`, `changes`, `junit`, `pipeline_logs`, `code_context` | one run's summary; the client's request budget | fetch, then sequential passes | other jobs spend the budget, every request may fail | stops asking when the budget is low, notes what is missing |
| Diagnosis: `diagnose.py` (R1 to R19), `classify.py` | verdict and classification of the summary | first matching rule, verdict written back, second diagnosis | precedence; feeding on its own verdict | the cause in the failed step is named, and named the same twice |
| Log templates: `drain_index.py`, `cache_keys.py` | drain3 state in the Actions cache | train, match, save | cache races between runs | novelty is judged against healthy runs |
| Analysis: `analyze.py`, `prompt.py`, `validate.py`, `stgpt_client.py` | answer cache, two model stages | gate, look up, ask, repair, validate | retries, partial answers | an ungrounded answer is never presented as fact |
| Runner history: `history.py` | branch memory, records in the Actions cache | look up recurrence, upsert, first failing commit | cache races, eviction, changed masking, runs out of order | a recurrence did occur, a blamed commit did fail |
| Configuration, outputs, telemetry, budgets, redaction | none read back | tables, files | none | pure |
| Evaluation: `tools/eval/` | golden files | score, compare, gate | none | pure |
| Workflows: `.github/workflows/`, `action.yml`, `examples/` | job graph | collect, deliver | time limits, concurrency groups | the environment of the models |

`PROJECT.json` lists the same components with what is and is not modelled of each.

### How they interact

`deliver` calls `IssuesHistoryStore.sync` first, because the comment links the issue;
then the comment; then the notifications, which for outages ask the incidents module
whether to send; last the sweep of stale issues and the write of the index
(`cli.py:1028-1058`). All of them use one `GitHubClient`, so the outcomes a caller sees are the client's: success,
an error with a status (`refused`), an error without one (`unclear`: it may have
landed), or an exception of the HTTP library. One `DeliveryBudget` is consulted before
writes but not inside the client's retries.

`collect` restores two directories from the Actions cache (drain3 baseline, failure
history), fetches, classifies, compares the log with the baseline, looks the
fingerprint up in the history and records it there, diagnoses, perhaps fetches sources
and diagnoses again, and writes the summary; the cache's post step saves the
directories. `analyze` reads that summary, in the same job; the deliver job reads the
summary only. The parts of the collector meet in the summary and nowhere else, which
is why they are modelled apart: what one leaves in the summary is an arbitrary value
for the next.

## The modules

| Module | Models | Used by |
|---|---|---|
| `FailureRecords` | the record in an issue body and `absorb` | `IssuesStore` |
| `IssuesStore` | fingerprint issues, index, deliveries, feedback | `MCIssuesStore`, the proofs |
| `IssueTracker` | abstract specification: what the history promises | refined by `IssuesStore` |
| `PlatformIncident` | runs of one outage electing the one that sends | `MCPlatformIncident` |
| `GitHubClient` | requests, retries and listings | `MCGitHubClient` |
| `DeliveryDecisions` | where a failure is told, whether it is suppressed, how severe it is, whether it notifies | `Delivery` |
| `Delivery` | whole deliveries over the sticky comments | `MCDelivery` |
| `LogTemplates` | tiers, anomalies and fingerprints of templates | `RunnerMemory` |
| `RunnerMemory` | RCA jobs, their two cached directories, recurrence | `MCRunnerMemory`, `MCCollector` |
| `BranchHistory` | runs of a branch; first failing commit, red streak | `MCCollector` |
| `FailureRules` | pattern tables and classification | `Diagnosis` |
| `Diagnosis` | rules R1 to R19, verdict, fetch of sources | `MCCollector` |
| `Analysis` | gate, answer cache, personas, cards | `MCCollector` |
| `Collection` | the requests of `collect` and their budget | `MCCollector` |
| `IssuesStoreProofs` | theorems about `IssuesStore` that hold for every schedule: invariant, effects of the actions, index | `IssuesHistoryProofs` |
| `IssuesHistoryProofs` | theorems about what the issues tell: records, overlapping jobs, serial jobs, the refinement of `IssueTracker` | |
| `PlatformIncidentProofs`, `GitHubClientProofs`, `DeliveryProofs`, `RunnerMemoryProofs` | theorems about the module they are named for | |
| `AnalysisProofs` | theorems about `Analysis` as a part of `MCCollector` | |
| `CollectorProofs` | theorems about `BranchHistory`, `Collection` and `Diagnosis` as parts of `MCCollector` | |

The modules do not instantiate the client: what it lets a caller see is repeated in
them as faults. `GitHubClient` is where that list comes from: `write` is its `refused`
or an exhausted retry, `lost` a write that landed with an error (`unclear` or
uncaught), `twice` the repetition of a create after a 5xx.

### FailureRecords and IssuesStore

The state is what is on GitHub (`issues`, in order of their numbers; `index`), and for
each job its place (`pc`) and its memory (`loc`, `fb`). An issue is a fingerprint (the
marker line of the body), a record (the JSON block) and a status: open, or closed by a
self-heal, a sweep, a resolution or a human. A body that cannot be parsed is the record
`Unreadable`. Of a record only the fields some decision reads are kept: run ids, count,
last seen, resolution. `day` advances in units longer than the 14 days of staleness.

One action is one API call with the local work that follows it, in the order of the code:

| Action | Code |
|---|---|
| `LoadIndex` | `_load_index` at the start of `_find` |
| `GetIssue`, `Scan` | the two halves of `_find`: indexed issue with its marker checked, or label scan |
| `Update` | `_update`: nothing to write, PATCH of the whole body from the snapshot, or a failure |
| `Create`, `Rescan` | `_create` and its second look after a time-out |
| `Heal`, `CloseDuplicate` | `_self_heal` and the update of the kept issue |
| `Sweep`, `CloseStale` | `sweep_stale` on the cached scan |
| `Flush` | `_flush_index`: repairs and writes back the whole cached map |
| `ReadIssue`, `ReadPullRequest`, `Resolve` | `_feedback_targets`, `resolve_issue` |
| `Crash`, `HumanTogglesIssue`, `HumanGarblesIssue`, `HumanEditsIndex`, `Tick` | the environment |

`known` (the issues that existed when a delivery started) and `edits` are history and
bound; the code has no such variables.

### PlatformIncident

`incidents` are the issues labelled `rca-platform-incident`; `job` is what
`coordinate_incident` holds. `List` and `Join` are the path of a later run, `Create`,
`Recheck`, `Note` and `Close` the path of the first one and of those that lose, `Send`
the sends of `_deliver_notifications` with what is left of the budget. `FailOpen` is
every handler that gives up coordinating and sends. `updated_at` moves with every
comment or edit, as on GitHub. `met` is history: whether a run was kept from
coordinating, or had its create land twice.

### GitHubClient

`call` holds the locals of `_request` and `_paginate`. Each action is what happens to
one attempt: carried out and answered (`Write`, `Page`), refused (`Rejected`), 5xx
(`ServerError`, which may have landed), time-out or protocol error (`Unanswered`), no
connection (`NotConnected`), TLS error (`NoTLS`), reset while writing or reading
(`Reset`), secondary rate limit (`Throttled`). `landed` counts how often the server
carried the call out, which no client can see. Listings come newest first and others
create items between their pages.

### DeliveryDecisions and Delivery

`DeliveryDecisions` are the pure functions as operators on a context (trigger, draft,
fork), a failure (what the decisions read of a summary) and the switches that are on.
`Delivery` runs them for a whole `_plan_delivery`. Its state is `comments` (marker,
text and `updated_at` of the RCA comments of one pull request and one commit),
`tracked` (when the issue of a fingerprint was last updated) and for each job the
outcome dictionary (`job`). The text of a comment is the run and whether it names an
issue, which is all that the rendered body of a given summary depends on.

| Action | Code |
|---|---|
| `Start` | the decisions of `_plan_delivery`, up to the first call |
| `Issue` | `_deliver_issue`; `sync` is one action here, its own calls are `IssuesStore`'s |
| `IssueTwice` | `_create` answered with a 5xx and repeated: the second issue is closed, the first one updated |
| `Lookup` | `find_existing` and stage B |
| `Leave`, `Edit`, `Create`, `CreateTwice`, `Confirm` | `post_or_update` and `_confirm_create` |
| `Label` | the label of a flaky failure |
| `Notify` | `plan_notification`, the send and `_settle_delivery_error` |
| `Crash`, `Tick` | the environment |

Chat and email are one channel, and `coordinate_incident` is a choice between sending
and leaving it to another run: `PlatformIncident` says when it is which. `wrote`,
`missed` and `disturbed` are history: what landed, what failed, and whether jobs have
overlapped or a comment has landed twice. An issue whose create landed twice
(`second-issue` in `wrote`) is told apart: its job takes the stamp of its own first issue
for the one before. `KeptIsStale` is the self-heal whose update of the kept issue fails:
it tells no stamp at all.

### LogTemplates and RunnerMemory

A log is how many lines it has of each template, a baseline the same of healthy logs;
drain3's clustering is external (a line gets the template it is an instance of). The
operators are those of `drain_index.py`: `Tier` with the anomalies, the order `Before`,
`FineInputs` and `CoarseInput`, with the difference between a log alone and a log merged
with pipeline logs. A fingerprint is the set of templates it hashes, each with the
masking configuration it was written under if that touches it.

`drains` and `stores` are the saved cache entries per workflow, `job` each RCA job with
its restored directories. `Restore`, `TrainOn` (`_cmd_train`) or `Collect`
(`_build_summary` from novelty to the upsert), `Finish` and `Cancel` are the steps of a
job; `Evict` and `Release` (a new masking configuration) are the environment. The
Actions cache is external and modelled from `rca.yml` and `action.yml`: exact key, else
the newest entry of a restore prefix, saved only without an exact hit, never
overwritten. A record keeps its last `RunIdCap` run ids (`Remember`) and `Absorb`
compares with those only, so a forgotten run that is collected again counts again.
`collected` and `trained` are history.

### BranchHistory

`runs` are the runs of one branch in the order they were created, each on a commit, with
outcome and time of last update. The environment pushes, runs the head again and
concludes runs in any order. `NarrowFirstFailing(cur, known, pull)` is what `summarize`
says when the requests in `known` were answered and `pull` is the base of the pull request;
the three requests see one instant, which is coarser than the code. The compare is from the
last success the API gave, else from that base (`CompareBase`), while the green commit may
come from the page of recent runs: the list then need not begin after the green commit. `Walked` to `StreakGreen` are `_state_from_runs`; `lagging`
says that the list does not have the delivered run yet.

### FailureRules and Diagnosis

A line is named for the pattern it matches, one per kind that the rules tell apart: the
tables of `config.py` are sequences and sets of such names, in their order. `Evidence`
is what the collector found; `card` is verdict and classification of the summary. Every
rule is an operator that gives a verdict or `NoVerdict`; `Verdicts` is their order.
`DiagnoseSummary` is the end of `_build_summary`; `SkipSource`, `NoSource` and
`FetchSource` are the ways through `_maybe_fetch_code_context`, which diagnoses again
over what the first diagnosis wrote back.

### Analysis

Text is the set of quotes it contains. `Begin` is the gate (`decide_stgpt_call`), `Lookup`
the answer cache, `Ask` and `Repair` the personas, `Gate` and `AskFocused` the grounding
gate, `Finish` the choice, stamp and validation of the card and the write to the cache,
`Write` the second finalisation in `write_analysis`. `record`, `persona` and `posts` are
locals and end with the sub-command (`Over`), `published` is the card in the job's workspace,
`cache` outlives the job. The model is external: any of
`Answers`, a refusal, an error, prose. Summaries that share a cache key may differ in
their evidence: the key is of the fingerprint, not of the log.

### Collection

One action per call of `_fetch_live`, in its order. A call is several requests (`Spend`):
one for each page of a listing, each repeated as `_request` does, and none of them asks the
budget again. Every answer says whether the hourly budget is low (other jobs spend from it).
A call is answered, fails with an error that is noted, or ends the collection with the stub
of `_cmd_collect`: so does an exception that is no `GitHubAPIError`, and every lasting
failure of a zip download (`Download`), which nobody catches. `optional` is
the local that is read once, `Allowed` the client's property; `overrun` is history.

## Runs

| Run | Instance | Shows |
|---|---|---|
| `IssuesRace` | three deliveries at once, two of one failure, no faults, a day | `OneOpenAtRest`, `IndexKeepsApart`, `JobsEnd` under every interleaving |
| `IssuesFaults` | two deliveries of one failure at once, every fault, one human edit | `RecordsWellFormed`, `CreateOnlyUnknown`, `DuplicateHasOriginal` |
| `IssuesSerial` | one job at a time: two runs, a re-run, a feedback delivered twice, every API fault | `ReportedIsRecorded`, `CountsRunsOnce`, `RecurrenceIsOpen`, `ResolutionSticks`, refinement of `IssueTracker` |
| `IssuesLostUpdate` | two of three runs at once, no faults | violation of `ReportedIsRecorded` |
| `IssuesOwnSwept` | one job at a time, writes may be refused | violation of `SweepSparesOwn`; with `Faults = {}` it holds, by `OwnIssueIsSpared` |
| `IncidentBurst` | three runs of one outage, every fault | `OneMessage`, `SilentIsTold`, `OneStaysOpen` |
| `IncidentMissed` | two runs, a create may land and answer 5xx | violation of `BurstIsTold` |
| `ClientCalls` | two jobs, three calls of any kind, every answer | `CreatesOnce`, `RefusedIsRefused`, `ListingComplete`, `PatienceEnds`, `CallsEnd` |
| `Deliveries` | two deliveries of eight kinds, every fault | `OneComment`, `DeliveredIsThere`, `ErrorIsHonest`, `NotifiedOnce`, `QuietHasCause` |
| `ClientReset` | the same as `ClientCalls` | violation of `LandedIsLookedFor` |
| `CollectorSteps` | five parts of the collector, one at a time (below) | twelve properties of `RunnerMemory`, `BranchHistory`, `Diagnosis`, `Analysis`, `Collection` |
| `MemoryFrozen` | RCA jobs one after the other | violation of `HistoryAccumulates` |

`CollectorSteps` runs five modules that share no variable: `MCCollector` chooses in the
initial state which `part` moves and leaves the others as they are, so its state space
is the sum of the five, not their product. `RunnerMemory` is extended (TLC evaluates its
assumptions), the others are instances. The properties:

| Property | Of | Says |
|---|---|---|
| `RecurrenceIsWitnessed` | `RunnerMemory` | what a report calls seen before was collected before, on the branches and as often as it says: once a collection, and once a run as long as a record forgets none |
| `DriftIsTold` | `RunnerMemory` | a record of another masking is matched by similarity only, and the report says so |
| `BaselineIsHealthy` | `RunnerMemory` | nothing only failing runs print is in a baseline, restored or saved |
| `FirstFailingIsFirst` | `BranchHistory` | a commit that is blamed failed, and no earlier one since a green one did, if the compare is from the green commit that is named |
| `StreakIsSinceGreen` | `BranchHistory` | the streak is the runs since the last green before the failure, whatever concluded later |
| `DiagnosisIsStable` | `Diagnosis` | the second diagnosis, over its own verdict, names the same cause |
| `TerminalIsNamed` | `Diagnosis` | a cause in the failed step that has a category leaves no card without one |
| `HighIsGrounded` | `Analysis` | high confidence needs a quote of this run's failed step, also from the cache or after validation |
| `AnswerIsCited` | `Analysis` | an answer kept or shown as valid quotes the evidence it was asked about |
| `InfraStaysInfra` | `Analysis` | an outage or flake is never published as the model's bug in the code: a card that says so is the collector's own |
| `QuestionsBounded` | `Analysis` | at most eight posts a failure, none when skipped or cached, and no blank card |
| `OverrunIsBounded` | `Collection` | once the budget is low, at most the rest of one listing and four calls more, or one fewer zips than the cap, each with its attempts |

`IssuesRace`, `IncidentBurst`, `ClientCalls` and `Deliveries` also check the `TypeOK` of their module. What holds without concurrency and
what holds with it differ on purpose: the properties of `IssuesSerial` are the
documented contract, and `IssuesLostUpdate` shows what
overlapping jobs do to them. `OneOpenAtRest` on the other hand is checked without
faults only: an interrupted self-heal leaves two open issues until the next delivery.

### Bounds, and why they are enough

- *Jobs.* Every pairwise race needs two jobs of one fingerprint. `IssuesRace` adds a
  third with another fingerprint, so that the index and the scan hold foreign entries;
  `IncidentBurst` has a third run, for an incident that a second one joins while the
  first still re-checks.
- *Issues.* `MaxIssues` leaves room for every delivery to create one, and in the runs
  with `twice` for a doubled create of both; `MaxIncidents` is 3 because a third
  incident is the first whose opener can find two rivals.
- *Caps.* `RunIdCap` stands for 20 and is 1 or 2, so that forgetting happens in
  `IssuesFaults` and `CollectorSteps`; in `IssuesSerial` it is not exceeded, because beyond the cap the code
  does count a re-run again. `SweepMax` and `SupersedeMax` stand for 5 and are 1, so that
  the cap is reached. `PageSize` 1 and `MaxPages` 2 stand for 100 and 10: three items
  shift a page and go beyond the cap.
- *Time.* One `Tick` in `IssuesStore` passes the staleness limit; jobs do not see the
  clock move, they last minutes and the unit is days. In `PlatformIncident` a window, a
  job and the tolerated skew are each one tick long: three instants are before, inside
  and after.
- *Deliveries.* Every property of `Deliveries` relates at most two jobs. The eight runs
  take every route that differs in which channels a delivery has; one run may be
  delivered twice, two fingerprints share a coarse one. A tick is outside the quiet
  window (`Window` is 0), and passes also while a job runs. `MaxComments` is 3: room for
  a doubled create and another one; it never keeps a job from going on.
- *Human edits* are one per run (`MaxEdits`); the theorems have no such bound.
- *Runner memory.* Three jobs: one to save, one to restore and change, one to see what the
  second left; two overlap. The five runs are two workflows, two branches, a failure that
  recurs, one with novel and flooding templates (counts above the limits 20 and 50), one
  with a pipeline log, and a success. Two maskings and one eviction.
- *Branch.* Three commits and four runs, with pages of three for 10 and 50: a batch push,
  a second run of the head, and a run that has left the page. The base of the pull request is
  any commit up to the head, or one before the branch.
- *Diagnosis.* Every kind of line in the failed step with every kind after it, kept in the
  windows or not, with four sets of pipeline logs and the other findings varied a few
  at a time; not their full product.
- *Analysis.* Two failures in a row, so that the second one may find the first one's
  answer; six summaries, among them pairs that share a key and a flake whose log matches a
  signature of the code; ten answers from good to uncited, two of which state their source.
- *Collection.* Four offers that reach every request; `MaxPipeline` and
  `MaxAttempts` are 3 as in the code; `MaxPages` is 2, for a request that follows an answer
  within one call (the code follows every `next` link).
- The counters `MaxDeliveries`, `MaxCalls`, `MaxDay`, `MaxClock`, `MaxItems`,
  `MaxInFlight` end the runs and have no counterpart in the code. Because jobs end,
  every run says `CHECK_DEADLOCK FALSE`.

### Fairness

`FairSpec` of `IssuesStore` has weak fairness of each delivery's `Step` and each
feedback's `Resolve`: a started job is one sequential Python process whose every call
returns or raises within the client's time-outs. Starting, crashing, human edits and
the clock have none. `FairSpec` of `GitHubClient` has weak fairness of `Answer`: an
attempt is answered or times out after 30 seconds.

## Proofs

For all values of the constants allowed by the named assumptions: any number of jobs,
runs, fingerprints, issues, templates or attempts, any caps, any combination of faults.
Every argument has the same form: `IInv`, checked with TLC before it was proved, strengthens
what a run checks until every action keeps it; one lemma per action, and at the end of
the module one theorem per property.

| Module | Theorem | Establishes `Spec => []` |
|---|---|---|
| `IssuesStoreProofs` | `TypesAreKept` | `TypeOK` |
| | `CreatesOnlyUnknown` | `CreateOnlyUnknown`: no delivery creates an issue for a fingerprint that had one when it started, whatever reads fail and wherever the index points |
| | `DuplicatesHaveOriginals` | `DuplicateHasOriginal`: self-heal never closes a fingerprint's first issue |
| | `WritesStayApart` | `WritesOwnFingerprint`: the issue a delivery is about to PATCH is of its own fingerprint |
| | `IndexStaysApart` | `IndexKeepsApart`, if no human edits the index |
| `IssuesHistoryProofs` | `RecordsStayWellFormed` | `RecordsWellFormed`, although jobs overwrite each other |
| | `OneIssueOpenAtRest` | `OneOpenAtRest`, if no call fails and nobody closes issues from outside |
| | `OwnIssueIsSpared` | `SweepSparesOwn`, an action property, under the same hypotheses |
| | `RecurrencesReopen` | `RecurrenceIsOpen`, an action property, if `OneJobAtATime` |
| | `ResolutionsStick` | `ResolutionSticks`, an action property, if `OneJobAtATime` |
| | `ReportsAreRecorded` | `ReportedIsRecorded`, if `OneJobAtATime` and `NothingForgotten` |
| | `RunsCountOnce` | `CountsRunsOnce`, under the same hypotheses |
| | `SerialJobsTrack` | `ImplementsTracker`, the refinement of `IssueTracker`, under the same hypotheses |
| `PlatformIncidentProofs` | `TypesAreKept` | `TypeOK` |
| | `SilentRunsHaveATeller` | `SilentIsTold` |
| | `OneIsLeftOpen` | `OneStaysOpen` |
| | `OneOutageOneMessage` | `OneMessage`, if `Enabled` and `JobMax <= Window` |
| `GitHubClientProofs` | `TypesAreKept` | `TypeOK` |
| | `CreatesLandOnce` | `CreatesOnce` |
| | `RefusedMeansRefused` | `RefusedIsRefused` |
| | `ListingsAreComplete` | `ListingComplete` |
| | `PatienceIsBounded` | `PatienceEnds` |
| `DeliveryProofs` | `TypesAreKept` | `TypeOK` |
| | `OneCommentIsLeft` | `OneComment` |
| | `WhatIsReportedIsThere` | `DeliveredIsThere` |
| | `ErrorsAreHonest` | `ErrorIsHonest` |
| | `WindowNotifiesOnce` | `NotifiedOnce` |
| | `QuietIsCaused` | `QuietHasCause`; the property leaves out a job whose issue was created twice |
| `RunnerMemoryProofs` | `RecurrencesAreWitnessed` | `RecurrenceIsWitnessed`, with and beyond `RunIdCap` |
| | `DriftIsAlwaysTold` | `DriftIsTold` |
| | `BaselinesAreHealthy` | `BaselineIsHealthy` |
| `AnalysisProofs` (of `CollectorSpec`) | `HighNeedsTheFailedStep` | `HighIsGrounded` |
| | `ValidAnswersCite` | `AnswerIsCited` |
| | `OutagesStayOutages` | `InfraStaysInfra`, if `NoSourceClaimed` |
| | `QuestionsAreFew` | `QuestionsBounded` |
| `CollectorProofs` (of `CollectorSpec`) | `SpentBudgetsStop` | `OverrunIsBounded` |
| | `StreaksBeginAfterGreen` | `StreakIsSinceGreen` |
| | `BlamedCommitsFailed` | `FirstFailingIsFirst`; the property leaves out a compare that is not from the green commit named |
| | `TerminalCausesAreNamed` | `TerminalIsNamed` |
| | `SecondDiagnosisAgrees` | `DiagnosisIsStable`, an action property |

### The arguments

*`IssuesStore`.* `IInv` adds to the types a fact about each place of a delivery: `At(d)` says,
for instance, that at `create` the fingerprint had no issue among the `known` ones, that at
`update` the snapshot's issue carries the fingerprint of the delivery, that at `heal` and
`close` its own issue exists and everything it means to close as a duplicate is of its
fingerprint and above the one it keeps; `FbAt(f)` says a feedback job's targets are in its
listing. It survives the steps of others because issues are never deleted, never
renumbered and never change their fingerprint (`Grown`, lemmas `AtStays`, `FbAtStays`);
a step of the job itself is one lemma per action (`LoadIndexStep` to `FlushStep`), on
top of shared lemmas for a PATCH, for created issues and for returns. `RecInv` of
`IssuesHistoryProofs` adds that also every snapshot, cached scan and feedback listing
holds well-formed records: that is what makes the invariant survive a job writing back
an old snapshot. Its leaves are the lemmas on `Remember` and `Absorb`.

The other proofs about the issues read the actions through one lemma each, `LoadIndexShape`
to `FlushShape`, which says what the action leaves in the job's memory and in the issues in
terms of the fields it changes, so that an invariant is compared with a few fields and not
with the action.

*The index.* `IdxInv`: the map of the index issue, every cached copy of it and every listing
name issues of the fingerprints they stand for. They have to be right together, because a
job writes its copy back whole, over the entries of others.

*Overlapping jobs.* `RaceInv` calls an issue young if it was opened since some job
under way has started. An open issue that is not the lowest of its fingerprint is in the
hands of a job that will heal it (`RivalsAreHandled`): its creator, which has not looked for
rivals yet, or a job whose list of duplicates holds it. What keeps the lowest open meanwhile is that
a young issue is of today, on GitHub, in every listing and in every snapshot (`YoungAreFresh`,
`RaceAt`), so that no sweep takes it for stale and only a self-heal closes it. At rest nobody
holds anything, so only lowest issues are open. `SparedInv` adds what a sweep needs: what a
listing shows open and old is the lowest of its fingerprint (`OldIsFirst`), because at the
time of the listing everything else that was open was young; and the issue a delivery reports is the lowest of
its own, or all of its own are young. So what it finds old is the issue it spares, or another
fingerprint's.

*Jobs that do not overlap.* `SerialInv` says that the snapshot a job is about to write back,
and the listing of a feedback job, are what the issue says now. So every step is one of three
writes or none (`SerialWrites`): `Records` adds a run to an issue and leaves it open, `Opens` creates an
issue, once or twice, `Closes` keeps the record but for a resolution. The two action properties
follow from the three. `CountInv` adds that each record counts exactly the runs it lists, all of
them delivered for its fingerprint, and what each place of a delivery knows to be counted:
after a create that may have landed, every issue of the fingerprint counts the run, since there
was none before. `NoLongerThan` (a list without repetition is no longer than the set it is
taken from) makes the cap unreachable under `NothingForgotten`. For the refinement,
`Records` and `Opens` are `Occur` of the tracker, `Closes` is `Close`, or a stutter if another issue of
the fingerprint is still open, and every other step is a stutter.

*`PlatformIncident`.* A run decides on a listing that is out of date when it acts, so
nothing about the present state says why two runs cannot both win. The invariant says it
with two sets of incidents that the code does not keep, `lost` and `won` (`Coordinated`,
an existential in `IInv`): an incident enters one of them at its re-check. Every lost one has
a lower number of its kind (`LostOK`), only lost ones are ever in the list of what a silent
job closes, one that is superseded is older than a window than a winner (`SupersededOK`),
and a winner was alone within its window but for lost ones (`WonOK`, `WinnersOK`), so that two
winners are a window apart (`WinnersApart`). `TellersOK` says that the first incident of each
kind belongs to a run that still may send, has decided to, or met a failure:
`SilentIsTold` follows, because whoever is silent has seen an incident. `OneStaysOpen`
takes the greatest incident of a kind outside `lost`, which nothing closes.

*`GitHubClient`.* `CreateGood` says that a create under way has landed only if a 5xx met
it: the one answer after which it is sent again. `ListGood` says that the pages read cover the
newest items, counted from the end the server lists from: items created meanwhile shift a
page towards what was read, never away from it. `PatienceGood` bounds what has been slept by
the attempts made so far.

*`Delivery`.* `Local` says of each place what the outcome dictionary holds there;
`ErrorIsHonest` is its fact about `done`. `Caused`, `Saw` and `There` relate a job to the comments:
what it holds of a comment is what stands there, or another delivery has written to the same
target about the same coarse fingerprint. They survive other jobs because `wrote` only grows and
`Edit` keeps the key of a comment. `Calm`, the invariant while no jobs have overlapped and
no create has landed twice, says that at most one comment has a key, and that what a
job at work has looked up is still so. The steps are put together in `JobStep` from what
they do to the other jobs, to the job itself, to the history and to `Calm`.

*`RunnerMemory`.* Records and baselines wander through caches, restores and overlapping
jobs; `RecordGood` and `BaseGood` therefore say of any record and any baseline, wherever it
is, that what it claims is in the history of reports and trainings, which only grow. Of a
count it says two things: that there were as many collections of the fingerprint, and, as long
as no more than `RunIdCap` runs failed this way, that the record still knows every run it counts,
so that a run which is not among its ids has not been counted.
`ReportGood` is the same for what a report took over, counted up to that report.

*`Analysis`.* `Inv` says what a record is before and after the choice of the card (`Raw`,
`Final`), that every answer kept under a key is final for the failure it was asked about, and how
many posts have been made at each place (`PostsOK`). An answer moves between failures
through the cache; lemma `CachedFacts` says what of `Final` holds for every failure with that
key, and `Written`, which compares the confidence once more, gives the rest.

*`Collection`.* `Spent` counts the optional requests made since the budget is known to be low, step
by step: before the budget is read at most what is left of a listing (`Listing - 1`, with
attempts), which was begun before it was known to be low; the attempts of one call more at each of
the four calls made on that reading; none more at the JUnit and pipeline zips, which ask again. The zips of the last green run are counted
by the names no longer to come (`AskedGreen`), each of which is asked for once because the names of a run's
artifacts are distinct; they begin after an answer that said the budget was not low, but for the rest of their own listing, and are
fewer than the cap, because one zip of the run itself is held already. `GreenLast` is needed to know
that no listing is left from before.

*`BranchHistory`.* The invariant `BrInv` is small: later runs are never on earlier commits, no two runs
were updated at the same time. The work is in what the functions make of such a list.
`LeastExists` and `GreatestExists` (from well-foundedness) give their `CHOOSE`s values; `NewestFacts` says that a page
is closed towards newer runs, `WalkedFacts` that the walk keeps that of the runs before the delivered
one and reaches as far as the page, whether the delivered run is in it or not. From that, a green run in the walk is the
last green one if the page reaches it. For the first failing commit, `CommitListBoundary` shows that the commit
before the one named is the base of the compare or has passed, and `RunsBoundary` that a failed
run in between would be listed, be older than the oldest run taken to be in between, and so contradict it.

*`Diagnosis`.* The evidence never changes, so `DgInv` is little more than who wrote the card: the
second diagnosis reads what the first one wrote over the summary as built. The work is in the
seventeen rules. Those after the short circuits read the classification only through the union hit,
of which a diagnosis changes nothing but whether it is flaky (`HitFacts`); `ChainFacts` takes them
one by one: each says the same at both diagnoses but for a generic assertion once there is source,
none is a verdict that the second diagnosis would take for a short circuit, and each names a cause that
the failed step names. A short circuit leaves on the summary what makes it happen again (`ShortAgain`). So
the first rule with a verdict is the same one both times (`DiagnosisAgain`), and there always
is one (`SomeRule`). That the category of a line is one of the table's comes from `Rows` and
`RowChosen`.

### Assumptions and hypotheses

The assumptions are the named ones of the modules, which TLC evaluates in every run:
jobs have fingerprints and run ids, deliveries and feedback jobs are different, caps are
natural numbers, `RunIdCap` is positive, `NoOne` is no author (`IssuesStore`); there is a case
to deliver and every case is one (`CaseAssumption`); logs count lines by template
(`LogsAssumption`); answers and the collector's own cards are what the parser and
`analysis_result_from_summary` produce, the latter never blank (`AnalysisAssumption`);
pages have a size (`BranchAssumption`); logs are sequences of lines (`DiagnosisAssumption`); the artifacts of a green run have distinct names, as GitHub requires of
one run's artifacts and `_collect_artifacts_live` presumes (`CollectionAssumption`).

Some theorems have hypotheses, because without them the property is false. The run that
checks the property satisfies them:

- `OneJobAtATime` (`MaxInFlight <= 1`, no `toggle` or `garble`). When two jobs overlap, or a human
  closes, reopens or garbles the issue between a job's read and its PATCH, the job writes back what it
  read: `IssuesLostUpdate` shows it. Every API fault, cancellation at any point, index edits by humans
  and any number of jobs, re-runs and repeated `/resolved` remain. It is what the concurrency
  group of `examples/rca-collect.yml` gives the deliveries of one branch, and no more.
- `NothingForgotten`: no fingerprint fails in more different runs than a record remembers
  (20 in the code). Beyond that the oldest run id is dropped, a report is no longer backed by
  it, and a re-run of that run counts again; `RecordsStayWellFormed` is what holds there.
- `OneIssueOpenAtRest` and `OwnIssueIsSpared` need `Faults = {}`, since a self-heal that cannot list, cannot close or is
  cancelled leaves the duplicates open, and a refused update leaves a delivery without the issue
  its sweep should spare (`IssuesOwnSwept`); and `Feedbacks = {}`: a `/resolved` may close the first
  issue before the creator of a second one looks for rivals, which then keeps its own, and
  the first one may be reopened beside it.
- `IndexStaysApart` needs that no human edits the index (`"edit"`), who may write anything;
  `WritesStayApart` is what holds after that.
- `OneOutageOneMessage` needs `create-issues`, without which every run sends, and
  `JobMax <= Window`. TLC finds two senders for `Window` 0 and `JobMax` 1: a re-check may come
  when a rival as old as the own incident is out of the window. `action.yml` has a window
  of 60 minutes and `rca.yml` jobs of 5, but nothing in the code bounds
  `quiet-window-minutes` from below.
- `OutagesStayOutages` needs `NoSourceClaimed`: see "What the checks found".

*Model-checked only.* The liveness properties (`JobsEnd`, `CallsEnd`): fairness is out of the
prover's reach. Every invariant, every action property and the refinement of the passing
runs is a theorem. The runs that expect a violation show properties that are false there; two of
those are theorems under the hypotheses those runs break (`ReportsAreRecorded`,
`OwnIssueIsSpared`), the others have none.

## What the checks found

Five promises of the documentation do not hold, each with a run (`findings` in
`PROJECT.json`): a delivery overwrites what a concurrent one recorded, or the
resolution a concurrent `/resolved` wrote (`IssuesLostUpdate`); a delivery whose update
failed sweeps its own issue (`IssuesOwnSwept`); an incident create answered with a 5xx
makes a whole burst go untold (`IncidentMissed`); a connection reset while reading is
no `GitHubAPIError`, so the second look that callers promise after a dropped
connection does not happen (`ClientReset`); and the cached history, whose key never
changes, stays what the first job saved (`MemoryFrozen`).

Where a `/resolved` and a delivery overlap, `ResolutionSticks` and `RecurrenceIsOpen` say
nothing: they are checked, and proved, for one job at a time. What holds of the overlap is
that the bodies stay well formed (`RecordsWellFormed`); that one of the two writes is lost is
what `IssuesLostUpdate` shows for two deliveries.

Three more disagreements have no run of their own; the modules contain the behaviour, and a
property leaves it out by name:

- A delivery whose create was repeated after a 5xx heals onto its own first issue and takes
  the stamp of that issue for an earlier one (`issues.py:636`, `694-702`), although
  `issues.py:313-314` says "Never this run's own write". It sends nothing if that stamp, in
  whole seconds, is not after the runner's time at the start. `IssueTwice` does this;
  `QuietHasCause` is about jobs that did not.
- When the request for the last success fails on a pull request, the compare is from the base of
  the pull request (`cli.py:2154-2164`), and the last green commit, found on the page, is
  filtered out of the middle of that list (`history.py:220`). A commit that failed before it
  can then be named as the first failing one, although `history.py:163` names one "only when
  the boundary is unambiguous". `FirstFailingIsFirst` is about compares from the green commit
  that is named.
- A zip that cannot be downloaded (`github_api.py:373-376`) ends the collection with an empty
  stub, unlike every other optional call, although `docs/ci-rca-collector-spec-v8.md:847-854`
  says "finish with what you have". `Download` does this; no property speaks of what is then lost.

Seen while exploring, promised nowhere and therefore not stated as properties: a sweep
on a scan taken earlier closes an issue that another delivery has just updated; an
occurrence can be recorded on an issue that a concurrent job closes, which then stays
closed; when a human reopens an issue closed as a duplicate, the index can keep it and
two stay open; a redelivered `/resolved` closes an issue again that recurred in
between; two overlapping deliveries of one pull request leave two comments, of which
later ones edit the newest; a delivery not severe enough to notify refreshes
`updated_at` and so keeps a later, severe one quiet; when a burst crosses the edge of the quiet window two incidents can be open.

Of the collector, described here because they have no run of their own:

- `config.py:276` says that symptoms must never be the root cause when a terminal cause
  precedes them. Only pipeline streams are filtered (`diagnose.py:1647-1653`): a reset
  connection or an orphan process in the failed job's own log outranks the assertion
  before it, and `_search_category` reads all text. `TerminalIsNamed` states what holds:
  some category is named.
- A runner failure seen in the raw log but not kept in the windows is reported as such
  by `classify.py`, and lost when a `no space left` elsewhere makes R1 decline. Any failed job
  of fewer than 50 lines without a failed step is an outage. Durations never reach the timeout
  rule, and R2 has no input.
- `hunks` counts as source although every path answered 404; a generic assertion then
  asks the model about nothing.
- `docs/ci-rca-collector-spec-v8.md:845-848` stops optional collection below 50 requests;
  the code looks once for five calls and not between pages, attempts or the last green run's zips. The
  list of pull requests of a commit and the list of same-SHA runs are never held back.
- Cached answers are not compared with the new evidence; a dropped quote is compared by
  its first 240 characters.
- A completion may state its own `source`, a key that `prompt.py:37-40` does not ask for:
  `_normalize_payload` keeps it, and `_finalize_card` takes the card for decided. If it is
  not `ai`, the card is not compared with an outage's short circuit, and a reply that blames the
  code is published as it is. `OutagesStayOutages` excludes such replies by a hypothesis
  (`NoSourceClaimed`); `CollectorSteps` has answers that state a source, none with the code.
- `_from_commit_list` takes cancelled and running commits for failing; without a compare,
  runs newer than the failed one count as runs in between. A last success may be newer
  than the collected run. `FirstFailingIsFirst` leaves these cases out by name.
- A failure record beyond its 20 run ids counts a forgotten run again when it is collected again;
  `RecurrenceIsWitnessed` says what bounds the count there, the number of collections.
- A baseline saved by a collect job is an empty directory, whose key then keeps later
  baselines of the job from being saved.

## Not modelled

- Dry runs and offline runs: they write nothing.
- Titles, labels, assignees and recurrence comments of existing issues: written, but
  read by no decision.
- In `IssuesStore`, listings are atomic and complete: the cap of ten pages and the
  shift between pages are `GitHubClient`'s subject. A PATCH whose repetition lands
  after another job's write is not modelled either.
- A second index issue, opened when two jobs both find none: readers take the lowest
  number, so the model drops it (see `Flush`).
- `migrate_history`, a command run once by hand.
- The budget is a choice that may turn false at any write and stays so (fault `late`),
  not a clock. The client does not consult it.
- Text: rendering, redaction, cleaning, windows, stack traces, JUnit and zip parsing,
  regular expressions, drain3's clustering, the sections of the prompt. What decisions
  read of them is the data of `Diagnosis`, `Analysis` and `RunnerMemory`.
- CODEOWNERS, budgets of tokens, outputs, telemetry and the evaluation harness: one
  sequential pass over one input each, with no state that a later step reads.
- In the collector: `capture` and replays of fixtures and completions (development tools),
  unreadable cache files, a workflow with several jobs (whose baselines are separate
  files with a fall-back), suspected files, the wording of cards.

## Plan

Done, in this order: the issue history with its first proofs, incidents, the client, the
delivery pipeline with sticky comments and decisions, then the collector: runner memory,
branch history, diagnosis, analysis, collection; then the proofs about incidents, the client,
deliveries, runner memory, analysis, collection, branch history and diagnosis, and about
issues under overlapping and under serial jobs with the refinement of `IssueTracker`.

Worth adding next: `migrate` of the history (a second migration after a partial one).

## Running

    tlc -workers 2 -config IssuesRace.cfg MCIssuesStore.tla
    tlapm IssuesStoreProofs.tla

Runs of `CollectorSteps`, `Deliveries`, `IncidentBurst` and `ClientCalls` take one to three minutes, the others less;
the proofs some minutes each.
