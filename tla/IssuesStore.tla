----------------------------- MODULE IssuesStore -----------------------------
(***************************************************************************)
(* The fingerprint issues of one repository and the jobs that maintain     *)
(* them: live deliveries (IssuesHistoryStore.sync, sweep_stale and close,  *)
(* in the order of _plan_delivery) and `/resolved` feedback jobs.  The     *)
(* consumer workflows queue at most the runs of one head branch, so the    *)
(* deliveries of different branches and the feedback jobs overlap: one     *)
(* action is one GitHub API call with the local work up to the next one,   *)
(* and the calls of different jobs interleave.  Humans edit the issues.    *)
(***************************************************************************)
EXTENDS FailureRecords, FiniteSets

CONSTANTS
    Fingerprints,
    Deliveries,      \* delivery jobs
    FpOf, RunOf,     \* the fingerprint and the run id each one delivers
    Feedbacks,       \* feedback jobs, one (text, author) each
    CoarseClasses,   \* sets of fingerprints that share a coarse fingerprint
    SweepMax,        \* STALE_SWEEP_MAX
    IndexCap,        \* entries that fit under BODY_CAP
    MaxInFlight,     \* bound: jobs running at one time
    MaxDeliveries,   \* bound: times one /resolved event is delivered
    MaxIssues,       \* bound: issues ever opened
    MaxEdits,        \* bound: edits by humans
    Faults           \* what may go wrong in this instance

FaultKinds ==
    {"list",    \* a read is refused or times out
     "write",   \* a write is refused, nothing lands
     "lost",    \* a write lands and its answer is lost
     "twice",   \* a create lands, answers 5xx and is sent again by _request
     "late",    \* the delivery budget runs out
     "crash",   \* the job is cancelled
     "toggle",  \* a human closes or reopens an issue
     "garble",  \* a human edit leaves a record block that cannot be parsed
     "edit"}    \* a human edit of the index body

ASSUME FpOfAssumption   == FpOf \in [Deliveries -> Fingerprints]
ASSUME RunOfAssumption  == RunOf \in [Deliveries -> RunIds]
ASSUME AuthorAssumption == Feedbacks \subseteq Authors
ASSUME ProcsAssumption  == Deliveries \intersect Feedbacks = {}
ASSUME CoarseAssumption == CoarseClasses \subseteq SUBSET Fingerprints
ASSUME BoundAssumption  == {SweepMax, IndexCap, MaxInFlight, MaxDeliveries, MaxIssues, MaxEdits} \subseteq Nat
ASSUME FaultAssumption  == Faults \subseteq FaultKinds

VARIABLES
    issues,   \* the fingerprint issues, in order of their numbers
    index,    \* the index issue as a reader sees it
    day,      \* the clock; more than STALE_DAYS pass with each tick
    pc,       \* where each job is
    loc,      \* what each delivery holds in memory
    fb,       \* what each feedback job holds in memory
    edits,    \* how often a human has intervened
    known     \* history: the issues that existed when a delivery started

vars == <<issues, index, day, pc, loc, fb, edits, known>>

Procs    == Deliveries \union Feedbacks
Statuses == {"open", "duplicate", "stale", "resolved", "human"}   \* open, or closed by whom
Issue    == [fp : Fingerprints, rec : Record, status : Statuses]
Numbers  == 1 .. MaxIssues
IndexMap == [Fingerprints -> 0 .. MaxIssues]                      \* 0: no entry
NoIndex  == [fp \in Fingerprints |-> 0]

Of(list, fp)     == {n \in DOMAIN list : list[n].fp = fp}
OpenOf(list, fp) == {n \in Of(list, fp) : list[n].status = "open"}
Lowest(n, S)     == n \in S /\ \A m \in S : n <= m
Highest(n, S)    == n \in S /\ \A m \in S : m <= n

\* IssuesHistoryStore.__init__
Blank == [idx |-> NoIndex, idxState |-> "unloaded", dirty |-> FALSE,
          scan |-> <<>>, scanned |-> FALSE, blind |-> FALSE,
          num |-> 0, snap |-> Unreadable, closed |-> FALSE, own |-> 0,
          todo |-> {}, swept |-> 0, late |-> FALSE, result |-> "none", ref |-> 0]

Results == {"none", "created", "updated", "reopened", "unchanged", "failed", "skipped"}

Init ==
    /\ issues = <<>>
    /\ index = [state |-> "missing", map |-> NoIndex]
    /\ day = 0
    /\ pc = [p \in Procs |-> "idle"]
    /\ loc = [d \in Deliveries |-> Blank]
    /\ fb = [f \in Feedbacks |-> [list |-> <<>>, todo |-> {}, times |-> 0]]
    /\ edits = 0
    /\ known = [d \in Deliveries |-> 0]

InFlight    == {p \in Procs : pc[p] \notin {"idle", "done"}}
MayFail(k)  == k \in Faults
Goto(p, at) == pc' = [pc EXCEPT ![p] = at]
Keep(d, l)  == loc' = [loc EXCEPT ![d] = l]

\* _set_index
Indexed(l, fp, n) ==
    [l EXCEPT !.idx[fp] = n, !.dirty = l.dirty \/ l.idx[fp] # n]

Scanned(l, list)  == [l EXCEPT !.scan = list, !.scanned = TRUE]
ScanFailed(l)     == [l EXCEPT !.scan = <<>>, !.scanned = TRUE, !.blind = TRUE]

\* The snapshot of issue n that the rest of the delivery works on.
Target(l, list, n) ==
    [l EXCEPT !.num = n, !.snap = list[n].rec, !.closed = list[n].status # "open"]

\* The budget is checked before a write; once exceeded it stays so.
InTime(l)  == ~l.late
MayRunOut(l) == l.late \/ MayFail("late")
Late(l)    == [l EXCEPT !.late = TRUE]

\* _sync returns its IssueResult and the caller derives issue_ref from it.  A
\* delivery that created an issue stays "created" whatever its update returns.
Report(l, res) ==
    LET done == [l EXCEPT !.num = 0, !.snap = Unreadable, !.closed = FALSE, !.own = 0] IN
    IF l.own # 0 THEN [done EXCEPT !.result = "created", !.ref = l.num]
    ELSE [done EXCEPT !.result = res, !.ref = IF res \in {"failed", "skipped"} THEN 0 ELSE l.num]

Return(d, l, res) == Keep(d, Report(l, res)) /\ Goto(d, "sweep")

-----------------------------------------------------------------------------
(* Looking the issue up: _find *)

\* _load_index.  The lowest numbered index issue counts, so that a second one
\* created concurrently is never read.
LoadIndex(d) ==
    /\ pc[d] = "idle" /\ Cardinality(InFlight) < MaxInFlight
    /\ \/ Keep(d, [Blank EXCEPT !.idx = index.map, !.idxState = index.state])
       \/ MayFail("list") /\ Keep(d, [Blank EXCEPT !.idxState = "error"])
    /\ Goto(d, IF loc'[d].idx[FpOf[d]] # 0 THEN "get" ELSE "scan")
    /\ known' = [known EXCEPT ![d] = Len(issues)]
    /\ UNCHANGED <<issues, index, day, fb, edits>>

\* The index entry is a hint: the issue it names is taken only when its marker
\* is ours, in whatever state it is; else the label scan decides.
GetIssue(d) ==
    LET n == loc[d].idx[FpOf[d]] IN
    /\ pc[d] = "get"
    /\ \/ /\ n \in Of(issues, FpOf[d])
          /\ Keep(d, Target(loc[d], issues, n))
          /\ Goto(d, "update")
       \/ /\ n \notin Of(issues, FpOf[d]) \/ MayFail("list")
          /\ Goto(d, "scan")
          /\ UNCHANGED loc
    /\ UNCHANGED <<issues, index, day, fb, known, edits>>

\* _sync without an issue: create one, but never blind.
NotFoundBlind(d, l) == Keep(d, l) /\ Goto(d, "create")   \* mutant: does not ask whether the scan failed

NotFound(d, l) ==
    IF l.blind THEN Return(d, l, "skipped") ELSE Keep(d, l) /\ Goto(d, "create")

Scan(d) ==
    LET fp == FpOf[d]
        l  == Scanned(loc[d], issues) IN
    /\ pc[d] = "scan"
    /\ \/ \E n \in DOMAIN issues :
            /\ Lowest(n, Of(issues, fp))
            /\ Keep(d, Indexed(Target(l, issues, n), fp, n))
            /\ Goto(d, "update")
       \/ Of(issues, fp) = {} /\ NotFound(d, l)
       \/ MayFail("list") /\ NotFound(d, ScanFailed(loc[d]))
    /\ UNCHANGED <<issues, index, day, fb, known, edits>>

-----------------------------------------------------------------------------
(* Writing it: _update, _create and _self_heal *)

\* update_issue: what one PATCH leaves of issue n.
Patch(n, rec, status) == [issues EXCEPT ![n] = [@ EXCEPT !.rec = rec, !.status = status]]

\* _update sends title, body and perhaps state.  The body is the snapshot plus
\* this run; the state is sent only when the snapshot was closed.
PatchedStateOnly(d) ==   \* mutant: the body is sent only for an open issue
    LET l == loc[d] IN
    Patch(l.num, IF l.closed THEN l.snap ELSE Absorb(l.snap, RunOf[d], day),
          IF l.closed THEN "open" ELSE issues[l.num].status)

PatchedNoReopen(d) ==    \* mutant: the state is never sent
    Patch(loc[d].num, Absorb(loc[d].snap, RunOf[d], day), issues[loc[d].num].status)

Patched(d) ==
    LET l == loc[d] IN
    Patch(l.num, Absorb(l.snap, RunOf[d], day),
          IF l.closed THEN "open" ELSE issues[l.num].status)

Update(d) ==
    LET l == loc[d]
        same == ~l.closed /\ Counted(l.snap, RunOf[d]) IN
    /\ pc[d] = "update"
    /\ \/ \* the rendered body and title are what the issue already has
          same /\ Return(d, l, "unchanged") /\ UNCHANGED issues
       \/ InTime(l) /\ issues' = Patched(d)
          /\ Return(d, Indexed(l, FpOf[d], l.num), IF l.closed THEN "reopened" ELSE "updated")
       \/ MayRunOut(l) /\ Return(d, Late(l), "skipped") /\ UNCHANGED issues
       \/ InTime(l) /\ MayFail("write") /\ Return(d, l, "failed") /\ UNCHANGED issues
       \/ InTime(l) /\ MayFail("lost") /\ Return(d, l, "failed") /\ issues' = Patched(d)
    /\ UNCHANGED <<index, day, fb, known, edits>>

Opened(d) == [fp |-> FpOf[d], rec |-> FirstRecord(RunOf[d], day), status |-> "open"]

Created(l, fp, n) == Indexed([l EXCEPT !.own = n, !.num = n], fp, n)

\* A create is never repeated by the delivery: after a timeout "rescan" looks
\* whether it landed, after an error status it counts as failed.  _request does
\* repeat it after a 5xx.
Create(d) ==
    LET l == loc[d]
        n == Len(issues) + 1 IN
    /\ pc[d] = "create" /\ n <= MaxIssues
    /\ \/ InTime(l)
          /\ issues' = Append(issues, Opened(d))
          /\ Keep(d, Created(l, FpOf[d], n)) /\ Goto(d, "heal")
       \/ InTime(l) /\ MayFail("twice") /\ n < MaxIssues
          /\ issues' = Append(Append(issues, Opened(d)), Opened(d))
          /\ Keep(d, Created(l, FpOf[d], n + 1)) /\ Goto(d, "heal")
       \/ InTime(l)
          /\ \/ MayFail("lost") /\ issues' = Append(issues, Opened(d))
             \/ MayFail("write") /\ UNCHANGED issues
          /\ \/ Goto(d, "rescan") /\ UNCHANGED loc
             \/ Return(d, l, "failed")
       \/ MayRunOut(l) /\ Return(d, Late(l), "skipped") /\ UNCHANGED issues
    /\ UNCHANGED <<index, day, fb, known, edits>>

\* After a timeout: the lowest issue of the fingerprint, whoever opened it,
\* is taken for the one just created.
Rescan(d) ==
    LET fp == FpOf[d]
        l  == Scanned(loc[d], issues) IN
    /\ pc[d] = "rescan"
    /\ \/ \E n \in DOMAIN issues :
            /\ Lowest(n, Of(issues, fp))
            /\ Keep(d, Created(l, fp, n)) /\ Goto(d, "heal")
       \/ Of(issues, fp) = {} /\ Return(d, l, "failed")
       \/ MayFail("list") /\ Return(d, ScanFailed(loc[d]), "failed")
    /\ UNCHANGED <<issues, index, day, fb, known, edits>>

\* The open issues of the fingerprint, listed anew; the one just created counts.
RivalsCached(d) == OpenOf(loc[d].scan, FpOf[d]) \union {loc[d].own}   \* mutant: no refresh

Rivals(d) == OpenOf(issues, FpOf[d]) \union {loc[d].own}

KeptNewest(n, S) == Highest(n, S)   \* mutant: keeps the newest
Kept(n, S)       == Lowest(n, S)

\* _self_heal: keep the lowest open issue and close the others.  A listing that
\* fails shows no others.
Heal(d) ==
    LET fp == FpOf[d]
        l  == loc[d]
        rivals == Rivals(d) IN
    /\ pc[d] = "heal"
    /\ \/ rivals = {l.own} /\ Return(d, Scanned(l, issues), "created")
       \/ /\ rivals # {l.own}
          /\ \E keep \in rivals :
                /\ Kept(keep, rivals)
                /\ Keep(d, [Indexed(Target(Scanned(l, issues), issues, keep), fp, keep)
                              EXCEPT !.todo = rivals \ {keep}])
          /\ Goto(d, "close")
       \/ MayFail("list") /\ Return(d, ScanFailed(l), "created")
    /\ UNCHANGED <<issues, index, day, fb, known, edits>>

\* When the duplicates are dealt with, the occurrence is recorded on the kept
\* issue, unless that is the one just created.
HealedRechecks(d, l) == Keep(d, l) /\ Goto(d, "heal")   \* mutant: until nobody else is open

Healed(d, l) ==
    IF l.num # l.own THEN Keep(d, l) /\ Goto(d, "update") ELSE Return(d, l, "created")

\* One duplicate, lowest first: a comment, then the close.  A failure leaves
\* that one and goes on with the next; the budget ends the loop.
CloseDuplicate(d) ==
    LET l == loc[d] IN
    /\ pc[d] = "close"
    /\ \/ \E n \in l.todo :
            /\ Lowest(n, l.todo) /\ InTime(l)
            /\ \/ issues' = Patch(n, issues[n].rec, "duplicate")
               \/ MayFail("write") /\ UNCHANGED issues
            /\ LET left == [l EXCEPT !.todo = l.todo \ {n}] IN
               IF left.todo = {} THEN Healed(d, left) ELSE Keep(d, left) /\ UNCHANGED pc
       \/ MayRunOut(l) /\ UNCHANGED issues /\ Healed(d, Late([l EXCEPT !.todo = {}]))
    /\ UNCHANGED <<index, day, fb, known, edits>>

-----------------------------------------------------------------------------
(* Housekeeping after the comment: sweep_stale, then close *)

\* Issues the scan shows open and not seen for STALE_DAYS, except the one this
\* delivery reported.
Stale(l) ==
    {n \in DOMAIN l.scan :
        /\ l.scan[n].status = "open" /\ n # l.ref
        /\ Readable(l.scan[n].rec) /\ l.scan[n].rec.seen < day}

Sweep(d) ==
    LET l == loc[d]
        begin(m) == /\ Keep(d, [m EXCEPT !.todo = Stale(m)])
                    /\ Goto(d, IF Stale(m) # {} THEN "closing" ELSE "flush") IN
    /\ pc[d] = "sweep"
    /\ \/ l.scanned /\ begin(l)
       \/ ~l.scanned /\ begin(Scanned(l, issues))
       \/ ~l.scanned /\ MayFail("list") /\ begin(ScanFailed(l))
    /\ UNCHANGED <<issues, index, day, fb, known, edits>>

\* Newest first, as the listing comes; the sweep ends at SweepMax, with the
\* budget, or with the first failure.
CloseStale(d) ==
    LET l == loc[d]
        close(n) == issues' = Patch(n, issues[n].rec, "stale")
        stop(m)  == Keep(d, [m EXCEPT !.todo = {}, !.swept = 0]) /\ Goto(d, "flush") IN
    /\ pc[d] = "closing"
    /\ \E n \in l.todo :
        /\ Highest(n, l.todo)
        /\ IF l.swept = SweepMax THEN stop(l) /\ UNCHANGED issues
           ELSE \/ /\ InTime(l) /\ close(n)
                   /\ IF l.todo = {n} THEN stop(l)
                      ELSE UNCHANGED pc /\ Keep(d, [l EXCEPT !.todo = l.todo \ {n}, !.swept = l.swept + 1])
                \/ MayRunOut(l) /\ stop(Late(l)) /\ UNCHANGED issues
                \/ InTime(l) /\ MayFail("write") /\ stop(l) /\ UNCHANGED issues
                \/ InTime(l) /\ MayFail("lost") /\ stop(l) /\ close(n)
    /\ UNCHANGED <<index, day, fb, known, edits>>

\* What a finished delivery leaves behind is its report.
End(d) ==
    /\ Keep(d, [Blank EXCEPT !.result = loc[d].result, !.ref = loc[d].ref])
    /\ Goto(d, "done")

\* A missing or corrupt index is rebuilt from the scan, lowest number first.
RepairedAny(l, map) ==   \* mutant: does not read the marker of the issue
    \A fp \in Fingerprints :
        IF l.idxState \in {"corrupt", "missing"} /\ l.scan # <<>>
        THEN Lowest(map[fp], DOMAIN l.scan)
        ELSE map[fp] = l.idx[fp]

Repaired(l, map) ==
    \A fp \in Fingerprints :
        IF l.idxState \in {"corrupt", "missing"} /\ Of(l.scan, fp) # {}
        THEN Lowest(map[fp], Of(l.scan, fp))
        ELSE map[fp] = l.idx[fp]

Entries(map) == {fp \in Fingerprints : map[fp] # 0}

\* _flush_index writes the whole cached map: the last writer wins.  Where the
\* index was missing this opens an index issue, which nobody reads when
\* another job has opened one with a lower number.
Flush(d) ==
    LET l == loc[d]
        skip(map) == \/ ~l.dirty /\ map = l.idx /\ l.idxState # "corrupt"
                     \/ Entries(map) = {} \/ l.idxState = "error"
                     \/ Cardinality(Entries(map)) > IndexCap
        write(map) == IF l.idxState = "missing" /\ index.state # "missing" THEN UNCHANGED index
                      ELSE index' = [state |-> "ok", map |-> map] IN
    /\ pc[d] = "flush"
    /\ \E map \in IndexMap :
        /\ Repaired(l, map)
        /\ \/ ~skip(map) /\ InTime(l) /\ write(map)
           \/ (skip(map) \/ MayRunOut(l) \/ MayFail("write")) /\ UNCHANGED index
    /\ End(d)
    /\ UNCHANGED <<issues, day, fb, known, edits>>

Crash(d) ==
    /\ MayFail("crash") /\ d \in InFlight
    /\ End(d)
    /\ UNCHANGED <<issues, index, day, fb, known, edits>>

-----------------------------------------------------------------------------
(* Feedback: a trusted `/resolved`, on the issue or on a pull request *)

MayRead(f) ==
    /\ pc[f] \in {"idle", "done"} /\ fb[f].times < MaxDeliveries
    /\ Cardinality(InFlight) < MaxInFlight

Resolving(f, S) ==
    /\ fb' = [fb EXCEPT ![f] = [list |-> issues, todo |-> S, times |-> @.times + 1]]
    /\ Goto(f, IF S # {} THEN "resolve" ELSE "done")
    /\ UNCHANGED <<issues, index, day, loc, known, edits>>

\* On the fingerprint issue itself, or on a pull request naming it with #N.
ReadIssue(f) ==
    /\ MayRead(f)
    /\ \E n \in DOMAIN issues : Resolving(f, {n})

\* On a pull request: open_issues_for_coarse.
ReadPullRequest(f) ==
    /\ MayRead(f)
    /\ \E C \in CoarseClasses :
        Resolving(f, {n \in DOMAIN issues : /\ issues[n].fp \in C /\ issues[n].status = "open"
                                            /\ Readable(issues[n].rec)})

ResolvedAnew(rec, f) == [Unreadable EXCEPT !.count = 1, !.resolution = f]   \* mutant: a new record

\* The record a resolution is written with: the snapshot, and the resolution.
Resolved(rec, f) == [rec EXCEPT !.resolution = f]

\* resolve_issue, for each target in turn.
Resolve(f) ==
    /\ pc[f] = "resolve"
    /\ \E n \in fb[f].todo :
        LET was     == fb[f].list[n]
            already == was.status # "open" /\ was.rec.resolution = f
            write   == issues' = Patch(n, Resolved(was.rec, f), "resolved") IN
        /\ Lowest(n, fb[f].todo)
        /\ \/ Readable(was.rec) /\ ~already /\ write
           \/ (~Readable(was.rec) \/ already \/ MayFail("write")) /\ UNCHANGED issues
        /\ fb' = [fb EXCEPT ![f].todo = @ \ {n},
                            ![f].list = IF fb[f].todo = {n} THEN <<>> ELSE @]
        /\ Goto(f, IF fb[f].todo = {n} THEN "done" ELSE "resolve")
    /\ UNCHANGED <<index, day, loc, known, edits>>

-----------------------------------------------------------------------------
(* Everybody else *)

HumanEdit(kind) == MayFail(kind) /\ edits < MaxEdits /\ edits' = edits + 1

HumanTogglesIssue(n) ==
    /\ HumanEdit("toggle")
    /\ issues' = Patch(n, issues[n].rec, IF issues[n].status = "open" THEN "human" ELSE "open")
    /\ UNCHANGED <<index, day, pc, loc, fb, known>>

HumanGarblesIssue(n) ==
    /\ HumanEdit("garble")
    /\ issues' = Patch(n, Unreadable, issues[n].status)
    /\ UNCHANGED <<index, day, pc, loc, fb, known>>

HumanEditsIndex ==
    /\ HumanEdit("edit") /\ index.state # "missing"
    /\ index' \in {[state |-> "corrupt", map |-> NoIndex]} \union
                  {[index EXCEPT !.map[fp] = n] : fp \in Fingerprints, n \in Numbers}
    /\ UNCHANGED <<issues, day, pc, loc, fb, known>>

\* A job runs for minutes: no job sees the clock move.
Tick ==
    /\ InFlight = {} /\ day < MaxDay
    /\ day' = day + 1
    /\ UNCHANGED <<issues, index, pc, loc, fb, edits, known>>

Step(d) ==
    \/ GetIssue(d) \/ Scan(d) \/ Update(d) \/ Create(d) \/ Rescan(d) \/ Heal(d)
    \/ CloseDuplicate(d) \/ Sweep(d) \/ CloseStale(d) \/ Flush(d)

Next ==
    \/ \E d \in Deliveries : LoadIndex(d) \/ Step(d) \/ Crash(d)
    \/ \E f \in Feedbacks : ReadIssue(f) \/ ReadPullRequest(f) \/ Resolve(f)
    \/ \E n \in DOMAIN issues : HumanTogglesIssue(n) \/ HumanGarblesIssue(n)
    \/ HumanEditsIndex
    \/ Tick

Spec == Init /\ [][Next]_vars

\* Which failures start a job is up to the repository; a job that has started
\* goes on: every call of the client ends by its timeout.
FairSpec ==
    /\ Spec
    /\ \A d \in Deliveries : WF_vars(Step(d))
    /\ \A f \in Feedbacks : WF_vars(Resolve(f))

-----------------------------------------------------------------------------
(* Properties *)

LocType ==
    [idx : IndexMap, idxState : {"unloaded", "missing", "ok", "corrupt", "error"},
     dirty : BOOLEAN, scan : Seq(Issue), scanned : BOOLEAN, blind : BOOLEAN,
     num : 0 .. MaxIssues, snap : Record, closed : BOOLEAN, own : 0 .. MaxIssues,
     todo : SUBSET Numbers, swept : 0 .. SweepMax, late : BOOLEAN,
     result : Results, ref : 0 .. MaxIssues]

Places == {"idle", "get", "scan", "update", "create", "rescan", "heal", "close",
           "sweep", "closing", "flush", "resolve", "done"}

\* Types of the shared state and of what every job holds.
TypeOK ==
    /\ issues \in Seq(Issue) /\ Len(issues) <= MaxIssues
    /\ index \in [state : {"missing", "ok", "corrupt"}, map : IndexMap]
    /\ day \in Days
    /\ pc \in [Procs -> Places]
    /\ loc \in [Deliveries -> LocType]
    /\ fb \in [Feedbacks -> [list : Seq(Issue), todo : SUBSET Numbers, times : 0 .. MaxDeliveries]]
    /\ edits \in 0 .. MaxEdits
    /\ known \in [Deliveries -> 0 .. MaxIssues]

\* Whatever jobs overwrite each other, every issue body states a record that
\* some sequence of occurrences could have produced: no run is listed twice
\* and the count covers the runs listed (absorb, and every writer of a body).
RecordsWellFormed == \A n \in DOMAIN issues : WellFormed(issues[n].rec)

\* A delivery that is about to open an issue has made sure that none of its
\* fingerprint, open or closed, existed when it started, through any index
\* content and any failed read (_find, "never create blind").
CreateOnlyUnknown ==
    \A d \in Deliveries : pc[d] = "create" =>
        \A n \in 1 .. known[d] : issues[n].fp # FpOf[d]

\* Self-heal never closes the first issue of a fingerprint: an issue closed as
\* a duplicate has a lower numbered one to be the duplicate of (_self_heal).
DuplicateHasOriginal ==
    \A n \in DOMAIN issues : issues[n].status = "duplicate" =>
        \E m \in 1 .. (n - 1) : issues[m].fp = issues[n].fp

\* As long as no human edits it, the index issue only names issues of the
\* fingerprint it names them for (_set_index, _flush_index).
IndexKeepsApart ==
    \A fp \in Fingerprints : index.map[fp] # 0 => index.map[fp] \in Of(issues, fp)

\* Nobody works on an issue of another fingerprint: the snapshot a delivery
\* is about to write back belongs to its own (_find, _create, _update).
WritesOwnFingerprint ==
    \A d \in Deliveries : pc[d] = "update" => loc[d].num \in Of(issues, FpOf[d])

\* When no job runs, a fingerprint has at most one open issue and that is its
\* first one ("One issue per fine fingerprint").
OneOpenAtRest ==
    InFlight = {} => \A fp \in Fingerprints :
        \A n \in OpenOf(issues, fp) : Lowest(n, Of(issues, fp))

\* A delivery that reported success has its run counted in the issue it
\* reported, also after everything later jobs wrote to it.
ReportedIsRecorded ==
    \A d \in Deliveries :
        pc[d] = "done" /\ loc[d].result \in {"created", "updated", "reopened", "unchanged"}
            => /\ loc[d].ref \in Of(issues, FpOf[d])
               /\ Counted(issues[loc[d].ref].rec, RunOf[d])

\* An issue never claims more occurrences than runs were delivered for it
\* ("same occurrence identity does not bump count").
CountsRunsOnce ==
    \A n \in DOMAIN issues :
        issues[n].rec.count <= Cardinality({RunOf[d] : d \in {e \in Deliveries : FpOf[e] = issues[n].fp}})

\* A human resolution once recorded stays with the issue as history.
ResolutionSticks ==
    [][\A n \in DOMAIN issues :
        issues[n].rec.resolution # NoOne => issues'[n].rec.resolution # NoOne]_vars

\* An occurrence is never recorded on an issue without the issue being open
\* afterwards ("Reopen on recurrence").
RecurrenceIsOpen ==
    [][\A n \in DOMAIN issues :
        issues'[n].rec.count > issues[n].rec.count => issues'[n].status = "open"]_vars

\* The sweep of a delivery never closes the issue of the failure it delivers
\* ("No recurrence in 14 days").
SweepSparesOwn ==
    [][\A d \in Deliveries, n \in DOMAIN issues :
        pc[d] = "closing" /\ loc'[d] # loc[d] /\ issues[n].fp = FpOf[d]
            => issues'[n].status = issues[n].status]_vars

\* A job that has started comes to its end.
JobsEnd == \A p \in Procs : pc[p] # "idle" ~> pc[p] = "done"

\* The runs recorded for a fingerprint, over all its issues, and the
\* fingerprints with an open issue.
CountedRuns == [fp \in Fingerprints |->
                  {r \in RunIds : \E n \in Of(issues, fp) : Counted(issues[n].rec, r)}]
OpenFingerprints == {fp \in Fingerprints : OpenOf(issues, fp) # {}}

Tracker == INSTANCE IssueTracker WITH counted <- CountedRuns, open <- OpenFingerprints

\* Jobs that do not overlap, whatever calls fail, implement the tracker.
ImplementsTracker == Tracker!Spec
=============================================================================
