------------------------------- MODULE Delivery -------------------------------
(***************************************************************************)
(* Live deliveries from decision to report (_plan_delivery): the issue     *)
(* first, then the sticky comment (sticky.py), the label, and the          *)
(* notification.  One action is one GitHub call or one send; the calls of  *)
(* overlapping deliveries interleave.  The issue history is IssuesStore's; *)
(* here it is what a delivery sees of it: its outcome and updated_at.      *)
(***************************************************************************)
EXTENDS DeliveryDecisions, Sequences, FiniteSets

CONSTANTS
    Jobs,         \* delivery jobs
    Runs, NoRun,  \* run ids, and none
    Fingerprints,
    CoarseOf,     \* fingerprint_coarse: the key of comments, issues go by the fine one
    Cases,        \* what may be delivered: a run, its context and its failure; a re-run repeats a case
    On,           \* the switches that are on
    Window,       \* quiet-window-minutes, in ticks
    JobMax,       \* bound: ticks a job lasts
    MaxClock,     \* bound: ticks in all
    MaxComments,  \* bound: comments ever posted
    Faults        \* what may go wrong in this instance

FaultKinds ==
    {"list",   \* a listing fails
     "write",  \* a write is refused, nothing lands
     "lost",   \* a write lands and its answer is lost
     "twice",  \* a create lands, answers 5xx and is sent again by _request
     "send",   \* the chat server does not take the message
     "late",   \* the delivery budget runs out
     "crash"}  \* the job is cancelled

ASSUME CaseAssumption   == Cases # {} /\ Cases \subseteq [run : Runs, ctx : Contexts, failure : Failures(Fingerprints)]
ASSUME SwitchAssumption == On \subseteq Switches
ASSUME TickAssumption   == {Window, JobMax, MaxClock, MaxComments} \subseteq Nat
ASSUME KindAssumption   == Faults \subseteq FaultKinds

VARIABLES
    comments,  \* the RCA comments on the pull request and on the commit, oldest first
    tracked,   \* updated_at of the issue of a fingerprint: none or one stamp
    clock,     \* GitHub's clock and the runners'
    pc,        \* where each job is
    job,       \* what each job holds
    disturbed \* history: whether two jobs have been in flight at a time or a comment landed twice

vars == <<comments, tracked, clock, pc, job, disturbed>>

Times   == 0 .. MaxClock
Coarse  == {CoarseOf[fp] : fp \in Fingerprints}
Body    == [run : Runs, tracked : BOOLEAN]   \* tracked: names its issue
NoBody  == [run |-> NoRun, tracked |-> FALSE]
Comment == [on : {"pr", "commit"}, key : Coarse, body : Body, updated : Times]
Writes  == {"issue", "comment", "label", "chat"}
Landed  == {"issue", "second-issue", "comment"}

InFlight    == {j \in Jobs : pc[j] \notin {"idle", "done", "killed"}}
MayFail(k)  == k \in Faults
Goto(j, at) == pc' = [pc EXCEPT ![j] = at]
Keep(j, m)  == job' = [job EXCEPT ![j] = m]

InTime(m)    == ~m.late
MayRunOut(m) == m.late \/ MayFail("late")
Late(m)      == [m EXCEPT !.late = TRUE]

\* The outcome dictionary.  delivered is delivered_to, attempted are the
\* channels with an action other than "none", failed is write_failed.  History:
\* which writes have landed and which have failed.
Blank(case, now) ==
    [case |-> case, now |-> now, late |-> FALSE, ref |-> FALSE, stamps |-> {},
     existing |-> 0, seen |-> NoBody, delivered |-> {}, attempted |-> {}, failed |-> FALSE,
     suppressed |-> "none", plan |-> "unplanned", wrote |-> {}, missed |-> {}]

AnyCase == CHOOSE case \in Cases : TRUE

Init ==
    /\ comments = <<>>
    /\ tracked = [fp \in Fingerprints |-> {}]
    /\ clock = 0
    /\ pc = [j \in Jobs |-> "idle"]
    /\ job = [j \in Jobs |-> Blank(AnyCase, 0)]
    /\ disturbed = FALSE

Ctx(m)      == m.case.ctx
Failure(m)  == m.case.failure
Channel(m)  == CommentChannel(Ctx(m), On)
StageA(m)   == SuppressedBy(Ctx(m), Failure(m))
BodyOf(j)   == [run |-> job[j].case.run, tracked |-> job[j].ref]
Failed(m, w) == [m EXCEPT !.failed = TRUE, !.missed = @ \union {w}]

\* The end of _deliver_comment: a delivery error needs a failed write, and that
\* nothing has been delivered.
SettledBlind(m) ==   \* mutant: whatever has been delivered
    [m EXCEPT !.suppressed = IF StageA(m) # "none" THEN StageA(m)
                             ELSE IF m.failed THEN "delivery_error" ELSE "none"]

Settled(m) ==
    [m EXCEPT !.suppressed = IF StageA(m) # "none" THEN StageA(m)
                             ELSE IF m.failed /\ m.delivered = {} THEN "delivery_error" ELSE "none"]

\* After the comment: the label of a flaky failure, else the notification.
ToNotify(j, m)     == Keep(j, Settled(m)) /\ Goto(j, "notify")
AfterComment(j, m) == IF AddFlakyLabel(Ctx(m), Failure(m)) THEN Keep(j, m) /\ Goto(j, "label")
                      ELSE ToNotify(j, m)

\* After the issue: the comment, unless suppressed or not routed.
AfterIssue(j, m) == IF StageA(m) = "none" /\ Channel(m) # "none" THEN Keep(j, m) /\ Goto(j, "lookup")
                    ELSE AfterComment(j, m)

Start(j) ==
    /\ pc[j] = "idle"
    /\ \E case \in Cases :
         LET m == Blank(case, clock) IN
         IF StageA(m) = "none" /\ ShouldOpenIssue(Ctx(m), Failure(m), On)
         THEN Keep(j, m) /\ Goto(j, "issue") ELSE AfterIssue(j, m)
    /\ disturbed' = (disturbed \/ InFlight # {})
    /\ UNCHANGED <<comments, tracked, clock>>

\* IssuesHistoryStore.sync: opens or updates the issue and returns when it was
\* updated before; a run already counted changes nothing.
Synced(j, m, stamps) == [m EXCEPT !.ref = TRUE, !.stamps = @ \union stamps]

IssueStampedAfter(j, m) ==   \* mutant: reads updated_at when the issue has been written
    Synced(j, m, {clock})
IssueStamped(j, m) == Synced(j, m, tracked[Failure(m).fp])

\* Its own issue was closed as a duplicate and the kept one cannot be updated: it
\* is not said when that was updated.
KeptIsStale(j, m) ==
    \/ MayFail("write") /\ AfterIssue(j, Failed(Synced(j, m, {}), "issue"))
    \/ MayFail("late") /\ AfterIssue(j, Late(Synced(j, m, {})))

Issue(j) ==
    LET m    == [job[j] EXCEPT !.attempted = @ \union {"issue"}]
        fp   == Failure(m).fp
        done == [m EXCEPT !.delivered = @ \union {"issue"}, !.wrote = @ \union {"issue"}]
        write == tracked' = [tracked EXCEPT ![fp] = {clock}] IN
    /\ pc[j] = "issue"
    /\ \/ InTime(m) /\ write /\ AfterIssue(j, IssueStamped(j, done))
       \/ tracked[fp] # {} /\ AfterIssue(j, IssueStamped(j, m)) /\ UNCHANGED tracked
       \/ InTime(m) /\ disturbed /\ tracked[fp] # {} /\ KeptIsStale(j, done) /\ UNCHANGED tracked
       \/ MayRunOut(m) /\ AfterIssue(j, Late(m)) /\ UNCHANGED tracked
       \/ (MayFail("list") \/ MayFail("write")) /\ AfterIssue(j, Failed(m, "issue")) /\ UNCHANGED tracked
       \/ /\ InTime(m) /\ MayFail("lost") /\ write
          /\ AfterIssue(j, [Failed(m, "issue") EXCEPT !.wrote = @ \union {"issue"}])
    /\ UNCHANGED <<comments, clock, disturbed>>

\* The first answer to a create is a 5xx though the issue is there, and _request
\* repeats: the second issue is closed as a duplicate of the first, which is then
\* updated like any other, its updated_at read before.
IssueTwice(j) ==
    LET m  == [job[j] EXCEPT !.attempted = @ \union {"issue"}, !.delivered = @ \union {"issue"},
                             !.wrote = @ \union {"issue", "second-issue"}]
        fp == Failure(m).fp IN
    /\ MayFail("twice") /\ pc[j] = "issue" /\ InTime(m) /\ tracked[fp] = {}
    /\ tracked' = [tracked EXCEPT ![fp] = {clock}]
    /\ AfterIssue(j, Synced(j, m, {clock})) \/ KeptIsStale(j, m)
    /\ UNCHANGED <<comments, clock, disturbed>>

-----------------------------------------------------------------------------
(* The sticky comment: find_existing, post_or_update, _confirm_create *)

\* is_ours: the marker on the first line has the coarse fingerprint.
OursAny(m) == {n \in DOMAIN comments : comments[n].on = Channel(m)}   \* mutant: any RCA comment
Ours(m)    == {n \in DOMAIN comments : comments[n].on = Channel(m) /\ comments[n].key = CoarseOf[Failure(m).fp]}

\* The one updated last, of equals the older one.
Newest(n, S) ==
    /\ n \in S
    /\ \A o \in S : \/ comments[o].updated < comments[n].updated
                    \/ comments[o].updated = comments[n].updated /\ n <= o

\* A lookup that fails must not look like "no comment yet".
LookupFailedOpen(j, m) == Keep(j, m) /\ Goto(j, "post")   \* mutant: creates blind
LookupFailed(j, m)     == AfterComment(j, Failed([m EXCEPT !.attempted = @ \union {"comment"}], "comment"))

Lookup(j) ==
    LET m == job[j] IN
    /\ pc[j] = "lookup"
    /\ \/ \E n \in Ours(m) :
            /\ Newest(n, Ours(m))
            /\ Keep(j, [m EXCEPT !.existing = n, !.seen = comments[n].body,
                                 !.stamps = @ \union {comments[n].updated}])
            /\ Goto(j, "post")
       \/ Ours(m) = {} /\ Goto(j, "post") /\ UNCHANGED job
       \/ MayFail("list") /\ LookupFailed(j, m)
    /\ UNCHANGED <<comments, tracked, clock, disturbed>>

Posted(j) == [on |-> Channel(job[j]), key |-> CoarseOf[Failure(job[j]).fp],
              body |-> BodyOf(j), updated |-> clock]

\* An edit replaces the body, its marker included.
Edited(j) == [comments EXCEPT ![job[j].existing] = Posted(j)]

ToldWhere(m) == [m EXCEPT !.delivered = @ \union {Channel(m)}]   \* mutant: reports the target
Told(m)  == [m EXCEPT !.delivered = @ \union {"comment"}]
Wrote(m) == [m EXCEPT !.wrote = @ \union {"comment"}]

Attempted(j) == [job[j] EXCEPT !.attempted = @ \union {"comment"}]
Unchanged(j) == job[j].existing # 0 /\ job[j].seen = BodyOf(j)
MayWrite(j)  == pc[j] = "post" /\ ~Unchanged(j) /\ InTime(job[j])

Leave(j) ==
    LET m == Attempted(j) IN
    /\ pc[j] = "post"
    /\ \/ Unchanged(j) /\ AfterComment(j, Told(m))
       \/ ~Unchanged(j) /\ MayRunOut(m) /\ AfterComment(j, Late(m))
       \/ MayWrite(j) /\ MayFail("write") /\ AfterComment(j, Failed(m, "comment"))
    /\ UNCHANGED <<comments, tracked, clock, disturbed>>

Edit(j) ==
    LET m == Wrote(Attempted(j)) IN
    /\ MayWrite(j) /\ job[j].existing # 0
    /\ comments' = Edited(j)
    /\ \/ AfterComment(j, Told(m))
       \/ MayFail("lost") /\ AfterComment(j, Failed(m, "comment"))
    /\ UNCHANGED <<tracked, clock, disturbed>>

\* Posted once.  After a time-out it is looked for again, after any other error
\* it is not.
Create(j) ==
    LET m == Attempted(j) IN
    /\ MayWrite(j) /\ job[j].existing = 0 /\ Len(comments) < MaxComments
    /\ \/ comments' = Append(comments, Posted(j)) /\ AfterComment(j, Told(Wrote(m)))
       \/ /\ MayFail("lost") /\ comments' = Append(comments, Posted(j))
          /\ \/ Keep(j, Wrote(m)) /\ Goto(j, "confirm")
             \/ AfterComment(j, Failed(Wrote(m), "comment"))
       \/ MayFail("lost") /\ Keep(j, m) /\ Goto(j, "confirm") /\ UNCHANGED comments
    /\ UNCHANGED <<tracked, clock, disturbed>>

\* The first answer is a 5xx though the comment has landed, and _request repeats.
CreateTwice(j) ==
    /\ MayFail("twice") /\ MayWrite(j) /\ job[j].existing = 0 /\ Len(comments) + 2 <= MaxComments
    /\ comments' = comments \o <<Posted(j), Posted(j)>>
    /\ AfterComment(j, Told(Wrote(Attempted(j))))
    /\ disturbed' = TRUE
    /\ UNCHANGED <<tracked, clock>>

Confirm(j) ==
    LET m == job[j]
        landed == \E n \in Ours(m) : comments[n].body = BodyOf(j) IN
    /\ pc[j] = "confirm"
    /\ \/ landed /\ AfterComment(j, Told(m))
       \/ (~landed \/ MayFail("list")) /\ AfterComment(j, Failed(m, "comment"))
    /\ UNCHANGED <<comments, tracked, clock, disturbed>>

Label(j) ==
    LET m == job[j] IN
    /\ pc[j] = "label"
    /\ \/ InTime(m) /\ ToNotify(j, [m EXCEPT !.delivered = @ \union {"label"}])
       \/ MayRunOut(m) /\ ToNotify(j, Late(m))
       \/ InTime(m) /\ MayFail("write") /\ ToNotify(j, Failed(m, "label"))
    /\ UNCHANGED <<comments, tracked, clock, disturbed>>

-----------------------------------------------------------------------------
(* The notification: _deliver_notifications, _settle_delivery_error *)

Quiet(m) == InQuietWindow(m.stamps, m.now, Window)

\* After the sends.  A delivery error is taken back when something has been
\* delivered, and added when the failed send was all there was.
Resettled(m, failed) ==
    [m EXCEPT !.suppressed =
        IF m.suppressed = "delivery_error" /\ m.delivered # {} THEN "none"
        ELSE IF failed /\ m.delivered = {} /\ m.attempted = {} /\ m.suppressed = "none"
             THEN "delivery_error"
        ELSE m.suppressed]

\* What a finished delivery leaves behind: its decisions and its report.
Done(j, m) == Keep(j, [m EXCEPT !.existing = 0, !.seen = NoBody, !.late = FALSE, !.stamps = {},
                                   !.attempted = {}, !.failed = FALSE])
              /\ Goto(j, "done")

Notify(j) ==
    LET m == job[j]
        wanted == Notifies(Ctx(m), Failure(m))
        plan(p) == [m EXCEPT !.plan = p]
        s == plan("send") IN
    /\ pc[j] = "notify"
    /\ \/ ~wanted /\ Done(j, plan("none"))
       \/ wanted /\ Quiet(m) /\ Done(j, plan("quiet"))
       \/ \* coordinate_incident may tell that another run sends
          wanted /\ ~Quiet(m) /\ PlatformPath(Ctx(m), Failure(m)) # "none" /\ Done(j, plan("joined"))
       \/ /\ wanted /\ ~Quiet(m)
          /\ \/ InTime(m) /\ Done(j, Resettled([s EXCEPT !.delivered = @ \union {"chat"}], FALSE))
             \/ InTime(m) /\ MayFail("send") /\ Done(j, Resettled([s EXCEPT !.missed = @ \union {"chat"}], TRUE))
             \/ MayRunOut(m) /\ Done(j, Resettled(s, FALSE))
    /\ UNCHANGED <<comments, tracked, clock, disturbed>>

Crash(j) ==
    /\ MayFail("crash") /\ j \in InFlight
    /\ Keep(j, [Blank(job[j].case, job[j].now) EXCEPT !.wrote = job[j].wrote])
    /\ Goto(j, "killed")
    /\ UNCHANGED <<comments, tracked, clock, disturbed>>

Tick ==
    /\ clock < MaxClock
    /\ \A j \in InFlight : clock - job[j].now < JobMax
    /\ clock' = clock + 1
    /\ UNCHANGED <<comments, tracked, pc, job, disturbed>>

Step(j) ==
    \/ Issue(j) \/ IssueTwice(j)
    \/ Lookup(j) \/ Leave(j) \/ Edit(j) \/ Create(j) \/ CreateTwice(j) \/ Confirm(j)
    \/ Label(j)
    \/ Notify(j)

Next == (\E j \in Jobs : Start(j) \/ Step(j) \/ Crash(j)) \/ Tick

Spec == Init /\ [][Next]_vars

-----------------------------------------------------------------------------
(* Properties *)

TypeOK ==
    /\ comments \in Seq(Comment) /\ Len(comments) <= MaxComments
    /\ tracked \in [Fingerprints -> SUBSET Times]
    /\ clock \in Times
    /\ pc \in [Jobs -> {"idle", "issue", "lookup", "post", "confirm", "label", "notify", "done", "killed"}]
    /\ job \in [Jobs -> [case : Cases, now : Times, late : BOOLEAN, ref : BOOLEAN,
                         stamps : SUBSET Times, existing : 0 .. MaxComments, seen : Body \union {NoBody},
                         delivered : SUBSET Writes, attempted : SUBSET {"issue", "comment"}, failed : BOOLEAN,
                         suppressed : {"none", "flaky", "infra_widespread", "infra_runner", "draft", "delivery_error"},
                         plan : {"unplanned", "none", "quiet", "joined", "send"},
                         wrote : SUBSET Landed, missed : SUBSET Writes]]
    /\ disturbed \in BOOLEAN

Key(j)      == <<Channel(job[j]), CoarseOf[Failure(job[j]).fp]>>
Comments(k) == {n \in DOMAIN comments : <<comments[n].on, comments[n].key>> = k}

\* Deliveries that do not overlap leave one comment per target and coarse
\* fingerprint, whatever fails and wherever they are cancelled (sticky.py: edit,
\* or create exactly once), unless a create has landed twice at the server.
OneComment ==
    ~disturbed =>
        \A k \in {"pr", "commit"} \X Coarse : Cardinality(Comments(k)) <= 1

\* What a delivery reports as delivered to the comment is there to be read, until
\* another delivery writes to the same target about the same coarse fingerprint:
\* no delivery overwrites the comment of another failure.
DeliveredIsThere ==
    \A j \in Jobs : pc[j] = "done" /\ "comment" \in job[j].delivered =>
        \/ \E n \in Comments(Key(j)) : comments[n].body = BodyOf(j)
        \/ \E i \in Jobs \ {j} : "comment" \in job[i].wrote /\ Key(i) = Key(j)

\* Suppression stage A5: a delivery reports an error only when some write or send
\* of it has failed and nothing at all was delivered; and whenever that is so,
\* but for a failed notification about an issue that was up to date already.
ErrorIsHonest ==
    \A j \in Jobs : pc[j] = "done" /\ StageA(job[j]) = "none" =>
        LET m == job[j]
            nothing == m.missed # {} /\ m.delivered = {} IN
        /\ m.suppressed = "delivery_error" => nothing
        /\ nothing => m.suppressed = "delivery_error" \/ (m.missed = {"chat"} /\ m.ref)

\* Of two deliveries of one fingerprint, one after the other within the quiet
\* window, only the first notifies, provided both have written the issue whose
\* updated_at tells of the first (in_quiet_window).
NotifiedOnce ==
    ~disturbed => \A p, q \in Jobs :
        /\ p # q /\ pc[p] = "done" /\ pc[q] = "done"
        /\ Failure(job[p]).fp = Failure(job[q]).fp
        /\ "issue" \in job[p].delivered \intersect job[q].delivered
        /\ job[p].plan = "send" /\ job[q].plan = "send"
        => job[q].now - job[p].now > Window \/ job[p].now - job[q].now > Window

\* Another delivery has written about the coarse fingerprint.
OtherWrote(j) == \E i \in Jobs \ {j} : /\ {"issue", "comment"} \intersect job[i].wrote # {}
                                       /\ CoarseOf[Failure(job[i]).fp] = CoarseOf[Failure(job[j]).fp]

\* A notification is held back as a repetition only when another delivery has
\* written about the same coarse fingerprint: a delivery is never quietened by
\* its own issue or comment, and the first one is told - unless its own issue
\* was created twice and it has updated the first.
QuietHasCause ==
    \A j \in Jobs : job[j].plan = "quiet" /\ "second-issue" \notin job[j].wrote => OtherWrote(j)
=============================================================================
