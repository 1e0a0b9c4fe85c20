--------------------------- MODULE DeliveryProofs ---------------------------
(***************************************************************************)
(* Proofs about Delivery: for any jobs, runs, fingerprints, cases,         *)
(* switches, faults, quiet window and bounds.                              *)
(***************************************************************************)
EXTENDS Delivery, FiniteSetTheorems, SequenceTheorems, TLAPS

Places   == {"idle", "issue", "lookup", "post", "confirm", "label", "notify", "done", "killed"}
Reports  == {"none", "flaky", "infra_widespread", "infra_runner", "draft", "delivery_error"}
Plans    == {"unplanned", "none", "quiet", "joined", "send"}
Channels == {"issue", "comment"}
Slots    == 0 .. MaxComments
JobType  == [case : Cases, now : Times, late : BOOLEAN, ref : BOOLEAN,
             stamps : SUBSET Times, existing : 0 .. MaxComments, seen : Body \union {NoBody},
             delivered : SUBSET Writes, attempted : SUBSET Channels, failed : BOOLEAN,
             suppressed : Reports, plan : Plans, wrote : SUBSET Landed, missed : SUBSET Writes]

\* What two states of a job have in common, by the part of it.
SameCase(x, m)   == x.case = m.case /\ x.now = m.now
SameView(x, m)   == (x.ref <=> m.ref) /\ x.stamps = m.stamps /\ x.existing = m.existing /\ x.seen = m.seen
SameReport(x, m) == /\ x.delivered = m.delivered /\ x.attempted = m.attempted
                    /\ (x.failed <=> m.failed) /\ x.missed = m.missed
SameEnd(x, m)    == x.suppressed = m.suppressed /\ x.plan = m.plan
SameLate(x, m)   == x.late <=> m.late

-----------------------------------------------------------------------------
(* What a step makes of what a job holds.                                  *)

LEMMA AttemptedFacts ==
    ASSUME NEW m \in JobType, NEW c \in Channels, NEW x, x = [m EXCEPT !.attempted = @ \union {c}]
    PROVE  /\ x \in JobType /\ x.attempted = m.attempted \union {c}
           /\ SameCase(x, m) /\ SameView(x, m) /\ SameEnd(x, m) /\ SameLate(x, m) /\ x.wrote = m.wrote
           /\ x.delivered = m.delivered /\ (x.failed <=> m.failed) /\ x.missed = m.missed
  BY DEF JobType, SameCase, SameView, SameEnd, SameLate

LEMMA LateFacts ==
    ASSUME NEW m \in JobType
    PROVE  \E x \in JobType :
              /\ x = Late(m) /\ x.late
              /\ SameCase(x, m) /\ SameView(x, m) /\ SameEnd(x, m) /\ SameReport(x, m) /\ x.wrote = m.wrote
  <1>1. ASSUME NEW x, x = [m EXCEPT !.late = TRUE]
        PROVE  /\ x \in JobType /\ x.late
               /\ SameCase(x, m) /\ SameView(x, m) /\ SameEnd(x, m) /\ SameReport(x, m) /\ x.wrote = m.wrote
    BY <1>1 DEF JobType, SameCase, SameView, SameEnd, SameReport
  <1> QED BY <1>1 DEF Late

LEMMA FailedFacts ==
    ASSUME NEW m \in JobType, NEW w \in Writes
    PROVE  \E x \in JobType :
              /\ x = Failed(m, w) /\ x.failed /\ x.missed = m.missed \union {w}
              /\ SameCase(x, m) /\ SameView(x, m) /\ SameEnd(x, m) /\ SameLate(x, m) /\ x.wrote = m.wrote
              /\ x.delivered = m.delivered /\ x.attempted = m.attempted
  <1>1. ASSUME NEW x, x = [m EXCEPT !.failed = TRUE, !.missed = m.missed \union {w}]
        PROVE  /\ x \in JobType /\ x.failed /\ x.missed = m.missed \union {w}
               /\ SameCase(x, m) /\ SameView(x, m) /\ SameEnd(x, m) /\ SameLate(x, m) /\ x.wrote = m.wrote
               /\ x.delivered = m.delivered /\ x.attempted = m.attempted
    BY <1>1 DEF JobType, SameCase, SameView, SameEnd, SameLate
  <1> QED BY <1>1 DEF Failed

LEMMA SyncedFacts ==
    ASSUME NEW j, NEW m \in JobType, NEW stamps \in SUBSET Times
    PROVE  \E x \in JobType :
              /\ x = Synced(j, m, stamps) /\ x.ref /\ x.stamps = m.stamps \union stamps
              /\ x.existing = m.existing /\ x.seen = m.seen
              /\ SameCase(x, m) /\ SameEnd(x, m) /\ SameReport(x, m) /\ SameLate(x, m) /\ x.wrote = m.wrote
  <1>1. ASSUME NEW x, x = [m EXCEPT !.ref = TRUE, !.stamps = m.stamps \union stamps]
        PROVE  /\ x \in JobType /\ x.ref /\ x.stamps = m.stamps \union stamps
               /\ x.existing = m.existing /\ x.seen = m.seen
               /\ SameCase(x, m) /\ SameEnd(x, m) /\ SameReport(x, m) /\ SameLate(x, m) /\ x.wrote = m.wrote
    BY <1>1 DEF JobType, SameCase, SameEnd, SameReport, SameLate
  <1> QED BY <1>1 DEF Synced

LEMMA ToldFacts ==
    ASSUME NEW m \in JobType
    PROVE  \E x \in JobType :
              /\ x = Told(m) /\ x.delivered = m.delivered \union {"comment"}
              /\ SameCase(x, m) /\ SameView(x, m) /\ SameEnd(x, m) /\ SameLate(x, m) /\ x.wrote = m.wrote
              /\ x.attempted = m.attempted /\ (x.failed <=> m.failed) /\ x.missed = m.missed
  <1>1. ASSUME NEW x, x = [m EXCEPT !.delivered = m.delivered \union {"comment"}]
        PROVE  /\ x \in JobType /\ x.delivered = m.delivered \union {"comment"}
               /\ SameCase(x, m) /\ SameView(x, m) /\ SameEnd(x, m) /\ SameLate(x, m) /\ x.wrote = m.wrote
               /\ x.attempted = m.attempted /\ (x.failed <=> m.failed) /\ x.missed = m.missed
    BY <1>1 DEF JobType, Writes, SameCase, SameView, SameEnd, SameLate
  <1> QED BY <1>1 DEF Told

LEMMA WroteFacts ==
    ASSUME NEW m \in JobType
    PROVE  \E x \in JobType :
              /\ x = Wrote(m) /\ x.wrote = m.wrote \union {"comment"}
              /\ SameCase(x, m) /\ SameView(x, m) /\ SameEnd(x, m) /\ SameLate(x, m) /\ SameReport(x, m)
  <1>1. ASSUME NEW x, x = [m EXCEPT !.wrote = m.wrote \union {"comment"}]
        PROVE  /\ x \in JobType /\ x.wrote = m.wrote \union {"comment"}
               /\ SameCase(x, m) /\ SameView(x, m) /\ SameEnd(x, m) /\ SameLate(x, m) /\ SameReport(x, m)
    BY <1>1 DEF JobType, Landed, SameCase, SameView, SameEnd, SameLate, SameReport
  <1> QED BY <1>1 DEF Wrote

LEMMA IssueDoneFacts ==
    ASSUME NEW m \in JobType, NEW x,
           x = [m EXCEPT !.delivered = @ \union {"issue"}, !.wrote = @ \union {"issue"}]
    PROVE  /\ x \in JobType /\ x.delivered = m.delivered \union {"issue"} /\ x.wrote = m.wrote \union {"issue"}
           /\ SameCase(x, m) /\ SameView(x, m) /\ SameEnd(x, m) /\ SameLate(x, m)
           /\ x.attempted = m.attempted /\ (x.failed <=> m.failed) /\ x.missed = m.missed
  BY DEF JobType, Writes, Landed, SameCase, SameView, SameEnd, SameLate

LEMMA IssueLandedFacts ==
    ASSUME NEW m \in JobType, NEW x, x = [m EXCEPT !.wrote = @ \union {"issue"}]
    PROVE  /\ x \in JobType /\ x.wrote = m.wrote \union {"issue"}
           /\ SameCase(x, m) /\ SameView(x, m) /\ SameEnd(x, m) /\ SameLate(x, m) /\ SameReport(x, m)
  BY DEF JobType, Landed, SameCase, SameView, SameEnd, SameLate, SameReport

LEMMA IssueTwiceFacts ==
    ASSUME NEW m \in JobType, NEW x,
           x = [m EXCEPT !.attempted = @ \union {"issue"}, !.delivered = @ \union {"issue"},
                         !.wrote = @ \union {"issue", "second-issue"}]
    PROVE  /\ x \in JobType /\ x.delivered = m.delivered \union {"issue"}
           /\ x.wrote = m.wrote \union {"issue", "second-issue"}
           /\ SameCase(x, m) /\ SameView(x, m) /\ SameEnd(x, m) /\ SameLate(x, m)
           /\ (x.failed <=> m.failed) /\ x.missed = m.missed
  BY DEF JobType, Writes, Channels, Landed, SameCase, SameView, SameEnd, SameLate

Found(m, n, body, t) == [m EXCEPT !.existing = n, !.seen = body, !.stamps = @ \union {t}]

LEMMA FoundFacts ==
    ASSUME NEW m \in JobType, NEW n \in Slots, NEW body \in Body, NEW t \in Times
    PROVE  \E x \in JobType :
              /\ x = Found(m, n, body, t)
              /\ x.existing = n /\ x.seen = body /\ x.stamps = m.stamps \union {t}
              /\ (x.ref <=> m.ref) /\ x.wrote = m.wrote
              /\ SameCase(x, m) /\ SameEnd(x, m) /\ SameLate(x, m) /\ SameReport(x, m)
  <1>1. ASSUME NEW x, x = [m EXCEPT !.existing = n, !.seen = body, !.stamps = m.stamps \union {t}]
        PROVE  /\ x \in JobType /\ x.existing = n /\ x.seen = body /\ x.stamps = m.stamps \union {t}
               /\ (x.ref <=> m.ref) /\ x.wrote = m.wrote
               /\ SameCase(x, m) /\ SameEnd(x, m) /\ SameLate(x, m) /\ SameReport(x, m)
    BY <1>1 DEF JobType, Slots, SameCase, SameEnd, SameLate, SameReport
  <1> QED BY <1>1 DEF Found

Sent(m, w) == [m EXCEPT !.delivered = @ \union {w}]

LEMMA DeliveredFacts ==
    ASSUME NEW m \in JobType, NEW w \in Writes
    PROVE  \E x \in JobType :
              /\ x = Sent(m, w)
              /\ x.delivered = m.delivered \union {w} /\ x.wrote = m.wrote
              /\ SameCase(x, m) /\ SameView(x, m) /\ SameEnd(x, m) /\ SameLate(x, m)
              /\ x.attempted = m.attempted /\ (x.failed <=> m.failed) /\ x.missed = m.missed
  <1>1. ASSUME NEW x, x = [m EXCEPT !.delivered = @ \union {w}]
        PROVE  /\ x \in JobType
               /\ x.delivered = m.delivered \union {w} /\ x.wrote = m.wrote
               /\ SameCase(x, m) /\ SameView(x, m) /\ SameEnd(x, m) /\ SameLate(x, m)
               /\ x.attempted = m.attempted /\ (x.failed <=> m.failed) /\ x.missed = m.missed
    BY <1>1 DEF JobType, SameCase, SameView, SameEnd, SameLate
  <1> QED BY <1>1 DEF Sent

Missed(m, w) == [m EXCEPT !.missed = @ \union {w}]

LEMMA MissedFacts ==
    ASSUME NEW m \in JobType, NEW w \in Writes
    PROVE  \E x \in JobType :
              /\ x = Missed(m, w)
              /\ x.missed = m.missed \union {w} /\ x.wrote = m.wrote
              /\ SameCase(x, m) /\ SameView(x, m) /\ SameEnd(x, m) /\ SameLate(x, m)
              /\ x.attempted = m.attempted /\ (x.failed <=> m.failed) /\ x.delivered = m.delivered
  <1>1. ASSUME NEW x, x = [m EXCEPT !.missed = @ \union {w}]
        PROVE  /\ x \in JobType
               /\ x.missed = m.missed \union {w} /\ x.wrote = m.wrote
               /\ SameCase(x, m) /\ SameView(x, m) /\ SameEnd(x, m) /\ SameLate(x, m)
               /\ x.attempted = m.attempted /\ (x.failed <=> m.failed) /\ x.delivered = m.delivered
    BY <1>1 DEF JobType, SameCase, SameView, SameEnd, SameLate
  <1> QED BY <1>1 DEF Missed

Planned(m, p) == [m EXCEPT !.plan = p]

LEMMA PlannedFacts ==
    ASSUME NEW m \in JobType, NEW p \in Plans
    PROVE  \E x \in JobType :
              /\ x = Planned(m, p)
              /\ x.plan = p /\ x.suppressed = m.suppressed /\ x.wrote = m.wrote
              /\ SameCase(x, m) /\ SameView(x, m) /\ SameReport(x, m) /\ SameLate(x, m)
  <1>1. ASSUME NEW x, x = [m EXCEPT !.plan = p]
        PROVE  /\ x \in JobType
               /\ x.plan = p /\ x.suppressed = m.suppressed /\ x.wrote = m.wrote
               /\ SameCase(x, m) /\ SameView(x, m) /\ SameReport(x, m) /\ SameLate(x, m)
    BY <1>1 DEF JobType, SameCase, SameView, SameReport, SameLate
  <1> QED BY <1>1 DEF Planned

LEMMA SuppressedFacts ==
    ASSUME NEW m \in JobType, NEW r \in Reports, NEW x, x = [m EXCEPT !.suppressed = r]
    PROVE  /\ x \in JobType /\ x.suppressed = r /\ x.plan = m.plan /\ x.wrote = m.wrote
           /\ SameCase(x, m) /\ SameView(x, m) /\ SameReport(x, m) /\ SameLate(x, m)
  BY DEF JobType, SameCase, SameView, SameReport, SameLate

Cleared(m) == m.stamps = {} /\ m.existing = 0
Wiped(m) == [m EXCEPT !.existing = 0, !.seen = NoBody, !.late = FALSE, !.stamps = {},
                      !.attempted = {}, !.failed = FALSE]

LEMMA DoneFacts ==
    ASSUME NEW m \in JobType
    PROVE  \E x \in JobType :
              /\ x = Wiped(m) /\ Cleared(x) /\ x.wrote = m.wrote
              /\ x.delivered = m.delivered /\ x.missed = m.missed /\ (x.ref <=> m.ref)
              /\ SameCase(x, m) /\ SameEnd(x, m)
  <1>1. /\ NoBody \in Body \union {NoBody} /\ 0 \in 0 .. MaxComments
        /\ {} \in SUBSET Times /\ {} \in SUBSET Channels
    BY TickAssumption
  <1> DEFINE none == NoBody
             seens == Body \union {none}
             place == 0 .. MaxComments
             times == SUBSET Times
  <1>2. none \in seens /\ 0 \in place /\ {} \in times
    BY <1>1
  <1>3. JobType = [case : Cases, now : Times, late : BOOLEAN, ref : BOOLEAN,
             stamps : times, existing : place, seen : seens,
             delivered : SUBSET Writes, attempted : SUBSET Channels, failed : BOOLEAN,
             suppressed : Reports, plan : Plans, wrote : SUBSET Landed, missed : SUBSET Writes]
    BY DEF JobType
  <1> HIDE DEF none, seens, place, times
  <1>4. ASSUME NEW x, x = [m EXCEPT !.existing = 0, !.seen = none, !.late = FALSE, !.stamps = {},
                                    !.attempted = {}, !.failed = FALSE]
        PROVE  /\ x \in JobType /\ Cleared(x) /\ x.wrote = m.wrote
               /\ x.delivered = m.delivered /\ x.missed = m.missed /\ (x.ref <=> m.ref)
               /\ SameCase(x, m) /\ SameEnd(x, m)
    BY <1>2, <1>3, <1>4 DEF SameCase, SameEnd, Cleared
  <1> QED BY <1>4 DEF Wiped, none

-----------------------------------------------------------------------------
(* The decisions.                                                          *)

LEMMA ReportTypes == \A m : StageA(m) \in Reports \ {"delivery_error"}
  BY DEF StageA, SuppressedBy, Reports

LEMMA ChannelTypes == \A m : Channel(m) \in {"pr", "commit", "none"}
  <1>1. \A ctx : Route(ctx).comment \in {"pr", "commit", "none"}
    BY DEF Route
  <1> QED BY <1>1 DEF Channel, CommentChannel

\* Suppressed failures are labelled, and nothing else.
LEMMA LabelIsSuppressed == \A m : AddFlakyLabel(Ctx(m), Failure(m)) => StageA(m) # "none"
  BY DEF AddFlakyLabel, StageA

LEMMA CaseFacts ==
    ASSUME NEW m \in JobType
    PROVE  Failure(m).fp \in Fingerprints /\ CoarseOf[Failure(m).fp] \in Coarse /\ m.case.run \in Runs
  <1>1. m.case \in Cases
    BY DEF JobType
  <1>2. m.case.failure \in Failures(Fingerprints) /\ m.case.run \in Runs
    BY <1>1, CaseAssumption
  <1>3. m.case.failure.fp \in Fingerprints
    BY <1>2 DEF Failures
  <1> QED BY <1>2, <1>3 DEF Failure, Coarse

LEMMA SettledFacts ==
    ASSUME NEW m \in JobType
    PROVE  \E x \in JobType :
              /\ x = Settled(m)
              /\ x.suppressed = IF StageA(m) # "none" THEN StageA(m)
                                ELSE IF m.failed /\ m.delivered = {} THEN "delivery_error" ELSE "none"
              /\ x.plan = m.plan /\ x.wrote = m.wrote
              /\ SameCase(x, m) /\ SameView(x, m) /\ SameReport(x, m) /\ SameLate(x, m)
  <1> DEFINE r == IF StageA(m) # "none" THEN StageA(m)
                  ELSE IF m.failed /\ m.delivered = {} THEN "delivery_error" ELSE "none"
  <1>1. r \in Reports
    BY ReportTypes DEF Reports
  <1>2. Settled(m) = [m EXCEPT !.suppressed = r]
    BY DEF Settled
  <1> HIDE DEF r
  <1>3. ASSUME NEW x, x = [m EXCEPT !.suppressed = r]
        PROVE  /\ x \in JobType /\ x.suppressed = r /\ x.plan = m.plan /\ x.wrote = m.wrote
               /\ SameCase(x, m) /\ SameView(x, m) /\ SameReport(x, m) /\ SameLate(x, m)
    BY <1>1, <1>3, SuppressedFacts
  <1>4. \E x \in JobType : /\ x = Settled(m) /\ x.suppressed = r /\ x.plan = m.plan /\ x.wrote = m.wrote
                           /\ SameCase(x, m) /\ SameView(x, m) /\ SameReport(x, m) /\ SameLate(x, m)
    BY <1>2, <1>3
  <1> QED BY <1>4 DEF r

-----------------------------------------------------------------------------
(* The inductive invariant.                                                *)

KeyOf(m)   == <<Channel(m), CoarseOf[Failure(m).fp]>>
BodyIn(m)  == [run |-> m.case.run, tracked |-> m.ref]
KeyAt(c, n) == <<c[n].on, c[n].key>>
Settlement(m) == IF StageA(m) # "none" THEN StageA(m)
                 ELSE IF m.missed # {} /\ m.delivered = {} THEN "delivery_error" ELSE "none"

\* Another job has written about the coarse fingerprint, or to the target.
OtherWroteAbout(j, fp) ==
    \E i \in Jobs \ {j} : /\ {"issue", "comment"} \intersect job[i].wrote # {}
                          /\ CoarseOf[Failure(job[i]).fp] = CoarseOf[fp]
OtherWroteTo(j, k) == \E i \in Jobs \ {j} : "comment" \in job[i].wrote /\ KeyOf(job[i]) = k

\* What a finished delivery says of its errors.
Honest(m) ==
    /\ m.suppressed = "delivery_error" => m.missed # {} /\ m.delivered = {}
    /\ (m.missed # {} /\ m.delivered = {}) =>
          m.suppressed = "delivery_error" \/ (m.missed = {"chat"} /\ m.ref)

\* What a job holds at a place, whatever the others do.
Fresh(m)  == /\ m.wrote = {} /\ m.delivered = {} /\ m.missed = {} /\ m.attempted = {} /\ m.stamps = {}
             /\ ~m.failed /\ m.existing = 0
Local(m, at) ==
    /\ at \in {"idle", "issue"} => Fresh(m)
    /\ at \in {"lookup", "post", "confirm"} =>
          "comment" \notin m.delivered /\ StageA(m) = "none" /\ Channel(m) # "none"
    /\ at \in {"lookup", "post"} => "comment" \notin m.wrote
    /\ at = "lookup" => m.existing = 0
    /\ at \notin {"done", "killed"} => /\ m.failed <=> m.missed # {}
                                      /\ "chat" \notin m.missed
                                      /\ m.plan = "unplanned"
    /\ at \in {"lookup", "post", "notify"} =>
          (StageA(m) = "none" /\ m.attempted # {} => m.delivered # {} \/ m.missed # {} \/ m.ref \/ m.late)
    /\ at = "label" => StageA(m) # "none"
    /\ at = "notify" => m.suppressed = Settlement(m)
    /\ at = "killed" => m.delivered = {} /\ m.plan = "unplanned" /\ Cleared(m)
    /\ at = "done" => Cleared(m) /\ (StageA(m) = "none" => Honest(m))

\* What a job has seen of the others, and what it says is there.
Caused(j, m) == (m.stamps # {} \/ m.plan = "quiet") /\ "second-issue" \notin m.wrote =>
                    OtherWroteAbout(j, Failure(m).fp)
Saw(j, m, c) ==
    m.existing # 0 =>
        /\ m.existing \in DOMAIN c /\ KeyAt(c, m.existing) = KeyOf(m)
        /\ c[m.existing].body = m.seen \/ OtherWroteTo(j, KeyOf(m))
There(j, m, c) ==
    "comment" \in m.delivered =>
        \/ \E n \in DOMAIN c : KeyAt(c, n) = KeyOf(m) /\ c[n].body = BodyIn(m)
        \/ OtherWroteTo(j, KeyOf(m))

JobOK(j) == /\ Local(job[j], pc[j]) /\ job[j].now <= clock
            /\ Caused(j, job[j]) /\ Saw(j, job[j], comments) /\ There(j, job[j], comments)

\* Every comment and every stamp is some job's.
CommentsOK == \A n \in DOMAIN comments :
                 \E i \in Jobs : "comment" \in job[i].wrote /\ KeyOf(job[i]) = KeyAt(comments, n)
TrackedOK  == \A fp \in Fingerprints :
                 /\ \A t \in tracked[fp] : t <= clock
                 /\ tracked[fp] # {} => \E i \in Jobs : "issue" \in job[i].wrote /\ Failure(job[i]).fp = fp

\* While no two jobs have been in flight at a time and no comment has landed
\* twice.
NoneFor(m, c) == \A n \in DOMAIN c : KeyAt(c, n) # KeyOf(m)
Stamped(m, T) == "issue" \in m.delivered => T[Failure(m).fp] # {} /\ \A t \in T[Failure(m).fp] : m.now <= t
BothWrote(m, p) == /\ "issue" \in m.delivered /\ "issue" \in job[p].delivered
                   /\ pc[p] = "done" /\ Failure(job[p]).fp = Failure(m).fp
Informed(j, m) == \A p \in Jobs \ {j} : BothWrote(m, p) => \E t \in m.stamps : job[p].now <= t /\ t <= m.now
Spaced(j, m)   == \A p \in Jobs \ {j} : (BothWrote(m, p) /\ m.plan = "send" /\ job[p].plan = "send") =>
                     m.now - job[p].now > Window \/ job[p].now - m.now > Window

JobCalm(j) ==
    /\ (pc[j] = "post" /\ job[j].existing = 0) => NoneFor(job[j], comments)
    /\ pc[j] = "issue" => \A t \in tracked[Failure(job[j]).fp] : t <= job[j].now
    /\ Stamped(job[j], tracked)
    /\ j \in InFlight => Informed(j, job[j])
    /\ pc[j] = "done" => Spaced(j, job[j])

Calm == /\ \A i, j \in InFlight : i = j
        /\ \A n, o \in DOMAIN comments : KeyAt(comments, n) = KeyAt(comments, o) => n = o
        /\ \A j \in Jobs : JobCalm(j)

IInv == /\ TypeOK
        /\ \A j \in Jobs : JobOK(j)
        /\ CommentsOK /\ TrackedOK
        /\ ~disturbed => Calm

-----------------------------------------------------------------------------
(* One step of one job: what the rest of the invariant needs of it.        *)

\* Comments stay where they are, and a job that has written a comment may have
\* replaced the text of one of its target, or appended.
CommentsGrow(x, c, d) ==
    /\ d \in Seq(Comment) /\ Len(d) <= MaxComments
    /\ \A n \in DOMAIN c :
          /\ n \in DOMAIN d /\ KeyAt(d, n) = KeyAt(c, n)
          /\ d[n].body = c[n].body \/ ("comment" \in x.wrote /\ KeyOf(x) = KeyAt(c, n))
    /\ \A n \in DOMAIN d : n \in DOMAIN c \/ ("comment" \in x.wrote /\ KeyOf(x) = KeyAt(d, n))

TrackedGrows(x, T, U) ==
    /\ U \in [Fingerprints -> SUBSET Times]
    /\ \A fp \in Fingerprints :
          U[fp] = T[fp] \/ (fp = Failure(x).fp /\ U[fp] = {clock} /\ "issue" \in x.wrote)

CalmStep(j, x, at, c, d, U) ==
    /\ InFlight \subseteq {j}
    /\ \/ \A n \in DOMAIN d : n \in DOMAIN c
       \/ NoneFor(x, c) /\ \A n, o \in DOMAIN d : (n \notin DOMAIN c /\ o \notin DOMAIN c) => n = o
    /\ (at = "post" /\ x.existing = 0) => NoneFor(x, d)
    /\ at = "issue" => \A t \in U[Failure(x).fp] : t <= x.now
    /\ Stamped(x, U)
    /\ at \notin {"idle", "done", "killed"} => Informed(j, x)
    /\ at = "done" => Spaced(j, x)

LEMMA TypeFacts ==
    ASSUME TypeOK
    PROVE  /\ comments \in Seq(Comment) /\ Len(comments) <= MaxComments
           /\ tracked \in [Fingerprints -> SUBSET Times]
           /\ clock \in Times /\ clock \in Nat
           /\ pc \in [Jobs -> Places] /\ job \in [Jobs -> JobType]
           /\ disturbed \in BOOLEAN
  BY TickAssumption DEF TypeOK, Places, JobType, Reports, Plans, Channels, Landed, Times

LEMMA SameCaseFacts ==
    ASSUME NEW x, NEW m, SameCase(x, m)
    PROVE  KeyOf(x) = KeyOf(m) /\ Failure(x) = Failure(m) /\ StageA(x) = StageA(m)
           /\ Channel(x) = Channel(m) /\ Ctx(x) = Ctx(m)
  BY DEF SameCase, KeyOf, Failure, StageA, Channel, Ctx

\* What another job has written stays written.
LEMMA WritesStay ==
    ASSUME TypeOK, NEW j \in Jobs, NEW x \in JobType,
           job' = [job EXCEPT ![j] = x],
           job[j].wrote = {} \/ SameCase(x, job[j]), job[j].wrote \subseteq x.wrote
    PROVE  /\ \A i \in Jobs : \A fp : OtherWroteAbout(i, fp) => OtherWroteAbout(i, fp)'
           /\ \A i \in Jobs : \A k : OtherWroteTo(i, k) => OtherWroteTo(i, k)'
           /\ \A w \in Jobs : job[w].wrote # {} =>
                 /\ job[w].wrote \subseteq job'[w].wrote
                 /\ KeyOf(job'[w]) = KeyOf(job[w]) /\ Failure(job'[w]) = Failure(job[w])
  <1>1. ASSUME NEW w \in Jobs, job[w].wrote # {}
        PROVE  /\ job[w].wrote \subseteq job'[w].wrote
               /\ KeyOf(job'[w]) = KeyOf(job[w]) /\ Failure(job'[w]) = Failure(job[w])
    <2>1. CASE w = j
      <3>1. job'[w] = x
        BY <2>1, TypeFacts
      <3> QED BY <1>1, <2>1, <3>1, SameCaseFacts
    <2>2. CASE w # j
      <3>1. job'[w] = job[w]
        BY <2>2, TypeFacts
      <3> QED BY <3>1
    <2> QED BY <2>1, <2>2
  <1>2. ASSUME NEW i \in Jobs, NEW fp, OtherWroteAbout(i, fp) PROVE OtherWroteAbout(i, fp)'
    <2>1. PICK w \in Jobs \ {i} : /\ {"issue", "comment"} \intersect job[w].wrote # {}
                                  /\ CoarseOf[Failure(job[w]).fp] = CoarseOf[fp]
      BY <1>2 DEF OtherWroteAbout
    <2>2. job[w].wrote # {}
      BY <2>1
    <2>3. /\ {"issue", "comment"} \intersect job'[w].wrote # {}
          /\ CoarseOf[Failure(job'[w]).fp] = CoarseOf[fp]
      BY <2>1, <2>2, <1>1
    <2> QED BY <2>1, <2>3 DEF OtherWroteAbout, Failure
  <1>3. ASSUME NEW i \in Jobs, NEW k, OtherWroteTo(i, k) PROVE OtherWroteTo(i, k)'
    <2>1. PICK w \in Jobs \ {i} : "comment" \in job[w].wrote /\ KeyOf(job[w]) = k
      BY <1>3 DEF OtherWroteTo
    <2>2. job[w].wrote # {}
      BY <2>1
    <2>3. "comment" \in job'[w].wrote /\ KeyOf(job'[w]) = k
      BY <2>1, <2>2, <1>1
    <2> QED BY <2>1, <2>3 DEF OtherWroteTo, KeyOf, Channel, Ctx, Failure
  <1> QED BY <1>1, <1>2, <1>3

\* What the others have seen and said is as true as it was.
LEMMA OthersKeep ==
    ASSUME IInv, NEW j \in Jobs, NEW x \in JobType, NEW at \in Places,
           job' = [job EXCEPT ![j] = x], pc' = [pc EXCEPT ![j] = at], clock' = clock,
           job[j].wrote = {} \/ SameCase(x, job[j]), job[j].wrote \subseteq x.wrote,
           CommentsGrow(x, comments, comments'),
           NEW i \in Jobs, i # j
    PROVE  JobOK(i)'
  <1> DEFINE m == job[i]
  <1>1. job'[i] = m /\ pc'[i] = pc[i] /\ job'[j] = x
    BY TypeFacts DEF IInv
  <1>2. /\ Local(m, pc[i]) /\ m.now <= clock
        /\ Caused(i, m) /\ Saw(i, m, comments) /\ There(i, m, comments)
    BY DEF IInv, JobOK
  <1>4. \A k : "comment" \in x.wrote /\ KeyOf(x) = k => OtherWroteTo(i, k)'
    BY <1>1 DEF OtherWroteTo, KeyOf, Channel, Ctx, Failure
  <1>5. PICK k : k = KeyOf(m)
    OBVIOUS
  <1>6. PICK f : f = Failure(m).fp
    OBVIOUS
  <1>3. /\ OtherWroteAbout(i, f) => OtherWroteAbout(i, f)'
        /\ OtherWroteTo(i, k) => OtherWroteTo(i, k)'
    BY WritesStay DEF IInv
  <1>7. PICK said : said = BodyIn(m)
    OBVIOUS
  <1>8. (m.stamps # {} \/ m.plan = "quiet") /\ "second-issue" \notin m.wrote => OtherWroteAbout(i, f)'
    BY <1>2, <1>3, <1>6 DEF Caused
  <1>9. m.existing # 0 =>
            /\ m.existing \in DOMAIN comments' /\ KeyAt(comments', m.existing) = k
            /\ comments'[m.existing].body = m.seen \/ OtherWroteTo(i, k)'
    <2> SUFFICES ASSUME m.existing # 0
                 PROVE  /\ m.existing \in DOMAIN comments' /\ KeyAt(comments', m.existing) = k
                        /\ comments'[m.existing].body = m.seen \/ OtherWroteTo(i, k)'
      OBVIOUS
    <2> DEFINE n == m.existing
    <2>1. /\ n \in DOMAIN comments /\ KeyAt(comments, n) = k
          /\ comments[n].body = m.seen \/ OtherWroteTo(i, k)
      BY <1>2, <1>5 DEF Saw
    <2> HIDE DEF n
    <2>2. /\ n \in DOMAIN comments' /\ KeyAt(comments', n) = k
          /\ comments'[n].body = comments[n].body \/ ("comment" \in x.wrote /\ KeyOf(x) = k)
      BY <2>1 DEF CommentsGrow
    <2>3. comments'[n].body = m.seen \/ OtherWroteTo(i, k)'
      BY <1>3, <1>4, <1>5, <2>1, <2>2
    <2> QED BY <2>2, <2>3 DEF n
  <1>10. "comment" \in m.delivered =>
            \/ \E n \in DOMAIN comments' : KeyAt(comments', n) = k /\ comments'[n].body = said
            \/ OtherWroteTo(i, k)'
    <2> SUFFICES ASSUME "comment" \in m.delivered, ~OtherWroteTo(i, k)'
                 PROVE  \E n \in DOMAIN comments' : KeyAt(comments', n) = k /\ comments'[n].body = said
      OBVIOUS
    <2>1. ~OtherWroteTo(i, k)
      BY <1>3, <1>5
    <2>2. PICK n \in DOMAIN comments : KeyAt(comments, n) = k /\ comments[n].body = said
      BY <1>2, <1>5, <1>7, <2>1 DEF There
    <2>3. /\ n \in DOMAIN comments' /\ KeyAt(comments', n) = k
          /\ comments'[n].body = comments[n].body \/ ("comment" \in x.wrote /\ KeyOf(x) = k)
      BY <2>2 DEF CommentsGrow
    <2> QED BY <1>4, <2>2, <2>3
  <1> HIDE DEF m
  <1>11. k = KeyOf(job'[i]) /\ f = Failure(job'[i]).fp /\ said = BodyIn(job'[i])
    BY <1>1, <1>5, <1>6, <1>7
  <1>12. Local(job[i], pc[i])' /\ (job[i].now <= clock)'
    BY <1>1, <1>2 DEF Local, Fresh, Cleared, StageA, Channel, Settlement, Honest, Ctx, Failure
  <1>13. Caused(i, job[i])'
    BY <1>1, <1>8, <1>11 DEF Caused, OtherWroteAbout, Failure
  <1>14. Saw(i, job[i], comments)'
    BY <1>1, <1>9, <1>11 DEF Saw, KeyOf, KeyAt, Failure, Channel, Ctx
  <1>15. There(i, job[i], comments)'
    BY <1>1, <1>10, <1>11 DEF There, KeyOf, KeyAt, BodyIn, Failure, Channel, Ctx
  <1> QED BY <1>12, <1>13, <1>14, <1>15 DEF JobOK

LEMMA OwnKeeps ==
    ASSUME IInv, NEW j \in Jobs, NEW x \in JobType, NEW at \in Places,
           job' = [job EXCEPT ![j] = x], pc' = [pc EXCEPT ![j] = at], clock' = clock,
           x.now <= clock, Local(x, at),
           Caused(j, x), Saw(j, x, comments'), There(j, x, comments')
    PROVE  JobOK(j)'
  <1>1. job'[j] = x /\ pc'[j] = at /\ \A i \in Jobs \ {j} : job'[i] = job[i]
    BY TypeFacts DEF IInv
  <1>2. PICK k, f, said : k = KeyOf(x) /\ f = Failure(x).fp /\ said = BodyIn(x)
    OBVIOUS
  <1>3. OtherWroteAbout(j, f) => OtherWroteAbout(j, f)'
    BY <1>1 DEF OtherWroteAbout, Failure
  <1>4. OtherWroteTo(j, k) => OtherWroteTo(j, k)'
    BY <1>1 DEF OtherWroteTo, KeyOf, Channel, Ctx, Failure
  <1>5. (x.stamps # {} \/ x.plan = "quiet") /\ "second-issue" \notin x.wrote => OtherWroteAbout(j, f)'
    BY <1>2, <1>3 DEF Caused
  <1>6. x.existing # 0 =>
            /\ x.existing \in DOMAIN comments' /\ KeyAt(comments', x.existing) = k
            /\ comments'[x.existing].body = x.seen \/ OtherWroteTo(j, k)'
    BY <1>2, <1>4 DEF Saw
  <1>7. "comment" \in x.delivered =>
            \/ \E n \in DOMAIN comments' : KeyAt(comments', n) = k /\ comments'[n].body = said
            \/ OtherWroteTo(j, k)'
    BY <1>2, <1>4 DEF There
  <1>8. k = KeyOf(job'[j]) /\ f = Failure(job'[j]).fp /\ said = BodyIn(job'[j])
    BY <1>1, <1>2
  <1>9. Local(job[j], pc[j])' /\ (job[j].now <= clock)'
    BY <1>1 DEF Local, Fresh, Cleared, StageA, Channel, Settlement, Honest, Ctx, Failure
  <1>10. Caused(j, job[j])'
    BY <1>1, <1>5, <1>8 DEF Caused, OtherWroteAbout, Failure
  <1>11. Saw(j, job[j], comments)'
    BY <1>1, <1>6, <1>8 DEF Saw, KeyOf, KeyAt, Failure, Channel, Ctx
  <1>12. There(j, job[j], comments)'
    BY <1>1, <1>7, <1>8 DEF There, KeyOf, KeyAt, BodyIn, Failure, Channel, Ctx
  <1> QED BY <1>9, <1>10, <1>11, <1>12 DEF JobOK

LEMMA HistoryKeeps ==
    ASSUME IInv, NEW j \in Jobs, NEW x \in JobType,
           job' = [job EXCEPT ![j] = x], clock' = clock,
           job[j].wrote = {} \/ SameCase(x, job[j]), job[j].wrote \subseteq x.wrote,
           CommentsGrow(x, comments, comments'), TrackedGrows(x, tracked, tracked')
    PROVE  CommentsOK' /\ TrackedOK'
  <1>1. job'[j] = x /\ clock \in Nat
    BY TypeFacts DEF IInv
  <1>2. \A w \in Jobs : job[w].wrote # {} =>
           /\ job[w].wrote \subseteq job'[w].wrote
           /\ KeyOf(job'[w]) = KeyOf(job[w]) /\ Failure(job'[w]) = Failure(job[w])
    BY WritesStay DEF IInv
  <1>3. ASSUME NEW n \in DOMAIN comments'
        PROVE  \E i \in Jobs : "comment" \in job'[i].wrote /\ KeyOf(job'[i]) = KeyAt(comments', n)
    <2>1. CASE n \in DOMAIN comments
      <3>1. PICK i \in Jobs : "comment" \in job[i].wrote /\ KeyOf(job[i]) = KeyAt(comments, n)
        BY <2>1 DEF IInv, CommentsOK
      <3>2. KeyAt(comments', n) = KeyAt(comments, n)
        BY <2>1 DEF CommentsGrow
      <3>3. job[i].wrote # {}
        BY <3>1
      <3> QED BY <1>2, <3>1, <3>2, <3>3
    <2>2. CASE n \notin DOMAIN comments
      <3>1. "comment" \in x.wrote /\ KeyOf(x) = KeyAt(comments', n)
        BY <1>3, <2>2 DEF CommentsGrow
      <3> QED BY <1>1, <3>1
    <2> QED BY <2>1, <2>2
  <1>4. CommentsOK'
    BY <1>3 DEF CommentsOK, KeyOf, KeyAt, Channel, Ctx, Failure
  <1>5. ASSUME NEW fp \in Fingerprints
        PROVE  /\ \A t \in tracked'[fp] : t <= clock'
               /\ tracked'[fp] # {} => \E i \in Jobs : "issue" \in job'[i].wrote /\ Failure(job'[i]).fp = fp
    <2>1. CASE tracked'[fp] = tracked[fp]
      <3>1. \A t \in tracked'[fp] : t <= clock'
        BY <2>1 DEF IInv, TrackedOK
      <3>2. ASSUME tracked'[fp] # {}
            PROVE  \E i \in Jobs : "issue" \in job'[i].wrote /\ Failure(job'[i]).fp = fp
        <4>1. PICK i \in Jobs : "issue" \in job[i].wrote /\ Failure(job[i]).fp = fp
          BY <2>1, <3>2 DEF IInv, TrackedOK
        <4>2. job[i].wrote # {}
          BY <4>1
        <4> QED BY <1>2, <4>1, <4>2
      <3> QED BY <3>1, <3>2
    <2>2. CASE fp = Failure(x).fp /\ tracked'[fp] = {clock} /\ "issue" \in x.wrote
      BY <1>1, <2>2
    <2> QED BY <2>1, <2>2 DEF TrackedGrows
  <1>6. TrackedOK'
    BY <1>5 DEF TrackedOK, Failure
  <1> QED BY <1>4, <1>6

LEMMA CalmKeeps ==
    ASSUME IInv, ~disturbed, NEW j \in Jobs, NEW x \in JobType, NEW at \in Places,
           job' = [job EXCEPT ![j] = x], pc' = [pc EXCEPT ![j] = at], clock' = clock,
           CommentsGrow(x, comments, comments'), TrackedGrows(x, tracked, tracked'),
           CalmStep(j, x, at, comments, comments', tracked')
    PROVE  Calm'
  <1>1. /\ job'[j] = x /\ pc'[j] = at
        /\ \A i \in Jobs \ {j} : job'[i] = job[i] /\ pc'[i] = pc[i] /\ pc[i] \in {"idle", "done", "killed"}
    BY TypeFacts DEF IInv, CalmStep, InFlight
  <1>2. Calm /\ clock \in Nat /\ \A i \in Jobs : job[i].now <= clock /\ job[i] \in JobType
    BY TypeFacts DEF IInv, JobOK
  <1>3. \A i \in InFlight' : i = j
    BY <1>1 DEF InFlight
  <1>4. ASSUME NEW n \in DOMAIN comments', NEW o \in DOMAIN comments', KeyAt(comments', n) = KeyAt(comments', o)
        PROVE  n = o
    <2>1. CASE n \in DOMAIN comments /\ o \in DOMAIN comments
      <3>1. KeyAt(comments, n) = KeyAt(comments, o)
        BY <1>4, <2>1 DEF CommentsGrow
      <3> QED BY <1>2, <2>1, <3>1 DEF Calm
    <2>2. CASE ~(n \in DOMAIN comments /\ o \in DOMAIN comments)
      <3>1. NoneFor(x, comments) /\ ((n \notin DOMAIN comments /\ o \notin DOMAIN comments) => n = o)
        BY <1>4, <2>2 DEF CalmStep
      <3>2. \A q \in DOMAIN comments : KeyAt(comments', q) = KeyAt(comments, q) /\ KeyAt(comments, q) # KeyOf(x)
        BY <3>1 DEF CommentsGrow, NoneFor
      <3>3. \A q \in DOMAIN comments' : q \notin DOMAIN comments => KeyAt(comments', q) = KeyOf(x)
        BY DEF CommentsGrow
      <3> QED BY <1>4, <2>2, <3>1, <3>2, <3>3
    <2> QED BY <2>1, <2>2
  <1>5. ASSUME NEW p \in Jobs, p # j, "issue" \in job[p].delivered
        PROVE  LET fp == Failure(job[p]).fp IN tracked'[fp] # {} /\ \A t \in tracked'[fp] : job[p].now <= t
    <2>1. Stamped(job[p], tracked)
      BY <1>2 DEF Calm, JobCalm
    <2>2. Failure(job[p]).fp \in Fingerprints
      BY <1>2, CaseFacts
    <2> QED BY <1>2, <1>5, <2>1, <2>2 DEF Stamped, TrackedGrows
  <1>6. ASSUME NEW p \in Jobs, p # j PROVE JobCalm(p)'
    <2>1. job'[p] = job[p] /\ pc'[p] = pc[p] /\ pc[p] \in {"idle", "done", "killed"}
      BY <1>1, <1>6
    <2>2. Stamped(job[p], tracked)'
      BY <1>5, <1>6, <2>1 DEF Stamped, Failure
    <2>3. ASSUME pc[p] = "done" PROVE Spaced(p, job[p])'
      <3>1. ASSUME NEW q \in Jobs \ {p}, BothWrote(job[p], q)', job'[p].plan = "send", job'[q].plan = "send"
            PROVE  job'[p].now - job'[q].now > Window \/ job'[q].now - job'[p].now > Window
        <4>1. CASE q = j
          <5>1. at = "done" /\ "issue" \in job[p].delivered /\ "issue" \in x.delivered
                /\ Failure(x).fp = Failure(job[p]).fp
            BY <1>1, <2>1, <3>1, <4>1 DEF BothWrote, Failure
          <5>2. Spaced(j, x) /\ p \in Jobs \ {j}
            BY <1>6, <5>1 DEF CalmStep
          <5>3. BothWrote(x, p)
            BY <2>3, <5>1 DEF BothWrote
          <5>4. x.now - job[p].now > Window \/ job[p].now - x.now > Window
            BY <1>1, <2>1, <3>1, <4>1, <5>2, <5>3 DEF Spaced
          <5> QED BY <1>1, <2>1, <4>1, <5>4
        <4>2. CASE q # j
          <5>1. job'[q] = job[q] /\ pc'[q] = pc[q]
            BY <1>1, <4>2
          <5>2. BothWrote(job[p], q)
            BY <2>1, <3>1, <5>1 DEF BothWrote, Failure
          <5>3. Spaced(p, job[p])
            BY <1>2, <2>3 DEF Calm, JobCalm
          <5> QED BY <2>1, <3>1, <5>1, <5>2, <5>3 DEF Spaced
        <4> QED BY <4>1, <4>2
      <3> QED BY <3>1 DEF Spaced
    <2>4. p \notin InFlight'
      BY <2>1 DEF InFlight
    <2> QED BY <2>1, <2>2, <2>3, <2>4 DEF JobCalm
  <1>7. JobCalm(j)'
    <2>1. \A p \in Jobs \ {j} : /\ job'[p] = job[p] /\ pc'[p] = pc[p]
                                /\ BothWrote(job[j], p)' => BothWrote(x, p)
      BY <1>1 DEF BothWrote, Failure
    <2>2. (pc[j] = "post" /\ job[j].existing = 0)' => NoneFor(job[j], comments)'
      BY <1>1 DEF CalmStep, NoneFor, KeyAt, KeyOf, Failure, Channel, Ctx
    <2>3. (pc[j] = "issue")' => \A t \in tracked'[Failure(job'[j]).fp] : t <= job'[j].now
      BY <1>1 DEF CalmStep
    <2>4. Stamped(job[j], tracked)'
      BY <1>1 DEF CalmStep, Stamped, Failure
    <2>5. (j \in InFlight)' => Informed(j, job[j])'
      <3>1. (j \in InFlight)' => Informed(j, x)
        BY <1>1 DEF CalmStep, InFlight
      <3>2. Informed(j, x) => Informed(j, job[j])'
        BY <1>1, <2>1 DEF Informed
      <3> QED BY <3>1, <3>2
    <2>6. (pc[j] = "done")' => Spaced(j, job[j])'
      <3>1. (pc[j] = "done")' => Spaced(j, x)
        BY <1>1 DEF CalmStep
      <3>2. Spaced(j, x) => Spaced(j, job[j])'
        BY <1>1, <2>1 DEF Spaced
      <3> QED BY <3>1, <3>2
    <2> QED BY <2>2, <2>3, <2>4, <2>5, <2>6 DEF JobCalm, Failure
  <1>8. \A p \in Jobs : JobCalm(p)'
    BY <1>6, <1>7
  <1> QED BY <1>3, <1>4, <1>8 DEF Calm, KeyAt
-----------------------------------------------------------------------------
(* What a step of a job must keep, in the form the actions are read in.    *)

\* x is what the job holds after the step; comments, tracked and disturbed are
\* what they are after it.
Moves(j, x) ==
    /\ job[j].wrote = {} \/ SameCase(x, job[j])
    /\ job[j].wrote \subseteq x.wrote /\ x.now <= clock /\ clock' = clock
    /\ CommentsGrow(x, comments, comments') /\ TrackedGrows(x, tracked, tracked')
    /\ Caused(j, x) /\ Saw(j, x, comments') /\ There(j, x, comments')
    /\ disturbed' \in BOOLEAN /\ (disturbed => disturbed')
CalmMove(j, x, c, d, U) ==
    /\ InFlight \subseteq {j}
    /\ \/ \A n \in DOMAIN d : n \in DOMAIN c
       \/ NoneFor(x, c) /\ \A n, o \in DOMAIN d : (n \notin DOMAIN c /\ o \notin DOMAIN c) => n = o
    /\ Stamped(x, U)
    /\ Informed(j, x)

LEMMA JobStep ==
    ASSUME IInv, NEW j \in Jobs, NEW x \in JobType, NEW at \in Places,
           job' = [job EXCEPT ![j] = x], pc' = [pc EXCEPT ![j] = at],
           Moves(j, x), Local(x, at),
           ~disturbed' => CalmStep(j, x, at, comments, comments', tracked')
    PROVE  IInv'
  <1>1. /\ job[j].wrote = {} \/ SameCase(x, job[j])
        /\ job[j].wrote \subseteq x.wrote /\ x.now <= clock /\ clock' = clock
        /\ CommentsGrow(x, comments, comments') /\ TrackedGrows(x, tracked, tracked')
        /\ Caused(j, x) /\ Saw(j, x, comments') /\ There(j, x, comments')
        /\ disturbed' \in BOOLEAN /\ (disturbed => disturbed')
    BY DEF Moves
  <1>2. TypeOK'
    <2>1. job' \in [Jobs -> JobType] /\ pc' \in [Jobs -> Places]
      BY TypeFacts DEF IInv
    <2>2. comments' \in Seq(Comment) /\ Len(comments') <= MaxComments
      BY <1>1 DEF CommentsGrow
    <2>3. tracked' \in [Fingerprints -> SUBSET Times] /\ clock' \in Times
      BY <1>1, TypeFacts DEF IInv, TrackedGrows
    <2> QED BY <1>1, <2>1, <2>2, <2>3 DEF TypeOK, Places, JobType, Reports, Plans, Channels, Landed
  <1>3. ASSUME NEW i \in Jobs PROVE JobOK(i)'
    <2>1. CASE i = j
      <3>1. JobOK(j)'
        BY <1>1, OwnKeeps
      <3> QED BY <2>1, <3>1
    <2>2. CASE i # j
      BY <1>1, <2>2, OthersKeep
    <2> QED BY <2>1, <2>2
  <1>4. CommentsOK' /\ TrackedOK'
    BY <1>1, HistoryKeeps
  <1>5. ~disturbed' => Calm'
    <2> SUFFICES ASSUME ~disturbed' PROVE Calm'
      OBVIOUS
    <2>1. ~disturbed
      BY <1>1
    <2> QED BY <1>1, <2>1, CalmKeeps
  <1>6. \A i \in Jobs : JobOK(i)'
    BY <1>3
  <1> QED BY <1>2, <1>4, <1>5, <1>6 DEF IInv

LEMMA MovesAlike ==
    ASSUME NEW j \in Jobs, NEW x \in JobType, NEW y \in JobType, Moves(j, x),
           SameCase(y, x), SameView(y, x), y.delivered = x.delivered, y.plan = x.plan, y.wrote = x.wrote
    PROVE  /\ Moves(j, y)
           /\ CalmMove(j, x, comments, comments', tracked') => CalmMove(j, y, comments, comments', tracked')
  <1>1. KeyOf(y) = KeyOf(x) /\ Failure(y) = Failure(x) /\ BodyIn(y) = BodyIn(x)
    <2>1. y.case = x.case /\ y.ref = x.ref
      BY DEF SameCase, SameView, JobType
    <2> QED BY <2>1, SameCaseFacts DEF BodyIn
  <1>2. Caused(j, y) /\ Saw(j, y, comments') /\ There(j, y, comments')
    BY <1>1 DEF Moves, SameView, Caused, Saw, There
  <1>3. CommentsGrow(y, comments, comments') /\ TrackedGrows(y, tracked, tracked')
    BY <1>1 DEF Moves, CommentsGrow, TrackedGrows
  <1>4. /\ job[j].wrote = {} \/ SameCase(y, job[j])
        /\ job[j].wrote \subseteq y.wrote /\ y.now <= clock /\ clock' = clock
        /\ disturbed' \in BOOLEAN /\ (disturbed => disturbed')
    BY DEF Moves, SameCase
  <1>5. Moves(j, y)
    BY <1>2, <1>3, <1>4 DEF Moves
  <1>6. ASSUME NEW p, BothWrote(y, p) PROVE BothWrote(x, p)
    BY <1>1, <1>6 DEF BothWrote
  <1>7. NoneFor(x, comments) => NoneFor(y, comments)
    BY <1>1 DEF NoneFor
  <1>8. ASSUME CalmMove(j, x, comments, comments', tracked') PROVE CalmMove(j, y, comments, comments', tracked')
    <2>1. Stamped(y, tracked')
      BY <1>1, <1>8 DEF CalmMove, Stamped, SameCase
    <2>2. Informed(j, y)
      BY <1>6, <1>8 DEF CalmMove, Informed, SameCase, SameView
    <2> QED BY <1>7, <1>8, <2>1, <2>2 DEF CalmMove
  <1> QED BY <1>5, <1>8

-----------------------------------------------------------------------------
(* After the issue and after the comment.                                  *)

Open(m) ==
    /\ m.failed <=> m.missed # {}
    /\ "chat" \notin m.missed /\ m.plan = "unplanned"
    /\ StageA(m) = "none" /\ m.attempted # {} => m.delivered # {} \/ m.missed # {} \/ m.ref \/ m.late

LEMMA ToNotifyKeeps ==
    ASSUME IInv, NEW j \in Jobs, NEW x \in JobType, Moves(j, x), Open(x),
           ~disturbed' => CalmMove(j, x, comments, comments', tracked'),
           ToNotify(j, x)
    PROVE  IInv'
  <1>1. PICK y \in JobType :
           /\ y = Settled(x)
           /\ y.suppressed = IF StageA(x) # "none" THEN StageA(x)
                             ELSE IF x.failed /\ x.delivered = {} THEN "delivery_error" ELSE "none"
           /\ y.plan = x.plan /\ y.wrote = x.wrote
           /\ SameCase(y, x) /\ SameView(y, x) /\ SameReport(y, x) /\ SameLate(y, x)
    BY SettledFacts
  <1>2. job' = [job EXCEPT ![j] = y] /\ pc' = [pc EXCEPT ![j] = "notify"]
    BY <1>1 DEF ToNotify, Keep, Goto
  <1>3. /\ Moves(j, y)
        /\ CalmMove(j, x, comments, comments', tracked') => CalmMove(j, y, comments, comments', tracked')
    BY <1>1, MovesAlike DEF SameReport
  <1>4. StageA(y) = StageA(x)
    BY <1>1, SameCaseFacts
  <1>5. y.suppressed = Settlement(y)
    BY <1>1, <1>4 DEF Settlement, Open, SameReport
  <1>6. Local(y, "notify")
    BY <1>1, <1>4, <1>5 DEF Local, Open, SameReport, SameView, SameLate
  <1>7. ~disturbed' => CalmStep(j, y, "notify", comments, comments', tracked')
    BY <1>3 DEF CalmMove, CalmStep
  <1> QED BY <1>2, <1>3, <1>6, <1>7, JobStep DEF Places

LEMMA AfterCommentKeeps ==
    ASSUME IInv, NEW j \in Jobs, NEW x \in JobType, Moves(j, x), Open(x),
           ~disturbed' => CalmMove(j, x, comments, comments', tracked'),
           AfterComment(j, x)
    PROVE  IInv'
  <1>1. CASE AddFlakyLabel(Ctx(x), Failure(x))
    <2>1. job' = [job EXCEPT ![j] = x] /\ pc' = [pc EXCEPT ![j] = "label"]
      BY <1>1 DEF AfterComment, Keep, Goto
    <2>2. Local(x, "label")
      BY <1>1, LabelIsSuppressed DEF Local, Open
    <2>3. ~disturbed' => CalmStep(j, x, "label", comments, comments', tracked')
      BY DEF CalmMove, CalmStep
    <2> QED BY <2>1, <2>2, <2>3, JobStep DEF Places
  <1>2. CASE ~AddFlakyLabel(Ctx(x), Failure(x))
    <2>1. ToNotify(j, x)
      BY <1>2 DEF AfterComment
    <2> QED BY <2>1, ToNotifyKeeps
  <1> QED BY <1>1, <1>2

LEMMA AfterIssueKeeps ==
    ASSUME IInv, NEW j \in Jobs, NEW x \in JobType, Moves(j, x), Open(x),
           ~disturbed' => CalmMove(j, x, comments, comments', tracked'),
           x.existing = 0, "comment" \notin x.delivered, "comment" \notin x.wrote,
           AfterIssue(j, x)
    PROVE  IInv'
  <1>1. CASE StageA(x) = "none" /\ Channel(x) # "none"
    <2>1. job' = [job EXCEPT ![j] = x] /\ pc' = [pc EXCEPT ![j] = "lookup"]
      BY <1>1 DEF AfterIssue, Keep, Goto
    <2>2. Local(x, "lookup")
      BY <1>1 DEF Local, Open
    <2>3. ~disturbed' => CalmStep(j, x, "lookup", comments, comments', tracked')
      BY DEF CalmMove, CalmStep
    <2> QED BY <2>1, <2>2, <2>3, JobStep DEF Places
  <1>2. CASE ~(StageA(x) = "none" /\ Channel(x) # "none")
    <2>1. AfterComment(j, x)
      BY <1>2 DEF AfterIssue
    <2> QED BY <2>1, AfterCommentKeeps
  <1> QED BY <1>1, <1>2

\* A step that writes nothing of its own.
LEMMA StillMoves ==
    ASSUME IInv, NEW j \in InFlight, NEW x \in JobType,
           UNCHANGED <<comments, tracked, clock, disturbed>>,
           SameCase(x, job[j]), x.wrote = job[j].wrote,
           job[j].stamps \subseteq x.stamps, "issue" \in x.delivered => "issue" \in job[j].delivered,
           Caused(j, x), Saw(j, x, comments), There(j, x, comments)
    PROVE  /\ Moves(j, x)
           /\ ~disturbed' => CalmMove(j, x, comments, comments', tracked')
  <1>1. CommentsGrow(x, comments, comments') /\ TrackedGrows(x, tracked, tracked')
    BY TypeFacts DEF IInv, CommentsGrow, TrackedGrows, KeyAt
  <1>2. x.now <= clock /\ j \in Jobs
    BY DEF IInv, JobOK, InFlight, SameCase
  <1>3. Moves(j, x)
    BY <1>1, <1>2, TypeFacts DEF IInv, Moves
  <1>4. ASSUME ~disturbed' PROVE CalmMove(j, x, comments, comments', tracked')
    <2>1. Calm /\ JobCalm(j) /\ Informed(j, job[j]) /\ Stamped(job[j], tracked)
      BY <1>2, <1>4 DEF IInv, Calm, JobCalm
    <2>2. InFlight \subseteq {j}
      BY <2>1 DEF Calm
    <2>3. Failure(x) = Failure(job[j]) /\ x.now = job[j].now
      BY SameCaseFacts DEF SameCase
    <2>4. Stamped(x, tracked')
      BY <2>1, <2>3 DEF Stamped
    <2>5. Informed(j, x)
      BY <2>1, <2>3 DEF Informed, BothWrote
    <2> QED BY <2>2, <2>4, <2>5 DEF CalmMove
  <1> QED BY <1>3, <1>4

\* A step that writes nothing and sees nothing new.
LEMMA StillAlike ==
    ASSUME IInv, NEW j \in InFlight, NEW x \in JobType,
           UNCHANGED <<comments, tracked, clock, disturbed>>,
           SameCase(x, job[j]), SameView(x, job[j]), x.wrote = job[j].wrote, x.plan = job[j].plan,
           "issue" \in x.delivered => "issue" \in job[j].delivered,
           "comment" \in x.delivered => "comment" \in job[j].delivered \/ There(j, x, comments)
    PROVE  /\ Moves(j, x)
           /\ ~disturbed' => CalmMove(j, x, comments, comments', tracked')
  <1>1. j \in Jobs /\ job[j] \in JobType
    BY TypeFacts DEF InFlight, IInv
  <1>2. Caused(j, job[j]) /\ Saw(j, job[j], comments) /\ There(j, job[j], comments)
    BY <1>1 DEF IInv, JobOK
  <1>3. KeyOf(x) = KeyOf(job[j]) /\ Failure(x) = Failure(job[j]) /\ BodyIn(x) = BodyIn(job[j])
    <2>1. x.case = job[j].case /\ x.ref = job[j].ref
      BY <1>1 DEF SameCase, SameView, JobType
    <2> QED BY <2>1, SameCaseFacts DEF BodyIn
  <1>4. Caused(j, x) /\ Saw(j, x, comments) /\ There(j, x, comments)
    BY <1>2, <1>3 DEF Caused, Saw, There, SameView
  <1> QED BY <1>4, StillMoves DEF SameView

-----------------------------------------------------------------------------
(* The steps, one by one.                                                  *)

LEMMA HereFacts ==
    ASSUME IInv, NEW j \in Jobs
    PROVE  /\ job[j] \in JobType /\ Local(job[j], pc[j]) /\ job[j].now <= clock
           /\ Caused(j, job[j]) /\ Saw(j, job[j], comments) /\ There(j, job[j], comments)
           /\ pc[j] \in Places /\ clock \in Nat /\ job[j].now \in Nat
  BY TypeFacts DEF IInv, JobOK, JobType, Times

LEMMA BlankFacts ==
    ASSUME NEW case \in Cases, NEW now \in Times
    PROVE  \E m \in JobType :
              /\ m = Blank(case, now) /\ m.case = case /\ m.now = now
              /\ Fresh(m) /\ Open(m) /\ Cleared(m)
              /\ m.suppressed = "none"
  <1>1. /\ NoBody \in Body \union {NoBody} /\ 0 \in 0 .. MaxComments
        /\ {} \in SUBSET Times /\ {} \in SUBSET Channels /\ {} \in SUBSET Writes
    BY TickAssumption
  <1> DEFINE none == NoBody
             seens == Body \union {none}
             place == 0 .. MaxComments
             times == SUBSET Times
             sent  == SUBSET Writes
             chans == SUBSET Channels
             lands == SUBSET Landed
             m == [case |-> case, now |-> now, late |-> FALSE, ref |-> FALSE, stamps |-> {},
                   existing |-> 0, seen |-> none, delivered |-> {}, attempted |-> {}, failed |-> FALSE,
                   suppressed |-> "none", plan |-> "unplanned", wrote |-> {}, missed |-> {}]
  <1>2. none \in seens /\ 0 \in place /\ {} \in times /\ {} \in sent /\ {} \in chans /\ {} \in lands
    BY <1>1
  <1>3. JobType = [case : Cases, now : Times, late : BOOLEAN, ref : BOOLEAN,
             stamps : times, existing : place, seen : seens,
             delivered : sent, attempted : chans, failed : BOOLEAN,
             suppressed : Reports, plan : Plans, wrote : lands, missed : sent]
    BY DEF JobType
  <1>4. m = Blank(case, now)
    BY DEF Blank
  <1> HIDE DEF none, seens, place, times, sent, chans
  <1>5. m \in JobType
    BY <1>2, <1>3 DEF Reports, Plans
  <1>6. m.case = case /\ m.now = now /\ Fresh(m) /\ Open(m) /\ Cleared(m) /\ m.suppressed = "none"
    BY DEF Fresh, Open, Cleared
  <1> HIDE DEF m
  <1> QED BY <1>4, <1>5, <1>6

LEMMA StartKeeps ==
    ASSUME IInv, NEW j \in Jobs, Start(j)
    PROVE  IInv'
  <1>1. PICK case \in Cases :
           LET m == Blank(case, clock) IN
           IF StageA(m) = "none" /\ ShouldOpenIssue(Ctx(m), Failure(m), On)
           THEN Keep(j, m) /\ Goto(j, "issue") ELSE AfterIssue(j, m)
    BY DEF Start
  <1>2. PICK m \in JobType : /\ m = Blank(case, clock) /\ m.case = case /\ m.now = clock
                             /\ Fresh(m) /\ Open(m)
    BY BlankFacts, TypeFacts DEF IInv
  <1>3. pc[j] = "idle" /\ UNCHANGED <<comments, tracked, clock>> /\ disturbed' = (disturbed \/ InFlight # {})
    BY DEF Start
  <1>4. job[j].wrote = {}
    BY <1>3, HereFacts DEF Local, Fresh
  <1>5. CommentsGrow(m, comments, comments') /\ TrackedGrows(m, tracked, tracked')
    BY <1>3, TypeFacts DEF IInv, CommentsGrow, TrackedGrows, KeyAt
  <1>6. Moves(j, m)
    <2>1. Caused(j, m) /\ Saw(j, m, comments') /\ There(j, m, comments')
      BY <1>2 DEF Caused, Saw, There, Fresh, Open
    <2>2. m.now <= clock
      BY <1>2, HereFacts
    <2>3. disturbed' \in BOOLEAN /\ (disturbed => disturbed')
      BY <1>3, TypeFacts DEF IInv
    <2> QED BY <1>3, <1>4, <1>5, <2>1, <2>2, <2>3 DEF Moves
  <1>7. ASSUME ~disturbed' PROVE CalmMove(j, m, comments, comments', tracked')
    <2>1. InFlight = {}
      BY <1>3, <1>7
    <2> QED BY <1>2, <1>3, <2>1 DEF CalmMove, Stamped, Informed, BothWrote, Fresh
  <1>8. CASE StageA(m) = "none" /\ ShouldOpenIssue(Ctx(m), Failure(m), On)
    <2>1. job' = [job EXCEPT ![j] = m] /\ pc' = [pc EXCEPT ![j] = "issue"]
      BY <1>1, <1>2, <1>8 DEF Keep, Goto
    <2>2. Local(m, "issue")
      BY <1>2 DEF Local, Open
    <2>3. \A t \in tracked'[Failure(m).fp] : t <= m.now
      BY <1>2, <1>3, CaseFacts DEF IInv, TrackedOK
    <2>4. ~disturbed' => CalmStep(j, m, "issue", comments, comments', tracked')
      BY <1>7, <2>3 DEF CalmMove, CalmStep
    <2> QED BY <1>6, <2>1, <2>2, <2>4, JobStep DEF Places
  <1>9. CASE ~(StageA(m) = "none" /\ ShouldOpenIssue(Ctx(m), Failure(m), On))
    <2>1. AfterIssue(j, m)
      BY <1>1, <1>2, <1>9
    <2> QED BY <1>2, <1>6, <1>7, <2>1, AfterIssueKeeps DEF Fresh
  <1> QED BY <1>8, <1>9

\* Whatever becomes of the issue: x has seen nothing, or the stamps of before.
LEMMA IssueSettles ==
    ASSUME IInv, NEW j \in Jobs, pc[j] = "issue", NEW x \in JobType, SameCase(x, job[j]),
           UNCHANGED <<comments, clock, disturbed>>, TrackedGrows(x, tracked, tracked'),
           x.stamps = {} \/ x.stamps = tracked[Failure(x).fp],
           x.existing = 0, "comment" \notin x.delivered, "comment" \notin x.wrote, Open(x),
           (~disturbed /\ "issue" \in x.delivered) =>
               x.stamps = tracked[Failure(x).fp] /\ tracked'[Failure(x).fp] = {clock},
           AfterIssue(j, x)
    PROVE  IInv'
  <1>1. job[j].wrote = {} /\ x.now <= clock /\ x.now = job[j].now
    BY HereFacts DEF Local, Fresh, SameCase
  <1>2. CommentsGrow(x, comments, comments')
    BY TypeFacts DEF IInv, CommentsGrow, KeyAt
  <1>3. Caused(j, x)
    <2> SUFFICES ASSUME x.stamps # {} PROVE OtherWroteAbout(j, Failure(x).fp)
      BY DEF Caused, Open
    <2>1. PICK i \in Jobs : "issue" \in job[i].wrote /\ Failure(job[i]).fp = Failure(x).fp
      BY CaseFacts DEF IInv, TrackedOK
    <2>2. i # j
      BY <1>1, <2>1
    <2> QED BY <2>1, <2>2 DEF OtherWroteAbout
  <1>4. Moves(j, x)
    <2>1. Saw(j, x, comments') /\ There(j, x, comments')
      BY DEF Saw, There
    <2>2. disturbed' \in BOOLEAN /\ (disturbed => disturbed')
      BY TypeFacts DEF IInv
    <2> QED BY <1>1, <1>2, <1>3, <2>1, <2>2 DEF Moves
  <1>5. ASSUME ~disturbed' PROVE CalmMove(j, x, comments, comments', tracked')
    <2>1. Calm /\ j \in InFlight
      BY <1>5 DEF IInv, InFlight
    <2>2. InFlight \subseteq {j}
      BY <2>1 DEF Calm
    <2>3. Stamped(x, tracked')
      BY <1>1, <1>5, HereFacts DEF Stamped
    <2>4. ASSUME NEW p \in Jobs \ {j}, BothWrote(x, p)
          PROVE  \E t \in x.stamps : job[p].now <= t /\ t <= x.now
      <3>1. x.stamps = tracked[Failure(x).fp] /\ Failure(job[p]).fp = Failure(x).fp
        BY <1>5, <2>4 DEF BothWrote
      <3>2. tracked[Failure(x).fp] # {} /\ \A t \in tracked[Failure(x).fp] : job[p].now <= t
        BY <2>1, <2>4, <3>1 DEF Calm, JobCalm, Stamped, BothWrote
      <3>3. \A t \in tracked[Failure(x).fp] : t <= x.now
        BY <1>1, <2>1, SameCaseFacts DEF Calm, JobCalm
      <3> QED BY <3>1, <3>2, <3>3
    <2> QED BY <2>2, <2>3, <2>4 DEF CalmMove, Informed
  <1> QED BY <1>4, <1>5, AfterIssueKeeps

LEMMA IssueKeeps ==
    ASSUME IInv, NEW j \in Jobs, Issue(j)
    PROVE  IInv'
  <1> DEFINE b == job[j]
             fp == Failure(b).fp
  <1>1. b \in JobType /\ Local(b, "issue") /\ pc[j] = "issue" /\ UNCHANGED <<comments, clock, disturbed>>
    BY HereFacts DEF Issue
  <1>2. PICK m : m = [b EXCEPT !.attempted = @ \union {"issue"}]
    OBVIOUS
  <1>3. /\ m \in JobType /\ SameCase(m, b) /\ Fresh(b) /\ m.plan = "unplanned"
        /\ m.wrote = {} /\ m.delivered = {} /\ m.missed = {} /\ ~m.failed /\ m.stamps = {} /\ m.existing = 0
    BY <1>1, <1>2, AttemptedFacts DEF Channels, Local, Fresh, SameView, SameEnd
  <1>4. PICK done : done = [m EXCEPT !.delivered = @ \union {"issue"}, !.wrote = @ \union {"issue"}]
    OBVIOUS
  <1>5. /\ done \in JobType /\ SameCase(done, b) /\ done.plan = "unplanned"
        /\ done.wrote = {"issue"} /\ done.delivered = {"issue"} /\ done.missed = {} /\ ~done.failed
        /\ done.stamps = {} /\ done.existing = 0
    <2>1. m \in JobType
      BY <1>3
    <2> HIDE DEF b
    <2>2. /\ done \in JobType /\ done.delivered = m.delivered \union {"issue"}
          /\ done.wrote = m.wrote \union {"issue"}
          /\ SameCase(done, m) /\ SameView(done, m) /\ SameEnd(done, m) /\ SameLate(done, m)
          /\ done.attempted = m.attempted /\ (done.failed <=> m.failed) /\ done.missed = m.missed
      BY <1>4, <2>1, IssueDoneFacts
    <2>3. SameCase(done, b)
      BY <1>3, <2>2 DEF SameCase
    <2>4. done.plan = "unplanned" /\ done.stamps = {} /\ done.existing = 0
      BY <1>3, <2>2 DEF SameView, SameEnd
    <2> QED BY <1>3, <2>2, <2>3, <2>4
  <1>6. Failure(m) = Failure(b) /\ Failure(done) = Failure(b) /\ fp \in Fingerprints /\ tracked[fp] \in SUBSET Times
        /\ tracked \in [Fingerprints -> SUBSET Times] /\ clock \in Times
    BY <1>1, <1>3, <1>5, SameCaseFacts, CaseFacts, TypeFacts DEF IInv
  <1>7. ASSUME NEW y \in JobType, SameCase(y, b), "issue" \in y.wrote, tracked' = [tracked EXCEPT ![fp] = {clock}]
        PROVE  TrackedGrows(y, tracked, tracked') /\ tracked'[fp] = {clock} /\ Failure(y).fp = fp
    <2>1. Failure(y) = Failure(b)
      BY <1>7, SameCaseFacts
    <2>2. \A g \in Fingerprints : tracked'[g] = IF g = fp THEN {clock} ELSE tracked[g]
      BY <1>6, <1>7
    <2>3. tracked' \in [Fingerprints -> SUBSET Times]
      BY <1>6, <1>7
    <2> QED BY <1>6, <1>7, <2>1, <2>2, <2>3 DEF TrackedGrows
  <1>8. ASSUME NEW y \in JobType, SameCase(y, b), UNCHANGED tracked
        PROVE  TrackedGrows(y, tracked, tracked') /\ Failure(y).fp = fp
    BY <1>6, <1>8, SameCaseFacts DEF TrackedGrows
  <1> HIDE DEF fp, b
  <1>9. PICK x1 \in JobType :
           /\ x1 = IssueStamped(j, done) /\ x1.ref /\ x1.stamps = tracked[fp]
           /\ SameCase(x1, b) /\ x1.existing = 0 /\ x1.plan = "unplanned" /\ x1.wrote = {"issue"}
           /\ x1.delivered = {"issue"} /\ x1.missed = {} /\ ~x1.failed
    <2>1. PICK y \in JobType :
             /\ y = Synced(j, done, tracked[fp]) /\ y.ref /\ y.stamps = done.stamps \union tracked[fp]
             /\ y.existing = done.existing
             /\ SameCase(y, done) /\ SameEnd(y, done) /\ SameReport(y, done) /\ y.wrote = done.wrote
      <3>1. done \in JobType /\ tracked[fp] \in SUBSET Times
        BY <1>5, <1>6
      <3>2. PICK s \in SUBSET Times : s = tracked[fp]
        BY <3>1
      <3> QED BY <3>1, <3>2, SyncedFacts
    <2>2. y = IssueStamped(j, done)
      BY <1>6, <2>1 DEF IssueStamped, fp
    <2> QED BY <1>5, <2>1, <2>2 DEF SameCase, SameEnd, SameReport
  <1>10. PICK x2 \in JobType :
           /\ x2 = IssueStamped(j, m) /\ x2.ref /\ x2.stamps = tracked[fp]
           /\ SameCase(x2, b) /\ x2.existing = 0 /\ x2.plan = "unplanned" /\ x2.wrote = {}
           /\ x2.delivered = {} /\ x2.missed = {} /\ ~x2.failed
    <2>1. PICK y \in JobType :
             /\ y = Synced(j, m, tracked[fp]) /\ y.ref /\ y.stamps = m.stamps \union tracked[fp]
             /\ y.existing = m.existing
             /\ SameCase(y, m) /\ SameEnd(y, m) /\ SameReport(y, m) /\ y.wrote = m.wrote
      <3>1. m \in JobType /\ tracked[fp] \in SUBSET Times
        BY <1>3, <1>6
      <3>2. PICK s \in SUBSET Times : s = tracked[fp]
        BY <3>1
      <3> QED BY <3>1, <3>2, SyncedFacts
    <2>2. y = IssueStamped(j, m)
      BY <1>6, <2>1 DEF IssueStamped, fp
    <2> QED BY <1>3, <2>1, <2>2 DEF SameCase, SameEnd, SameReport
  <1>24. PICK x0 \in JobType :
           /\ x0 = Synced(j, done, {}) /\ x0.ref /\ x0.stamps = {}
           /\ SameCase(x0, b) /\ x0.existing = 0 /\ x0.plan = "unplanned" /\ x0.wrote = {"issue"}
           /\ x0.delivered = {"issue"} /\ x0.missed = {} /\ ~x0.failed
    <2>1. done \in JobType
      BY <1>5
    <2>2. PICK s \in SUBSET Times : s = {}
      OBVIOUS
    <2>3. PICK y \in JobType :
             /\ y = Synced(j, done, s) /\ y.ref /\ y.stamps = done.stamps \union s
             /\ y.existing = done.existing
             /\ SameCase(y, done) /\ SameEnd(y, done) /\ SameReport(y, done) /\ y.wrote = done.wrote
      BY <2>1, SyncedFacts
    <2>4. y = Synced(j, done, {})
      BY <2>2, <2>3
    <2> QED BY <1>5, <2>2, <2>3, <2>4 DEF SameCase, SameEnd, SameReport
  <1>11. PICK x3 \in JobType :
           /\ x3 = Failed(Synced(j, done, {}), "issue") /\ x3.stamps = {}
           /\ SameCase(x3, b) /\ x3.existing = 0 /\ x3.plan = "unplanned" /\ x3.wrote = {"issue"}
           /\ x3.delivered = {"issue"} /\ x3.missed = {"issue"} /\ x3.failed
    <2>1. PICK y \in JobType :
             /\ y = Failed(x0, "issue") /\ y.failed /\ y.missed = x0.missed \union {"issue"}
             /\ SameCase(y, x0) /\ SameView(y, x0) /\ SameEnd(y, x0) /\ y.wrote = x0.wrote
             /\ y.delivered = x0.delivered
      BY FailedFacts DEF Writes
    <2> QED BY <1>24, <2>1 DEF SameCase, SameView, SameEnd
  <1>25. PICK x7 \in JobType :
           /\ x7 = Late(Synced(j, done, {})) /\ x7.late /\ x7.stamps = {} /\ x7.ref
           /\ SameCase(x7, b) /\ x7.existing = 0 /\ x7.plan = "unplanned" /\ x7.wrote = {"issue"}
           /\ x7.delivered = {"issue"} /\ x7.missed = {} /\ ~x7.failed
    <2>1. PICK y \in JobType :
             /\ y = Late(x0) /\ y.late
             /\ SameCase(y, x0) /\ SameView(y, x0) /\ SameEnd(y, x0) /\ SameReport(y, x0) /\ y.wrote = x0.wrote
      BY LateFacts
    <2> QED BY <1>24, <2>1 DEF SameCase, SameView, SameEnd, SameReport
  <1>12. PICK x4 \in JobType :
           /\ x4 = Late(m) /\ x4.late /\ x4.stamps = {}
           /\ SameCase(x4, b) /\ x4.existing = 0 /\ x4.plan = "unplanned" /\ x4.wrote = {}
           /\ x4.delivered = {} /\ x4.missed = {} /\ ~x4.failed
    <2>1. PICK y \in JobType :
             /\ y = Late(m) /\ y.late
             /\ SameCase(y, m) /\ SameView(y, m) /\ SameEnd(y, m) /\ SameReport(y, m) /\ y.wrote = m.wrote
      BY <1>3, LateFacts
    <2> QED BY <1>3, <2>1 DEF SameCase, SameView, SameEnd, SameReport
  <1>13. PICK x5 \in JobType :
           /\ x5 = Failed(m, "issue") /\ x5.stamps = {}
           /\ SameCase(x5, b) /\ x5.existing = 0 /\ x5.plan = "unplanned" /\ x5.wrote = {}
           /\ x5.delivered = {} /\ x5.missed = {"issue"} /\ x5.failed
    <2>1. PICK y \in JobType :
             /\ y = Failed(m, "issue") /\ y.failed /\ y.missed = m.missed \union {"issue"}
             /\ SameCase(y, m) /\ SameView(y, m) /\ SameEnd(y, m) /\ y.wrote = m.wrote
             /\ y.delivered = m.delivered
      BY <1>3, FailedFacts DEF Writes
    <2> QED BY <1>3, <2>1 DEF SameCase, SameView, SameEnd
  <1>14. PICK x6 : x6 = [x5 EXCEPT !.wrote = @ \union {"issue"}]
    OBVIOUS
  <1>15. /\ x6 \in JobType /\ x6.stamps = {}
         /\ SameCase(x6, b) /\ x6.existing = 0 /\ x6.plan = "unplanned" /\ x6.wrote = {"issue"}
         /\ x6.delivered = {} /\ x6.missed = {"issue"} /\ x6.failed
    BY <1>13, <1>14, IssueLandedFacts DEF SameCase, SameView, SameEnd, SameReport
  <1>16. Open(x1) /\ Open(x2) /\ Open(x3) /\ Open(x4) /\ Open(x5) /\ Open(x6) /\ Open(x7)
    BY <1>9, <1>10, <1>11, <1>25, <1>12, <1>13, <1>15 DEF Open
  <1>17. \/ AfterIssue(j, x1) /\ tracked' = [tracked EXCEPT ![fp] = {clock}]
         \/ AfterIssue(j, x2) /\ UNCHANGED tracked
         \/ disturbed /\ AfterIssue(j, x3) /\ UNCHANGED tracked
         \/ disturbed /\ AfterIssue(j, x7) /\ UNCHANGED tracked
         \/ AfterIssue(j, x4) /\ UNCHANGED tracked
         \/ AfterIssue(j, x5) /\ UNCHANGED tracked
         \/ AfterIssue(j, x6) /\ tracked' = [tracked EXCEPT ![fp] = {clock}]
    <2>1. Failure(m).fp = fp
      BY <1>6 DEF fp
    <2> QED BY <1>2, <1>4, <1>9, <1>10, <1>11, <1>25, <1>12, <1>13, <1>14, <2>1 DEF Issue, KeptIsStale, b
  <1>18. CASE AfterIssue(j, x1) /\ tracked' = [tracked EXCEPT ![fp] = {clock}]
    <2>1. TrackedGrows(x1, tracked, tracked') /\ tracked'[fp] = {clock} /\ Failure(x1).fp = fp
      BY <1>7, <1>9, <1>18
    <2> QED BY <1>1, <1>9, <1>16, <1>18, <2>1, IssueSettles DEF b
  <1>19. CASE AfterIssue(j, x2) /\ UNCHANGED tracked
    <2>1. TrackedGrows(x2, tracked, tracked') /\ Failure(x2).fp = fp
      BY <1>8, <1>10, <1>19
    <2> QED BY <1>1, <1>10, <1>16, <1>19, <2>1, IssueSettles DEF b
  <1>20. CASE disturbed /\ AfterIssue(j, x3) /\ UNCHANGED tracked
    <2>1. TrackedGrows(x3, tracked, tracked') /\ Failure(x3).fp = fp
      BY <1>8, <1>11, <1>20
    <2> QED BY <1>1, <1>11, <1>16, <1>20, <2>1, IssueSettles DEF b
  <1>26. CASE disturbed /\ AfterIssue(j, x7) /\ UNCHANGED tracked
    <2>1. TrackedGrows(x7, tracked, tracked') /\ Failure(x7).fp = fp
      BY <1>8, <1>25, <1>26
    <2> QED BY <1>1, <1>25, <1>16, <1>26, <2>1, IssueSettles DEF b
  <1>21. CASE AfterIssue(j, x4) /\ UNCHANGED tracked
    <2>1. TrackedGrows(x4, tracked, tracked') /\ Failure(x4).fp = fp
      BY <1>8, <1>12, <1>21
    <2> QED BY <1>1, <1>12, <1>16, <1>21, <2>1, IssueSettles DEF b
  <1>22. CASE AfterIssue(j, x5) /\ UNCHANGED tracked
    <2>1. TrackedGrows(x5, tracked, tracked') /\ Failure(x5).fp = fp
      BY <1>8, <1>13, <1>22
    <2> QED BY <1>1, <1>13, <1>16, <1>22, <2>1, IssueSettles DEF b
  <1>23. CASE AfterIssue(j, x6) /\ tracked' = [tracked EXCEPT ![fp] = {clock}]
    <2>1. TrackedGrows(x6, tracked, tracked') /\ Failure(x6).fp = fp
      BY <1>7, <1>15, <1>23
    <2> QED BY <1>1, <1>15, <1>16, <1>23, <2>1, IssueSettles DEF b
  <1> QED BY <1>17, <1>18, <1>19, <1>20, <1>26, <1>21, <1>22, <1>23

\* Of an issue created twice a delivery may know its own stamp; nobody else has
\* written about the fingerprint.
LEMMA TwiceSettles ==
    ASSUME IInv, NEW j \in Jobs, pc[j] = "issue", NEW x \in JobType, SameCase(x, job[j]),
           UNCHANGED <<comments, clock, disturbed>>, tracked[Failure(x).fp] = {},
           tracked' = [tracked EXCEPT ![Failure(x).fp] = {clock}],
           x.wrote = {"issue", "second-issue"}, x.delivered = {"issue"},
           x.existing = 0, Open(x), AfterIssue(j, x)
    PROVE  IInv'
  <1>1. job[j].wrote = {} /\ x.now <= clock
    BY HereFacts DEF Local, Fresh, SameCase
  <1>2. CommentsGrow(x, comments, comments')
    BY TypeFacts DEF IInv, CommentsGrow, KeyAt
  <1>3. Failure(x).fp \in Fingerprints /\ tracked \in [Fingerprints -> SUBSET Times] /\ clock \in Times
    BY CaseFacts, TypeFacts DEF IInv
  <1>4. TrackedGrows(x, tracked, tracked') /\ tracked'[Failure(x).fp] = {clock}
    <2>1. \A g \in Fingerprints : tracked'[g] = IF g = Failure(x).fp THEN {clock} ELSE tracked[g]
      BY <1>3
    <2>2. tracked' \in [Fingerprints -> SUBSET Times]
      BY <1>3
    <2> QED BY <1>3, <2>1, <2>2 DEF TrackedGrows
  <1>5. Moves(j, x)
    <2>1. Caused(j, x) /\ Saw(j, x, comments') /\ There(j, x, comments')
      BY DEF Caused, Saw, There
    <2>2. disturbed' \in BOOLEAN /\ (disturbed => disturbed')
      BY TypeFacts DEF IInv
    <2> QED BY <1>1, <1>2, <1>4, <2>1, <2>2 DEF Moves
  <1>6. ASSUME ~disturbed' PROVE CalmMove(j, x, comments, comments', tracked')
    <2>1. Calm /\ j \in InFlight
      BY <1>6 DEF IInv, InFlight
    <2>2. InFlight \subseteq {j}
      BY <2>1 DEF Calm
    <2>3. Stamped(x, tracked')
      BY <1>1, <1>4 DEF Stamped
    <2>4. Informed(j, x)
      <3> SUFFICES ASSUME NEW p \in Jobs \ {j}, BothWrote(x, p) PROVE FALSE
        BY DEF Informed
      <3>1. tracked[Failure(job[p]).fp] # {}
        BY <2>1 DEF Calm, JobCalm, Stamped, BothWrote
      <3> QED BY <3>1 DEF BothWrote
    <2> QED BY <2>2, <2>3, <2>4 DEF CalmMove
  <1> QED BY <1>5, <1>6, AfterIssueKeeps

LEMMA IssueTwiceKeeps ==
    ASSUME IInv, NEW j \in Jobs, IssueTwice(j)
    PROVE  IInv'
  <1> DEFINE b == job[j]
             fp == Failure(b).fp
  <1>1. b \in JobType /\ Fresh(b) /\ b.plan = "unplanned" /\ pc[j] = "issue"
        /\ UNCHANGED <<comments, clock, disturbed>>
    BY HereFacts DEF IssueTwice, Local
  <1>2. PICK m : m = [b EXCEPT !.attempted = @ \union {"issue"}, !.delivered = @ \union {"issue"},
                               !.wrote = @ \union {"issue", "second-issue"}]
    OBVIOUS
  <1>3. /\ m \in JobType /\ SameCase(m, b) /\ m.plan = "unplanned" /\ m.existing = 0
        /\ m.wrote = {"issue", "second-issue"} /\ m.delivered = {"issue"} /\ m.missed = {} /\ ~m.failed
    <2>1. b \in JobType
      BY <1>1
    <2> HIDE DEF b
    <2>2. /\ m \in JobType /\ m.delivered = b.delivered \union {"issue"}
          /\ m.wrote = b.wrote \union {"issue", "second-issue"}
          /\ SameCase(m, b) /\ SameView(m, b) /\ SameEnd(m, b)
          /\ (m.failed <=> b.failed) /\ m.missed = b.missed
      BY <1>2, <2>1, IssueTwiceFacts
    <2> QED BY <1>1, <2>2 DEF Fresh, SameView, SameEnd
  <1>4. Failure(m).fp = fp
    BY <1>3, SameCaseFacts
  <1> HIDE DEF b, fp
  <1>5. /\ tracked[fp] = {} /\ tracked' = [tracked EXCEPT ![fp] = {clock}]
        /\ \/ AfterIssue(j, Synced(j, m, {clock}))
           \/ AfterIssue(j, Failed(Synced(j, m, {}), "issue"))
           \/ AfterIssue(j, Late(Synced(j, m, {})))
    BY <1>2, <1>4 DEF IssueTwice, KeptIsStale, b
  <1> DEFINE Fits(y) == /\ SameCase(y, b) /\ y.plan = "unplanned" /\ y.existing = 0
                        /\ y.wrote = {"issue", "second-issue"} /\ y.delivered = {"issue"}
                        /\ y.failed <=> y.missed # {}
                        /\ "chat" \notin y.missed
  <1>6. ASSUME NEW y \in JobType, Fits(y), AfterIssue(j, y) PROVE IInv'
    <2>1. Open(y)
      BY <1>6 DEF Open
    <2>2. Failure(y).fp = fp
      BY <1>6, SameCaseFacts DEF fp
    <2> QED BY <1>1, <1>5, <1>6, <2>1, <2>2, TwiceSettles DEF b
  <1>7. ASSUME NEW stamps \in SUBSET Times
        PROVE  \E y \in JobType : y = Synced(j, m, stamps) /\ Fits(y) /\ y.missed = {}
    <2>1. PICK y \in JobType :
             /\ y = Synced(j, m, stamps) /\ y.existing = m.existing
             /\ SameCase(y, m) /\ SameEnd(y, m) /\ SameReport(y, m) /\ y.wrote = m.wrote
      BY <1>3, SyncedFacts
    <2> QED BY <1>3, <2>1 DEF SameCase, SameEnd, SameReport
  <1>8. CASE AfterIssue(j, Synced(j, m, {clock}))
    <2>1. clock \in Times
      BY TypeFacts DEF IInv
    <2>2. PICK y \in JobType : y = Synced(j, m, {clock}) /\ Fits(y)
      BY <1>7, <2>1
    <2> QED BY <1>6, <1>8, <2>2
  <1>9. PICK z \in JobType : z = Synced(j, m, {}) /\ Fits(z) /\ z.missed = {}
    BY <1>7
  <1>10. CASE AfterIssue(j, Failed(Synced(j, m, {}), "issue"))
    <2>1. PICK y \in JobType :
             /\ y = Failed(z, "issue") /\ y.failed /\ y.missed = z.missed \union {"issue"}
             /\ SameCase(y, z) /\ SameView(y, z) /\ SameEnd(y, z) /\ y.wrote = z.wrote
             /\ y.delivered = z.delivered
      BY FailedFacts DEF Writes
    <2>2. Fits(y)
      BY <1>9, <2>1 DEF SameCase, SameView, SameEnd
    <2> QED BY <1>6, <1>9, <1>10, <2>1, <2>2
  <1>11. CASE AfterIssue(j, Late(Synced(j, m, {})))
    <2>1. PICK y \in JobType :
             /\ y = Late(z)
             /\ SameCase(y, z) /\ SameView(y, z) /\ SameEnd(y, z) /\ SameReport(y, z) /\ y.wrote = z.wrote
      BY LateFacts
    <2>2. Fits(y)
      BY <1>9, <2>1 DEF SameCase, SameView, SameEnd, SameReport
    <2> QED BY <1>6, <1>9, <1>11, <2>1, <2>2
  <1> QED BY <1>5, <1>8, <1>10, <1>11

\* A comment of the target that a job has not written is another job's.
LEMMA FoundIsOthers ==
    ASSUME IInv, NEW j \in Jobs, "comment" \notin job[j].wrote,
           NEW n \in DOMAIN comments, KeyAt(comments, n) = KeyOf(job[j])
    PROVE  OtherWroteTo(j, KeyOf(job[j])) /\ OtherWroteAbout(j, Failure(job[j]).fp)
  <1>1. PICK i \in Jobs : "comment" \in job[i].wrote /\ KeyOf(job[i]) = KeyAt(comments, n)
    BY DEF IInv, CommentsOK
  <1>2. i # j /\ KeyOf(job[i]) = KeyOf(job[j])
    BY <1>1
  <1>3. CoarseOf[Failure(job[i]).fp] = CoarseOf[Failure(job[j]).fp]
    BY <1>2 DEF KeyOf
  <1>4. OtherWroteTo(j, KeyOf(job[j]))
    BY <1>1, <1>2 DEF OtherWroteTo
  <1>5. OtherWroteAbout(j, Failure(job[j]).fp)
    BY <1>1, <1>2, <1>3 DEF OtherWroteAbout
  <1> QED BY <1>4, <1>5

LEMMA OursFacts == \A m : Ours(m) = {n \in DOMAIN comments : KeyAt(comments, n) = KeyOf(m)}
  BY DEF Ours, KeyAt, KeyOf

LEMMA LookupKeeps ==
    ASSUME IInv, NEW j \in Jobs, Lookup(j)
    PROVE  IInv'
  <1> DEFINE m == job[j]
  <1>1. /\ m \in JobType /\ Local(m, "lookup") /\ pc[j] = "lookup" /\ j \in InFlight
        /\ UNCHANGED <<comments, tracked, clock, disturbed>>
    BY HereFacts DEF Lookup, InFlight
  <1>2. CASE \E n \in Ours(m) :
            /\ Newest(n, Ours(m))
            /\ Keep(j, [m EXCEPT !.existing = n, !.seen = comments[n].body,
                                 !.stamps = @ \union {comments[n].updated}])
            /\ Goto(j, "post")
    <2>1. PICK n \in Ours(m) :
            /\ Keep(j, [m EXCEPT !.existing = n, !.seen = comments[n].body,
                                 !.stamps = @ \union {comments[n].updated}])
            /\ Goto(j, "post")
      BY <1>2
    <2>2. n \in DOMAIN comments /\ KeyAt(comments, n) = KeyOf(m)
      BY OursFacts
    <2>3. comments[n] \in Comment /\ n \in 1 .. MaxComments
      BY <2>2, TypeFacts, TickAssumption DEF IInv
    <2>4. PICK body \in Body, t \in Times : body = comments[n].body /\ t = comments[n].updated
      BY <2>3 DEF Comment
    <2>5. n \in Slots
      BY <2>3 DEF Slots
    <2>6. PICK x \in JobType :
              /\ x = Found(m, n, body, t)
              /\ x.existing = n /\ x.seen = body /\ x.stamps = m.stamps \union {t}
              /\ (x.ref <=> m.ref) /\ x.wrote = m.wrote
              /\ SameCase(x, m) /\ SameEnd(x, m) /\ SameLate(x, m) /\ SameReport(x, m)
      BY <1>1, <2>5, FoundFacts
    <2>7. /\ x \in JobType /\ x.existing = n /\ x.seen = body /\ x.stamps = m.stamps \union {t}
          /\ (x.ref <=> m.ref) /\ x.wrote = m.wrote
      BY <2>6
    <2>8. SameCase(x, m) /\ SameEnd(x, m) /\ SameLate(x, m) /\ SameReport(x, m)
      BY <2>6
    <2>9. KeyOf(x) = KeyOf(m) /\ Failure(x) = Failure(m) /\ StageA(x) = StageA(m) /\ Channel(x) = Channel(m)
      BY <2>8, SameCaseFacts
    <2>10. "comment" \notin m.wrote /\ "comment" \notin m.delivered
      BY <1>1 DEF Local
    <2>11. Caused(j, x)
      BY <2>2, <2>9, <2>10, FoundIsOthers DEF Caused
    <2>12. Saw(j, x, comments)
      BY <2>2, <2>4, <2>7, <2>9 DEF Saw
    <2>13. There(j, x, comments)
      BY <2>8, <2>10 DEF There, SameReport
    <2>14. /\ Moves(j, x)
           /\ ~disturbed' => CalmMove(j, x, comments, comments', tracked')
      BY <1>1, <2>7, <2>8, <2>11, <2>12, <2>13, StillMoves DEF SameReport
    <2>15. job' = [job EXCEPT ![j] = x] /\ pc' = [pc EXCEPT ![j] = "post"]
      BY <2>1, <2>4, <2>6 DEF Keep, Goto, Found
    <2>16. Local(x, "post")
      BY <1>1, <2>7, <2>8, <2>9 DEF Local, SameReport, SameEnd, SameLate
    <2>17. ~disturbed' => CalmStep(j, x, "post", comments, comments', tracked')
      BY <2>3, <2>7, <2>14 DEF CalmMove, CalmStep
    <2> QED BY <2>7, <2>14, <2>15, <2>16, <2>17, JobStep DEF Places
  <1>3. CASE Ours(m) = {} /\ Goto(j, "post") /\ UNCHANGED job
    <2>1. SameCase(m, m) /\ SameView(m, m)
      BY DEF SameCase, SameView
    <2>2. /\ Moves(j, m)
          /\ ~disturbed' => CalmMove(j, m, comments, comments', tracked')
      BY <1>1, <2>1, StillAlike
    <2>3. job' = [job EXCEPT ![j] = m] /\ pc' = [pc EXCEPT ![j] = "post"]
      BY <1>3, TypeFacts DEF Goto, IInv
    <2>4. Local(m, "post")
      BY <1>1 DEF Local
    <2>5. NoneFor(m, comments')
      BY <1>1, <1>3, OursFacts DEF NoneFor
    <2>6. ~disturbed' => CalmStep(j, m, "post", comments, comments', tracked')
      BY <2>2, <2>5 DEF CalmMove, CalmStep
    <2> QED BY <1>1, <2>2, <2>3, <2>4, <2>6, JobStep DEF Places
  <1>4. CASE LookupFailed(j, m)
    <2>1. PICK a : a = [m EXCEPT !.attempted = @ \union {"comment"}]
      OBVIOUS
    <2>2. a \in JobType /\ SameCase(a, m) /\ SameView(a, m) /\ SameEnd(a, m) /\ a.wrote = m.wrote
          /\ a.delivered = m.delivered
      BY <1>1, <2>1, AttemptedFacts DEF Channels
    <2>3. PICK x \in JobType :
              /\ x = Failed(a, "comment") /\ x.failed /\ x.missed = a.missed \union {"comment"}
              /\ SameCase(x, a) /\ SameView(x, a) /\ SameEnd(x, a) /\ x.wrote = a.wrote
              /\ x.delivered = a.delivered
      BY <2>2, FailedFacts DEF Writes
    <2>4. SameCase(x, m) /\ SameView(x, m) /\ x.wrote = m.wrote /\ x.delivered = m.delivered /\ x.plan = m.plan
      BY <2>2, <2>3 DEF SameCase, SameView, SameEnd
    <2>5. /\ Moves(j, x)
          /\ ~disturbed' => CalmMove(j, x, comments, comments', tracked')
      BY <1>1, <2>4, StillAlike
    <2>6. a.missed = m.missed
      BY <1>1, <2>1, AttemptedFacts DEF Channels
    <2>7. Open(x)
      BY <1>1, <2>3, <2>4, <2>6 DEF Open, Local
    <2>8. AfterComment(j, x)
      BY <1>4, <2>1, <2>3 DEF LookupFailed
    <2> QED BY <2>5, <2>7, <2>8, AfterCommentKeeps
  <1> QED BY <1>2, <1>3, <1>4 DEF Lookup

\* What a job holds that is about to write its comment.
LEMMA PostFacts ==
    ASSUME IInv, NEW j \in Jobs, pc[j] = "post"
    PROVE  /\ j \in InFlight /\ job[j] \in JobType /\ Local(job[j], "post")
           /\ Attempted(j) \in JobType
           /\ SameCase(Attempted(j), job[j]) /\ SameView(Attempted(j), job[j])
           /\ Attempted(j).wrote = job[j].wrote /\ Attempted(j).plan = "unplanned"
           /\ Attempted(j).delivered = job[j].delivered /\ Attempted(j).missed = job[j].missed
           /\ "comment" \notin job[j].wrote /\ "comment" \notin job[j].delivered
           /\ (Attempted(j).failed <=> Attempted(j).missed # {}) /\ "chat" \notin Attempted(j).missed
           /\ StageA(job[j]) = "none" /\ Channel(job[j]) # "none"
           /\ BodyOf(j) = BodyIn(job[j])
  <1>1. j \in InFlight /\ job[j] \in JobType /\ Local(job[j], "post")
    BY HereFacts DEF InFlight
  <1>2. /\ job[j].plan = "unplanned" /\ "comment" \notin job[j].wrote /\ "comment" \notin job[j].delivered
        /\ (job[j].failed <=> job[j].missed # {}) /\ "chat" \notin job[j].missed
        /\ StageA(job[j]) = "none" /\ Channel(job[j]) # "none"
    BY <1>1 DEF Local
  <1>3. PICK a : a = [job[j] EXCEPT !.attempted = @ \union {"comment"}]
    OBVIOUS
  <1>4. a \in JobType /\ SameCase(a, job[j]) /\ SameView(a, job[j]) /\ SameEnd(a, job[j])
    BY <1>1, <1>3, AttemptedFacts DEF Channels
  <1>5. a.wrote = job[j].wrote /\ a.delivered = job[j].delivered /\ (a.failed <=> job[j].failed)
        /\ a.missed = job[j].missed
    BY <1>1, <1>3, AttemptedFacts DEF Channels
  <1>6. a = Attempted(j)
    BY <1>3 DEF Attempted
  <1>7. BodyOf(j) = BodyIn(job[j])
    BY DEF BodyOf, BodyIn
  <1> QED BY <1>1, <1>2, <1>4, <1>5, <1>6, <1>7 DEF SameEnd

LEMMA LeaveKeeps ==
    ASSUME IInv, NEW j \in Jobs, Leave(j)
    PROVE  IInv'
  <1> DEFINE m == Attempted(j)
  <1>1. pc[j] = "post" /\ UNCHANGED <<comments, tracked, clock, disturbed>>
    BY DEF Leave
  <1>2. /\ j \in InFlight /\ m \in JobType /\ SameCase(m, job[j]) /\ SameView(m, job[j])
        /\ m.wrote = job[j].wrote /\ m.plan = "unplanned" /\ job[j].plan = "unplanned"
        /\ m.delivered = job[j].delivered
        /\ (m.failed <=> m.missed # {}) /\ "chat" \notin m.missed
    BY <1>1, PostFacts DEF Local
  <1>3. CASE Unchanged(j) /\ AfterComment(j, Told(m))
    <2>1. PICK x \in JobType :
              /\ x = Told(m) /\ x.delivered = m.delivered \union {"comment"}
              /\ SameCase(x, m) /\ SameView(x, m) /\ SameEnd(x, m) /\ x.wrote = m.wrote
              /\ (x.failed <=> m.failed) /\ x.missed = m.missed
      BY <1>2, ToldFacts
    <2>2. SameCase(x, job[j]) /\ SameView(x, job[j]) /\ x.wrote = job[j].wrote /\ x.plan = job[j].plan
      BY <1>2, <2>1 DEF SameCase, SameView, SameEnd
    <2>3. There(j, x, comments)
      <3>1. Saw(j, job[j], comments) /\ job[j].existing # 0 /\ job[j].seen = BodyIn(job[j])
        BY <1>1, <1>3, HereFacts, PostFacts DEF Unchanged
      <3>2. KeyOf(x) = KeyOf(job[j])
        BY <2>2, SameCaseFacts
      <3>3. BodyIn(x) = BodyIn(job[j])
        <4>1. x.case = job[j].case /\ x.ref = job[j].ref
          BY <1>1, <2>2, HereFacts DEF SameCase, SameView, JobType
        <4> QED BY <4>1 DEF BodyIn
      <3> QED BY <3>1, <3>2, <3>3 DEF Saw, There
    <2>4. /\ Moves(j, x)
          /\ ~disturbed' => CalmMove(j, x, comments, comments', tracked')
      BY <1>1, <1>2, <2>1, <2>2, <2>3, StillAlike
    <2>5. Open(x)
      BY <1>2, <2>1 DEF Open, SameEnd
    <2> QED BY <1>3, <2>1, <2>4, <2>5, AfterCommentKeeps
  <1>4. CASE AfterComment(j, Late(m))
    <2>1. PICK x \in JobType :
              /\ x = Late(m) /\ x.late
              /\ SameCase(x, m) /\ SameView(x, m) /\ SameEnd(x, m) /\ SameReport(x, m) /\ x.wrote = m.wrote
      BY <1>2, LateFacts
    <2>2. SameCase(x, job[j]) /\ SameView(x, job[j]) /\ x.wrote = job[j].wrote /\ x.plan = job[j].plan
          /\ x.delivered = job[j].delivered
      BY <1>2, <2>1 DEF SameCase, SameView, SameEnd, SameReport
    <2>3. /\ Moves(j, x)
          /\ ~disturbed' => CalmMove(j, x, comments, comments', tracked')
      BY <1>1, <1>2, <2>2, StillAlike
    <2>4. Open(x)
      BY <1>2, <2>1 DEF Open, SameEnd, SameReport
    <2> QED BY <1>4, <2>1, <2>3, <2>4, AfterCommentKeeps
  <1>5. CASE AfterComment(j, Failed(m, "comment"))
    <2>1. PICK x \in JobType :
              /\ x = Failed(m, "comment") /\ x.failed /\ x.missed = m.missed \union {"comment"}
              /\ SameCase(x, m) /\ SameView(x, m) /\ SameEnd(x, m) /\ x.wrote = m.wrote
              /\ x.delivered = m.delivered
      BY <1>2, FailedFacts DEF Writes
    <2>2. SameCase(x, job[j]) /\ SameView(x, job[j]) /\ x.wrote = job[j].wrote /\ x.plan = job[j].plan
          /\ x.delivered = job[j].delivered
      BY <1>2, <2>1 DEF SameCase, SameView, SameEnd
    <2>3. /\ Moves(j, x)
          /\ ~disturbed' => CalmMove(j, x, comments, comments', tracked')
      BY <1>1, <1>2, <2>2, StillAlike
    <2>4. Open(x)
      BY <1>2, <2>1 DEF Open, SameEnd
    <2> QED BY <1>5, <2>1, <2>3, <2>4, AfterCommentKeeps
  <1> QED BY <1>3, <1>4, <1>5 DEF Leave

\* The comment lands: appended or edited, once.
LEMMA WriteMoves ==
    ASSUME IInv, NEW j \in Jobs, pc[j] = "post", NEW x \in JobType, SameCase(x, job[j]), SameView(x, job[j]),
           x.plan = "unplanned", x.wrote = job[j].wrote \union {"comment"},
           x.delivered \subseteq job[j].delivered \union {"comment"},
           UNCHANGED <<tracked, clock>>, disturbed' \in BOOLEAN, disturbed => disturbed',
           CommentsGrow(x, comments, comments'),
           \E n \in DOMAIN comments' : KeyAt(comments', n) = KeyOf(x) /\ comments'[n].body = BodyIn(x),
           ~disturbed' =>
               \/ \A n \in DOMAIN comments' : n \in DOMAIN comments
               \/ /\ job[j].existing = 0
                  /\ \A n, o \in DOMAIN comments' : (n \notin DOMAIN comments /\ o \notin DOMAIN comments) => n = o
    PROVE  /\ Moves(j, x)
           /\ ~disturbed' => CalmMove(j, x, comments, comments', tracked')
  <1>1. /\ j \in InFlight /\ job[j] \in JobType /\ "comment" \notin job[j].wrote
        /\ Caused(j, job[j]) /\ Saw(j, job[j], comments) /\ x.now <= clock
    BY PostFacts, HereFacts DEF SameCase
  <1>2. KeyOf(x) = KeyOf(job[j]) /\ Failure(x) = Failure(job[j])
    BY SameCaseFacts
  <1>3. TrackedGrows(x, tracked, tracked')
    BY TypeFacts DEF IInv, TrackedGrows
  <1>4. Caused(j, x)
    BY <1>1, <1>2 DEF Caused, SameView
  <1>5. Saw(j, x, comments')
    <2> SUFFICES ASSUME x.existing # 0
                 PROVE  /\ x.existing \in DOMAIN comments' /\ KeyAt(comments', x.existing) = KeyOf(x)
                        /\ OtherWroteTo(j, KeyOf(x))
      BY DEF Saw
    <2> DEFINE n == x.existing
    <2>1. n \in DOMAIN comments /\ KeyAt(comments, n) = KeyOf(job[j])
      BY <1>1 DEF Saw, SameView
    <2> HIDE DEF n
    <2>2. n \in DOMAIN comments' /\ KeyAt(comments', n) = KeyAt(comments, n)
      BY <2>1 DEF CommentsGrow
    <2>3. OtherWroteTo(j, KeyOf(job[j]))
      BY <1>1, <2>1, FoundIsOthers
    <2> QED BY <1>2, <2>1, <2>2, <2>3 DEF n
  <1>6. There(j, x, comments')
    BY DEF There
  <1>7. Moves(j, x)
    BY <1>1, <1>3, <1>4, <1>5, <1>6 DEF Moves
  <1>8. ASSUME ~disturbed' PROVE CalmMove(j, x, comments, comments', tracked')
    <2>1. Calm /\ JobCalm(j) /\ Informed(j, job[j]) /\ Stamped(job[j], tracked)
      BY <1>1, <1>8 DEF IInv, Calm, JobCalm
    <2>2. InFlight \subseteq {j}
      BY <1>1, <2>1 DEF Calm
    <2>3. job[j].existing = 0 => NoneFor(x, comments)
      BY <1>2, <2>1 DEF JobCalm, NoneFor
    <2>4. Stamped(x, tracked')
      BY <1>2, <2>1 DEF Stamped, SameCase
    <2>5. Informed(j, x)
      BY <1>2, <2>1 DEF Informed, BothWrote, SameCase, SameView
    <2> QED BY <1>8, <2>2, <2>3, <2>4, <2>5 DEF CalmMove
  <1> QED BY <1>7, <1>8

\* The three states a job may be in when its comment has landed.
LEMMA LandedFacts ==
    ASSUME IInv, NEW j \in Jobs, pc[j] = "post"
    PROVE  \E w \in JobType, x \in JobType, y \in JobType :
              /\ w = Wrote(Attempted(j)) /\ x = Told(w) /\ y = Failed(w, "comment")
              /\ SameCase(w, job[j]) /\ SameView(w, job[j]) /\ w.plan = "unplanned"
              /\ w.wrote = job[j].wrote \union {"comment"} /\ w.delivered = job[j].delivered
              /\ (w.failed <=> w.missed # {}) /\ "chat" \notin w.missed
              /\ SameCase(x, job[j]) /\ SameView(x, job[j]) /\ x.plan = "unplanned"
              /\ x.wrote = job[j].wrote \union {"comment"} /\ x.delivered = job[j].delivered \union {"comment"}
              /\ Open(x)
              /\ SameCase(y, job[j]) /\ SameView(y, job[j]) /\ y.plan = "unplanned"
              /\ y.wrote = job[j].wrote \union {"comment"} /\ y.delivered = job[j].delivered
              /\ Open(y)
  <1> DEFINE a == Attempted(j)
  <1>1. /\ a \in JobType /\ SameCase(a, job[j]) /\ SameView(a, job[j])
        /\ a.wrote = job[j].wrote /\ a.plan = "unplanned" /\ a.delivered = job[j].delivered
        /\ (a.failed <=> a.missed # {}) /\ "chat" \notin a.missed
    BY PostFacts
  <1>2. PICK w \in JobType :
           /\ w = Wrote(a) /\ w.wrote = a.wrote \union {"comment"}
           /\ SameCase(w, a) /\ SameView(w, a) /\ SameEnd(w, a) /\ SameReport(w, a)
    BY <1>1, WroteFacts
  <1>3. /\ SameCase(w, job[j]) /\ SameView(w, job[j]) /\ w.plan = "unplanned"
        /\ w.wrote = job[j].wrote \union {"comment"} /\ w.delivered = job[j].delivered
        /\ (w.failed <=> w.missed # {}) /\ "chat" \notin w.missed
    BY <1>1, <1>2 DEF SameCase, SameView, SameEnd, SameReport
  <1>4. PICK x \in JobType :
           /\ x = Told(w) /\ x.delivered = w.delivered \union {"comment"}
           /\ SameCase(x, w) /\ SameView(x, w) /\ SameEnd(x, w) /\ x.wrote = w.wrote
           /\ (x.failed <=> w.failed) /\ x.missed = w.missed
    BY ToldFacts
  <1>5. PICK y \in JobType :
           /\ y = Failed(w, "comment") /\ y.failed /\ y.missed = w.missed \union {"comment"}
           /\ SameCase(y, w) /\ SameView(y, w) /\ SameEnd(y, w) /\ y.wrote = w.wrote
           /\ y.delivered = w.delivered
    BY FailedFacts DEF Writes
  <1>6. /\ SameCase(x, job[j]) /\ SameView(x, job[j]) /\ x.plan = "unplanned"
        /\ x.wrote = job[j].wrote \union {"comment"} /\ x.delivered = job[j].delivered \union {"comment"}
    BY <1>3, <1>4 DEF SameCase, SameView, SameEnd
  <1>7. /\ SameCase(y, job[j]) /\ SameView(y, job[j]) /\ y.plan = "unplanned"
        /\ y.wrote = job[j].wrote \union {"comment"} /\ y.delivered = job[j].delivered
    BY <1>3, <1>5 DEF SameCase, SameView, SameEnd
  <1>8. Open(x) /\ Open(y)
    BY <1>3, <1>4, <1>5, <1>6, <1>7 DEF Open
  <1> QED BY <1>2, <1>3, <1>4, <1>5, <1>6, <1>7, <1>8

\* What a write posts: a comment of the job's target.
LEMMA PostedFacts ==
    ASSUME IInv, NEW j \in Jobs, pc[j] = "post"
    PROVE  /\ Posted(j) \in Comment /\ Posted(j).on = KeyOf(job[j])[1] /\ Posted(j).key = KeyOf(job[j])[2]
           /\ Posted(j).body = BodyIn(job[j])
  <1>1. job[j] \in JobType /\ Channel(job[j]) \in {"pr", "commit"}
    BY PostFacts, ChannelTypes
  <1>2. CoarseOf[Failure(job[j]).fp] \in Coarse /\ job[j].case.run \in Runs /\ job[j].ref \in BOOLEAN
    BY <1>1, CaseFacts DEF JobType
  <1>3. BodyOf(j) \in Body /\ BodyOf(j) = BodyIn(job[j])
    BY <1>2 DEF BodyOf, Body, BodyIn
  <1>4. clock \in Times
    BY TypeFacts DEF IInv
  <1> QED BY <1>1, <1>2, <1>3, <1>4 DEF Posted, Comment, KeyOf

LEMMA EditKeeps ==
    ASSUME IInv, NEW j \in Jobs, Edit(j)
    PROVE  IInv'
  <1>1. /\ pc[j] = "post" /\ job[j].existing # 0 /\ UNCHANGED <<tracked, clock, disturbed>>
        /\ comments' = Edited(j)
    BY DEF Edit, MayWrite
  <1>2. PICK w \in JobType, x \in JobType, y \in JobType :
              /\ w = Wrote(Attempted(j)) /\ x = Told(w) /\ y = Failed(w, "comment")
              /\ SameCase(w, job[j]) /\ SameView(w, job[j]) /\ w.plan = "unplanned"
              /\ w.wrote = job[j].wrote \union {"comment"} /\ w.delivered = job[j].delivered
              /\ (w.failed <=> w.missed # {}) /\ "chat" \notin w.missed
              /\ SameCase(x, job[j]) /\ SameView(x, job[j]) /\ x.plan = "unplanned"
              /\ x.wrote = job[j].wrote \union {"comment"} /\ x.delivered = job[j].delivered \union {"comment"}
              /\ Open(x)
              /\ SameCase(y, job[j]) /\ SameView(y, job[j]) /\ y.plan = "unplanned"
              /\ y.wrote = job[j].wrote \union {"comment"} /\ y.delivered = job[j].delivered
              /\ Open(y)
    BY <1>1, LandedFacts
  <1>3. PICK n : n = job[j].existing
    OBVIOUS
  <1>4. n \in DOMAIN comments /\ KeyAt(comments, n) = KeyOf(job[j])
    BY <1>1, <1>3, HereFacts DEF Saw
  <1>5. PICK c \in Comment : /\ c = Posted(j) /\ c.on = KeyOf(job[j])[1] /\ c.key = KeyOf(job[j])[2]
                             /\ c.body = BodyIn(job[j])
    BY <1>1, PostedFacts
  <1>6. comments' = [comments EXCEPT ![n] = c] /\ comments \in Seq(Comment) /\ Len(comments) <= MaxComments
    BY <1>1, <1>3, <1>5, TypeFacts DEF Edited, IInv
  <1>7. /\ comments' \in Seq(Comment) /\ Len(comments') = Len(comments) /\ DOMAIN comments' = DOMAIN comments
        /\ comments'[n] = c /\ \A o \in DOMAIN comments : o # n => comments'[o] = comments[o]
    BY <1>4, <1>6
  <1>8. KeyAt(comments', n) = KeyOf(job[j])
    BY <1>5, <1>7 DEF KeyAt, KeyOf
  <1>9. ASSUME NEW z \in JobType, SameCase(z, job[j]), SameView(z, job[j]), "comment" \in z.wrote
        PROVE  /\ CommentsGrow(z, comments, comments')
               /\ \E o \in DOMAIN comments' : KeyAt(comments', o) = KeyOf(z) /\ comments'[o].body = BodyIn(z)
    <2>1. KeyOf(z) = KeyOf(job[j])
      BY <1>9, SameCaseFacts
    <2>2. BodyIn(z) = BodyIn(job[j])
      <3>1. z.case = job[j].case /\ z.ref = job[j].ref
        BY <1>9, HereFacts DEF SameCase, SameView, JobType
      <3> QED BY <3>1 DEF BodyIn
    <2>3. ASSUME NEW o \in DOMAIN comments
          PROVE  /\ o \in DOMAIN comments' /\ KeyAt(comments', o) = KeyAt(comments, o)
                 /\ comments'[o].body = comments[o].body \/ KeyOf(z) = KeyAt(comments, o)
      <3>1. CASE o = n
        BY <1>4, <1>7, <1>8, <2>1, <3>1
      <3>2. CASE o # n
        BY <1>7, <2>3, <3>2 DEF KeyAt
      <3> QED BY <3>1, <3>2
    <2>4. CommentsGrow(z, comments, comments')
      BY <1>6, <1>7, <1>9, <2>3 DEF CommentsGrow
    <2> QED BY <1>4, <1>5, <1>7, <1>8, <2>1, <2>2, <2>4
  <1>10. disturbed' \in BOOLEAN /\ (disturbed => disturbed')
    BY <1>1, TypeFacts DEF IInv
  <1>11. CASE AfterComment(j, Told(w))
    <2>1. /\ CommentsGrow(x, comments, comments')
          /\ \E o \in DOMAIN comments' : KeyAt(comments', o) = KeyOf(x) /\ comments'[o].body = BodyIn(x)
      BY <1>2, <1>9
    <2>2. /\ Moves(j, x)
          /\ ~disturbed' => CalmMove(j, x, comments, comments', tracked')
      BY <1>1, <1>2, <1>7, <1>10, <2>1, WriteMoves
    <2> QED BY <1>2, <1>11, <2>2, AfterCommentKeeps
  <1>12. CASE AfterComment(j, Failed(w, "comment"))
    <2>1. /\ CommentsGrow(y, comments, comments')
          /\ \E o \in DOMAIN comments' : KeyAt(comments', o) = KeyOf(y) /\ comments'[o].body = BodyIn(y)
      BY <1>2, <1>9
    <2>2. /\ Moves(j, y)
          /\ ~disturbed' => CalmMove(j, y, comments, comments', tracked')
      BY <1>1, <1>2, <1>7, <1>10, <2>1, WriteMoves
    <2> QED BY <1>2, <1>12, <2>2, AfterCommentKeeps
  <1> QED BY <1>2, <1>11, <1>12 DEF Edit

\* A comment is appended.
LEMMA AppendFacts ==
    ASSUME IInv, NEW j \in Jobs, pc[j] = "post", NEW d, d \in Seq(Comment), Len(d) <= MaxComments,
           Len(d) > Len(comments),
           \A n \in DOMAIN comments : d[n] = comments[n],
           \A n \in DOMAIN d : n > Len(comments) => d[n] = Posted(j),
           NEW z \in JobType, SameCase(z, job[j]), SameView(z, job[j]), "comment" \in z.wrote
    PROVE  /\ CommentsGrow(z, comments, d)
           /\ \E o \in DOMAIN d : KeyAt(d, o) = KeyOf(z) /\ d[o].body = BodyIn(z)
  <1>1. KeyOf(z) = KeyOf(job[j])
    BY SameCaseFacts
  <1>2. BodyIn(z) = BodyIn(job[j])
    <2>1. z.case = job[j].case /\ z.ref = job[j].ref
      BY HereFacts DEF SameCase, SameView, JobType
    <2> QED BY <2>1 DEF BodyIn
  <1>3. PICK c \in Comment : /\ c = Posted(j) /\ c.on = KeyOf(job[j])[1] /\ c.key = KeyOf(job[j])[2]
                             /\ c.body = BodyIn(job[j])
    BY PostedFacts
  <1>4. ASSUME NEW n \in DOMAIN d, n \notin DOMAIN comments
        PROVE  KeyAt(d, n) = KeyOf(z) /\ d[n].body = BodyIn(z)
    <2>1. n > Len(comments)
      BY <1>4, TypeFacts DEF IInv
    <2>2. d[n] = c
      BY <1>3, <2>1
    <2> QED BY <1>1, <1>2, <1>3, <2>2 DEF KeyAt, KeyOf
  <1>5. \A n \in DOMAIN comments : n \in DOMAIN d /\ KeyAt(d, n) = KeyAt(comments, n) /\ d[n].body = comments[n].body
    BY TypeFacts DEF IInv, KeyAt
  <1>6. CommentsGrow(z, comments, d)
    BY <1>4, <1>5 DEF CommentsGrow
  <1>7. Len(d) \in DOMAIN d /\ Len(d) \notin DOMAIN comments
    BY TypeFacts DEF IInv
  <1> QED BY <1>4, <1>6, <1>7

LEMMA CreateKeeps ==
    ASSUME IInv, NEW j \in Jobs, Create(j)
    PROVE  IInv'
  <1>1. /\ pc[j] = "post" /\ job[j].existing = 0 /\ UNCHANGED <<tracked, clock, disturbed>>
        /\ Len(comments) < MaxComments
    BY DEF Create, MayWrite
  <1>2. PICK w \in JobType, x \in JobType, y \in JobType :
              /\ w = Wrote(Attempted(j)) /\ x = Told(w) /\ y = Failed(w, "comment")
              /\ SameCase(w, job[j]) /\ SameView(w, job[j]) /\ w.plan = "unplanned"
              /\ w.wrote = job[j].wrote \union {"comment"} /\ w.delivered = job[j].delivered
              /\ (w.failed <=> w.missed # {}) /\ "chat" \notin w.missed
              /\ SameCase(x, job[j]) /\ SameView(x, job[j]) /\ x.plan = "unplanned"
              /\ x.wrote = job[j].wrote \union {"comment"} /\ x.delivered = job[j].delivered \union {"comment"}
              /\ Open(x)
              /\ SameCase(y, job[j]) /\ SameView(y, job[j]) /\ y.plan = "unplanned"
              /\ y.wrote = job[j].wrote \union {"comment"} /\ y.delivered = job[j].delivered
              /\ Open(y)
    BY <1>1, LandedFacts
  <1>3. /\ j \in InFlight /\ Attempted(j) \in JobType
        /\ SameCase(Attempted(j), job[j]) /\ SameView(Attempted(j), job[j])
        /\ Attempted(j).wrote = job[j].wrote /\ Attempted(j).plan = "unplanned" /\ job[j].plan = "unplanned"
        /\ Attempted(j).delivered = job[j].delivered
        /\ (Attempted(j).failed <=> Attempted(j).missed # {}) /\ "chat" \notin Attempted(j).missed
        /\ StageA(job[j]) = "none" /\ Channel(job[j]) # "none"
        /\ "comment" \notin job[j].delivered
    BY <1>1, PostFacts DEF Local
  <1>4. ASSUME NEW z \in JobType, SameCase(z, job[j]), SameView(z, job[j]), z.plan = "unplanned",
               z.wrote = job[j].wrote \union {"comment"},
               z.delivered \subseteq job[j].delivered \union {"comment"},
               comments' = Append(comments, Posted(j))
        PROVE  /\ Moves(j, z)
               /\ ~disturbed' => CalmMove(j, z, comments, comments', tracked')
    <2>1. comments \in Seq(Comment) /\ Posted(j) \in Comment
      BY <1>1, TypeFacts, PostedFacts DEF IInv
    <2>2. PICK c \in Comment : c = Posted(j)
      BY <2>1
    <2>3. comments' = Append(comments, c)
      BY <1>4, <2>2
    <2>4. /\ comments' \in Seq(Comment) /\ Len(comments') = Len(comments) + 1
          /\ \A n \in DOMAIN comments : comments'[n] = comments[n]
          /\ comments'[Len(comments) + 1] = c
          /\ DOMAIN comments = 1 .. Len(comments) /\ DOMAIN comments' = 1 .. (Len(comments) + 1)
          /\ Len(comments) \in Nat
      BY <2>1, <2>3
    <2>5. \A n \in DOMAIN comments' : n > Len(comments) => comments'[n] = Posted(j)
      BY <2>2, <2>4
    <2>6. Len(comments') <= MaxComments /\ Len(comments') > Len(comments)
      BY <1>1, <2>4, TickAssumption
    <2>7. /\ CommentsGrow(z, comments, comments')
          /\ \E o \in DOMAIN comments' : KeyAt(comments', o) = KeyOf(z) /\ comments'[o].body = BodyIn(z)
      <3>1. PICK d : d = comments'
        OBVIOUS
      <3>2. /\ d \in Seq(Comment) /\ Len(d) <= MaxComments /\ Len(d) > Len(comments)
            /\ \A n \in DOMAIN comments : d[n] = comments[n]
            /\ \A n \in DOMAIN d : n > Len(comments) => d[n] = Posted(j)
        BY <3>1, <2>4, <2>5, <2>6
      <3>3. z \in JobType /\ SameCase(z, job[j]) /\ SameView(z, job[j]) /\ "comment" \in z.wrote
        BY <1>4
      <3>4. /\ CommentsGrow(z, comments, d)
            /\ \E o \in DOMAIN d : KeyAt(d, o) = KeyOf(z) /\ d[o].body = BodyIn(z)
        BY <1>1, <3>2, <3>3, AppendFacts
      <3> QED BY <3>1, <3>4
    <2>8. \A n, o \in DOMAIN comments' : (n \notin DOMAIN comments /\ o \notin DOMAIN comments) => n = o
      BY <2>4
    <2>9. disturbed' \in BOOLEAN /\ (disturbed => disturbed')
      BY <1>1, TypeFacts DEF IInv
    <2> QED BY <1>1, <1>4, <2>7, <2>8, <2>9, WriteMoves
  <1>5. CASE comments' = Append(comments, Posted(j)) /\ AfterComment(j, x)
    <2>1. /\ Moves(j, x)
          /\ ~disturbed' => CalmMove(j, x, comments, comments', tracked')
      BY <1>2, <1>4, <1>5
    <2> QED BY <1>2, <1>5, <2>1, AfterCommentKeeps
  <1>6. CASE comments' = Append(comments, Posted(j)) /\ AfterComment(j, y)
    <2>1. /\ Moves(j, y)
          /\ ~disturbed' => CalmMove(j, y, comments, comments', tracked')
      BY <1>2, <1>4, <1>6
    <2> QED BY <1>2, <1>6, <2>1, AfterCommentKeeps
  <1>7. CASE comments' = Append(comments, Posted(j)) /\ Keep(j, w) /\ Goto(j, "confirm")
    <2>1. /\ Moves(j, w)
          /\ ~disturbed' => CalmMove(j, w, comments, comments', tracked')
      BY <1>2, <1>4, <1>7
    <2>2. StageA(w) = "none" /\ Channel(w) # "none"
      BY <1>2, <1>3, SameCaseFacts
    <2>3. Local(w, "confirm")
      BY <1>2, <1>3, <2>2 DEF Local
    <2>4. ~disturbed' => CalmStep(j, w, "confirm", comments, comments', tracked')
      BY <2>1 DEF CalmMove, CalmStep
    <2>5. job' = [job EXCEPT ![j] = w] /\ pc' = [pc EXCEPT ![j] = "confirm"]
      BY <1>7 DEF Keep, Goto
    <2> QED BY <1>2, <2>1, <2>3, <2>4, <2>5, JobStep DEF Places
  <1>8. CASE Keep(j, Attempted(j)) /\ Goto(j, "confirm") /\ UNCHANGED comments
    <2> DEFINE a == Attempted(j)
    <2>1. /\ Moves(j, a)
          /\ ~disturbed' => CalmMove(j, a, comments, comments', tracked')
      BY <1>1, <1>3, <1>8, StillAlike
    <2>2. StageA(a) = "none" /\ Channel(a) # "none"
      BY <1>3, SameCaseFacts
    <2>3. Local(a, "confirm")
      BY <1>3, <2>2 DEF Local
    <2>4. ~disturbed' => CalmStep(j, a, "confirm", comments, comments', tracked')
      BY <2>1 DEF CalmMove, CalmStep
    <2>5. job' = [job EXCEPT ![j] = a] /\ pc' = [pc EXCEPT ![j] = "confirm"]
      BY <1>8 DEF Keep, Goto
    <2> QED BY <1>3, <2>1, <2>3, <2>4, <2>5, JobStep DEF Places
  <1> QED BY <1>2, <1>5, <1>6, <1>7, <1>8 DEF Create

LEMMA CreateTwiceKeeps ==
    ASSUME IInv, NEW j \in Jobs, CreateTwice(j)
    PROVE  IInv'
  <1>1. /\ pc[j] = "post" /\ UNCHANGED <<tracked, clock>> /\ disturbed' = TRUE
        /\ Len(comments) + 2 <= MaxComments /\ comments' = comments \o <<Posted(j), Posted(j)>>
        /\ AfterComment(j, Told(Wrote(Attempted(j))))
    BY DEF CreateTwice, MayWrite
  <1>2. PICK w \in JobType, x \in JobType, y \in JobType :
              /\ w = Wrote(Attempted(j)) /\ x = Told(w)
              /\ SameCase(x, job[j]) /\ SameView(x, job[j]) /\ x.plan = "unplanned"
              /\ x.wrote = job[j].wrote \union {"comment"} /\ x.delivered = job[j].delivered \union {"comment"}
              /\ Open(x)
    BY <1>1, LandedFacts
  <1>3. comments \in Seq(Comment) /\ Posted(j) \in Comment
    BY <1>1, TypeFacts, PostedFacts DEF IInv
  <1>4. PICK c \in Comment : c = Posted(j)
    BY <1>3
  <1>5. comments' = comments \o <<c, c>> /\ <<c, c>> \in Seq(Comment) /\ Len(<<c, c>>) = 2
        /\ <<c, c>>[1] = c /\ <<c, c>>[2] = c
    BY <1>1, <1>4
  <1>6. /\ comments' \in Seq(Comment) /\ Len(comments') = Len(comments) + 2
        /\ \A n \in DOMAIN comments : comments'[n] = comments[n]
        /\ \A n \in DOMAIN comments' : n > Len(comments) => comments'[n] = c
        /\ Len(comments) \in Nat
    BY <1>3, <1>5
  <1>7. Len(comments') <= MaxComments /\ Len(comments') > Len(comments)
    BY <1>1, <1>6, TickAssumption
  <1>8. /\ CommentsGrow(x, comments, comments')
        /\ \E o \in DOMAIN comments' : KeyAt(comments', o) = KeyOf(x) /\ comments'[o].body = BodyIn(x)
    <2>1. PICK d : d = comments'
      OBVIOUS
    <2>2. /\ d \in Seq(Comment) /\ Len(d) <= MaxComments /\ Len(d) > Len(comments)
          /\ \A n \in DOMAIN comments : d[n] = comments[n]
          /\ \A n \in DOMAIN d : n > Len(comments) => d[n] = Posted(j)
      BY <2>1, <1>6, <1>7, <1>4
    <2>3. x \in JobType /\ SameCase(x, job[j]) /\ SameView(x, job[j]) /\ "comment" \in x.wrote
      BY <1>2
    <2>4. /\ CommentsGrow(x, comments, d)
          /\ \E o \in DOMAIN d : KeyAt(d, o) = KeyOf(x) /\ d[o].body = BodyIn(x)
      BY <1>1, <2>2, <2>3, AppendFacts
    <2> QED BY <2>1, <2>4
  <1>9. Moves(j, x)
    BY <1>1, <1>2, <1>8, WriteMoves
  <1> QED BY <1>1, <1>2, <1>9, AfterCommentKeeps

LEMMA ConfirmKeeps ==
    ASSUME IInv, NEW j \in Jobs, Confirm(j)
    PROVE  IInv'
  <1> DEFINE m == job[j]
  <1>1. /\ m \in JobType /\ Local(m, "confirm") /\ pc[j] = "confirm" /\ j \in InFlight
        /\ UNCHANGED <<comments, tracked, clock, disturbed>>
    BY HereFacts DEF Confirm, InFlight
  <1>2. /\ m.plan = "unplanned" /\ (m.failed <=> m.missed # {}) /\ "chat" \notin m.missed
    BY <1>1 DEF Local
  <1>3. CASE (\E n \in Ours(m) : comments[n].body = BodyOf(j)) /\ AfterComment(j, Told(m))
    <2>1. PICK x \in JobType :
              /\ x = Told(m) /\ x.delivered = m.delivered \union {"comment"}
              /\ SameCase(x, m) /\ SameView(x, m) /\ SameEnd(x, m) /\ x.wrote = m.wrote
              /\ (x.failed <=> m.failed) /\ x.missed = m.missed
      BY <1>1, ToldFacts
    <2>2. PICK n \in DOMAIN comments : KeyAt(comments, n) = KeyOf(m) /\ comments[n].body = BodyIn(m)
      BY <1>3, OursFacts DEF BodyOf, BodyIn
    <2>3. KeyOf(x) = KeyOf(m)
      BY <2>1, SameCaseFacts
    <2>4. BodyIn(x) = BodyIn(m)
      <3>1. x.case = m.case /\ x.ref = m.ref
        BY <1>1, <2>1 DEF SameCase, SameView, JobType
      <3> QED BY <3>1 DEF BodyIn
    <2>5. There(j, x, comments)
      BY <2>2, <2>3, <2>4 DEF There
    <2>6. /\ Moves(j, x)
          /\ ~disturbed' => CalmMove(j, x, comments, comments', tracked')
      BY <1>1, <2>1, <2>5, StillAlike DEF SameEnd
    <2>7. Open(x)
      BY <1>2, <2>1 DEF Open, SameEnd
    <2> QED BY <1>3, <2>1, <2>6, <2>7, AfterCommentKeeps
  <1>4. CASE AfterComment(j, Failed(m, "comment"))
    <2>1. PICK x \in JobType :
              /\ x = Failed(m, "comment") /\ x.failed /\ x.missed = m.missed \union {"comment"}
              /\ SameCase(x, m) /\ SameView(x, m) /\ SameEnd(x, m) /\ x.wrote = m.wrote
              /\ x.delivered = m.delivered
      BY <1>1, FailedFacts DEF Writes
    <2>2. /\ Moves(j, x)
          /\ ~disturbed' => CalmMove(j, x, comments, comments', tracked')
      BY <1>1, <2>1, StillAlike DEF SameEnd
    <2>3. Open(x)
      BY <1>2, <2>1 DEF Open, SameEnd
    <2> QED BY <1>4, <2>1, <2>2, <2>3, AfterCommentKeeps
  <1> QED BY <1>3, <1>4 DEF Confirm

LEMMA LabelKeeps ==
    ASSUME IInv, NEW j \in Jobs, Label(j)
    PROVE  IInv'
  <1> DEFINE m == job[j]
  <1>1. /\ m \in JobType /\ Local(m, "label") /\ pc[j] = "label" /\ j \in InFlight
        /\ UNCHANGED <<comments, tracked, clock, disturbed>>
    BY HereFacts DEF Label, InFlight
  <1>2. /\ m.plan = "unplanned" /\ (m.failed <=> m.missed # {}) /\ "chat" \notin m.missed
        /\ StageA(m) # "none"
    BY <1>1 DEF Local
  <1>3. CASE ToNotify(j, [m EXCEPT !.delivered = @ \union {"label"}])
    <2>1. PICK x \in JobType :
              /\ x = Sent(m, "label") /\ x.delivered = m.delivered \union {"label"} /\ x.wrote = m.wrote
              /\ SameCase(x, m) /\ SameView(x, m) /\ SameEnd(x, m) /\ SameLate(x, m)
              /\ (x.failed <=> m.failed) /\ x.missed = m.missed
      BY <1>1, DeliveredFacts DEF Writes
    <2>2. /\ Moves(j, x)
          /\ ~disturbed' => CalmMove(j, x, comments, comments', tracked')
      BY <1>1, <2>1, StillAlike DEF SameEnd
    <2>3. Open(x)
      BY <1>2, <2>1, SameCaseFacts DEF Open, SameEnd
    <2>4. ToNotify(j, x)
      BY <1>3, <2>1 DEF Sent
    <2> QED BY <2>2, <2>3, <2>4, ToNotifyKeeps
  <1>4. CASE ToNotify(j, Late(m))
    <2>1. PICK x \in JobType :
              /\ x = Late(m) /\ x.late
              /\ SameCase(x, m) /\ SameView(x, m) /\ SameEnd(x, m) /\ SameReport(x, m) /\ x.wrote = m.wrote
      BY <1>1, LateFacts
    <2>2. /\ Moves(j, x)
          /\ ~disturbed' => CalmMove(j, x, comments, comments', tracked')
      BY <1>1, <2>1, StillAlike DEF SameEnd, SameReport
    <2>3. Open(x)
      BY <1>2, <2>1 DEF Open, SameEnd, SameReport
    <2> QED BY <1>4, <2>1, <2>2, <2>3, ToNotifyKeeps
  <1>5. CASE ToNotify(j, Failed(m, "label"))
    <2>1. PICK x \in JobType :
              /\ x = Failed(m, "label") /\ x.failed /\ x.missed = m.missed \union {"label"}
              /\ SameCase(x, m) /\ SameView(x, m) /\ SameEnd(x, m) /\ x.wrote = m.wrote
              /\ x.delivered = m.delivered
      BY <1>1, FailedFacts DEF Writes
    <2>2. /\ Moves(j, x)
          /\ ~disturbed' => CalmMove(j, x, comments, comments', tracked')
      BY <1>1, <2>1, StillAlike DEF SameEnd
    <2>3. Open(x)
      BY <1>2, <2>1 DEF Open, SameEnd
    <2> QED BY <1>5, <2>1, <2>2, <2>3, ToNotifyKeeps
  <1> QED BY <1>3, <1>4, <1>5 DEF Label

LEMMA ResettledFacts ==
    ASSUME NEW m \in JobType, NEW failed \in BOOLEAN
    PROVE  \E x \in JobType :
              /\ x = Resettled(m, failed)
              /\ x.suppressed = IF m.suppressed = "delivery_error" /\ m.delivered # {} THEN "none"
                                ELSE IF failed /\ m.delivered = {} /\ m.attempted = {} /\ m.suppressed = "none"
                                     THEN "delivery_error"
                                ELSE m.suppressed
              /\ x.plan = m.plan /\ x.wrote = m.wrote
              /\ SameCase(x, m) /\ SameView(x, m) /\ SameReport(x, m)
  <1> DEFINE r == IF m.suppressed = "delivery_error" /\ m.delivered # {} THEN "none"
                  ELSE IF failed /\ m.delivered = {} /\ m.attempted = {} /\ m.suppressed = "none"
                       THEN "delivery_error"
                  ELSE m.suppressed
  <1>1. r \in Reports
    BY DEF Reports, JobType
  <1>2. Resettled(m, failed) = [m EXCEPT !.suppressed = r]
    BY DEF Resettled
  <1> HIDE DEF r
  <1>3. ASSUME NEW x, x = [m EXCEPT !.suppressed = r]
        PROVE  /\ x \in JobType /\ x.suppressed = r /\ x.plan = m.plan /\ x.wrote = m.wrote
               /\ SameCase(x, m) /\ SameView(x, m) /\ SameReport(x, m)
    BY <1>1, <1>3, SuppressedFacts
  <1>4. \E x \in JobType : /\ x = Resettled(m, failed) /\ x.suppressed = r /\ x.plan = m.plan /\ x.wrote = m.wrote
                           /\ SameCase(x, m) /\ SameView(x, m) /\ SameReport(x, m)
    BY <1>2, <1>3
  <1> QED BY <1>4 DEF r

\* A delivery ends.  One that sends after another has, both with the issue, has
\* seen a stamp no older than the other's start, outside the window.
LEMMA DoneKeeps ==
    ASSUME IInv, NEW j \in Jobs, pc[j] = "notify", NEW y \in JobType,
           UNCHANGED <<comments, tracked, clock, disturbed>>,
           SameCase(y, job[j]), y.wrote = job[j].wrote, y.ref <=> job[j].ref,
           y.plan = "quiet" => job[j].stamps # {},
           y.plan = "send" => ~Quiet(job[j]),
           y.delivered \subseteq job[j].delivered \union {"chat"},
           StageA(job[j]) = "none" => Honest(y),
           Done(j, y)
    PROVE  IInv'
  <1> DEFINE m == job[j]
  <1>1. /\ j \in InFlight /\ m \in JobType /\ Local(m, "notify") /\ m.now <= clock /\ m.now \in Nat
        /\ Caused(j, m) /\ There(j, m, comments)
    BY HereFacts DEF InFlight
  <1>2. PICK z \in JobType :
           /\ z = Wiped(y) /\ Cleared(z) /\ z.wrote = y.wrote
           /\ z.delivered = y.delivered /\ z.missed = y.missed /\ (z.ref <=> y.ref)
           /\ SameCase(z, y) /\ SameEnd(z, y)
    BY DoneFacts
  <1>3. job' = [job EXCEPT ![j] = z] /\ pc' = [pc EXCEPT ![j] = "done"]
    BY <1>2 DEF Done, Wiped, Keep, Goto
  <1>4. /\ SameCase(z, m) /\ z.wrote = m.wrote /\ (z.ref <=> m.ref) /\ z.now = m.now
        /\ KeyOf(z) = KeyOf(m) /\ Failure(z) = Failure(m) /\ StageA(z) = StageA(m)
    <2>1. SameCase(z, m) /\ z.now = m.now
      BY <1>2 DEF SameCase
    <2> QED BY <1>2, <2>1, SameCaseFacts
  <1>5. BodyIn(z) = BodyIn(m)
    <2>1. z.case = m.case /\ z.ref = m.ref
      BY <1>1, <1>2, <1>4 DEF SameCase, JobType
    <2> QED BY <2>1 DEF BodyIn
  <1>6. Honest(y) => Honest(z)
    BY <1>2 DEF Honest, SameEnd
  <1>7. Local(z, "done")
    BY <1>2, <1>4, <1>6 DEF Local
  <1>8. Caused(j, z)
    BY <1>1, <1>2, <1>4 DEF Caused, Cleared, SameEnd
  <1>9. Saw(j, z, comments)
    BY <1>2 DEF Saw, Cleared
  <1>10. There(j, z, comments)
    BY <1>1, <1>2, <1>4, <1>5 DEF There
  <1>11. CommentsGrow(z, comments, comments') /\ TrackedGrows(z, tracked, tracked')
    BY TypeFacts DEF IInv, CommentsGrow, TrackedGrows, KeyAt
  <1>12. Moves(j, z)
    BY <1>1, <1>4, <1>8, <1>9, <1>10, <1>11, TypeFacts DEF Moves, IInv
  <1>13. ASSUME ~disturbed' PROVE CalmStep(j, z, "done", comments, comments', tracked')
    <2>1. Calm /\ JobCalm(j) /\ Informed(j, m) /\ Stamped(m, tracked)
      BY <1>1, <1>13 DEF IInv, Calm, JobCalm
    <2>2. InFlight \subseteq {j}
      BY <1>1, <2>1 DEF Calm
    <2>3. "issue" \in z.delivered => "issue" \in m.delivered
      BY <1>2
    <2>4. Stamped(z, tracked')
      BY <1>4, <2>1, <2>3 DEF Stamped
    <2>5. ASSUME NEW p \in Jobs \ {j}, BothWrote(z, p), z.plan = "send"
          PROVE  z.now - job[p].now > Window
      <3>1. BothWrote(m, p)
        BY <1>4, <2>3, <2>5 DEF BothWrote
      <3>2. PICK t \in m.stamps : job[p].now <= t /\ t <= m.now
        BY <2>1, <2>5, <3>1 DEF Informed
      <3>3. ~Quiet(m)
        BY <1>2, <2>5 DEF SameEnd
      <3>4. ~(0 <= m.now - t /\ m.now - t <= Window)
        BY <3>2, <3>3 DEF Quiet, InQuietWindow, Within
      <3>5. t \in Nat /\ job[p].now \in Nat /\ Window \in Nat
        <4>1. t \in Times /\ job[p] \in JobType
          BY <1>1, TypeFacts DEF IInv, JobType
        <4> QED BY <4>1, TickAssumption DEF JobType, Times
      <3> QED BY <1>1, <1>4, <3>2, <3>4, <3>5
    <2>6. Spaced(j, z)
      BY <2>5 DEF Spaced
    <2> QED BY <2>2, <2>4, <2>6 DEF CalmStep
  <1> QED BY <1>2, <1>3, <1>7, <1>12, <1>13, JobStep DEF Places

LEMMA NotifyKeeps ==
    ASSUME IInv, NEW j \in Jobs, Notify(j)
    PROVE  IInv'
  <1> DEFINE b == job[j]
  <1>1. PICK m \in JobType : m = b
    BY HereFacts
  <1>2. /\ pc[j] = "notify" /\ UNCHANGED <<comments, tracked, clock, disturbed>>
        /\ Local(m, "notify")
    BY <1>1, HereFacts DEF Notify
  <1>3. /\ m.plan = "unplanned" /\ (m.failed <=> m.missed # {}) /\ "chat" \notin m.missed
        /\ m.suppressed = Settlement(m)
        /\ StageA(m) = "none" /\ m.attempted # {} => m.delivered # {} \/ m.missed # {} \/ m.ref \/ m.late
    BY <1>2 DEF Local
  <1>4. ASSUME NEW p \in Plans, Done(j, Planned(m, p)), p = "quiet" => Quiet(m), p # "send"
        PROVE  IInv'
    <2>1. PICK x \in JobType :
             /\ x = Planned(m, p) /\ x.plan = p /\ x.suppressed = m.suppressed /\ x.wrote = m.wrote
             /\ SameCase(x, m) /\ SameView(x, m) /\ SameReport(x, m)
      BY PlannedFacts
    <2>2. StageA(m) = "none" => Honest(x)
      BY <1>3, <2>1 DEF Honest, Settlement, SameReport
    <2>3. Quiet(m) => m.stamps # {}
      BY DEF Quiet, InQuietWindow
    <2>4. Done(j, x) /\ x.delivered = m.delivered /\ (x.ref <=> m.ref)
      BY <1>4, <2>1 DEF SameReport, SameView
    <2> QED BY <1>1, <1>2, <1>4, <2>1, <2>2, <2>3, <2>4, DoneKeeps
  <1>5. PICK s \in JobType :
           /\ s = Planned(m, "send") /\ s.plan = "send" /\ s.suppressed = m.suppressed /\ s.wrote = m.wrote
           /\ SameCase(s, m) /\ SameView(s, m) /\ SameReport(s, m) /\ SameLate(s, m)
    BY PlannedFacts DEF Plans
  <1>6. ASSUME NEW x \in JobType, x.plan = "send", x.wrote = m.wrote, SameCase(x, m), SameView(x, m),
               x.delivered \subseteq m.delivered \union {"chat"},
               StageA(m) = "none" => Honest(x), ~Quiet(m), Done(j, x)
        PROVE  IInv'
    BY <1>1, <1>2, <1>6, DoneKeeps DEF SameView
  <1>7. CASE ~Quiet(m) /\ Done(j, Resettled(Sent(s, "chat"), FALSE))
    <2>1. PICK y \in JobType :
             /\ y = Sent(s, "chat") /\ y.delivered = s.delivered \union {"chat"} /\ y.wrote = s.wrote
             /\ SameCase(y, s) /\ SameView(y, s) /\ SameEnd(y, s)
             /\ y.missed = s.missed
      BY DeliveredFacts DEF Writes
    <2>2. PICK x \in JobType :
              /\ x = Resettled(y, FALSE)
              /\ x.suppressed = IF y.suppressed = "delivery_error" /\ y.delivered # {} THEN "none"
                                ELSE IF FALSE /\ y.delivered = {} /\ y.attempted = {} /\ y.suppressed = "none"
                                     THEN "delivery_error"
                                ELSE y.suppressed
              /\ x.plan = y.plan /\ x.wrote = y.wrote
              /\ SameCase(x, y) /\ SameView(x, y) /\ SameReport(x, y)
      BY ResettledFacts
    <2>3. SameCase(x, m) /\ SameView(x, m) /\ x.plan = "send" /\ x.wrote = m.wrote
          /\ x.delivered = m.delivered \union {"chat"}
      <3>1. SameCase(x, m)
        BY <1>5, <2>1, <2>2 DEF SameCase
      <3>2. SameView(x, m)
        BY <1>5, <2>1, <2>2 DEF SameView
      <3>3. x.plan = "send" /\ x.wrote = m.wrote
        BY <1>5, <2>1, <2>2 DEF SameEnd
      <3>4. x.delivered = m.delivered \union {"chat"}
        BY <1>5, <2>1, <2>2 DEF SameReport
      <3> QED BY <3>1, <3>2, <3>3, <3>4
    <2>4. y.delivered # {} /\ x.delivered # {}
      BY <2>1, <2>3
    <2>5. x.suppressed # "delivery_error"
      BY <2>2, <2>4
    <2>6. Honest(x)
      BY <2>4, <2>5 DEF Honest
    <2> QED BY <1>6, <1>7, <2>1, <2>2, <2>3, <2>6
  <1>8. CASE ~Quiet(m) /\ InTime(m) /\ Done(j, Resettled(Missed(s, "chat"), TRUE))
    <2>1. PICK y \in JobType :
             /\ y = Missed(s, "chat") /\ y.missed = s.missed \union {"chat"} /\ y.wrote = s.wrote
             /\ SameCase(y, s) /\ SameView(y, s) /\ SameEnd(y, s)
             /\ y.attempted = s.attempted /\ y.delivered = s.delivered
      BY MissedFacts DEF Writes
    <2>2. PICK x \in JobType :
              /\ x = Resettled(y, TRUE)
              /\ x.suppressed = IF y.suppressed = "delivery_error" /\ y.delivered # {} THEN "none"
                                ELSE IF TRUE /\ y.delivered = {} /\ y.attempted = {} /\ y.suppressed = "none"
                                     THEN "delivery_error"
                                ELSE y.suppressed
              /\ x.plan = y.plan /\ x.wrote = y.wrote
              /\ SameCase(x, y) /\ SameView(x, y) /\ SameReport(x, y)
      BY ResettledFacts
    <2>3. y.suppressed = m.suppressed /\ y.delivered = m.delivered /\ y.attempted = m.attempted
          /\ y.missed = m.missed \union {"chat"} /\ y.plan = "send" /\ y.wrote = m.wrote
      BY <1>5, <2>1 DEF SameEnd, SameReport
    <2>4. SameCase(y, m) /\ SameView(y, m)
      BY <1>5, <2>1 DEF SameCase, SameView
    <2>5. SameCase(x, m) /\ SameView(x, m)
      BY <2>2, <2>4 DEF SameCase, SameView
    <2>6. x.delivered = y.delivered /\ x.missed = y.missed
      BY <2>2 DEF SameReport
    <2>7. SameCase(x, m) /\ SameView(x, m) /\ x.plan = "send" /\ x.wrote = m.wrote
          /\ x.delivered = m.delivered /\ x.missed = m.missed \union {"chat"}
      BY <2>2, <2>3, <2>5, <2>6
    <2>8. x.suppressed = IF m.suppressed = "delivery_error" /\ m.delivered # {} THEN "none"
                         ELSE IF m.delivered = {} /\ m.attempted = {} /\ m.suppressed = "none"
                              THEN "delivery_error"
                         ELSE m.suppressed
      BY <2>2, <2>3
    <2>9. ~m.late
      BY <1>8 DEF InTime
    <2>10. (x.ref <=> m.ref)
      BY <2>7 DEF SameView
    <2>11. ASSUME StageA(m) = "none" PROVE Honest(x)
      <3>1. m.suppressed = IF m.missed # {} /\ m.delivered = {} THEN "delivery_error" ELSE "none"
        BY <1>3, <2>11 DEF Settlement
      <3>2. x.suppressed = "delivery_error" => x.missed # {} /\ x.delivered = {}
        BY <2>7, <2>8, <3>1
      <3>3. ASSUME x.delivered = {}, x.suppressed # "delivery_error"
            PROVE  x.missed = {"chat"} /\ x.ref
        <4>1. m.missed = {} /\ m.suppressed = "none" /\ m.attempted # {}
          BY <2>7, <2>8, <3>1, <3>3
        <4> QED BY <1>3, <2>7, <2>9, <2>10, <2>11, <3>3, <4>1
      <3> QED BY <3>2, <3>3 DEF Honest
    <2> QED BY <1>6, <1>8, <2>1, <2>2, <2>7, <2>11
  <1>9. CASE ~Quiet(m) /\ Done(j, Resettled(s, FALSE))
    <2>1. PICK x \in JobType :
              /\ x = Resettled(s, FALSE)
              /\ x.suppressed = IF s.suppressed = "delivery_error" /\ s.delivered # {} THEN "none"
                                ELSE IF FALSE /\ s.delivered = {} /\ s.attempted = {} /\ s.suppressed = "none"
                                     THEN "delivery_error"
                                ELSE s.suppressed
              /\ x.plan = s.plan /\ x.wrote = s.wrote
              /\ SameCase(x, s) /\ SameView(x, s) /\ SameReport(x, s)
      BY ResettledFacts
    <2>2. SameCase(x, m) /\ SameView(x, m) /\ x.plan = "send" /\ x.wrote = m.wrote
          /\ x.delivered = m.delivered /\ x.missed = m.missed
      BY <1>5, <2>1 DEF SameCase, SameView, SameReport
    <2>3. ASSUME StageA(m) = "none" PROVE Honest(x)
      <3>1. m.suppressed = IF m.missed # {} /\ m.delivered = {} THEN "delivery_error" ELSE "none"
        BY <1>3, <2>3 DEF Settlement
      <3>2. x.suppressed = m.suppressed
        BY <1>5, <2>1, <3>1 DEF SameReport
      <3> QED BY <2>2, <3>1, <3>2 DEF Honest
    <2> QED BY <1>6, <1>9, <2>1, <2>2, <2>3
  <1>10. \/ Done(j, Planned(m, "none"))
         \/ Quiet(m) /\ Done(j, Planned(m, "quiet"))
         \/ Done(j, Planned(m, "joined"))
         \/ ~Quiet(m) /\ Done(j, Resettled(Sent(s, "chat"), FALSE))
         \/ ~Quiet(m) /\ InTime(m) /\ Done(j, Resettled(Missed(s, "chat"), TRUE))
         \/ ~Quiet(m) /\ Done(j, Resettled(s, FALSE))
    BY <1>1, <1>5 DEF Notify, Planned, Sent, Missed
  <1>11. CASE Done(j, Planned(m, "none"))
    BY <1>4, <1>11 DEF Plans
  <1>12. CASE Quiet(m) /\ Done(j, Planned(m, "quiet"))
    BY <1>4, <1>12 DEF Plans
  <1>13. CASE Done(j, Planned(m, "joined"))
    BY <1>4, <1>13 DEF Plans
  <1> QED BY <1>7, <1>8, <1>9, <1>10, <1>11, <1>12, <1>13

LEMMA CrashKeeps ==
    ASSUME IInv, NEW j \in Jobs, Crash(j)
    PROVE  IInv'
  <1> DEFINE m == job[j]
  <1>1. /\ j \in InFlight /\ UNCHANGED <<comments, tracked, clock, disturbed>>
        /\ m \in JobType /\ m.now <= clock
    BY HereFacts DEF Crash
  <1>2. m.case \in Cases /\ m.now \in Times /\ m.wrote \in SUBSET Landed
    BY <1>1 DEF JobType
  <1>3. PICK e \in JobType : /\ e = Blank(m.case, m.now) /\ e.case = m.case /\ e.now = m.now
                             /\ Fresh(e) /\ Open(e) /\ Cleared(e)
    BY <1>2, BlankFacts
  <1>4. PICK w \in SUBSET Landed : w = m.wrote
    BY <1>2
  <1>5. PICK x : x = [e EXCEPT !.wrote = w]
    OBVIOUS
  <1>6. /\ x \in JobType /\ x.wrote = w /\ SameCase(x, e) /\ SameView(x, e) /\ SameEnd(x, e) /\ SameReport(x, e)
    BY <1>5 DEF JobType, SameCase, SameView, SameEnd, SameReport
  <1>7. /\ SameCase(x, m) /\ x.wrote = m.wrote /\ x.delivered = {} /\ x.plan = "unplanned" /\ Cleared(x)
    BY <1>3, <1>4, <1>6 DEF SameCase, SameView, SameEnd, SameReport, Fresh, Open, Cleared
  <1>8. job' = [job EXCEPT ![j] = x] /\ pc' = [pc EXCEPT ![j] = "killed"]
    BY <1>3, <1>4, <1>5 DEF Crash, Keep, Goto
  <1>9. Caused(j, x) /\ Saw(j, x, comments) /\ There(j, x, comments)
    BY <1>7 DEF Caused, Saw, There, Cleared
  <1>10. CommentsGrow(x, comments, comments') /\ TrackedGrows(x, tracked, tracked')
    BY <1>1, TypeFacts DEF IInv, CommentsGrow, TrackedGrows, KeyAt
  <1>11. Moves(j, x)
    <2>1. x.now <= clock /\ disturbed' \in BOOLEAN /\ (disturbed => disturbed')
      BY <1>1, <1>7, TypeFacts DEF IInv, SameCase
    <2> QED BY <1>1, <1>7, <1>9, <1>10, <2>1 DEF Moves
  <1>12. Local(x, "killed")
    BY <1>7 DEF Local
  <1>13. ASSUME ~disturbed' PROVE CalmStep(j, x, "killed", comments, comments', tracked')
    <2>1. InFlight \subseteq {j}
      BY <1>1, <1>13 DEF IInv, Calm
    <2> QED BY <1>1, <1>7, <2>1 DEF CalmStep, Stamped
  <1> QED BY <1>1, <1>6, <1>8, <1>11, <1>12, <1>13, JobStep DEF Places, InFlight

\* Time passes, or nothing happens.
LEMMA TimeKeeps ==
    ASSUME IInv, clock' \in Times, clock <= clock', UNCHANGED <<comments, tracked, pc, job, disturbed>>
    PROVE  IInv'
  <1>1. clock \in Nat /\ clock' \in Nat
    BY TypeFacts, TickAssumption DEF IInv, Times
  <1>2. TypeOK'
    BY DEF IInv, TypeOK
  <1>3. \A j \in Jobs : job[j].now \in Nat /\ job[j].now <= clock
    BY HereFacts
  <1>4. \A j \in Jobs : JobOK(j)'
    <2> SUFFICES ASSUME NEW j \in Jobs PROVE JobOK(j)'
      OBVIOUS
    <2>1. JobOK(j)
      BY DEF IInv
    <2>2. Caused(j, job[j]) = Caused(j, job[j])' /\ Saw(j, job[j], comments) = Saw(j, job[j], comments)'
          /\ There(j, job[j], comments) = There(j, job[j], comments)' /\ Local(job[j], pc[j]) = Local(job[j], pc[j])'
      BY DEF Caused, Saw, There, Local, OtherWroteAbout, OtherWroteTo, KeyOf, KeyAt, BodyIn, Failure, Channel, Ctx,
             Fresh, Cleared, StageA, Settlement, Honest
    <2>3. (job[j].now <= clock)'
      BY <1>1, <1>3
    <2> QED BY <2>1, <2>2, <2>3 DEF JobOK
  <1>5. CommentsOK'
    BY DEF IInv, CommentsOK, KeyOf, KeyAt, Failure, Channel, Ctx
  <1>6. TrackedOK'
    <2>1. \A fp \in Fingerprints : \A t \in tracked[fp] : t \in Nat
      BY TypeFacts, TickAssumption DEF IInv, Times
    <2>2. \A fp \in Fingerprints : \A t \in tracked[fp] : t <= clock'
      BY <1>1, <2>1 DEF IInv, TrackedOK
    <2> QED BY <2>2 DEF IInv, TrackedOK, Failure
  <1>7. Calm => Calm'
    BY DEF Calm, JobCalm, InFlight, KeyAt, KeyOf, NoneFor, Stamped, Informed, Spaced, BothWrote, Failure, Channel, Ctx
  <1> QED BY <1>2, <1>4, <1>5, <1>6, <1>7 DEF IInv

LEMMA TickKeeps ==
    ASSUME IInv, Tick
    PROVE  IInv'
  <1>1. clock' \in Times /\ clock <= clock' /\ UNCHANGED <<comments, tracked, pc, job, disturbed>>
    BY TypeFacts, TickAssumption DEF IInv, Tick, Times
  <1> QED BY <1>1, TimeKeeps

LEMMA InitInv == Init => IInv
  <1> SUFFICES ASSUME Init PROVE IInv
    OBVIOUS
  <1>1. AnyCase \in Cases /\ 0 \in Times
    BY CaseAssumption, TickAssumption DEF AnyCase, Times
  <1>2. PICK m \in JobType : m = Blank(AnyCase, 0) /\ m.now = 0 /\ Fresh(m) /\ Open(m)
    BY <1>1, BlankFacts
  <1>3. /\ comments = <<>> /\ tracked = [fp \in Fingerprints |-> {}] /\ clock = 0
        /\ pc = [j \in Jobs |-> "idle"] /\ job = [j \in Jobs |-> m] /\ disturbed = FALSE
    BY <1>2 DEF Init
  <1>4. TypeOK
    <2>1. comments \in Seq(Comment) /\ Len(comments) <= MaxComments
      BY <1>3, TickAssumption
    <2>2. tracked \in [Fingerprints -> SUBSET Times]
      BY <1>3
    <2>3. job \in [Jobs -> JobType]
      BY <1>3
    <2>4. pc \in [Jobs -> Places]
      BY <1>3 DEF Places
    <2> QED BY <1>1, <1>3, <2>1, <2>2, <2>3, <2>4 DEF TypeOK, Places, JobType, Reports, Plans, Channels, Landed
  <1>5. ASSUME NEW j \in Jobs PROVE JobOK(j)
    <2>1. job[j] = m /\ pc[j] = "idle"
      BY <1>3
    <2>2. Local(m, "idle")
      BY <1>2 DEF Local, Open
    <2>3. Caused(j, m) /\ Saw(j, m, comments) /\ There(j, m, comments)
      BY <1>2 DEF Caused, Saw, There, Fresh, Open
    <2>4. m.now <= clock
      BY <1>2, <1>3
    <2> QED BY <2>1, <2>2, <2>3, <2>4 DEF JobOK
  <1>6. CommentsOK /\ TrackedOK
    BY <1>3 DEF CommentsOK, TrackedOK
  <1>7. InFlight = {}
    BY <1>3 DEF InFlight
  <1>8. ASSUME NEW j \in Jobs PROVE JobCalm(j)
    <2>1. job[j] = m /\ pc[j] = "idle" /\ m.delivered = {}
      BY <1>2, <1>3 DEF Fresh
    <2> QED BY <1>7, <2>1 DEF JobCalm, Stamped
  <1>9. \A n, o \in DOMAIN comments : n = o
    BY <1>3
  <1>10. Calm
    BY <1>7, <1>8, <1>9 DEF Calm
  <1> QED BY <1>4, <1>5, <1>6, <1>10 DEF IInv

LEMMA StepInv == IInv /\ [Next]_vars => IInv'
  <1> SUFFICES ASSUME IInv, [Next]_vars PROVE IInv'
    OBVIOUS
  <1>1. ASSUME NEW j \in Jobs, Start(j) PROVE IInv'
    BY <1>1, StartKeeps
  <1>2. ASSUME NEW j \in Jobs, Issue(j) PROVE IInv'
    BY <1>2, IssueKeeps
  <1>15. ASSUME NEW j \in Jobs, IssueTwice(j) PROVE IInv'
    BY <1>15, IssueTwiceKeeps
  <1>3. ASSUME NEW j \in Jobs, Lookup(j) PROVE IInv'
    BY <1>3, LookupKeeps
  <1>4. ASSUME NEW j \in Jobs, Leave(j) PROVE IInv'
    BY <1>4, LeaveKeeps
  <1>5. ASSUME NEW j \in Jobs, Edit(j) PROVE IInv'
    BY <1>5, EditKeeps
  <1>6. ASSUME NEW j \in Jobs, Create(j) PROVE IInv'
    BY <1>6, CreateKeeps
  <1>7. ASSUME NEW j \in Jobs, CreateTwice(j) PROVE IInv'
    BY <1>7, CreateTwiceKeeps
  <1>8. ASSUME NEW j \in Jobs, Confirm(j) PROVE IInv'
    BY <1>8, ConfirmKeeps
  <1>9. ASSUME NEW j \in Jobs, Label(j) PROVE IInv'
    BY <1>9, LabelKeeps
  <1>10. ASSUME NEW j \in Jobs, Notify(j) PROVE IInv'
    BY <1>10, NotifyKeeps
  <1>11. ASSUME NEW j \in Jobs, Crash(j) PROVE IInv'
    BY <1>11, CrashKeeps
  <1>12. CASE Tick
    BY <1>12, TickKeeps
  <1>13. CASE UNCHANGED vars
    <2>1. clock' \in Times /\ clock <= clock' /\ UNCHANGED <<comments, tracked, pc, job, disturbed>>
      BY <1>13, TypeFacts DEF IInv, vars
    <2> QED BY <2>1, TimeKeeps
  <1>14. CASE Next
    BY <1>1, <1>2, <1>3, <1>4, <1>5, <1>6, <1>7, <1>8, <1>9, <1>10, <1>11, <1>12, <1>14, <1>15 DEF Next, Step
  <1> QED BY <1>13, <1>14

LEMMA Invariance == Spec => []IInv
  BY InitInv, StepInv, PTL DEF Spec

-----------------------------------------------------------------------------
(* The theorems.                                                           *)

\* Every job holds, at every step of every delivery, a value of the outcome
\* dictionary's type, and never more comments or stamps than the bounds allow
\* (deliver/__init__.py, sticky.py).
THEOREM TypesAreKept == Spec => []TypeOK
  <1>1. IInv => TypeOK
    BY DEF IInv
  <1> QED BY <1>1, Invariance, PTL

\* Deliveries that do not overlap leave at most one comment per target and coarse
\* fingerprint, whatever fails and wherever they are cancelled, unless a create
\* lands twice at the server: post_or_update edits what find_existing found and
\* creates, at most once, only where it found none.
THEOREM OneCommentIsLeft == Spec => []OneComment
  <1>1. ASSUME IInv PROVE OneComment
    <2> SUFFICES ASSUME ~disturbed, NEW k \in {"pr", "commit"} \X Coarse
                 PROVE  Cardinality(Comments(k)) <= 1
      BY DEF OneComment
    <2>1. \A n, o \in Comments(k) : n = o
      BY <1>1 DEF Comments, IInv, Calm, KeyAt
    <2>2. CASE Comments(k) = {}
      <3>1. Cardinality(Comments(k)) = 0
        BY <2>2, FS_EmptySet
      <3> QED BY <3>1
    <2>3. CASE Comments(k) # {}
      <3>1. PICK n : Comments(k) = {n}
        BY <2>1, <2>3
      <3>2. Cardinality({n}) = 1
        BY FS_Singleton
      <3> QED BY <3>1, <3>2
    <2> QED BY <2>2, <2>3
  <1> QED BY <1>1, Invariance, PTL

\* What a finished delivery reports as delivered to the comment is on the target,
\* as it was written, unless another delivery has written to the same target
\* about the same coarse fingerprint: post_or_update never replaces the comment
\* of another failure.
THEOREM WhatIsReportedIsThere == Spec => []DeliveredIsThere
  <1>1. ASSUME IInv PROVE DeliveredIsThere
    <2> SUFFICES ASSUME NEW j \in Jobs, "comment" \in job[j].delivered
                 PROVE  \/ \E n \in Comments(Key(j)) : comments[n].body = BodyOf(j)
                        \/ \E i \in Jobs \ {j} : "comment" \in job[i].wrote /\ Key(i) = Key(j)
      BY DEF DeliveredIsThere
    <2>1. There(j, job[j], comments)
      BY <1>1, HereFacts
    <2>2. \A i : Key(i) = KeyOf(job[i])
      BY DEF Key, KeyOf
    <2>3. BodyOf(j) = BodyIn(job[j])
      BY DEF BodyOf, BodyIn
    <2>4. CASE OtherWroteTo(j, KeyOf(job[j]))
      BY <2>2, <2>4 DEF OtherWroteTo
    <2>5. CASE \E n \in DOMAIN comments : KeyAt(comments, n) = KeyOf(job[j]) /\ comments[n].body = BodyIn(job[j])
      BY <2>2, <2>3, <2>5 DEF Comments, KeyAt
    <2> QED BY <2>1, <2>4, <2>5 DEF There
  <1> QED BY <1>1, Invariance, PTL

\* A finished delivery that was not suppressed reports a delivery error only when
\* some write or send of it failed and nothing was delivered, and whenever that is
\* so but for a failed notification about an issue that was up to date already
\* (_deliver_comment, _settle_delivery_error).
THEOREM ErrorsAreHonest == Spec => []ErrorIsHonest
  <1>1. ASSUME IInv PROVE ErrorIsHonest
    <2>1. ASSUME NEW j \in Jobs, pc[j] = "done", StageA(job[j]) = "none" PROVE Honest(job[j])
      <3>1. Local(job[j], "done")
        BY <1>1, <2>1, HereFacts
      <3> QED BY <2>1, <3>1 DEF Local
    <2> QED BY <2>1 DEF ErrorIsHonest, Honest
  <1> QED BY <1>1, Invariance, PTL

\* Of two deliveries of one fingerprint that do not overlap, start within the
\* quiet window of each other and both write the issue, only the first notifies:
\* the second has read the issue's updated_at before it wrote there itself.
THEOREM WindowNotifiesOnce == Spec => []NotifiedOnce
  <1>1. ASSUME IInv PROVE NotifiedOnce
    <2> SUFFICES ASSUME ~disturbed, NEW p \in Jobs, NEW q \in Jobs,
                        p # q, pc[p] = "done", pc[q] = "done",
                        Failure(job[p]).fp = Failure(job[q]).fp,
                        "issue" \in job[p].delivered \intersect job[q].delivered,
                        job[p].plan = "send", job[q].plan = "send"
                 PROVE  job[q].now - job[p].now > Window \/ job[p].now - job[q].now > Window
      BY DEF NotifiedOnce
    <2>1. Spaced(p, job[p])
      BY <1>1 DEF IInv, Calm, JobCalm
    <2>2. BothWrote(job[p], q)
      BY DEF BothWrote
    <2> QED BY <2>1, <2>2 DEF Spaced
  <1> QED BY <1>1, Invariance, PTL

\* A notification is held back as a repetition only when another delivery has
\* written about the same coarse fingerprint (in_quiet_window), or the delivery's
\* own issue was created twice (deliver/issues.py, _create).
THEOREM QuietIsCaused == Spec => []QuietHasCause
  <1>1. ASSUME IInv PROVE QuietHasCause
    <2>1. \A j \in Jobs : Caused(j, job[j])
      BY <1>1, HereFacts
    <2> QED BY <2>1 DEF QuietHasCause, OtherWrote, Caused, OtherWroteAbout
  <1> QED BY <1>1, Invariance, PTL
=============================================================================
