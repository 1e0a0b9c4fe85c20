--------------------------- MODULE IssuesStoreProofs ---------------------------
(***************************************************************************)
(* Proofs about IssuesStore, for any number of jobs, failures, fingerprints*)
(* and faults: the inductive invariant, what each action does in terms of  *)
(* the fields it changes, and the index.  IssuesHistoryProofs builds on it.*)
(***************************************************************************)
EXTENDS IssuesStore, SequenceTheorems, TLAPS

USE RunIdCapAssumption, MaxDayAssumption, NoOneAssumption, FpOfAssumption,
    RunOfAssumption, AuthorAssumption, ProcsAssumption, BoundAssumption

-----------------------------------------------------------------------------
(* Records *)

LEMMA FirstRecordType ==
    ASSUME NEW r \in RunIds, NEW t \in Days
    PROVE  FirstRecord(r, t) \in Record /\ WellFormed(FirstRecord(r, t))
<1>1. <<r>> \in Seq(RunIds) /\ Len(<<r>>) = 1 /\ DOMAIN <<r>> = {1} OBVIOUS
<1> QED BY <1>1 DEF FirstRecord, Record, WellFormed, NoRunTwice, CountCovers

LEMMA UnreadableType == Unreadable \in Record /\ WellFormed(Unreadable)
BY DEF Unreadable, Record, WellFormed, NoRunTwice, CountCovers, Days

LEMMA RememberProperties ==
    ASSUME NEW runs \in Seq(RunIds), NEW r \in RunIds, Len(runs) <= RunIdCap
    PROVE  LET new == Remember(runs, r)
               old == IF Len(runs) < RunIdCap THEN 0 ELSE 1 IN
           /\ new \in Seq(RunIds)
           /\ Len(new) = Len(runs) + 1 - old
           /\ new[Len(new)] = r
           /\ \A i \in 1 .. Len(new) - 1 : new[i] = runs[i + old]
<1>1. CASE Len(runs) < RunIdCap
  BY <1>1 DEF Remember
<1>2. CASE ~(Len(runs) < RunIdCap)
  <2>1. /\ Len(runs) = RunIdCap /\ runs # <<>>
        /\ Remember(runs, r) = Append(Tail(runs), r)
    BY <1>2 DEF Remember
  <2>2. /\ Tail(runs) \in Seq(RunIds) /\ Len(Tail(runs)) = Len(runs) - 1
        /\ \A i \in 1 .. Len(Tail(runs)) : Tail(runs)[i] = runs[i + 1]
    BY <2>1, HeadTailProperties
  <2> QED BY <1>2, <2>1, <2>2
<1> QED BY <1>1, <1>2

LEMMA AbsorbType ==
    ASSUME NEW rec \in Record, NEW r \in RunIds, NEW t \in Days
    PROVE  Absorb(rec, r, t) \in Record
<1>1. CASE Counted(rec, r)
  BY <1>1 DEF Absorb
<1>2. CASE ~Counted(rec, r)
  <2>1. /\ rec.runs \in Seq(RunIds) /\ rec.count + 1 \in Nat
        /\ (IF t > rec.seen THEN t ELSE rec.seen) \in Days
    BY DEF Record
  <2>2. Remember(rec.runs, r) \in Seq(RunIds)
    BY <2>1 DEF Remember
  <2>3. Absorb(rec, r, t) = [rec EXCEPT !.runs  = Remember(rec.runs, r),
                                        !.count = rec.count + 1,
                                        !.seen  = IF t > rec.seen THEN t ELSE rec.seen]
    BY <1>2 DEF Absorb
  <2> HIDE DEF Remember
  <2> QED BY <2>1, <2>2, <2>3 DEF Record
<1> QED BY <1>1, <1>2

LEMMA AbsorbWellFormed ==
    ASSUME NEW rec \in Record, WellFormed(rec), NEW r \in RunIds, NEW t \in Days
    PROVE  WellFormed(Absorb(rec, r, t))
<1>1. CASE Counted(rec, r)
  BY <1>1 DEF Absorb
<1>2. CASE ~Counted(rec, r)
  <2> DEFINE new == Remember(rec.runs, r)
  <2>1. rec.runs \in Seq(RunIds) /\ rec.count \in Nat
    BY DEF Record
  <2>2. Absorb(rec, r, t).runs = new /\ Absorb(rec, r, t).count = rec.count + 1
    BY <1>2 DEF Absorb, Record
  <2>3. \A i \in DOMAIN rec.runs : rec.runs[i] # r
    BY <1>2 DEF Counted
  <2>4. \A i, j \in DOMAIN new : new[i] = new[j] => i = j
    <3> DEFINE old == IF Len(rec.runs) < RunIdCap THEN 0 ELSE 1
    <3>1. Len(rec.runs) <= RunIdCap /\ NoRunTwice(rec)
      BY <2>1 DEF WellFormed, CountCovers
    <3>2. /\ new \in Seq(RunIds) /\ Len(new) = Len(rec.runs) + 1 - old
          /\ new[Len(new)] = r
          /\ \A i \in 1 .. Len(new) - 1 : new[i] = rec.runs[i + old]
      BY <2>1, <3>1, RememberProperties
    <3>3. DOMAIN new = 1 .. Len(new) /\ Len(new) \in Nat
      BY <3>2, LenProperties
    <3>4. old \in Nat /\ DOMAIN rec.runs = 1 .. Len(rec.runs) /\ Len(rec.runs) \in Nat
      BY <2>1, LenProperties
    <3> HIDE DEF new, old
    <3>5. \A i \in 1 .. Len(new) - 1 : i + old \in DOMAIN rec.runs
      BY <3>2, <3>3, <3>4
    <3>6. \A i \in 1 .. Len(new) - 1 : new[i] # r
      BY <2>3, <3>2, <3>5
    <3>7. \A i, j \in 1 .. Len(new) - 1 : new[i] = new[j] => i = j
      <4> TAKE i, j \in 1 .. Len(new) - 1
      <4> HAVE new[i] = new[j]
      <4>1. rec.runs[i + old] = rec.runs[j + old]
        BY <3>2
      <4>2. i + old = j + old
        BY <4>1, <3>1, <3>5 DEF NoRunTwice
      <4> QED BY <4>2, <3>3, <3>4
    <3>8. ASSUME NEW i \in DOMAIN new, NEW j \in DOMAIN new, new[i] = new[j]
          PROVE  i = j
      <4>1. CASE i = Len(new) \/ j = Len(new)
        BY <4>1, <3>2, <3>6, <3>3, <3>8
      <4>2. CASE i # Len(new) /\ j # Len(new)
        BY <4>2, <3>7, <3>3, <3>8
      <4> QED BY <4>1, <4>2
    <3> QED BY <3>8
  <2>5. Len(new) = IF rec.count + 1 < RunIdCap THEN rec.count + 1 ELSE RunIdCap
    BY <2>1 DEF Remember, WellFormed, CountCovers
  <2> QED BY <2>2, <2>4, <2>5 DEF WellFormed, NoRunTwice, CountCovers
<1> QED BY <1>1, <1>2

-----------------------------------------------------------------------------
(* Issues *)

LEMMA PatchProperties ==
    ASSUME issues \in Seq(Issue), NEW n \in DOMAIN issues,
           NEW rec \in Record, NEW status \in Statuses
    PROVE  /\ Patch(n, rec, status) \in Seq(Issue)
           /\ Len(Patch(n, rec, status)) = Len(issues)
           /\ \A m \in DOMAIN issues : m # n => Patch(n, rec, status)[m] = issues[m]
           /\ Patch(n, rec, status)[n].fp = issues[n].fp
           /\ Patch(n, rec, status)[n].rec = rec
           /\ Patch(n, rec, status)[n].status = status
<1> DEFINE e == [issues[n] EXCEPT !.rec = rec, !.status = status]
<1>1. n \in 1 .. Len(issues) /\ issues[n] \in Issue
  BY ElementOfSeq
<1>2. e \in Issue /\ e.fp = issues[n].fp /\ e.rec = rec /\ e.status = status
  BY <1>1 DEF Issue
<1>3. Patch(n, rec, status) = [issues EXCEPT ![n] = e]
  BY DEF Patch
<1> HIDE DEF e
<1> QED BY <1>1, <1>2, <1>3, ExceptSeq

-----------------------------------------------------------------------------
(* What a delivery holds in memory *)

LEMMA BlankType == Blank \in LocType
<1>1. NoIndex \in IndexMap
  BY DEF NoIndex, IndexMap
<1>2. <<>> \in Seq(Issue) /\ {} \in SUBSET Numbers /\ 0 \in 0 .. MaxIssues /\ 0 \in 0 .. SweepMax
  BY EmptySeq
<1> QED BY <1>1, <1>2, UnreadableType DEF Blank, LocType, Results

LEMMA LateType ==
    ASSUME NEW l \in LocType
    PROVE  /\ Late(l) \in LocType
           /\ Late(l).scan = l.scan /\ Late(l).num = l.num /\ Late(l).own = l.own
           /\ Late(l).todo = l.todo /\ Late(l).snap = l.snap
BY DEF Late, LocType

LEMMA ScannedType ==
    ASSUME NEW l \in LocType, NEW list \in Seq(Issue)
    PROVE  /\ Scanned(l, list) \in LocType /\ ScanFailed(l) \in LocType
           /\ Scanned(l, list).scan = list /\ ScanFailed(l).scan = <<>>
           /\ Scanned(l, list).own = l.own /\ ScanFailed(l).own = l.own
           /\ Scanned(l, list).snap = l.snap /\ ScanFailed(l).snap = l.snap
           /\ ScanFailed(l).blind = TRUE
<1>1. <<>> \in Seq(Issue)
  BY EmptySeq
<1> QED BY <1>1 DEF Scanned, ScanFailed, LocType

LEMMA IndexedType ==
    ASSUME NEW l \in LocType, NEW fp \in Fingerprints, NEW n \in 0 .. MaxIssues
    PROVE  /\ Indexed(l, fp, n) \in LocType
           /\ Indexed(l, fp, n).scan = l.scan /\ Indexed(l, fp, n).num = l.num
           /\ Indexed(l, fp, n).own = l.own /\ Indexed(l, fp, n).todo = l.todo
           /\ Indexed(l, fp, n).snap = l.snap
<1> DEFINE i == [l.idx EXCEPT ![fp] = n]
           b == l.dirty \/ l.idx[fp] # n
<1>1. i \in IndexMap /\ b \in BOOLEAN
  BY DEF LocType, IndexMap
<1>2. Indexed(l, fp, n) = [l EXCEPT !.idx = i, !.dirty = b]
  BY DEF Indexed
<1> HIDE DEF i, b
<1> QED BY <1>1, <1>2 DEF LocType

LEMMA TargetType ==
    ASSUME NEW l \in LocType, NEW list \in Seq(Issue), NEW n \in DOMAIN list, n <= MaxIssues
    PROVE  /\ Target(l, list, n) \in LocType
           /\ Target(l, list, n).num = n /\ Target(l, list, n).scan = l.scan
           /\ Target(l, list, n).own = l.own /\ Target(l, list, n).snap = list[n].rec
<1> DEFINE rec == list[n].rec
           c   == list[n].status # "open"
<1>1. n \in 0 .. MaxIssues /\ list[n] \in Issue
  BY ElementOfSeq
<1>2. rec \in Record /\ c \in BOOLEAN
  BY <1>1 DEF Issue
<1>3. Target(l, list, n) = [l EXCEPT !.num = n, !.snap = rec, !.closed = c]
  BY DEF Target
<1> HIDE DEF rec, c
<1>4. [l EXCEPT !.num = n, !.snap = rec, !.closed = c] \in LocType
  BY <1>1, <1>2 DEF LocType
<1>5. Target(l, list, n).snap = rec
  BY <1>3 DEF LocType
<1> QED BY <1>3, <1>4, <1>5 DEF LocType, rec

LEMMA CreatedType ==
    ASSUME NEW l \in LocType, NEW fp \in Fingerprints, NEW n \in 0 .. MaxIssues
    PROVE  /\ Created(l, fp, n) \in LocType
           /\ Created(l, fp, n).own = n /\ Created(l, fp, n).num = n
           /\ Created(l, fp, n).scan = l.scan /\ Created(l, fp, n).snap = l.snap
<1> DEFINE k == [l EXCEPT !.own = n, !.num = n]
<1>1. k \in LocType /\ k.own = n /\ k.num = n /\ k.scan = l.scan /\ k.snap = l.snap
  BY DEF LocType
<1>2. Created(l, fp, n) = Indexed(k, fp, n)
  BY DEF Created
<1> HIDE DEF k
<1> QED BY <1>1, <1>2, IndexedType

\* Setting the numbers still to be dealt with.
LEMMA TodoType ==
    ASSUME NEW l \in LocType, NEW S \in SUBSET Numbers
    PROVE  LET t == [l EXCEPT !.todo = S] IN
           /\ t \in LocType /\ t.todo = S /\ t.scan = l.scan /\ t.num = l.num
           /\ t.own = l.own /\ t.snap = l.snap
BY DEF LocType

LEMMA ReportType ==
    ASSUME NEW l \in LocType, NEW res \in Results
    PROVE  /\ Report(l, res) \in LocType
           /\ Report(l, res).scan = l.scan
<1> DEFINE done == [l EXCEPT !.num = 0, !.snap = Unreadable, !.closed = FALSE, !.own = 0]
<1>1. done \in LocType /\ done.scan = l.scan
  <2>1. 0 \in 0 .. MaxIssues
    OBVIOUS
  <2> QED BY <2>1, UnreadableType DEF LocType
<1>2. 0 \in 0 .. MaxIssues /\ "created" \in Results /\ l.num \in 0 .. MaxIssues
  BY DEF Results, LocType
<1>3. CASE l.own # 0
  <2>1. Report(l, res) = [done EXCEPT !.result = "created", !.ref = l.num]
    BY <1>3 DEF Report
  <2> HIDE DEF done
  <2> QED BY <1>1, <1>2, <2>1 DEF LocType
<1>4. CASE l.own = 0
  <2> DEFINE r == IF res \in {"failed", "skipped"} THEN 0 ELSE l.num
  <2>1. Report(l, res) = [done EXCEPT !.result = res, !.ref = r]
    BY <1>4 DEF Report
  <2>2. r \in 0 .. MaxIssues
    BY <1>2
  <2> HIDE DEF done, r
  <2> QED BY <1>1, <2>1, <2>2 DEF LocType
<1> QED BY <1>3, <1>4

-----------------------------------------------------------------------------
(* The inductive invariant: what each place in a job guarantees *)

\* What delivery d knows where it is: the numbers it holds are issues of its
\* own fingerprint, the one it keeps is below those it closes, and while it is
\* about to create one none of those it could have found is its own.
At(d) ==
    LET l    == loc[d]
        mine == Of(issues, FpOf[d]) IN
    /\ known[d] <= Len(issues)
    /\ Len(l.scan) <= Len(issues)
    /\ pc[d] = "create" => \A n \in 1 .. known[d] : issues[n].fp # FpOf[d]
    /\ pc[d] = "update" => l.num \in mine
    /\ pc[d] \in {"heal", "close"} => l.own \in mine
    /\ pc[d] = "close" => l.num \in mine /\ \A n \in l.todo : n \in mine /\ l.num < n
    /\ pc[d] = "closing" => l.todo \subseteq DOMAIN l.scan

\* A feedback job holds a listing that was once complete and its numbers.
FbAt(f) == Len(fb[f].list) <= Len(issues) /\ fb[f].todo \subseteq DOMAIN fb[f].list

IInv ==
    /\ TypeOK
    /\ \A d \in Deliveries : At(d)
    /\ \A f \in Feedbacks : FbAt(f)
    /\ DuplicateHasOriginal

\* Issues are never deleted and never change their fingerprint.
Grown ==
    /\ Len(issues) <= Len(issues')
    /\ \A n \in DOMAIN issues : issues'[n].fp = issues[n].fp

LEMMA OfGrown ==
    ASSUME issues \in Seq(Issue), issues' \in Seq(Issue), Grown, NEW fp \in Fingerprints
    PROVE  /\ DOMAIN issues = 1 .. Len(issues) /\ DOMAIN issues' = 1 .. Len(issues')
           /\ Len(issues) \in Nat /\ Len(issues') \in Nat
           /\ Of(issues, fp) \subseteq Of(issues', fp)
BY DEF Grown, Of

\* Where the issues only grow, a job that does not move keeps what it knows.
LEMMA AtStays ==
    ASSUME TypeOK, issues' \in Seq(Issue), Grown, NEW d \in Deliveries, At(d),
           pc'[d] = pc[d], loc'[d] = loc[d], known'[d] = known[d]
    PROVE  At(d)'
<1>1. issues \in Seq(Issue) /\ FpOf[d] \in Fingerprints /\ known[d] \in Nat
  BY DEF TypeOK
<1>2. /\ DOMAIN issues = 1 .. Len(issues) /\ DOMAIN issues' = 1 .. Len(issues')
      /\ Len(issues) \in Nat /\ Len(issues') \in Nat
      /\ Of(issues, FpOf[d]) \subseteq Of(issues', FpOf[d])
  BY <1>1, OfGrown
<1>3. loc[d].scan \in Seq(Issue)
  BY DEF TypeOK, LocType
<1>4. Len(loc[d].scan) \in Nat
  BY <1>3
<1>5. Len(loc[d].scan) <= Len(issues') /\ known[d] <= Len(issues')
  BY <1>1, <1>2, <1>4 DEF At, Grown
<1>6. pc[d] = "create" => \A n \in 1 .. known[d] : issues'[n].fp # FpOf[d]
  BY SMTT(60), <1>1, <1>2 DEF At, Grown
<1> QED BY <1>2, <1>5, <1>6 DEF At

LEMMA FbAtStays ==
    ASSUME TypeOK, issues' \in Seq(Issue), Grown, NEW f \in Feedbacks, FbAt(f), fb'[f] = fb[f]
    PROVE  FbAt(f)'
<1>1. issues \in Seq(Issue) /\ fb[f].list \in Seq(Issue)
  BY DEF TypeOK
<1>2. Len(issues) \in Nat /\ Len(issues') \in Nat /\ Len(fb[f].list) \in Nat
  BY <1>1
<1> QED BY <1>2 DEF FbAt, Grown

\* An issue closed as a duplicate keeps its original.
LEMMA DuplicateStays ==
    ASSUME TypeOK, issues' \in Seq(Issue), Grown, DuplicateHasOriginal,
           \A n \in DOMAIN issues' : issues'[n].status = "duplicate" =>
               \/ n \in DOMAIN issues /\ issues[n].status = "duplicate"
               \/ \E m \in 1 .. (n - 1) : issues'[m].fp = issues'[n].fp
    PROVE  DuplicateHasOriginal'
<1>1. issues \in Seq(Issue)
  BY DEF TypeOK
<1>2. DOMAIN issues = 1 .. Len(issues) /\ DOMAIN issues' = 1 .. Len(issues')
      /\ Len(issues) \in Nat /\ Len(issues') \in Nat
  BY <1>1
<1>3. ASSUME NEW n \in DOMAIN issues', issues'[n].status = "duplicate"
      PROVE  \E m \in 1 .. (n - 1) : issues'[m].fp = issues'[n].fp
  <2>1. CASE n \in DOMAIN issues /\ issues[n].status = "duplicate"
    <3>1. PICK m \in 1 .. (n - 1) : issues[m].fp = issues[n].fp
      BY <2>1 DEF DuplicateHasOriginal
    <3>2. m \in DOMAIN issues
      BY <1>2, <2>1, <3>1
    <3> QED BY <2>1, <3>1, <3>2 DEF Grown
  <2> QED BY <1>3, <2>1
<1> QED BY <1>3 DEF DuplicateHasOriginal

\* What is left to show of a step of one delivery: its own types and place.
LEMMA DeliveryStep ==
    ASSUME IInv, NEW d \in Deliveries, NEW l, NEW at \in Places,
           l \in LocType, loc' = [loc EXCEPT ![d] = l], pc' = [pc EXCEPT ![d] = at],
           issues' \in Seq(Issue), Len(issues') <= MaxIssues, Grown,
           index' \in [state : {"missing", "ok", "corrupt"}, map : IndexMap],
           known' \in [Deliveries -> 0 .. MaxIssues],
           \A e \in Deliveries : e # d => known'[e] = known[e],
           UNCHANGED <<day, fb, edits>>,
           At(d)', DuplicateHasOriginal'
    PROVE  IInv'
<1>1. TypeOK
  BY DEF IInv
<1>2. /\ loc' \in [Deliveries -> LocType] /\ loc'[d] = l
      /\ pc' \in [Procs -> Places] /\ pc'[d] = at
      /\ \A e \in Deliveries : e # d => loc'[e] = loc[e] /\ pc'[e] = pc[e]
  BY <1>1 DEF TypeOK, Procs
<1>3. TypeOK'
  BY <1>1, <1>2 DEF TypeOK
<1>4. \A e \in Deliveries : At(e)'
  <2> TAKE e \in Deliveries
  <2>1. CASE e = d
    BY <2>1
  <2>2. CASE e # d
    BY <1>1, <1>2, <2>2, AtStays DEF IInv
  <2> QED BY <2>1, <2>2
<1>5. \A f \in Feedbacks : FbAt(f)'
  BY <1>1, FbAtStays DEF IInv
<1> QED BY <1>3, <1>4, <1>5 DEF IInv

\* A step of one delivery that writes no issue.
LEMMA QuietStep ==
    ASSUME IInv, NEW d \in Deliveries, NEW l, NEW at \in Places,
           l \in LocType, loc' = [loc EXCEPT ![d] = l], pc' = [pc EXCEPT ![d] = at],
           UNCHANGED <<issues, day, fb, edits>>,
           index' \in [state : {"missing", "ok", "corrupt"}, map : IndexMap],
           known' \in [Deliveries -> 0 .. MaxIssues],
           \A e \in Deliveries : e # d => known'[e] = known[e],
           At(d)'
    PROVE  IInv'
<1>1. /\ issues' \in Seq(Issue) /\ Len(issues') <= MaxIssues /\ Len(issues) \in Nat
  BY DEF IInv, TypeOK
<1>2. Grown /\ DuplicateHasOriginal'
  BY <1>1 DEF IInv, Grown, DuplicateHasOriginal
<1> QED BY <1>1, <1>2, DeliveryStep

\* A step that ends the writing of the issue: only the scan is still of use.
LEMMA ReturnStep ==
    ASSUME IInv, NEW d \in Deliveries, NEW l \in LocType, NEW res \in Results,
           Return(d, l, res), issues' \in Seq(Issue), Len(issues') <= MaxIssues, Grown,
           UNCHANGED <<index, day, fb, edits, known>>,
           Len(l.scan) <= Len(issues'), DuplicateHasOriginal'
    PROVE  IInv'
<1>1. /\ Report(l, res) \in LocType /\ Report(l, res).scan = l.scan
      /\ loc' = [loc EXCEPT ![d] = Report(l, res)] /\ pc' = [pc EXCEPT ![d] = "sweep"]
  BY ReportType DEF Return, Keep, Goto
<1>2. /\ "sweep" \in Places /\ loc'[d] = Report(l, res) /\ pc'[d] = "sweep"
      /\ index' \in [state : {"missing", "ok", "corrupt"}, map : IndexMap]
      /\ known' \in [Deliveries -> 0 .. MaxIssues]
  BY <1>1 DEF IInv, TypeOK, Procs, Places
<1>3. known[d] <= Len(issues) /\ known[d] \in Nat /\ Len(issues) \in Nat /\ Len(issues') \in Nat
  BY DEF IInv, TypeOK, At
<1>4. At(d)'
  BY <1>1, <1>2, <1>3 DEF At, Grown
<1> QED BY <1>1, <1>2, <1>4, DeliveryStep

-----------------------------------------------------------------------------
(* Every step preserves it *)

LEMMA LoadIndexStep == ASSUME IInv, NEW d \in Deliveries, LoadIndex(d) PROVE IInv'
<1>1. PICK l : loc' = [loc EXCEPT ![d] = l] /\ l \in LocType /\ l.scan = <<>>
  <2>1. CASE Keep(d, [Blank EXCEPT !.idx = index.map, !.idxState = index.state])
    <3>1. index.map \in IndexMap /\ index.state \in {"missing", "ok", "corrupt"}
      BY DEF IInv, TypeOK
    <3> DEFINE l == [Blank EXCEPT !.idx = index.map, !.idxState = index.state]
    <3>2. l \in LocType /\ l.scan = <<>>
      BY <3>1, BlankType DEF LocType, Blank
    <3> QED BY <2>1, <3>2 DEF Keep
  <2>2. CASE Keep(d, [Blank EXCEPT !.idxState = "error"])
    <3> DEFINE l == [Blank EXCEPT !.idxState = "error"]
    <3>1. l \in LocType /\ l.scan = <<>>
      BY BlankType DEF LocType, Blank
    <3> QED BY <2>2, <3>1 DEF Keep
  <2> QED BY <2>1, <2>2 DEF LoadIndex
<1>2. PICK at \in {"get", "scan"} : pc' = [pc EXCEPT ![d] = at]
  BY DEF LoadIndex, Goto
<1>3. /\ at \in Places /\ pc'[d] = at /\ loc'[d] = l
      /\ index' \in [state : {"missing", "ok", "corrupt"}, map : IndexMap]
      /\ UNCHANGED <<issues, day, fb, edits>>
  BY <1>1, <1>2 DEF IInv, TypeOK, Procs, Places, LoadIndex
<1>4. /\ known' \in [Deliveries -> 0 .. MaxIssues] /\ known'[d] = Len(issues)
      /\ \A e \in Deliveries : e # d => known'[e] = known[e]
  BY DEF IInv, TypeOK, LoadIndex
<1>5. Len(issues) \in Nat /\ Len(l.scan) = 0
  BY <1>1 DEF IInv, TypeOK
<1>6. At(d)'
  BY <1>2, <1>3, <1>4, <1>5 DEF At
<1> QED BY <1>1, <1>2, <1>3, <1>4, <1>6, QuietStep

\* What holds whenever a delivery takes a step.
LEMMA DeliveryFacts ==
    ASSUME IInv, NEW d \in Deliveries
    PROVE  /\ TypeOK /\ At(d) /\ DuplicateHasOriginal
           /\ loc[d] \in LocType /\ loc \in [Deliveries -> LocType]
           /\ pc \in [Procs -> Places] /\ d \in Procs
           /\ issues \in Seq(Issue) /\ Len(issues) \in Nat /\ Len(issues) <= MaxIssues
           /\ DOMAIN issues = 1 .. Len(issues) /\ MaxIssues \in Nat
           /\ index \in [state : {"missing", "ok", "corrupt"}, map : IndexMap]
           /\ known \in [Deliveries -> 0 .. MaxIssues] /\ known[d] \in Nat
           /\ FpOf[d] \in Fingerprints /\ RunOf[d] \in RunIds /\ day \in Days
           /\ {"get", "scan", "update", "create", "rescan", "heal", "close",
               "sweep", "closing", "flush", "done"} \subseteq Places
           /\ {"none", "created", "updated", "reopened", "unchanged", "failed", "skipped"} \subseteq Results
BY DEF IInv, TypeOK, Procs, Places, Results

LEMMA GetIssueStep == ASSUME IInv, NEW d \in Deliveries, GetIssue(d) PROVE IInv'
<1> DEFINE n == loc[d].idx[FpOf[d]]
<1>0. UNCHANGED <<issues, index, day, fb, edits, known>>
  BY DEF GetIssue
<1>1. CASE n \in Of(issues, FpOf[d]) /\ Keep(d, Target(loc[d], issues, n)) /\ Goto(d, "update")
  <2> DEFINE l == Target(loc[d], issues, n)
  <2>1. n \in DOMAIN issues /\ n <= MaxIssues
    BY <1>1, DeliveryFacts DEF Of
  <2>2. l \in LocType
    BY <2>1, DeliveryFacts, TargetType
  <2>3. l.num = n /\ l.scan = loc[d].scan
    BY DeliveryFacts DEF Target, LocType
  <2>4. loc' = [loc EXCEPT ![d] = l] /\ pc' = [pc EXCEPT ![d] = "update"]
    BY <1>1 DEF Keep, Goto
  <2> HIDE DEF l
  <2>5. At(d)'
    BY <1>0, <1>1, <2>3, <2>4, DeliveryFacts DEF At
  <2> QED BY <1>0, <2>2, <2>4, <2>5, QuietStep, DeliveryFacts
<1>2. CASE Goto(d, "scan") /\ UNCHANGED loc
  <2>1. loc' = [loc EXCEPT ![d] = loc[d]] /\ pc' = [pc EXCEPT ![d] = "scan"]
    BY <1>2, DeliveryFacts DEF Goto
  <2>2. At(d)'
    BY <1>0, <1>2, <2>1, DeliveryFacts DEF At
  <2> QED BY <1>0, <2>1, <2>2, QuietStep, DeliveryFacts
<1> QED BY <1>1, <1>2 DEF GetIssue

\* A listing, complete or failed, that ends the writing of the issue.
LEMMA QuietReturn ==
    ASSUME IInv, NEW d \in Deliveries, NEW l \in LocType, NEW res \in Results,
           Return(d, l, res), Len(l.scan) <= Len(issues),
           UNCHANGED <<issues, index, day, fb, edits, known>>
    PROVE  IInv'
<1>1. Grown /\ DuplicateHasOriginal'
  BY DeliveryFacts DEF Grown, DuplicateHasOriginal
<1> QED BY <1>1, ReturnStep, DeliveryFacts

LEMMA ScanStep == ASSUME IInv, NEW d \in Deliveries, Scan(d) PROVE IInv'
<1> DEFINE fp == FpOf[d]
           l  == Scanned(loc[d], issues)
           m  == ScanFailed(loc[d])
<1>0. UNCHANGED <<issues, index, day, fb, edits, known>>
  BY DEF Scan
<1>1. /\ l \in LocType /\ l.scan = issues
      /\ m \in LocType /\ m.scan = <<>> /\ m.blind = TRUE
  BY DeliveryFacts, ScannedType
<1>2. Len(m.scan) = 0
  BY <1>1
<1> HIDE DEF l, m
<1>3. CASE \E n \in DOMAIN issues :
            /\ Lowest(n, Of(issues, fp))
            /\ Keep(d, Indexed(Target(l, issues, n), fp, n))
            /\ Goto(d, "update")
  <2>1. PICK n \in DOMAIN issues :
            /\ Lowest(n, Of(issues, fp))
            /\ Keep(d, Indexed(Target(l, issues, n), fp, n))
            /\ Goto(d, "update")
    BY <1>3
  <2> DEFINE t == Target(l, issues, n)
             k == Indexed(t, fp, n)
  <2>2. n \in Of(issues, fp) /\ n <= MaxIssues /\ n \in 0 .. MaxIssues
    BY <2>1, DeliveryFacts DEF Lowest
  <2>3. t \in LocType /\ t.num = n /\ t.scan = issues
    BY <1>1, <2>2, DeliveryFacts, TargetType
  <2> HIDE DEF t
  <2>4. k \in LocType /\ k.num = n /\ k.scan = issues
    BY <2>2, <2>3, DeliveryFacts, IndexedType
  <2>5. loc' = [loc EXCEPT ![d] = k] /\ pc' = [pc EXCEPT ![d] = "update"]
    BY <2>1 DEF Keep, Goto, t
  <2> HIDE DEF k
  <2>6. At(d)'
    BY <1>0, <2>2, <2>4, <2>5, DeliveryFacts DEF At
  <2> QED BY <1>0, <2>4, <2>5, <2>6, QuietStep, DeliveryFacts
<1>4. CASE Of(issues, fp) = {} /\ NotFound(d, l)
  <2>1. CASE Return(d, l, "skipped")
    BY <1>0, <1>1, <2>1, QuietReturn, DeliveryFacts
  <2>2. CASE Keep(d, l) /\ Goto(d, "create")
    <3>1. loc' = [loc EXCEPT ![d] = l] /\ pc' = [pc EXCEPT ![d] = "create"]
      BY <2>2 DEF Keep, Goto
    <3>2. \A n \in 1 .. known[d] : issues[n].fp # FpOf[d]
      BY <1>4, DeliveryFacts DEF Of, At
    <3>3. At(d)'
      BY <1>0, <1>1, <3>1, <3>2, DeliveryFacts DEF At
    <3> QED BY <1>0, <1>1, <3>1, <3>3, QuietStep, DeliveryFacts
  <2> QED BY <1>4, <2>1, <2>2 DEF NotFound
<1>5. CASE NotFound(d, m)
  <2>1. Return(d, m, "skipped")
    BY <1>1, <1>5 DEF NotFound
  <2> QED BY <1>0, <1>1, <1>2, <2>1, QuietReturn, DeliveryFacts
<1> QED BY <1>3, <1>4, <1>5 DEF Scan, l, m

\* One call to update_issue: nothing but the record and the status of n.
LEMMA PatchStep ==
    ASSUME IInv, NEW n \in DOMAIN issues, NEW rec \in Record, NEW status \in Statuses,
           issues' = Patch(n, rec, status),
           \/ status # "duplicate"
           \/ issues[n].status = "duplicate"
           \/ \E m \in 1 .. (n - 1) : issues[m].fp = issues[n].fp
    PROVE  /\ issues' \in Seq(Issue) /\ Len(issues') = Len(issues)
           /\ Grown /\ DuplicateHasOriginal'
<1>1. TypeOK /\ DuplicateHasOriginal /\ issues \in Seq(Issue) /\ Len(issues) \in Nat
      /\ DOMAIN issues = 1 .. Len(issues)
  BY DEF IInv, TypeOK
<1>2. /\ issues' \in Seq(Issue) /\ Len(issues') = Len(issues)
      /\ \A m \in DOMAIN issues : m # n => issues'[m] = issues[m]
      /\ issues'[n].fp = issues[n].fp /\ issues'[n].status = status
  BY <1>1, PatchProperties
<1>3. Grown /\ DOMAIN issues' = 1 .. Len(issues)
  <2>1. DOMAIN issues' = 1 .. Len(issues')
    BY <1>2
  <2>2. \A m \in DOMAIN issues : issues'[m].fp = issues[m].fp
    BY <1>2, Zenon
  <2> QED BY <1>1, <1>2, <2>1, <2>2 DEF Grown
<1>4. ASSUME NEW k \in DOMAIN issues', issues'[k].status = "duplicate"
      PROVE  \/ k \in DOMAIN issues /\ issues[k].status = "duplicate"
             \/ \E m \in 1 .. (k - 1) : issues'[m].fp = issues'[k].fp
  <2>1. CASE k = n /\ \E m \in 1 .. (n - 1) : issues[m].fp = issues[n].fp
    BY <2>1, <1>1, <1>2, <1>3 DEF Grown
  <2> QED BY <1>1, <1>2, <1>3, <1>4, <2>1
<1> QED BY <1>1, <1>2, <1>3, <1>4, DuplicateStays

\* One create: a new issue at the end, open.
LEMMA AppendStep ==
    ASSUME IInv, NEW e \in Issue, e.status = "open",
           issues' = Append(issues, e) \/ issues' = Append(Append(issues, e), e)
    PROVE  /\ issues' \in Seq(Issue) /\ Grown /\ DuplicateHasOriginal'
           /\ Len(issues') = Len(issues) + 1 \/ Len(issues') = Len(issues) + 2
           /\ issues' = Append(issues, e) => Len(issues') = Len(issues) + 1
           /\ issues' = Append(Append(issues, e), e) => Len(issues') = Len(issues) + 2
           /\ \A n \in 1 .. Len(issues') : n > Len(issues) => issues'[n] = e
<1>1. TypeOK /\ DuplicateHasOriginal /\ issues \in Seq(Issue) /\ Len(issues) \in Nat
      /\ DOMAIN issues = 1 .. Len(issues)
  BY DEF IInv, TypeOK
<1>2. /\ issues' \in Seq(Issue) /\ Len(issues') > Len(issues) /\ Len(issues') \in Nat
      /\ \A n \in DOMAIN issues : issues'[n] = issues[n]
      /\ \A n \in 1 .. Len(issues') : n > Len(issues) => issues'[n] = e
      /\ issues' = Append(issues, e) => Len(issues') = Len(issues) + 1
      /\ issues' = Append(Append(issues, e), e) => Len(issues') = Len(issues) + 2
  <2> DEFINE one == Append(issues, e)
             two == Append(one, e)
  <2>1. /\ one \in Seq(Issue) /\ Len(one) = Len(issues) + 1 /\ one[Len(issues) + 1] = e
        /\ \A n \in 1 .. Len(issues) : one[n] = issues[n]
    BY <1>1, AppendProperties
  <2> HIDE DEF one
  <2>2. /\ two \in Seq(Issue) /\ Len(two) = Len(issues) + 2 /\ two[Len(issues) + 2] = e
        /\ \A n \in 1 .. Len(one) : two[n] = one[n]
    BY <1>1, <2>1, AppendProperties
  <2> HIDE DEF two
  <2>3. issues' = one \/ issues' = two
    BY DEF one, two
  <2>4. CASE issues' = one
    BY <1>1, <2>1, <2>2, <2>4 DEF one, two
  <2>5. CASE issues' = two
    BY <1>1, <2>1, <2>2, <2>5 DEF one, two
  <2> QED BY <2>3, <2>4, <2>5
<1>3. Grown
  BY <1>1, <1>2 DEF Grown
<1>4. \A n \in DOMAIN issues' : issues'[n].status = "duplicate" =>
          n \in DOMAIN issues /\ issues[n].status = "duplicate"
  <2> TAKE n \in DOMAIN issues'
  <2>1. n \in 1 .. Len(issues')
    BY SMTT(60), <1>2
  <2>2. CASE n > Len(issues)
    BY <1>2, <2>1, <2>2
  <2>3. CASE n <= Len(issues)
    <3>1. n \in DOMAIN issues
      BY <1>1, <2>1, <2>3
    <3> QED BY <1>2, <3>1
  <2> QED BY <1>1, <2>1, <2>2, <2>3
<1>5. DuplicateHasOriginal'
  BY <1>1, <1>2, <1>3, <1>4, DuplicateStays
<1> QED BY <1>2, <1>3, <1>5

LEMMA UpdateStep == ASSUME IInv, NEW d \in Deliveries, Update(d) PROVE IInv'
<1> DEFINE l == loc[d]
           k == Indexed(l, FpOf[d], l.num)
<1>0. UNCHANGED <<index, day, fb, edits, known>> /\ pc[d] = "update"
  BY DEF Update
<1>1. l \in LocType /\ l.num \in 0 .. MaxIssues /\ l.num \in Of(issues, FpOf[d])
      /\ Len(l.scan) <= Len(issues) /\ l.snap \in Record /\ l.closed \in BOOLEAN
  BY <1>0, DeliveryFacts DEF At, LocType
<1>2. l.num \in DOMAIN issues /\ issues[l.num] \in Issue
  BY <1>1, DeliveryFacts, ElementOfSeq DEF Of
<1>3. Late(l) \in LocType /\ Late(l).scan = l.scan
  BY <1>1, LateType
<1>4. k \in LocType /\ k.scan = l.scan
  BY <1>1, DeliveryFacts, IndexedType
<1> HIDE DEF l, k
<1>5. ASSUME issues' = Patched(d), NEW m \in LocType, m.scan = l.scan, NEW res \in Results, Return(d, m, res)
      PROVE  IInv'
  <2> DEFINE rec    == Absorb(l.snap, RunOf[d], day)
             status == IF l.closed THEN "open" ELSE issues[l.num].status
  <2>1. rec \in Record
    BY <1>1, DeliveryFacts, AbsorbType
  <2>2. status \in Statuses /\ (status # "duplicate" \/ issues[l.num].status = "duplicate")
    BY <1>1, <1>2 DEF Issue, Statuses
  <2>3. issues' = Patch(l.num, rec, status)
    BY <1>5 DEF Patched, l
  <2> HIDE DEF rec, status
  <2>4. issues' \in Seq(Issue) /\ Len(issues') = Len(issues) /\ Grown /\ DuplicateHasOriginal'
    BY <1>2, <2>1, <2>2, <2>3, PatchStep
  <2> QED BY <1>0, <1>1, <1>5, <2>4, ReturnStep, DeliveryFacts
<1>6. ASSUME UNCHANGED issues, NEW m \in LocType, m.scan = l.scan, NEW res \in Results, Return(d, m, res)
      PROVE  IInv'
  BY <1>0, <1>1, <1>6, QuietReturn
<1>7. {"unchanged", "reopened", "updated", "skipped", "failed"} \subseteq Results
  BY DEF Results
<1>8. CASE Return(d, l, "unchanged") /\ UNCHANGED issues
  BY <1>1, <1>6, <1>7, <1>8
<1>9. CASE issues' = Patched(d) /\ Return(d, k, IF l.closed THEN "reopened" ELSE "updated")
  BY <1>4, <1>5, <1>7, <1>9
<1>10. CASE Return(d, Late(l), "skipped") /\ UNCHANGED issues
  BY <1>3, <1>6, <1>7, <1>10
<1>11. CASE Return(d, l, "failed") /\ UNCHANGED issues
  BY <1>1, <1>6, <1>7, <1>11
<1>12. CASE Return(d, l, "failed") /\ issues' = Patched(d)
  BY <1>1, <1>5, <1>7, <1>12
<1> QED BY <1>8, <1>9, <1>10, <1>11, <1>12 DEF Update, l, k

LEMMA CreateStep == ASSUME IInv, NEW d \in Deliveries, Create(d) PROVE IInv'
<1> DEFINE l == loc[d]
           n == Len(issues) + 1
<1>0. UNCHANGED <<index, day, fb, edits, known>> /\ pc[d] = "create" /\ n <= MaxIssues
  BY DEF Create
<1>1. l \in LocType /\ Len(l.scan) <= Len(issues) /\ Len(l.scan) \in Nat
  BY DeliveryFacts DEF At, LocType
<1>2. Opened(d) \in Issue /\ Opened(d).status = "open" /\ Opened(d).fp = FpOf[d]
  BY DeliveryFacts, FirstRecordType DEF Opened, Issue, Statuses
<1>3. Late(l) \in LocType /\ Late(l).scan = l.scan
  BY <1>1, LateType
<1> HIDE DEF l
<1>4. ASSUME NEW k \in {n, n + 1}, k <= MaxIssues, Keep(d, Created(l, FpOf[d], k)), Goto(d, "heal"),
             \/ issues' = Append(issues, Opened(d)) /\ k = n
             \/ issues' = Append(Append(issues, Opened(d)), Opened(d)) /\ k = n + 1
      PROVE  IInv'
  <2> DEFINE c == Created(l, FpOf[d], k)
  <2>1. k \in 0 .. MaxIssues /\ k \in Nat
    BY <1>4, DeliveryFacts
  <2>2. c \in LocType /\ c.own = k /\ c.scan = l.scan
    BY <1>1, <2>1, DeliveryFacts, CreatedType
  <2>3. loc' = [loc EXCEPT ![d] = c] /\ pc' = [pc EXCEPT ![d] = "heal"]
    BY <1>4 DEF Keep, Goto
  <2> HIDE DEF c
  <2>4. /\ issues' \in Seq(Issue) /\ Grown /\ DuplicateHasOriginal' /\ Len(issues') = k
        /\ \A m \in 1 .. Len(issues') : m > Len(issues) => issues'[m] = Opened(d)
    BY SMTT(60), <1>2, <1>4, AppendStep, DeliveryFacts
  <2>5. k \in Of(issues', FpOf[d])
    <3>1. DOMAIN issues' = 1 .. k
      BY <2>4
    <3>2. k \in 1 .. k /\ k > Len(issues)
      BY <1>4, <2>1, DeliveryFacts
    <3> QED BY <1>2, <2>4, <3>1, <3>2 DEF Of
  <2>6. loc'[d] = c /\ pc'[d] = "heal" /\ known'[d] = known[d]
    BY <1>0, <2>3, DeliveryFacts
  <2>7. known[d] <= Len(issues') /\ Len(c.scan) <= Len(issues')
    BY <1>1, <1>4, <2>2, <2>4, DeliveryFacts DEF At
  <2>8. At(d)'
    BY <2>2, <2>5, <2>6, <2>7 DEF At
  <2> QED BY <1>0, <1>4, <2>2, <2>3, <2>4, <2>8, DeliveryStep, DeliveryFacts
<1>a. ASSUME issues' = Append(issues, Opened(d)) \/ UNCHANGED issues
      PROVE  /\ issues' \in Seq(Issue) /\ Grown /\ DuplicateHasOriginal'
             /\ Len(issues') <= MaxIssues /\ Len(issues) <= Len(issues') /\ Len(issues') \in Nat
  <2>1. CASE issues' = Append(issues, Opened(d))
    <3>1. issues' \in Seq(Issue) /\ Grown /\ DuplicateHasOriginal' /\ Len(issues') = n
      BY <1>2, <2>1, AppendStep
    <3> QED BY <1>0, <3>1, DeliveryFacts
  <2>2. CASE UNCHANGED issues
    BY <2>2, DeliveryFacts DEF Grown, DuplicateHasOriginal
  <2> QED BY <1>a, <2>1, <2>2
<1>5. ASSUME Goto(d, "rescan"), UNCHANGED loc, issues' = Append(issues, Opened(d)) \/ UNCHANGED issues
      PROVE  IInv'
  <2>1. loc' = [loc EXCEPT ![d] = l] /\ pc' = [pc EXCEPT ![d] = "rescan"]
    BY <1>5, DeliveryFacts DEF Goto, l
  <2>2. /\ issues' \in Seq(Issue) /\ Grown /\ DuplicateHasOriginal'
        /\ Len(issues') <= MaxIssues /\ Len(issues) <= Len(issues') /\ Len(issues') \in Nat
    BY <1>5, <1>a
  <2>3. loc'[d] = l /\ pc'[d] = "rescan" /\ known'[d] = known[d]
    BY <1>0, <2>1, DeliveryFacts
  <2>4. known[d] <= Len(issues') /\ Len(l.scan) <= Len(issues')
    BY <1>1, <2>2, DeliveryFacts DEF At
  <2>5. At(d)'
    BY <2>3, <2>4 DEF At
  <2> QED BY <1>0, <1>1, <2>1, <2>2, <2>5, DeliveryStep, DeliveryFacts
<1>6. ASSUME NEW m \in LocType, m.scan = l.scan, NEW res \in Results, Return(d, m, res),
             issues' = Append(issues, Opened(d)) \/ UNCHANGED issues
      PROVE  IInv'
  <2>1. Len(m.scan) <= Len(issues')
    BY <1>1, <1>6, <1>a, DeliveryFacts
  <2> QED BY <1>0, <1>6, <1>a, <2>1, ReturnStep
<1>7. CASE issues' = Append(issues, Opened(d)) /\ Keep(d, Created(l, FpOf[d], n)) /\ Goto(d, "heal")
  BY <1>0, <1>4, <1>7
<1>8. CASE /\ n < MaxIssues /\ issues' = Append(Append(issues, Opened(d)), Opened(d))
           /\ Keep(d, Created(l, FpOf[d], n + 1)) /\ Goto(d, "heal")
  <2>1. n + 1 <= MaxIssues
    BY <1>8, DeliveryFacts
  <2> QED BY <1>4, <1>8, <2>1
<1>9. CASE Goto(d, "rescan") /\ UNCHANGED loc /\ (issues' = Append(issues, Opened(d)) \/ UNCHANGED issues)
  BY <1>5, <1>9
<1>10. CASE /\ issues' = Append(issues, Opened(d)) \/ UNCHANGED issues
            /\ Return(d, l, "failed") \/ Return(d, Late(l), "skipped")
  BY <1>1, <1>3, <1>6, <1>10, DeliveryFacts
<1> QED BY <1>7, <1>8, <1>9, <1>10 DEF Create, l

LEMMA RescanStep == ASSUME IInv, NEW d \in Deliveries, Rescan(d) PROVE IInv'
<1> DEFINE fp == FpOf[d]
           l  == Scanned(loc[d], issues)
           m  == ScanFailed(loc[d])
<1>0. UNCHANGED <<issues, index, day, fb, edits, known>>
  BY DEF Rescan
<1>1. l \in LocType /\ l.scan = issues /\ m \in LocType /\ m.scan = <<>>
  BY DeliveryFacts, ScannedType
<1>2. Len(m.scan) = 0
  BY <1>1
<1> HIDE DEF l, m
<1>3. CASE \E n \in DOMAIN issues :
            /\ Lowest(n, Of(issues, fp))
            /\ Keep(d, Created(l, fp, n)) /\ Goto(d, "heal")
  <2>1. PICK n \in DOMAIN issues :
            /\ Lowest(n, Of(issues, fp))
            /\ Keep(d, Created(l, fp, n)) /\ Goto(d, "heal")
    BY <1>3
  <2> DEFINE k == Created(l, fp, n)
  <2>2. n \in Of(issues, fp) /\ n \in 0 .. MaxIssues
    BY <2>1, DeliveryFacts DEF Lowest
  <2>3. k \in LocType /\ k.own = n /\ k.scan = issues
    BY SMTT(60), <1>1, <2>2, DeliveryFacts, CreatedType
  <2>4. loc' = [loc EXCEPT ![d] = k] /\ pc' = [pc EXCEPT ![d] = "heal"]
    BY <2>1 DEF Keep, Goto
  <2> HIDE DEF k
  <2>5. At(d)'
    BY <1>0, <2>2, <2>3, <2>4, DeliveryFacts DEF At
  <2> QED BY <1>0, <2>3, <2>4, <2>5, QuietStep, DeliveryFacts
<1>4. CASE Return(d, l, "failed") \/ Return(d, m, "failed")
  BY <1>0, <1>1, <1>2, <1>4, QuietReturn, DeliveryFacts
<1> QED BY <1>3, <1>4 DEF Rescan, l, m

LEMMA HealStep == ASSUME IInv, NEW d \in Deliveries, Heal(d) PROVE IInv'
<1> DEFINE fp == FpOf[d]
           l  == loc[d]
           s  == Scanned(l, issues)
           m  == ScanFailed(l)
           rivals == Rivals(d)
<1>0. UNCHANGED <<issues, index, day, fb, edits, known>> /\ pc[d] = "heal"
  BY DEF Heal
<1>1. /\ l \in LocType /\ l.own \in Of(issues, fp)
      /\ s \in LocType /\ s.scan = issues /\ s.own = l.own /\ m \in LocType /\ m.scan = <<>>
  <2>1. l \in LocType /\ l.own \in Of(issues, fp) /\ issues \in Seq(Issue)
    BY <1>0, DeliveryFacts DEF At
  <2> HIDE DEF l
  <2> QED BY <2>1, ScannedType
<1>2. Len(m.scan) = 0
  BY <1>1
<1>3. rivals \subseteq Of(issues, fp) /\ rivals \subseteq Numbers /\ rivals \subseteq Nat
  BY <1>1, DeliveryFacts DEF Rivals, OpenOf, Of, Numbers
<1> HIDE DEF l, m, s, rivals
<1>4. CASE \E keep \in rivals :
            /\ Kept(keep, rivals)
            /\ Keep(d, [Indexed(Target(s, issues, keep), fp, keep) EXCEPT !.todo = rivals \ {keep}])
            /\ Goto(d, "close")
  <2>1. PICK keep \in rivals :
            /\ Kept(keep, rivals)
            /\ Keep(d, [Indexed(Target(s, issues, keep), fp, keep) EXCEPT !.todo = rivals \ {keep}])
            /\ Goto(d, "close")
    BY <1>4
  <2> DEFINE t == Target(s, issues, keep)
             i == Indexed(t, fp, keep)
             k == [i EXCEPT !.todo = rivals \ {keep}]
  <2>2. keep \in DOMAIN issues /\ keep <= MaxIssues /\ keep \in 0 .. MaxIssues /\ keep \in Of(issues, fp)
    BY <1>3, DeliveryFacts DEF Of
  <2>3. t \in LocType /\ t.num = keep /\ t.scan = issues /\ t.own = l.own
    BY <1>1, <2>2, DeliveryFacts, TargetType
  <2> HIDE DEF t
  <2>4. i \in LocType /\ i.num = keep /\ i.scan = issues /\ i.own = l.own
    BY <2>2, <2>3, DeliveryFacts, IndexedType
  <2> HIDE DEF i
  <2>5. k \in LocType /\ k.num = keep /\ k.scan = issues /\ k.own = l.own /\ k.todo = rivals \ {keep}
    BY <1>3, <2>4, TodoType DEF LocType
  <2>6. loc' = [loc EXCEPT ![d] = k] /\ pc' = [pc EXCEPT ![d] = "close"]
    BY <2>1 DEF Keep, Goto, t, i
  <2> HIDE DEF k
  <2>7. \A n \in k.todo : n \in Of(issues, fp) /\ k.num < n
    BY <1>3, <2>1, <2>5 DEF Kept, Lowest
  <2>8. loc'[d] = k /\ pc'[d] = "close" /\ known'[d] = known[d] /\ known[d] <= Len(issues)
    BY <1>0, <2>6, DeliveryFacts DEF At
  <2>9. At(d)'
    BY <1>0, <1>1, <2>2, <2>5, <2>7, <2>8, DeliveryFacts DEF At
  <2> QED BY <1>0, <2>5, <2>6, <2>9, QuietStep, DeliveryFacts
<1>5. CASE Return(d, s, "created") \/ Return(d, m, "created")
  BY <1>0, <1>1, <1>2, <1>5, QuietReturn, DeliveryFacts
<1> QED BY <1>4, <1>5 DEF Heal, l, m, s, rivals

LEMMA CloseDuplicateStep == ASSUME IInv, NEW d \in Deliveries, CloseDuplicate(d) PROVE IInv'
<1> DEFINE fp == FpOf[d]
           l  == loc[d]
<1>0. UNCHANGED <<index, day, fb, edits, known>> /\ pc[d] = "close"
  BY DEF CloseDuplicate
<1>1. /\ l \in LocType /\ Len(l.scan) <= Len(issues) /\ Len(l.scan) \in Nat
      /\ l.own \in Of(issues, fp) /\ l.num \in Of(issues, fp)
      /\ \A n \in l.todo : n \in Of(issues, fp) /\ l.num < n
      /\ l.todo \in SUBSET Numbers
  BY <1>0, DeliveryFacts DEF At, LocType
<1>2. known[d] <= Len(issues) /\ fp \in Fingerprints
  BY DeliveryFacts DEF At
<1> HIDE DEF l
\* Whatever became of the call, what the delivery does next.
<1>3. ASSUME NEW k \in LocType, k.scan = l.scan, k.num = l.num, k.own = l.own, k.todo \subseteq l.todo,
             issues' \in Seq(Issue), Len(issues') = Len(issues), Grown, DuplicateHasOriginal',
             Healed(d, k) \/ (Keep(d, k) /\ UNCHANGED pc)
      PROVE  IInv'
  <2>1. Of(issues, fp) \subseteq Of(issues', fp)
    BY <1>2, <1>3, OfGrown, DeliveryFacts
  <2>2. CASE Return(d, k, "created")
    BY <1>0, <1>1, <1>3, <2>2, ReturnStep, DeliveryFacts
  <2>3. ASSUME NEW at \in {"update", "close"}, loc' = [loc EXCEPT ![d] = k], pc' = [pc EXCEPT ![d] = at]
        PROVE  IInv'
    <3>1. loc'[d] = k /\ pc'[d] = at /\ known'[d] = known[d] /\ at \in Places
      BY <1>0, <2>3, DeliveryFacts
    <3>2. At(d)'
      BY <1>1, <1>2, <1>3, <2>1, <2>3, <3>1 DEF At
    <3> QED BY <1>0, <1>3, <2>3, <3>1, <3>2, DeliveryStep, DeliveryFacts
  <2>4. CASE Keep(d, k) /\ Goto(d, "update")
    BY <2>3, <2>4 DEF Keep, Goto
  <2>5. CASE Keep(d, k) /\ UNCHANGED pc
    <3>1. pc' = [pc EXCEPT ![d] = "close"]
      BY <1>0, <2>5, DeliveryFacts
    <3> QED BY <2>3, <2>5, <3>1 DEF Keep
  <2> QED BY <1>3, <2>2, <2>4, <2>5 DEF Healed
<1>4. ASSUME UNCHANGED issues
      PROVE  issues' \in Seq(Issue) /\ Len(issues') = Len(issues) /\ Grown /\ DuplicateHasOriginal'
  BY <1>4, DeliveryFacts DEF Grown, DuplicateHasOriginal
<1>5. ASSUME NEW n \in l.todo, issues' = Patch(n, issues[n].rec, "duplicate") \/ UNCHANGED issues,
             LET left == [l EXCEPT !.todo = l.todo \ {n}] IN
             IF left.todo = {} THEN Healed(d, left) ELSE Keep(d, left) /\ UNCHANGED pc
      PROVE  IInv'
  <2> DEFINE left == [l EXCEPT !.todo = l.todo \ {n}]
  <2>1. /\ left \in LocType /\ left.scan = l.scan /\ left.num = l.num
        /\ left.own = l.own /\ left.todo = l.todo \ {n}
    BY <1>1, TodoType DEF LocType
  <2> HIDE DEF left
  <2>2. Healed(d, left) \/ (Keep(d, left) /\ UNCHANGED pc)
    BY <1>5 DEF left
  <2>3. issues' \in Seq(Issue) /\ Len(issues') = Len(issues) /\ Grown /\ DuplicateHasOriginal'
    <3>1. n \in DOMAIN issues /\ issues[n] \in Issue /\ issues[n].fp = fp
      BY <1>1, <1>5, DeliveryFacts, ElementOfSeq DEF Of
    <3>2. issues[n].rec \in Record /\ "duplicate" \in Statuses
      BY <3>1 DEF Issue, Statuses
    <3>3. l.num \in 1 .. (n - 1) /\ issues[l.num].fp = issues[n].fp
      BY SMTT(60), <1>1, <1>5, <3>1, DeliveryFacts DEF Of
    <3> QED BY <1>4, <1>5, <3>1, <3>2, <3>3, PatchStep
  <2> QED BY <1>3, <2>1, <2>2, <2>3
<1>6. CASE UNCHANGED issues /\ Healed(d, Late([l EXCEPT !.todo = {}]))
  <2> DEFINE t == [l EXCEPT !.todo = {}]
  <2>1. t \in LocType /\ t.scan = l.scan /\ t.num = l.num /\ t.own = l.own /\ t.todo = {}
    BY <1>1, TodoType DEF LocType
  <2> HIDE DEF t
  <2>2. /\ Late(t) \in LocType /\ Late(t).scan = l.scan /\ Late(t).num = l.num
        /\ Late(t).own = l.own /\ Late(t).todo \subseteq l.todo
    BY <2>1, LateType
  <2>3. Healed(d, Late(t))
    BY <1>6 DEF t
  <2> QED BY <1>3, <1>4, <1>6, <2>2, <2>3
<1>7. CASE \E n \in l.todo :
            /\ issues' = Patch(n, issues[n].rec, "duplicate") \/ UNCHANGED issues
            /\ LET left == [l EXCEPT !.todo = l.todo \ {n}] IN
               IF left.todo = {} THEN Healed(d, left) ELSE Keep(d, left) /\ UNCHANGED pc
  BY <1>5, <1>7
<1> QED BY <1>6, <1>7 DEF CloseDuplicate, l

LEMMA SweepStep == ASSUME IInv, NEW d \in Deliveries, Sweep(d) PROVE IInv'
<1> DEFINE l == loc[d]
           s == Scanned(l, issues)
           m == ScanFailed(l)
<1>0. UNCHANGED <<issues, index, day, fb, edits, known>>
  BY DEF Sweep
<1>1. /\ l \in LocType /\ s \in LocType /\ m \in LocType
      /\ Len(l.scan) <= Len(issues) /\ s.scan = issues /\ m.scan = <<>>
  <2>1. l \in LocType /\ issues \in Seq(Issue) /\ Len(l.scan) <= Len(issues)
    BY DeliveryFacts DEF At
  <2> HIDE DEF l
  <2> QED BY <2>1, ScannedType
<1>2. Len(m.scan) <= Len(issues) /\ Len(s.scan) <= Len(issues)
  <2>1. Len(issues) \in Nat /\ Len(m.scan) = 0
    BY <1>1, DeliveryFacts
  <2> QED BY <1>1, <2>1
<1> HIDE DEF l, s, m
<1>3. ASSUME NEW k \in LocType, Len(k.scan) <= Len(issues), Keep(d, [k EXCEPT !.todo = Stale(k)]),
             Goto(d, IF Stale(k) # {} THEN "closing" ELSE "flush")
      PROVE  IInv'
  <2> DEFINE t  == [k EXCEPT !.todo = Stale(k)]
             at == IF Stale(k) # {} THEN "closing" ELSE "flush"
  <2>1. k.scan \in Seq(Issue)
    BY DEF LocType
  <2>2. DOMAIN k.scan = 1 .. Len(k.scan) /\ Len(k.scan) \in Nat
    BY <2>1
  <2>3. Stale(k) \subseteq DOMAIN k.scan
    BY DEF Stale
  <2>4. Stale(k) \in SUBSET Numbers
    BY <1>3, <2>2, <2>3, DeliveryFacts DEF Numbers
  <2>5. t \in LocType /\ t.todo = Stale(k) /\ t.scan = k.scan
    BY <2>4, TodoType DEF LocType
  <2>6. loc' = [loc EXCEPT ![d] = t] /\ pc' = [pc EXCEPT ![d] = at] /\ at \in Places
    BY <1>3, DeliveryFacts DEF Keep, Goto
  <2> HIDE DEF t
  <2>7. loc'[d] = t /\ pc'[d] = at /\ at \in {"closing", "flush"} /\ known'[d] = known[d] /\ known[d] <= Len(issues)
    BY <1>0, <2>6, DeliveryFacts DEF At
  <2> HIDE DEF at
  <2>8. At(d)'
    BY <1>0, <1>3, <2>3, <2>5, <2>7 DEF At
  <2> QED BY <1>0, <2>5, <2>6, <2>8, QuietStep, DeliveryFacts
<1>4. CASE Keep(d, [l EXCEPT !.todo = Stale(l)]) /\ Goto(d, IF Stale(l) # {} THEN "closing" ELSE "flush")
  BY <1>1, <1>3, <1>4
<1>5. CASE Keep(d, [s EXCEPT !.todo = Stale(s)]) /\ Goto(d, IF Stale(s) # {} THEN "closing" ELSE "flush")
  BY <1>1, <1>2, <1>3, <1>5
<1>6. CASE Keep(d, [m EXCEPT !.todo = Stale(m)]) /\ Goto(d, IF Stale(m) # {} THEN "closing" ELSE "flush")
  BY <1>1, <1>2, <1>3, <1>6
<1> QED BY <1>4, <1>5, <1>6 DEF Sweep, l, s, m

LEMMA CloseStaleStep == ASSUME IInv, NEW d \in Deliveries, CloseStale(d) PROVE IInv'
<1> DEFINE l == loc[d]
<1>0. UNCHANGED <<index, day, fb, edits, known>> /\ pc[d] = "closing"
  BY DEF CloseStale
<1>1. /\ l \in LocType /\ Len(l.scan) <= Len(issues) /\ known[d] <= Len(issues)
      /\ l.todo \subseteq DOMAIN l.scan /\ l.scan \in Seq(Issue) /\ l.swept \in 0 .. SweepMax
  BY <1>0, DeliveryFacts DEF At, LocType
<1>2. Len(l.scan) \in Nat /\ DOMAIN l.scan = 1 .. Len(l.scan) /\ 0 \in 0 .. SweepMax
  BY <1>1
<1>3. PICK n \in l.todo :
        /\ issues' = Patch(n, issues[n].rec, "stale") \/ UNCHANGED issues
        /\ \/ \E m \in {l, Late(l)} : Keep(d, [m EXCEPT !.todo = {}, !.swept = 0]) /\ Goto(d, "flush")
           \/ /\ UNCHANGED pc /\ l.swept # SweepMax
              /\ Keep(d, [l EXCEPT !.todo = l.todo \ {n}, !.swept = l.swept + 1])
  BY DEF CloseStale
<1>4. issues' \in Seq(Issue) /\ Len(issues') = Len(issues) /\ Grown /\ DuplicateHasOriginal'
  <2>1. n \in DOMAIN issues /\ issues[n] \in Issue
    BY <1>1, <1>2, DeliveryFacts, ElementOfSeq
  <2>2. issues[n].rec \in Record /\ "stale" \in Statuses
    BY <2>1 DEF Issue, Statuses
  <2>3. CASE UNCHANGED issues
    BY <2>3, DeliveryFacts DEF Grown, DuplicateHasOriginal
  <2> QED BY <1>3, <2>1, <2>2, <2>3, PatchStep
<1>5. ASSUME NEW k \in LocType, NEW at \in {"closing", "flush"}, k.scan = l.scan, k.todo \subseteq l.todo,
             loc' = [loc EXCEPT ![d] = k], pc' = [pc EXCEPT ![d] = at]
      PROVE  IInv'
  <2>1. loc'[d] = k /\ pc'[d] = at /\ known'[d] = known[d] /\ at \in Places
    BY <1>0, <1>5, DeliveryFacts
  <2>2. At(d)'
    BY <1>1, <1>4, <1>5, <2>1 DEF At
  <2> QED BY <1>0, <1>4, <1>5, <2>1, <2>2, DeliveryStep, DeliveryFacts
<1>6. Late(l) \in LocType /\ Late(l).scan = l.scan
  BY <1>1, LateType
<1>7. ASSUME NEW m \in {l, Late(l)}, Keep(d, [m EXCEPT !.todo = {}, !.swept = 0]), Goto(d, "flush")
      PROVE  IInv'
  <2> DEFINE k == [m EXCEPT !.todo = {}, !.swept = 0]
  <2>1. m \in LocType /\ m.scan = l.scan
    BY <1>1, <1>6, <1>7
  <2>2. k \in LocType /\ k.scan = l.scan /\ k.todo = {}
    BY <1>2, <2>1 DEF LocType
  <2>3. loc' = [loc EXCEPT ![d] = k] /\ pc' = [pc EXCEPT ![d] = "flush"]
    BY <1>7 DEF Keep, Goto
  <2> HIDE DEF k
  <2> QED BY <1>5, <2>2, <2>3
<1>8. CASE /\ UNCHANGED pc /\ l.swept # SweepMax
           /\ Keep(d, [l EXCEPT !.todo = l.todo \ {n}, !.swept = l.swept + 1])
  <2> DEFINE k == [l EXCEPT !.todo = l.todo \ {n}, !.swept = l.swept + 1]
  <2>1. l.swept + 1 \in 0 .. SweepMax /\ l.todo \ {n} \in SUBSET Numbers
    <3>1. SweepMax \in Nat
      OBVIOUS
    <3>2. l.todo \in SUBSET Numbers
      BY <1>1 DEF LocType
    <3>3. l.swept \in 0 .. SweepMax /\ l.swept # SweepMax
      BY <1>1, <1>8
    <3> QED BY <3>1, <3>2, <3>3
  <2>2. k \in LocType /\ k.scan = l.scan /\ k.todo = l.todo \ {n}
    <3> DEFINE S == l.todo \ {n}
               w == l.swept + 1
    <3>1. k = [l EXCEPT !.todo = S, !.swept = w] /\ S \in SUBSET Numbers /\ w \in 0 .. SweepMax
      BY <2>1
    <3> HIDE DEF S, w, k
    <3>2. k \in LocType /\ k.scan = l.scan /\ k.todo = S
      BY <1>1, <3>1 DEF LocType
    <3> QED BY <3>2 DEF S
  <2>3. loc' = [loc EXCEPT ![d] = k] /\ pc' = [pc EXCEPT ![d] = "closing"]
    BY <1>0, <1>8, DeliveryFacts DEF Keep
  <2> HIDE DEF k
  <2> QED BY <1>5, <2>2, <2>3
<1> QED BY <1>3, <1>7, <1>8

\* A job that ends keeps nothing but its report.
LEMMA EndStep ==
    ASSUME IInv, NEW d \in Deliveries, End(d), UNCHANGED <<issues, day, fb, edits, known>>,
           index' \in [state : {"missing", "ok", "corrupt"}, map : IndexMap]
    PROVE  IInv'
<1> DEFINE res == loc[d].result
           ref == loc[d].ref
           k   == [Blank EXCEPT !.result = res, !.ref = ref]
<1>1. res \in Results /\ ref \in 0 .. MaxIssues
  BY DeliveryFacts DEF LocType
<1>2. loc' = [loc EXCEPT ![d] = k] /\ pc' = [pc EXCEPT ![d] = "done"]
  BY DEF End, Keep, Goto
<1>3. k \in LocType /\ k.scan = <<>>
  <2> HIDE DEF res, ref
  <2> QED BY <1>1, BlankType DEF LocType, Blank
<1> HIDE DEF k
<1>4. loc'[d] = k /\ pc'[d] = "done" /\ known'[d] = known[d] /\ known[d] <= Len(issues) /\ Len(k.scan) = 0
  BY <1>2, <1>3, DeliveryFacts DEF At
<1>5. At(d)'
  BY <1>3, <1>4, DeliveryFacts DEF At
<1> QED BY <1>2, <1>3, <1>5, QuietStep, DeliveryFacts

LEMMA FlushStep == ASSUME IInv, NEW d \in Deliveries, Flush(d) PROVE IInv'
<1>1. End(d) /\ UNCHANGED <<issues, day, fb, edits, known>>
  BY DEF Flush
<1>2. PICK map \in IndexMap : index' = [state |-> "ok", map |-> map] \/ UNCHANGED index
  BY DEF Flush
<1>3. index' \in [state : {"missing", "ok", "corrupt"}, map : IndexMap]
  BY <1>2, DeliveryFacts
<1> QED BY <1>1, <1>3, EndStep

LEMMA CrashStep == ASSUME IInv, NEW d \in Deliveries, Crash(d) PROVE IInv'
BY EndStep, DeliveryFacts DEF Crash

FbType == [list : Seq(Issue), todo : SUBSET Numbers, times : 0 .. MaxDeliveries]

\* What is left to show of a step of one feedback job.
LEMMA FeedbackStep ==
    ASSUME IInv, NEW f \in Feedbacks, NEW g \in FbType, NEW at \in Places,
           fb' = [fb EXCEPT ![f] = g], pc' = [pc EXCEPT ![f] = at],
           issues' \in Seq(Issue), Len(issues') = Len(issues), Grown, DuplicateHasOriginal',
           UNCHANGED <<index, day, loc, edits, known>>,
           Len(g.list) <= Len(issues), g.todo \subseteq DOMAIN g.list
    PROVE  IInv'
<1>1. TypeOK
  BY DEF IInv
<1>2. /\ fb' \in [Feedbacks -> FbType] /\ fb'[f] = g
      /\ pc' \in [Procs -> Places]
      /\ \A h \in Feedbacks : h # f => fb'[h] = fb[h]
      /\ \A d \in Deliveries : pc'[d] = pc[d]
  BY <1>1 DEF TypeOK, Procs, FbType
<1>3. TypeOK'
  BY <1>1, <1>2 DEF TypeOK, FbType
<1>4. \A d \in Deliveries : At(d)'
  BY <1>1, <1>2, AtStays DEF IInv
<1>5. \A h \in Feedbacks : FbAt(h)'
  <2> TAKE h \in Feedbacks
  <2>1. CASE h = f
    BY <1>2, <2>1 DEF FbAt
  <2>2. CASE h # f
    BY <1>1, <1>2, <2>2, FbAtStays DEF IInv
  <2> QED BY <2>1, <2>2
<1> QED BY <1>3, <1>4, <1>5 DEF IInv

LEMMA FeedbackFacts ==
    ASSUME IInv, NEW f \in Feedbacks
    PROVE  /\ fb \in [Feedbacks -> FbType] /\ fb[f] \in FbType /\ FbAt(f)
           /\ issues \in Seq(Issue) /\ Len(issues) \in Nat /\ Len(issues) <= MaxIssues
           /\ DOMAIN issues = 1 .. Len(issues) /\ MaxIssues \in Nat /\ MaxDeliveries \in Nat
           /\ {"resolve", "done"} \subseteq Places
BY DEF IInv, TypeOK, Places, FbType

LEMMA ReadStep ==
    ASSUME IInv, NEW f \in Feedbacks, MayRead(f), NEW S \in SUBSET DOMAIN issues, Resolving(f, S)
    PROVE  IInv'
<1> DEFINE t == fb[f].times + 1
           g == [list |-> issues, todo |-> S, times |-> t]
           at == IF S # {} THEN "resolve" ELSE "done"
<1>1. t \in 0 .. MaxDeliveries
  BY FeedbackFacts DEF MayRead, FbType
<1>2. S \in SUBSET Numbers
  BY FeedbackFacts DEF Numbers
<1>3. fb' = [fb EXCEPT ![f] = g]
  BY DEF Resolving
<1> HIDE DEF t
<1>4. g \in FbType /\ g.list = issues /\ g.todo = S
  BY <1>1, <1>2, FeedbackFacts DEF FbType
<1>5. pc' = [pc EXCEPT ![f] = at] /\ at \in Places
  BY FeedbackFacts DEF Resolving, Goto
<1> HIDE DEF g, at
<1>6. UNCHANGED <<issues, index, day, loc, edits, known>>
  BY DEF Resolving
<1>7. issues' \in Seq(Issue) /\ Len(issues') = Len(issues) /\ Grown /\ DuplicateHasOriginal'
  BY <1>6, FeedbackFacts DEF IInv, Grown, DuplicateHasOriginal
<1>8. Len(g.list) <= Len(issues) /\ g.todo \subseteq DOMAIN g.list
  BY <1>4, FeedbackFacts
<1> QED BY <1>3, <1>4, <1>5, <1>6, <1>7, <1>8, FeedbackStep

LEMMA ResolveStep == ASSUME IInv, NEW f \in Feedbacks, Resolve(f) PROVE IInv'
<1>1. PICK n \in fb[f].todo :
        /\ \/ issues' = Patch(n, Resolved(fb[f].list[n].rec, f), "resolved")
           \/ UNCHANGED issues
        /\ fb' = [fb EXCEPT ![f].todo = @ \ {n},
                            ![f].list = IF fb[f].todo = {n} THEN <<>> ELSE @]
        /\ Goto(f, IF fb[f].todo = {n} THEN "done" ELSE "resolve")
  BY DEF Resolve
<1> DEFINE was == fb[f].list[n]
           T   == fb[f].todo \ {n}
           L   == IF fb[f].todo = {n} THEN <<>> ELSE fb[f].list
           g   == [fb[f] EXCEPT !.todo = T, !.list = L]
           at  == IF fb[f].todo = {n} THEN "done" ELSE "resolve"
<1>2. /\ fb[f].list \in Seq(Issue) /\ fb[f].todo \in SUBSET Numbers
      /\ fb[f].todo \subseteq DOMAIN fb[f].list /\ Len(fb[f].list) <= Len(issues)
  BY FeedbackFacts DEF FbAt, FbType
<1>3. n \in DOMAIN fb[f].list /\ n \in DOMAIN issues
  BY <1>1, <1>2, FeedbackFacts
<1>4. UNCHANGED <<index, day, loc, edits, known>>
  BY DEF Resolve
<1>5. issues' \in Seq(Issue) /\ Len(issues') = Len(issues) /\ Grown /\ DuplicateHasOriginal'
  <2>1. CASE UNCHANGED issues
    BY <2>1, FeedbackFacts DEF IInv, Grown, DuplicateHasOriginal
  <2>2. CASE issues' = Patch(n, Resolved(was.rec, f), "resolved")
    <3>1. was \in Issue /\ f \in Authors \union {NoOne}
      BY <1>2, <1>3, ElementOfSeq
    <3>2. was.rec \in Record
      BY <3>1 DEF Issue
    <3> HIDE DEF was
    <3>3. Resolved(was.rec, f) \in Record /\ "resolved" \in Statuses
      BY <3>1, <3>2 DEF Resolved, Record, Statuses
    <3> QED BY <1>3, <2>2, <3>3, PatchStep
  <2> QED BY <1>1, <2>1, <2>2
<1>6. fb' = [fb EXCEPT ![f] = g]
  BY <1>1, FeedbackFacts
<1>7. T \in SUBSET Numbers /\ L \in Seq(Issue) /\ T \subseteq DOMAIN L /\ Len(L) <= Len(issues)
  <2>1. <<>> \in Seq(Issue) /\ Len(<<>>) = 0
    BY EmptySeq
  <2>2. CASE fb[f].todo = {n}
    BY <1>2, <2>1, <2>2, FeedbackFacts
  <2>3. CASE fb[f].todo # {n}
    BY <1>2, <2>3
  <2> QED BY <2>2, <2>3
<1>8. pc' = [pc EXCEPT ![f] = at] /\ at \in Places
  BY <1>1, FeedbackFacts DEF Goto
<1> HIDE DEF T, L, at
<1>9. g \in FbType /\ g.todo = T /\ g.list = L
  BY <1>7, FeedbackFacts DEF FbType
<1> HIDE DEF g
<1> QED BY <1>4, <1>5, <1>6, <1>7, <1>8, <1>9, FeedbackStep

\* What is left to show of a step outside the jobs.
LEMMA OutsideStep ==
    ASSUME IInv, issues' \in Seq(Issue), Len(issues') = Len(issues), Grown, DuplicateHasOriginal',
           index' \in [state : {"missing", "ok", "corrupt"}, map : IndexMap],
           day' \in Days, edits' \in 0 .. MaxEdits, UNCHANGED <<pc, loc, fb, known>>
    PROVE  IInv'
<1>1. TypeOK /\ TypeOK'
  BY DEF IInv, TypeOK
<1>2. \A d \in Deliveries : At(d)'
  BY <1>1, AtStays DEF IInv
<1>3. \A f \in Feedbacks : FbAt(f)'
  BY <1>1, FbAtStays DEF IInv
<1> QED BY <1>1, <1>2, <1>3 DEF IInv

LEMMA HumanStep ==
    ASSUME IInv,
           \/ \E n \in DOMAIN issues : HumanTogglesIssue(n) \/ HumanGarblesIssue(n)
           \/ HumanEditsIndex
    PROVE  IInv'
<1>0. /\ issues \in Seq(Issue) /\ day \in Days /\ UNCHANGED <<day, pc, loc, fb, known>>
      /\ index \in [state : {"missing", "ok", "corrupt"}, map : IndexMap]
  BY DEF IInv, TypeOK, HumanTogglesIssue, HumanGarblesIssue, HumanEditsIndex
<1>1. edits' \in 0 .. MaxEdits
  BY DEF IInv, TypeOK, HumanTogglesIssue, HumanGarblesIssue, HumanEditsIndex, HumanEdit
<1>2. CASE \E n \in DOMAIN issues : HumanTogglesIssue(n) \/ HumanGarblesIssue(n)
  <2>1. PICK n \in DOMAIN issues : HumanTogglesIssue(n) \/ HumanGarblesIssue(n)
    BY <1>2
  <2>2. issues[n] \in Issue
    BY <1>0, ElementOfSeq
  <2>3. issues[n].rec \in Record /\ issues[n].status \in Statuses /\ {"open", "human"} \subseteq Statuses
    BY <2>2 DEF Issue, Statuses
  <2>4. PICK rec \in Record, status \in Statuses :
          /\ issues' = Patch(n, rec, status)
          /\ status # "duplicate" \/ issues[n].status = "duplicate"
    BY <2>1, <2>3, UnreadableType DEF HumanTogglesIssue, HumanGarblesIssue
  <2>5. issues' \in Seq(Issue) /\ Len(issues') = Len(issues) /\ Grown /\ DuplicateHasOriginal'
    BY <2>4, PatchStep
  <2>6. UNCHANGED index
    BY <2>1 DEF HumanTogglesIssue, HumanGarblesIssue
  <2> QED BY <1>0, <1>1, <2>5, <2>6, OutsideStep
<1>3. CASE HumanEditsIndex
  <2>1. issues' \in Seq(Issue) /\ Len(issues') = Len(issues) /\ Grown /\ DuplicateHasOriginal'
    BY <1>0, <1>3 DEF IInv, Grown, DuplicateHasOriginal, HumanEditsIndex
  <2>2. index' \in [state : {"missing", "ok", "corrupt"}, map : IndexMap]
    <3>1. index.map \in IndexMap /\ NoIndex \in IndexMap
      BY <1>0 DEF IndexMap, NoIndex
    <3>2. ASSUME NEW fp \in Fingerprints, NEW n \in Numbers
          PROVE  [index EXCEPT !.map[fp] = n] \in [state : {"missing", "ok", "corrupt"}, map : IndexMap]
      <4>1. [index.map EXCEPT ![fp] = n] \in IndexMap
        BY <3>1 DEF IndexMap, Numbers
      <4> DEFINE map == [index.map EXCEPT ![fp] = n]
      <4>2. [index EXCEPT !.map[fp] = n] = [index EXCEPT !.map = map]
        BY <1>0
      <4> HIDE DEF map
      <4> QED BY <1>0, <4>1, <4>2 DEF map
    <3> QED BY <1>3, <3>1, <3>2 DEF HumanEditsIndex
  <2> QED BY <1>0, <1>1, <2>1, <2>2, OutsideStep
<1> QED BY <1>2, <1>3

LEMMA TickStep == ASSUME IInv, Tick PROVE IInv'
<1>1. day' \in Days
  BY DEF IInv, TypeOK, Tick, Days
<1>2. UNCHANGED <<issues, index, pc, loc, fb, edits, known>>
  BY DEF Tick
<1>3. issues' \in Seq(Issue) /\ Len(issues') = Len(issues) /\ Grown /\ DuplicateHasOriginal'
  BY <1>2 DEF IInv, TypeOK, Grown, DuplicateHasOriginal
<1> QED BY <1>1, <1>2, <1>3, OutsideStep DEF IInv, TypeOK

LEMMA InitIInv == Init => IInv
<1> SUFFICES ASSUME Init PROVE IInv
  OBVIOUS
<1>1. issues = <<>> /\ issues \in Seq(Issue) /\ Len(issues) = 0 /\ DOMAIN issues = {}
  BY EmptySeq DEF Init
<1>2. NoIndex \in IndexMap
  BY DEF NoIndex, IndexMap
<1>3. TypeOK
  <2>1. /\ loc \in [Deliveries -> LocType] /\ day \in Days /\ edits \in 0 .. MaxEdits
        /\ known \in [Deliveries -> 0 .. MaxIssues] /\ pc \in [Procs -> Places]
    BY BlankType DEF Init, Days, Places
  <2>2. fb \in [Feedbacks -> [list : Seq(Issue), todo : SUBSET Numbers, times : 0 .. MaxDeliveries]]
    BY <1>1 DEF Init
  <2>3. index \in [state : {"missing", "ok", "corrupt"}, map : IndexMap]
    BY <1>2 DEF Init
  <2> QED BY <1>1, <2>1, <2>2, <2>3 DEF TypeOK
<1>4. \A d \in Deliveries : At(d)
  <2> TAKE d \in Deliveries
  <2>1. pc[d] = "idle" /\ loc[d].scan = <<>> /\ known[d] = 0
    BY DEF Init, Procs, Blank
  <2> QED BY <1>1, <2>1 DEF At
<1>5. \A f \in Feedbacks : FbAt(f)
  BY <1>1 DEF Init, FbAt
<1>6. DuplicateHasOriginal
  BY <1>1 DEF DuplicateHasOriginal
<1> QED BY <1>3, <1>4, <1>5, <1>6 DEF IInv

LEMMA NextIInv == IInv /\ [Next]_vars => IInv'
<1> SUFFICES ASSUME IInv, [Next]_vars PROVE IInv'
  OBVIOUS
<1>1. ASSUME NEW d \in Deliveries, LoadIndex(d) \/ Step(d) \/ Crash(d)
      PROVE  IInv'
  BY <1>1, LoadIndexStep, GetIssueStep, ScanStep, UpdateStep, CreateStep, RescanStep, HealStep,
     CloseDuplicateStep, SweepStep, CloseStaleStep, FlushStep, CrashStep DEF Step
<1>2. ASSUME NEW f \in Feedbacks, ReadIssue(f) \/ ReadPullRequest(f) \/ Resolve(f)
      PROVE  IInv'
  <2>1. CASE ReadIssue(f)
    <3>1. PICK n \in DOMAIN issues : Resolving(f, {n})
      BY <2>1 DEF ReadIssue
    <3> QED BY <2>1, <3>1, ReadStep DEF ReadIssue
  <2>2. CASE ReadPullRequest(f)
    <3>1. PICK S \in SUBSET DOMAIN issues : Resolving(f, S)
      BY <2>2 DEF ReadPullRequest
    <3> QED BY <2>2, <3>1, ReadStep DEF ReadPullRequest
  <2> QED BY <1>2, <2>1, <2>2, ResolveStep
<1>3. CASE UNCHANGED vars
  BY <1>3 DEF vars, IInv, TypeOK, At, FbAt, DuplicateHasOriginal
<1> QED BY <1>1, <1>2, <1>3, HumanStep, TickStep DEF Next

LEMMA Invariant == Spec => []IInv
BY InitIInv, NextIInv, PTL DEF Spec

-----------------------------------------------------------------------------
(* What follows, for any number of jobs, humans and faults *)

\* The jobs and the humans only ever leave values of these types.
THEOREM TypesAreKept == Spec => []TypeOK
<1>1. IInv => TypeOK
  BY DEF IInv
<1> QED BY <1>1, Invariant, PTL

\* A delivery only goes on to open an issue when every issue that existed when
\* it started is of another fingerprint (_find, the "never create blind" of
\* _sync), whatever the index said and whichever reads failed.
THEOREM CreatesOnlyUnknown == Spec => []CreateOnlyUnknown
<1>1. IInv => CreateOnlyUnknown
  BY DEF IInv, At, CreateOnlyUnknown
<1> QED BY <1>1, Invariant, PTL

\* However many self-heals of one fingerprint interleave, the issue closed as a
\* duplicate is never its first (_self_heal).
THEOREM DuplicatesHaveOriginals == Spec => []DuplicateHasOriginal
<1>1. IInv => DuplicateHasOriginal
  BY DEF IInv
<1> QED BY <1>1, Invariant, PTL

\* The record a delivery writes goes to an issue of its own fingerprint, also
\* when the index named another one or a self-heal chose the issue
\* (_find, _create, _update).
THEOREM WritesStayApart == Spec => []WritesOwnFingerprint
<1>1. IInv => WritesOwnFingerprint
  BY DEF IInv, At, WritesOwnFingerprint
<1> QED BY <1>1, Invariant, PTL

-----------------------------------------------------------------------------
(* What a step leaves in the memory of the job that takes it *)

\* What two states of a job's memory have in common: what it has read of the
\* index and the listing, the issue it works on, what it reports.
SameSeen(k, l)   == k.idx = l.idx /\ k.scan = l.scan
SameHold(k, l)   == k.num = l.num /\ k.snap = l.snap /\ k.closed = l.closed /\ k.own = l.own
SameReport(k, l) == k.result = l.result /\ k.ref = l.ref

LEMMA LateFields ==
    ASSUME NEW l \in LocType
    PROVE  /\ Late(l) \in LocType /\ SameSeen(Late(l), l) /\ SameHold(Late(l), l)
           /\ SameReport(Late(l), l) /\ Late(l).todo = l.todo
BY DEF Late, LocType, SameSeen, SameHold, SameReport

LEMMA ScannedFields ==
    ASSUME NEW l \in LocType, NEW list \in Seq(Issue)
    PROVE  LET k == Scanned(l, list) IN
           /\ k \in LocType /\ k.idx = l.idx /\ k.scan = list
           /\ SameHold(k, l) /\ SameReport(k, l) /\ k.todo = l.todo /\ k.late = l.late
           /\ k.blind = l.blind
BY DEF Scanned, LocType, SameHold, SameReport

LEMMA ScanFailedFields ==
    ASSUME NEW l \in LocType
    PROVE  LET k == ScanFailed(l) IN
           /\ k \in LocType /\ k.idx = l.idx /\ k.scan = <<>>
           /\ SameHold(k, l) /\ SameReport(k, l) /\ k.todo = l.todo /\ k.late = l.late
           /\ k.blind = TRUE
<1>1. <<>> \in Seq(Issue)
  BY EmptySeq
<1> QED BY <1>1 DEF ScanFailed, LocType, SameHold, SameReport

LEMMA IndexedFields ==
    ASSUME NEW l \in LocType, NEW fp \in Fingerprints, NEW n \in 0 .. MaxIssues
    PROVE  LET k == Indexed(l, fp, n) IN
           /\ k \in LocType /\ k.idx = [l.idx EXCEPT ![fp] = n] /\ k.scan = l.scan
           /\ SameHold(k, l) /\ SameReport(k, l) /\ k.todo = l.todo /\ k.late = l.late
<1> DEFINE i == [l.idx EXCEPT ![fp] = n]
           b == l.dirty \/ l.idx[fp] # n
<1>1. i \in IndexMap /\ b \in BOOLEAN
  BY DEF LocType, IndexMap
<1>2. Indexed(l, fp, n) = [l EXCEPT !.idx = i, !.dirty = b]
  BY DEF Indexed
<1> HIDE DEF i, b
<1>3. LET k == Indexed(l, fp, n) IN
      /\ k \in LocType /\ k.idx = i /\ k.scan = l.scan
      /\ SameHold(k, l) /\ SameReport(k, l) /\ k.todo = l.todo /\ k.late = l.late
  BY <1>1, <1>2 DEF LocType, SameHold, SameReport
<1> QED BY <1>3 DEF i

LEMMA TargetFields ==
    ASSUME NEW l \in LocType, NEW list \in Seq(Issue), NEW n \in DOMAIN list, n <= MaxIssues
    PROVE  LET k == Target(l, list, n) IN
           /\ k \in LocType /\ SameSeen(k, l) /\ SameReport(k, l)
           /\ k.num = n /\ k.snap = list[n].rec /\ k.closed = (list[n].status # "open")
           /\ k.own = l.own /\ k.todo = l.todo /\ k.late = l.late
<1> DEFINE rec == list[n].rec
           c   == list[n].status # "open"
<1>1. n \in 0 .. MaxIssues /\ list[n] \in Issue
  BY ElementOfSeq
<1>2. rec \in Record /\ c \in BOOLEAN
  BY <1>1 DEF Issue
<1>3. Target(l, list, n) = [l EXCEPT !.num = n, !.snap = rec, !.closed = c]
  BY DEF Target
<1> HIDE DEF rec, c
<1>4. LET k == Target(l, list, n) IN
           /\ k \in LocType /\ SameSeen(k, l) /\ SameReport(k, l)
           /\ k.num = n /\ k.snap = rec /\ k.closed = c
           /\ k.own = l.own /\ k.todo = l.todo /\ k.late = l.late
  BY <1>1, <1>2, <1>3 DEF LocType, SameSeen, SameReport
<1> QED BY <1>4 DEF rec, c

LEMMA CreatedFields ==
    ASSUME NEW l \in LocType, NEW fp \in Fingerprints, NEW n \in 0 .. MaxIssues
    PROVE  LET k == Created(l, fp, n) IN
           /\ k \in LocType /\ k.idx = [l.idx EXCEPT ![fp] = n] /\ k.scan = l.scan
           /\ k.num = n /\ k.own = n /\ SameReport(k, l) /\ k.todo = l.todo /\ k.late = l.late
<1> DEFINE j == [l EXCEPT !.own = n, !.num = n]
<1>1. /\ j \in LocType /\ SameSeen(j, l) /\ SameReport(j, l)
      /\ j.own = n /\ j.num = n /\ j.todo = l.todo /\ j.late = l.late
  BY DEF LocType, SameSeen, SameReport
<1>2. Created(l, fp, n) = Indexed(j, fp, n)
  BY DEF Created
<1> HIDE DEF j
<1>3. LET k == Indexed(j, fp, n) IN
           /\ k \in LocType /\ k.idx = [j.idx EXCEPT ![fp] = n] /\ k.scan = j.scan
           /\ SameHold(k, j) /\ SameReport(k, j) /\ k.todo = j.todo /\ k.late = j.late
  BY <1>1, IndexedFields
<1> QED BY <1>1, <1>2, <1>3 DEF SameSeen, SameHold, SameReport

LEMMA TodoFields ==
    ASSUME NEW l \in LocType, NEW S \in SUBSET Numbers
    PROVE  LET k == [l EXCEPT !.todo = S] IN
           /\ k \in LocType /\ k.todo = S /\ k.late = l.late
           /\ SameSeen(k, l) /\ SameHold(k, l) /\ SameReport(k, l)
BY DEF LocType, SameSeen, SameHold, SameReport

LEMMA ReportFields ==
    ASSUME NEW l \in LocType, NEW res \in Results
    PROVE  LET k == Report(l, res) IN
           /\ k \in LocType /\ SameSeen(k, l) /\ k.late = l.late /\ k.todo = l.todo
           /\ k.own = 0
           /\ l.own # 0 => k.result = "created" /\ k.ref = l.num
           /\ l.own = 0 => k.result = res /\ (res \notin {"failed", "skipped"} => k.ref = l.num)
<1> DEFINE done == [l EXCEPT !.num = 0, !.snap = Unreadable, !.closed = FALSE, !.own = 0]
<1>1. done \in LocType /\ SameSeen(done, l) /\ done.late = l.late /\ done.todo = l.todo /\ done.own = 0
  <2>1. 0 \in 0 .. MaxIssues
    OBVIOUS
  <2> QED BY <2>1, UnreadableType DEF LocType, SameSeen
<1>2. 0 \in 0 .. MaxIssues /\ "created" \in Results /\ l.num \in 0 .. MaxIssues
  BY DEF Results, LocType
<1>3. CASE l.own # 0
  <2>1. Report(l, res) = [done EXCEPT !.result = "created", !.ref = l.num]
    BY <1>3 DEF Report
  <2> HIDE DEF done
  <2> QED BY ZenonT(60), <1>1, <1>2, <1>3, <2>1 DEF LocType, SameSeen
<1>4. CASE l.own = 0
  <2> DEFINE r == IF res \in {"failed", "skipped"} THEN 0 ELSE l.num
  <2>1. Report(l, res) = [done EXCEPT !.result = res, !.ref = r]
    BY <1>4 DEF Report
  <2>2. r \in 0 .. MaxIssues /\ (res \notin {"failed", "skipped"} => r = l.num)
    BY <1>2
  <2> HIDE DEF done, r
  <2> QED BY <1>1, <1>4, <2>1, <2>2 DEF LocType, SameSeen
<1> QED BY <1>3, <1>4

-----------------------------------------------------------------------------
(* What a step leaves in the issues *)

LEMMA PatchFacts ==
    ASSUME IInv, IInv', NEW n \in DOMAIN issues, NEW rec, NEW status, issues' = Patch(n, rec, status)
    PROVE  /\ Grown /\ DOMAIN issues' = DOMAIN issues
           /\ \A m \in DOMAIN issues : m # n => issues'[m] = issues[m]
           /\ issues'[n].fp = issues[n].fp /\ issues'[n].rec = rec /\ issues'[n].status = status
<1>1. issues \in Seq(Issue) /\ issues' \in Seq(Issue)
  BY DEF IInv, TypeOK
<1>2. issues[n] \in Issue
  BY <1>1, ElementOfSeq
<1> DEFINE e == [issues[n] EXCEPT !.rec = rec, !.status = status]
<1>3. e.fp = issues[n].fp /\ e.rec = rec /\ e.status = status
  BY <1>2 DEF Issue
<1>4. issues' = [issues EXCEPT ![n] = e]
  BY DEF Patch
<1> HIDE DEF e
<1>5. /\ DOMAIN issues' = DOMAIN issues /\ issues'[n] = e
      /\ \A m \in DOMAIN issues : m # n => issues'[m] = issues[m]
  BY <1>4
<1>6. \A m \in DOMAIN issues : issues'[m].fp = issues[m].fp
  BY <1>3, <1>5, Zenon
<1>7. Len(issues) <= Len(issues')
  <2>1. DOMAIN issues = 1 .. Len(issues) /\ DOMAIN issues' = 1 .. Len(issues')
        /\ Len(issues) \in Nat /\ Len(issues') \in Nat
    BY <1>1
  <2> QED BY <1>5, <2>1
<1> QED BY <1>3, <1>5, <1>6, <1>7 DEF Grown

LEMMA AppendFacts ==
    ASSUME IInv, IInv', NEW e \in Issue,
           issues' = Append(issues, e) \/ issues' = Append(Append(issues, e), e)
    PROVE  /\ Grown /\ DOMAIN issues \subseteq DOMAIN issues'
           /\ \A n \in DOMAIN issues : issues'[n] = issues[n]
           /\ \A n \in DOMAIN issues' : n \notin DOMAIN issues => issues'[n] = e /\ n > Len(issues)
           /\ issues' = Append(issues, e) => Len(issues') = Len(issues) + 1
<1>1. /\ issues \in Seq(Issue) /\ issues' \in Seq(Issue) /\ Len(issues) \in Nat /\ Len(issues') \in Nat
      /\ DOMAIN issues = 1 .. Len(issues) /\ DOMAIN issues' = 1 .. Len(issues')
  BY DEF IInv, TypeOK
<1>a. issues \in Seq(Issue) /\ Len(issues) \in Nat
  BY <1>1
<1> DEFINE one == Append(issues, e)
           two == Append(one, e)
<1>2. /\ one \in Seq(Issue) /\ Len(one) = Len(issues) + 1 /\ one[Len(issues) + 1] = e
      /\ \A n \in 1 .. Len(issues) : one[n] = issues[n]
  BY <1>a, AppendProperties
<1> HIDE DEF one
<1>3. /\ Len(two) = Len(issues) + 2 /\ two[Len(issues) + 2] = e
      /\ \A n \in 1 .. Len(one) : two[n] = one[n]
  BY <1>a, <1>2, AppendProperties
<1> HIDE DEF two
<1>b. two[Len(issues) + 1] = e /\ \A n \in 1 .. Len(issues) : two[n] = issues[n]
  <2>1. Len(issues) + 1 \in 1 .. Len(one) /\ \A n \in 1 .. Len(issues) : n \in 1 .. Len(one)
    BY <1>a, <1>2
  <2> QED BY <1>2, <1>3, <2>1
<1>4. CASE issues' = one
  <2>1. /\ Len(issues') = Len(issues) + 1 /\ issues'[Len(issues) + 1] = e
        /\ \A n \in 1 .. Len(issues) : issues'[n] = issues[n]
    BY <1>2, <1>4
  <2> QED BY <1>1, <2>1 DEF Grown
<1>5. CASE issues' = two
  <2>1. /\ Len(issues') = Len(issues) + 2 /\ issues'[Len(issues) + 1] = e /\ issues'[Len(issues) + 2] = e
        /\ \A n \in 1 .. Len(issues) : issues'[n] = issues[n]
    BY <1>3, <1>5, <1>b
  <2>2. issues' # one
    BY <1>1, <1>2, <2>1
  <2> QED BY <1>1, <2>1, <2>2 DEF Grown, one
<1> QED BY <1>4, <1>5 DEF one, two

-----------------------------------------------------------------------------
(* What each step of a delivery does, in terms of the fields it changes *)

Moves(d, l, at) == loc' = [loc EXCEPT ![d] = l] /\ pc' = [pc EXCEPT ![d] = at]

LEMMA MovesFacts ==
    ASSUME IInv, NEW d \in Deliveries, NEW l, NEW at, Moves(d, l, at)
    PROVE  /\ loc'[d] = l /\ pc'[d] = at
           /\ \A e \in Deliveries : e # d => loc'[e] = loc[e] /\ pc'[e] = pc[e]
           /\ \A p \in Procs : p # d => pc'[p] = pc[p]
<1>1. loc \in [Deliveries -> LocType] /\ pc \in [Procs -> Places] /\ Deliveries \subseteq Procs
  BY DEF IInv, TypeOK, Procs
<1> QED BY <1>1 DEF Moves

\* The end of the writing: the report, of the issue created or the one updated.
Reports(l, own, num, res) ==
    /\ l.own = 0
    /\ own # 0 => l.result = "created" /\ l.ref = num
    /\ own = 0 => l.result = res /\ (res \notin {"failed", "skipped"} => l.ref = num)

LEMMA ReturnShape ==
    ASSUME NEW d \in Deliveries, NEW l \in LocType, NEW res \in Results, Return(d, l, res)
    PROVE  \E k \in LocType : /\ Moves(d, k, "sweep") /\ SameSeen(k, l) /\ k.late = l.late
                              /\ Reports(k, l.own, l.num, res)
<1>1. LET k == Report(l, res) IN
           /\ k \in LocType /\ SameSeen(k, l) /\ k.late = l.late /\ k.todo = l.todo
           /\ k.own = 0
           /\ l.own # 0 => k.result = "created" /\ k.ref = l.num
           /\ l.own = 0 => k.result = res /\ (res \notin {"failed", "skipped"} => k.ref = l.num)
  BY ReportFields
<1> DEFINE k == Report(l, res)
<1>2. Moves(d, k, "sweep")
  BY DEF Return, Keep, Goto, Moves
<1> HIDE DEF k
<1>3. k \in LocType /\ SameSeen(k, l) /\ k.late = l.late /\ Reports(k, l.own, l.num, res)
  BY <1>1 DEF k, Reports
<1> QED BY <1>2, <1>3

LEMMA LoadIndexShape ==
    ASSUME IInv, NEW d \in Deliveries, LoadIndex(d)
    PROVE  \E l \in LocType, at \in {"get", "scan"} :
             /\ Moves(d, l, at) /\ l.idx \in {index.map, NoIndex} /\ l.scan = <<>>
             /\ l.own = 0 /\ l.late = FALSE /\ l.result = "none"
<1>1. PICK l : /\ loc' = [loc EXCEPT ![d] = l] /\ l \in LocType /\ l.scan = <<>>
               /\ l.idx \in {index.map, NoIndex} /\ l.own = 0 /\ l.late = FALSE /\ l.result = "none"
  <2>1. CASE Keep(d, [Blank EXCEPT !.idx = index.map, !.idxState = index.state])
    <3>1. index.map \in IndexMap /\ index.state \in {"missing", "ok", "corrupt"}
      BY DEF IInv, TypeOK
    <3> DEFINE l == [Blank EXCEPT !.idx = index.map, !.idxState = index.state]
    <3>2. l \in LocType /\ l.scan = <<>> /\ l.idx = index.map /\ l.own = 0 /\ l.late = FALSE /\ l.result = "none"
      BY <3>1, BlankType DEF LocType, Blank
    <3> QED BY <2>1, <3>2 DEF Keep
  <2>2. CASE Keep(d, [Blank EXCEPT !.idxState = "error"])
    <3> DEFINE l == [Blank EXCEPT !.idxState = "error"]
    <3>1. l \in LocType /\ l.scan = <<>> /\ l.idx = NoIndex /\ l.own = 0 /\ l.late = FALSE /\ l.result = "none"
      BY BlankType DEF LocType, Blank
    <3> QED BY <2>2, <3>1 DEF Keep
  <2> QED BY <2>1, <2>2 DEF LoadIndex
<1>2. PICK at \in {"get", "scan"} : pc' = [pc EXCEPT ![d] = at]
  BY DEF LoadIndex, Goto
<1> QED BY <1>1, <1>2 DEF Moves

LEMMA GetIssueShape ==
    ASSUME IInv, NEW d \in Deliveries, GetIssue(d)
    PROVE  \/ Moves(d, loc[d], "scan")
           \/ \E l \in LocType, n \in Of(issues, FpOf[d]) :
                /\ Moves(d, l, "update") /\ SameSeen(l, loc[d]) /\ SameReport(l, loc[d])
                /\ n = loc[d].idx[FpOf[d]] /\ n # 0
                /\ l.num = n /\ l.snap = issues[n].rec /\ l.closed = (issues[n].status # "open")
                /\ l.own = loc[d].own /\ l.late = loc[d].late
<1> DEFINE n == loc[d].idx[FpOf[d]]
<1>1. CASE n \in Of(issues, FpOf[d]) /\ Keep(d, Target(loc[d], issues, n)) /\ Goto(d, "update")
  <2> DEFINE l == Target(loc[d], issues, n)
  <2>1. n \in DOMAIN issues /\ n <= MaxIssues /\ n # 0
    BY <1>1, DeliveryFacts DEF Of
  <2>2. loc[d] \in LocType /\ issues \in Seq(Issue)
    BY DeliveryFacts
  <2>3. /\ l \in LocType /\ SameSeen(l, loc[d]) /\ SameReport(l, loc[d])
        /\ l.num = n /\ l.snap = issues[n].rec /\ l.closed = (issues[n].status # "open")
        /\ l.own = loc[d].own /\ l.late = loc[d].late
    BY <2>1, <2>2, TargetFields
  <2>4. Moves(d, l, "update")
    BY <1>1 DEF Keep, Goto, Moves
  <2> HIDE DEF l
  <2> QED BY <1>1, <2>1, <2>3, <2>4
<1>2. CASE Goto(d, "scan") /\ UNCHANGED loc
  BY <1>2, DeliveryFacts DEF Goto, Moves
<1> QED BY <1>1, <1>2 DEF GetIssue

LEMMA ScanShape ==
    ASSUME IInv, NEW d \in Deliveries, Scan(d)
    PROVE  \E l \in LocType :
             /\ l.late = loc[d].late
             /\ \/ \E n \in Of(issues, FpOf[d]) :
                     /\ Lowest(n, Of(issues, FpOf[d]))
                     /\ Moves(d, l, "update") /\ l.idx = [loc[d].idx EXCEPT ![FpOf[d]] = n]
                     /\ l.scan = issues /\ SameReport(l, loc[d])
                     /\ l.num = n /\ l.snap = issues[n].rec /\ l.closed = (issues[n].status # "open")
                     /\ l.own = loc[d].own
                \/ /\ Of(issues, FpOf[d]) = {} /\ Moves(d, l, "create")
                   /\ l.idx = loc[d].idx /\ l.scan = issues
                   /\ SameHold(l, loc[d]) /\ SameReport(l, loc[d])
                \/ /\ Moves(d, l, "sweep") /\ l.idx = loc[d].idx /\ l.scan \in {issues, <<>>}
                   /\ Reports(l, loc[d].own, loc[d].num, "skipped")
<1> DEFINE fp == FpOf[d]
           s  == Scanned(loc[d], issues)
           m  == ScanFailed(loc[d])
<1>1. loc[d] \in LocType /\ issues \in Seq(Issue) /\ fp \in Fingerprints /\ "skipped" \in Results
  BY DeliveryFacts
<1>2. /\ s \in LocType /\ s.idx = loc[d].idx /\ s.scan = issues
      /\ SameHold(s, loc[d]) /\ SameReport(s, loc[d]) /\ s.late = loc[d].late
  BY <1>1, ScannedFields
<1>3. /\ m \in LocType /\ m.idx = loc[d].idx /\ m.scan = <<>>
      /\ SameHold(m, loc[d]) /\ SameReport(m, loc[d]) /\ m.late = loc[d].late /\ m.blind = TRUE
  BY <1>1, ScanFailedFields
<1> HIDE DEF s, m
<1>4. ASSUME NEW n \in DOMAIN issues, Lowest(n, Of(issues, fp)),
             Keep(d, Indexed(Target(s, issues, n), fp, n)), Goto(d, "update")
      PROVE  \E l \in LocType :
                     /\ l.late = loc[d].late
                     /\ Moves(d, l, "update") /\ l.idx = [loc[d].idx EXCEPT ![FpOf[d]] = n]
                     /\ l.scan = issues /\ SameReport(l, loc[d])
                     /\ l.num = n /\ l.snap = issues[n].rec /\ l.closed = (issues[n].status # "open")
                     /\ l.own = loc[d].own
  <2> DEFINE t == Target(s, issues, n)
             k == Indexed(t, fp, n)
  <2>1. n <= MaxIssues /\ n \in 0 .. MaxIssues
    BY <1>4, DeliveryFacts
  <2>2. /\ t \in LocType /\ SameSeen(t, s) /\ SameReport(t, s)
        /\ t.num = n /\ t.snap = issues[n].rec /\ t.closed = (issues[n].status # "open")
        /\ t.own = s.own /\ t.late = s.late
    BY <1>1, <1>2, <2>1, TargetFields
  <2> HIDE DEF t
  <2>3. /\ k \in LocType /\ k.idx = [t.idx EXCEPT ![fp] = n] /\ k.scan = t.scan
        /\ SameHold(k, t) /\ SameReport(k, t) /\ k.late = t.late
    BY <1>1, <2>1, <2>2, IndexedFields
  <2>4. Moves(d, k, "update")
    BY <1>4 DEF Keep, Goto, Moves, t
  <2> HIDE DEF k
  <2>5. /\ k.idx = [loc[d].idx EXCEPT ![fp] = n] /\ k.scan = issues /\ SameReport(k, loc[d])
        /\ k.num = n /\ k.snap = issues[n].rec /\ k.closed = (issues[n].status # "open")
        /\ k.own = loc[d].own /\ k.late = loc[d].late
    BY <1>2, <2>2, <2>3 DEF SameSeen, SameHold, SameReport
  <2> QED BY <2>3, <2>4, <2>5
<1>5. ASSUME NEW k \in {s, m}, Return(d, k, "skipped")
      PROVE  \E l \in LocType :
                /\ l.late = loc[d].late
                /\ Moves(d, l, "sweep") /\ l.idx = loc[d].idx /\ l.scan \in {issues, <<>>}
                /\ Reports(l, loc[d].own, loc[d].num, "skipped")
  <2>1. k \in LocType
    BY <1>2, <1>3, <1>5
  <2>2. PICK l \in LocType : /\ Moves(d, l, "sweep") /\ SameSeen(l, k) /\ l.late = k.late
                             /\ Reports(l, k.own, k.num, "skipped")
    BY <1>1, <1>5, <2>1, ReturnShape
  <2> QED BY <1>2, <1>3, <1>5, <2>2 DEF SameSeen, SameHold
<1>6. CASE \E n \in DOMAIN issues :
            /\ Lowest(n, Of(issues, fp))
            /\ Keep(d, Indexed(Target(s, issues, n), fp, n))
            /\ Goto(d, "update")
  <2>1. PICK n \in DOMAIN issues :
            /\ Lowest(n, Of(issues, fp))
            /\ Keep(d, Indexed(Target(s, issues, n), fp, n))
            /\ Goto(d, "update")
    BY <1>6
  <2>2. n \in Of(issues, FpOf[d])
    BY <2>1 DEF Lowest
  <2> QED BY <2>1, <2>2, <1>4
<1>7. CASE Of(issues, fp) = {} /\ Keep(d, s) /\ Goto(d, "create")
  <2>1. Moves(d, s, "create")
    BY <1>7 DEF Keep, Goto, Moves
  <2> QED BY <1>2, <1>7, <2>1
<1>8. CASE Return(d, s, "skipped") \/ Return(d, m, "skipped")
  BY <1>5, <1>8
<1>9. \/ \E n \in DOMAIN issues :
            /\ Lowest(n, Of(issues, fp))
            /\ Keep(d, Indexed(Target(s, issues, n), fp, n))
            /\ Goto(d, "update")
      \/ Of(issues, fp) = {} /\ NotFound(d, s)
      \/ NotFound(d, m)
  BY DEF Scan, s, m
<1> QED BY <1>3, <1>6, <1>7, <1>8, <1>9 DEF NotFound

LEMMA UpdateShape ==
    ASSUME IInv, NEW d \in Deliveries, Update(d)
    PROVE  \E l \in LocType, res \in Results :
             /\ Moves(d, l, "sweep") /\ l.scan = loc[d].scan
             /\ l.idx \in {loc[d].idx, [loc[d].idx EXCEPT ![FpOf[d]] = loc[d].num]}
             /\ l.late => loc[d].late \/ MayFail("late")
             /\ Reports(l, loc[d].own, loc[d].num, res)
             /\ \/ issues' = Patched(d)
                \/ /\ UNCHANGED issues
                   /\ res \in {"failed", "skipped"} \/ Counted(loc[d].snap, RunOf[d])
             /\ res \in {"failed", "skipped"} =>
                   loc[d].late \/ MayFail("late") \/ MayFail("write") \/ MayFail("lost")
<1> DEFINE l == loc[d]
           k == Indexed(l, FpOf[d], l.num)
           m == Late(l)
<1>1. /\ l \in LocType /\ l.num \in 0 .. MaxIssues /\ FpOf[d] \in Fingerprints /\ l.late \in BOOLEAN
      /\ {"unchanged", "reopened", "updated", "skipped", "failed"} \subseteq Results
  BY DeliveryFacts DEF LocType
<1>2. /\ k \in LocType /\ k.idx = [l.idx EXCEPT ![FpOf[d]] = l.num] /\ k.scan = l.scan
      /\ SameHold(k, l) /\ SameReport(k, l) /\ k.late = l.late
  BY <1>1, IndexedFields
<1>3. m \in LocType /\ SameSeen(m, l) /\ SameHold(m, l)
  BY <1>1, LateFields
<1> HIDE DEF l, k, m
<1> DEFINE G(n, res) == /\ Moves(d, n, "sweep") /\ n.scan = l.scan
                        /\ n.idx \in {l.idx, [l.idx EXCEPT ![FpOf[d]] = l.num]}
                        /\ n.late => l.late \/ MayFail("late")
                        /\ Reports(n, l.own, l.num, res)
           Excuse == l.late \/ MayFail("late") \/ MayFail("write") \/ MayFail("lost")
           W(res) == /\ \/ issues' = Patched(d)
                        \/ /\ UNCHANGED issues
                           /\ res \in {"failed", "skipped"} \/ Counted(l.snap, RunOf[d])
                     /\ res \in {"failed", "skipped"} => Excuse
<1> SUFFICES \E n \in LocType, res \in Results : G(n, res) /\ W(res)
  BY DEF l
<1>4. ASSUME NEW j \in {l, k, m}, NEW res \in Results, Return(d, j, res), j = m => (l.late \/ MayFail("late"))
      PROVE  \E n \in LocType : G(n, res)
  <2>1. j \in LocType
    BY <1>1, <1>2, <1>3, <1>4
  <2>2. PICK n \in LocType : /\ Moves(d, n, "sweep") /\ SameSeen(n, j) /\ n.late = j.late
                             /\ Reports(n, j.own, j.num, res)
    BY <1>4, <2>1, ReturnShape
  <2>3. n.scan = l.scan /\ n.idx \in {l.idx, [l.idx EXCEPT ![FpOf[d]] = l.num]}
    BY <1>2, <1>3, <1>4, <2>2 DEF SameSeen
  <2>4. j.own = l.own /\ j.num = l.num
    BY <1>2, <1>3, <1>4 DEF SameHold
  <2>5. n.late => l.late \/ MayFail("late")
    BY <1>2, <1>4, <2>2
  <2> QED BY <2>2, <2>3, <2>4, <2>5
<1>a. l = m => (l.late \/ MayFail("late"))
  BY <1>1 DEF m, Late, LocType
<1>b. k = m => (l.late \/ MayFail("late"))
  BY <1>1, <1>2 DEF m, Late, LocType
<1> HIDE DEF G
<1>5. CASE Counted(l.snap, RunOf[d]) /\ Return(d, l, "unchanged") /\ UNCHANGED issues
  <2>1. PICK n \in LocType : G(n, "unchanged")
    BY <1>1, <1>4, <1>5, <1>a
  <2> QED BY <1>1, <1>5, <2>1
<1>6. CASE issues' = Patched(d) /\ \E res \in {"reopened", "updated"} : Return(d, k, res)
  <2>1. PICK res \in {"reopened", "updated"} : Return(d, k, res)
    BY <1>6
  <2>2. res \in Results /\ res \notin {"failed", "skipped"}
    BY <1>1
  <2>3. PICK n \in LocType : G(n, res)
    BY <1>4, <1>b, <2>1, <2>2
  <2> QED BY <1>6, <2>2, <2>3
<1>7. CASE (l.late \/ MayFail("late")) /\ Return(d, m, "skipped") /\ UNCHANGED issues
  <2>1. PICK n \in LocType : G(n, "skipped")
    BY <1>1, <1>4, <1>7
  <2> QED BY <1>1, <1>7, <2>1
<1>8. CASE /\ MayFail("write") \/ MayFail("lost")
           /\ Return(d, l, "failed") /\ (UNCHANGED issues \/ issues' = Patched(d))
  <2>1. PICK n \in LocType : G(n, "failed")
    BY <1>1, <1>4, <1>8, <1>a
  <2> QED BY <1>1, <1>8, <2>1
<1>9. \/ Counted(l.snap, RunOf[d]) /\ Return(d, l, "unchanged") /\ UNCHANGED issues
      \/ issues' = Patched(d) /\ Return(d, k, IF l.closed THEN "reopened" ELSE "updated")
      \/ (l.late \/ MayFail("late")) /\ Return(d, m, "skipped") /\ UNCHANGED issues
      \/ /\ MayFail("write") \/ MayFail("lost")
         /\ Return(d, l, "failed") /\ (UNCHANGED issues \/ issues' = Patched(d))
  BY DEF Update, MayRunOut, l, k, m
<1>10. (IF l.closed THEN "reopened" ELSE "updated") \in {"reopened", "updated"}
  OBVIOUS
<1> QED BY <1>10, <1>5, <1>6, <1>7, <1>8, <1>9

LEMMA CreateShape ==
    ASSUME IInv, NEW d \in Deliveries, Create(d)
    PROVE  \/ \E l \in LocType, n \in 1 .. MaxIssues :
                /\ Moves(d, l, "heal") /\ l.idx = [loc[d].idx EXCEPT ![FpOf[d]] = n] /\ l.scan = loc[d].scan
                /\ l.num = n /\ l.own = n /\ SameReport(l, loc[d]) /\ l.late = loc[d].late
                /\ \/ issues' = Append(issues, Opened(d)) /\ n = Len(issues) + 1
                   \/ /\ issues' = Append(Append(issues, Opened(d)), Opened(d)) /\ n = Len(issues) + 2
                      /\ MayFail("twice")
           \/ /\ Moves(d, loc[d], "rescan")
              /\ MayFail("lost") \/ MayFail("write")
              /\ issues' = Append(issues, Opened(d)) \/ UNCHANGED issues
           \/ \E l \in LocType, res \in {"failed", "skipped"} :
                /\ Moves(d, l, "sweep") /\ SameSeen(l, loc[d])
                /\ Reports(l, loc[d].own, loc[d].num, res)
                /\ l.late => loc[d].late \/ MayFail("late")
                /\ loc[d].late \/ MayFail("late") \/ MayFail("lost") \/ MayFail("write")
                /\ issues' = Append(issues, Opened(d)) \/ UNCHANGED issues
<1> DEFINE l == loc[d]
           n == Len(issues) + 1
           m == Late(l)
<1>0. n \in Nat /\ n >= 1 /\ n <= MaxIssues /\ MaxIssues \in Nat
  BY DeliveryFacts DEF Create
<1>1. /\ l \in LocType /\ FpOf[d] \in Fingerprints /\ {"skipped", "failed"} \subseteq Results
  BY DeliveryFacts
<1>2. m \in LocType /\ SameSeen(m, l) /\ SameHold(m, l)
  BY <1>1, LateFields
<1> HIDE DEF l, m
<1>3. ASSUME NEW i \in 1 .. MaxIssues, Keep(d, Created(l, FpOf[d], i)), Goto(d, "heal")
      PROVE  \E k \in LocType :
                /\ Moves(d, k, "heal") /\ k.idx = [l.idx EXCEPT ![FpOf[d]] = i] /\ k.scan = l.scan
                /\ k.num = i /\ k.own = i /\ SameReport(k, l) /\ k.late = l.late
  <2> DEFINE k == Created(l, FpOf[d], i)
  <2>1. i \in 0 .. MaxIssues
    OBVIOUS
  <2>2. /\ k \in LocType /\ k.idx = [l.idx EXCEPT ![FpOf[d]] = i] /\ k.scan = l.scan
        /\ k.num = i /\ k.own = i /\ SameReport(k, l) /\ k.todo = l.todo /\ k.late = l.late
    BY <1>1, <2>1, CreatedFields
  <2>3. Moves(d, k, "heal")
    BY <1>3 DEF Keep, Goto, Moves
  <2> HIDE DEF k
  <2> QED BY <2>2, <2>3
<1>4. CASE issues' = Append(issues, Opened(d)) /\ Keep(d, Created(l, FpOf[d], n)) /\ Goto(d, "heal")
  <2>1. n \in 1 .. MaxIssues /\ n = Len(issues) + 1
    BY <1>0
  <2> HIDE DEF n
  <2> QED BY <1>3, <1>4, <2>1, Zenon DEF l
<1>5. CASE /\ n < MaxIssues /\ issues' = Append(Append(issues, Opened(d)), Opened(d)) /\ MayFail("twice")
           /\ Keep(d, Created(l, FpOf[d], n + 1)) /\ Goto(d, "heal")
  <2> DEFINE i == n + 1
  <2>1. i \in 1 .. MaxIssues /\ i = Len(issues) + 2
    BY <1>0, <1>5, DeliveryFacts
  <2>2. Keep(d, Created(l, FpOf[d], i))
    BY <1>5
  <2> HIDE DEF n, i
  <2> QED BY <1>3, <1>5, <2>1, <2>2, Zenon DEF l
<1>6. CASE /\ Goto(d, "rescan") /\ UNCHANGED loc
           /\ MayFail("lost") \/ MayFail("write")
           /\ issues' = Append(issues, Opened(d)) \/ UNCHANGED issues
  <2>1. Moves(d, loc[d], "rescan")
    BY <1>6, DeliveryFacts DEF Goto, Moves
  <2> QED BY <1>6, <2>1
<1>7. ASSUME NEW k \in {l, m}, NEW res \in {"failed", "skipped"}, Return(d, k, res),
             k = m => (l.late \/ MayFail("late"))
      PROVE  \E j \in LocType :
                /\ Moves(d, j, "sweep") /\ SameSeen(j, l) /\ Reports(j, l.own, l.num, res)
                /\ j.late => l.late \/ MayFail("late")
  <2>1. k \in LocType /\ res \in Results
    BY <1>1, <1>2, <1>7
  <2>2. PICK j \in LocType : /\ Moves(d, j, "sweep") /\ SameSeen(j, k) /\ j.late = k.late
                             /\ Reports(j, k.own, k.num, res)
    BY <1>7, <2>1, ReturnShape
  <2>3. SameSeen(j, l) /\ k.own = l.own /\ k.num = l.num
    BY <1>2, <1>7, <2>2 DEF SameSeen, SameHold
  <2>4. j.late => l.late \/ MayFail("late")
    BY <1>7, <2>2
  <2> QED BY <2>2, <2>3, <2>4
<1>8. CASE /\ Return(d, l, "failed") /\ (issues' = Append(issues, Opened(d)) \/ UNCHANGED issues)
           /\ MayFail("lost") \/ MayFail("write")
  <2>1. l = m => (l.late \/ MayFail("late"))
    BY <1>1 DEF m, Late, LocType
  <2> QED BY <1>7, <1>8, <2>1, Zenon DEF l
<1>9. CASE (l.late \/ MayFail("late")) /\ Return(d, m, "skipped") /\ UNCHANGED issues
  BY <1>7, <1>9, Zenon DEF l
<1> QED BY <1>4, <1>5, <1>6, <1>8, <1>9 DEF Create, MayRunOut, l, m

LEMMA RescanShape ==
    ASSUME IInv, NEW d \in Deliveries, Rescan(d)
    PROVE  \E l \in LocType :
             \/ \E n \in Of(issues, FpOf[d]) :
                  /\ Moves(d, l, "heal") /\ l.idx = [loc[d].idx EXCEPT ![FpOf[d]] = n] /\ l.scan = issues
                  /\ l.num = n /\ l.own = n /\ SameReport(l, loc[d])
             \/ /\ Moves(d, l, "sweep") /\ l.idx = loc[d].idx /\ l.scan \in {issues, <<>>}
                /\ Reports(l, loc[d].own, loc[d].num, "failed")
<1> DEFINE fp == FpOf[d]
           s  == Scanned(loc[d], issues)
           m  == ScanFailed(loc[d])
<1>1. loc[d] \in LocType /\ issues \in Seq(Issue) /\ fp \in Fingerprints /\ "failed" \in Results
  BY DeliveryFacts
<1>2. /\ s \in LocType /\ s.idx = loc[d].idx /\ s.scan = issues
      /\ SameHold(s, loc[d]) /\ SameReport(s, loc[d])
  BY <1>1, ScannedFields
<1>3. /\ m \in LocType /\ m.idx = loc[d].idx /\ m.scan = <<>>
      /\ SameHold(m, loc[d]) /\ SameReport(m, loc[d])
  BY <1>1, ScanFailedFields
<1> HIDE DEF s, m
<1>4. CASE \E n \in DOMAIN issues :
            /\ Lowest(n, Of(issues, fp))
            /\ Keep(d, Created(s, fp, n)) /\ Goto(d, "heal")
  <2>1. PICK n \in DOMAIN issues :
            /\ Lowest(n, Of(issues, fp))
            /\ Keep(d, Created(s, fp, n)) /\ Goto(d, "heal")
    BY <1>4
  <2> DEFINE k == Created(s, fp, n)
  <2>2. n \in Of(issues, FpOf[d]) /\ n \in 0 .. MaxIssues
    BY <2>1, DeliveryFacts DEF Lowest
  <2>3. /\ k \in LocType /\ k.idx = [s.idx EXCEPT ![fp] = n] /\ k.scan = s.scan
        /\ k.num = n /\ k.own = n /\ SameReport(k, s)
    BY <1>1, <1>2, <2>2, CreatedFields
  <2>4. Moves(d, k, "heal")
    BY <2>1 DEF Keep, Goto, Moves
  <2> HIDE DEF k
  <2>5. k.idx = [loc[d].idx EXCEPT ![fp] = n] /\ k.scan = issues /\ SameReport(k, loc[d])
    BY <1>2, <2>3 DEF SameReport
  <2> QED BY <2>2, <2>3, <2>4, <2>5
<1>5. ASSUME NEW k \in {s, m}, Return(d, k, "failed")
      PROVE  \E l \in LocType :
                /\ Moves(d, l, "sweep") /\ l.idx = loc[d].idx /\ l.scan \in {issues, <<>>}
                /\ Reports(l, loc[d].own, loc[d].num, "failed")
  <2>1. k \in LocType
    BY <1>2, <1>3, <1>5
  <2>2. PICK l \in LocType : /\ Moves(d, l, "sweep") /\ SameSeen(l, k)
                             /\ Reports(l, k.own, k.num, "failed")
    BY <1>1, <1>5, <2>1, ReturnShape
  <2> QED BY <1>2, <1>3, <1>5, <2>2 DEF SameSeen, SameHold
<1>6. CASE Return(d, s, "failed") \/ Return(d, m, "failed")
  BY <1>5, <1>6
<1> QED BY <1>4, <1>6 DEF Rescan, s, m

LEMMA HealShape ==
    ASSUME IInv, NEW d \in Deliveries, Heal(d)
    PROVE  \E l \in LocType :
             /\ l.late = loc[d].late
             /\ \/ /\ Moves(d, l, "sweep") /\ l.idx = loc[d].idx /\ l.scan \in {issues, <<>>}
                   /\ Reports(l, loc[d].own, loc[d].num, "created")
                   /\ Rivals(d) = {loc[d].own} \/ MayFail("list")
                \/ \E n \in Rivals(d) :
                     /\ Lowest(n, Rivals(d)) /\ Moves(d, l, "close")
                     /\ l.idx = [loc[d].idx EXCEPT ![FpOf[d]] = n] /\ l.scan = issues
                     /\ l.num = n /\ l.snap = issues[n].rec /\ l.closed = (issues[n].status # "open")
                     /\ l.own = loc[d].own /\ SameReport(l, loc[d])
                     /\ l.todo = Rivals(d) \ {n}
<1> DEFINE fp == FpOf[d]
           s  == Scanned(loc[d], issues)
           m  == ScanFailed(loc[d])
           rivals == Rivals(d)
<1>0. pc[d] = "heal"
  BY DEF Heal
<1>1. loc[d] \in LocType /\ issues \in Seq(Issue) /\ fp \in Fingerprints /\ "created" \in Results
      /\ loc[d].own \in Of(issues, fp)
  BY <1>0, DeliveryFacts DEF At
<1>2. /\ s \in LocType /\ s.idx = loc[d].idx /\ s.scan = issues
      /\ SameHold(s, loc[d]) /\ SameReport(s, loc[d]) /\ s.late = loc[d].late
  BY <1>1, ScannedFields
<1>3. /\ m \in LocType /\ m.idx = loc[d].idx /\ m.scan = <<>>
      /\ SameHold(m, loc[d]) /\ SameReport(m, loc[d]) /\ m.late = loc[d].late
  BY <1>1, ScanFailedFields
<1>4. rivals \subseteq DOMAIN issues /\ rivals \subseteq Numbers
  BY <1>1, DeliveryFacts DEF Rivals, OpenOf, Of, Numbers
<1> HIDE DEF s, m, rivals
<1>5. ASSUME NEW k \in {s, m}, Return(d, k, "created")
      PROVE  \E l \in LocType :
                /\ l.late = loc[d].late
                /\ Moves(d, l, "sweep") /\ l.idx = loc[d].idx /\ l.scan \in {issues, <<>>}
                /\ Reports(l, loc[d].own, loc[d].num, "created")
  <2>1. k \in LocType
    BY <1>2, <1>3, <1>5
  <2>2. PICK l \in LocType : /\ Moves(d, l, "sweep") /\ SameSeen(l, k) /\ l.late = k.late
                             /\ Reports(l, k.own, k.num, "created")
    BY <1>1, <1>5, <2>1, ReturnShape
  <2> QED BY <1>2, <1>3, <1>5, <2>2 DEF SameSeen, SameHold
<1>6. CASE Return(d, s, "created") /\ rivals = {loc[d].own}
  BY <1>5, <1>6, Zenon DEF rivals
<1>7. CASE Return(d, m, "created") /\ MayFail("list")
  BY <1>5, <1>7, Zenon
<1>8. CASE \E keep \in rivals :
            /\ Kept(keep, rivals)
            /\ Keep(d, [Indexed(Target(s, issues, keep), fp, keep) EXCEPT !.todo = rivals \ {keep}])
            /\ Goto(d, "close")
  <2>1. PICK n \in rivals :
            /\ Kept(n, rivals)
            /\ Keep(d, [Indexed(Target(s, issues, n), fp, n) EXCEPT !.todo = rivals \ {n}])
            /\ Goto(d, "close")
    BY <1>8
  <2> DEFINE t == Target(s, issues, n)
             i == Indexed(t, fp, n)
             k == [i EXCEPT !.todo = rivals \ {n}]
  <2>2. n \in DOMAIN issues /\ n <= MaxIssues /\ n \in 0 .. MaxIssues
    BY <1>4, DeliveryFacts
  <2>3. /\ t \in LocType /\ SameSeen(t, s) /\ SameReport(t, s)
        /\ t.num = n /\ t.snap = issues[n].rec /\ t.closed = (issues[n].status # "open")
        /\ t.own = s.own /\ t.late = s.late
    BY <1>1, <1>2, <2>2, TargetFields
  <2> HIDE DEF t
  <2>4. /\ i \in LocType /\ i.idx = [t.idx EXCEPT ![fp] = n] /\ i.scan = t.scan
        /\ SameHold(i, t) /\ SameReport(i, t) /\ i.late = t.late
    BY <1>1, <2>2, <2>3, IndexedFields
  <2> HIDE DEF i
  <2>5. rivals \ {n} \in SUBSET Numbers
    BY <1>4
  <2>6. /\ k \in LocType /\ k.todo = rivals \ {n} /\ k.late = i.late
        /\ SameSeen(k, i) /\ SameHold(k, i) /\ SameReport(k, i)
    BY <2>4, <2>5, TodoFields
  <2>7. Moves(d, k, "close")
    BY <2>1 DEF Keep, Goto, Moves, t, i
  <2> HIDE DEF k
  <2>8. /\ k.idx = [loc[d].idx EXCEPT ![fp] = n] /\ k.scan = issues
        /\ k.num = n /\ k.snap = issues[n].rec /\ k.closed = (issues[n].status # "open")
        /\ k.own = loc[d].own /\ SameReport(k, loc[d]) /\ k.late = loc[d].late
    BY <1>2, <2>3, <2>4, <2>6 DEF SameSeen, SameHold, SameReport
  <2>9. Lowest(n, rivals)
    BY <2>1 DEF Kept
  <2> QED BY <2>1, <2>6, <2>7, <2>8, <2>9 DEF rivals
<1> QED BY <1>6, <1>7, <1>8 DEF Heal, s, m, rivals

\* A duplicate closed or left, and where the loop over them goes on.
LEMMA CloseDuplicateShape ==
    ASSUME IInv, NEW d \in Deliveries, CloseDuplicate(d)
    PROVE  \E l \in LocType, S \in SUBSET loc[d].todo :
             /\ SameSeen(l, loc[d])
             /\ l.late => loc[d].late \/ MayFail("late")
             /\ \/ \E n \in loc[d].todo :
                     /\ S = loc[d].todo \ {n}
                     /\ \/ issues' = Patch(n, issues[n].rec, "duplicate")
                        \/ UNCHANGED issues /\ MayFail("write")
                \/ UNCHANGED issues /\ (loc[d].late \/ MayFail("late"))
             /\ \/ /\ Moves(d, l, "close") /\ l.todo = S
                   /\ SameHold(l, loc[d]) /\ SameReport(l, loc[d])
                \/ /\ Moves(d, l, "update") /\ loc[d].num # loc[d].own
                   /\ SameHold(l, loc[d]) /\ SameReport(l, loc[d])
                \/ /\ Moves(d, l, "sweep") /\ loc[d].num = loc[d].own
                   /\ Reports(l, loc[d].own, loc[d].num, "created")
             /\ pc'[d] # "close" => S = {} \/ loc[d].late \/ MayFail("late")
<1> DEFINE l == loc[d]
           G(k, S) ==
             /\ SameSeen(k, l)
             /\ k.late => l.late \/ MayFail("late")
             /\ \/ /\ Moves(d, k, "close") /\ k.todo = S
                   /\ SameHold(k, l) /\ SameReport(k, l)
                \/ /\ Moves(d, k, "update") /\ l.num # l.own
                   /\ SameHold(k, l) /\ SameReport(k, l)
                \/ /\ Moves(d, k, "sweep") /\ l.num = l.own
                   /\ Reports(k, l.own, l.num, "created")
             /\ pc'[d] # "close" => S = {} \/ l.late \/ MayFail("late")
           W(S) == \/ \E n \in l.todo :
                        /\ S = l.todo \ {n}
                        /\ \/ issues' = Patch(n, issues[n].rec, "duplicate")
                           \/ UNCHANGED issues /\ MayFail("write")
                   \/ UNCHANGED issues /\ (l.late \/ MayFail("late"))
<1> SUFFICES \E k \in LocType, S \in SUBSET l.todo : G(k, S) /\ W(S)
  BY DEF l
<1>0. pc[d] = "close"
  BY DEF CloseDuplicate
<1>1. l \in LocType /\ l.todo \in SUBSET Numbers /\ "created" \in Results
      /\ pc \in [Procs -> Places] /\ d \in Procs
  BY DeliveryFacts DEF LocType
<1> HIDE DEF l
<1>2. ASSUME NEW j \in LocType, NEW S \in SUBSET l.todo, j.todo = S,
             SameSeen(j, l), SameHold(j, l), SameReport(j, l),
             j.late => l.late \/ MayFail("late"), S = {} \/ l.late \/ MayFail("late"),
             Healed(d, j)
      PROVE  \E k \in LocType : G(k, S)
  <2>1. j.num = l.num /\ j.own = l.own
    BY <1>2 DEF SameHold
  <2>2. CASE l.num # l.own /\ Keep(d, j) /\ Goto(d, "update")
    <3>1. Moves(d, j, "update")
      BY <2>2 DEF Keep, Goto, Moves
    <3> QED BY <1>2, <2>2, <3>1
  <2>3. CASE l.num = l.own /\ Return(d, j, "created")
    <3>1. PICK k \in LocType : /\ Moves(d, k, "sweep") /\ SameSeen(k, j) /\ k.late = j.late
                               /\ Reports(k, j.own, j.num, "created")
      BY <1>1, <2>3, ReturnShape
    <3>2. SameSeen(k, l)
      BY <1>2, <3>1 DEF SameSeen
    <3>3. k.late => l.late \/ MayFail("late")
      BY <1>2, <3>1
    <3> QED BY <1>2, <2>1, <2>3, <3>1, <3>2, <3>3
  <2> QED BY <1>2, <2>1, <2>2, <2>3 DEF Healed
<1>3. ASSUME NEW S \in SUBSET l.todo
      PROVE  LET k == [l EXCEPT !.todo = S] IN
           /\ k \in LocType /\ k.todo = S /\ k.late = l.late
           /\ SameSeen(k, l) /\ SameHold(k, l) /\ SameReport(k, l)
  <2>1. S \in SUBSET Numbers
    BY <1>1
  <2> QED BY <1>1, <2>1, TodoFields
<1>4. ASSUME NEW n \in l.todo, NEW S \in SUBSET l.todo, S = l.todo \ {n},
             IF S = {} THEN Healed(d, [l EXCEPT !.todo = S])
             ELSE Keep(d, [l EXCEPT !.todo = S]) /\ UNCHANGED pc
      PROVE  \E k \in LocType : G(k, S)
  <2> DEFINE j == [l EXCEPT !.todo = S]
  <2>1. /\ j \in LocType /\ j.todo = S /\ j.late = l.late
        /\ SameSeen(j, l) /\ SameHold(j, l) /\ SameReport(j, l)
    BY <1>3
  <2>2. \/ S = {} /\ Healed(d, j)
        \/ Keep(d, j) /\ UNCHANGED pc
    BY <1>4
  <2> HIDE DEF j
  <2>3. CASE S = {} /\ Healed(d, j)
    BY <1>2, <2>1, <2>3
  <2>4. CASE Keep(d, j) /\ UNCHANGED pc
    <3>1. Moves(d, j, "close") /\ pc'[d] = "close"
      BY <1>0, <1>1, <2>4 DEF Keep, Moves
    <3> QED BY <2>1, <3>1
  <2> QED BY <2>2, <2>3, <2>4
<1>5. ASSUME l.late \/ MayFail("late"), Healed(d, Late([l EXCEPT !.todo = {}]))
      PROVE  \E k \in LocType : G(k, {})
  <2> DEFINE j == [l EXCEPT !.todo = {}]
             m == Late(j)
  <2>1. /\ j \in LocType /\ j.todo = {} /\ j.late = l.late
        /\ SameSeen(j, l) /\ SameHold(j, l) /\ SameReport(j, l)
    BY <1>3
  <2>2. Healed(d, m)
    BY <1>5
  <2> HIDE DEF j
  <2>3. m \in LocType /\ SameSeen(m, j) /\ SameHold(m, j) /\ SameReport(m, j) /\ m.todo = j.todo
    BY <2>1, LateFields
  <2> HIDE DEF m
  <2>4. SameSeen(m, l) /\ SameHold(m, l) /\ SameReport(m, l) /\ m.todo = {}
    BY <2>1, <2>3 DEF SameSeen, SameHold, SameReport
  <2> QED BY <1>2, <1>5, <2>2, <2>3, <2>4
<1> HIDE DEF G
<1>6. ASSUME NEW n \in l.todo,
             issues' = Patch(n, issues[n].rec, "duplicate") \/ (UNCHANGED issues /\ MayFail("write")),
             LET left == [l EXCEPT !.todo = l.todo \ {n}] IN
             IF left.todo = {} THEN Healed(d, left) ELSE Keep(d, left) /\ UNCHANGED pc
      PROVE  \E k \in LocType, S \in SUBSET l.todo : G(k, S) /\ W(S)
  <2> DEFINE S == l.todo \ {n}
  <2>1. [l EXCEPT !.todo = S].todo = S /\ S \in SUBSET l.todo
    BY <1>3
  <2>2. IF S = {} THEN Healed(d, [l EXCEPT !.todo = S])
        ELSE Keep(d, [l EXCEPT !.todo = S]) /\ UNCHANGED pc
    BY <1>6, <2>1
  <2>3. S = l.todo \ {n}
    OBVIOUS
  <2> HIDE DEF S
  <2>4. PICK k \in LocType : G(k, S)
    BY <1>4, <2>1, <2>2, <2>3
  <2> QED BY <1>6, <2>1, <2>3, <2>4
<1>7. CASE (l.late \/ MayFail("late")) /\ UNCHANGED issues /\ Healed(d, Late([l EXCEPT !.todo = {}]))
  <2>1. PICK k \in LocType : G(k, {})
    BY <1>5, <1>7
  <2> QED BY <1>7, <2>1
<1>8. \/ \E n \in l.todo :
           /\ issues' = Patch(n, issues[n].rec, "duplicate") \/ (UNCHANGED issues /\ MayFail("write"))
           /\ LET left == [l EXCEPT !.todo = l.todo \ {n}] IN
              IF left.todo = {} THEN Healed(d, left) ELSE Keep(d, left) /\ UNCHANGED pc
      \/ (l.late \/ MayFail("late")) /\ UNCHANGED issues /\ Healed(d, Late([l EXCEPT !.todo = {}]))
  BY DEF CloseDuplicate, MayRunOut, l
<1> QED BY <1>6, <1>7, <1>8

LEMMA SweepShape ==
    ASSUME IInv, NEW d \in Deliveries, Sweep(d)
    PROVE  \E l \in LocType, at \in {"closing", "flush"} :
             /\ Moves(d, l, at) /\ l.late = loc[d].late
             /\ l.idx = loc[d].idx /\ l.scan \in {loc[d].scan, issues, <<>>}
             /\ SameReport(l, loc[d])
             /\ \A n \in l.todo : /\ n \in DOMAIN l.scan /\ Readable(l.scan[n].rec)
                                  /\ l.scan[n].rec.seen < day
                                  /\ l.scan[n].status = "open" /\ n # l.ref
<1> DEFINE l == loc[d]
           s == Scanned(l, issues)
           m == ScanFailed(l)
<1>1. /\ l \in LocType /\ issues \in Seq(Issue) /\ Len(l.scan) <= Len(issues)
  BY DeliveryFacts DEF At
<1> HIDE DEF l
<1>2. /\ s \in LocType /\ s.idx = l.idx /\ s.scan = issues /\ SameReport(s, l) /\ s.late = l.late
      /\ m \in LocType /\ m.idx = l.idx /\ m.scan = <<>> /\ SameReport(m, l) /\ m.late = l.late
  BY <1>1, ScannedFields, ScanFailedFields
<1>3. Len(m.scan) <= Len(issues) /\ Len(s.scan) <= Len(issues)
  <2>1. Len(issues) \in Nat /\ Len(m.scan) = 0
    BY <1>2, DeliveryFacts
  <2> QED BY <1>2, <2>1
<1> HIDE DEF s, m
<1>4. ASSUME NEW k \in LocType, Len(k.scan) <= Len(issues), Keep(d, [k EXCEPT !.todo = Stale(k)]),
             Goto(d, IF Stale(k) # {} THEN "closing" ELSE "flush")
      PROVE  \E j \in LocType, at \in {"closing", "flush"} :
                /\ Moves(d, j, at) /\ SameSeen(j, k) /\ SameReport(j, k) /\ j.late = k.late
                /\ \A n \in j.todo : /\ n \in DOMAIN k.scan /\ Readable(k.scan[n].rec)
                                     /\ k.scan[n].rec.seen < day
                                     /\ k.scan[n].status = "open" /\ n # j.ref
  <2> DEFINE j  == [k EXCEPT !.todo = Stale(k)]
             at == IF Stale(k) # {} THEN "closing" ELSE "flush"
  <2>1. k.scan \in Seq(Issue)
    BY DEF LocType
  <2>2. DOMAIN k.scan = 1 .. Len(k.scan) /\ Len(k.scan) \in Nat
    BY <2>1
  <2>3. \A n \in Stale(k) : /\ n \in DOMAIN k.scan /\ Readable(k.scan[n].rec)
                             /\ k.scan[n].rec.seen < day
                             /\ k.scan[n].status = "open" /\ n # k.ref
    BY DEF Stale
  <2>4. Stale(k) \in SUBSET Numbers
    BY <1>4, <2>2, <2>3, DeliveryFacts DEF Numbers
  <2>5. /\ j \in LocType /\ j.todo = Stale(k) /\ j.late = k.late
        /\ SameSeen(j, k) /\ SameReport(j, k)
    BY <2>4, TodoFields
  <2>6. Moves(d, j, at) /\ at \in {"closing", "flush"}
    BY <1>4 DEF Keep, Goto, Moves
  <2> HIDE DEF j, at
  <2>7. j.ref = k.ref
    BY <2>5 DEF SameReport
  <2> QED BY <2>3, <2>5, <2>6, <2>7
<1>5. PICK k \in {l, s, m} : /\ Keep(d, [k EXCEPT !.todo = Stale(k)])
                             /\ Goto(d, IF Stale(k) # {} THEN "closing" ELSE "flush")
  BY DEF Sweep, l, s, m
<1>6. k \in LocType /\ Len(k.scan) <= Len(issues)
  BY <1>1, <1>2, <1>3, <1>5
<1>7. PICK j \in LocType, at \in {"closing", "flush"} :
                /\ Moves(d, j, at) /\ SameSeen(j, k) /\ SameReport(j, k) /\ j.late = k.late
                /\ \A n \in j.todo : /\ n \in DOMAIN k.scan /\ Readable(k.scan[n].rec)
                                     /\ k.scan[n].rec.seen < day
                                     /\ k.scan[n].status = "open" /\ n # j.ref
  BY <1>4, <1>5, <1>6
<1>8. k.idx = l.idx /\ k.scan \in {l.scan, issues, <<>>} /\ SameReport(k, l) /\ k.late = l.late
  BY <1>2, <1>5 DEF SameReport
<1>9. j.idx = l.idx /\ j.scan = k.scan /\ SameReport(j, l) /\ j.late = l.late
  BY <1>7, <1>8 DEF SameSeen, SameReport
<1> QED BY <1>7, <1>8, <1>9 DEF l

LEMMA CloseStaleShape ==
    ASSUME IInv, NEW d \in Deliveries, CloseStale(d)
    PROVE  \E l \in LocType, n \in loc[d].todo, at \in {"closing", "flush"} :
             /\ Moves(d, l, at) /\ SameSeen(l, loc[d]) /\ SameReport(l, loc[d])
             /\ l.todo \subseteq loc[d].todo
             /\ l.late => loc[d].late \/ MayFail("late")
             /\ issues' = Patch(n, issues[n].rec, "stale") \/ UNCHANGED issues
<1> DEFINE l == loc[d]
           m == Late(l)
<1>0. pc[d] = "closing" /\ l \in LocType /\ pc \in [Procs -> Places] /\ d \in Procs
  BY DeliveryFacts DEF CloseStale
<1>1. l.todo \in SUBSET Numbers /\ l.swept \in 0 .. SweepMax /\ 0 \in 0 .. SweepMax /\ SweepMax \in Nat
  BY <1>0 DEF LocType
<1> HIDE DEF l
<1>2. m \in LocType /\ SameSeen(m, l) /\ SameReport(m, l)
  BY <1>0, LateFields
<1> HIDE DEF m
<1>3. PICK n \in l.todo :
        /\ issues' = Patch(n, issues[n].rec, "stale") \/ UNCHANGED issues
        /\ \/ \E k \in {l, m} : /\ Keep(d, [k EXCEPT !.todo = {}, !.swept = 0]) /\ Goto(d, "flush")
                                /\ k = m => (l.late \/ MayFail("late"))
           \/ /\ UNCHANGED pc /\ l.swept # SweepMax
              /\ Keep(d, [l EXCEPT !.todo = l.todo \ {n}, !.swept = l.swept + 1])
  <2>1. l = m => (l.late \/ MayFail("late"))
    BY <1>0 DEF m, Late, LocType
  <2> QED BY <2>1 DEF CloseStale, MayRunOut, l, m
<1>4. ASSUME NEW k \in LocType, NEW S \in SUBSET Numbers, NEW w \in 0 .. SweepMax
      PROVE  LET j == [k EXCEPT !.todo = S, !.swept = w] IN
             /\ j \in LocType /\ SameSeen(j, k) /\ SameReport(j, k) /\ j.todo = S /\ j.late = k.late
  BY <1>4 DEF LocType, SameSeen, SameReport
<1>5. CASE \E k \in {l, m} : /\ Keep(d, [k EXCEPT !.todo = {}, !.swept = 0]) /\ Goto(d, "flush")
                             /\ k = m => (l.late \/ MayFail("late"))
  <2>1. PICK k \in {l, m} : /\ Keep(d, [k EXCEPT !.todo = {}, !.swept = 0]) /\ Goto(d, "flush")
                            /\ k = m => (l.late \/ MayFail("late"))
    BY <1>5
  <2> DEFINE j == [k EXCEPT !.todo = {}, !.swept = 0]
  <2>2. k \in LocType /\ SameSeen(k, l) /\ SameReport(k, l) /\ (k.late => l.late \/ MayFail("late"))
    BY <1>0, <1>2, <2>1 DEF SameSeen, SameReport
  <2>3. j \in LocType /\ SameSeen(j, k) /\ SameReport(j, k) /\ j.todo = {} /\ j.late = k.late
    BY ZenonT(60), <1>1, <1>4, <2>2
  <2>4. Moves(d, j, "flush")
    BY <2>1 DEF Keep, Goto, Moves
  <2> HIDE DEF j
  <2>5. /\ SameSeen(j, l) /\ SameReport(j, l) /\ j.todo \subseteq l.todo
        /\ j.late => l.late \/ MayFail("late")
    BY <2>2, <2>3 DEF SameSeen, SameReport
  <2> QED BY <1>3, <2>3, <2>4, <2>5 DEF l
<1>6. CASE /\ UNCHANGED pc /\ l.swept # SweepMax
           /\ Keep(d, [l EXCEPT !.todo = l.todo \ {n}, !.swept = l.swept + 1])
  <2> DEFINE S == l.todo \ {n}
             w == l.swept + 1
             j == [l EXCEPT !.todo = S, !.swept = w]
  <2>1. S \in SUBSET Numbers /\ S \subseteq l.todo /\ w \in 0 .. SweepMax
    BY <1>1, <1>6
  <2>2. Keep(d, j)
    BY <1>6
  <2> HIDE DEF S, w
  <2>3. j \in LocType /\ SameSeen(j, l) /\ SameReport(j, l) /\ j.todo = S /\ j.late = l.late
    <3>1. l \in LocType
      BY <1>0
    <3> QED BY <3>1, <2>1 DEF LocType, SameSeen, SameReport
  <2> HIDE DEF j
  <2>4. Moves(d, j, "closing")
    BY <1>0, <1>6, <2>2 DEF Keep, Moves
  <2> QED BY <1>3, <2>1, <2>3, <2>4 DEF l
<1> QED BY <1>3, <1>5, <1>6

\* A job that ends, by itself or cancelled, keeps nothing but its report.
LEMMA EndShape ==
    ASSUME IInv, NEW d \in Deliveries, End(d)
    PROVE  \E l \in LocType :
             /\ Moves(d, l, "done") /\ l.idx = NoIndex /\ l.scan = <<>> /\ l.late = FALSE
             /\ SameReport(l, loc[d])
<1> DEFINE res == loc[d].result
           ref == loc[d].ref
           k   == [Blank EXCEPT !.result = res, !.ref = ref]
<1>1. res \in Results /\ ref \in 0 .. MaxIssues
  BY DeliveryFacts DEF LocType
<1>2. Moves(d, k, "done")
  BY DEF End, Keep, Goto, Moves
<1> HIDE DEF res, ref
<1>3. k \in LocType /\ k.idx = NoIndex /\ k.scan = <<>> /\ k.late = FALSE /\ k.result = res /\ k.ref = ref
  BY <1>1, BlankType DEF LocType, Blank
<1> HIDE DEF k
<1> QED BY <1>2, <1>3 DEF res, ref, SameReport

LEMMA SameGrown == ASSUME IInv, UNCHANGED issues PROVE Grown
BY DEF IInv, TypeOK, Grown

\* The issues also grow in the steps of everybody else.
LEMMA OthersGrow ==
    ASSUME IInv, IInv',
           \/ \E f \in Feedbacks : ReadIssue(f) \/ ReadPullRequest(f) \/ Resolve(f)
           \/ \E n \in DOMAIN issues : HumanTogglesIssue(n) \/ HumanGarblesIssue(n)
           \/ HumanEditsIndex \/ Tick \/ UNCHANGED vars
    PROVE  Grown /\ UNCHANGED <<loc, known>>
<1>1. UNCHANGED <<loc, known>>
  <2>1. \A f, S : Resolving(f, S) => UNCHANGED <<loc, known>>
    BY DEF Resolving
  <2>2. CASE \E f \in Feedbacks : ReadIssue(f) \/ ReadPullRequest(f) \/ Resolve(f)
    BY <2>1, <2>2 DEF ReadIssue, ReadPullRequest, Resolve
  <2>3. CASE \/ \E n \in DOMAIN issues : HumanTogglesIssue(n) \/ HumanGarblesIssue(n)
             \/ HumanEditsIndex \/ Tick \/ UNCHANGED vars
    BY <2>3 DEF HumanTogglesIssue, HumanGarblesIssue, HumanEditsIndex, Tick, vars
  <2> QED BY <2>2, <2>3
<1>2. CASE UNCHANGED issues
  BY <1>1, <1>2, SameGrown
<1>3. CASE \E n \in DOMAIN issues : \E rec, status : issues' = Patch(n, rec, status)
  BY <1>1, <1>3, PatchFacts
<1>4. ASSUME NEW f \in Feedbacks, Resolve(f)
      PROVE  UNCHANGED issues \/ \E n \in DOMAIN issues : \E rec, status : issues' = Patch(n, rec, status)
  <2>1. PICK n \in fb[f].todo :
          \/ issues' = Patch(n, Resolved(fb[f].list[n].rec, f), "resolved")
          \/ UNCHANGED issues
    BY <1>4 DEF Resolve
  <2>2. /\ fb[f].list \in Seq(Issue) /\ fb[f].todo \subseteq DOMAIN fb[f].list
        /\ Len(fb[f].list) <= Len(issues)
    BY FeedbackFacts DEF FbAt, FbType
  <2>3. n \in DOMAIN issues
    BY <2>1, <2>2, FeedbackFacts
  <2> QED BY <2>1, <2>3
<1>5. CASE \E n \in DOMAIN issues : HumanTogglesIssue(n) \/ HumanGarblesIssue(n)
  BY <1>3, <1>5 DEF HumanTogglesIssue, HumanGarblesIssue
<1>6. CASE \/ \E f \in Feedbacks : ReadIssue(f) \/ ReadPullRequest(f)
           \/ HumanEditsIndex \/ Tick \/ UNCHANGED vars
  BY <1>2, <1>6 DEF ReadIssue, ReadPullRequest, Resolving, HumanEditsIndex, Tick, vars
<1> QED BY <1>2, <1>3, <1>4, <1>5, <1>6

-----------------------------------------------------------------------------
(* The index, and what the jobs hold of it *)

\* The entries of an index map name issues of the fingerprint they stand for,
\* and a listing taken earlier shows issues that are still there.
Names(list, map)   == \A fp \in Fingerprints : map[fp] # 0 => map[fp] \in Of(list, fp)
Agrees(list, scan) == \A n \in DOMAIN scan : n \in DOMAIN list /\ scan[n].fp = list[n].fp

\* The index is written from a job's memory, which is read from the index, so
\* that the two have to be right together; a repair takes the listing.
IdxInv ==
    /\ Names(issues, index.map)
    /\ \A d \in Deliveries : Names(issues, loc[d].idx) /\ Agrees(issues, loc[d].scan)

LEMMA NamesStay ==
    ASSUME IInv, IInv', Grown, NEW map, Names(issues, map)
    PROVE  Names(issues', map)
<1>1. issues \in Seq(Issue) /\ issues' \in Seq(Issue)
  BY DEF IInv, TypeOK
<1>2. \A fp \in Fingerprints : Of(issues, fp) \subseteq Of(issues', fp)
  BY <1>1, OfGrown
<1> QED BY <1>2 DEF Names

LEMMA AgreesStay ==
    ASSUME IInv, IInv', Grown, NEW scan, Agrees(issues, scan)
    PROVE  Agrees(issues', scan)
<1>1. issues \in Seq(Issue) /\ issues' \in Seq(Issue)
  BY DEF IInv, TypeOK
<1>2. DOMAIN issues \subseteq DOMAIN issues'
  <2>1. DOMAIN issues = 1 .. Len(issues) /\ DOMAIN issues' = 1 .. Len(issues')
        /\ Len(issues) \in Nat /\ Len(issues') \in Nat
    BY <1>1
  <2> QED BY <2>1 DEF Grown
<1> QED BY <1>2 DEF Agrees, Grown

LEMMA NamesSet ==
    ASSUME NEW map \in IndexMap, NEW list, Names(list, map),
           NEW fp \in Fingerprints, NEW n \in Of(list, fp)
    PROVE  Names(list, [map EXCEPT ![fp] = n])
BY DEF Names, IndexMap

\* What is new after a step of one delivery.
LEMMA IdxStep ==
    ASSUME IInv, IInv', IdxInv, Grown, NEW d \in Deliveries, NEW l, NEW at, Moves(d, l, at),
           Names(issues', l.idx), Agrees(issues', l.scan), Names(issues', index'.map)
    PROVE  IdxInv'
<1>1. loc'[d] = l /\ \A e \in Deliveries : e # d => loc'[e] = loc[e]
  BY MovesFacts
<1>2. ASSUME NEW e \in Deliveries
      PROVE  Names(issues', loc'[e].idx) /\ Agrees(issues', loc'[e].scan)
  <2>1. CASE e = d
    BY <1>1, <2>1
  <2>2. CASE e # d
    <3>1. Names(issues, loc[e].idx) /\ Agrees(issues, loc[e].scan)
      BY DEF IdxInv
    <3>2. Names(issues', loc[e].idx) /\ Agrees(issues', loc[e].scan)
      BY <3>1, NamesStay, AgreesStay
    <3> QED BY <1>1, <2>2, <3>2
  <2> QED BY <2>1, <2>2
<1> QED BY <1>2 DEF IdxInv

LEMMA IdxFacts ==
    ASSUME IInv, IInv', IdxInv, NEW d \in Deliveries
    PROVE  /\ Names(issues, loc[d].idx) /\ Agrees(issues, loc[d].scan) /\ loc[d].idx \in IndexMap
           /\ Names(issues, index.map) /\ Names(issues, NoIndex)
           /\ Agrees(issues, issues) /\ Agrees(issues, <<>>)
           /\ FpOf[d] \in Fingerprints
<1>1. loc[d] \in LocType
  BY DeliveryFacts
<1> QED BY <1>1 DEF IdxInv, LocType, Names, Agrees, NoIndex

\* A step that reads the issues and leaves them and the index alone.
LEMMA IdxQuiet ==
    ASSUME IInv, IInv', IdxInv, UNCHANGED <<issues, index>>,
           NEW d \in Deliveries, NEW l, NEW at, Moves(d, l, at),
           Names(issues, l.idx), Agrees(issues, l.scan)
    PROVE  IdxInv'
<1>1. Grown /\ Names(issues', l.idx) /\ Agrees(issues', l.scan)
  BY SameGrown
<1>2. Names(issues', index'.map)
  BY DEF IdxInv
<1> QED BY <1>1, <1>2, IdxStep

\* A step that writes the issues and leaves the index alone.
LEMMA IdxWrite ==
    ASSUME IInv, IInv', IdxInv, Grown, UNCHANGED index,
           NEW d \in Deliveries, NEW l, NEW at, Moves(d, l, at),
           Names(issues', l.idx), Agrees(issues, l.scan)
    PROVE  IdxInv'
<1>1. Agrees(issues', l.scan) /\ Names(issues', index.map)
  BY NamesStay, AgreesStay DEF IdxInv
<1> QED BY <1>1, IdxStep

LEMMA LookUpKeepsIndex ==
    ASSUME IInv, IInv', IdxInv, NEW d \in Deliveries,
           LoadIndex(d) \/ GetIssue(d) \/ Scan(d) \/ Rescan(d)
    PROVE  IdxInv'
<1>0. UNCHANGED <<issues, index>>
  BY DEF LoadIndex, GetIssue, Scan, Rescan
<1>1. PICK l, at : /\ Moves(d, l, at)
                   /\ \/ l.idx \in {index.map, NoIndex, loc[d].idx}
                      \/ \E n \in Of(issues, FpOf[d]) : l.idx = [loc[d].idx EXCEPT ![FpOf[d]] = n]
                   /\ l.scan \in {<<>>, issues, loc[d].scan}
  <2>1. CASE LoadIndex(d)
    BY <2>1, LoadIndexShape
  <2>2. CASE GetIssue(d)
    BY <2>2, GetIssueShape DEF SameSeen
  <2>3. CASE Scan(d)
    BY <2>3, ScanShape
  <2>4. CASE Rescan(d)
    BY <2>4, RescanShape
  <2> QED BY <2>1, <2>2, <2>3, <2>4
<1>2. Names(issues, l.idx) /\ Agrees(issues, l.scan)
  <2>1. \A n \in Of(issues, FpOf[d]) : Names(issues, [loc[d].idx EXCEPT ![FpOf[d]] = n])
    BY IdxFacts, NamesSet
  <2> QED BY <1>1, <2>1, IdxFacts
<1> QED BY <1>0, <1>1, <1>2, IdxQuiet

LEMMA UpdateKeepsIndex ==
    ASSUME IInv, IInv', IdxInv, NEW d \in Deliveries, Update(d)
    PROVE  IdxInv' /\ Grown
<1>1. UNCHANGED index /\ loc[d].num \in Of(issues, FpOf[d])
  BY DeliveryFacts DEF Update, At
<1>2. PICK l : /\ Moves(d, l, "sweep") /\ l.scan = loc[d].scan
               /\ l.idx \in {loc[d].idx, [loc[d].idx EXCEPT ![FpOf[d]] = loc[d].num]}
               /\ issues' = Patched(d) \/ UNCHANGED issues
  BY UpdateShape
<1>3. Names(issues, l.idx) /\ Agrees(issues, l.scan)
  BY <1>1, <1>2, IdxFacts, NamesSet
<1>4. Grown
  BY <1>1, <1>2, PatchFacts, SameGrown DEF Patched, Of
<1> QED BY <1>1, <1>2, <1>3, <1>4, IdxWrite, NamesStay

LEMMA CreateKeepsIndex ==
    ASSUME IInv, IInv', IdxInv, NEW d \in Deliveries, Create(d)
    PROVE  IdxInv' /\ Grown
<1> DEFINE e == Opened(d)
<1>1. UNCHANGED index /\ e \in Issue /\ e.fp = FpOf[d]
  BY DeliveryFacts, FirstRecordType DEF Create, Opened, Issue, Statuses
<1> HIDE DEF e
<1>2. PICK l, at : /\ Moves(d, l, at) /\ l.scan = loc[d].scan
                   /\ \/ l.idx = loc[d].idx
                      \/ \E n \in Nat : /\ l.idx = [loc[d].idx EXCEPT ![FpOf[d]] = n]
                                        /\ n = Len(issues') /\ n > Len(issues)
                   /\ \/ issues' = Append(issues, e) \/ issues' = Append(Append(issues, e), e)
                      \/ UNCHANGED issues
  <2>1. \/ \E l \in LocType, n \in 1 .. MaxIssues :
                /\ Moves(d, l, "heal") /\ l.idx = [loc[d].idx EXCEPT ![FpOf[d]] = n] /\ l.scan = loc[d].scan
                /\ \/ issues' = Append(issues, e) /\ n = Len(issues) + 1
                   \/ issues' = Append(Append(issues, e), e) /\ n = Len(issues) + 2
        \/ /\ Moves(d, loc[d], "rescan")
           /\ issues' = Append(issues, e) \/ UNCHANGED issues
        \/ \E l \in LocType :
                /\ Moves(d, l, "sweep") /\ SameSeen(l, loc[d])
                /\ issues' = Append(issues, e) \/ UNCHANGED issues
    BY CreateShape, Zenon DEF e
  <2>2. ASSUME NEW n \in 1 .. MaxIssues,
               \/ issues' = Append(issues, e) /\ n = Len(issues) + 1
               \/ issues' = Append(Append(issues, e), e) /\ n = Len(issues) + 2
        PROVE  n \in Nat /\ n = Len(issues') /\ n > Len(issues)
    <3>1. issues \in Seq(Issue) /\ Len(issues) \in Nat
      BY DeliveryFacts
    <3>2. /\ Append(issues, e) \in Seq(Issue)
          /\ Len(Append(issues, e)) = Len(issues) + 1
          /\ Len(Append(Append(issues, e), e)) = Len(issues) + 2
      BY <1>1, <3>1, AppendProperties
    <3> QED BY <2>2, <3>1, <3>2
  <2> QED BY <2>1, <2>2 DEF SameSeen
<1>3. Grown
  BY <1>1, <1>2, AppendFacts, SameGrown
<1>4. Names(issues', loc[d].idx) /\ Agrees(issues, l.scan)
  BY <1>2, <1>3, IdxFacts, NamesStay
<1>5. Names(issues', l.idx)
  <2>1. CASE \E n \in Nat : /\ l.idx = [loc[d].idx EXCEPT ![FpOf[d]] = n]
                            /\ n = Len(issues') /\ n > Len(issues)
    <3>1. PICK n \in Nat : /\ l.idx = [loc[d].idx EXCEPT ![FpOf[d]] = n]
                           /\ n = Len(issues') /\ n > Len(issues)
      BY <2>1
    <3>2. /\ DOMAIN issues = 1 .. Len(issues) /\ DOMAIN issues' = 1 .. Len(issues')
          /\ Len(issues) \in Nat
      BY DEF IInv, TypeOK
    <3>3. n \in DOMAIN issues' /\ n \notin DOMAIN issues
      BY <3>1, <3>2
    <3>4. issues'[n].fp = FpOf[d]
      <4>1. ~ UNCHANGED issues
        BY <3>3
      <4> QED BY <1>1, <1>2, <3>3, <4>1, AppendFacts
    <3>5. n \in Of(issues', FpOf[d])
      BY <3>3, <3>4 DEF Of
    <3> QED BY <1>4, <3>1, <3>5, IdxFacts, NamesSet
  <2> QED BY <1>2, <1>4, <2>1
<1> QED BY <1>1, <1>2, <1>3, <1>4, <1>5, IdxWrite

LEMMA HealKeepsIndex ==
    ASSUME IInv, IInv', IdxInv, NEW d \in Deliveries, Heal(d)
    PROVE  IdxInv' /\ Grown
<1>0. UNCHANGED <<issues, index>> /\ loc[d].own \in Of(issues, FpOf[d])
  BY DeliveryFacts DEF Heal, At
<1>1. Rivals(d) \subseteq Of(issues, FpOf[d])
  BY <1>0 DEF Rivals, OpenOf
<1>2. PICK l, at : /\ Moves(d, l, at)
                   /\ \/ l.idx = loc[d].idx
                      \/ \E n \in Rivals(d) : l.idx = [loc[d].idx EXCEPT ![FpOf[d]] = n]
                   /\ l.scan \in {<<>>, issues}
  BY HealShape
<1>3. Names(issues, l.idx) /\ Agrees(issues, l.scan)
  <2>1. \A n \in Of(issues, FpOf[d]) : Names(issues, [loc[d].idx EXCEPT ![FpOf[d]] = n])
    BY IdxFacts, NamesSet
  <2> QED BY <1>1, <1>2, <2>1, IdxFacts
<1> QED BY <1>0, <1>2, <1>3, IdxQuiet, SameGrown

\* The loops that close issues leave what is known of the index alone.
LEMMA ClosingKeepsIndex ==
    ASSUME IInv, IInv', IdxInv, NEW d \in Deliveries, CloseDuplicate(d) \/ Sweep(d) \/ CloseStale(d)
    PROVE  IdxInv' /\ Grown
<1>0. UNCHANGED index
  BY DEF CloseDuplicate, Sweep, CloseStale
<1>1. PICK l, at : /\ Moves(d, l, at) /\ l.idx = loc[d].idx /\ l.scan \in {loc[d].scan, issues, <<>>}
                   /\ \/ UNCHANGED issues
                      \/ \E n \in loc[d].todo : \E status : issues' = Patch(n, issues[n].rec, status)
  <2>1. CASE CloseDuplicate(d)
    <3>1. PICK l \in LocType : /\ SameSeen(l, loc[d])
             /\ \/ \E n \in loc[d].todo : issues' = Patch(n, issues[n].rec, "duplicate")
                \/ UNCHANGED issues
             /\ \E at : Moves(d, l, at)
      BY <2>1, CloseDuplicateShape
    <3> QED BY <3>1 DEF SameSeen
  <2>2. CASE Sweep(d)
    BY <2>2, SweepShape DEF Sweep
  <2>3. CASE CloseStale(d)
    BY <2>3, CloseStaleShape DEF SameSeen
  <2> QED BY <2>1, <2>2, <2>3
<1>2. Grown
  <2>1. CASE UNCHANGED issues
    BY <2>1, SameGrown
  <2>2. CASE ~ UNCHANGED issues
    <3>1. loc[d].todo \subseteq DOMAIN issues
      <4>1. CASE CloseDuplicate(d)
        BY <4>1, DeliveryFacts DEF CloseDuplicate, At, Of
      <4>2. CASE CloseStale(d)
        <5>1. loc[d].todo \subseteq DOMAIN loc[d].scan
          BY <4>2, DeliveryFacts DEF CloseStale, At
        <5> QED BY <5>1, IdxFacts DEF Agrees
      <4> QED BY <2>2, <4>1, <4>2 DEF Sweep
    <3> QED BY <1>1, <2>2, <3>1, PatchFacts
  <2> QED BY <2>1, <2>2
<1>3. Names(issues', l.idx) /\ Agrees(issues, l.scan)
  BY <1>1, <1>2, IdxFacts, NamesStay
<1> QED BY <1>0, <1>1, <1>2, <1>3, IdxWrite

\* The map a flush writes: a repair takes the lowest issue of the listing.
LEMMA RepairedNames ==
    ASSUME NEW l, NEW map, Repaired(l, map), NEW list, Names(list, l.idx), Agrees(list, l.scan)
    PROVE  Names(list, map)
<1> SUFFICES ASSUME NEW fp \in Fingerprints, map[fp] # 0 PROVE map[fp] \in Of(list, fp)
  BY DEF Names
<1>1. CASE map[fp] = l.idx[fp]
  BY <1>1 DEF Names
<1>2. CASE Lowest(map[fp], Of(l.scan, fp))
  BY <1>2 DEF Lowest, Of, Agrees
<1> QED BY <1>1, <1>2 DEF Repaired

LEMMA EndKeepsIndex ==
    ASSUME IInv, IInv', IdxInv, NEW d \in Deliveries, Flush(d) \/ Crash(d)
    PROVE  IdxInv' /\ Grown
<1>0. End(d) /\ UNCHANGED issues /\ Grown
  BY SameGrown DEF Flush, Crash
<1>1. PICK l : Moves(d, l, "done") /\ l.idx = NoIndex /\ l.scan = <<>>
  BY <1>0, EndShape
<1>2. Names(issues', index'.map)
  <2>1. CASE UNCHANGED index
    BY <1>0, <2>1 DEF IdxInv
  <2>2. CASE ~ UNCHANGED index
    <3>1. PICK map : Repaired(loc[d], map) /\ index' = [state |-> "ok", map |-> map]
      BY <2>2 DEF Flush, Crash
    <3>2. Names(issues, map)
      BY <3>1, IdxFacts, RepairedNames
    <3> QED BY <1>0, <3>1, <3>2
  <2> QED BY <2>1, <2>2
<1>3. Names(issues', l.idx) /\ Agrees(issues', l.scan)
  BY <1>0, <1>1, IdxFacts
<1> QED BY <1>0, <1>1, <1>2, <1>3, IdxStep

LEMMA NextKeepsIndex ==
    ASSUME "edit" \notin Faults, IInv, IInv', IdxInv, [Next]_vars
    PROVE  IdxInv' /\ Grown
<1>1. ASSUME NEW d \in Deliveries, LoadIndex(d) \/ Step(d) \/ Crash(d)
      PROVE  IdxInv' /\ Grown
  <2>1. CASE LoadIndex(d) \/ GetIssue(d) \/ Scan(d) \/ Rescan(d)
    <3>1. Grown
      BY <2>1, SameGrown DEF LoadIndex, GetIssue, Scan, Rescan
    <3> QED BY <2>1, <3>1, LookUpKeepsIndex
  <2> QED BY <1>1, <2>1, UpdateKeepsIndex, CreateKeepsIndex, HealKeepsIndex,
             ClosingKeepsIndex, EndKeepsIndex DEF Step
<1>2. CASE \/ \E f \in Feedbacks : ReadIssue(f) \/ ReadPullRequest(f) \/ Resolve(f)
           \/ \E n \in DOMAIN issues : HumanTogglesIssue(n) \/ HumanGarblesIssue(n)
           \/ HumanEditsIndex \/ Tick \/ UNCHANGED vars
  <2>1. Grown /\ UNCHANGED loc
    BY <1>2, OthersGrow
  <2>2. UNCHANGED index
    <3>1. \A f, S : Resolving(f, S) => UNCHANGED index
      BY DEF Resolving
    <3>2. CASE \E f \in Feedbacks : ReadIssue(f) \/ ReadPullRequest(f) \/ Resolve(f)
      BY <3>1, <3>2 DEF ReadIssue, ReadPullRequest, Resolve
    <3>3. CASE \/ \E n \in DOMAIN issues : HumanTogglesIssue(n) \/ HumanGarblesIssue(n)
               \/ HumanEditsIndex \/ Tick \/ UNCHANGED vars
      BY <3>3 DEF HumanTogglesIssue, HumanGarblesIssue, HumanEditsIndex, HumanEdit, MayFail, Tick, vars
    <3> QED BY <1>2, <3>2, <3>3
  <2>3. Names(issues', index'.map)
    BY <2>1, <2>2, NamesStay DEF IdxInv
  <2>4. \A d \in Deliveries : Names(issues', loc'[d].idx) /\ Agrees(issues', loc'[d].scan)
    BY <2>1, NamesStay, AgreesStay DEF IdxInv
  <2> QED BY <2>1, <2>3, <2>4 DEF IdxInv
<1> QED BY <1>1, <1>2 DEF Next

LEMMA InitIndex == Init => IdxInv
BY DEF Init, IdxInv, Names, Agrees, NoIndex, Blank

\* As long as no human edits it, the index never sends a delivery to an issue of
\* another failure, however the last writers overwrite each other and whatever
\* was repaired from a listing (_set_index, _repair_index, _flush_index).
THEOREM IndexStaysApart ==
    ASSUME "edit" \notin Faults
    PROVE  Spec => []IndexKeepsApart
<1>1. IInv /\ IInv' /\ IdxInv /\ [Next]_vars => IdxInv'
  BY NextKeepsIndex
<1>2. IdxInv => IndexKeepsApart
  BY DEF IdxInv, Names, IndexKeepsApart
<1> QED BY <1>1, <1>2, InitIndex, Invariant, PTL DEF Spec
=============================================================================
