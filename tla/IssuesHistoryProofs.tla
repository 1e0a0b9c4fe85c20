-------------------------- MODULE IssuesHistoryProofs --------------------------
(***************************************************************************)
(* What the issues tell, on top of the invariant of IssuesStoreProofs:     *)
(* the records in the bodies stay well formed through every interleaving;  *)
(* jobs that overlap while nothing fails leave one issue open and sweep    *)
(* none that recurs; jobs that do not overlap implement IssueTracker,      *)
(* whatever fails.                                                         *)
(***************************************************************************)
EXTENDS IssuesStoreProofs, FiniteSetTheorems, WellFoundedInduction

USE RunIdCapAssumption, MaxDayAssumption, NoOneAssumption, FpOfAssumption,
    RunOfAssumption, AuthorAssumption, ProcsAssumption, BoundAssumption

\* A body is always written from a record read earlier, so that what the jobs
\* hold in memory has to be well formed as well.
SnapshotsWellFormed == \A d \in Deliveries : WellFormed(loc[d].snap)
ListsWellFormed == \A f \in Feedbacks : \A n \in DOMAIN fb[f].list : WellFormed(fb[f].list[n].rec)

RecInv == RecordsWellFormed /\ SnapshotsWellFormed /\ ListsWellFormed

-----------------------------------------------------------------------------
(* What the steps are made of *)

LEMMA PatchKeepsRecords ==
    ASSUME IInv, RecInv, NEW n \in DOMAIN issues, NEW rec \in Record, NEW status \in Statuses,
           WellFormed(rec), issues' = Patch(n, rec, status)
    PROVE  RecordsWellFormed'
<1>1. issues \in Seq(Issue) /\ DOMAIN issues = 1 .. Len(issues)
  BY DEF IInv, TypeOK
<1>2. /\ issues' \in Seq(Issue) /\ Len(issues') = Len(issues)
      /\ \A m \in DOMAIN issues : m # n => issues'[m] = issues[m]
      /\ issues'[n].rec = rec
  BY <1>1, PatchProperties
<1>3. DOMAIN issues' = DOMAIN issues
  BY <1>1, <1>2
<1>4. \A m \in DOMAIN issues' : WellFormed(issues'[m].rec)
  <2> TAKE m \in DOMAIN issues'
  <2>1. CASE m = n
    BY <1>2, <2>1
  <2>2. CASE m # n
    BY <1>2, <1>3, <2>2 DEF RecInv, RecordsWellFormed
  <2> QED BY <2>1, <2>2
<1> QED BY <1>4 DEF RecordsWellFormed

LEMMA AppendKeepsRecords ==
    ASSUME IInv, RecInv, NEW e \in Issue, e.status = "open", WellFormed(e.rec),
           issues' = Append(issues, e) \/ issues' = Append(Append(issues, e), e)
    PROVE  RecordsWellFormed'
<1>1. issues \in Seq(Issue) /\ DOMAIN issues = 1 .. Len(issues) /\ Len(issues) \in Nat
  BY DEF IInv, TypeOK
<1>2. /\ issues' \in Seq(Issue) /\ Len(issues') \in Nat /\ Len(issues) <= Len(issues')
      /\ \A n \in 1 .. Len(issues') : n > Len(issues) => issues'[n] = e
  BY AppendStep, <1>1
<1>3. \A n \in DOMAIN issues : issues'[n] = issues[n]
  <2> DEFINE one == Append(issues, e)
  <2>1. /\ one \in Seq(Issue) /\ Len(one) = Len(issues) + 1
        /\ \A n \in 1 .. Len(issues) : one[n] = issues[n]
    BY <1>1, AppendProperties
  <2> HIDE DEF one
  <2>2. \A n \in 1 .. Len(one) : Append(one, e)[n] = one[n]
    BY <2>1, AppendProperties
  <2> QED BY SMTT(60), <1>1, <2>1, <2>2 DEF one
<1>4. \A m \in DOMAIN issues' : WellFormed(issues'[m].rec)
  <2> TAKE m \in DOMAIN issues'
  <2>1. m \in 1 .. Len(issues')
    BY <1>2
  <2>2. CASE m > Len(issues)
    BY <1>2, <2>1, <2>2
  <2>3. CASE m <= Len(issues)
    <3>1. m \in DOMAIN issues
      BY <1>1, <2>1, <2>3
    <3> QED BY <1>3, <3>1 DEF RecInv, RecordsWellFormed
  <2> QED BY <1>1, <2>1, <2>2, <2>3
<1> QED BY <1>4 DEF RecordsWellFormed

\* A delivery's step: the issues, and the snapshot it goes on with.
LEMMA DeliveryKeepsRecords ==
    ASSUME IInv, RecInv, NEW d \in Deliveries, NEW l,
           Keep(d, l), WellFormed(l.snap), RecordsWellFormed', UNCHANGED fb
    PROVE  RecInv'
<1>1. \A e \in Deliveries : loc'[e] = IF e = d THEN l ELSE loc[e]
  BY DEF Keep, IInv, TypeOK
<1> QED BY <1>1 DEF RecInv, SnapshotsWellFormed, ListsWellFormed

\* A delivery's step that leaves its memory or the issues alone.
LEMMA StillWellFormed ==
    ASSUME RecInv, NEW d \in Deliveries
    PROVE  /\ WellFormed(loc[d].snap)
           /\ \A n \in DOMAIN issues : WellFormed(issues[n].rec)
           /\ UNCHANGED issues => RecordsWellFormed'
           /\ (UNCHANGED <<loc, fb>> /\ RecordsWellFormed') => RecInv'
BY DEF RecInv, SnapshotsWellFormed, ListsWellFormed, RecordsWellFormed

\* The end of the writing forgets the snapshot.
LEMMA ReturnKeepsRecords ==
    ASSUME IInv, RecInv, NEW d \in Deliveries, NEW l \in LocType, NEW res,
           Return(d, l, res), RecordsWellFormed', UNCHANGED fb
    PROVE  RecInv'
<1> DEFINE done == [l EXCEPT !.num = 0, !.snap = Unreadable, !.closed = FALSE, !.own = 0]
<1>1. done.snap = Unreadable
  BY DEF LocType
<1>2. Report(l, res).snap = Unreadable
  <2>1. CASE l.own # 0
    <3>1. Report(l, res) = [done EXCEPT !.result = "created", !.ref = l.num]
      BY <2>1 DEF Report
    <3> HIDE DEF done
    <3> QED BY <1>1, <3>1
  <2>2. CASE l.own = 0
    <3>1. Report(l, res) = [done EXCEPT !.result = res,
                                        !.ref = IF res \in {"failed", "skipped"} THEN 0 ELSE l.num]
      BY <2>2 DEF Report
    <3> HIDE DEF done
    <3> QED BY <1>1, <3>1
  <2> QED BY <2>1, <2>2
<1> QED BY <1>2, UnreadableType, DeliveryKeepsRecords DEF Return

-----------------------------------------------------------------------------
(* The steps *)

LEMMA LookUpKeepsRecords ==
    ASSUME IInv, RecInv, NEW d \in Deliveries, LoadIndex(d) \/ GetIssue(d) \/ Scan(d) \/ Rescan(d)
    PROVE  RecInv'
<1>0. UNCHANGED <<issues, fb>> /\ RecordsWellFormed'
  BY StillWellFormed DEF LoadIndex, GetIssue, Scan, Rescan
<1> DEFINE l == Scanned(loc[d], issues)
           m == ScanFailed(loc[d])
<1>1. l \in LocType /\ m \in LocType /\ WellFormed(l.snap) /\ WellFormed(m.snap)
  <2>1. loc[d] \in LocType /\ issues \in Seq(Issue) /\ WellFormed(loc[d].snap)
    BY DeliveryFacts, StillWellFormed
  <2> QED BY <2>1, ScannedType
<1> HIDE DEF l, m
<1>2. CASE LoadIndex(d)
  <2>1. Blank.snap = Unreadable
    BY DEF Blank
  <2>2. PICK k : Keep(d, k) /\ k.snap = Unreadable
    <3>1. [Blank EXCEPT !.idx = index.map, !.idxState = index.state].snap = Unreadable
      BY DEF Blank
    <3>2. [Blank EXCEPT !.idxState = "error"].snap = Unreadable
      BY DEF Blank
    <3> QED BY <1>2, <3>1, <3>2 DEF LoadIndex
  <2> QED BY <1>0, <2>2, UnreadableType, DeliveryKeepsRecords
<1>3. CASE GetIssue(d)
  <2> DEFINE n == loc[d].idx[FpOf[d]]
  <2>1. CASE n \in Of(issues, FpOf[d]) /\ Keep(d, Target(loc[d], issues, n))
    <3>1. n \in DOMAIN issues /\ n <= MaxIssues
      BY <2>1, DeliveryFacts DEF Of
    <3>2. WellFormed(Target(loc[d], issues, n).snap)
      BY <3>1, DeliveryFacts, TargetType, StillWellFormed
    <3> QED BY <1>0, <2>1, <3>2, DeliveryKeepsRecords
  <2>2. CASE UNCHANGED loc
    BY <1>0, <2>2, StillWellFormed
  <2> QED BY <1>3, <2>1, <2>2 DEF GetIssue
<1>4. ASSUME NEW n \in DOMAIN issues, NEW fp \in Fingerprints
      PROVE  /\ WellFormed(Indexed(Target(l, issues, n), fp, n).snap)
             /\ WellFormed(Created(l, fp, n).snap)
  <2>1. n \in 0 .. MaxIssues /\ n <= MaxIssues
    BY <1>4, DeliveryFacts
  <2>2. Target(l, issues, n) \in LocType /\ WellFormed(Target(l, issues, n).snap)
    BY <1>1, <2>1, DeliveryFacts, TargetType, StillWellFormed
  <2>3. WellFormed(Indexed(Target(l, issues, n), fp, n).snap)
    BY <1>4, <2>1, <2>2, IndexedType
  <2>4. WellFormed(Created(l, fp, n).snap)
    BY <1>1, <1>4, <2>1, CreatedType
  <2> QED BY <2>3, <2>4
<1>5. CASE Scan(d)
  <2>1. CASE \E n \in DOMAIN issues : Keep(d, Indexed(Target(l, issues, n), FpOf[d], n))
    BY <1>0, <1>4, <2>1, DeliveryFacts, DeliveryKeepsRecords
  <2>2. CASE NotFound(d, l)
    BY <1>0, <1>1, <2>2, ReturnKeepsRecords, DeliveryKeepsRecords DEF NotFound
  <2>3. CASE NotFound(d, m)
    BY <1>0, <1>1, <2>3, ReturnKeepsRecords, DeliveryKeepsRecords DEF NotFound
  <2> QED BY <1>5, <2>1, <2>2, <2>3 DEF Scan, l, m
<1>6. CASE Rescan(d)
  <2>1. CASE \E n \in DOMAIN issues : Keep(d, Created(l, FpOf[d], n))
    BY <1>0, <1>4, <2>1, DeliveryFacts, DeliveryKeepsRecords
  <2>2. CASE Return(d, l, "failed")
    BY <1>0, <1>1, <2>2, ReturnKeepsRecords
  <2>3. CASE Return(d, m, "failed")
    BY <1>0, <1>1, <2>3, ReturnKeepsRecords
  <2> QED BY <1>6, <2>1, <2>2, <2>3 DEF Rescan, l, m
<1> QED BY <1>2, <1>3, <1>5, <1>6

LEMMA UpdateKeepsRecords == ASSUME IInv, RecInv, NEW d \in Deliveries, Update(d) PROVE RecInv'
<1> DEFINE l == loc[d]
<1>0. UNCHANGED fb /\ pc[d] = "update"
  BY DEF Update
<1>1. l \in LocType /\ l.snap \in Record /\ WellFormed(l.snap) /\ l.num \in 0 .. MaxIssues
      /\ l.num \in DOMAIN issues
  BY <1>0, DeliveryFacts, StillWellFormed DEF At, Of, LocType
<1>2. RecordsWellFormed'
  <2>1. CASE UNCHANGED issues
    BY <2>1, StillWellFormed
  <2>2. CASE issues' = Patched(d)
    <3> DEFINE rec    == Absorb(l.snap, RunOf[d], day)
               status == IF l.closed THEN "open" ELSE issues[l.num].status
    <3>1. rec \in Record /\ WellFormed(rec)
      BY <1>1, DeliveryFacts, AbsorbType, AbsorbWellFormed
    <3>2. status \in Statuses
      <4>1. issues[l.num] \in Issue
        BY <1>1, DeliveryFacts, ElementOfSeq
      <4> QED BY <4>1 DEF Issue, Statuses
    <3>3. issues' = Patch(l.num, rec, status)
      BY <2>2 DEF Patched
    <3> HIDE DEF rec, status
    <3> QED BY <1>1, <3>1, <3>2, <3>3, PatchKeepsRecords
  <2> QED BY <2>1, <2>2 DEF Update
<1>3. Late(l) \in LocType /\ Indexed(l, FpOf[d], l.num) \in LocType
  BY <1>1, DeliveryFacts, LateType, IndexedType
<1> DEFINE k == Indexed(l, FpOf[d], l.num)
<1> HIDE DEF k
<1>4. ASSUME NEW m \in {l, Late(l), k}, NEW res, Return(d, m, res)
      PROVE  RecInv'
  <2>1. m \in LocType
    BY <1>1, <1>3, <1>4 DEF k
  <2> QED BY <1>0, <1>2, <1>4, <2>1, ReturnKeepsRecords
<1>5. \/ Return(d, l, "unchanged") \/ Return(d, Late(l), "skipped") \/ Return(d, l, "failed")
      \/ Return(d, k, IF l.closed THEN "reopened" ELSE "updated")
  BY DEF Update, k
<1> QED BY <1>4, <1>5

LEMMA CreateKeepsRecords == ASSUME IInv, RecInv, NEW d \in Deliveries, Create(d) PROVE RecInv'
<1> DEFINE l == loc[d]
           n == Len(issues) + 1
<1>0. UNCHANGED fb /\ n <= MaxIssues
  BY DEF Create
<1>1. l \in LocType /\ WellFormed(l.snap)
  BY DeliveryFacts, StillWellFormed
<1>2. RecordsWellFormed'
  <2>1. /\ Opened(d) \in Issue /\ Opened(d).status = "open" /\ WellFormed(Opened(d).rec)
    BY DeliveryFacts, FirstRecordType DEF Opened, Issue, Statuses
  <2>2. CASE UNCHANGED issues
    BY <2>2, StillWellFormed
  <2>3. CASE issues' = Append(issues, Opened(d)) \/ issues' = Append(Append(issues, Opened(d)), Opened(d))
    BY <2>1, <2>3, AppendKeepsRecords
  <2> QED BY <2>2, <2>3 DEF Create
<1>3. ASSUME NEW k \in {n, n + 1}, k <= MaxIssues, Keep(d, Created(l, FpOf[d], k))
      PROVE  RecInv'
  <2>1. k \in 0 .. MaxIssues
    BY <1>3, DeliveryFacts
  <2>2. WellFormed(Created(l, FpOf[d], k).snap)
    BY <1>1, <2>1, DeliveryFacts, CreatedType
  <2> QED BY <1>0, <1>2, <1>3, <2>2, DeliveryKeepsRecords
<1>4. Late(l) \in LocType
  BY <1>1, LateType
<1>5. CASE Return(d, l, "failed") \/ Return(d, Late(l), "skipped")
  BY <1>0, <1>1, <1>2, <1>4, <1>5, ReturnKeepsRecords
<1>6. CASE UNCHANGED loc
  BY <1>0, <1>2, <1>6, StillWellFormed
<1>7. CASE n < MaxIssues /\ Keep(d, Created(l, FpOf[d], n + 1))
  <2>1. n + 1 <= MaxIssues
    BY <1>7, DeliveryFacts
  <2> QED BY <1>3, <1>7, <2>1
<1>8. CASE Keep(d, Created(l, FpOf[d], n))
  BY <1>0, <1>3, <1>8
<1> QED BY <1>5, <1>6, <1>7, <1>8 DEF Create

LEMMA HealKeepsRecords ==
    ASSUME IInv, RecInv, NEW d \in Deliveries, Heal(d) \/ CloseDuplicate(d)
    PROVE  RecInv'
<1> DEFINE l == loc[d]
           s == Scanned(l, issues)
           m == ScanFailed(l)
<1>0. UNCHANGED fb
  BY DEF Heal, CloseDuplicate
<1>1. /\ l \in LocType /\ WellFormed(l.snap)
      /\ s \in LocType /\ WellFormed(s.snap) /\ m \in LocType /\ WellFormed(m.snap)
  <2>1. l \in LocType /\ issues \in Seq(Issue) /\ WellFormed(l.snap)
    BY DeliveryFacts, StillWellFormed
  <2> HIDE DEF l
  <2> QED BY <2>1, ScannedType
<1> HIDE DEF l, s, m
<1>2. CASE Heal(d)
  <2>1. RecordsWellFormed'
    BY <1>2, StillWellFormed DEF Heal
  <2>2. CASE Return(d, s, "created") \/ Return(d, m, "created")
    BY <1>0, <1>1, <2>1, <2>2, ReturnKeepsRecords
  <2> DEFINE i(keep) == Indexed(Target(s, issues, keep), FpOf[d], keep)
             rivals == Rivals(d)
  <2>3. CASE \E keep \in rivals : Keep(d, [i(keep) EXCEPT !.todo = rivals \ {keep}])
    <3>1. PICK keep \in rivals : Keep(d, [i(keep) EXCEPT !.todo = rivals \ {keep}])
      BY <2>3
    <3>2. rivals \subseteq DOMAIN issues
      BY <1>2, DeliveryFacts DEF Rivals, OpenOf, Of, At, Heal
    <3>3. keep \in DOMAIN issues /\ keep <= MaxIssues /\ keep \in 0 .. MaxIssues
      BY <3>1, <3>2, DeliveryFacts
    <3>4. Target(s, issues, keep) \in LocType /\ WellFormed(Target(s, issues, keep).snap)
      BY <1>1, <3>3, DeliveryFacts, TargetType, StillWellFormed
    <3>5. i(keep) \in LocType /\ WellFormed(i(keep).snap)
      BY <3>3, <3>4, DeliveryFacts, IndexedType
    <3>6. rivals \ {keep} \in SUBSET Numbers
      BY <3>2, DeliveryFacts DEF Numbers
    <3> DEFINE k == i(keep)
               S == rivals \ {keep}
    <3>7. k \in LocType /\ WellFormed(k.snap) /\ S \in SUBSET Numbers /\ Keep(d, [k EXCEPT !.todo = S])
      BY <3>1, <3>5, <3>6
    <3> HIDE DEF k, S
    <3>8. [k EXCEPT !.todo = S].snap = k.snap
      BY <3>7 DEF LocType
    <3> QED BY <1>0, <2>1, <3>7, <3>8, DeliveryKeepsRecords
  <2> QED BY <1>2, <2>2, <2>3 DEF Heal, l, s, m
<1>3. CASE CloseDuplicate(d)
  <2>1. l.todo \in SUBSET DOMAIN issues
    BY <1>3, DeliveryFacts DEF CloseDuplicate, At, Of, l
  <2>2. RecordsWellFormed'
    <3>1. CASE UNCHANGED issues
      BY <3>1, StillWellFormed
    <3>2. CASE \E n \in l.todo : issues' = Patch(n, issues[n].rec, "duplicate")
      <4>1. PICK n \in DOMAIN issues : issues' = Patch(n, issues[n].rec, "duplicate")
        BY <2>1, <3>2
      <4>2. issues[n] \in Issue
        BY DeliveryFacts, ElementOfSeq
      <4>3. issues[n].rec \in Record /\ WellFormed(issues[n].rec) /\ "duplicate" \in Statuses
        BY <4>2, StillWellFormed DEF Issue, Statuses
      <4> QED BY <4>1, <4>3, PatchKeepsRecords
    <3> QED BY <1>3, <3>1, <3>2 DEF CloseDuplicate, l
  <2>3. ASSUME NEW k \in LocType, k.snap = l.snap, Healed(d, k) \/ Keep(d, k)
        PROVE  RecInv'
    BY <1>0, <1>1, <2>2, <2>3, ReturnKeepsRecords, DeliveryKeepsRecords DEF Healed
  <2>4. ASSUME NEW S \in SUBSET Numbers
        PROVE  /\ [l EXCEPT !.todo = S] \in LocType /\ [l EXCEPT !.todo = S].snap = l.snap
               /\ Late([l EXCEPT !.todo = S]) \in LocType /\ Late([l EXCEPT !.todo = S]).snap = l.snap
    <3> DEFINE t == [l EXCEPT !.todo = S]
    <3>1. t \in LocType /\ t.snap = l.snap
      BY <1>1, <2>4 DEF LocType
    <3> HIDE DEF t
    <3>2. Late(t) \in LocType /\ Late(t).snap = l.snap
      BY <3>1, LateType
    <3> QED BY <3>1, <3>2 DEF t
  <2>5. {} \in SUBSET Numbers /\ \A n \in l.todo : l.todo \ {n} \in SUBSET Numbers
    BY <1>1 DEF LocType
  <2>6. CASE Healed(d, Late([l EXCEPT !.todo = {}]))
    BY <2>3, <2>4, <2>5, <2>6
  <2>7. CASE \E n \in l.todo :
          Healed(d, [l EXCEPT !.todo = l.todo \ {n}]) \/ Keep(d, [l EXCEPT !.todo = l.todo \ {n}])
    BY <2>3, <2>4, <2>5, <2>7
  <2> QED BY <1>3, <2>6, <2>7 DEF CloseDuplicate, l
<1> QED BY <1>2, <1>3

\* The housekeeping writes no record, and its snapshot is already forgotten.
LEMMA HousekeepingKeepsRecords ==
    ASSUME IInv, RecInv, NEW d \in Deliveries,
           Sweep(d) \/ CloseStale(d) \/ Flush(d) \/ Crash(d)
    PROVE  RecInv'
<1> DEFINE l == loc[d]
<1>0. UNCHANGED fb
  BY DEF Sweep, CloseStale, Flush, Crash
<1>1. l \in LocType /\ WellFormed(l.snap)
  BY DeliveryFacts, StillWellFormed
<1> HIDE DEF l
<1>2. CASE Sweep(d)
  <2>1. RecordsWellFormed'
    BY <1>2, StillWellFormed DEF Sweep
  <2>2. ASSUME NEW k \in LocType, k.snap = l.snap, Keep(d, [k EXCEPT !.todo = Stale(k)])
        PROVE  RecInv'
    <3>1. [k EXCEPT !.todo = Stale(k)].snap = k.snap
      BY DEF LocType
    <3> QED BY <1>0, <1>1, <2>1, <2>2, <3>1, DeliveryKeepsRecords
  <2> DEFINE s == Scanned(l, issues)
             m == ScanFailed(l)
  <2>3. s \in LocType /\ s.snap = l.snap /\ m \in LocType /\ m.snap = l.snap
    BY <1>1, DeliveryFacts, ScannedType
  <2> HIDE DEF s, m
  <2>4. \/ Keep(d, [l EXCEPT !.todo = Stale(l)]) \/ Keep(d, [s EXCEPT !.todo = Stale(s)])
        \/ Keep(d, [m EXCEPT !.todo = Stale(m)])
    BY <1>2 DEF Sweep, l, s, m
  <2> QED BY <1>1, <2>2, <2>3, <2>4
<1>3. CASE CloseStale(d)
  <2>1. PICK n \in l.todo :
          /\ issues' = Patch(n, issues[n].rec, "stale") \/ UNCHANGED issues
          /\ \/ \E m \in {l, Late(l)} : Keep(d, [m EXCEPT !.todo = {}, !.swept = 0])
             \/ Keep(d, [l EXCEPT !.todo = l.todo \ {n}, !.swept = l.swept + 1])
    BY <1>3 DEF CloseStale, l
  <2>2. n \in DOMAIN issues
    <3>1. l.scan \in Seq(Issue) /\ l.todo \subseteq DOMAIN l.scan /\ Len(l.scan) <= Len(issues)
      BY <1>1, <1>3, DeliveryFacts DEF CloseStale, At, LocType, l
    <3>2. DOMAIN l.scan = 1 .. Len(l.scan) /\ Len(l.scan) \in Nat
      BY <3>1
    <3> QED BY <2>1, <3>1, <3>2, DeliveryFacts
  <2>3. RecordsWellFormed'
    <3>1. issues[n] \in Issue
      BY <2>2, DeliveryFacts, ElementOfSeq
    <3>2. issues[n].rec \in Record /\ WellFormed(issues[n].rec) /\ "stale" \in Statuses
      BY <2>2, <3>1, StillWellFormed DEF Issue, Statuses
    <3> QED BY <2>1, <2>2, <3>2, PatchKeepsRecords, StillWellFormed
  <2>4. Late(l) \in LocType /\ Late(l).snap = l.snap
    BY <1>1, LateType
  <2>6. CASE \E m \in {l, Late(l)} : Keep(d, [m EXCEPT !.todo = {}, !.swept = 0])
    <3>1. PICK m \in {l, Late(l)} : Keep(d, [m EXCEPT !.todo = {}, !.swept = 0])
      BY <2>6
    <3>2. [m EXCEPT !.todo = {}, !.swept = 0].snap = m.snap /\ m.snap = l.snap
      BY <1>1, <2>4, <3>1 DEF LocType
    <3> QED BY <1>0, <1>1, <2>3, <3>1, <3>2, DeliveryKeepsRecords
  <2>7. CASE Keep(d, [l EXCEPT !.todo = l.todo \ {n}, !.swept = l.swept + 1])
    <3>1. [l EXCEPT !.todo = l.todo \ {n}, !.swept = l.swept + 1].snap = l.snap
      BY <1>1 DEF LocType
    <3> QED BY <1>0, <1>1, <2>3, <2>7, <3>1, DeliveryKeepsRecords
  <2> QED BY <2>1, <2>6, <2>7
<1>4. CASE Flush(d) \/ Crash(d)
  <2>1. End(d) /\ RecordsWellFormed'
    BY <1>4, StillWellFormed DEF Flush, Crash
  <2>2. [Blank EXCEPT !.result = loc[d].result, !.ref = loc[d].ref].snap = Unreadable
    BY DEF Blank
  <2> QED BY <1>0, <2>1, <2>2, UnreadableType, DeliveryKeepsRecords DEF End
<1> QED BY <1>2, <1>3, <1>4

LEMMA FeedbackKeepsRecords ==
    ASSUME IInv, RecInv, NEW f \in Feedbacks, ReadIssue(f) \/ ReadPullRequest(f) \/ Resolve(f)
    PROVE  RecInv'
<1>0. UNCHANGED loc
  BY DEF ReadIssue, ReadPullRequest, Resolving, Resolve
<1>1. fb \in [Feedbacks -> FbType] /\ fb[f] \in FbType
  BY FeedbackFacts
\* A job either lists the issues anew or forgets some of its list.
<1>2. ASSUME NEW g, fb' = [fb EXCEPT ![f] = g], RecordsWellFormed',
             \A n \in DOMAIN g.list : WellFormed(g.list[n].rec)
      PROVE  RecInv'
  <2>1. \A h \in Feedbacks : fb'[h] = IF h = f THEN g ELSE fb[h]
    BY <1>1, <1>2
  <2> QED BY <1>0, <1>2, <2>1 DEF RecInv, SnapshotsWellFormed, ListsWellFormed
<1>3. ASSUME NEW S, Resolving(f, S)
      PROVE  RecInv'
  <2> DEFINE g == [list |-> issues, todo |-> S, times |-> fb[f].times + 1]
  <2>1. fb' = [fb EXCEPT ![f] = g] /\ g.list = issues
    BY <1>3 DEF Resolving
  <2>2. RecordsWellFormed'
    BY <1>3 DEF Resolving, RecInv, RecordsWellFormed
  <2> HIDE DEF g
  <2> QED BY <1>2, <2>1, <2>2 DEF RecInv, RecordsWellFormed
<1>4. CASE Resolve(f)
  <2>1. PICK n \in fb[f].todo :
          /\ issues' = Patch(n, Resolved(fb[f].list[n].rec, f), "resolved") \/ UNCHANGED issues
          /\ fb' = [fb EXCEPT ![f].todo = @ \ {n},
                              ![f].list = IF fb[f].todo = {n} THEN <<>> ELSE @]
    BY <1>4 DEF Resolve
  <2> DEFINE rec == fb[f].list[n].rec
             L   == IF fb[f].todo = {n} THEN <<>> ELSE fb[f].list
             g   == [fb[f] EXCEPT !.todo = fb[f].todo \ {n}, !.list = L]
  <2>2. /\ fb[f].list \in Seq(Issue) /\ n \in DOMAIN fb[f].list /\ Len(fb[f].list) <= Len(issues)
        /\ DOMAIN fb[f].list = 1 .. Len(fb[f].list) /\ Len(fb[f].list) \in Nat
    BY <2>1, FeedbackFacts DEF FbAt, FbType
  <2>3. n \in DOMAIN issues /\ fb[f].list[n] \in Issue
    BY <2>2, FeedbackFacts, ElementOfSeq
  <2>4. rec \in Record /\ WellFormed(rec)
    BY <2>2, <2>3 DEF Issue, RecInv, ListsWellFormed
  <2>5. f \in Authors \union {NoOne} /\ "resolved" \in Statuses
    BY DEF Statuses
  <2>6. RecordsWellFormed'
    <3>1. CASE UNCHANGED issues
      BY <3>1 DEF RecInv, RecordsWellFormed
    <3>2. CASE issues' = Patch(n, Resolved(rec, f), "resolved")
      <4> HIDE DEF rec
      <4>1. /\ Resolved(rec, f) \in Record
            /\ Resolved(rec, f).runs = rec.runs /\ Resolved(rec, f).count = rec.count
        BY <2>4, <2>5 DEF Resolved, Record
      <4>2. WellFormed(Resolved(rec, f))
        BY <2>4, <4>1 DEF WellFormed, NoRunTwice, CountCovers
      <4> QED BY <2>3, <2>5, <3>2, <4>1, <4>2, PatchKeepsRecords
    <3> QED BY <2>1, <3>1, <3>2
  <2>7. fb' = [fb EXCEPT ![f] = g]
    BY <1>1, <2>1
  <2>8. g.list = L
    BY <1>1 DEF FbType
  <2> HIDE DEF g
  <2>9. \A k \in DOMAIN L : WellFormed(L[k].rec)
    <3>1. DOMAIN <<>> = {}
      OBVIOUS
    <3> QED BY <3>1 DEF RecInv, ListsWellFormed
  <2> QED BY <1>2, <2>6, <2>7, <2>8, <2>9
<1> QED BY <1>3, <1>4 DEF ReadIssue, ReadPullRequest

LEMMA OutsideKeepsRecords ==
    ASSUME IInv, RecInv,
           \/ \E n \in DOMAIN issues : HumanTogglesIssue(n) \/ HumanGarblesIssue(n)
           \/ HumanEditsIndex \/ Tick \/ UNCHANGED vars
    PROVE  RecInv'
<1>1. UNCHANGED <<loc, fb>>
  BY DEF HumanTogglesIssue, HumanGarblesIssue, HumanEditsIndex, Tick, vars
<1>2. RecordsWellFormed'
  <2>1. CASE UNCHANGED issues
    BY <2>1 DEF RecInv, RecordsWellFormed
  <2>2. ASSUME NEW n \in DOMAIN issues, HumanTogglesIssue(n) \/ HumanGarblesIssue(n)
        PROVE  RecordsWellFormed'
    <3>1. issues[n] \in Issue /\ WellFormed(issues[n].rec)
      BY ElementOfSeq DEF IInv, TypeOK, RecInv, RecordsWellFormed
    <3>2. issues[n].rec \in Record /\ issues[n].status \in Statuses /\ {"open", "human"} \subseteq Statuses
      BY <3>1 DEF Issue, Statuses
    <3> QED BY <2>2, <3>1, <3>2, UnreadableType, PatchKeepsRecords
            DEF HumanTogglesIssue, HumanGarblesIssue
  <2> QED BY <2>1, <2>2 DEF HumanEditsIndex, Tick, vars
<1> QED BY <1>1, <1>2 DEF RecInv, SnapshotsWellFormed, ListsWellFormed

LEMMA NextKeepsRecords == IInv /\ RecInv /\ [Next]_vars => RecInv'
<1> SUFFICES ASSUME IInv, RecInv, [Next]_vars PROVE RecInv'
  OBVIOUS
<1>1. ASSUME NEW d \in Deliveries, LoadIndex(d) \/ Step(d) \/ Crash(d)
      PROVE  RecInv'
  BY <1>1, LookUpKeepsRecords, UpdateKeepsRecords, CreateKeepsRecords, HealKeepsRecords,
     HousekeepingKeepsRecords DEF Step
<1> QED BY <1>1, FeedbackKeepsRecords, OutsideKeepsRecords DEF Next

LEMMA InitRecords == Init => RecInv
<1> SUFFICES ASSUME Init PROVE RecInv
  OBVIOUS
<1>1. DOMAIN issues = {} /\ \A f \in Feedbacks : DOMAIN fb[f].list = {}
  BY DEF Init
<1>2. \A d \in Deliveries : loc[d].snap = Unreadable
  BY DEF Init, Blank
<1> QED BY <1>1, <1>2, UnreadableType
        DEF RecInv, RecordsWellFormed, SnapshotsWellFormed, ListsWellFormed

\* Whatever the jobs overwrite of each other, every record in an issue body
\* lists no run twice and counts the runs it lists, up to the cap of run ids
\* (FailureRecord.absorb and every writer of a body).
THEOREM RecordsStayWellFormed == Spec => []RecordsWellFormed
<1>1. RecInv => RecordsWellFormed
  BY DEF RecInv
<1> QED BY <1>1, InitRecords, NextKeepsRecords, Invariant, PTL DEF Spec

LEMMA LowestExists ==
    ASSUME NEW S, S \subseteq Nat, S # {}
    PROVE  \E n \in S : Lowest(n, S)
<1>1. PICK n \in S : \A i \in S : <<i, n>> \notin OpToRel(<, Nat)
  BY NatLessThanWellFounded, WFMin
<1>2. \A i \in S : ~(i < n)
  BY <1>1 DEF OpToRel
<1> QED BY <1>2 DEF Lowest

-----------------------------------------------------------------------------
(* Jobs that overlap while nothing fails *)

\* The issues opened since some running job has started.
Young == {n \in DOMAIN issues : \E d \in Deliveries : d \in InFlight /\ known[d] < n}

\* Where nothing fails, whatever names an issue of a fingerprint names its first.
Points(list, n, fp) == n # 0 => Lowest(n, Of(list, fp))

\* What a job knows of the issues the others write: it has never seen a young
\* issue of an earlier day, and its own fingerprint was unknown if it created one.
RaceAt(d) ==
    LET l    == loc[d]
        mine == Of(issues, FpOf[d]) IN
    /\ ~l.late /\ pc[d] # "rescan"
    /\ \A fp \in Fingerprints : (pc[d] = "heal" /\ fp = FpOf[d]) \/ Points(issues, l.idx[fp], fp)
    /\ pc[d] = "heal" => l.idx[FpOf[d]] = l.own
    /\ pc[d] \in {"heal", "close"} => \A n \in mine : known[d] < n
    /\ pc[d] \in {"update", "close"} =>
          Lowest(l.num, mine) /\ (l.num \in Young => l.snap.seen = day)
    /\ d \in InFlight => \A n \in DOMAIN l.scan : n \in Young => l.scan[n].rec.seen = day
    /\ pc[d] = "closing" => \A n \in l.todo : l.scan[n].rec.seen < day

IndexPoints == \A fp \in Fingerprints : Points(issues, index.map[fp], fp)

\* No sweep touches a young issue: only a self-heal closes it.
YoungAreFresh ==
    \A n \in Young : issues[n].status \in {"open", "duplicate"} /\ issues[n].rec.seen = day

\* Job d is about to look for rivals of issue n, or has found it to be one.
Handles(d, n) == \/ pc[d] = "heal" /\ loc[d].own = n
                 \/ pc[d] = "close" /\ n \in loc[d].todo

\* A second open issue of a fingerprint is in the hands of a running self-heal.
RivalsAreHandled ==
    \A n \in DOMAIN issues : issues[n].status = "open" =>
        \/ Lowest(n, Of(issues, issues[n].fp))
        \/ \E d \in Deliveries : FpOf[d] = issues[n].fp /\ Handles(d, n)

RaceInv ==
    /\ \A d \in Deliveries : RaceAt(d)
    /\ IndexPoints /\ YoungAreFresh /\ RivalsAreHandled

LEMMA RaceFacts ==
    ASSUME IInv, IInv', Grown
    PROVE  /\ issues \in Seq(Issue) /\ issues' \in Seq(Issue)
           /\ DOMAIN issues = 1 .. Len(issues) /\ DOMAIN issues' = 1 .. Len(issues')
           /\ Len(issues) \in Nat /\ Len(issues') \in Nat /\ Len(issues) <= Len(issues')
           /\ DOMAIN issues \subseteq DOMAIN issues'
           /\ \A n \in DOMAIN issues : issues[n] \in Issue /\ issues'[n].fp = issues[n].fp
           /\ \A n \in DOMAIN issues' : issues'[n] \in Issue /\ n \in Nat
<1>1. /\ issues \in Seq(Issue) /\ issues' \in Seq(Issue)
  BY DEF IInv, TypeOK
<1>2. /\ DOMAIN issues = 1 .. Len(issues) /\ DOMAIN issues' = 1 .. Len(issues')
      /\ Len(issues) \in Nat /\ Len(issues') \in Nat /\ Len(issues) <= Len(issues')
  BY <1>1 DEF Grown
<1>3. \A n \in DOMAIN issues : issues[n] \in Issue
  BY <1>1, ElementOfSeq
<1>4. \A n \in DOMAIN issues' : issues'[n] \in Issue
  BY <1>1, ElementOfSeq
<1> QED BY <1>1, <1>2, <1>3, <1>4 DEF Grown

LEMMA LowestStays ==
    ASSUME IInv, IInv', Grown, NEW fp, NEW n, Lowest(n, Of(issues, fp))
    PROVE  Lowest(n, Of(issues', fp)) /\ n \in DOMAIN issues
<1>1. n \in DOMAIN issues /\ issues[n].fp = fp
  BY DEF Lowest, Of
<1>2. n \in Of(issues', fp)
  BY <1>1, RaceFacts DEF Of
<1>3. ASSUME NEW m \in Of(issues', fp)
      PROVE  n <= m
  <2>1. CASE m \in DOMAIN issues
    <3>1. m \in Of(issues, fp)
      BY <1>3, <2>1, RaceFacts DEF Of
    <3> QED BY <3>1 DEF Lowest
  <2>2. CASE m \notin DOMAIN issues
    <3>1. m \in DOMAIN issues'
      BY <1>3 DEF Of
    <3> QED BY <1>1, <2>2, <3>1, RaceFacts
  <2> QED BY <2>1, <2>2
<1> QED BY <1>1, <1>2, <1>3 DEF Lowest

\* A job starts with everything known, and a step starts no other job.
Starts(d) == known' = [known EXCEPT ![d] = Len(issues)]
Runs(d)   == UNCHANGED known /\ d \in InFlight

LEMMA YoungStay ==
    ASSUME IInv, IInv', Grown, NEW d \in Deliveries, NEW l, NEW at, Moves(d, l, at),
           Starts(d) \/ Runs(d), NEW n \in DOMAIN issues, n \in Young'
    PROVE  n \in Young
<1>1. PICK e \in Deliveries : e \in InFlight' /\ known'[e] < n
  BY DEF Young
<1>2. known \in [Deliveries -> 0 .. MaxIssues]
  BY DeliveryFacts
<1>3. CASE e # d
  <2>1. pc'[e] = pc[e]
    BY <1>3, MovesFacts
  <2>2. e \in InFlight
    BY <1>1, <2>1 DEF InFlight
  <2>3. known'[e] = known[e]
    BY <1>2, <1>3 DEF Starts, Runs
  <2> QED BY <1>1, <2>2, <2>3 DEF Young
<1>4. CASE e = d
  <2>1. CASE Starts(d)
    <3>1. known'[d] = Len(issues)
      BY <1>2, <2>1 DEF Starts
    <3> QED BY <1>1, <1>4, <3>1, RaceFacts
  <2>2. CASE Runs(d)
    BY <1>1, <1>4, <2>2 DEF Runs, Young
  <2> QED BY <2>1, <2>2
<1> QED BY <1>3, <1>4

LEMMA RaceAtStays ==
    ASSUME IInv, IInv', IdxInv, Grown, UNCHANGED day,
           \A n \in DOMAIN issues : n \in Young' => n \in Young,
           NEW e \in Deliveries, RaceAt(e),
           loc'[e] = loc[e], pc'[e] = pc[e], known'[e] = known[e]
    PROVE  RaceAt(e)'
<1>1. known[e] \in Nat /\ known[e] <= Len(issues)
  BY DeliveryFacts DEF At
<1>2. \A fp \in Fingerprints : Points(issues, loc[e].idx[fp], fp) => Points(issues', loc[e].idx[fp], fp)
  BY LowestStays DEF Points
<1>3. pc[e] \in {"heal", "close"} => \A n \in Of(issues', FpOf[e]) : known[e] < n
  <2> SUFFICES ASSUME pc[e] \in {"heal", "close"}, NEW n \in Of(issues', FpOf[e])
               PROVE  known[e] < n
    OBVIOUS
  <2>1. CASE n \in DOMAIN issues
    <3>1. n \in Of(issues, FpOf[e])
      BY <2>1, RaceFacts DEF Of
    <3> QED BY <3>1 DEF RaceAt
  <2>2. CASE n \notin DOMAIN issues
    <3>1. n \in DOMAIN issues'
      BY DEF Of
    <3> QED BY <1>1, <2>2, <3>1, RaceFacts
  <2> QED BY <2>1, <2>2
<1>4. pc[e] \in {"update", "close"} =>
          /\ Lowest(loc[e].num, Of(issues', FpOf[e]))
          /\ (loc[e].num \in Young' => loc[e].snap.seen = day)
  BY LowestStays DEF RaceAt
<1>5. e \in InFlight => \A n \in DOMAIN loc[e].scan : n \in Young' => loc[e].scan[n].rec.seen = day
  BY DEF RaceAt, IdxInv, Agrees
<1>6. e \in InFlight' <=> e \in InFlight
  BY DEF InFlight
<1> QED BY <1>2, <1>3, <1>4, <1>5, <1>6 DEF RaceAt

\* What is new after a step of one delivery.
LEMMA RaceStep ==
    ASSUME IInv, IInv', IdxInv, Grown, RaceInv, UNCHANGED day,
           NEW d \in Deliveries, NEW l, NEW at, Moves(d, l, at), Starts(d) \/ Runs(d),
           RaceAt(d)', IndexPoints', YoungAreFresh', RivalsAreHandled'
    PROVE  RaceInv'
<1>1. \A n \in DOMAIN issues : n \in Young' => n \in Young
  BY YoungStay
<1>2. ASSUME NEW e \in Deliveries, e # d
      PROVE  RaceAt(e)'
  <2>1. loc'[e] = loc[e] /\ pc'[e] = pc[e]
    BY <1>2, MovesFacts
  <2>2. known'[e] = known[e]
    BY <1>2, DeliveryFacts DEF Starts, Runs
  <2>3. RaceAt(e)
    BY DEF RaceInv
  <2> QED BY <1>1, <2>1, <2>2, <2>3, RaceAtStays
<1> QED BY <1>2 DEF RaceInv

LEMMA IndexPointsStay ==
    ASSUME IInv, IInv', Grown, RaceInv, UNCHANGED index
    PROVE  IndexPoints'
BY LowestStays DEF RaceInv, IndexPoints, Points

\* The young issues after a step: those that were, as they were or as written,
\* and those opened by it.
LEMMA YoungFreshStep ==
    ASSUME IInv, IInv', Grown, RaceInv, UNCHANGED day,
           NEW d \in Deliveries, NEW l, NEW at, Moves(d, l, at), Starts(d) \/ Runs(d),
           \A n \in DOMAIN issues' :
              \/ n \in DOMAIN issues /\ issues'[n] = issues[n]
              \/ n \in DOMAIN issues /\ n \notin Young
              \/ issues'[n].status \in {"open", "duplicate"} /\ issues'[n].rec.seen = day
    PROVE  YoungAreFresh'
<1> SUFFICES ASSUME NEW n \in Young'
             PROVE  issues'[n].status \in {"open", "duplicate"} /\ issues'[n].rec.seen = day
  BY DEF YoungAreFresh
<1>1. n \in DOMAIN issues'
  BY DEF Young
<1>2. n \in DOMAIN issues => n \in Young
  BY YoungStay
<1> QED BY <1>1, <1>2 DEF RaceInv, YoungAreFresh

\* The same for the second open issues of a fingerprint, in a step that takes
\* none out of the hands of a self-heal.
LEMMA RivalsStep ==
    ASSUME IInv, IInv', Grown, RaceInv,
           NEW d \in Deliveries, NEW l, NEW at, Moves(d, l, at),
           \A n \in DOMAIN issues' : issues'[n].status = "open" =>
              \/ n \in DOMAIN issues /\ issues[n].status = "open" /\ ~Handles(d, n)
              \/ Lowest(n, Of(issues', issues'[n].fp))
              \/ FpOf[d] = issues'[n].fp /\ Handles(d, n)'
    PROVE  RivalsAreHandled'
<1> SUFFICES ASSUME NEW n \in DOMAIN issues', issues'[n].status = "open",
                    n \in DOMAIN issues, issues[n].status = "open", ~Handles(d, n)
             PROVE  \/ Lowest(n, Of(issues', issues'[n].fp))
                    \/ \E e \in Deliveries : FpOf[e] = issues'[n].fp /\ Handles(e, n)'
  BY DEF RivalsAreHandled
<1>1. issues'[n].fp = issues[n].fp
  BY RaceFacts
<1>2. CASE Lowest(n, Of(issues, issues[n].fp))
  BY <1>1, <1>2, LowestStays
<1>3. ASSUME NEW e \in Deliveries, FpOf[e] = issues[n].fp, Handles(e, n)
      PROVE  Handles(e, n)'
  <2>1. e # d
    BY <1>3
  <2>2. loc'[e] = loc[e] /\ pc'[e] = pc[e]
    BY <2>1, MovesFacts
  <2> QED BY <1>3, <2>2 DEF Handles
<1> QED BY <1>1, <1>2, <1>3 DEF RaceInv, RivalsAreHandled

\* What the job that moves knows afterwards, from the fields it was left with.
LEMMA RaceAtNew ==
    ASSUME IInv, IInv', IdxInv, Grown, RaceInv, UNCHANGED day,
           NEW d \in Deliveries, NEW l, NEW at, Moves(d, l, at), Starts(d) \/ Runs(d),
           ~l.late, at # "rescan",
           \A fp \in Fingerprints : (at = "heal" /\ fp = FpOf[d]) \/ Points(issues', l.idx[fp], fp),
           at = "heal" => l.idx[FpOf[d]] = l.own,
           at \in {"heal", "close"} => \A n \in Of(issues', FpOf[d]) : known'[d] < n,
           at \in {"update", "close"} =>
              Lowest(l.num, Of(issues', FpOf[d])) /\ (l.num \in Young' => l.snap.seen = day),
           l.scan = <<>> \/ (Runs(d) /\ l.scan \in {issues, loc[d].scan}),
           at = "closing" => \A n \in l.todo : l.scan[n].rec.seen < day
    PROVE  RaceAt(d)'
<1>1. loc'[d] = l /\ pc'[d] = at
  BY MovesFacts
<1>2. ASSUME NEW n \in DOMAIN l.scan, n \in Young'
      PROVE  l.scan[n].rec.seen = day
  <2>1. Runs(d) /\ l.scan \in {issues, loc[d].scan}
    <3>1. CASE l.scan = <<>>
      BY <1>2, <3>1
    <3> QED BY <3>1
  <2>2. n \in DOMAIN issues
    BY <1>2, <2>1 DEF IdxInv, Agrees
  <2>3. n \in Young
    BY <1>2, <2>2, YoungStay
  <2>4. CASE l.scan = issues
    BY <2>3, <2>4 DEF RaceInv, YoungAreFresh
  <2>5. CASE l.scan = loc[d].scan
    BY <1>2, <2>1, <2>3, <2>5 DEF RaceInv, RaceAt, Runs
  <2> QED BY <2>1, <2>4, <2>5
<1> QED BY <1>1, <1>2 DEF RaceAt

\* A step that leaves the issues and the index alone.
LEMMA RaceQuiet ==
    ASSUME IInv, IInv', IdxInv, RaceInv, UNCHANGED <<issues, index, day>>,
           NEW d \in Deliveries, NEW l, NEW at, Moves(d, l, at), Starts(d) \/ Runs(d),
           RaceAt(d)',
           \A n \in DOMAIN issues : Handles(d, n) =>
              \/ Lowest(n, Of(issues, issues[n].fp))
              \/ FpOf[d] = issues[n].fp /\ Handles(d, n)'
    PROVE  RaceInv'
<1>1. Grown /\ IndexPoints'
  BY SameGrown, IndexPointsStay
<1>2. YoungAreFresh'
  BY <1>1, YoungFreshStep
<1>3. RivalsAreHandled'
  BY <1>1, RivalsStep
<1> QED BY <1>1, <1>2, <1>3, RaceStep

LEMMA RaceHere ==
    ASSUME IInv, RaceInv, NEW d \in Deliveries
    PROVE  /\ RaceAt(d) /\ ~loc[d].late /\ FpOf[d] \in Fingerprints
           /\ pc[d] # "heal" => \A fp \in Fingerprints : Points(issues, loc[d].idx[fp], fp)
           /\ loc[d].idx \in IndexMap
BY DeliveryFacts DEF RaceInv, RaceAt, LocType

\* An entry that is set to the first issue of its fingerprint.
LEMMA PointsSet ==
    ASSUME NEW list, NEW map \in IndexMap, \A fp \in Fingerprints : Points(list, map[fp], fp),
           NEW fp \in Fingerprints, NEW n, Lowest(n, Of(list, fp))
    PROVE  \A g \in Fingerprints : Points(list, [map EXCEPT ![fp] = n][g], g)
BY DEF Points, IndexMap

LEMMA LoadIndexKeepsRace ==
    ASSUME IInv, IInv', IdxInv, RaceInv, NEW d \in Deliveries, LoadIndex(d)
    PROVE  RaceInv'
<1>1. PICK l \in LocType, at \in {"get", "scan"} :
        /\ Moves(d, l, at) /\ l.idx \in {index.map, NoIndex} /\ l.scan = <<>> /\ l.late = FALSE
  BY LoadIndexShape
<1>2. Starts(d) /\ UNCHANGED <<issues, index, day>> /\ pc[d] = "idle" /\ Grown
  BY SameGrown DEF LoadIndex, Starts
<1>3. \A fp \in Fingerprints : Points(issues', l.idx[fp], fp)
  BY <1>1, <1>2 DEF RaceInv, IndexPoints, Points, NoIndex
<1>4. RaceAt(d)'
  BY <1>1, <1>2, <1>3, RaceAtNew
<1> QED BY <1>1, <1>2, <1>4, RaceQuiet DEF Handles

LEMMA GetIssueKeepsRace ==
    ASSUME IInv, IInv', IdxInv, RaceInv, NEW d \in Deliveries, GetIssue(d)
    PROVE  RaceInv'
<1>1. Runs(d) /\ UNCHANGED <<issues, index, day>> /\ pc[d] = "get" /\ Grown
  BY SameGrown, DeliveryFacts DEF GetIssue, Runs, InFlight
<1>2. CASE Moves(d, loc[d], "scan")
  <2>1. RaceAt(d)'
    BY <1>1, <1>2, RaceHere, RaceAtNew
  <2> QED BY <1>1, <1>2, <2>1, RaceQuiet DEF Handles
<1>3. CASE \E l \in LocType, n \in Of(issues, FpOf[d]) :
                /\ Moves(d, l, "update") /\ SameSeen(l, loc[d])
                /\ n = loc[d].idx[FpOf[d]] /\ n # 0
                /\ l.num = n /\ l.snap = issues[n].rec /\ l.late = loc[d].late
  <2>1. PICK l \in LocType, n \in Of(issues, FpOf[d]) :
                /\ Moves(d, l, "update") /\ SameSeen(l, loc[d])
                /\ n = loc[d].idx[FpOf[d]] /\ n # 0
                /\ l.num = n /\ l.snap = issues[n].rec /\ l.late = loc[d].late
    BY <1>3
  <2>2. Lowest(n, Of(issues, FpOf[d])) /\ n \in DOMAIN issues
    BY <1>1, <2>1, RaceHere DEF Points, Of
  <2>3. n \in Young' => l.snap.seen = day
    BY <1>1, <2>1, <2>2, YoungStay DEF RaceInv, YoungAreFresh
  <2>4. l.scan = loc[d].scan /\ l.idx = loc[d].idx
    BY <2>1 DEF SameSeen
  <2>5. RaceAt(d)'
    BY <1>1, <2>1, <2>2, <2>3, <2>4, RaceHere, RaceAtNew
  <2> QED BY <1>1, <2>1, <2>5, RaceQuiet DEF Handles
<1> QED BY <1>2, <1>3, GetIssueShape

LEMMA ScanKeepsRace ==
    ASSUME IInv, IInv', IdxInv, RaceInv, NEW d \in Deliveries, Scan(d)
    PROVE  RaceInv'
<1>1. Runs(d) /\ UNCHANGED <<issues, index, day>> /\ pc[d] = "scan" /\ Grown
  BY SameGrown, DeliveryFacts DEF Scan, Runs, InFlight
<1>2. PICK l \in LocType :
             /\ l.late = loc[d].late
             /\ \/ \E n \in Of(issues, FpOf[d]) :
                     /\ Lowest(n, Of(issues, FpOf[d]))
                     /\ Moves(d, l, "update") /\ l.idx = [loc[d].idx EXCEPT ![FpOf[d]] = n]
                     /\ l.scan = issues /\ l.num = n /\ l.snap = issues[n].rec
                \/ Moves(d, l, "create") /\ l.idx = loc[d].idx /\ l.scan = issues
                \/ Moves(d, l, "sweep") /\ l.idx = loc[d].idx /\ l.scan \in {issues, <<>>}
  BY ScanShape
<1>3. CASE \E n \in Of(issues, FpOf[d]) :
                     /\ Lowest(n, Of(issues, FpOf[d]))
                     /\ Moves(d, l, "update") /\ l.idx = [loc[d].idx EXCEPT ![FpOf[d]] = n]
                     /\ l.scan = issues /\ l.num = n /\ l.snap = issues[n].rec
  <2>1. PICK n \in Of(issues, FpOf[d]) :
                     /\ Lowest(n, Of(issues, FpOf[d]))
                     /\ Moves(d, l, "update") /\ l.idx = [loc[d].idx EXCEPT ![FpOf[d]] = n]
                     /\ l.scan = issues /\ l.num = n /\ l.snap = issues[n].rec
    BY <1>3
  <2>2. n \in DOMAIN issues
    BY DEF Of
  <2>3. n \in Young' => l.snap.seen = day
    BY <1>1, <2>1, <2>2, YoungStay DEF RaceInv, YoungAreFresh
  <2>4. \A fp \in Fingerprints : Points(issues, l.idx[fp], fp)
    BY <1>1, <2>1, RaceHere, PointsSet
  <2>5. RaceAt(d)'
    BY <1>1, <1>2, <2>1, <2>3, <2>4, RaceHere, RaceAtNew
  <2> QED BY <1>1, <2>1, <2>5, RaceQuiet DEF Handles
<1>4. CASE \E at \in {"create", "sweep"} :
              Moves(d, l, at) /\ l.idx = loc[d].idx /\ l.scan \in {issues, <<>>}
  <2>1. PICK at \in {"create", "sweep"} :
              Moves(d, l, at) /\ l.idx = loc[d].idx /\ l.scan \in {issues, <<>>}
    BY <1>4
  <2>2. RaceAt(d)'
    BY <1>1, <1>2, <2>1, RaceHere, RaceAtNew
  <2> QED BY <1>1, <2>1, <2>2, RaceQuiet DEF Handles
<1> QED BY <1>2, <1>3, <1>4

LEMMA AbsorbSeen ==
    ASSUME NEW rec \in Record, NEW r, NEW t \in Days, rec.seen = t
    PROVE  Absorb(rec, r, t).seen = t
BY DEF Absorb, Record

LEMMA UpdateKeepsRace ==
    ASSUME Faults = {}, IInv, IInv', IdxInv, RaceInv, NEW d \in Deliveries, Update(d)
    PROVE  RaceInv'
<1> DEFINE num == loc[d].num
           rec == Absorb(loc[d].snap, RunOf[d], day)
           status == IF loc[d].closed THEN "open" ELSE issues[num].status
<1>1. Runs(d) /\ UNCHANGED <<index, day>> /\ pc[d] = "update"
  BY DeliveryFacts DEF Update, Runs, InFlight
<1>2. /\ Lowest(num, Of(issues, FpOf[d])) /\ (num \in Young => loc[d].snap.seen = day)
      /\ num \in DOMAIN issues /\ issues[num].fp = FpOf[d]
  <2>1. Lowest(num, Of(issues, FpOf[d])) /\ (num \in Young => loc[d].snap.seen = day)
    BY <1>1, RaceHere DEF RaceAt
  <2> QED BY <2>1 DEF Lowest, Of
<1>3. PICK l \in LocType :
             /\ Moves(d, l, "sweep") /\ l.scan = loc[d].scan
             /\ l.idx \in {loc[d].idx, [loc[d].idx EXCEPT ![FpOf[d]] = num]}
             /\ l.late => loc[d].late \/ MayFail("late")
             /\ issues' = Patched(d) \/ UNCHANGED issues
  BY UpdateShape
<1>4. ~l.late
  BY <1>3, RaceHere DEF MayFail
<1>5. issues' = Patch(num, rec, status) \/ UNCHANGED issues
  BY <1>3 DEF Patched
<1>6. loc[d].snap \in Record /\ day \in Days
  BY DeliveryFacts DEF LocType
<1>7. num \in Young => rec.seen = day
  BY <1>2, <1>6, AbsorbSeen
<1>8. num \in Young => status \in {"open", "duplicate"}
  BY DEF RaceInv, YoungAreFresh
<1> HIDE DEF rec, status, num
<1>9. /\ Grown /\ DOMAIN issues' = DOMAIN issues
      /\ \A m \in DOMAIN issues : m # num => issues'[m] = issues[m]
      /\ num \in Young => issues'[num].rec.seen = day /\ issues'[num].status \in {"open", "duplicate"}
  <2>1. CASE UNCHANGED issues
    BY <2>1, SameGrown DEF RaceInv, YoungAreFresh
  <2>2. CASE issues' = Patch(num, rec, status)
    BY <1>2, <1>7, <1>8, <2>2, PatchFacts
  <2> QED BY <1>5, <2>1, <2>2
<1>10. \A fp \in Fingerprints : Points(issues', l.idx[fp], fp)
  <2>1. \A fp \in Fingerprints : Points(issues, loc[d].idx[fp], fp)
    BY <1>1, RaceHere
  <2>2. \A fp \in Fingerprints : Points(issues, [loc[d].idx EXCEPT ![FpOf[d]] = num][fp], fp)
    BY <1>2, <2>1, RaceHere, PointsSet
  <2>3. \A fp \in Fingerprints : Points(issues, l.idx[fp], fp)
    BY <1>3, <2>1, <2>2, Zenon
  <2> QED BY <1>9, <2>3, LowestStays DEF Points
<1>11. RaceAt(d)' /\ IndexPoints'
  BY <1>1, <1>3, <1>4, <1>9, <1>10, RaceAtNew, IndexPointsStay
<1>12. YoungAreFresh'
  BY <1>1, <1>3, <1>9, YoungFreshStep
<1>13. RivalsAreHandled'
  <2>1. Lowest(num, Of(issues', issues'[num].fp))
    BY <1>2, <1>9, LowestStays, RaceFacts
  <2>2. \A n \in DOMAIN issues : ~Handles(d, n)
    BY <1>1 DEF Handles
  <2> QED BY <1>3, <1>9, <2>1, <2>2, RivalsStep
<1> QED BY <1>1, <1>3, <1>9, <1>11, <1>12, <1>13, RaceStep

LEMMA CreateKeepsRace ==
    ASSUME Faults = {}, IInv, IInv', IdxInv, RaceInv, NEW d \in Deliveries, Create(d)
    PROVE  RaceInv'
<1> DEFINE e == Opened(d)
           n == Len(issues) + 1
<1>1. Runs(d) /\ UNCHANGED <<index, day>> /\ pc[d] = "create"
  BY DeliveryFacts DEF Create, Runs, InFlight
<1>2. e \in Issue /\ e.fp = FpOf[d] /\ e.status = "open" /\ e.rec.seen = day
  BY DeliveryFacts, FirstRecordType DEF Opened, Issue, Statuses, FirstRecord
<1>3. ~(loc[d].late \/ MayFail("late") \/ MayFail("lost") \/ MayFail("write") \/ MayFail("twice"))
  BY RaceHere DEF MayFail
<1>4. PICK l \in LocType :
        /\ Moves(d, l, "heal") /\ l.idx = [loc[d].idx EXCEPT ![FpOf[d]] = n] /\ l.scan = loc[d].scan
        /\ l.own = n /\ l.late = loc[d].late /\ issues' = Append(issues, e)
  <2> HIDE DEF e
  <2>2. PICK l \in LocType, i \in 1 .. MaxIssues :
          /\ Moves(d, l, "heal") /\ l.idx = [loc[d].idx EXCEPT ![FpOf[d]] = i] /\ l.scan = loc[d].scan
          /\ l.own = i /\ l.late = loc[d].late /\ issues' = Append(issues, e) /\ i = Len(issues) + 1
    BY <1>3, CreateShape, Zenon DEF e
  <2> QED BY <2>2
<1> HIDE DEF e
<1>5. /\ Grown /\ DOMAIN issues \subseteq DOMAIN issues'
      /\ \A m \in DOMAIN issues : issues'[m] = issues[m]
      /\ \A m \in DOMAIN issues' : m \notin DOMAIN issues => issues'[m] = e /\ m > Len(issues)
      /\ Len(issues') = n
  BY <1>2, <1>4, AppendFacts
<1>6. \A m \in DOMAIN issues' : m \notin DOMAIN issues => m = n
  BY <1>5, RaceFacts
<1> HIDE DEF n
<1>7. \A m \in Of(issues', FpOf[d]) : known'[d] < m
  <2> TAKE m \in Of(issues', FpOf[d])
  <2>1. known'[d] = known[d] /\ known[d] \in Nat /\ known[d] <= Len(issues)
    BY <1>1, DeliveryFacts DEF Runs, At
  <2>2. m \in DOMAIN issues' /\ issues'[m].fp = FpOf[d]
    BY DEF Of
  <2>3. CASE m \in DOMAIN issues
    <3>1. issues[m].fp = FpOf[d]
      BY <1>5, <2>2, <2>3
    <3>2. m \notin 1 .. known[d]
      BY <1>1, <3>1, DeliveryFacts DEF At
    <3> QED BY <2>1, <2>3, <3>2, RaceFacts, <1>5
  <2>4. CASE m \notin DOMAIN issues
    <3>1. m > Len(issues) /\ m \in Nat /\ Len(issues) \in Nat
      BY <1>5, <2>2, <2>4, RaceFacts
    <3> QED BY <2>1, <3>1
  <2> QED BY <2>3, <2>4
<1>8. \A fp \in Fingerprints : fp # FpOf[d] => Points(issues', l.idx[fp], fp)
  <2>1. \A fp \in Fingerprints : Points(issues, loc[d].idx[fp], fp)
    BY <1>1, RaceHere
  <2>2. \A fp \in Fingerprints : fp # FpOf[d] => l.idx[fp] = loc[d].idx[fp]
    BY <1>4, RaceHere DEF IndexMap
  <2> QED BY <1>5, <2>1, <2>2, LowestStays DEF Points
<1>9. l.idx[FpOf[d]] = l.own
  BY <1>4, RaceHere DEF IndexMap
<1>10. RaceAt(d)' /\ IndexPoints'
  BY <1>1, <1>4, <1>5, <1>7, <1>8, <1>9, RaceHere, RaceAtNew, IndexPointsStay
<1>11. YoungAreFresh'
  BY <1>1, <1>2, <1>4, <1>5, YoungFreshStep
<1>12. RivalsAreHandled'
  <2>1. \A m \in DOMAIN issues : ~Handles(d, m)
    BY <1>1 DEF Handles
  <2>2. pc'[d] = "heal" /\ loc'[d].own = n
    BY <1>4, MovesFacts
  <2>3. \A m \in DOMAIN issues' : m \notin DOMAIN issues => FpOf[d] = issues'[m].fp /\ Handles(d, m)'
    BY <1>2, <1>5, <1>6, <2>2 DEF Handles
  <2> QED BY <1>4, <1>5, <2>1, <2>3, RivalsStep
<1> QED BY <1>1, <1>4, <1>5, <1>10, <1>11, <1>12, RaceStep

\* A self-heal works on a fingerprint that was unknown when its job started: all
\* of its issues are young, and the first of them is open.
LEMMA HealLowest ==
    ASSUME IInv, RaceInv, NEW d \in Deliveries, pc[d] = "heal"
    PROVE  \E n \in Rivals(d) : Lowest(n, Of(issues, FpOf[d])) /\ n \in Young /\ n \in DOMAIN issues
<1> DEFINE mine == Of(issues, FpOf[d])
<1>1. loc[d].own \in mine /\ \A n \in mine : known[d] < n
  BY DeliveryFacts, RaceHere DEF At, RaceAt
<1>2. d \in InFlight
  BY DeliveryFacts DEF InFlight
<1>3. \A n \in mine : n \in Young /\ n \in DOMAIN issues
  BY <1>1, <1>2 DEF Young, Of
<1>4. mine \subseteq Nat
  BY DeliveryFacts DEF Of
<1>5. PICK n \in mine : Lowest(n, mine)
  BY <1>1, <1>4, LowestExists
<1>6. issues[n].status # "duplicate"
  <2> SUFFICES ASSUME issues[n].status = "duplicate" PROVE FALSE
    OBVIOUS
  <2>1. n \in DOMAIN issues /\ issues[n].fp = FpOf[d] /\ n \in Nat
    BY <1>4 DEF Of
  <2>2. PICK m \in 1 .. (n - 1) : issues[m].fp = issues[n].fp
    BY <2>1, DeliveryFacts DEF DuplicateHasOriginal
  <2>3. m \in DOMAIN issues /\ m < n /\ m \in Nat
    BY <2>1, <2>2, DeliveryFacts
  <2>4. m \in mine
    BY <2>1, <2>2, <2>3 DEF Of
  <2> QED BY <1>5, <2>1, <2>3, <2>4 DEF Lowest
<1>7. issues[n].status = "open"
  BY <1>3, <1>6 DEF RaceInv, YoungAreFresh
<1>8. n \in Rivals(d)
  BY <1>7 DEF Rivals, OpenOf
<1> QED BY <1>3, <1>5, <1>8

LEMMA HealKeepsRace ==
    ASSUME Faults = {}, IInv, IInv', IdxInv, RaceInv, NEW d \in Deliveries, Heal(d)
    PROVE  RaceInv'
<1> DEFINE mine == Of(issues, FpOf[d])
<1>1. Runs(d) /\ UNCHANGED <<issues, index, day>> /\ pc[d] = "heal" /\ Grown
  BY SameGrown, DeliveryFacts DEF Heal, Runs, InFlight
<1>2. PICK low \in Rivals(d) : Lowest(low, mine) /\ low \in Young /\ low \in DOMAIN issues
  BY <1>1, HealLowest
<1>3. /\ loc[d].own \in mine /\ \A n \in mine : known[d] < n /\ n \in DOMAIN issues /\ n \in Nat
      /\ loc[d].idx[FpOf[d]] = loc[d].own
  <2>1. loc[d].own \in mine /\ loc[d].idx[FpOf[d]] = loc[d].own
    BY <1>1, DeliveryFacts, RaceHere DEF At, RaceAt
  <2>2. \A n \in mine : known[d] < n
    BY <1>1, RaceHere DEF RaceAt
  <2>3. \A n \in mine : n \in DOMAIN issues /\ n \in Nat
    BY DeliveryFacts DEF Of
  <2> QED BY <2>1, <2>2, <2>3
<1>4. \A fp \in Fingerprints : fp # FpOf[d] => Points(issues, loc[d].idx[fp], fp)
  BY RaceHere DEF RaceAt
<1>5. Rivals(d) \subseteq mine /\ \A n \in mine : issues[n].fp = FpOf[d]
  BY <1>3 DEF Rivals, OpenOf, Of
<1>6. \A n \in DOMAIN issues : Handles(d, n) => n = loc[d].own /\ issues[n].fp = FpOf[d]
  BY <1>1, <1>3, <1>5 DEF Handles
<1>7. PICK l \in LocType :
             /\ l.late = loc[d].late
             /\ \/ /\ Moves(d, l, "sweep") /\ l.idx = loc[d].idx /\ l.scan \in {issues, <<>>}
                   /\ Rivals(d) = {loc[d].own}
                \/ \E n \in Rivals(d) :
                     /\ Lowest(n, Rivals(d)) /\ Moves(d, l, "close")
                     /\ l.idx = [loc[d].idx EXCEPT ![FpOf[d]] = n] /\ l.scan = issues
                     /\ l.num = n /\ l.snap = issues[n].rec
                     /\ l.todo = Rivals(d) \ {n}
  BY ZenonT(60), HealShape DEF MayFail
<1> HIDE DEF mine
<1>8. CASE /\ Moves(d, l, "sweep") /\ l.idx = loc[d].idx /\ l.scan \in {issues, <<>>}
           /\ Rivals(d) = {loc[d].own}
  <2>1. Lowest(loc[d].own, mine)
    BY <1>2, <1>8
  <2>2. \A fp \in Fingerprints : Points(issues, l.idx[fp], fp)
    BY <1>3, <1>4, <1>8, <2>1 DEF Points, mine
  <2>3. RaceAt(d)'
    BY <1>1, <1>7, <1>8, <2>2, RaceHere, RaceAtNew
  <2> QED BY <1>1, <1>6, <1>8, <2>1, <2>3, RaceQuiet DEF mine
<1>9. CASE \E n \in Rivals(d) :
                     /\ Lowest(n, Rivals(d)) /\ Moves(d, l, "close")
                     /\ l.idx = [loc[d].idx EXCEPT ![FpOf[d]] = n] /\ l.scan = issues
                     /\ l.num = n /\ l.snap = issues[n].rec
                     /\ l.todo = Rivals(d) \ {n}
  <2>1. PICK n \in Rivals(d) :
                     /\ Lowest(n, Rivals(d)) /\ Moves(d, l, "close")
                     /\ l.idx = [loc[d].idx EXCEPT ![FpOf[d]] = n] /\ l.scan = issues
                     /\ l.num = n /\ l.snap = issues[n].rec
                     /\ l.todo = Rivals(d) \ {n}
    BY <1>9
  <2>2. n = low
    BY <1>2, <1>3, <1>5, <2>1 DEF Lowest
  <2>3. Lowest(n, Of(issues, FpOf[d])) /\ l.snap.seen = day
    BY <1>2, <2>1, <2>2 DEF mine, RaceInv, YoungAreFresh
  <2>4. \A fp \in Fingerprints : Points(issues, l.idx[fp], fp)
    BY <1>4, <2>1, <2>3, RaceHere DEF Points, IndexMap
  <2>5. \A m \in Of(issues', FpOf[d]) : known'[d] < m
    BY <1>1, <1>3 DEF mine, Runs
  <2>6. RaceAt(d)'
    BY <1>1, <1>7, <2>1, <2>3, <2>4, <2>5, RaceHere, RaceAtNew
  <2>7. pc'[d] = "close" /\ loc'[d].todo = Rivals(d) \ {n}
    BY <2>1, MovesFacts
  <2>8. loc[d].own \in Rivals(d)
    BY DEF Rivals
  <2>9. \A m \in DOMAIN issues : Handles(d, m) =>
              \/ Lowest(m, Of(issues, issues[m].fp))
              \/ FpOf[d] = issues[m].fp /\ Handles(d, m)'
    BY <1>6, <2>3, <2>7, <2>8 DEF Handles
  <2> QED BY <1>1, <2>1, <2>6, <2>9, RaceQuiet
<1> QED BY <1>7, <1>8, <1>9

LEMMA CloseDuplicateKeepsRace ==
    ASSUME Faults = {}, IInv, IInv', IdxInv, RaceInv, NEW d \in Deliveries, CloseDuplicate(d)
    PROVE  RaceInv'
<1> DEFINE mine == Of(issues, FpOf[d])
<1>1. Runs(d) /\ UNCHANGED <<index, day>> /\ pc[d] = "close"
  BY DeliveryFacts DEF CloseDuplicate, Runs, InFlight
<1>2. /\ Lowest(loc[d].num, mine) /\ (loc[d].num \in Young => loc[d].snap.seen = day)
      /\ \A n \in mine : known[d] < n
      /\ \A n \in loc[d].todo : n \in mine
      /\ \A n \in mine : n \in DOMAIN issues /\ issues[n].fp = FpOf[d]
  BY <1>1, DeliveryFacts, RaceHere DEF At, RaceAt, Of
<1> HIDE DEF mine
<1>3. PICK l \in LocType, S \in SUBSET loc[d].todo :
             /\ SameSeen(l, loc[d]) /\ ~l.late
             /\ \E n \in loc[d].todo :
                     S = loc[d].todo \ {n} /\ issues' = Patch(n, issues[n].rec, "duplicate")
             /\ \/ Moves(d, l, "close") /\ l.todo = S /\ SameHold(l, loc[d])
                \/ Moves(d, l, "update") /\ SameHold(l, loc[d])
                \/ Moves(d, l, "sweep")
             /\ pc'[d] # "close" => S = {}
  <2>1. ~loc[d].late /\ ~MayFail("late") /\ ~MayFail("write")
    BY RaceHere DEF MayFail
  <2> QED BY <2>1, CloseDuplicateShape
<1>4. PICK n \in loc[d].todo : S = loc[d].todo \ {n} /\ issues' = Patch(n, issues[n].rec, "duplicate")
  BY <1>3
<1>5. PICK at \in {"close", "update", "sweep"} :
        /\ Moves(d, l, at)
        /\ at # "sweep" => SameHold(l, loc[d])
        /\ at = "close" => l.todo = S
  BY <1>3
<1>6. /\ Grown /\ DOMAIN issues' = DOMAIN issues
      /\ \A m \in DOMAIN issues : m # n => issues'[m] = issues[m]
      /\ issues'[n].rec = issues[n].rec /\ issues'[n].status = "duplicate"
  BY <1>2, <1>4, PatchFacts
<1>7. l.idx = loc[d].idx /\ l.scan = loc[d].scan /\ (at # "sweep" => l.num = loc[d].num /\ l.snap = loc[d].snap)
  BY <1>3, <1>5 DEF SameSeen, SameHold
<1>8. \A fp \in Fingerprints : Points(issues', l.idx[fp], fp)
  BY <1>1, <1>6, <1>7, RaceHere, LowestStays DEF Points
<1>9. Lowest(loc[d].num, Of(issues', FpOf[d])) /\ (loc[d].num \in Young' => loc[d].snap.seen = day)
  <2>1. Lowest(loc[d].num, Of(issues', FpOf[d])) /\ loc[d].num \in DOMAIN issues
    BY <1>2, <1>6, LowestStays DEF mine
  <2>2. loc[d].num \in Young' => loc[d].num \in Young
    BY <1>1, <1>5, <1>6, <2>1, YoungStay
  <2> QED BY <1>2, <2>1, <2>2
<1>10. \A m \in Of(issues', FpOf[d]) : known'[d] < m
  <2>1. Of(issues', FpOf[d]) = mine
    BY <1>6 DEF Of, mine, Grown
  <2> QED BY <1>1, <1>2, <2>1 DEF Runs
<1>11. RaceAt(d)' /\ IndexPoints'
  BY <1>1, <1>3, <1>5, <1>6, <1>7, <1>8, <1>9, <1>10, RaceAtNew, IndexPointsStay
<1>12. YoungAreFresh'
  <2>1. n \in Young => issues'[n].rec.seen = day
    BY <1>6 DEF RaceInv, YoungAreFresh
  <2> QED BY <1>1, <1>5, <1>6, <2>1, YoungFreshStep
<1>13. RivalsAreHandled'
  <2>1. \A m \in DOMAIN issues' : issues'[m].status = "open" => m # n /\ issues'[m] = issues[m]
    BY <1>6
  <2>2. ASSUME NEW m \in loc[d].todo, m # n
        PROVE  FpOf[d] = issues'[m].fp /\ Handles(d, m)'
    <3>1. m \in S
      BY <1>4, <2>2
    <3>2. pc'[d] = "close" /\ loc'[d].todo = S
      BY <1>3, <1>5, <3>1, MovesFacts
    <3> QED BY <1>2, <1>6, <2>2, <3>1, <3>2 DEF Handles
  <2>3. \A m \in DOMAIN issues : Handles(d, m) => m \in loc[d].todo
    BY <1>1 DEF Handles
  <2> QED BY <1>5, <1>6, <2>1, <2>2, <2>3, RivalsStep
<1> QED BY <1>1, <1>5, <1>6, <1>11, <1>12, <1>13, RaceStep

LEMMA SweepKeepsRace ==
    ASSUME IInv, IInv', IdxInv, RaceInv, NEW d \in Deliveries, Sweep(d)
    PROVE  RaceInv'
<1>1. Runs(d) /\ UNCHANGED <<issues, index, day>> /\ pc[d] = "sweep" /\ Grown
  BY SameGrown, DeliveryFacts DEF Sweep, Runs, InFlight
<1>2. PICK l \in LocType, at \in {"closing", "flush"} :
             /\ Moves(d, l, at) /\ l.late = loc[d].late
             /\ l.idx = loc[d].idx /\ l.scan \in {loc[d].scan, issues, <<>>}
             /\ \A n \in l.todo : l.scan[n].rec.seen < day
  BY SweepShape
<1>3. RaceAt(d)'
  BY <1>1, <1>2, RaceHere, RaceAtNew
<1> QED BY <1>1, <1>2, <1>3, RaceQuiet DEF Handles

LEMMA CloseStaleKeepsRace ==
    ASSUME Faults = {}, IInv, IInv', IdxInv, RaceInv, NEW d \in Deliveries, CloseStale(d)
    PROVE  RaceInv'
<1>1. Runs(d) /\ UNCHANGED <<index, day>> /\ pc[d] = "closing" /\ d \in InFlight
  BY DeliveryFacts DEF CloseStale, Runs, InFlight
<1>2. PICK l \in LocType, n \in loc[d].todo, at \in {"closing", "flush"} :
             /\ Moves(d, l, at) /\ SameSeen(l, loc[d])
             /\ l.todo \subseteq loc[d].todo
             /\ l.late => loc[d].late \/ MayFail("late")
             /\ issues' = Patch(n, issues[n].rec, "stale") \/ UNCHANGED issues
  BY CloseStaleShape
<1>3. ~l.late
  BY <1>2, RaceHere DEF MayFail
<1>4. /\ \A m \in loc[d].todo : m \in DOMAIN loc[d].scan /\ loc[d].scan[m].rec.seen < day
      /\ \A m \in DOMAIN loc[d].scan : m \in Young => loc[d].scan[m].rec.seen = day
      /\ \A m \in DOMAIN loc[d].scan : m \in DOMAIN issues
  BY <1>1, DeliveryFacts, RaceHere DEF At, RaceAt, IdxInv, Agrees
<1>5. n \in DOMAIN issues /\ n \notin Young
  <2>1. day \in Int
    BY DeliveryFacts DEF Days
  <2> QED BY <1>4, <2>1
<1>6. /\ Grown /\ DOMAIN issues' = DOMAIN issues
      /\ \A m \in DOMAIN issues : m # n => issues'[m] = issues[m]
      /\ UNCHANGED issues \/ issues'[n].status = "stale"
  BY <1>2, <1>5, PatchFacts, SameGrown
<1>7. l.idx = loc[d].idx /\ l.scan = loc[d].scan
  BY <1>2 DEF SameSeen
<1>8. \A fp \in Fingerprints : Points(issues', l.idx[fp], fp)
  BY <1>1, <1>6, <1>7, RaceHere, LowestStays DEF Points
<1>9. \A m \in l.todo : l.scan[m].rec.seen < day
  BY <1>2, <1>4, <1>7
<1>10. RaceAt(d)' /\ IndexPoints'
  BY <1>1, <1>2, <1>3, <1>6, <1>7, <1>8, <1>9, RaceAtNew, IndexPointsStay
<1>11. YoungAreFresh'
  BY <1>1, <1>2, <1>5, <1>6, YoungFreshStep
<1>12. RivalsAreHandled'
  <2>1. \A m \in DOMAIN issues' : issues'[m].status = "open" => m \in DOMAIN issues /\ issues'[m] = issues[m]
    BY <1>6
  <2>2. \A m \in DOMAIN issues : ~Handles(d, m)
    BY <1>1 DEF Handles
  <2> QED BY <1>2, <1>6, <2>1, <2>2, RivalsStep
<1> QED BY <1>1, <1>2, <1>6, <1>10, <1>11, <1>12, RaceStep

\* A repair from the listing finds the first issue of a fingerprint: what was
\* opened since comes after.
LEMMA RepairedPoints ==
    ASSUME IInv, IdxInv, NEW d \in Deliveries, NEW map, Repaired(loc[d], map),
           \A fp \in Fingerprints : Points(issues, loc[d].idx[fp], fp)
    PROVE  \A fp \in Fingerprints : Points(issues, map[fp], fp)
<1> SUFFICES ASSUME NEW fp \in Fingerprints, map[fp] # 0 PROVE Lowest(map[fp], Of(issues, fp))
  BY DEF Points
<1> DEFINE scan == loc[d].scan
           low  == map[fp]
<1>1. CASE low = loc[d].idx[fp]
  BY <1>1 DEF Points
<1>2. CASE Lowest(low, Of(scan, fp))
  <2>1. /\ scan \in Seq(Issue) /\ issues \in Seq(Issue)
        /\ \A n \in DOMAIN scan : n \in DOMAIN issues /\ scan[n].fp = issues[n].fp
    BY DeliveryFacts DEF LocType, IdxInv, Agrees
  <2>2. DOMAIN scan = 1 .. Len(scan) /\ Len(scan) \in Nat
        /\ DOMAIN issues = 1 .. Len(issues) /\ Len(issues) \in Nat
    BY <2>1
  <2> HIDE DEF scan, low
  <2>3. low \in DOMAIN scan /\ scan[low].fp = fp
    BY <1>2 DEF Lowest, Of
  <2>4. low \in Of(issues, fp)
    BY <2>1, <2>3 DEF Of
  <2>5. ASSUME NEW m \in Of(issues, fp)
        PROVE  low <= m
    <3>1. m \in DOMAIN issues /\ issues[m].fp = fp
      BY DEF Of
    <3>2. CASE m \in DOMAIN scan
      <4>1. m \in Of(scan, fp)
        BY <2>1, <3>1, <3>2 DEF Of
      <4> QED BY <1>2, <4>1 DEF Lowest
    <3>3. CASE m \notin DOMAIN scan
      BY <2>2, <2>3, <3>1, <3>3
    <3> QED BY <3>2, <3>3
  <2> QED BY <2>4, <2>5 DEF Lowest, low
<1> QED BY <1>1, <1>2 DEF Repaired

LEMMA FlushKeepsRace ==
    ASSUME IInv, IInv', IdxInv, RaceInv, NEW d \in Deliveries, Flush(d)
    PROVE  RaceInv'
<1>1. /\ Runs(d) /\ UNCHANGED <<issues, day>> /\ pc[d] = "flush" /\ Grown /\ End(d)
  BY SameGrown, DeliveryFacts DEF Flush, Runs, InFlight
<1>2. PICK l \in LocType : Moves(d, l, "done") /\ l.idx = NoIndex /\ l.scan = <<>> /\ l.late = FALSE
  BY <1>1, EndShape
<1>3. \A fp \in Fingerprints : Points(issues', l.idx[fp], fp)
  BY <1>2 DEF Points, NoIndex
<1>4. RaceAt(d)'
  BY <1>1, <1>2, <1>3, RaceAtNew
<1>5. IndexPoints'
  <2>1. CASE UNCHANGED index
    BY <1>1, <2>1, IndexPointsStay
  <2>2. CASE ~ UNCHANGED index
    <3>1. PICK map : Repaired(loc[d], map) /\ index' = [state |-> "ok", map |-> map]
      BY <2>2 DEF Flush
    <3>2. \A fp \in Fingerprints : Points(issues, map[fp], fp)
      BY <1>1, <3>1, RaceHere, RepairedPoints
    <3> QED BY <1>1, <3>1, <3>2 DEF IndexPoints
  <2> QED BY <2>1, <2>2
<1>6. YoungAreFresh'
  BY <1>1, <1>2, YoungFreshStep
<1>7. RivalsAreHandled'
  BY <1>1, <1>2, RivalsStep DEF Handles
<1> QED BY <1>1, <1>2, <1>4, <1>5, <1>6, <1>7, RaceStep

\* While no job runs no issue is young, and the day may pass.
LEMMA TickKeepsRace == ASSUME IInv, RaceInv, Tick PROVE RaceInv'
<1>1. UNCHANGED <<issues, index, pc, loc, known>> /\ InFlight = {} /\ InFlight' = {}
  BY DEF Tick, InFlight
<1>2. ASSUME NEW d \in Deliveries
      PROVE  pc[d] \in {"idle", "done"}
  BY <1>1, DeliveryFacts DEF InFlight
<1>3. ASSUME NEW d \in Deliveries
      PROVE  RaceAt(d)'
  <2>1. RaceAt(d)
    BY RaceHere
  <2> QED BY <1>1, <1>2, <2>1 DEF RaceAt
<1>4. YoungAreFresh'
  BY <1>1 DEF YoungAreFresh, Young
<1>5. IndexPoints' /\ RivalsAreHandled'
  BY <1>1 DEF RaceInv, IndexPoints, RivalsAreHandled, Handles
<1> QED BY <1>3, <1>4, <1>5 DEF RaceInv

LEMMA NextKeepsRace ==
    ASSUME Faults = {}, Feedbacks = {}, IInv, IInv', IdxInv, RaceInv, [Next]_vars
    PROVE  RaceInv'
<1>1. ASSUME NEW d \in Deliveries, LoadIndex(d) \/ Step(d)
      PROVE  RaceInv'
  <2>1. ~Rescan(d)
    BY RaceHere DEF Rescan, RaceAt
  <2> QED BY <1>1, <2>1, LoadIndexKeepsRace, GetIssueKeepsRace, ScanKeepsRace, UpdateKeepsRace,
             CreateKeepsRace, HealKeepsRace, CloseDuplicateKeepsRace, SweepKeepsRace,
             CloseStaleKeepsRace, FlushKeepsRace DEF Step
<1>2. CASE UNCHANGED vars
  <2>1. RaceInv' <=> RaceInv
    BY <1>2 DEF vars, RaceInv, RaceAt, IndexPoints, YoungAreFresh, RivalsAreHandled, Young,
                Handles, InFlight
  <2> QED BY <2>1
<1>3. CASE \E d \in Deliveries : Crash(d)
  BY <1>3 DEF Crash, MayFail
<1>4. CASE \/ \E n \in DOMAIN issues : HumanTogglesIssue(n) \/ HumanGarblesIssue(n)
           \/ HumanEditsIndex
  BY <1>4 DEF HumanTogglesIssue, HumanGarblesIssue, HumanEditsIndex, HumanEdit, MayFail
<1> QED BY <1>1, <1>2, <1>3, <1>4, TickKeepsRace DEF Next

LEMMA InitRace == Init => RaceInv
<1> SUFFICES ASSUME Init PROVE RaceInv
  OBVIOUS
<1>1. /\ issues = <<>> /\ index.map = NoIndex
      /\ \A d \in Deliveries : loc[d] = Blank /\ pc[d] = "idle"
  BY DEF Init, Procs
<1>2. Blank.late = FALSE /\ Blank.idx = NoIndex /\ Blank.scan = <<>>
  BY DEF Blank
<1>3. \A d \in Deliveries : RaceAt(d)
  BY <1>1, <1>2 DEF RaceAt, Points, NoIndex
<1>4. IndexPoints /\ YoungAreFresh /\ RivalsAreHandled
  BY <1>1 DEF IndexPoints, YoungAreFresh, RivalsAreHandled, Young, Points, NoIndex
<1> QED BY <1>3, <1>4 DEF RaceInv

\* When nothing fails and nobody resolves by hand, any number of overlapping
\* deliveries leave each fingerprint with at most one open issue, its first:
\* whoever created a second one has closed it by the time all have ended, whatever
\* the sweeps of the others closed meanwhile (_create, _self_heal, sweep_stale).
THEOREM OneIssueOpenAtRest ==
    ASSUME Faults = {}, Feedbacks = {}
    PROVE  Spec => []OneOpenAtRest
<1>1. IInv /\ IInv' /\ IdxInv /\ [Next]_vars => IdxInv'
  BY NextKeepsIndex
<1>2. IInv /\ IInv' /\ IdxInv /\ RaceInv /\ [Next]_vars => RaceInv'
  BY NextKeepsRace
<1>3. IInv /\ RaceInv => OneOpenAtRest
  <2> SUFFICES ASSUME IInv, RaceInv, InFlight = {}, NEW fp \in Fingerprints, NEW n \in OpenOf(issues, fp)
               PROVE  Lowest(n, Of(issues, fp))
    BY DEF OneOpenAtRest
  <2>1. n \in DOMAIN issues /\ issues[n].fp = fp /\ issues[n].status = "open"
    BY DEF OpenOf, Of
  <2>2. \A d \in Deliveries : ~Handles(d, n)
    BY DeliveryFacts DEF Handles, InFlight
  <2> QED BY <2>1, <2>2 DEF RaceInv, RivalsAreHandled
<1> QED BY <1>1, <1>2, <1>3, InitIndex, InitRace, Invariant, PTL DEF Spec

-----------------------------------------------------------------------------
(* The sweeps of jobs that overlap *)

\* What a listing shows open and old is the first issue of its fingerprint: the
\* others that are open are young.
OldIsFirst(list, scan) ==
    \A n \in DOMAIN scan :
        scan[n].status = "open" /\ scan[n].rec.seen < day => Lowest(n, Of(list, scan[n].fp))

\* A delivery that sweeps reports the first issue of its fingerprint, or knows
\* that all of them are young.
SparedAt(d) ==
    LET l    == loc[d]
        mine == Of(issues, FpOf[d]) IN
    /\ d \in InFlight => OldIsFirst(issues, l.scan)
    /\ pc[d] \in {"sweep", "closing"} => (\A n \in mine : known[d] < n) \/ Lowest(l.ref, mine)
    /\ pc[d] = "closing" => \A n \in l.todo : l.scan[n].status = "open" /\ n # l.ref

SparedInv == \A d \in Deliveries : SparedAt(d)

LEMMA OldOpenIsFirst == ASSUME IInv, RaceInv PROVE OldIsFirst(issues, issues)
<1> SUFFICES ASSUME NEW n \in DOMAIN issues, issues[n].status = "open", issues[n].rec.seen < day
             PROVE  Lowest(n, Of(issues, issues[n].fp))
  BY DEF OldIsFirst
<1>1. n \notin Young
  <2>1. day \in Int
    BY DEF IInv, TypeOK, Days
  <2> QED BY <2>1 DEF RaceInv, YoungAreFresh
<1>2. ASSUME NEW d \in Deliveries, FpOf[d] = issues[n].fp, Handles(d, n)
      PROVE  FALSE
  <2>1. pc[d] \in {"heal", "close"} /\ d \in InFlight
    BY <1>2, DeliveryFacts DEF Handles, InFlight
  <2>2. n \in Of(issues, FpOf[d])
    BY <1>2 DEF Of
  <2>3. known[d] < n
    BY <2>1, <2>2, RaceHere DEF RaceAt
  <2> QED BY <1>1, <2>1, <2>3 DEF Young
<1> QED BY <1>2 DEF RaceInv, RivalsAreHandled

LEMMA OldIsFirstStays ==
    ASSUME IInv, IInv', Grown, UNCHANGED day, NEW scan, OldIsFirst(issues, scan)
    PROVE  OldIsFirst(issues', scan)
BY LowestStays DEF OldIsFirst

\* The issues of a fingerprint that had none stay young.
LEMMA NewOnesStay ==
    ASSUME IInv, IInv', Grown, NEW d \in Deliveries,
           \A n \in Of(issues, FpOf[d]) : known[d] < n
    PROVE  \A n \in Of(issues', FpOf[d]) : known[d] < n
<1>1. known[d] \in Nat /\ known[d] <= Len(issues)
  BY DeliveryFacts DEF At
<1> SUFFICES ASSUME NEW n \in Of(issues', FpOf[d]) PROVE known[d] < n
  OBVIOUS
<1>2. CASE n \in DOMAIN issues
  <2>1. n \in Of(issues, FpOf[d])
    BY <1>2, RaceFacts DEF Of
  <2> QED BY <2>1
<1>3. CASE n \notin DOMAIN issues
  <2>1. n \in DOMAIN issues'
    BY DEF Of
  <2> QED BY <1>1, <1>3, <2>1, RaceFacts
<1> QED BY <1>2, <1>3

LEMMA SparedStays ==
    ASSUME IInv, IInv', Grown, UNCHANGED day, NEW e \in Deliveries, SparedAt(e),
           loc'[e] = loc[e], pc'[e] = pc[e], known'[e] = known[e]
    PROVE  SparedAt(e)'
<1>1. e \in InFlight' <=> e \in InFlight
  BY DEF InFlight
<1>2. e \in InFlight => OldIsFirst(issues', loc[e].scan)
  BY OldIsFirstStays DEF SparedAt
<1>3. OldIsFirst(issues', loc[e].scan) => OldIsFirst(issues, loc[e].scan)'
  BY DEF OldIsFirst
<1>4. pc[e] \in {"sweep", "closing"} =>
        (\A n \in Of(issues', FpOf[e]) : known[e] < n) \/ Lowest(loc[e].ref, Of(issues', FpOf[e]))
  BY NewOnesStay, LowestStays DEF SparedAt
<1>5. pc[e] = "closing" => \A n \in loc[e].todo : loc[e].scan[n].status = "open" /\ n # loc[e].ref
  BY DEF SparedAt
<1> QED BY <1>1, <1>2, <1>3, <1>4, <1>5 DEF SparedAt

\* What is new after a step of one delivery.
LEMMA SparedStep ==
    ASSUME IInv, IInv', Grown, RaceInv, SparedInv, UNCHANGED day,
           NEW d \in Deliveries, NEW l, NEW at, Moves(d, l, at), Starts(d) \/ Runs(d),
           l.scan = <<>> \/ l.scan = issues \/ (Runs(d) /\ l.scan = loc[d].scan),
           at \in {"sweep", "closing"} =>
              \/ \A n \in Of(issues', FpOf[d]) : known'[d] < n
              \/ Lowest(l.ref, Of(issues', FpOf[d])),
           at = "closing" => \A n \in l.todo : l.scan[n].status = "open" /\ n # l.ref
    PROVE  SparedInv'
<1>1. /\ loc'[d] = l /\ pc'[d] = at
      /\ \A e \in Deliveries : e # d => loc'[e] = loc[e] /\ pc'[e] = pc[e] /\ known'[e] = known[e]
  BY MovesFacts, DeliveryFacts DEF Starts, Runs
<1>2. OldIsFirst(issues', l.scan)
  <2>1. CASE l.scan = <<>>
    BY <2>1 DEF OldIsFirst
  <2>2. CASE l.scan = issues
    BY <2>2, OldOpenIsFirst, OldIsFirstStays
  <2>3. CASE Runs(d) /\ l.scan = loc[d].scan
    BY <2>3, OldIsFirstStays DEF SparedInv, SparedAt, Runs
  <2> QED BY <2>1, <2>2, <2>3
<1>3. OldIsFirst(issues', l.scan) => OldIsFirst(issues, loc[d].scan)'
  BY <1>1 DEF OldIsFirst
<1>4. SparedAt(d)'
  BY <1>1, <1>2, <1>3 DEF SparedAt
<1>5. ASSUME NEW e \in Deliveries, e # d
      PROVE  SparedAt(e)'
  <2>1. SparedAt(e)
    BY DEF SparedInv
  <2> QED BY <1>1, <1>5, <2>1, SparedStays
<1> QED BY <1>4, <1>5 DEF SparedInv

LEMMA LookUpSpares ==
    ASSUME Faults = {}, IInv, IInv', IdxInv, RaceInv, SparedInv,
           NEW d \in Deliveries, LoadIndex(d) \/ GetIssue(d) \/ Scan(d)
    PROVE  SparedInv'
<1>1. Starts(d) \/ Runs(d)
  BY DeliveryFacts DEF LoadIndex, GetIssue, Scan, Starts, Runs, InFlight
<1>2. UNCHANGED <<issues, day>> /\ Grown
  BY SameGrown DEF LoadIndex, GetIssue, Scan
<1>3. CASE LoadIndex(d)
  <2>1. PICK l \in LocType, at \in {"get", "scan"} : Moves(d, l, at) /\ l.scan = <<>>
    BY <1>3, LoadIndexShape
  <2> QED BY <1>1, <1>2, <2>1, SparedStep
<1>4. CASE GetIssue(d)
  <2>1. Runs(d)
    BY <1>4, DeliveryFacts DEF GetIssue, Runs, InFlight
  <2>2. PICK l \in LocType, at \in {"scan", "update"} : Moves(d, l, at) /\ l.scan = loc[d].scan
    BY <1>4, GetIssueShape, DeliveryFacts DEF SameSeen
  <2> QED BY <1>2, <2>1, <2>2, SparedStep
<1>5. CASE Scan(d)
  <2>1. Runs(d)
    BY <1>5, DeliveryFacts DEF Scan, Runs, InFlight
  <2>2. PICK l \in LocType, at \in {"update", "create", "sweep"} :
          Moves(d, l, at) /\ l.scan \in {issues, <<>>}
    BY <1>5, ScanShape
  <2>3. pc'[d] = "sweep" => Of(issues, FpOf[d]) = {}
    <3>1. pc \in [Procs -> Places] /\ d \in Procs
      BY DeliveryFacts
    <3> QED BY <1>5, <3>1 DEF Scan, NotFound, Return, Goto, MayFail
  <2>4. at = "sweep" => Of(issues', FpOf[d]) = {}
    BY <1>2, <2>2, <2>3, MovesFacts
  <2> QED BY <1>2, <2>1, <2>2, <2>4, SparedStep
<1> QED BY <1>3, <1>4, <1>5

LEMMA UpdateSpares ==
    ASSUME Faults = {}, IInv, IInv', IdxInv, RaceInv, SparedInv, Grown,
           NEW d \in Deliveries, Update(d)
    PROVE  SparedInv'
<1>1. Runs(d) /\ UNCHANGED day /\ pc[d] = "update"
  BY DeliveryFacts DEF Update, Runs, InFlight
<1>2. PICK l \in LocType, res \in Results :
             /\ Moves(d, l, "sweep") /\ l.scan = loc[d].scan
             /\ Reports(l, loc[d].own, loc[d].num, res)
             /\ res \in {"failed", "skipped"} =>
                   loc[d].late \/ MayFail("late") \/ MayFail("write") \/ MayFail("lost")
  BY UpdateShape
<1>3. l.ref = loc[d].num
  BY <1>2, RaceHere DEF Reports, MayFail
<1>4. Lowest(l.ref, Of(issues, FpOf[d]))
  BY <1>1, <1>3, RaceHere DEF RaceAt
<1>5. Lowest(l.ref, Of(issues', FpOf[d]))
  BY <1>4, LowestStays
<1> QED BY <1>1, <1>2, <1>5, SparedStep

LEMMA CreateSpares ==
    ASSUME Faults = {}, IInv, IInv', IdxInv, RaceInv, SparedInv, Grown,
           NEW d \in Deliveries, Create(d) \/ Heal(d) \/ CloseDuplicate(d)
    PROVE  SparedInv'
<1>1. Runs(d) /\ UNCHANGED day
  BY DeliveryFacts DEF Create, Heal, CloseDuplicate, Runs, InFlight
<1>2. CASE Create(d)
  <2>1. PICK l \in LocType : Moves(d, l, "heal") /\ l.scan = loc[d].scan
    BY <1>2, CreateShape, RaceHere DEF MayFail
  <2> QED BY <1>1, <2>1, SparedStep
<1>3. CASE Heal(d) \/ CloseDuplicate(d)
  <2>1. \A n \in Of(issues', FpOf[d]) : known'[d] < n
    <3>1. pc[d] \in {"heal", "close"}
      BY <1>3 DEF Heal, CloseDuplicate
    <3>2. \A n \in Of(issues, FpOf[d]) : known[d] < n
      BY <3>1, RaceHere DEF RaceAt
    <3> QED BY <1>1, <3>2, NewOnesStay DEF Runs
  <2>2. PICK l \in LocType, at \in {"close", "update", "sweep"} :
          Moves(d, l, at) /\ l.scan \in {issues, <<>>, loc[d].scan}
    <3>1. CASE Heal(d)
      BY <3>1, HealShape
    <3>2. CASE CloseDuplicate(d)
      BY <3>2, CloseDuplicateShape DEF SameSeen
    <3> QED BY <1>3, <3>1, <3>2
  <2> QED BY <1>1, <2>1, <2>2, SparedStep
<1> QED BY <1>2, <1>3

LEMMA HousekeepingSpares ==
    ASSUME IInv, IInv', IdxInv, RaceInv, SparedInv, Grown,
           NEW d \in Deliveries, Sweep(d) \/ CloseStale(d) \/ Flush(d)
    PROVE  SparedInv'
<1>1. Runs(d) /\ UNCHANGED day
  BY DeliveryFacts DEF Sweep, CloseStale, Flush, Runs, InFlight
<1>2. SparedAt(d)
  BY DEF SparedInv
<1>3. pc[d] \in {"sweep", "closing"} =>
        \/ \A n \in Of(issues', FpOf[d]) : known'[d] < n
        \/ Lowest(loc[d].ref, Of(issues', FpOf[d]))
  BY <1>1, <1>2, NewOnesStay, LowestStays DEF SparedAt, Runs
<1>4. CASE Sweep(d)
  <2>1. PICK l \in LocType, at \in {"closing", "flush"} :
             /\ Moves(d, l, at) /\ l.scan \in {loc[d].scan, issues, <<>>} /\ l.ref = loc[d].ref
             /\ \A n \in l.todo : l.scan[n].status = "open" /\ n # l.ref
    BY <1>4, SweepShape DEF SameReport
  <2>2. pc[d] = "sweep"
    BY <1>4 DEF Sweep
  <2> QED BY <1>1, <1>3, <2>1, <2>2, SparedStep
<1>5. CASE CloseStale(d)
  <2>1. PICK l \in LocType, at \in {"closing", "flush"} :
             /\ Moves(d, l, at) /\ l.scan = loc[d].scan /\ l.ref = loc[d].ref
             /\ l.todo \subseteq loc[d].todo
    BY <1>5, CloseStaleShape DEF SameSeen, SameReport
  <2>2. pc[d] = "closing"
    BY <1>5 DEF CloseStale
  <2>3. \A n \in l.todo : l.scan[n].status = "open" /\ n # l.ref
    BY <1>2, <2>1, <2>2 DEF SparedAt
  <2> QED BY <1>1, <1>3, <2>1, <2>2, <2>3, SparedStep
<1>6. CASE Flush(d)
  <2>1. PICK l \in LocType : Moves(d, l, "done") /\ l.scan = <<>>
    BY <1>6, EndShape DEF Flush
  <2> QED BY <1>1, <2>1, SparedStep
<1> QED BY <1>4, <1>5, <1>6

LEMMA NextKeepsSpared ==
    ASSUME Faults = {}, Feedbacks = {}, IInv, IInv', IdxInv, RaceInv, SparedInv, [Next]_vars
    PROVE  SparedInv'
<1>1. ASSUME NEW d \in Deliveries, LoadIndex(d) \/ Step(d)
      PROVE  SparedInv'
  <2>1. ~Rescan(d)
    BY RaceHere DEF Rescan, RaceAt
  <2>2. Grown
    BY <1>1, NextKeepsIndex DEF Next
  <2> QED BY <1>1, <2>1, <2>2, LookUpSpares, UpdateSpares, CreateSpares, HousekeepingSpares DEF Step
<1>2. CASE UNCHANGED vars
  BY <1>2 DEF vars, SparedInv, SparedAt, OldIsFirst, InFlight
<1>3. CASE Tick
  <2>1. UNCHANGED <<issues, pc, loc, known>> /\ InFlight = {} /\ InFlight' = {}
    BY <1>3 DEF Tick, InFlight
  <2>2. \A d \in Deliveries : pc[d] \notin {"sweep", "closing"}
    BY <2>1, DeliveryFacts DEF InFlight
  <2> QED BY <2>1, <2>2 DEF SparedInv, SparedAt
<1>4. CASE \E d \in Deliveries : Crash(d)
  BY <1>4 DEF Crash, MayFail
<1>5. CASE \/ \E n \in DOMAIN issues : HumanTogglesIssue(n) \/ HumanGarblesIssue(n)
           \/ HumanEditsIndex
  BY <1>5 DEF HumanTogglesIssue, HumanGarblesIssue, HumanEditsIndex, HumanEdit, MayFail
<1> QED BY <1>1, <1>2, <1>3, <1>4, <1>5 DEF Next

LEMMA InitSpared == Init => SparedInv
<1> SUFFICES ASSUME Init PROVE SparedInv
  OBVIOUS
<1>1. \A d \in Deliveries : pc[d] = "idle"
  BY DEF Init, Procs
<1>2. InFlight = {}
  BY DEF Init, InFlight, Procs
<1> QED BY <1>1, <1>2 DEF SparedInv, SparedAt

\* The close of a stale issue is of another fingerprint.
LEMMA StaleIsForeign ==
    ASSUME IInv, IInv', IdxInv, RaceInv, SparedInv, NEW d \in Deliveries, CloseStale(d),
           NEW n \in DOMAIN issues, issues[n].fp = FpOf[d]
    PROVE  issues'[n].status = issues[n].status
<1>1. pc[d] = "closing" /\ d \in InFlight /\ day \in Int
  BY DeliveryFacts DEF CloseStale, InFlight, Days
<1>2. PICK m \in loc[d].todo : issues' = Patch(m, issues[m].rec, "stale") \/ UNCHANGED issues
  BY CloseStaleShape
<1>3. /\ m \in DOMAIN loc[d].scan /\ m \in DOMAIN issues /\ loc[d].scan[m].fp = issues[m].fp
      /\ loc[d].scan[m].status = "open" /\ loc[d].scan[m].rec.seen < day /\ m # loc[d].ref
  <2>1. m \in DOMAIN loc[d].scan
    BY <1>1, <1>2, DeliveryFacts DEF At
  <2>2. loc[d].scan[m].rec.seen < day
    BY <1>1, <1>2, RaceHere DEF RaceAt
  <2> QED BY <1>1, <1>2, <2>1, <2>2 DEF SparedInv, SparedAt, IdxInv, Agrees
<1>4. ASSUME issues[m].fp = FpOf[d]
      PROVE  FALSE
  <2>1. m \in Of(issues, FpOf[d])
    BY <1>3, <1>4 DEF Of
  <2>2. Lowest(m, Of(issues, FpOf[d]))
    BY <1>1, <1>3, <1>4 DEF SparedInv, SparedAt, OldIsFirst
  <2>3. CASE Lowest(loc[d].ref, Of(issues, FpOf[d]))
    BY <1>3, <2>2, <2>3, DeliveryFacts DEF Lowest, Of
  <2>4. CASE \A k \in Of(issues, FpOf[d]) : known[d] < k
    <3>1. m \in Young
      BY <1>1, <1>3, <2>1, <2>4 DEF Young
    <3>2. loc[d].scan[m].rec.seen = day
      BY <1>1, <1>3, <3>1, RaceHere DEF RaceAt
    <3> QED BY <1>1, <1>3, <3>2
  <2> QED BY <1>1, <2>3, <2>4 DEF SparedInv, SparedAt
<1>5. m # n
  BY <1>4
<1> QED BY <1>2, <1>3, <1>5, PatchFacts

\* A delivery's memory changes in its own steps only.
LEMMA OnlyItsOwnSteps ==
    ASSUME Faults = {}, Feedbacks = {}, IInv, [Next]_vars,
           NEW d \in Deliveries, pc[d] = "closing", loc'[d] # loc[d]
    PROVE  CloseStale(d)
<1>1. ASSUME NEW e \in Deliveries, e # d, LoadIndex(e) \/ Step(e)
      PROVE  FALSE
  <2>1. \A l, at : ~Moves(e, l, at)
    BY <1>1, MovesFacts
  <2>2. ~LoadIndex(e) /\ ~GetIssue(e) /\ ~Scan(e) /\ ~Update(e)
    BY <2>1, LoadIndexShape, GetIssueShape, ScanShape, UpdateShape
  <2>3. ~Create(e) /\ ~Rescan(e) /\ ~Heal(e) /\ ~CloseDuplicate(e)
    BY <2>1, CreateShape, RescanShape, HealShape, CloseDuplicateShape
  <2>4. ~Sweep(e) /\ ~CloseStale(e) /\ ~Flush(e)
    BY <2>1, SweepShape, CloseStaleShape, EndShape DEF Flush
  <2> QED BY <1>1, <2>2, <2>3, <2>4 DEF Step
<1>2. CASE LoadIndex(d) \/ Step(d)
  BY <1>2 DEF LoadIndex, Step, GetIssue, Scan, Update, Create, Rescan, Heal, CloseDuplicate, Sweep, Flush
<1>3. UNCHANGED loc => FALSE
  OBVIOUS
<1>4. CASE \E e \in Deliveries : Crash(e)
  BY <1>4 DEF Crash, MayFail
<1>5. CASE \/ \E n \in DOMAIN issues : HumanTogglesIssue(n) \/ HumanGarblesIssue(n)
           \/ HumanEditsIndex \/ Tick \/ UNCHANGED vars
  BY <1>3, <1>5 DEF HumanTogglesIssue, HumanGarblesIssue, HumanEditsIndex, Tick, vars
<1> QED BY <1>1, <1>2, <1>4, <1>5 DEF Next

\* While nothing fails and nobody resolves by hand, no sweep closes the issue of
\* the failure its own delivery has just seen recur, whoever else opened, updated
\* or closed issues since its listing was read (sweep_stale, "No recurrence in 14
\* days").  IssuesOwnSwept shows that one refused PATCH is enough to break it.
THEOREM OwnIssueIsSpared ==
    ASSUME Faults = {}, Feedbacks = {}
    PROVE  Spec => SweepSparesOwn
<1>1. IInv /\ IInv' /\ IdxInv /\ [Next]_vars => IdxInv'
  BY NextKeepsIndex
<1>2. IInv /\ IInv' /\ IdxInv /\ RaceInv /\ [Next]_vars => RaceInv'
  BY NextKeepsRace
<1>3. IInv /\ IInv' /\ IdxInv /\ RaceInv /\ SparedInv /\ [Next]_vars => SparedInv'
  BY NextKeepsSpared
<1>4. IInv /\ IInv' /\ IdxInv /\ RaceInv /\ SparedInv /\ [Next]_vars =>
        [\A d \in Deliveries, n \in DOMAIN issues :
            pc[d] = "closing" /\ loc'[d] # loc[d] /\ issues[n].fp = FpOf[d]
                => issues'[n].status = issues[n].status]_vars
  <2> SUFFICES ASSUME IInv, IInv', IdxInv, RaceInv, SparedInv, [Next]_vars,
                      NEW d \in Deliveries, NEW n \in DOMAIN issues,
                      pc[d] = "closing", loc'[d] # loc[d], issues[n].fp = FpOf[d]
               PROVE  issues'[n].status = issues[n].status
    OBVIOUS
  <2>1. CloseStale(d)
    BY OnlyItsOwnSteps
  <2> QED BY <2>1, StaleIsForeign
<1> QED BY <1>1, <1>2, <1>3, <1>4, InitIndex, InitRace, InitSpared, Invariant, PTL
        DEF Spec, SweepSparesOwn

-----------------------------------------------------------------------------
(* One job at a time *)

\* Jobs do not overlap and no human closes, reopens or garbles an issue; humans
\* may edit the index, API calls fail and jobs are cancelled at any point.
OneJobAtATime == MaxInFlight <= 1 /\ Faults \intersect {"toggle", "garble"} = {}

Alone == \A p, q \in InFlight : p = q

\* What a job is about to write is made from what is still there.
Holds(d) ==
    pc[d] \in {"update", "close"} =>
        /\ loc[d].snap = issues[loc[d].num].rec
        /\ loc[d].closed = (issues[loc[d].num].status # "open")
FbHolds(f) == pc[f] = "resolve" => \A n \in fb[f].todo : fb[f].list[n] = issues[n]

SerialInv ==
    /\ Alone
    /\ \A d \in Deliveries : Holds(d)
    /\ \A f \in Feedbacks : FbHolds(f)

LEMMA NobodyRuns ==
    ASSUME OneJobAtATime, Alone, Cardinality(InFlight) < MaxInFlight
    PROVE  InFlight = {}
<1> SUFFICES ASSUME NEW p \in InFlight PROVE FALSE
  OBVIOUS
<1>1. InFlight = {p}
  BY DEF Alone
<1>2. Cardinality(InFlight) = 1
  BY <1>1, FS_Singleton
<1> QED BY <1>2 DEF OneJobAtATime

\* What is new after a step of one job.
LEMMA AloneStep ==
    ASSUME IInv, Alone, NEW p \in Procs, InFlight = {} \/ p \in InFlight,
           \A q \in Procs : q # p => pc'[q] = pc[q]
    PROVE  Alone' /\ \A q \in Procs : q # p => q \notin InFlight'
BY DEF Alone, InFlight

LEMMA SerialStep ==
    ASSUME IInv, SerialInv, NEW d \in Deliveries, NEW l, NEW at, Moves(d, l, at),
           InFlight = {} \/ d \in InFlight,
           at \in {"update", "close"} =>
              l.snap = issues'[l.num].rec /\ l.closed = (issues'[l.num].status # "open")
    PROVE  SerialInv'
<1>1. /\ loc'[d] = l /\ pc'[d] = at /\ d \in Procs
      /\ \A p \in Procs : p # d => pc'[p] = pc[p]
  BY MovesFacts, DeliveryFacts
<1>2. Alone' /\ \A p \in Procs : p # d => p \notin InFlight'
  BY <1>1, AloneStep DEF SerialInv
<1>3. \A e \in Deliveries : Holds(e)'
  BY <1>1, <1>2 DEF Holds, InFlight, Procs
<1>4. \A f \in Feedbacks : FbHolds(f)'
  BY <1>2 DEF FbHolds, InFlight, Procs
<1> QED BY <1>2, <1>3, <1>4 DEF SerialInv

LEMMA LookUpKeepsSerial ==
    ASSUME OneJobAtATime, IInv, SerialInv, NEW d \in Deliveries, LoadIndex(d) \/ GetIssue(d) \/ Scan(d)
    PROVE  SerialInv'
<1>1. UNCHANGED issues /\ (InFlight = {} \/ d \in InFlight)
  BY NobodyRuns, DeliveryFacts DEF LoadIndex, GetIssue, Scan, SerialInv, InFlight
<1>2. PICK l \in LocType, at \in {"get", "scan", "update", "create", "sweep"} :
                   /\ Moves(d, l, at)
                   /\ \/ at \notin {"update", "close"}
                      \/ l.snap = issues[l.num].rec /\ l.closed = (issues[l.num].status # "open")
  <2>1. CASE LoadIndex(d)
    BY <2>1, LoadIndexShape
  <2>2. CASE GetIssue(d)
    BY SMTT(60), <2>2, GetIssueShape, DeliveryFacts
  <2>3. CASE Scan(d)
    BY <2>3, ScanShape
  <2> QED BY <2>1, <2>2, <2>3
<1> QED BY <1>1, <1>2, SerialStep

LEMMA CreatingKeepsSerial ==
    ASSUME IInv, SerialInv, NEW d \in Deliveries, Create(d) \/ Rescan(d) \/ Heal(d)
    PROVE  SerialInv'
<1>1. d \in InFlight
  BY DeliveryFacts DEF Create, Rescan, Heal, InFlight
<1>2. PICK l \in LocType, at \in {"rescan", "heal", "close", "sweep"} :
                   /\ Moves(d, l, at)
                   /\ \/ at \notin {"update", "close"}
                      \/ /\ UNCHANGED issues
                         /\ l.snap = issues[l.num].rec /\ l.closed = (issues[l.num].status # "open")
  <2>1. CASE Create(d)
    BY <2>1, CreateShape, DeliveryFacts
  <2>2. CASE Rescan(d)
    BY <2>2, RescanShape
  <2>3. CASE Heal(d)
    <3>1. UNCHANGED issues
      BY <2>3 DEF Heal
    <3>2. PICK l \in LocType :
            \/ Moves(d, l, "sweep")
            \/ \E n \in Rivals(d) :
                  /\ Moves(d, l, "close") /\ l.num = n
                  /\ l.snap = issues[n].rec /\ l.closed = (issues[n].status # "open")
      BY ZenonT(60), <2>3, HealShape
    <3> QED BY <3>1, <3>2
  <2> QED BY <2>1, <2>2, <2>3
<1> QED BY <1>1, <1>2, SerialStep

\* The issue a self-heal keeps is not one of those it closes.
LEMMA CloseDuplicateKeepsSerial ==
    ASSUME IInv, IInv', SerialInv, NEW d \in Deliveries, CloseDuplicate(d)
    PROVE  SerialInv'
<1>1. d \in InFlight /\ pc[d] = "close"
  BY DeliveryFacts DEF CloseDuplicate, InFlight
<1>2. PICK l, at : /\ Moves(d, l, at)
                   /\ at \notin {"update", "close"} \/ SameHold(l, loc[d])
                   /\ \/ UNCHANGED issues
                      \/ \E n \in loc[d].todo : issues' = Patch(n, issues[n].rec, "duplicate")
  BY CloseDuplicateShape
<1>3. issues'[loc[d].num] = issues[loc[d].num]
  <2>1. /\ loc[d].num \in DOMAIN issues
        /\ \A n \in loc[d].todo : n \in DOMAIN issues /\ loc[d].num # n
    BY <1>1, DeliveryFacts DEF At, Of
  <2> QED BY <1>2, <2>1, PatchFacts
<1>4. Holds(d)
  BY DEF SerialInv
<1>5. at \in {"update", "close"} =>
              l.snap = issues'[l.num].rec /\ l.closed = (issues'[l.num].status # "open")
  BY <1>1, <1>2, <1>3, <1>4 DEF SameHold, Holds
<1> QED BY <1>1, <1>2, <1>5, SerialStep

LEMMA OtherStepsKeepSerial ==
    ASSUME IInv, SerialInv, NEW d \in Deliveries,
           Update(d) \/ Sweep(d) \/ CloseStale(d) \/ Flush(d) \/ Crash(d)
    PROVE  SerialInv'
<1>1. d \in InFlight
  BY DeliveryFacts DEF Update, Sweep, CloseStale, Flush, Crash, InFlight
<1>2. PICK l \in LocType, at \in {"sweep", "closing", "flush", "done"} : Moves(d, l, at)
  <2>1. CASE Update(d)
    BY <2>1, UpdateShape
  <2>2. CASE Sweep(d)
    BY <2>2, SweepShape
  <2>3. CASE CloseStale(d)
    BY <2>3, CloseStaleShape
  <2>4. CASE Flush(d) \/ Crash(d)
    <3>1. End(d)
      BY <2>4 DEF Flush, Crash
    <3> QED BY <3>1, EndShape
  <2> QED BY <2>1, <2>2, <2>3, <2>4
<1> QED BY <1>1, <1>2, SerialStep

LEMMA FeedbackKeepsSerial ==
    ASSUME OneJobAtATime, IInv, IInv', SerialInv, NEW f \in Feedbacks,
           ReadIssue(f) \/ ReadPullRequest(f) \/ Resolve(f)
    PROVE  SerialInv'
<1>1. f \in Procs /\ f \notin Deliveries /\ pc \in [Procs -> Places]
  BY DEF Procs, IInv, TypeOK
<1>2. (InFlight = {} \/ f \in InFlight) /\ \A q \in Procs : q # f => pc'[q] = pc[q]
  BY <1>1, NobodyRuns DEF ReadIssue, ReadPullRequest, MayRead, Resolving, Resolve, Goto, SerialInv, InFlight
<1>3. Alone' /\ \A q \in Procs : q # f => q \notin InFlight'
  BY <1>1, <1>2, AloneStep DEF SerialInv
<1>4. FbHolds(f)'
  <2>1. ASSUME NEW S, Resolving(f, S)
        PROVE  FbHolds(f)'
    <3>1. fb'[f].list = issues /\ issues' = issues
      BY <2>1, FeedbackFacts DEF Resolving
    <3> QED BY <3>1 DEF FbHolds
  <2>2. CASE Resolve(f)
    <3>1. PICK n \in fb[f].todo :
            /\ pc[f] = "resolve"
            /\ \/ issues' = Patch(n, Resolved(fb[f].list[n].rec, f), "resolved")
               \/ UNCHANGED issues
            /\ fb' = [fb EXCEPT ![f].todo = @ \ {n},
                                ![f].list = IF fb[f].todo = {n} THEN <<>> ELSE @]
            /\ Goto(f, IF fb[f].todo = {n} THEN "done" ELSE "resolve")
      BY <2>2 DEF Resolve
    <3>2. /\ fb[f].list \in Seq(Issue) /\ fb[f].todo \subseteq DOMAIN fb[f].list
          /\ Len(fb[f].list) <= Len(issues)
      BY FeedbackFacts DEF FbAt, FbType
    <3>3. \A m \in fb[f].todo : m \in DOMAIN issues
      BY <3>2, FeedbackFacts
    <3>4. \A m \in fb[f].todo : m # n => issues'[m] = issues[m]
      BY <3>1, <3>3, PatchFacts
    <3>5. pc'[f] = "resolve" => fb'[f].todo = fb[f].todo \ {n} /\ fb'[f].list = fb[f].list
      BY <1>1, <3>1, FeedbackFacts DEF Goto, FbType
    <3>6. \A m \in fb[f].todo : fb[f].list[m] = issues[m]
      BY <3>1 DEF SerialInv, FbHolds
    <3> QED BY <3>4, <3>5, <3>6 DEF FbHolds
  <2> QED BY <2>1, <2>2 DEF ReadIssue, ReadPullRequest
<1>5. \A g \in Feedbacks : FbHolds(g)'
  BY <1>3, <1>4 DEF FbHolds, InFlight, Procs
<1>6. \A d \in Deliveries : Holds(d)'
  BY <1>1, <1>3 DEF Holds, InFlight, Procs
<1> QED BY <1>3, <1>5, <1>6 DEF SerialInv

LEMMA NextKeepsSerial ==
    ASSUME OneJobAtATime, IInv, IInv', SerialInv, [Next]_vars
    PROVE  SerialInv'
<1>1. ASSUME NEW d \in Deliveries, LoadIndex(d) \/ Step(d) \/ Crash(d)
      PROVE  SerialInv'
  BY <1>1, LookUpKeepsSerial, CreatingKeepsSerial, CloseDuplicateKeepsSerial, OtherStepsKeepSerial
     DEF Step
<1>2. CASE HumanEditsIndex \/ Tick \/ UNCHANGED vars
  <2>1. UNCHANGED <<issues, pc, loc, fb>>
    BY <1>2 DEF HumanEditsIndex, Tick, vars
  <2> QED BY <2>1 DEF SerialInv, Alone, Holds, FbHolds, InFlight
<1>3. CASE \E n \in DOMAIN issues : HumanTogglesIssue(n) \/ HumanGarblesIssue(n)
  BY <1>3 DEF HumanTogglesIssue, HumanGarblesIssue, HumanEdit, MayFail, OneJobAtATime
<1> QED BY <1>1, <1>2, <1>3, FeedbackKeepsSerial DEF Next

LEMMA InitSerial == Init => SerialInv
<1> SUFFICES ASSUME Init PROVE SerialInv
  OBVIOUS
<1>1. \A p \in Procs : pc[p] = "idle"
  BY DEF Init
<1> QED BY <1>1 DEF SerialInv, Alone, Holds, FbHolds, InFlight, Procs

\* What a step of a job that is alone does to the issues: it records a run on an
\* issue and leaves it open, opens one, or closes one whose history it keeps.
Records(d, n) ==
    /\ n \in Of(issues, FpOf[d])
    /\ issues' = Patch(n, Absorb(issues[n].rec, RunOf[d], day), "open")

Opens(d) ==
    /\ pc[d] = "create"
    /\ \/ issues' = Append(issues, Opened(d))
       \/ issues' = Append(Append(issues, Opened(d)), Opened(d))

Closes(n) ==
    \E rec \in Record, status \in Statuses \ {"open"} :
        /\ issues' = Patch(n, rec, status)
        /\ rec.runs = issues[n].rec.runs /\ rec.count = issues[n].rec.count
        /\ issues[n].rec.resolution # NoOne => rec.resolution # NoOne

Writes == \/ UNCHANGED issues
          \/ \E d \in Deliveries : Opens(d)
          \/ \E d \in Deliveries : \E n \in Of(issues, FpOf[d]) : Records(d, n)
          \/ \E n \in DOMAIN issues : Closes(n)

LEMMA UpdateWrites ==
    ASSUME IInv, SerialInv, NEW d \in Deliveries, Update(d)
    PROVE  Writes
<1> DEFINE n == loc[d].num
<1>1. pc[d] = "update" /\ n \in Of(issues, FpOf[d])
  BY DeliveryFacts DEF Update, At
<1>2. loc[d].snap = issues[n].rec /\ loc[d].closed = (issues[n].status # "open")
  BY <1>1 DEF SerialInv, Holds
<1>3. UNCHANGED issues \/ issues' = Patched(d)
  BY UpdateShape
<1>4. (IF loc[d].closed THEN "open" ELSE issues[n].status) = "open"
  BY <1>2
<1>5. Patched(d) = Patch(n, Absorb(issues[n].rec, RunOf[d], day), "open")
  BY <1>2, <1>4, Zenon DEF Patched
<1> HIDE DEF n
<1> QED BY <1>1, <1>3, <1>5 DEF Writes, Records

LEMMA ClosingWrites ==
    ASSUME IInv, SerialInv, NEW d \in Deliveries, CloseDuplicate(d) \/ CloseStale(d)
    PROVE  Writes
<1>1. PICK n \in DOMAIN issues, status \in {"duplicate", "stale"} :
        UNCHANGED issues \/ issues' = Patch(n, issues[n].rec, status)
  <2>1. CASE CloseDuplicate(d)
    <3>1. \A n \in loc[d].todo : n \in DOMAIN issues
      BY <2>1, DeliveryFacts DEF CloseDuplicate, At, Of
    <3>2. loc[d].num \in DOMAIN issues
      BY <2>1, DeliveryFacts DEF CloseDuplicate, At, Of
    <3> QED BY <2>1, <3>1, <3>2, CloseDuplicateShape
  <2>2. CASE CloseStale(d)
    <3>1. loc[d].scan \in Seq(Issue) /\ loc[d].todo \subseteq DOMAIN loc[d].scan
          /\ Len(loc[d].scan) <= Len(issues)
      BY <2>2, DeliveryFacts DEF CloseStale, At, LocType
    <3>2. \A n \in loc[d].todo : n \in DOMAIN issues
      BY <3>1, DeliveryFacts
    <3> QED BY <2>2, <3>2, CloseStaleShape
  <2> QED BY <2>1, <2>2
<1>2. issues[n].rec \in Record /\ status \in Statuses \ {"open"}
  <2>1. issues[n] \in Issue
    BY DeliveryFacts, ElementOfSeq
  <2> QED BY <2>1 DEF Issue, Statuses
<1>3. UNCHANGED issues \/ Closes(n)
  BY <1>1, <1>2 DEF Closes
<1> QED BY <1>3 DEF Writes

LEMMA ResolveWrites ==
    ASSUME IInv, SerialInv, NEW f \in Feedbacks, Resolve(f)
    PROVE  Writes
<1>1. PICK n \in fb[f].todo :
        \/ issues' = Patch(n, Resolved(fb[f].list[n].rec, f), "resolved")
        \/ UNCHANGED issues
  BY DEF Resolve
<1>2. n \in DOMAIN issues /\ fb[f].list[n] = issues[n]
  <2>1. /\ fb[f].list \in Seq(Issue) /\ fb[f].todo \subseteq DOMAIN fb[f].list
        /\ Len(fb[f].list) <= Len(issues)
    BY FeedbackFacts DEF FbAt, FbType
  <2>2. n \in DOMAIN issues
    BY <2>1, FeedbackFacts
  <2> QED BY <2>2 DEF SerialInv, FbHolds, Resolve
<1> DEFINE rec == Resolved(issues[n].rec, f)
<1>3. /\ rec \in Record /\ rec.runs = issues[n].rec.runs /\ rec.count = issues[n].rec.count
      /\ rec.resolution # NoOne
  <2>1. issues[n] \in Issue
    BY <1>2, FeedbackFacts, ElementOfSeq
  <2>2. issues[n].rec \in Record /\ f \in Authors /\ f # NoOne
    BY <2>1 DEF Issue
  <2> QED BY <2>2 DEF Resolved, Record
<1>4. UNCHANGED issues \/ issues' = Patch(n, rec, "resolved")
  BY <1>1, <1>2
<1> HIDE DEF rec
<1>5. UNCHANGED issues \/ Closes(n)
  BY <1>3, <1>4 DEF Closes, Statuses
<1> QED BY <1>2, <1>5 DEF Writes

LEMMA SerialWrites ==
    ASSUME OneJobAtATime, IInv, SerialInv, [Next]_vars
    PROVE  Writes
<1>1. ASSUME NEW d \in Deliveries, LoadIndex(d) \/ Step(d) \/ Crash(d)
      PROVE  Writes
  <2>1. CASE Update(d)
    BY <2>1, UpdateWrites
  <2>2. CASE Create(d)
    BY <2>2 DEF Create, Writes, Opens
  <2>3. CASE CloseDuplicate(d) \/ CloseStale(d)
    BY <2>3, ClosingWrites
  <2>4. CASE \/ LoadIndex(d) \/ GetIssue(d) \/ Scan(d) \/ Rescan(d) \/ Heal(d) \/ Sweep(d)
             \/ Flush(d) \/ Crash(d)
    BY <2>4 DEF LoadIndex, GetIssue, Scan, Rescan, Heal, Sweep, Flush, Crash, Writes
  <2> QED BY <1>1, <2>1, <2>2, <2>3, <2>4 DEF Step
<1>2. CASE \/ \E f \in Feedbacks : ReadIssue(f) \/ ReadPullRequest(f)
           \/ HumanEditsIndex \/ Tick \/ UNCHANGED vars
  BY <1>2 DEF ReadIssue, ReadPullRequest, Resolving, HumanEditsIndex, Tick, vars, Writes
<1>3. CASE \E n \in DOMAIN issues : HumanTogglesIssue(n) \/ HumanGarblesIssue(n)
  BY <1>3 DEF HumanTogglesIssue, HumanGarblesIssue, HumanEdit, MayFail, OneJobAtATime
<1> QED BY <1>1, <1>2, <1>3, ResolveWrites DEF Next

\* A single write has the two properties that overlapping jobs can break.
LEMMA WriteIsSafe ==
    ASSUME IInv, IInv', Writes, NEW n \in DOMAIN issues
    PROVE  /\ issues'[n].rec.count > issues[n].rec.count => issues'[n].status = "open"
           /\ issues[n].rec.resolution # NoOne => issues'[n].rec.resolution # NoOne
<1>1. issues[n].rec.count \in Nat /\ issues[n].rec \in Record
  <2>1. issues[n] \in Issue
    BY ElementOfSeq DEF IInv, TypeOK
  <2> QED BY <2>1 DEF Issue, Record
<1>2. CASE issues'[n] = issues[n]
  BY <1>1, <1>2
<1>3. CASE \E d \in Deliveries : Opens(d)
  <2>1. PICK d \in Deliveries : Opens(d)
    BY <1>3
  <2>2. Opened(d) \in Issue
    BY DeliveryFacts, FirstRecordType DEF Opened, Issue, Statuses
  <2> QED BY <1>2, <2>1, <2>2, AppendFacts DEF Opens
<1>4. CASE \E d \in Deliveries : \E m \in Of(issues, FpOf[d]) : Records(d, m)
  <2>1. PICK d \in Deliveries : \E m \in Of(issues, FpOf[d]) : Records(d, m)
    BY <1>4
  <2>a. PICK m \in Of(issues, FpOf[d]) : Records(d, m)
    BY <2>1
  <2>2. m \in DOMAIN issues
    BY DEF Of
  <2>3. /\ m # n => issues'[n] = issues[n]
        /\ m = n => /\ issues'[n].rec = Absorb(issues[n].rec, RunOf[d], day)
                    /\ issues'[n].status = "open"
    BY <2>a, <2>2, PatchFacts DEF Records
  <2>4. Absorb(issues[n].rec, RunOf[d], day).resolution = issues[n].rec.resolution
    BY <1>1 DEF Absorb, Record
  <2> QED BY <1>2, <2>3, <2>4
<1>5. CASE \E m \in DOMAIN issues : Closes(m)
  <2>1. PICK m \in DOMAIN issues : Closes(m)
    BY <1>5
  <2>2. PICK rec \in Record, status \in Statuses \ {"open"} :
        /\ issues' = Patch(m, rec, status)
        /\ rec.count = issues[m].rec.count
        /\ issues[m].rec.resolution # NoOne => rec.resolution # NoOne
    BY <2>1 DEF Closes
  <2>3. /\ m # n => issues'[n] = issues[n]
        /\ m = n => issues'[n].rec = rec
    BY <2>2, PatchFacts
  <2> QED BY <1>1, <1>2, <2>2, <2>3
<1> QED BY <1>2, <1>3, <1>4, <1>5 DEF Writes

\* Of jobs that do not overlap, the one that records an occurrence leaves the
\* issue open, whoever had closed it (_update, "Reopen on recurrence").
THEOREM RecurrencesReopen ==
    ASSUME OneJobAtATime
    PROVE  Spec => RecurrenceIsOpen
<1>1. IInv /\ IInv' /\ SerialInv /\ [Next]_vars => SerialInv'
  BY NextKeepsSerial
<1>2. IInv /\ IInv' /\ SerialInv /\ [Next]_vars =>
        [\A n \in DOMAIN issues :
            issues'[n].rec.count > issues[n].rec.count => issues'[n].status = "open"]_vars
  BY SerialWrites, WriteIsSafe
<1> QED BY <1>1, <1>2, InitSerial, Invariant, PTL DEF Spec, RecurrenceIsOpen

\* Of jobs that do not overlap, none forgets a human resolution: recurrences,
\* sweeps and repeated `/resolved` comments keep it (absorb, resolve_issue).
THEOREM ResolutionsStick ==
    ASSUME OneJobAtATime
    PROVE  Spec => ResolutionSticks
<1>1. IInv /\ IInv' /\ SerialInv /\ [Next]_vars => SerialInv'
  BY NextKeepsSerial
<1>2. IInv /\ IInv' /\ SerialInv /\ [Next]_vars =>
        [\A n \in DOMAIN issues :
            issues[n].rec.resolution # NoOne => issues'[n].rec.resolution # NoOne]_vars
  BY SerialWrites, WriteIsSafe
<1> QED BY <1>1, <1>2, InitSerial, Invariant, PTL DEF Spec, ResolutionSticks

-----------------------------------------------------------------------------
(* What the records count, as long as the cap makes none forget a run *)

RunsOf(fp) == {RunOf[d] : d \in {e \in Deliveries : FpOf[e] = fp}}

\* No fingerprint fails in more runs than a record remembers.
NothingForgotten ==
    \A fp \in Fingerprints : IsFiniteSet(RunsOf(fp)) /\ Cardinality(RunsOf(fp)) <= RunIdCap

\* The issue's record counts exactly the runs it lists, all of them delivered for it.
Fits(e) == /\ e.rec.count = Len(e.rec.runs)
           /\ \A i \in DOMAIN e.rec.runs : e.rec.runs[i] \in RunsOf(e.fp)
AllFit(list) == \A n \in DOMAIN list : Fits(list[n])

\* A list without repetition is no longer than the set it is taken from.
LEMMA NoLongerThan ==
    ASSUME NEW R, IsFiniteSet(R), NEW s \in Seq(RunIds), \A i \in DOMAIN s : s[i] \in R,
           \A i, j \in DOMAIN s : s[i] = s[j] => i = j
    PROVE  Len(s) <= Cardinality(R)
<1>1. DOMAIN s = 1 .. Len(s) /\ Len(s) \in Nat
  OBVIOUS
<1>2. s \in Injection(1 .. Len(s), R)
  BY <1>1 DEF Injection, IsInjective
<1>3. Cardinality(1 .. Len(s)) <= Cardinality(R)
  BY <1>2, FS_Injection
<1>4. Cardinality(1 .. Len(s)) = Len(s)
  <2> DEFINE k == Len(s)
  <2>1. 1 \in Int /\ k \in Int /\ k >= 0
    BY <1>1
  <2> HIDE DEF k
  <2>2. Cardinality(1 .. k) = IF 1 > k THEN 0 ELSE k - 1 + 1
    BY <2>1, FS_Interval
  <2> QED BY <2>1, <2>2 DEF k
<1> QED BY <1>3, <1>4

\* Recording a run adds it to those counted, and nothing else changes.
LEMMA AbsorbCounts ==
    ASSUME NEW rec \in Record, WellFormed(rec), rec.count = Len(rec.runs),
           NEW R, IsFiniteSet(R), Cardinality(R) <= RunIdCap,
           \A i \in DOMAIN rec.runs : rec.runs[i] \in R,
           NEW r \in RunIds, r \in R, NEW t \in Days
    PROVE  LET new == Absorb(rec, r, t) IN
           /\ new.count = Len(new.runs)
           /\ \A i \in DOMAIN new.runs : new.runs[i] \in R
           /\ \A q : Counted(new, q) <=> Counted(rec, q) \/ q = r
<1>1. rec.runs \in Seq(RunIds) /\ rec.count \in Nat
  BY DEF Record
<1>2. CASE Counted(rec, r)
  BY <1>2 DEF Absorb
<1>3. CASE ~Counted(rec, r)
  <2>1. \A i \in DOMAIN rec.runs : rec.runs[i] \in R \ {r}
    BY <1>3 DEF Counted
  <2>2. IsFiniteSet(R \ {r}) /\ Cardinality(R \ {r}) = Cardinality(R) - 1 /\ Cardinality(R) \in Nat
    BY FS_RemoveElement, FS_CardinalityType
  <2>3. Len(rec.runs) <= Cardinality(R \ {r})
    BY <1>1, <2>1, <2>2, NoLongerThan DEF WellFormed, NoRunTwice
  <2>4. Len(rec.runs) < RunIdCap
    BY <1>1, <2>2, <2>3
  <2> DEFINE runs == Append(rec.runs, r)
  <2>5. Absorb(rec, r, t).runs = runs /\ Absorb(rec, r, t).count = rec.count + 1
    BY <1>1, <1>3, <2>4 DEF Absorb, Remember, Record
  <2>6. /\ DOMAIN runs = 1 .. Len(rec.runs) + 1 /\ Len(runs) = Len(rec.runs) + 1
        /\ runs[Len(rec.runs) + 1] = r /\ DOMAIN rec.runs = 1 .. Len(rec.runs) /\ Len(rec.runs) \in Nat
        /\ \A i \in DOMAIN rec.runs : runs[i] = rec.runs[i]
    BY <1>1, AppendProperties
  <2> HIDE DEF runs
  <2>7. \A i \in DOMAIN runs : i = Len(rec.runs) + 1 \/ i \in DOMAIN rec.runs
    BY <2>6
  <2>8. DOMAIN rec.runs \subseteq DOMAIN runs /\ Len(rec.runs) + 1 \in DOMAIN runs
    BY <2>6
  <2>9. \A i \in DOMAIN runs : runs[i] \in R
    BY <2>6, <2>7
  <2>10. \A q : (\E i \in DOMAIN runs : runs[i] = q) <=> (\E i \in DOMAIN rec.runs : rec.runs[i] = q) \/ q = r
    BY <2>6, <2>7, <2>8
  <2> QED BY <2>5, <2>6, <2>9, <2>10 DEF Counted
<1> QED BY <1>2, <1>3

\* The first record of a run counts that run.
LEMMA FirstCounts ==
    ASSUME NEW d \in Deliveries
    PROVE  LET e == Opened(d) IN
           /\ e.fp = FpOf[d] /\ e.status = "open" /\ Fits(e)
           /\ \A q : Counted(e.rec, q) <=> q = RunOf[d]
<1>1. /\ Opened(d).fp = FpOf[d] /\ Opened(d).status = "open"
      /\ Opened(d).rec.runs = <<RunOf[d]>> /\ Opened(d).rec.count = 1
  BY DEF Opened, FirstRecord
<1>2. DOMAIN <<RunOf[d]>> = {1} /\ Len(<<RunOf[d]>>) = 1 /\ <<RunOf[d]>>[1] = RunOf[d]
  OBVIOUS
<1>3. RunOf[d] \in RunsOf(FpOf[d])
  BY DEF RunsOf
<1> QED BY <1>1, <1>2, <1>3 DEF Fits, Counted

\* Who opens, records or closes: what becomes of the issues, one by one.
Adds(n, r) ==
    \A q : Counted(issues'[n].rec, q) <=> Counted(issues[n].rec, q) \/ q = r
Keeps(n) ==
    \A q : Counted(issues'[n].rec, q) <=> Counted(issues[n].rec, q)

LEMMA RecordsEffect ==
    ASSUME NothingForgotten, IInv, IInv', RecInv, AllFit(issues),
           NEW d \in Deliveries, NEW n \in Of(issues, FpOf[d]), Records(d, n)
    PROVE  /\ Grown /\ DOMAIN issues' = DOMAIN issues /\ AllFit(issues')
           /\ \A m \in DOMAIN issues : m # n => issues'[m] = issues[m]
           /\ issues'[n].status = "open" /\ Adds(n, RunOf[d])
<1> DEFINE old == issues[n].rec
           new == Absorb(old, RunOf[d], day)
           fp  == FpOf[d]
<1>1. n \in DOMAIN issues /\ issues[n].fp = fp
  BY DEF Of
<1>2. /\ Grown /\ DOMAIN issues' = DOMAIN issues
      /\ \A m \in DOMAIN issues : m # n => issues'[m] = issues[m]
      /\ issues'[n].fp = issues[n].fp /\ issues'[n].rec = new /\ issues'[n].status = "open"
  BY <1>1, PatchFacts DEF Records
<1>3. old \in Record /\ WellFormed(old) /\ old.count = Len(old.runs)
      /\ \A i \in DOMAIN old.runs : old.runs[i] \in RunsOf(fp)
  <2>1. issues[n] \in Issue
    BY <1>1, DeliveryFacts, ElementOfSeq
  <2> QED BY <1>1, <2>1 DEF Issue, RecInv, RecordsWellFormed, AllFit, Fits
<1>4. /\ IsFiniteSet(RunsOf(fp)) /\ Cardinality(RunsOf(fp)) <= RunIdCap
      /\ RunOf[d] \in RunsOf(fp) /\ RunOf[d] \in RunIds /\ day \in Days
  BY DeliveryFacts DEF NothingForgotten, RunsOf
<1> HIDE DEF old, fp
<1>5. /\ new.count = Len(new.runs)
      /\ \A i \in DOMAIN new.runs : new.runs[i] \in RunsOf(fp)
      /\ \A q : Counted(new, q) <=> Counted(old, q) \/ q = RunOf[d]
  BY <1>3, <1>4, AbsorbCounts
<1> HIDE DEF new
<1>6. Fits(issues'[n])
  BY <1>1, <1>2, <1>5 DEF Fits, fp
<1>7. AllFit(issues')
  BY <1>2, <1>6 DEF AllFit
<1> QED BY <1>2, <1>5, <1>7 DEF Adds, old

LEMMA OpensEffect ==
    ASSUME IInv, IInv', AllFit(issues), NEW d \in Deliveries, Opens(d)
    PROVE  /\ Grown /\ DOMAIN issues \subseteq DOMAIN issues' /\ AllFit(issues')
           /\ \A m \in DOMAIN issues : issues'[m] = issues[m]
           /\ \A m \in DOMAIN issues' : m \notin DOMAIN issues => issues'[m] = Opened(d)
           /\ \E m \in DOMAIN issues' : m \notin DOMAIN issues
<1> DEFINE e == Opened(d)
<1>1. e \in Issue /\ Fits(e)
  BY DeliveryFacts, FirstRecordType, FirstCounts DEF Opened, Issue, Statuses
<1>2. issues' = Append(issues, e) \/ issues' = Append(Append(issues, e), e)
  BY DEF Opens
<1> HIDE DEF e
<1>3. /\ Grown /\ DOMAIN issues \subseteq DOMAIN issues'
      /\ \A m \in DOMAIN issues : issues'[m] = issues[m]
      /\ \A m \in DOMAIN issues' : m \notin DOMAIN issues => issues'[m] = e
  BY <1>1, <1>2, AppendFacts
<1>4. AllFit(issues')
  BY <1>1, <1>3 DEF AllFit
<1>5. Len(issues') > Len(issues)
  <2>1. issues \in Seq(Issue) /\ Len(issues) \in Nat
    BY DeliveryFacts
  <2>2. Append(issues, e) \in Seq(Issue) /\ Len(Append(issues, e)) = Len(issues) + 1
    BY <1>1, <2>1, AppendProperties
  <2>3. Len(Append(Append(issues, e), e)) = Len(issues) + 2
    BY <1>1, <2>1, <2>2, AppendProperties
  <2> QED BY <1>2, <2>1, <2>2, <2>3
<1>6. Len(issues') \in DOMAIN issues' /\ Len(issues') \notin DOMAIN issues
  BY <1>3, <1>5, RaceFacts
<1> QED BY <1>3, <1>4, <1>6 DEF e

LEMMA ClosesEffect ==
    ASSUME IInv, IInv', AllFit(issues), NEW n \in DOMAIN issues, Closes(n)
    PROVE  /\ Grown /\ DOMAIN issues' = DOMAIN issues /\ AllFit(issues')
           /\ \A m \in DOMAIN issues : m # n => issues'[m] = issues[m]
           /\ issues'[n].status # "open" /\ Keeps(n)
<1>1. PICK rec \in Record, status \in Statuses \ {"open"} :
        /\ issues' = Patch(n, rec, status)
        /\ rec.runs = issues[n].rec.runs /\ rec.count = issues[n].rec.count
  BY DEF Closes
<1>2. /\ Grown /\ DOMAIN issues' = DOMAIN issues
      /\ \A m \in DOMAIN issues : m # n => issues'[m] = issues[m]
      /\ issues'[n].fp = issues[n].fp /\ issues'[n].rec = rec /\ issues'[n].status # "open"
  BY <1>1, PatchFacts
<1>3. AllFit(issues') /\ Keeps(n)
  BY SMTT(60), <1>1, <1>2 DEF AllFit, Fits, Keeps, Counted
<1> QED BY <1>2, <1>3

\* No write of a job that is alone takes a run back.
LEMMA WritesKeepRuns ==
    ASSUME NothingForgotten, IInv, IInv', RecInv, AllFit(issues), Writes
    PROVE  /\ Grown /\ AllFit(issues')
           /\ \A n \in DOMAIN issues : \A q :
                 Counted(issues[n].rec, q) => Counted(issues'[n].rec, q)
<1>1. CASE UNCHANGED issues
  BY <1>1, SameGrown
<1>2. CASE \E d \in Deliveries : Opens(d)
  BY <1>2, OpensEffect
<1>3. ASSUME NEW d \in Deliveries, NEW n \in Of(issues, FpOf[d]), Records(d, n)
      PROVE  /\ Grown /\ AllFit(issues')
             /\ \A m \in DOMAIN issues : \A q :
                   Counted(issues[m].rec, q) => Counted(issues'[m].rec, q)
  BY <1>3, RecordsEffect DEF Adds
<1>4. CASE \E n \in DOMAIN issues : Closes(n)
  BY <1>4, ClosesEffect DEF Keeps
<1> QED BY <1>1, <1>2, <1>3, <1>4 DEF Writes

Success == {"created", "updated", "reopened", "unchanged"}

\* What a delivery knows to be counted where it is.  It has nothing to report
\* before it has written, and an issue it creates is the first of its fingerprint
\* unless the create landed twice.
CountAt(d) ==
    LET l    == loc[d]
        mine == Of(issues, FpOf[d])
        counted(n) == Counted(issues[n].rec, RunOf[d]) IN
    /\ pc[d] # "resolve"
    /\ pc[d] \in {"get", "scan", "create", "rescan"} => l.own = 0
    /\ pc[d] \in {"get", "scan", "create", "rescan", "heal", "close", "update"} => l.result = "none"
    /\ pc[d] = "create" => mine = {}
    /\ pc[d] \in {"rescan", "heal", "close"} => \A n \in mine : counted(n)
    /\ pc[d] = "heal" => l.num = l.own
    /\ pc[d] = "update" /\ l.own # 0 => counted(l.num)
    /\ pc[d] \in {"sweep", "closing", "flush", "done"} /\ l.result \in Success
          => l.ref \in mine /\ counted(l.ref)

CountInv == AllFit(issues) /\ \A d \in Deliveries : CountAt(d)

\* What a step may do to the runs others rely on.
RunsStay ==
    /\ Grown /\ AllFit(issues')
    /\ \A n \in DOMAIN issues : \A q : Counted(issues[n].rec, q) => Counted(issues'[n].rec, q)

LEMMA CountAtRest ==
    ASSUME IInv, IInv', RunsStay, NEW d \in Deliveries, CountAt(d), d \notin InFlight,
           loc'[d] = loc[d], pc'[d] = pc[d]
    PROVE  CountAt(d)'
<1>1. pc[d] \in {"idle", "done"}
  BY DeliveryFacts DEF InFlight
<1>2. \A n \in Of(issues, FpOf[d]) : n \in DOMAIN issues /\ n \in Of(issues', FpOf[d])
  BY DeliveryFacts, OfGrown DEF RunsStay, Of, IInv, TypeOK
<1> QED BY <1>1, <1>2 DEF CountAt, RunsStay

\* What is new after a step of one delivery.
LEMMA CountStep ==
    ASSUME IInv, IInv', SerialInv, CountInv, RunsStay,
           NEW d \in Deliveries, NEW l, NEW at, Moves(d, l, at), InFlight = {} \/ d \in InFlight,
           CountAt(d)'
    PROVE  CountInv'
<1>1. ASSUME NEW e \in Deliveries, e # d
      PROVE  CountAt(e)'
  <2>1. loc'[e] = loc[e] /\ pc'[e] = pc[e]
    BY <1>1, MovesFacts
  <2>2. e \notin InFlight
    BY <1>1 DEF SerialInv, Alone
  <2> QED BY <2>1, <2>2, CountAtRest DEF CountInv
<1> QED BY <1>1 DEF CountInv, RunsStay

LEMMA CountHere ==
    ASSUME IInv, CountInv, NEW d \in Deliveries
    PROVE  CountAt(d) /\ AllFit(issues)
BY DEF CountInv

LEMMA SameRuns == ASSUME IInv, CountInv, UNCHANGED issues PROVE RunsStay
BY SameGrown DEF CountInv, RunsStay

LEMMA LookUpKeepsCount ==
    ASSUME OneJobAtATime, IInv, IInv', SerialInv, CountInv, NEW d \in Deliveries,
           LoadIndex(d) \/ GetIssue(d) \/ Scan(d)
    PROVE  CountInv'
<1>1. UNCHANGED issues /\ RunsStay /\ (InFlight = {} \/ d \in InFlight)
  <2>1. UNCHANGED issues /\ (InFlight = {} \/ d \in InFlight)
    BY NobodyRuns, DeliveryFacts DEF LoadIndex, GetIssue, Scan, SerialInv, InFlight
  <2> QED BY <2>1, SameRuns
<1>2. pc[d] \in {"get", "scan"} => loc[d].own = 0 /\ loc[d].result = "none"
  BY CountHere DEF CountAt
<1>3. PICK l \in LocType, at \in {"get", "scan", "update", "create", "sweep"} :
        /\ Moves(d, l, at) /\ l.own = 0
        /\ l.result = IF at = "sweep" THEN "skipped" ELSE "none"
        /\ at = "create" => Of(issues, FpOf[d]) = {}
  <2>1. CASE LoadIndex(d)
    BY <2>1, LoadIndexShape
  <2>2. CASE GetIssue(d)
    <3>1. pc[d] = "get"
      BY <2>2 DEF GetIssue
    <3> QED BY <1>2, <2>2, <3>1, GetIssueShape, DeliveryFacts DEF SameReport
  <2>3. CASE Scan(d)
    <3>1. pc[d] = "scan"
      BY <2>3 DEF Scan
    <3>2. PICK l \in LocType :
            \/ Moves(d, l, "update") /\ SameReport(l, loc[d]) /\ l.own = loc[d].own
            \/ /\ Of(issues, FpOf[d]) = {} /\ Moves(d, l, "create")
               /\ SameHold(l, loc[d]) /\ SameReport(l, loc[d])
            \/ Moves(d, l, "sweep") /\ Reports(l, loc[d].own, loc[d].num, "skipped")
      BY <2>3, ScanShape
    <3> QED BY <1>2, <3>1, <3>2 DEF SameReport, SameHold, Reports
  <2> QED BY <2>1, <2>2, <2>3
<1>4. loc'[d] = l /\ pc'[d] = at
  BY <1>3, MovesFacts
<1>5. CountAt(d)'
  BY <1>1, <1>3, <1>4 DEF CountAt, Success
<1> QED BY <1>1, <1>3, <1>5, CountStep

LEMMA UpdateKeepsCount ==
    ASSUME NothingForgotten, IInv, IInv', SerialInv, RecInv, CountInv, NEW d \in Deliveries, Update(d)
    PROVE  CountInv'
<1> DEFINE num == loc[d].num
<1>1. d \in InFlight /\ pc[d] = "update" /\ num \in Of(issues, FpOf[d])
  BY DeliveryFacts DEF Update, InFlight, At
<1>2. RunsStay
  BY UpdateWrites, CountHere, WritesKeepRuns DEF RunsStay
<1>3. loc[d].snap = issues[num].rec /\ (loc[d].own # 0 => Counted(issues[num].rec, RunOf[d]))
  BY <1>1, CountHere DEF SerialInv, Holds, CountAt
<1>4. PICK l \in LocType, res \in Results :
             /\ Moves(d, l, "sweep") /\ Reports(l, loc[d].own, num, res)
             /\ \/ issues' = Patched(d)
                \/ /\ UNCHANGED issues
                   /\ res \in {"failed", "skipped"} \/ Counted(loc[d].snap, RunOf[d])
  BY UpdateShape
<1>5. num \in DOMAIN issues /\ num \in Of(issues', FpOf[d])
  BY <1>1, <1>2, DeliveryFacts, OfGrown DEF RunsStay, Of, IInv, TypeOK
<1>6. issues' = Patched(d) => Counted(issues'[num].rec, RunOf[d])
  <2> SUFFICES ASSUME issues' = Patched(d) PROVE Counted(issues'[num].rec, RunOf[d])
    OBVIOUS
  <2>1. (IF loc[d].closed THEN "open" ELSE issues[num].status) = "open"
    BY <1>1 DEF SerialInv, Holds
  <2>2. Patched(d) = Patch(num, Absorb(issues[num].rec, RunOf[d], day), "open")
    BY <1>3, <2>1, Zenon DEF Patched
  <2>3. Records(d, num)
    BY <1>1, <2>2 DEF Records
  <2> HIDE DEF num
  <2> QED BY <1>1, <2>3, CountHere, RecordsEffect DEF Adds
<1>7. loc[d].own # 0 \/ res \notin {"failed", "skipped"} => Counted(issues'[num].rec, RunOf[d])
  BY <1>2, <1>3, <1>4, <1>5, <1>6 DEF RunsStay
<1>8. l.result \in Success => l.ref = num /\ (loc[d].own # 0 \/ res \notin {"failed", "skipped"})
  BY <1>4 DEF Reports, Success
<1>9. loc'[d] = l /\ pc'[d] = "sweep"
  BY <1>4, MovesFacts
<1>10. CountAt(d)'
  BY <1>5, <1>7, <1>8, <1>9 DEF CountAt
<1> QED BY <1>1, <1>2, <1>4, <1>10, CountStep

LEMMA CreateKeepsCount ==
    ASSUME NothingForgotten, IInv, IInv', SerialInv, RecInv, CountInv, NEW d \in Deliveries, Create(d)
    PROVE  CountInv'
<1>1. d \in InFlight /\ pc[d] = "create"
  BY DeliveryFacts DEF Create, InFlight
<1>2. loc[d].own = 0 /\ loc[d].result = "none" /\ Of(issues, FpOf[d]) = {}
  BY <1>1, CountHere DEF CountAt
<1>3. UNCHANGED issues \/ Opens(d)
  BY DEF Create, Opens
<1>4. RunsStay
  BY <1>3, CountHere, WritesKeepRuns DEF Writes, RunsStay
<1>5. \A n \in Of(issues', FpOf[d]) : Counted(issues'[n].rec, RunOf[d])
  <2>1. CASE UNCHANGED issues
    BY <1>2, <2>1
  <2>2. CASE Opens(d)
    <3>1. /\ \A m \in DOMAIN issues : issues'[m] = issues[m]
          /\ \A m \in DOMAIN issues' : m \notin DOMAIN issues => issues'[m] = Opened(d)
      BY <2>2, CountHere, OpensEffect
    <3>2. Counted(Opened(d).rec, RunOf[d])
      BY FirstCounts
    <3> QED BY <1>2, <3>1, <3>2 DEF Of
  <2> QED BY <1>3, <2>1, <2>2
<1>6. PICK l \in LocType, at \in {"heal", "rescan", "sweep"} :
        /\ Moves(d, l, at)
        /\ at = "heal" => l.num = l.own /\ l.result = "none"
        /\ at = "rescan" => l.own = 0 /\ l.result = "none"
        /\ at = "sweep" => l.result \in {"failed", "skipped"}
  <2>1. \/ \E l \in LocType : Moves(d, l, "heal") /\ l.num = l.own /\ SameReport(l, loc[d])
        \/ Moves(d, loc[d], "rescan")
        \/ \E l \in LocType, res \in {"failed", "skipped"} :
              Moves(d, l, "sweep") /\ Reports(l, loc[d].own, loc[d].num, res)
    BY CreateShape
  <2>2. loc[d] \in LocType
    BY DeliveryFacts
  <2> QED BY <1>2, <2>1, <2>2 DEF SameReport, Reports
<1>7. loc'[d] = l /\ pc'[d] = at
  BY <1>6, MovesFacts
<1>8. CountAt(d)'
  BY <1>5, <1>6, <1>7 DEF CountAt, Success
<1> QED BY <1>1, <1>4, <1>6, <1>8, CountStep

LEMMA HealingKeepsCount ==
    ASSUME IInv, IInv', SerialInv, CountInv, NEW d \in Deliveries, Rescan(d) \/ Heal(d)
    PROVE  CountInv'
<1> DEFINE mine == Of(issues, FpOf[d])
<1>1. /\ d \in InFlight /\ pc[d] \in {"rescan", "heal"} /\ UNCHANGED issues /\ RunsStay
  BY DeliveryFacts, SameRuns DEF Rescan, Heal, InFlight
<1>2. /\ loc[d].result = "none" /\ \A n \in mine : Counted(issues[n].rec, RunOf[d])
      /\ pc[d] = "rescan" => loc[d].own = 0
      /\ pc[d] = "heal" => loc[d].num = loc[d].own /\ loc[d].own \in mine
  BY <1>1, CountHere, DeliveryFacts DEF CountAt, At
<1>3. PICK l \in LocType, at \in {"heal", "close", "sweep"} :
        /\ Moves(d, l, at)
        /\ at \in {"heal", "close"} => l.result = "none"
        /\ at = "heal" => l.num = l.own
        /\ at = "sweep" /\ l.result \in Success => l.ref \in mine
  <2>1. CASE Rescan(d)
    <3>0. pc[d] = "rescan"
      BY <2>1 DEF Rescan
    <3>1. PICK l \in LocType :
            \/ Moves(d, l, "heal") /\ l.num = l.own /\ SameReport(l, loc[d])
            \/ Moves(d, l, "sweep") /\ Reports(l, loc[d].own, loc[d].num, "failed")
      BY <2>1, RescanShape
    <3> QED BY <1>2, <3>0, <3>1 DEF SameReport, Reports, Success
  <2>2. CASE Heal(d)
    <3>0. pc[d] = "heal"
      BY <2>2 DEF Heal
    <3>1. PICK l \in LocType :
            \/ Moves(d, l, "sweep") /\ Reports(l, loc[d].own, loc[d].num, "created")
            \/ Moves(d, l, "close") /\ SameReport(l, loc[d])
      BY <2>2, HealShape
    <3> QED BY <1>2, <3>0, <3>1 DEF SameReport, Reports, Success
  <2> QED BY <2>1, <2>2
<1>4. loc'[d] = l /\ pc'[d] = at
  BY <1>3, MovesFacts
<1>5. CountAt(d)'
  BY <1>1, <1>2, <1>3, <1>4 DEF CountAt
<1> QED BY <1>1, <1>3, <1>5, CountStep

LEMMA CloseDuplicateKeepsCount ==
    ASSUME NothingForgotten, IInv, IInv', SerialInv, RecInv, CountInv,
           NEW d \in Deliveries, CloseDuplicate(d)
    PROVE  CountInv'
<1>1. d \in InFlight /\ pc[d] = "close"
  BY DeliveryFacts DEF CloseDuplicate, InFlight
<1>2. RunsStay
  BY ClosingWrites, CountHere, WritesKeepRuns DEF RunsStay
<1>3. /\ loc[d].result = "none" /\ \A n \in Of(issues, FpOf[d]) : Counted(issues[n].rec, RunOf[d])
      /\ loc[d].num \in Of(issues, FpOf[d])
      /\ \A n \in loc[d].todo : n \in DOMAIN issues
  BY <1>1, CountHere, DeliveryFacts DEF CountAt, At, Of
<1>4. PICK l \in LocType, at \in {"close", "update", "sweep"} :
        /\ Moves(d, l, at)
        /\ at \in {"close", "update"} => SameHold(l, loc[d]) /\ l.result = "none"
        /\ at = "sweep" => l.ref = loc[d].num
  <2>1. PICK l \in LocType :
                \/ Moves(d, l, "close") /\ SameHold(l, loc[d]) /\ SameReport(l, loc[d])
                \/ Moves(d, l, "update") /\ SameHold(l, loc[d]) /\ SameReport(l, loc[d])
                \/ /\ Moves(d, l, "sweep")
                   /\ Reports(l, loc[d].own, loc[d].num, "created")
    BY CloseDuplicateShape
  <2> QED BY <1>3, <2>1 DEF SameReport, Reports
<1>5. DOMAIN issues' = DOMAIN issues
  <2>1. UNCHANGED issues \/ \E n \in loc[d].todo : issues' = Patch(n, issues[n].rec, "duplicate")
    BY CloseDuplicateShape
  <2> QED BY <1>3, <2>1, PatchFacts
<1>6. Of(issues', FpOf[d]) = Of(issues, FpOf[d])
  BY <1>2, <1>5 DEF RunsStay, Grown, Of
<1>7. \A n \in Of(issues', FpOf[d]) : Counted(issues'[n].rec, RunOf[d])
  BY <1>2, <1>3, <1>6 DEF RunsStay, Of
<1>8. loc'[d] = l /\ pc'[d] = at
  BY <1>4, MovesFacts
<1>9. CountAt(d)'
  BY <1>3, <1>4, <1>6, <1>7, <1>8 DEF CountAt, SameHold
<1> QED BY <1>1, <1>2, <1>4, <1>9, CountStep

\* What comes after the report leaves it alone; a job that is cancelled before
\* has nothing to report.
LEMMA HousekeepingKeepsCount ==
    ASSUME NothingForgotten, IInv, IInv', SerialInv, RecInv, CountInv,
           NEW d \in Deliveries, Sweep(d) \/ CloseStale(d) \/ Flush(d) \/ Crash(d)
    PROVE  CountInv'
<1>1. d \in InFlight
  BY DeliveryFacts DEF Sweep, CloseStale, Flush, Crash, InFlight
<1>2. RunsStay
  <2>1. CASE CloseStale(d)
    BY <2>1, ClosingWrites, CountHere, WritesKeepRuns DEF RunsStay
  <2>2. CASE Sweep(d) \/ Flush(d) \/ Crash(d)
    BY <2>2, SameRuns DEF Sweep, Flush, Crash
  <2> QED BY <2>1, <2>2
<1>3. PICK l \in LocType, at \in {"closing", "flush", "done"} :
        /\ Moves(d, l, at) /\ SameReport(l, loc[d])
        /\ pc[d] \in {"sweep", "closing", "flush"} \/ Crash(d)
  <2>1. CASE Sweep(d)
    BY <2>1, SweepShape DEF Sweep
  <2>2. CASE CloseStale(d)
    BY <2>2, CloseStaleShape DEF CloseStale
  <2>3. CASE Flush(d) \/ Crash(d)
    <3>1. End(d)
      BY <2>3 DEF Flush, Crash
    <3> QED BY <2>3, <3>1, EndShape DEF Flush
  <2> QED BY <2>1, <2>2, <2>3
<1>4. loc[d].result \in Success =>
          loc[d].ref \in Of(issues, FpOf[d]) /\ Counted(issues[loc[d].ref].rec, RunOf[d])
  <2>1. pc[d] \in {"get", "scan", "create", "rescan", "heal", "close", "update",
                   "sweep", "closing", "flush", "done", "resolve", "idle"}
    BY DeliveryFacts DEF Places
  <2>2. pc[d] # "idle"
    BY <1>1 DEF InFlight
  <2> QED BY <2>1, <2>2, CountHere DEF CountAt, Success
<1>5. \A n \in Of(issues, FpOf[d]) : n \in DOMAIN issues /\ n \in Of(issues', FpOf[d])
  BY <1>2, DeliveryFacts, OfGrown DEF RunsStay, Of, IInv, TypeOK
<1>6. loc'[d] = l /\ pc'[d] = at
  BY <1>3, MovesFacts
<1>7. CountAt(d)'
  BY <1>2, <1>3, <1>4, <1>5, <1>6 DEF CountAt, SameReport, RunsStay
<1> QED BY <1>1, <1>2, <1>3, <1>7, CountStep

LEMMA NextKeepsCount ==
    ASSUME OneJobAtATime, NothingForgotten, IInv, IInv', SerialInv, RecInv, CountInv, [Next]_vars
    PROVE  CountInv'
<1>1. ASSUME NEW d \in Deliveries, LoadIndex(d) \/ Step(d) \/ Crash(d)
      PROVE  CountInv'
  BY <1>1, LookUpKeepsCount, UpdateKeepsCount, CreateKeepsCount, HealingKeepsCount,
     CloseDuplicateKeepsCount, HousekeepingKeepsCount DEF Step
<1>2. CASE \/ \E f \in Feedbacks : ReadIssue(f) \/ ReadPullRequest(f)
           \/ HumanEditsIndex \/ Tick \/ UNCHANGED vars
  <2>1. /\ UNCHANGED <<issues, loc>>
        /\ \A d \in Deliveries : pc'[d] = pc[d]
    BY <1>2, DeliveryFacts DEF ReadIssue, ReadPullRequest, Resolving, Goto, HumanEditsIndex, Tick, vars
  <2> QED BY <2>1 DEF CountInv, CountAt
<1>3. ASSUME NEW f \in Feedbacks, Resolve(f)
      PROVE  CountInv'
  <2>1. RunsStay
    BY <1>3, ResolveWrites, WritesKeepRuns DEF CountInv, RunsStay
  <2>2. f \in InFlight /\ UNCHANGED loc /\ \A d \in Deliveries : pc'[d] = pc[d] /\ d # f
    BY <1>3, DeliveryFacts DEF Resolve, Goto, InFlight, Procs
  <2>3. \A d \in Deliveries : d \notin InFlight
    BY <2>2 DEF SerialInv, Alone
  <2>4. \A d \in Deliveries : CountAt(d)'
    BY <2>1, <2>2, <2>3, CountHere, CountAtRest
  <2> QED BY <2>1, <2>4 DEF CountInv, RunsStay
<1>4. CASE \E n \in DOMAIN issues : HumanTogglesIssue(n) \/ HumanGarblesIssue(n)
  BY <1>4 DEF HumanTogglesIssue, HumanGarblesIssue, HumanEdit, MayFail, OneJobAtATime
<1> QED BY <1>1, <1>2, <1>3, <1>4 DEF Next

LEMMA InitCount == Init => CountInv
<1> SUFFICES ASSUME Init PROVE CountInv
  OBVIOUS
<1>1. issues = <<>> /\ \A d \in Deliveries : pc[d] = "idle"
  BY DEF Init, Procs
<1> QED BY <1>1 DEF CountInv, CountAt, AllFit

\* After a delivery has reported success, its run stays counted in the issue it
\* reported: no later job, sweep, feedback or failed call takes it back, as long
\* as jobs do not overlap and the run ids fit (_sync, _update, absorb).
THEOREM ReportsAreRecorded ==
    ASSUME OneJobAtATime, NothingForgotten
    PROVE  Spec => []ReportedIsRecorded
<1>1. IInv /\ IInv' /\ SerialInv /\ [Next]_vars => SerialInv'
  BY NextKeepsSerial
<1>2. IInv /\ IInv' /\ SerialInv /\ RecInv /\ CountInv /\ [Next]_vars => CountInv'
  BY NextKeepsCount
<1>3. CountInv => ReportedIsRecorded
  BY DEF CountInv, CountAt, Success, ReportedIsRecorded
<1> QED BY <1>1, <1>2, <1>3, InitSerial, InitRecords, NextKeepsRecords, InitCount, Invariant, PTL DEF Spec

\* No issue claims more occurrences than runs were delivered for its fingerprint:
\* a re-run, a retried update or a second delivery of the same run counts once
\* (FailureRecord.absorb, "same occurrence identity does not bump count").
THEOREM RunsCountOnce ==
    ASSUME OneJobAtATime, NothingForgotten
    PROVE  Spec => []CountsRunsOnce
<1>1. IInv /\ IInv' /\ SerialInv /\ [Next]_vars => SerialInv'
  BY NextKeepsSerial
<1>2. IInv /\ IInv' /\ SerialInv /\ RecInv /\ CountInv /\ [Next]_vars => CountInv'
  BY NextKeepsCount
<1>3. IInv /\ RecInv /\ CountInv => CountsRunsOnce
  <2> SUFFICES ASSUME IInv, RecInv, CountInv, NEW n \in DOMAIN issues
               PROVE  issues[n].rec.count <= Cardinality(RunsOf(issues[n].fp))
    BY DEF CountsRunsOnce, RunsOf
  <2> DEFINE runs == issues[n].rec.runs
             fp   == issues[n].fp
  <2>1. issues[n] \in Issue /\ WellFormed(issues[n].rec)
    BY ElementOfSeq DEF IInv, TypeOK, RecInv, RecordsWellFormed
  <2>2. runs \in Seq(RunIds) /\ fp \in Fingerprints
    BY <2>1 DEF Issue, Record
  <2>3. issues[n].rec.count = Len(runs) /\ \A i \in DOMAIN runs : runs[i] \in RunsOf(fp)
    BY DEF CountInv, AllFit, Fits
  <2>4. \A i, j \in DOMAIN runs : runs[i] = runs[j] => i = j
    BY <2>1 DEF WellFormed, NoRunTwice
  <2>5. IsFiniteSet(RunsOf(fp))
    BY <2>2 DEF NothingForgotten
  <2> HIDE DEF runs, fp
  <2>6. Len(runs) <= Cardinality(RunsOf(fp))
    BY <2>2, <2>3, <2>4, <2>5, NoLongerThan
  <2> QED BY <2>3, <2>6 DEF fp
<1> QED BY <1>1, <1>2, <1>3, InitSerial, InitRecords, NextKeepsRecords, InitCount, Invariant, PTL DEF Spec

-----------------------------------------------------------------------------
(* Jobs that do not overlap implement the tracker *)

\* What the tracker sees of the issues: a run counted, a fingerprint open.
IsCounted(fp, r) == \E n \in DOMAIN issues : issues[n].fp = fp /\ Counted(issues[n].rec, r)
IsOpen(fp)       == \E n \in DOMAIN issues : issues[n].fp = fp /\ issues[n].status = "open"

LEMMA WhatIsTracked ==
    /\ CountedRuns = [fp \in Fingerprints |-> {r \in RunIds : IsCounted(fp, r)}]
    /\ OpenFingerprints = {fp \in Fingerprints : IsOpen(fp)}
    /\ CountedRuns' = [fp \in Fingerprints |-> {r \in RunIds : IsCounted(fp, r)'}]
    /\ OpenFingerprints' = {fp \in Fingerprints : IsOpen(fp)'}
<1>1. \A fp, r : (\E n \in Of(issues, fp) : Counted(issues[n].rec, r)) <=> IsCounted(fp, r)
  BY DEF Of, IsCounted
<1>2. \A fp : OpenOf(issues, fp) # {} <=> IsOpen(fp)
  BY DEF OpenOf, Of, IsOpen
<1>3. \A fp, r : (\E n \in Of(issues', fp) : Counted(issues'[n].rec, r)) <=> IsCounted(fp, r)'
  BY DEF Of, IsCounted
<1>4. \A fp : OpenOf(issues', fp) # {} <=> IsOpen(fp)'
  BY DEF OpenOf, Of, IsOpen
<1>5. CountedRuns = [fp \in Fingerprints |-> {r \in RunIds : IsCounted(fp, r)}]
  BY <1>1, Zenon DEF CountedRuns
<1>6. CountedRuns' = [fp \in Fingerprints |-> {r \in RunIds : IsCounted(fp, r)'}]
  BY <1>3, Zenon DEF CountedRuns
<1> QED BY <1>2, <1>4, <1>5, <1>6 DEF OpenFingerprints

\* The two steps of the tracker, said of the issues.
LEMMA OccurByParts ==
    ASSUME NEW fp \in Fingerprints, NEW r \in RunIds,
           \A g \in Fingerprints, q \in RunIds :
               IsCounted(g, q)' <=> IsCounted(g, q) \/ (g = fp /\ q = r),
           \A g \in Fingerprints : IsOpen(g)' <=> IsOpen(g) \/ g = fp
    PROVE  Tracker!Occur(fp, r)
<1>1. CountedRuns' = [CountedRuns EXCEPT ![fp] = @ \union {r}]
  <2> DEFINE C == [g \in Fingerprints |-> {q \in RunIds : IsCounted(g, q)}]
             D == [g \in Fingerprints |-> {q \in RunIds : IsCounted(g, q)'}]
  <2>1. ASSUME NEW g \in Fingerprints
        PROVE  D[g] = IF g = fp THEN C[fp] \union {r} ELSE C[g]
    OBVIOUS
  <2>2. D = [C EXCEPT ![fp] = @ \union {r}]
    BY <2>1
  <2> QED BY <2>2, WhatIsTracked
<1>2. OpenFingerprints' = OpenFingerprints \union {fp}
  BY WhatIsTracked
<1> QED BY <1>1, <1>2 DEF Tracker!Occur

LEMMA SameCounts ==
    ASSUME \A g \in Fingerprints, q \in RunIds : IsCounted(g, q)' <=> IsCounted(g, q)
    PROVE  UNCHANGED CountedRuns
<1>1. \A g \in Fingerprints :
        {q \in RunIds : IsCounted(g, q)'} = {q \in RunIds : IsCounted(g, q)}
  OBVIOUS
<1> QED BY <1>1, WhatIsTracked

LEMMA CloseByParts ==
    ASSUME NEW fp \in Fingerprints,
           \A g \in Fingerprints, q \in RunIds : IsCounted(g, q)' <=> IsCounted(g, q),
           \A g \in Fingerprints : g # fp => (IsOpen(g)' <=> IsOpen(g)),
           IsOpen(fp)' => IsOpen(fp)
    PROVE  [Tracker!Next]_(Tracker!vars)
<1>1. UNCHANGED CountedRuns
  BY SameCounts
<1>2. CASE IsOpen(fp)'
  <2>1. UNCHANGED OpenFingerprints
    BY <1>2, WhatIsTracked
  <2> QED BY <1>1, <2>1 DEF Tracker!vars
<1>3. CASE ~IsOpen(fp)'
  <2>1. OpenFingerprints' = OpenFingerprints \ {fp}
    BY <1>3, WhatIsTracked
  <2> QED BY <1>1, <2>1 DEF Tracker!Next, Tracker!Close
<1> QED BY <1>2, <1>3

\* The three writes, as steps of the tracker.
LEMMA RecordsTracks ==
    ASSUME NothingForgotten, IInv, IInv', RecInv, AllFit(issues),
           NEW d \in Deliveries, NEW n \in Of(issues, FpOf[d]), Records(d, n)
    PROVE  Tracker!Occur(FpOf[d], RunOf[d])
<1>1. /\ Grown /\ DOMAIN issues' = DOMAIN issues
      /\ \A m \in DOMAIN issues : m # n => issues'[m] = issues[m]
      /\ issues'[n].status = "open" /\ Adds(n, RunOf[d])
  BY RecordsEffect
<1>2. n \in DOMAIN issues /\ issues[n].fp = FpOf[d] /\ issues'[n].fp = FpOf[d]
  BY <1>1 DEF Of, Grown
<1>3. \A g \in Fingerprints, q \in RunIds :
         IsCounted(g, q)' <=> IsCounted(g, q) \/ (g = FpOf[d] /\ q = RunOf[d])
  BY <1>1, <1>2 DEF IsCounted, Adds
<1>4. \A g \in Fingerprints : IsOpen(g)' <=> IsOpen(g) \/ g = FpOf[d]
  BY <1>1, <1>2 DEF IsOpen
<1> QED BY <1>3, <1>4, OccurByParts

LEMMA OpensTracks ==
    ASSUME IInv, IInv', AllFit(issues), NEW d \in Deliveries, Opens(d)
    PROVE  Tracker!Occur(FpOf[d], RunOf[d])
<1> DEFINE e == Opened(d)
<1>1. /\ DOMAIN issues \subseteq DOMAIN issues'
      /\ \A m \in DOMAIN issues : issues'[m] = issues[m]
      /\ \A m \in DOMAIN issues' : m \notin DOMAIN issues => issues'[m] = e
      /\ \E m \in DOMAIN issues' : m \notin DOMAIN issues
  BY OpensEffect
<1>2. /\ e.fp = FpOf[d] /\ e.status = "open"
      /\ \A q : Counted(e.rec, q) <=> q = RunOf[d]
  BY FirstCounts
<1> HIDE DEF e
<1>3. \A g \in Fingerprints, q \in RunIds :
         IsCounted(g, q)' <=> IsCounted(g, q) \/ (g = FpOf[d] /\ q = RunOf[d])
  BY <1>1, <1>2 DEF IsCounted
<1>4. \A g \in Fingerprints : IsOpen(g)' <=> IsOpen(g) \/ g = FpOf[d]
  BY <1>1, <1>2 DEF IsOpen
<1> QED BY <1>3, <1>4, OccurByParts

LEMMA ClosesTracks ==
    ASSUME IInv, IInv', AllFit(issues), NEW n \in DOMAIN issues, Closes(n)
    PROVE  [Tracker!Next]_(Tracker!vars)
<1>1. /\ Grown /\ DOMAIN issues' = DOMAIN issues
      /\ \A m \in DOMAIN issues : m # n => issues'[m] = issues[m]
      /\ issues'[n].status # "open" /\ Keeps(n)
  BY ClosesEffect
<1>2. PICK fp \in Fingerprints : issues[n].fp = fp
  <2>1. issues[n] \in Issue
    BY ElementOfSeq DEF IInv, TypeOK
  <2> QED BY <2>1 DEF Issue
<1>3. issues'[n].fp = fp
  BY <1>1, <1>2 DEF Grown
<1>4. \A g \in Fingerprints, q \in RunIds : IsCounted(g, q)' <=> IsCounted(g, q)
  BY <1>1, <1>2, <1>3 DEF IsCounted, Keeps
<1>5. \A g \in Fingerprints : g # fp => (IsOpen(g)' <=> IsOpen(g))
  BY <1>1, <1>2, <1>3 DEF IsOpen
<1>6. IsOpen(fp)' => IsOpen(fp)
  BY <1>1, <1>2, <1>3 DEF IsOpen
<1> QED BY <1>4, <1>5, <1>6, CloseByParts

LEMMA WritesTrack ==
    ASSUME NothingForgotten, IInv, IInv', RecInv, AllFit(issues), Writes
    PROVE  [Tracker!Next]_(Tracker!vars)
<1>1. CASE UNCHANGED issues
  <2>1. \A g, q : IsCounted(g, q)' <=> IsCounted(g, q)
    BY <1>1 DEF IsCounted
  <2>2. \A g : IsOpen(g)' <=> IsOpen(g)
    BY <1>1 DEF IsOpen
  <2>3. UNCHANGED CountedRuns /\ UNCHANGED OpenFingerprints
    BY <2>1, <2>2, SameCounts, WhatIsTracked
  <2> QED BY <2>3 DEF Tracker!vars
<1>2. ASSUME NEW d \in Deliveries, Opens(d) \/ \E n \in Of(issues, FpOf[d]) : Records(d, n)
      PROVE  Tracker!Next
  <2>1. Tracker!Occur(FpOf[d], RunOf[d])
    BY <1>2, OpensTracks, RecordsTracks
  <2>2. FpOf[d] \in Fingerprints /\ RunOf[d] \in RunIds
    OBVIOUS
  <2> QED BY <2>1, <2>2 DEF Tracker!Next
<1>3. CASE \E n \in DOMAIN issues : Closes(n)
  BY <1>3, ClosesTracks
<1> QED BY <1>1, <1>2, <1>3 DEF Writes

LEMMA InitTracks == Init => Tracker!Init
<1> SUFFICES ASSUME Init PROVE Tracker!Init
  OBVIOUS
<1>1. DOMAIN issues = {}
  BY DEF Init
<1>2. \A g, q : ~IsCounted(g, q) /\ ~IsOpen(g)
  BY <1>1 DEF IsCounted, IsOpen
<1>3. CountedRuns = [g \in Fingerprints |-> {}]
  BY <1>2, WhatIsTracked
<1>4. OpenFingerprints = {}
  BY <1>2, WhatIsTracked
<1> QED BY <1>3, <1>4 DEF Tracker!Init

\* Jobs that do not overlap implement the tracker, whatever calls fail or are
\* repeated: every step adds the run of one delivery and opens its fingerprint,
\* closes a fingerprint without forgetting a run, or changes neither
\* (IssuesHistoryStore._sync and close_stale, resolve_issue).
THEOREM SerialJobsTrack ==
    ASSUME OneJobAtATime, NothingForgotten
    PROVE  Spec => ImplementsTracker
<1>1. IInv /\ IInv' /\ SerialInv /\ [Next]_vars => SerialInv'
  BY NextKeepsSerial
<1>2. IInv /\ IInv' /\ SerialInv /\ RecInv /\ CountInv /\ [Next]_vars => CountInv'
  BY NextKeepsCount
<1>3. IInv /\ IInv' /\ SerialInv /\ RecInv /\ CountInv /\ [Next]_vars =>
        [Tracker!Next]_(Tracker!vars)
  BY SerialWrites, WritesTrack DEF CountInv
<1> QED BY <1>1, <1>2, <1>3, InitSerial, InitRecords, NextKeepsRecords, InitCount, InitTracks,
           Invariant, PTL DEF Spec, ImplementsTracker, Tracker!Spec
=============================================================================
