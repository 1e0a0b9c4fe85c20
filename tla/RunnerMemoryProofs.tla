--------------------------- MODULE RunnerMemoryProofs ---------------------------
(***************************************************************************)
(* Proofs about RunnerMemory, for any number of jobs, runs, workflows,     *)
(* branches and templates, and for any overlap, eviction and release.      *)
(***************************************************************************)
EXTENDS RunnerMemory, FiniteSetTheorems, WellFoundedInduction, TLAPS

\* The k-th of the reports is of the failure a record is of.
OfSame(reps, k, rec) == k \in DOMAIN reps /\ reps[k].fine = rec.fine

IsSeq(s) == Len(s) \in Nat /\ s = [k \in 1 .. Len(s) |-> s[k]]

\* The reports of a record's failure, those of them before the i-th, the runs of some reports.
Times(reps, rec) == {k \in DOMAIN reps : OfSame(reps, k, rec)}
TimesUpTo(reps, i, rec) == {k \in Times(reps, rec) : k < i}
RunsOf(reps, times) == {reps[k].run : k \in times}

\* A record counts each of its runs once, or has forgotten one.
CountGood(reps, rec) ==
    /\ rec.count \in Nat /\ rec.count <= Cardinality(Times(reps, rec))
    /\ IsSeq(rec.runs) /\ 1 <= Len(rec.runs) /\ Len(rec.runs) <= RunIdCap
    /\ Recalled(rec) \subseteq RunsOf(reps, Times(reps, rec))
    /\ \/ RunIdCap < Cardinality(RunsOf(reps, Times(reps, rec)))
       \/ rec.count = Len(rec.runs) /\ Cardinality(Recalled(rec)) = Len(rec.runs)

\* What that says of the count alone.
Counted(reps, times, count) ==
    /\ count \in Nat /\ count <= Cardinality(times)
    /\ RunIdCap < Cardinality(RunsOf(reps, times)) \/ count <= Cardinality(RunsOf(reps, times))

Fields == {"fine", "masking", "runs", "count", "branches", "templates", "seen"}

\* What a record claims has been reported: its runs, as many as it counts, its
\* branches and its masking.
RecordGood(reps, rec) ==
    /\ Fields \subseteq DOMAIN rec /\ CountGood(reps, rec)
    /\ \A b \in rec.branches :
         \E k \in DOMAIN reps : OfSame(reps, k, rec) /\ BranchOf[reps[k].run] = b
    /\ \E k \in DOMAIN reps : OfSame(reps, k, rec) /\ reps[k].masking = rec.masking
    /\ rec.seen \in 0 .. Len(reps)

StoreGood(reps, store) == \A rec \in Records(store) : RecordGood(reps, rec)

\* What a baseline has lines of, a run it may have learned from has lines of.
BaseGood(learned, base) ==
    Available(base) =>
        /\ base \in Log
        /\ \A t \in Templates : base[t] > 0 => \E r \in learned : LogOf[r][t] > 0

ReportGood(reps, i) ==
    LET c == reps[i]
        before == {k \in DOMAIN reps : k < i} IN
    c.match # "new" =>
        /\ \E k \in before : OfSame(reps, k, c.rec)
        /\ Counted(reps, TimesUpTo(reps, i, c.rec), c.rec.count)
        /\ c.match = "exact" => /\ c.rec.fine = c.fine
                                /\ \E k \in before : OfSame(reps, k, c.rec)
                                                     /\ reps[k].masking = c.masking
        /\ c.cross => \E k \in before : /\ OfSame(reps, k, c.rec)
                                        /\ BranchOf[reps[k].run] # BranchOf[c.run]
        /\ c.drift <=> c.rec.masking # c.masking
        /\ c.drift => c.match = "similar"

Shape ==
    /\ IsSeq(collected)
    /\ DOMAIN drains = Workflows /\ DOMAIN stores = Workflows /\ DOMAIN job = Jobs
    /\ \A j \in Jobs : DOMAIN job[j] = DOMAIN Fresh

\* A job under way has a run, and two directories of which all this is true.
JobGood(x) ==
    /\ x.pc \in {"ready", "ran"} => x.run \in RunIds
    /\ BaseGood(trained, x.base) /\ StoreGood(collected, x.store)

CachesGood ==
    \A w \in Workflows : /\ drains[w] # Nothing => BaseGood(trained, drains[w].dir)
                         /\ stores[w] # Nothing => StoreGood(collected, stores[w].dir)

IInv ==
    /\ Shape
    /\ \A i \in Reports : ReportGood(collected, i)
    /\ \A j \in Jobs : JobGood(job[j])
    /\ CachesGood

-----------------------------------------------------------------------------
(* Sequences of reports *)

LEMMA Appended ==
    ASSUME NEW s, IsSeq(s), NEW e
    PROVE  /\ IsSeq(Append(s, e)) /\ Len(Append(s, e)) = Len(s) + 1
           /\ DOMAIN s = 1 .. Len(s) /\ DOMAIN Append(s, e) = 1 .. Len(s) + 1
           /\ \A k \in 1 .. Len(s) : Append(s, e)[k] = s[k]
           /\ Append(s, e)[Len(s) + 1] = e
<1> DEFINE R == {s[k] : k \in 1 .. Len(s)} \union {e}
<1>1. s \in Seq(R) /\ e \in R
  BY DEF IsSeq
<1> HIDE DEF R
<1>2. Append(s, e) \in Seq(R) /\ Len(Append(s, e)) = Len(s) + 1
  BY <1>1
<1>3. /\ DOMAIN s = 1 .. Len(s) /\ DOMAIN Append(s, e) = 1 .. Len(s) + 1
      /\ \A k \in 1 .. Len(s) : Append(s, e)[k] = s[k]
      /\ Append(s, e)[Len(s) + 1] = e
  BY <1>1
<1>4. IsSeq(Append(s, e))
  <2> DEFINE t == Append(s, e)
  <2>1. t \in Seq(R)
    BY <1>2
  <2> HIDE DEF t
  <2>2. t = [k \in 1 .. Len(t) |-> t[k]] /\ Len(t) \in Nat
    BY <2>1
  <2> QED BY <2>2 DEF IsSeq, t
<1> QED BY <1>2, <1>3, <1>4

LEMMA ImageIsFinite ==
    ASSUME NEW S, IsFiniteSet(S), NEW T, NEW f \in [S -> T]
    PROVE  IsFiniteSet({f[x] : x \in S})
<1> DEFINE U == {f[x] : x \in S}
<1>1. f \in Surjection(S, U)
  <2>1. f \in [S -> U]
    OBVIOUS
  <2> QED BY <2>1 DEF Surjection
<1> HIDE DEF U
<1>2. IsFiniteSet(U)
  BY <1>1, FS_Surjection DEF ExistsSurjection
<1> QED BY <1>2 DEF U

\* Finitely many reports are of finitely many runs.
LEMMA RunsAreFinite ==
    ASSUME NEW s, IsSeq(s), NEW times, times \subseteq DOMAIN s
    PROVE  IsFiniteSet(times) /\ IsFiniteSet(RunsOf(s, times))
<1>1. IsFiniteSet(times)
  <2>1. DOMAIN s = 1 .. Len(s) /\ Len(s) \in Int
    BY DEF IsSeq
  <2>2. IsFiniteSet(DOMAIN s)
    BY <2>1, FS_Interval
  <2> QED BY <2>2, FS_Subset
<1>2. IsFiniteSet(RunsOf(s, times))
  <2> DEFINE f == [k \in times |-> s[k].run]
             T == {s[k].run : k \in times}
  <2>1. RunsOf(s, times) = {f[k] : k \in times}
    BY DEF RunsOf
  <2>2. f \in [times -> T]
    OBVIOUS
  <2> HIDE DEF f, T
  <2>3. IsFiniteSet({f[k] : k \in times})
    BY <1>1, <2>2, ImageIsFinite
  <2> QED BY <2>1, <2>3
<1> QED BY <1>1, <1>2

\* More reports only say more of what is counted.
LEMMA CountGrows ==
    ASSUME NEW s, IsSeq(s), NEW e, NEW rec, CountGood(s, rec)
    PROVE  CountGood(Append(s, e), rec)
<1> DEFINE t == Append(s, e)
           before == Times(s, rec)
           after  == Times(t, rec)
<1>1. /\ IsSeq(t) /\ Len(s) \in Nat
      /\ DOMAIN s = 1 .. Len(s) /\ DOMAIN t = 1 .. Len(s) + 1
      /\ \A k \in DOMAIN s : t[k] = s[k]
  BY Appended DEF IsSeq
<1> HIDE DEF t
<1>2. before \subseteq after /\ before \subseteq DOMAIN s /\ after \subseteq DOMAIN t
      /\ RunsOf(s, before) \subseteq RunsOf(t, after)
  BY <1>1 DEF Times, OfSame, RunsOf
<1>3. IsFiniteSet(before) /\ IsFiniteSet(after)
      /\ IsFiniteSet(RunsOf(s, before)) /\ IsFiniteSet(RunsOf(t, after))
  BY <1>1, <1>2, RunsAreFinite
<1>4. /\ Cardinality(before) \in Nat /\ Cardinality(after) \in Nat
      /\ Cardinality(before) <= Cardinality(after)
  BY <1>2, <1>3, FS_CardinalityType, FS_Subset
<1>5. /\ Cardinality(RunsOf(s, before)) \in Nat /\ Cardinality(RunsOf(t, after)) \in Nat
      /\ Cardinality(RunsOf(s, before)) <= Cardinality(RunsOf(t, after))
  BY <1>2, <1>3, FS_CardinalityType, FS_Subset
<1>6. rec.count \in Nat /\ rec.count <= Cardinality(after)
  BY <1>4 DEF CountGood
<1>7. RunIdCap < Cardinality(RunsOf(s, before)) => RunIdCap < Cardinality(RunsOf(t, after))
  BY <1>5, RunIdCapAssumption
<1>8. Recalled(rec) \subseteq RunsOf(t, after)
  BY <1>2 DEF CountGood
<1>9. CountGood(t, rec)
  BY <1>6, <1>7, <1>8 DEF CountGood
<1> QED BY <1>9 DEF t

\* What a record counts, its runs bear out.
LEMMA CountGoodSays ==
    ASSUME NEW s, IsSeq(s), NEW rec, CountGood(s, rec)
    PROVE  Counted(s, Times(s, rec), rec.count)
<1> DEFINE runs == RunsOf(s, Times(s, rec))
<1>1. IsFiniteSet(runs)
  BY RunsAreFinite DEF Times
<1> HIDE DEF runs
<1>2. /\ Recalled(rec) \subseteq runs
      /\ RunIdCap < Cardinality(runs) \/ rec.count = Cardinality(Recalled(rec))
  BY DEF CountGood, runs
<1>3. Cardinality(Recalled(rec)) <= Cardinality(runs)
  BY <1>1, <1>2, FS_Subset
<1>4. RunIdCap < Cardinality(runs) \/ rec.count <= Cardinality(runs)
  BY <1>2, <1>3
<1> QED BY <1>4 DEF CountGood, Counted, runs

LEMMA RecordGrows ==
    ASSUME NEW s, IsSeq(s), NEW e, NEW rec, RecordGood(s, rec)
    PROVE  RecordGood(Append(s, e), rec)
<1> DEFINE t == Append(s, e)
<1>1. /\ Len(s) \in Nat /\ Len(t) = Len(s) + 1
      /\ DOMAIN s = 1 .. Len(s) /\ DOMAIN t = 1 .. Len(s) + 1
      /\ \A k \in DOMAIN s : t[k] = s[k]
  BY Appended DEF IsSeq
<1>2. CountGood(t, rec)
  BY CountGrows DEF RecordGood
<1> HIDE DEF t
<1>3. \A k \in DOMAIN s : OfSame(s, k, rec) => k \in DOMAIN t /\ OfSame(t, k, rec) /\ t[k] = s[k]
  BY <1>1 DEF OfSame
<1>4. rec.seen \in 0 .. Len(t)
  BY <1>1 DEF RecordGood
<1> QED BY <1>2, <1>3, <1>4 DEF RecordGood, t

LEMMA StoreGrows ==
    ASSUME NEW s, IsSeq(s), NEW e, NEW store, StoreGood(s, store)
    PROVE  StoreGood(Append(s, e), store)
BY RecordGrows DEF StoreGood

LEMMA ReportStays ==
    ASSUME NEW s, IsSeq(s), NEW e, NEW i \in DOMAIN s, ReportGood(s, i)
    PROVE  ReportGood(Append(s, e), i)
<1> DEFINE t == Append(s, e)
<1>1. /\ Len(s) \in Nat
      /\ DOMAIN s = 1 .. Len(s) /\ DOMAIN t = 1 .. Len(s) + 1
      /\ \A k \in DOMAIN s : t[k] = s[k]
  BY Appended DEF IsSeq
<1> HIDE DEF t
<1>2. {k \in DOMAIN t : k < i} = {k \in DOMAIN s : k < i} /\ t[i] = s[i]
  BY <1>1
<1>3. \A k \in DOMAIN s : \A rec : OfSame(s, k, rec) <=> OfSame(t, k, rec)
  BY <1>1 DEF OfSame
<1>4. \A rec : TimesUpTo(s, i, rec) = TimesUpTo(t, i, rec) /\ TimesUpTo(s, i, rec) \subseteq DOMAIN s
  BY <1>1, <1>2, <1>3 DEF TimesUpTo, Times
<1>5. \A rec : RunsOf(s, TimesUpTo(s, i, rec)) = RunsOf(t, TimesUpTo(t, i, rec))
  BY <1>1, <1>4 DEF RunsOf
<1>6. \A rec : Counted(s, TimesUpTo(s, i, rec), rec.count) <=> Counted(t, TimesUpTo(t, i, rec), rec.count)
  BY <1>4, <1>5 DEF Counted
<1> QED BY <1>1, <1>2, <1>3, <1>6 DEF ReportGood, t

-----------------------------------------------------------------------------
(* The operations of the history                                           *)

\* Of records that have been seen there is a latest one.
LEMMA LatestIsOne ==
    ASSUME NEW n \in Nat, NEW recs, recs # {}, \A rec \in recs : rec.seen \in 0 .. n
    PROVE  Latest(recs) \in recs
<1> DEFINE Ages == {n - rec.seen : rec \in recs}
<1>1. Ages \subseteq Nat /\ Ages # {}
  OBVIOUS
<1>2. PICK age \in Ages : \A other \in Ages : <<other, age>> \notin OpToRel(<, Nat)
  BY <1>1, NatLessThanWellFounded, WFMin
<1>3. PICK rec \in recs : age = n - rec.seen
  BY <1>2
<1>4. \A other \in recs : other.seen <= rec.seen
  <2> SUFFICES ASSUME NEW other \in recs PROVE other.seen <= rec.seen
    OBVIOUS
  <2>1. n - other.seen \in Ages /\ n - other.seen \in Nat /\ age \in Nat
    BY <1>1
  <2>2. ~(n - other.seen < age)
    BY <1>2, <2>1 DEF OpToRel
  <2> QED BY <1>3, <2>2
<1> QED BY <1>4 DEF Latest

\* What a look-up finds is a record of the store; it is of the same masking
\* unless the overlap of templates alone has found it.
LEMMA LookupFinds ==
    ASSUME NEW reps, Len(reps) \in Nat, NEW store, StoreGood(reps, store), NEW new,
           NEW hit \in LookupRecurrence(store, new), hit.match # "new"
    PROVE  /\ hit.rec \in Records(store)
           /\ hit.drift <=> hit.rec.masking # new.masking
           /\ hit.drift => hit.match = "similar"
           /\ hit.match = "exact" => hit.rec.fine = new.fine /\ hit.rec.masking = new.masking
<1> DEFINE exact  == MaskedAlike(RecordOf(store, new.fine), new.masking)
           coarse == MaskedAlike(CoarseOf(store, new.coarse), new.masking)
<1>1. CASE exact # {}
  <2>1. PICK rec \in exact : hit = [match |-> "exact", rec |-> rec, drift |-> FALSE]
    BY <1>1 DEF LookupRecurrence
  <2> QED BY <2>1 DEF MaskedAlike, RecordOf
<1>2. CASE exact = {} /\ coarse # {}
  <2>1. hit = [match |-> "similar", rec |-> Latest(coarse), drift |-> FALSE]
    BY <1>2 DEF LookupRecurrence
  <2>2. \A rec \in coarse : rec.seen \in 0 .. Len(reps)
    BY DEF StoreGood, RecordGood, MaskedAlike, CoarseOf
  <2> HIDE DEF exact, coarse
  <2>3. Latest(coarse) \in coarse
    BY <1>2, <2>2, LatestIsOne
  <2> QED BY <2>1, <2>3 DEF coarse, MaskedAlike, CoarseOf
<1>3. CASE exact = {} /\ coarse = {}
  <2>1. hit \in ByOverlap(store, new)
    BY <1>3 DEF LookupRecurrence
  <2>2. \/ hit = NoMatch
        \/ \E rec \in Records(store) :
             hit = [match |-> "similar", rec |-> rec, drift |-> rec.masking # new.masking]
    BY <2>1 DEF ByOverlap
  <2>3. hit # NoMatch
    BY DEF NoMatch
  <2>4. PICK rec \in Records(store) :
          hit = [match |-> "similar", rec |-> rec, drift |-> rec.masking # new.masking]
    BY <2>2, <2>3
  <2> QED BY <2>4
<1> QED BY <1>1, <1>2, <1>3

\* A record of the run that fails now, once its report is there.
LEMMA NewIsGood ==
    ASSUME NEW s, IsSeq(s), NEW new, NEW e, NEW r, Fields \subseteq DOMAIN new,
           e.fine = new.fine, e.masking = new.masking, e.run = r,
           new.runs = <<r>>, new.branches = {BranchOf[r]}, new.count = 1, new.seen = Len(s)
    PROVE  RecordGood(Append(s, e), new)
<1> DEFINE t == Append(s, e)
           n == Len(s) + 1
<1>1. n \in DOMAIN t /\ t[n] = e /\ Len(t) = Len(s) + 1 /\ Len(s) \in Nat /\ IsSeq(t)
  BY Appended DEF IsSeq
<1> HIDE DEF t, n
<1>2. OfSame(t, n, new)
  BY <1>1 DEF OfSame
<1>3. CountGood(t, new)
  <2>1. Recalled(new) = {r} /\ Len(new.runs) = 1 /\ IsSeq(new.runs)
    BY DEF Recalled, IsSeq
  <2>2. Cardinality({r}) = 1 /\ Cardinality({n}) = 1
    BY FS_Singleton
  <2>3. n \in Times(t, new) /\ r \in RunsOf(t, Times(t, new))
    BY <1>1, <1>2 DEF Times, RunsOf
  <2>4. IsFiniteSet(Times(t, new))
    BY <1>1, RunsAreFinite DEF Times
  <2>5. 1 <= Cardinality(Times(t, new))
    <3>1. {n} \subseteq Times(t, new)
      BY <2>3
    <3> QED BY <2>2, <2>4, <3>1, FS_Subset
  <2> QED BY <2>1, <2>2, <2>3, <2>5, RunIdCapAssumption DEF CountGood
<1>4. new.seen \in 0 .. Len(t)
  BY <1>1
<1>5. \A b \in new.branches : OfSame(t, n, new) /\ BranchOf[t[n].run] = b
  BY <1>1, <1>2
<1>6. RecordGood(t, new)
  BY <1>1, <1>2, <1>3, <1>4, <1>5 DEF RecordGood
<1> QED BY <1>6 DEF t

Elements(q) == {q[k] : k \in DOMAIN q}

LEMMA Remembered ==
    ASSUME NEW ids, IsSeq(ids), 1 <= Len(ids), Len(ids) <= RunIdCap, NEW r,
           NEW after, after = Remember(ids, r)
    PROVE  /\ IsSeq(after) /\ 1 <= Len(after) /\ Len(after) <= RunIdCap
           /\ Elements(after) \subseteq Elements(ids) \union {r}
           /\ Len(ids) < RunIdCap =>
                 /\ Len(after) = Len(ids) + 1
                 /\ Elements(after) = Elements(ids) \union {r}
<1> DEFINE R == {ids[k] : k \in 1 .. Len(ids)}
<1>0. Len(ids) \in Nat /\ RunIdCap \in Nat \ {0} /\ DOMAIN ids = 1 .. Len(ids)
  BY RunIdCapAssumption DEF IsSeq
<1>1. CASE Len(ids) < RunIdCap
  <2>1. after = Append(ids, r)
    BY <1>1 DEF Remember
  <2>2. /\ IsSeq(after) /\ Len(after) = Len(ids) + 1 /\ DOMAIN after = 1 .. Len(ids) + 1
        /\ \A k \in 1 .. Len(ids) : after[k] = ids[k]
        /\ after[Len(ids) + 1] = r
    BY <2>1, Appended
  <2>3. Elements(after) = Elements(ids) \union {r}
    BY <1>0, <2>2 DEF Elements
  <2> QED BY <1>0, <1>1, <2>2, <2>3
<1>2. CASE ~(Len(ids) < RunIdCap)
  <2> DEFINE tail == Tail(ids)
  <2>1. after = Append(tail, r)
    BY <1>2 DEF Remember
  <2>2. /\ Len(tail) = Len(ids) - 1 /\ DOMAIN tail = 1 .. Len(ids) - 1 /\ Len(tail) \in Nat
        /\ \A k \in 1 .. Len(ids) - 1 : tail[k] = ids[k + 1]
        /\ tail = [k \in 1 .. Len(tail) |-> tail[k]]
    <3>1. ids \in Seq(R)
      BY DEF IsSeq
    <3> HIDE DEF R
    <3>2. tail \in Seq(R) /\ Len(tail) = Len(ids) - 1
      BY <1>0, <3>1
    <3>3. \A k \in 1 .. Len(ids) - 1 : tail[k] = ids[k + 1]
      BY <1>0, <3>1
    <3> HIDE DEF tail
    <3> QED BY <1>0, <3>2, <3>3
  <2> HIDE DEF tail
  <2>3. /\ IsSeq(after) /\ Len(after) = Len(tail) + 1 /\ DOMAIN after = 1 .. Len(tail) + 1
        /\ \A k \in 1 .. Len(tail) : after[k] = tail[k]
        /\ after[Len(tail) + 1] = r
    <3>1. IsSeq(tail)
      BY <2>2 DEF IsSeq
    <3> QED BY <2>1, <3>1, Appended
  <2>4. Elements(after) \subseteq Elements(ids) \union {r}
    <3> SUFFICES ASSUME NEW k \in DOMAIN after, after[k] # r PROVE after[k] \in Elements(ids)
      BY DEF Elements
    <3>1. k \in 1 .. Len(ids) - 1 /\ after[k] = ids[k + 1] /\ k + 1 \in DOMAIN ids
      BY <1>0, <2>2, <2>3
    <3> QED BY <3>1 DEF Elements
  <2>5. IsSeq(after) /\ 1 <= Len(after) /\ Len(after) <= RunIdCap
    BY <1>0, <2>2, <2>3
  <2> QED BY <1>2, <2>4, <2>5
<1> QED BY <1>1, <1>2

\* A run the record does not recall: one more report of it, one more counted.
LEMMA AbsorbCounts ==
    ASSUME NEW s, IsSeq(s), NEW e, NEW old, CountGood(s, old), NEW r, e.run = r, e.fine = old.fine,
           r \notin Recalled(old), NEW a, a.fine = old.fine, a.count = old.count + 1,
           a.runs = Remember(old.runs, r)
    PROVE  CountGood(Append(s, e), a)
<1> DEFINE t == Append(s, e)
           n == Len(s) + 1
           before == Times(s, old)
           after  == Times(t, a)
           runs   == RunsOf(t, after)
<1>1. /\ IsSeq(t) /\ Len(s) \in Nat /\ t[n] = e
      /\ DOMAIN s = 1 .. Len(s) /\ DOMAIN t = 1 .. n
      /\ \A k \in DOMAIN s : t[k] = s[k]
  BY Appended DEF IsSeq
<1> HIDE DEF t
<1>2. after = before \union {n} /\ n \notin before /\ before \subseteq DOMAIN s /\ after \subseteq DOMAIN t
  BY <1>1 DEF Times, OfSame
<1>3. RunsOf(s, before) \union {r} \subseteq runs
  BY <1>1, <1>2 DEF RunsOf
<1>4. IsFiniteSet(before) /\ IsFiniteSet(RunsOf(s, before)) /\ IsFiniteSet(runs)
  BY <1>1, <1>2, RunsAreFinite
<1>5. Cardinality(after) = Cardinality(before) + 1 /\ Cardinality(before) \in Nat
  BY <1>2, <1>4, FS_AddElement, FS_CardinalityType
<1> DEFINE kept == Recalled(old)
           size == Len(old.runs)
           all  == RunsOf(s, before)
<1>6. /\ old.count \in Nat /\ old.count <= Cardinality(before)
      /\ IsSeq(old.runs) /\ 1 <= size /\ size <= RunIdCap /\ kept \subseteq all
      /\ RunIdCap < Cardinality(all) \/ (old.count = size /\ Cardinality(kept) = size)
  BY DEF CountGood
<1>7. /\ IsSeq(a.runs) /\ 1 <= Len(a.runs) /\ Len(a.runs) <= RunIdCap
      /\ Recalled(a) \subseteq kept \union {r}
      /\ size < RunIdCap => Len(a.runs) = size + 1 /\ Recalled(a) = kept \union {r}
  <2>1. Recalled(old) = Elements(old.runs) /\ Recalled(a) = Elements(a.runs)
    BY DEF Recalled, Elements
  <2> QED BY <1>6, <2>1, Remembered
<1>8. r \notin kept
  OBVIOUS
<1> HIDE DEF before, after, runs, kept, all, size
<1>9. a.count \in Nat /\ a.count <= Cardinality(after)
  BY <1>5, <1>6
<1>10. Recalled(a) \subseteq runs
  BY <1>3, <1>6, <1>7 DEF all
<1>11. IsFiniteSet(kept) /\ IsFiniteSet(kept \union {r}) /\ Cardinality(kept) \in Nat
       /\ Cardinality(kept \union {r}) = Cardinality(kept) + 1
  <2>1. IsFiniteSet(kept)
    BY <1>4, <1>6, FS_Subset DEF all
  <2> QED BY <1>8, <2>1, FS_AddElement, FS_CardinalityType
<1>12. /\ Cardinality(all) <= Cardinality(runs) /\ Cardinality(kept) + 1 <= Cardinality(runs)
       /\ Cardinality(all) \in Nat /\ Cardinality(runs) \in Nat
  <2>1. all \subseteq runs /\ kept \union {r} \subseteq runs
    BY <1>3, <1>6 DEF all
  <2> QED BY <1>4, <1>11, <2>1, FS_Subset, FS_CardinalityType DEF all
<1>13. size \in Nat /\ RunIdCap \in Nat
  BY <1>6, RunIdCapAssumption DEF IsSeq, size
<1>14. \/ RunIdCap < Cardinality(runs)
       \/ a.count = Len(a.runs) /\ Cardinality(Recalled(a)) = Len(a.runs)
  <2>1. CASE RunIdCap < Cardinality(all)
    BY <1>12, <1>13, <2>1
  <2>2. CASE old.count = size /\ Cardinality(kept) = size /\ size < RunIdCap
    BY <1>7, <1>11, <2>2
  <2>3. CASE Cardinality(kept) = size /\ ~(size < RunIdCap)
    BY <1>12, <1>13, <2>3
  <2> QED BY <1>6, <2>1, <2>2, <2>3
<1>15. CountGood(t, a)
  BY <1>7, <1>9, <1>10, <1>14 DEF CountGood, after, runs
<1> QED BY <1>15 DEF t

LEMMA AbsorbIsGood ==
    ASSUME NEW s, IsSeq(s), NEW e, NEW r, e.run = r, NEW old, RecordGood(s, old),
           NEW new, RecordGood(Append(s, e), new), e.fine = new.fine, old.fine = new.fine, new.runs = <<r>>
    PROVE  RecordGood(Append(s, e), Absorb(old, new))
<1> DEFINE t == Append(s, e)
<1>0. RecordGood(t, old)
  BY RecordGrows
<1>1. Recalled(new) = {r}
  BY DEF Recalled
<1>2. CASE r \in Recalled(old)
  BY <1>0, <1>1, <1>2 DEF Absorb
<1>3. CASE r \notin Recalled(old)
  <2> DEFINE a == Absorb(old, new)
  <2>1. a = [old EXCEPT !.runs      = Remember(@, new.runs[1]),
                        !.count     = @ + 1,
                        !.branches  = @ \union new.branches,
                        !.templates = IF new.templates = {} THEN @ ELSE new.templates,
                        !.masking   = new.masking,
                        !.seen      = new.seen]
    BY <1>1, <1>3 DEF Absorb
  <2>2. Fields \subseteq DOMAIN old
    BY DEF RecordGood
  <2>3. /\ a.runs = Remember(old.runs, r) /\ a.count = old.count + 1
        /\ a.branches = old.branches \union new.branches
        /\ a.fine = old.fine /\ a.masking = new.masking /\ a.seen = new.seen
        /\ Fields \subseteq DOMAIN a
    BY <2>1, <2>2 DEF Fields
  <2> HIDE DEF a
  <2>4. CountGood(t, a)
    BY <1>3, <2>3, AbsorbCounts DEF RecordGood
  <2> HIDE DEF t
  <2>5. \A k : OfSame(t, k, old) \/ OfSame(t, k, new) => OfSame(t, k, a)
    BY <2>3 DEF OfSame
  <2>6. \A b \in a.branches : \E k \in DOMAIN t : OfSame(t, k, a) /\ BranchOf[t[k].run] = b
    BY <1>0, <2>3, <2>5 DEF RecordGood, t
  <2>7. \E k \in DOMAIN t : OfSame(t, k, a) /\ t[k].masking = a.masking
    BY <2>3, <2>5 DEF RecordGood, t
  <2>8. a.seen \in 0 .. Len(t)
    BY <2>3 DEF RecordGood, t
  <2>9. RecordGood(t, a)
    BY <2>3, <2>4, <2>6, <2>7, <2>8 DEF RecordGood
  <2> QED BY <2>9 DEF a, t
<1> QED BY <1>2, <1>3

LEMMA UpsertIsGood ==
    ASSUME NEW s, IsSeq(s), NEW e, NEW r, e.run = r, NEW store, StoreGood(s, store),
           NEW new, RecordGood(Append(s, e), new), e.fine = new.fine, new.runs = <<r>>
    PROVE  StoreGood(Append(s, e), Upsert(store, new))
<1> DEFINE old == RecordOf(store, new.fine)
           o   == CHOOSE o \in old : TRUE
           x   == IF old = {} THEN new ELSE Absorb(o, new)
<1>1. Upsert(store, new) = (Records(store) \ old) \union {x}
  BY DEF Upsert
<1> DEFINE t == Append(s, e)
<1>2. RecordGood(t, x)
  <2>1. CASE old # {}
    <3>1. o \in old
      BY <2>1
    <3>2. RecordGood(s, o) /\ o.fine = new.fine
      BY <3>1 DEF StoreGood, RecordOf
    <3> HIDE DEF o, old
    <3> QED BY <2>1, <3>2, AbsorbIsGood
  <2> QED BY <2>1
<1> HIDE DEF x, old
<1> DEFINE up == (Records(store) \ old) \union {x}
<1>3. \A rec \in up : RecordGood(t, rec)
  <2>1. \A rec \in Records(store) : RecordGood(t, rec)
    BY RecordGrows DEF StoreGood
  <2> QED BY <1>2, <2>1
<1>4. Records(up) \subseteq up
  BY DEF Records
<1> QED BY <1>1, <1>3, <1>4 DEF StoreGood

-----------------------------------------------------------------------------
(* The steps                                                               *)

\* Nothing is reported and nothing learned: what is left to show.
LEMMA QuietStep ==
    ASSUME IInv, UNCHANGED <<collected, trained>>,
           DOMAIN drains' = Workflows, DOMAIN stores' = Workflows, DOMAIN job' = Jobs,
           \A j \in Jobs : DOMAIN job'[j] = DOMAIN Fresh /\ JobGood(job'[j]),
           \A w \in Workflows : /\ drains'[w] # Nothing => BaseGood(trained, drains'[w].dir)
                                /\ stores'[w] # Nothing => StoreGood(collected, stores'[w].dir)
    PROVE  IInv'
<1>1. Shape'
  BY DEF IInv, Shape
<1>2. (\A i \in Reports : ReportGood(collected, i))'
  BY DEF IInv, Reports
<1>3. (\A j \in Jobs : JobGood(job[j]))'
  BY DEF JobGood
<1>4. CachesGood'
  BY DEF CachesGood
<1> QED BY <1>1, <1>2, <1>3, <1>4 DEF IInv

LEMMA FreshIsGood ==
    ASSUME NEW x, x.base = NoBaseline, x.store = Nothing, x.pc \notin {"ready", "ran"}
    PROVE  JobGood(x)
BY DEF JobGood, BaseGood, Available, StoreGood, Records

LEMMA RestoreStep == ASSUME IInv, NEW j \in Jobs, NEW r \in RunIds, Restore(j, r) PROVE IInv'
<1> DEFINE w == WorkflowOf[r]
           x == [pc |-> "ready", run |-> r, base |-> RestoredBase(w), store |-> RestoredStore(w),
                 drainHit |-> drains[w] # Nothing, storeHit |-> stores[w] # Nothing]
<1>1. job' = [job EXCEPT ![j] = x] /\ UNCHANGED <<drains, stores, collected, trained>>
  BY DEF Restore
<1>2. w \in Workflows
  BY DEF Workflows
<1>3. BaseGood(trained, RestoredBase(w))
  BY <1>2 DEF IInv, CachesGood, RestoredBase, BaseGood, Available
<1>4. StoreGood(collected, RestoredStore(w))
  <2>1. CASE stores[w] # Nothing
    BY <1>2, <2>1 DEF IInv, CachesGood, RestoredStore
  <2>2. CASE stores[w] = Nothing /\ Newest(stores) # {}
    <3> DEFINE v == CHOOSE v \in Newest(stores) : TRUE
    <3>1. v \in Workflows /\ stores[v] # Nothing
      BY <2>2 DEF Newest
    <3> QED BY <2>2, <3>1 DEF IInv, CachesGood, RestoredStore
  <2>3. CASE stores[w] = Nothing /\ Newest(stores) = {}
    BY <2>3 DEF RestoredStore, StoreGood, Records
  <2> QED BY <2>1, <2>2, <2>3
<1>5. JobGood(x) /\ DOMAIN x = DOMAIN Fresh
  BY <1>3, <1>4 DEF JobGood, Fresh
<1> HIDE DEF x
<1>6. DOMAIN job = Jobs /\ DOMAIN drains = Workflows /\ DOMAIN stores = Workflows
  BY DEF IInv, Shape
<1>7. \A k \in Jobs : job'[k] = IF k = j THEN x ELSE job[k]
  BY <1>1, <1>6
<1>8. \A k \in Jobs : DOMAIN job'[k] = DOMAIN Fresh /\ JobGood(job'[k])
  BY <1>5, <1>7 DEF IInv, Shape
<1>9. DOMAIN job' = Jobs
  BY <1>1, <1>6
<1> QED BY <1>1, <1>6, <1>8, <1>9, QuietStep DEF IInv, CachesGood

LEMMA CancelStep == ASSUME IInv, NEW j \in Jobs, Cancel(j) PROVE IInv'
<1> DEFINE x == [Fresh EXCEPT !.pc = "cancelled"]
<1>1. job' = [job EXCEPT ![j] = x] /\ UNCHANGED <<drains, stores, collected, trained>>
  BY DEF Cancel
<1>2. JobGood(x) /\ DOMAIN x = DOMAIN Fresh
  BY FreshIsGood DEF Fresh
<1> HIDE DEF x
<1>3. DOMAIN job = Jobs /\ DOMAIN drains = Workflows /\ DOMAIN stores = Workflows
  BY DEF IInv, Shape
<1>4. \A k \in Jobs : job'[k] = IF k = j THEN x ELSE job[k]
  BY <1>1, <1>3
<1>5. \A k \in Jobs : DOMAIN job'[k] = DOMAIN Fresh /\ JobGood(job'[k])
  BY <1>2, <1>4 DEF IInv, Shape
<1>6. DOMAIN job' = Jobs
  BY <1>1, <1>3
<1> QED BY <1>1, <1>3, <1>5, <1>6, QuietStep DEF IInv, CachesGood

\* Saving adds at most the one entry.
LEMMA SaveAdds ==
    ASSUME NEW cache, DOMAIN cache = Workflows, NEW w, NEW hit, NEW dir
    PROVE  /\ DOMAIN Save(cache, w, hit, dir) = Workflows
           /\ \A v \in Workflows : \/ Save(cache, w, hit, dir)[v] = cache[v]
                                   \/ Save(cache, w, hit, dir)[v] = [dir |-> dir, at |-> Saves]
BY DEF Save

LEMMA FinishStep == ASSUME IInv, NEW j \in Jobs, Finish(j) PROVE IInv'
<1> DEFINE x == [Fresh EXCEPT !.pc = "done"]
           w == WorkflowOf[job[j].run]
<1>1. /\ job' = [job EXCEPT ![j] = x] /\ UNCHANGED <<collected, trained>>
      /\ drains' = Save(drains, w, job[j].drainHit, job[j].base)
      /\ stores' = Save(stores, w, job[j].storeHit, job[j].store)
  BY DEF Finish
<1>2. JobGood(x) /\ DOMAIN x = DOMAIN Fresh
  BY FreshIsGood DEF Fresh
<1> HIDE DEF x, w
<1>3. DOMAIN job = Jobs /\ DOMAIN drains = Workflows /\ DOMAIN stores = Workflows
  BY DEF IInv, Shape
<1>4. \A k \in Jobs : job'[k] = IF k = j THEN x ELSE job[k]
  BY <1>1, <1>3
<1>5. \A k \in Jobs : DOMAIN job'[k] = DOMAIN Fresh /\ JobGood(job'[k])
  BY <1>2, <1>4 DEF IInv, Shape
<1>6. DOMAIN job' = Jobs
  BY <1>1, <1>3
<1>7. /\ DOMAIN drains' = Workflows
      /\ \A v \in Workflows : \/ drains'[v] = drains[v]
                              \/ drains'[v] = [dir |-> job[j].base, at |-> Saves]
  BY <1>1, <1>3, SaveAdds
<1>8. /\ DOMAIN stores' = Workflows
      /\ \A v \in Workflows : \/ stores'[v] = stores[v]
                              \/ stores'[v] = [dir |-> job[j].store, at |-> Saves]
  BY <1>1, <1>3, SaveAdds
<1>9. BaseGood(trained, job[j].base) /\ StoreGood(collected, job[j].store)
  BY DEF IInv, JobGood
<1>10. \A v \in Workflows : drains'[v] # Nothing => BaseGood(trained, drains'[v].dir)
  BY <1>7, <1>9 DEF IInv, CachesGood
<1>11. \A v \in Workflows : stores'[v] # Nothing => StoreGood(collected, stores'[v].dir)
  BY <1>8, <1>9 DEF IInv, CachesGood
<1> QED BY <1>1, <1>5, <1>6, <1>7, <1>8, <1>10, <1>11, QuietStep

LEMMA EvictStep == ASSUME IInv, NEW w \in Workflows, Evict(w) PROVE IInv'
<1>1. DOMAIN job = Jobs /\ DOMAIN drains = Workflows /\ DOMAIN stores = Workflows
  BY DEF IInv, Shape
<1>2. UNCHANGED <<job, collected, trained>>
  BY DEF Evict
<1>3. /\ DOMAIN drains' = Workflows
      /\ \A v \in Workflows : drains'[v] = drains[v] \/ drains'[v] = Nothing
  BY <1>1 DEF Evict
<1>4. /\ DOMAIN stores' = Workflows
      /\ \A v \in Workflows : stores'[v] = stores[v] \/ stores'[v] = Nothing
  BY <1>1 DEF Evict
<1>5. \A k \in Jobs : DOMAIN job'[k] = DOMAIN Fresh /\ JobGood(job'[k])
  BY <1>2 DEF IInv, Shape
<1> QED BY <1>1, <1>2, <1>3, <1>4, <1>5, QuietStep DEF IInv, CachesGood

LEMMA TrainIsGood ==
    ASSUME NEW r \in RunIds, NEW base, BaseGood(trained, base)
    PROVE  BaseGood(trained \union {r}, Train(base, LogOf[r]))
<1> DEFINE after == Train(base, LogOf[r])
<1>1. LogOf[r] \in [Templates -> Nat]
  BY LogsAssumption DEF Log
<1>2. CASE Available(base)
  <2>1. /\ base \in [Templates -> Nat]
        /\ \A t \in Templates : base[t] > 0 => \E q \in trained : LogOf[q][t] > 0
    BY <1>2 DEF BaseGood, Log
  <2>2. after = [t \in Templates |-> LogOf[r][t] + base[t]]
    BY <1>2 DEF Train
  <2>3. after \in [Templates -> Nat]
    BY <1>1, <2>1, <2>2
  <2>4. \A t \in Templates : after[t] > 0 => LogOf[r][t] > 0 \/ base[t] > 0
    BY <1>1, <2>1, <2>2
  <2> QED BY <2>1, <2>3, <2>4 DEF BaseGood, Log
<1>3. CASE ~Available(base)
  <2>1. after = [t \in Templates |-> LogOf[r][t] + 0]
    BY <1>3 DEF Train
  <2>2. after \in [Templates -> Nat] /\ \A t \in Templates : after[t] > 0 => LogOf[r][t] > 0
    BY <1>1, <2>1
  <2> QED BY <2>2 DEF BaseGood, Log
<1> QED BY <1>2, <1>3

LEMMA LearnedMore ==
    ASSUME NEW learned, NEW r, NEW base, BaseGood(learned, base)
    PROVE  BaseGood(learned \union {r}, base)
BY DEF BaseGood

LEMMA TrainStep == ASSUME IInv, NEW j \in Jobs, TrainOn(j) PROVE IInv'
<1> DEFINE r == job[j].run
           x == [job[j] EXCEPT !.pc = "ran", !.base = Train(@, LogOf[r])]
<1>1. /\ job' = [job EXCEPT ![j] = x] /\ trained' = trained \union {r}
      /\ UNCHANGED <<drains, stores, collected>>
  BY DEF TrainOn
<1>2. DOMAIN job = Jobs /\ DOMAIN drains = Workflows /\ DOMAIN stores = Workflows
      /\ DOMAIN job[j] = DOMAIN Fresh /\ JobGood(job[j]) /\ r \in RunIds
  BY DEF IInv, Shape, JobGood, TrainOn
<1>3. /\ DOMAIN x = DOMAIN Fresh /\ x.base = Train(job[j].base, LogOf[r]) /\ x.store = job[j].store
      /\ x.run \in RunIds
  BY <1>2 DEF Fresh
<1> HIDE DEF x
<1>4. BaseGood(trained', x.base) /\ StoreGood(collected', x.store)
  BY <1>1, <1>2, <1>3, TrainIsGood DEF JobGood
<1>5. Shape'
  BY <1>1, <1>2, <1>3 DEF IInv, Shape
<1>6. (\A i \in Reports : ReportGood(collected, i))'
  BY <1>1 DEF IInv, Reports
<1>7. (\A k \in Jobs : JobGood(job[k]))'
  <2> SUFFICES ASSUME NEW k \in Jobs PROVE JobGood(job[k])'
    OBVIOUS
  <2>1. CASE k = j
    <3>1. job'[k] = x
      BY <1>1, <1>2, <2>1
    <3> QED BY <1>3, <1>4, <3>1 DEF JobGood
  <2>2. CASE k # j
    <3>1. job'[k] = job[k]
      BY <1>1, <1>2, <2>2
    <3> QED BY <1>1, <3>1, LearnedMore DEF IInv, JobGood
  <2> QED BY <2>1, <2>2
<1>8. CachesGood'
  BY <1>1, LearnedMore DEF IInv, CachesGood
<1> QED BY <1>5, <1>6, <1>7, <1>8 DEF IInv

\* A report of what the look-up has found in the job's own copy of the history.
LEMMA ReportIsGood ==
    ASSUME NEW s, IsSeq(s), NEW store, StoreGood(s, store), NEW new, NEW hit \in LookupRecurrence(store, new),
           NEW e, e.fine = new.fine, e.masking = new.masking, e.match = hit.match,
           e.drift = hit.drift, e.rec = hit.rec, e.cross = (Others(hit.rec, BranchOf[e.run]) # {})
    PROVE  ReportGood(Append(s, e), Len(s) + 1)
<1> DEFINE t == Append(s, e)
           n == Len(s) + 1
           before == {k \in DOMAIN t : k < n}
           rec == hit.rec
<1>1. /\ Len(s) \in Nat /\ DOMAIN s = 1 .. Len(s) /\ DOMAIN t = 1 .. n /\ t[n] = e
      /\ \A k \in DOMAIN s : t[k] = s[k]
  BY Appended DEF IsSeq
<1> SUFFICES ASSUME e.match # "new" PROVE ReportGood(t, n)
  BY <1>1 DEF ReportGood
<1>2. /\ rec \in Records(store)
      /\ hit.drift <=> rec.masking # new.masking
      /\ hit.drift => hit.match = "similar"
      /\ hit.match = "exact" => rec.fine = new.fine /\ rec.masking = new.masking
  BY <1>1, LookupFinds
<1>3. RecordGood(s, rec)
  BY <1>2 DEF StoreGood
<1>4. before = DOMAIN s
  BY <1>1
<1> HIDE DEF t, n, before
<1>5. \A k \in before : OfSame(s, k, rec) => OfSame(t, k, rec) /\ t[k] = s[k]
  BY <1>1, <1>4 DEF OfSame, before
<1>6. /\ \A b \in rec.branches : \E k \in before : OfSame(t, k, rec) /\ BranchOf[t[k].run] = b
      /\ \E k \in before : OfSame(t, k, rec) /\ t[k].masking = rec.masking
  BY <1>3, <1>4, <1>5 DEF RecordGood
<1>10. Counted(t, TimesUpTo(t, n, rec), rec.count)
  <2>1. Counted(s, Times(s, rec), rec.count)
    BY <1>3, CountGoodSays DEF RecordGood
  <2>2. TimesUpTo(t, n, rec) = Times(s, rec)
    BY <1>1, <1>4 DEF TimesUpTo, Times, OfSame, before
  <2>3. RunsOf(t, Times(s, rec)) = RunsOf(s, Times(s, rec))
    BY <1>1 DEF RunsOf, Times
  <2> QED BY <2>1, <2>2, <2>3 DEF Counted
<1>7. e.cross => \E k \in before : OfSame(t, k, rec) /\ BranchOf[t[k].run] # BranchOf[e.run]
  BY <1>6 DEF Others
<1> HIDE DEF rec
<1>8. e.rec = rec
  BY DEF rec
<1>9. /\ e.drift <=> rec.masking # e.masking
      /\ e.drift => e.match = "similar"
      /\ e.match = "exact" => rec.fine = e.fine /\ rec.masking = e.masking
  BY <1>2 DEF rec
<1> QED BY <1>1, <1>6, <1>7, <1>8, <1>9, <1>10 DEF ReportGood, before

LEMMA CollectStep == ASSUME IInv, NEW j \in Jobs, Collect(j) PROVE IInv'
<1> DEFINE r   == job[j].run
           own == [log |-> LogOf[r], base |-> job[j].base]
           groups == <<own>> \o ArtifactsOf[r]
           new == RecordFrom(j, groups)
           x == [job[j] EXCEPT !.pc = "ran", !.base = BaseAfter(@, LogOf[r]), !.store = Upsert(@, new)]
           e(hit) == [run |-> r, job |-> j, fine |-> new.fine, masking |-> masking,
                      match |-> hit.match, drift |-> hit.drift, rec |-> hit.rec,
                      cross |-> Others(hit.rec, BranchOf[r]) # {}]
<1>1. /\ job' = [job EXCEPT ![j] = x]
      /\ \E hit \in LookupRecurrence(job[j].store, new) : collected' = Append(collected, e(hit))
      /\ UNCHANGED <<drains, stores, trained>> /\ job[j].pc = "ready"
  BY DEF Collect
<1>2. /\ new.runs = <<r>> /\ new.branches = {BranchOf[r]} /\ new.count = 1
      /\ new.seen = Len(collected) /\ new.masking = masking
      /\ Fields \subseteq DOMAIN new
  BY DEF RecordFrom, Fields
<1> HIDE DEF new
<1>3. PICK hit \in LookupRecurrence(job[j].store, new) : collected' = Append(collected, e(hit))
  BY <1>1
<1> DEFINE c == e(hit)
<1>4. /\ c.fine = new.fine /\ c.masking = masking /\ c.match = hit.match /\ c.drift = hit.drift
      /\ c.rec = hit.rec /\ c.cross = (Others(hit.rec, BranchOf[r]) # {}) /\ c.run = r
  OBVIOUS
<1>5. collected' = Append(collected, c)
  BY <1>3
<1> HIDE DEF c
<1>6. /\ DOMAIN job = Jobs /\ DOMAIN drains = Workflows /\ DOMAIN stores = Workflows
      /\ DOMAIN job[j] = DOMAIN Fresh /\ JobGood(job[j]) /\ IsSeq(collected)
  BY DEF IInv, Shape
<1>7. /\ DOMAIN x = DOMAIN Fresh /\ x.base = job[j].base /\ x.store = Upsert(job[j].store, new)
      /\ x.pc = "ran" /\ x.run = r
  BY <1>6 DEF Fresh, BaseAfter
<1> HIDE DEF x
<1>8. /\ DOMAIN collected = 1 .. Len(collected) /\ DOMAIN collected' = 1 .. Len(collected) + 1
      /\ IsSeq(collected')
  BY <1>5, <1>6, Appended
<1>9. ASSUME NEW store, StoreGood(collected, store) PROVE StoreGood(collected', store)
  BY <1>5, <1>6, <1>9, StoreGrows
<1>10. RecordGood(collected', new)
  BY <1>2, <1>4, <1>5, <1>6, NewIsGood
<1>11. StoreGood(collected', x.store)
  <2> DEFINE store == job[j].store
  <2>1. StoreGood(collected, store) /\ x.store = Upsert(store, new)
    BY <1>6, <1>7 DEF JobGood
  <2> HIDE DEF store
  <2>2. StoreGood(Append(collected, c), Upsert(store, new))
    BY <1>2, <1>4, <1>5, <1>6, <1>10, <2>1, UpsertIsGood
  <2> QED BY <1>5, <2>1, <2>2
<1>12. Shape'
  BY <1>1, <1>6, <1>7, <1>8 DEF IInv, Shape
<1>13. (\A i \in Reports : ReportGood(collected, i))'
  <2> SUFFICES ASSUME NEW i \in DOMAIN collected' PROVE ReportGood(collected', i)
    BY DEF Reports
  <2>1. CASE i \in DOMAIN collected
    BY <1>5, <1>6, <2>1, ReportStays DEF IInv, Reports
  <2>2. CASE i \notin DOMAIN collected
    <3>1. i = Len(collected) + 1
      BY <1>6, <1>8, <2>2 DEF IsSeq
    <3>2. StoreGood(collected, job[j].store) /\ c.masking = new.masking
          /\ c.cross = (Others(hit.rec, BranchOf[c.run]) # {})
      BY <1>2, <1>4, <1>6 DEF JobGood
    <3> QED BY <1>4, <1>5, <1>6, <3>1, <3>2, ReportIsGood
  <2> QED BY <2>1, <2>2
<1>14. (\A k \in Jobs : JobGood(job[k]))'
  <2> SUFFICES ASSUME NEW k \in Jobs PROVE JobGood(job[k])'
    OBVIOUS
  <2>1. CASE k = j
    <3>1. job'[k] = x
      BY <1>1, <1>6, <2>1
    <3> QED BY <1>1, <1>6, <1>7, <1>11, <3>1 DEF JobGood
  <2>2. CASE k # j
    <3>1. job'[k] = job[k]
      BY <1>1, <1>6, <2>2
    <3> QED BY <1>1, <1>9, <3>1 DEF IInv, JobGood
  <2> QED BY <2>1, <2>2
<1>15. CachesGood'
  BY <1>1, <1>9 DEF IInv, CachesGood
<1> QED BY <1>12, <1>13, <1>14, <1>15 DEF IInv

-----------------------------------------------------------------------------
(* The invariant and what it says                                          *)

LEMMA InitIInv == Init => IInv
<1> SUFFICES ASSUME Init PROVE IInv
  OBVIOUS
<1>1. /\ drains = [w \in Workflows |-> Nothing] /\ stores = [w \in Workflows |-> Nothing]
      /\ job = [j \in Jobs |-> Fresh] /\ collected = <<>>
  BY DEF Init
<1>2. Len(collected) = 0 /\ IsSeq(collected) /\ DOMAIN collected = {}
  BY <1>1 DEF IsSeq
<1>3. Shape
  BY <1>1, <1>2 DEF Shape
<1>4. JobGood(Fresh)
  <2>1. Fresh.base = NoBaseline /\ Fresh.store = Nothing /\ Fresh.pc \notin {"ready", "ran"}
    BY DEF Fresh
  <2> HIDE DEF Fresh
  <2> QED BY <2>1, FreshIsGood
<1>5. CachesGood
  BY <1>1 DEF CachesGood
<1> QED BY <1>1, <1>2, <1>3, <1>4, <1>5 DEF IInv, Reports

LEMMA NextIInv == IInv /\ [Next]_vars => IInv'
<1> SUFFICES ASSUME IInv, [Next]_vars PROVE IInv'
  OBVIOUS
<1>1. CASE UNCHANGED <<drains, stores, job, collected, trained>>
  BY <1>1 DEF IInv, Shape, JobGood, CachesGood, Reports
<1>2. ASSUME NEW m \in Maskings, Release(m) PROVE IInv'
  BY <1>1, <1>2 DEF Release
<1> QED BY <1>1, <1>2, RestoreStep, TrainStep, CollectStep, FinishStep, CancelStep, EvictStep
        DEF Next, vars

LEMMA Invariant == Spec => []IInv
BY InitIInv, NextIInv, PTL DEF Spec

\* The runs that witness a report are those of the earlier reports of its failure.
LEMMA WitnessedRuns ==
    ASSUME NEW i, NEW fine
    PROVE  {w.run : w \in EarlierOf(i, fine)} = RunsOf(collected, TimesBefore(i, fine))
BY DEF EarlierOf, Earlier, TimesBefore, RunsOf

LEMMA CountedIsWitnessed ==
    ASSUME NEW i, NEW rec, NEW times, times = TimesBefore(i, rec.fine),
           Counted(collected, times, rec.count), IsFiniteSet(RunsOf(collected, times))
    PROVE  CountIsWitnessed(rec, i)
<1> DEFINE failed == RunsOf(collected, times)
<1>1. {w.run : w \in EarlierOf(i, rec.fine)} = failed
  BY WitnessedRuns
<1>2. Cardinality(failed) \in Nat /\ RunIdCap \in Nat
  BY FS_CardinalityType, RunIdCapAssumption
<1>3. Cardinality(failed) <= RunIdCap => rec.count <= Cardinality(failed)
  BY <1>2 DEF Counted
<1>4. rec.count <= Cardinality(TimesBefore(i, rec.fine))
  BY DEF Counted
<1> QED BY <1>1, <1>3, <1>4 DEF CountIsWitnessed

\* No report makes a recurrence up, whatever the caches have lost, borrowed from
\* other workflows or kept of cancelled and repeated jobs: lookup_recurrence
\* reads only records that CacheHistoryStore.upsert made of earlier reports.
THEOREM RecurrencesAreWitnessed == Spec => []RecurrenceIsWitnessed
<1>1. IInv => RecurrenceIsWitnessed
  <2> SUFFICES ASSUME IInv PROVE RecurrenceIsWitnessed
    OBVIOUS
  <2>0. IsSeq(collected) /\ Len(collected) \in Nat /\ Reports = 1 .. Len(collected)
    BY DEF IInv, Shape, IsSeq, Reports
  <2>1. ASSUME NEW i \in Reports, collected[i].match # "new"
        PROVE  LET c == collected[i]
                   witnesses == EarlierOf(i, c.rec.fine) IN
               /\ witnesses # {}
               /\ CountIsWitnessed(c.rec, i)
               /\ c.match = "exact" => /\ c.rec.fine = c.fine
                                       /\ \E w \in witnesses : w.masking = c.masking
               /\ c.cross => \E w \in witnesses : BranchOf[w.run] # BranchOf[c.run]
    <3> DEFINE c == collected[i]
               rec == c.rec
               W == EarlierOf(i, rec.fine)
               before == {k \in DOMAIN collected : k < i}
               times == TimesUpTo(collected, i, rec)
    <3>1. ReportGood(collected, i)
      BY DEF IInv
    <3>2. \A k \in before : OfSame(collected, k, rec) => collected[k] \in W
      BY DEF EarlierOf, Earlier, OfSame, Reports
    <3>3. /\ \E k \in before : OfSame(collected, k, rec)
          /\ Counted(collected, times, rec.count)
          /\ c.match = "exact" => /\ rec.fine = c.fine
                                  /\ \E k \in before : OfSame(collected, k, rec)
                                                       /\ collected[k].masking = c.masking
          /\ c.cross => \E k \in before : /\ OfSame(collected, k, rec)
                                          /\ BranchOf[collected[k].run] # BranchOf[c.run]
      BY <2>1, <3>1 DEF ReportGood
    <3>4. times = TimesBefore(i, rec.fine) /\ times \subseteq DOMAIN collected
      BY DEF TimesUpTo, Times, OfSame, TimesBefore, Reports
    <3> HIDE DEF c, rec, W, before, times
    <3>5. IsFiniteSet(RunsOf(collected, times))
      BY <2>0, <3>4, RunsAreFinite
    <3>6. CountIsWitnessed(rec, i)
      BY <3>3, <3>4, <3>5, CountedIsWitnessed
    <3>7. /\ W # {}
          /\ c.match = "exact" => rec.fine = c.fine /\ \E w \in W : w.masking = c.masking
          /\ c.cross => \E w \in W : BranchOf[w.run] # BranchOf[c.run]
      BY <3>2, <3>3
    <3> QED BY <3>6, <3>7 DEF c, rec, W
  <2>2. ASSUME NEW rec \in Kept PROVE CountIsWitnessed(rec, Len(collected) + 1)
    <3> DEFINE times == Times(collected, rec)
    <3>1. RecordGood(collected, rec)
      BY DEF Kept, IInv, JobGood, CachesGood, StoreGood
    <3>2. Counted(collected, times, rec.count)
      BY <2>0, <3>1, CountGoodSays DEF RecordGood
    <3>3. times = TimesBefore(Len(collected) + 1, rec.fine) /\ times \subseteq DOMAIN collected
      BY <2>0 DEF Times, OfSame, TimesBefore, Reports
    <3> HIDE DEF times
    <3>4. IsFiniteSet(RunsOf(collected, times))
      BY <2>0, <3>3, RunsAreFinite
    <3> QED BY <3>2, <3>3, <3>4, CountedIsWitnessed
  <2> QED BY <2>1, <2>2 DEF RecurrenceIsWitnessed
<1> QED BY <1>1, Invariant, PTL

\* A match across masking configurations is always reported as one, and is never
\* called exact (guard 2 of lookup_recurrence).
THEOREM DriftIsAlwaysTold == Spec => []DriftIsTold
<1>1. IInv => DriftIsTold
  BY DEF IInv, ReportGood, DriftIsTold
<1> QED BY <1>1, Invariant, PTL

\* A template is in a baseline only if a log that was trained on has it, through
\* every restore, save and eviction: failing runs never reach it, because
\* drain_index.novelty does not persist what it loads.
THEOREM BaselinesAreHealthy == Spec => []BaselineIsHealthy
<1>1. IInv => BaselineIsHealthy
  BY DEF IInv, JobGood, CachesGood, BaseGood, Baselines, BaselineIsHealthy
<1> QED BY <1>1, Invariant, PTL
=============================================================================
