--------------------------- MODULE RunnerMemory ---------------------------
(***************************************************************************)
(* What the collector remembers between runs: the Drain3 baseline and the  *)
(* failure history, two directories on the runner that actions/cache       *)
(* restores at the start of a job and saves at its end.                    *)
(*                                                                         *)
(* An RCA job handles one completed run of a workflow: it trains on a      *)
(* success and collects a failure.  Jobs overlap, are cancelled, and are   *)
(* started again for the same run.  actions/cache is external, modelled    *)
(* from its use in rca.yml and action.yml: a key is restored exactly or    *)
(* else by prefix, newest entry first; it is saved only by a job that did  *)
(* not hit it exactly, and an entry is never overwritten, only evicted.    *)
(***************************************************************************)
EXTENDS LogTemplates

CONSTANTS
    Jobs,         \* RCA jobs, numbered in the order they start
    RunIds,       \* ids of the runs they handle
    WorkflowOf,   \* the workflow of a run
    BranchOf,     \* the branch of a run
    LogOf,        \* the log of a run's job
    ArtifactsOf,  \* the groups of its pipeline logs: a sequence
    Succeeded,    \* the runs that succeeded
    Maskings,     \* masking configurations the action is released with
    RunIdCap,     \* the run ids a record keeps: 20
    MaxEvictions, \* bound on evictions
    MaxOverlap,   \* bound on jobs under way at once
    Nothing       \* no cache entry; no record

ASSUME MaskingsAssumption == 1 \in Maskings /\ Maskings \subseteq Nat
ASSUME JobsAssumption == Jobs \subseteq Nat \ {0} /\ IsFiniteSet(Jobs)
ASSUME RunIdCapAssumption == RunIdCap \in Nat \ {0}
ASSUME LogsAssumption == \A r \in RunIds : LogOf[r] \in Log

VARIABLES
    drains,   \* saved baseline of each workflow: Nothing or [dir, at]
    stores,   \* saved history of each workflow: Nothing or [dir, at]
    job,      \* each RCA job: its progress and its two directories
    masking,  \* the masking configuration in force
    collected,\* reports of recurrence so far, oldest first
    trained,  \* runs learned from so far
    evicted   \* evictions so far

vars == <<drains, stores, job, masking, collected, trained, evicted>>

Workflows == {WorkflowOf[r] : r \in RunIds}

\* Before it is restored, neither directory exists.
Fresh == [pc |-> "queued", run |-> Nothing, base |-> NoBaseline, store |-> Nothing,
          drainHit |-> FALSE, storeHit |-> FALSE]

Init ==
    /\ drains = [w \in Workflows |-> Nothing]
    /\ stores = [w \in Workflows |-> Nothing]
    /\ job = [j \in Jobs |-> Fresh]
    /\ masking = 1
    /\ collected = <<>>
    /\ trained = {}
    /\ evicted = 0

-----------------------------------------------------------------------------
(* The failure history: CacheHistoryStore and lookup_recurrence.  A store  *)
(* is a set of records, one per fine fingerprint.                          *)

Records(store) == IF store = Nothing THEN {} ELSE store

RecordOf(store, fine) == {rec \in Records(store) : rec.fine = fine}
CoarseOf(store, coarse) == {rec \in Records(store) : rec.coarse = coarse}
MaskedAlike(recs, m) == {rec \in recs : rec.masking = m}
Latest(recs) == CHOOSE rec \in recs : \A other \in recs : other.seen <= rec.seen

\* The run ids a record keeps are the latest RunIdCap.
Recalled(rec) == {rec.runs[k] : k \in DOMAIN rec.runs}
Remember(ids, r) == Append(IF Len(ids) < RunIdCap THEN ids ELSE Tail(ids), r)

\* FailureRecord.absorb: idempotent by the run ids the record still keeps.
\* The fingerprints stay those of the record that was there.
Absorb(old, new) ==
    IF Recalled(new) \intersect Recalled(old) # {} THEN old
    ELSE [old EXCEPT !.runs      = Remember(@, new.runs[1]),
                     !.count     = @ + 1,
                     !.branches  = @ \union new.branches,
                     !.templates = IF new.templates = {} THEN @ ELSE new.templates,
                     !.masking   = new.masking,
                     !.seen      = new.seen]

Upsert(store, new) ==
    LET old == RecordOf(store, new.fine) IN
    (Records(store) \ old) \union
        {IF old = {} THEN new ELSE Absorb(CHOOSE o \in old : TRUE, new)}

NoMatch == [match |-> "new", rec |-> Nothing, drift |-> FALSE]

\* Over records of another masking only the overlap of templates counts.
ByOverlap(store, new) ==
    LET overlap(rec) == Overlap(new.templates, rec.templates)
        near == {rec \in Records(store) : NearMiss(overlap(rec))}
        best == {rec \in near : \A other \in near : ~Higher(overlap(other), overlap(rec))}
    IN  IF best = {} THEN {NoMatch}
        ELSE {[match |-> "similar", rec |-> rec, drift |-> rec.masking # new.masking] : rec \in best}

LookupAnyMasking(store, new) ==    \* mutant: the masking of a record is not compared
    LET exact  == RecordOf(store, new.fine)
        coarse == CoarseOf(store, new.coarse)
    IN  IF exact # {} THEN {[match |-> "exact", rec |-> rec, drift |-> FALSE] : rec \in exact}
        ELSE IF coarse # {} THEN {[match |-> "similar", rec |-> Latest(coarse), drift |-> FALSE]}
        ELSE ByOverlap(store, new)

LookupRecurrence(store, new) ==
    LET exact  == MaskedAlike(RecordOf(store, new.fine), new.masking)
        coarse == MaskedAlike(CoarseOf(store, new.coarse), new.masking)
    IN  IF exact # {} THEN {[match |-> "exact", rec |-> rec, drift |-> FALSE] : rec \in exact}
        ELSE IF coarse # {} THEN {[match |-> "similar", rec |-> Latest(coarse), drift |-> FALSE]}
        ELSE ByOverlap(store, new)

-----------------------------------------------------------------------------
(* actions/cache                                                           *)

Newest(cache) ==
    {w \in Workflows : /\ cache[w] # Nothing
                       /\ \A v \in Workflows : cache[v] = Nothing \/ cache[v].at <= cache[w].at}

\* restore-keys of the history reach every workflow of the repository, those
\* of the baseline only the workflow's own.
RestoredStore(w) ==
    IF stores[w] # Nothing THEN stores[w].dir
    ELSE IF Newest(stores) = {} THEN Nothing
    ELSE stores[CHOOSE v \in Newest(stores) : TRUE].dir
RestoredBase(w) == IF drains[w] = Nothing THEN NoBaseline ELSE drains[w].dir

Saves == Cardinality({j \in Jobs : job[j].pc = "done"})

\* The post step: nothing to save, or the key is taken, or it is a new entry.
Save(cache, w, hit, dir) ==
    IF hit \/ dir = Nothing \/ cache[w] # Nothing THEN cache
    ELSE [cache EXCEPT ![w] = [dir |-> dir, at |-> Saves]]

-----------------------------------------------------------------------------
(* The steps of a job                                                      *)

Started == {j \in Jobs : job[j].pc # "queued"}
Active  == {j \in Jobs : job[j].pc \in {"ready", "ran"}}

Restore(j, r) ==
    LET w == WorkflowOf[r] IN
    /\ job[j].pc = "queued"
    /\ \A k \in Jobs : k < j => k \in Started
    /\ Cardinality(Active) < MaxOverlap
    /\ job' = [job EXCEPT ![j] =
          [pc |-> "ready", run |-> r, base |-> RestoredBase(w), store |-> RestoredStore(w),
           drainHit |-> drains[w] # Nothing, storeHit |-> stores[w] # Nothing]]
    /\ UNCHANGED <<drains, stores, masking, collected, trained, evicted>>

\* _cmd_train: a successful job's log goes into the baseline of that job.
TrainOn(j) ==
    /\ job[j].pc = "ready"
    /\ job[j].run \in Succeeded
    /\ job' = [job EXCEPT ![j].pc = "ran", ![j].base = Train(@, LogOf[job[j].run])]
    /\ trained' = trained \union {job[j].run}
    /\ UNCHANGED <<drains, stores, masking, collected, evicted>>

\* The baseline is loaded without persistence: a failing log leaves it alone.
BaseAfterPersisted(base, log) ==   \* mutant: novelty loads the state with FilePersistence
    Train(base, log)
BaseAfter(base, log) == base

RecordFrom(j, groups) ==
    [fine      |-> Masked(FineInputs(groups), masking),
     coarse    |-> Masked(CoarseInput(groups), masking),
     templates |-> Masked(KeptTemplates(groups), masking),
     masking   |-> masking,
     runs      |-> <<job[j].run>>,
     branches  |-> {BranchOf[job[j].run]},
     count     |-> 1,
     seen      |-> Len(collected)]

AnyBranches(rec, branch) ==        \* mutant: the current branch is not left out
    IF rec = Nothing THEN {} ELSE rec.branches
Others(rec, branch) == IF rec = Nothing THEN {} ELSE rec.branches \ {branch}

\* _build_summary: fingerprints, the look-up, then the upsert.
Collect(j) ==
    LET r   == job[j].run
        own == [log |-> LogOf[r], base |-> job[j].base]
        new == RecordFrom(j, <<own>> \o ArtifactsOf[r])
    IN
    /\ job[j].pc = "ready"
    /\ r \notin Succeeded
    /\ job' = [job EXCEPT ![j].pc = "ran",
                          ![j].base = BaseAfter(@, LogOf[r]),
                          ![j].store = Upsert(@, new)]
    /\ \E hit \in LookupRecurrence(job[j].store, new) :
          collected' = Append(collected,
              [run |-> r, job |-> j, fine |-> new.fine, masking |-> masking,
               match |-> hit.match, drift |-> hit.drift, rec |-> hit.rec,
               cross |-> Others(hit.rec, BranchOf[r]) # {}])
    /\ UNCHANGED <<drains, stores, masking, trained, evicted>>

\* .drain/ always exists: a job that trained nothing saves it empty.
Finish(j) ==
    LET w == WorkflowOf[job[j].run] IN
    /\ job[j].pc = "ran"
    /\ drains' = Save(drains, w, job[j].drainHit, job[j].base)
    /\ stores' = Save(stores, w, job[j].storeHit, job[j].store)
    /\ job' = [job EXCEPT ![j] = [Fresh EXCEPT !.pc = "done"]]
    /\ UNCHANGED <<masking, collected, trained, evicted>>

\* Cancelled or timed out: the post steps save nothing.
Cancel(j) ==
    /\ job[j].pc \in {"ready", "ran"}
    /\ job' = [job EXCEPT ![j] = [Fresh EXCEPT !.pc = "cancelled"]]
    /\ UNCHANGED <<drains, stores, masking, collected, trained, evicted>>

-----------------------------------------------------------------------------

Evict(w) ==
    /\ evicted < MaxEvictions
    /\ \/ /\ drains[w] # Nothing
          /\ drains' = [drains EXCEPT ![w] = Nothing]
          /\ UNCHANGED stores
       \/ /\ stores[w] # Nothing
          /\ stores' = [stores EXCEPT ![w] = Nothing]
          /\ UNCHANGED drains
    /\ evicted' = evicted + 1
    /\ UNCHANGED <<job, masking, collected, trained>>

Release(m) ==
    /\ m > masking
    /\ masking' = m
    /\ UNCHANGED <<drains, stores, job, collected, trained, evicted>>

Next ==
    \/ \E j \in Jobs : \/ \E r \in RunIds : Restore(j, r)
                       \/ TrainOn(j)
                       \/ Collect(j)
                       \/ Finish(j)
                       \/ Cancel(j)
    \/ \E w \in Workflows : Evict(w)
    \/ \E m \in Maskings : Release(m)

Spec == Init /\ [][Next]_vars

-----------------------------------------------------------------------------
(* Properties                                                              *)

Reports == DOMAIN collected
Earlier(i) == {collected[k] : k \in {k \in Reports : k < i}}
EarlierOf(i, fine) == {c \in Earlier(i) : c.fine = fine}
TimesBefore(i, fine) == {k \in Reports : k < i /\ collected[k].fine = fine}

\* A count no collection has made up: a run that is collected again counts
\* once, until more runs have failed this way than a record keeps ids of; from
\* then on only the number of collections bounds the count.
CountIsWitnessed(rec, i) ==
    LET failed == {w.run : w \in EarlierOf(i, rec.fine)} IN
    /\ rec.count <= Cardinality(TimesBefore(i, rec.fine))
    /\ Cardinality(failed) <= RunIdCap => rec.count <= Cardinality(failed)

\* The records the cache holds, or a job that may save them.
Kept == UNION ({Records(job[j].store) : j \in Jobs}
               \union {Records(stores[w].dir) : w \in {w \in Workflows : stores[w] # Nothing}})

\* A recurrence is never made up: what a report calls seen before was
\* collected before, on the branches and as often as it says, and an exact
\* match is the same failure under the same masking; nor will a record that is
\* kept tell a later report more.  Overlapping jobs, repeated jobs and history
\* borrowed from other workflows do not inflate it (tools/rca/history.py,
\* lookup_recurrence and CacheHistoryStore.upsert; models.py,
\* FailureRecord.absorb).
RecurrenceIsWitnessed ==
    /\ \A i \in Reports :
          LET c == collected[i] IN
          c.match # "new" =>
              LET witnesses == EarlierOf(i, c.rec.fine) IN
              /\ witnesses # {}
              /\ CountIsWitnessed(c.rec, i)
              /\ c.match = "exact" => /\ c.rec.fine = c.fine
                                      /\ \E w \in witnesses : w.masking = c.masking
              /\ c.cross => \E w \in witnesses : BranchOf[w.run] # BranchOf[c.run]
    /\ \A rec \in Kept : CountIsWitnessed(rec, Len(collected) + 1)

\* A record written under another masking configuration is matched by overlap
\* only, and the report says so (spec 10.3, guard 2).
DriftIsTold ==
    \A i \in Reports :
        LET c == collected[i] IN
        c.match # "new" => /\ c.drift <=> c.rec.masking # c.masking
                           /\ c.drift => c.match = "similar"

\* The baseline is what healthy builds look like: nothing only failing runs
\* print ever gets into it, wherever it is restored (tools/rca/drain_index.py,
\* novelty loads the state without persisting it).
Baselines ==
    {job[j].base : j \in Jobs} \union {drains[w].dir : w \in {w \in Workflows : drains[w] # Nothing}}

BaselineIsHealthy ==
    \A base \in Baselines : Available(base) =>
        \A t \in Templates : base[t] > 0 => \E r \in trained : LogOf[r][t] > 0

\* What telemetry.py:6-7 and spec 10.1 say of the cached history directory:
\* records accumulate per repository and workflow across runs.  With jobs one
\* after the other and nothing evicted, what ended jobs collected is saved.
HistoryAccumulates ==
    evicted = 0 =>
        \A i \in Reports :
            LET c == collected[i]
                saved == stores[WorkflowOf[c.run]] IN
            job[c.job].pc = "done" =>
                /\ saved # Nothing
                /\ RecordOf(saved.dir, c.fine) # {}
=============================================================================
