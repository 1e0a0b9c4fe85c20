--------------------------- MODULE LogTemplates ---------------------------
(***************************************************************************)
(* Drain3 templates of a failing log and the two fingerprints made of them *)
(* (tools/rca/drain_index.py).                                             *)
(*                                                                         *)
(* A log is the number of lines of each template, a baseline the number of *)
(* lines of it in healthy logs (0: the cluster does not exist).  Templates *)
(* are numbered in the order they first occur in a log.  A group is a log  *)
(* with the baseline it is compared with: the job's own log, then the log  *)
(* of a pipeline artifact against its last green one.  Clustering itself   *)
(* is external: a line always gets the template it is an instance of.      *)
(* A fingerprint is the set of templates it is the hash of.                *)
(***************************************************************************)
EXTENDS Integers, Sequences, FiniteSets

CONSTANTS
    Templates,    \* numbers of the templates lines can have
    ErrorLines,   \* templates whose lines match ERROR_LINE
    Touched,      \* templates whose text depends on the masking configuration
    NoBaseline    \* no state file: first run, cache miss, new job

ASSUME TemplatesAssumption == Templates \subseteq Nat \ {0} /\ IsFiniteSet(Templates)
ASSUME ErrorLinesAssumption == ErrorLines \subseteq Templates
ASSUME TouchedAssumption == Touched \subseteq Templates

Log       == [Templates -> Nat]
Baseline  == Log
Available(base) == base # NoBaseline
EmptyBaseline   == [t \in Templates |-> 0]

\* One more healthy log: its lines are counted into their clusters.
Train(base, log) ==
    [t \in Templates |-> log[t] + IF Available(base) THEN base[t] ELSE 0]

-----------------------------------------------------------------------------
(* _build_templates, _tier, _apply_anomalies                               *)

Reported(g) ==
    {t \in Templates : g.log[t] > 0 \/ (Available(g.base) /\ g.base[t] > 0)}

Novel(g, t)   == Available(g.base) /\ g.base[t] = 0
HasError(g, t) == t \in ErrorLines /\ g.log[t] > 0

Missing(g, t)  == g.log[t] = 0
Depleted(g, t) == 4 * g.log[t] < g.base[t]
Flooding(g, t) == g.log[t] > 10 * g.base[t] /\ g.log[t] >= 50
Anomalous(g, t) ==
    /\ Available(g.base)
    /\ g.base[t] >= 20
    /\ Missing(g, t) \/ Depleted(g, t) \/ Flooding(g, t)

Tier(g, t) ==
    IF Novel(g, t) THEN (IF HasError(g, t) THEN 1 ELSE 2)
    ELSE IF Anomalous(g, t) THEN 2
    ELSE IF HasError(g, t) THEN (IF g.log[t] <= 5 THEN 3 ELSE 4)
    ELSE 5

OfTier(g, n) == {t \in Reported(g) : Tier(g, t) = n}

\* templates.sort: tier, then first line (0 when the log has none), then text.
Before(g, t, u) ==
    LET line(x) == IF g.log[x] > 0 THEN x ELSE 0 IN
    \/ Tier(g, t) < Tier(g, u)
    \/ Tier(g, t) = Tier(g, u) /\ line(t) < line(u)
    \/ Tier(g, t) = Tier(g, u) /\ line(t) = line(u) /\ t <= u

FirstOf(g, S) == {t \in S : \A u \in S : Before(g, t, u)}

-----------------------------------------------------------------------------
(* _fingerprint_inputs, merge_fingerprint_inputs                           *)

FingerprintInputs(g, available) ==
    IF available THEN OfTier(g, 1) \union OfTier(g, 2)
    ELSE IF OfTier(g, 3) # {} THEN OfTier(g, 3)
    ELSE {t \in Reported(g) : HasError(g, t)}

SomeAvailable(groups) == \E i \in DOMAIN groups : Available(groups[i].base)

FineInputs(groups) ==
    UNION {FingerprintInputs(groups[i], SomeAvailable(groups)) : i \in DOMAIN groups}

\* The candidates of one rank over the groups: the first group that has one.
FirstGroup(groups, candidates) ==
    LET some == {i \in DOMAIN groups : candidates[i] # {}} IN
    IF some = {} THEN {}
    ELSE LET i == CHOOSE i \in some : \A k \in some : i <= k
         IN  FirstOf(groups[i], candidates[i])

\* Alone, a job log with a baseline does not fall back to T3.
CoarseInput(groups) ==
    LET t1 == FirstGroup(groups, [i \in DOMAIN groups |-> OfTier(groups[i], 1)])
        t3 == FirstGroup(groups, [i \in DOMAIN groups |-> OfTier(groups[i], 3)])
    IN  IF t1 # {} THEN t1
        ELSE IF t3 # {} /\ (Len(groups) > 1 \/ ~SomeAvailable(groups)) THEN t3
        ELSE FirstGroup(groups, [i \in DOMAIN groups |-> Reported(groups[i])])

\* What the record keeps for similarity: the job's T1-T3 templates, and of
\* the pipeline streams also whatever matches an error.
KeptTemplates(groups) ==
    UNION {{t \in Reported(groups[i]) :
               \/ Tier(groups[i], t) <= 3
               \/ i > 1 /\ HasError(groups[i], t)} : i \in DOMAIN groups}

\* The text of a template under masking configuration m.
Masked(S, m) == {<<t, IF t \in Touched THEN m ELSE 0>> : t \in S}

\* jaccard >= 0.6 of two template sets, and which of two pairs overlaps more.
Overlap(A, B) ==
    IF A = {} /\ B = {} THEN [of |-> 1, common |-> 1]
    ELSE [of |-> Cardinality(A \union B), common |-> Cardinality(A \cap B)]
Higher(x, y)  == x.common * y.of > y.common * x.of
NearMiss(x)   == 10 * x.common >= 6 * x.of
=============================================================================
