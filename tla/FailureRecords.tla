--------------------------- MODULE FailureRecords ---------------------------
(***************************************************************************)
(* The FailureRecord a fingerprint issue carries in its body, and the      *)
(* merge of one more occurrence into it (tools/rca/models.py, absorb).     *)
(*                                                                         *)
(* Of the record's fields the ones kept are those the delivery decides     *)
(* with: which runs it has already counted, how many occurrences it        *)
(* claims, when the failure was last seen and the human resolution.  A     *)
(* body whose record block cannot be parsed is the record Unreadable.      *)
(***************************************************************************)
EXTENDS Integers, Sequences

CONSTANTS
    RunIds,       \* workflow run ids
    Authors,      \* who can have resolved a failure (one text each)
    NoOne,        \* "not resolved"
    RunIdCap,     \* run ids remembered per record (20 in the code)
    MaxDay        \* bound of the clock, in units longer than STALE_DAYS

ASSUME RunIdCapAssumption == RunIdCap \in Nat \ {0}
ASSUME MaxDayAssumption   == MaxDay \in Nat
ASSUME NoOneAssumption    == NoOne \notin Authors

Days == 0 .. MaxDay

Record == [runs : Seq(RunIds), count : Nat, seen : Days,
           resolution : Authors \union {NoOne}]

\* The record of a run that has just failed: record_from_summary.
FirstRecordBlank(r, day) ==   \* mutant: no resolution is "", not None
    [runs |-> <<r>>, count |-> 1, seen |-> day, resolution |-> ""]

FirstRecord(r, day) ==
    [runs |-> <<r>>, count |-> 1, seen |-> day, resolution |-> NoOne]

\* parse_record returned None: the next writer starts again from its own run.
Unreadable ==
    [runs |-> <<>>, count |-> 0, seen |-> 0, resolution |-> NoOne]

Readable(rec) == rec.count > 0

Counted(rec, r) == \E i \in DOMAIN rec.runs : rec.runs[i] = r

\* merged_ids[-20:]: the most recent run ids, the new one last.
RememberAll(runs, r) == Append(runs, r)   \* mutant: no cap

Remember(runs, r) ==
    IF Len(runs) < RunIdCap THEN Append(runs, r) ELSE Append(Tail(runs), r)

\* absorb: a run already counted changes nothing, any other bumps the count.
AbsorbAlways(rec, r, day) ==    \* mutant: not idempotent
    [rec EXCEPT !.runs = Remember(@, r), !.count = @ + 1, !.seen = day]

AbsorbForgets(rec, r, day) ==   \* mutant: the newer record's resolution, which is none
    IF Counted(rec, r) THEN rec
    ELSE [rec EXCEPT !.runs = Remember(@, r), !.count = @ + 1, !.seen = day, !.resolution = NoOne]

Absorb(rec, r, day) ==
    IF Counted(rec, r) THEN rec
    ELSE [rec EXCEPT !.runs  = Remember(rec.runs, r),
                     !.count = rec.count + 1,
                     !.seen  = IF day > rec.seen THEN day ELSE rec.seen]

-----------------------------------------------------------------------------
(* What a record claims: the runs it remembers are different runs, and it  *)
(* remembers all of those it counted until the cap makes it forget.        *)

NoRunTwice(rec) ==
    \A i, j \in DOMAIN rec.runs : rec.runs[i] = rec.runs[j] => i = j

CountCovers(rec) ==
    Len(rec.runs) = IF rec.count < RunIdCap THEN rec.count ELSE RunIdCap

WellFormed(rec) == NoRunTwice(rec) /\ CountCovers(rec)
=============================================================================
