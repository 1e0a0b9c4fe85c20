----------------------------- MODULE MCDelivery -----------------------------
(***************************************************************************)
(* Two deliveries of the runs below, or of one run and its re-run, about   *)
(* fine fingerprints fpA and fpA2 of one coarse fingerprint and fpB of     *)
(* another.  Between them the runs take every route that differs in what a *)
(* delivery does: a comment on a pull request or a commit, an issue or     *)
(* none, a label, and a notification that is wanted, that is coordinated   *)
(* as a platform incident, or that is the only channel.                    *)
(***************************************************************************)
EXTENDS Delivery, TLC

CONSTANTS d1, d2, fpA, fpA2, fpB

Context(trigger)      == [trigger |-> trigger, draft |-> FALSE, fork |-> FALSE]
Plain(fp)             == [fp |-> fp, flaky |-> FALSE, short |-> "none", recurring |-> TRUE, red |-> FALSE]
Case(run, trigger, f) == [run |-> run, ctx |-> Context(trigger), failure |-> f]

MCCoarseOf == [fp \in Fingerprints |-> IF fp = fpB THEN fpB ELSE fpA]
MCCases ==
    {Case(1, "push_default", Plain(fpA)),
     Case(2, "push_default", Plain(fpA2)),
     Case(3, "push_default", Plain(fpB)),
     Case(4, "push_default", [Plain(fpA) EXCEPT !.short = "infra_widespread"]),
     Case(5, "pull_request", [Plain(fpA) EXCEPT !.recurring = FALSE]),
     Case(6, "pull_request", [Plain(fpA) EXCEPT !.flaky = TRUE]),
     Case(7, "schedule",     Plain(fpA)),
     Case(8, "dispatch",     Plain(fpA))}

Alike == Permutations(Jobs)
=============================================================================
