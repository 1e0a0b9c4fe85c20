---------------------------- MODULE MCIssuesStore ----------------------------
(***************************************************************************)
(* Instances of IssuesStore for TLC.  Deliveries are named by what they    *)
(* deliver: a1, a2, a3 three runs that fail with the same failure, r1 the  *)
(* re-run of a1 (same run id), b1 a run that fails with another one.       *)
(***************************************************************************)
EXTENDS IssuesStore, TLC

CONSTANTS a1, a2, a3, r1, b1,     \* deliveries
          fpA, fpB, f1, f2

FpOfAll  == [d \in {a1, a2, a3, r1, b1} |-> IF d = b1 THEN fpB ELSE fpA]
RunOfAll == a1 :> 1 @@ a2 :> 2 @@ a3 :> 3 @@ r1 :> 1 @@ b1 :> 4

MCFpOf  == [d \in Deliveries |-> FpOfAll[d]]
MCRunOf == [d \in Deliveries |-> RunOfAll[d]]
MCCoarse == {Fingerprints}
=============================================================================
