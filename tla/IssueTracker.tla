----------------------------- MODULE IssueTracker -----------------------------
(***************************************************************************)
(* What the issue history promises the readers of a repository: one entry  *)
(* per fingerprint, holding the runs that failed with it.  An occurrence   *)
(* is added once and opens the entry; entries are closed, and no           *)
(* occurrence is ever taken back.                                          *)
(***************************************************************************)
CONSTANTS Fingerprints, RunIds

VARIABLES
    counted,  \* the runs recorded for a fingerprint
    open      \* the fingerprints tracked as still failing

vars == <<counted, open>>

Init == counted = [fp \in Fingerprints |-> {}] /\ open = {}

Occur(fp, r) ==
    /\ counted' = [counted EXCEPT ![fp] = @ \union {r}]
    /\ open' = open \union {fp}

Close(fp) == open' = open \ {fp} /\ UNCHANGED counted

Next == \E fp \in Fingerprints : Close(fp) \/ \E r \in RunIds : Occur(fp, r)

Spec == Init /\ [][Next]_vars
=============================================================================
