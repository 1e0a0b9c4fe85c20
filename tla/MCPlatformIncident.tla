-------------------------- MODULE MCPlatformIncident --------------------------
(***************************************************************************)
(* Instances of PlatformIncident for TLC: all runs take the same path.     *)
(***************************************************************************)
EXTENDS PlatformIncident, TLC

CONSTANTS p1, p2, p3, widespread

MCKindOf == [r \in Runs |-> widespread]
Alike    == Permutations(Runs)
=============================================================================
