---------------------------- MODULE MCPlanCache ----------------------------
(***************************************************************************)
(* TLC instances of PlanCache.  Plans do not interact: one plan ID shows   *)
(* every interleaving of the calls on it.                                  *)
(***************************************************************************)
EXTENDS PlanCache, TLC

Symmetry == Permutations(Calls) \cup Permutations(Values)
=============================================================================
