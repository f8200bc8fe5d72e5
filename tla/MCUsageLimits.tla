--------------------------- MODULE MCUsageLimits ---------------------------
(***************************************************************************)
(* TLC instance of UsageLimits: 4-bit integers, two metrics with a limit   *)
(* and one without, requests that fit, that are refused, that wrap and     *)
(* that give a seat back, and a renewal with both boundaries or one.       *)
(***************************************************************************)
EXTENDS UsageLimits, TLC

CONSTANTS api_calls, seats, storage

MCLimits == [metric \in Metrics |->
  CASE metric = api_calls -> 3 [] metric = seats -> 1 [] OTHER -> 0]

MCQuantities == {-1, 1, 3, 7}

One(metric, n) == [m \in {metric} |-> n]

MCRequests ==
  {One(api_calls, 3), One(seats, -1),
   [m \in {api_calls, seats} |-> 1],
   [m \in {api_calls, storage} |-> IF m = api_calls THEN 7 ELSE 1]}

MCRenewals ==
  {[start |-> 1, end |-> 2], [start |-> None, end |-> 2], [start |-> 1, end |-> None]}

CallerSymmetry == Permutations(Callers)
=============================================================================
