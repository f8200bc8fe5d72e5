--------------------------- MODULE MCDispatchPool ---------------------------
(***************************************************************************)
(* TLC instances of DispatchPool: two keys that share worker 0 and one of  *)
(* worker 1, one of the hashes with its top bit set.  The hash is 3 bits   *)
(* wide instead of 32, and int is wider, as on a 64-bit platform.          *)
(***************************************************************************)
EXTENDS DispatchPool, TLC

CONSTANTS k1, k2, k3

MCHash == [k \in Keys |-> CASE k = k1 -> 2 [] k = k2 -> 6 [] k = k3 -> 5]

Symmetry == Permutations(Senders)
=============================================================================
