--------------------- MODULE MCShardedSubscriptionStore ---------------------
(***************************************************************************)
(* TLC instances of ShardedSubscriptionStore.  The store looks at a status *)
(* only through isActiveStatus and never at the time stamps.               *)
(***************************************************************************)
EXTENDS ShardedSubscriptionStore, TLC

MCInputs ==
  {sub \in Subscription :
     /\ sub.Status \in {"active", "paused"}
     /\ ~sub.CanceledAt /\ ~sub.PausedAt}

Symmetry ==
  Permutations(Calls) \cup Permutations(SubIDs)
    \cup Permutations(ProviderIDs) \cup Permutations(Subscribers)
=============================================================================
