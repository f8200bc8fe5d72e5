---------------------------- MODULE MCPagination ----------------------------
(***************************************************************************)
(* TLC instance of Pagination.  Three subscriptions in two shards give     *)
(* walks of several pages; the filters are none and one on the status that *)
(* writers change.  The store looks at a status only through               *)
(* isActiveStatus and never at the time stamps.  The third subscription is *)
(* only there to be listed.                                                *)
(***************************************************************************)
EXTENDS Pagination

CONSTANT u1

MCInputs ==
  {sub \in Subscription :
     /\ sub.Status \in {"active", "paused"}
     /\ ~sub.CanceledAt /\ ~sub.PausedAt
     /\ sub.ID = 3 => sub.SubscriberID = u1 /\ sub.ProviderID = None}

MCShards == {{id \in SubIDs : id % 2 = k} : k \in 0..1}

MCFilters == {NoFilter, [NoFilter EXCEPT !.Status = "active"]}
=============================================================================
