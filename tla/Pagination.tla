----------------------------- MODULE Pagination -----------------------------
(***************************************************************************)
(* pagination.go: ListSubscriptionsPage over the ListSubscriptions of both *)
(* stores, asked for page after page by one client while writers change    *)
(* the store.  ListPlansPage is the same algorithm over the plans.         *)
(*                                                                         *)
(* IDs are numbers in the place of strings in lexicographic order.  A page *)
(* token names the last item of a page.                                    *)
(***************************************************************************)
EXTENDS SubscriptionStore, Integers, FiniteSets

CONSTANTS
  Inputs,       \* the records that writers save
  Shards,       \* the IDs that are listed under one lock: {SubIDs} for the plain store
  Filters,      \* the filters of the requests
  Limits,       \* the limits of the requests
  DefaultLimit  \* 20 in the code

VARIABLES
  walk,      \* the client's request, and the listing made for it
  seen,      \* history: the IDs in the pages of this walk
  repeated,  \* history: those that were in two pages
  stable,    \* history: the IDs that matched the filter ever since it began
  lost,      \* history: the item that a cursor names was missing from a listing
  pages      \* history: the pages of this walk that named a next one; not counted on once lost

vars ==
  <<subs, byProviderID, activeBySubscriber, walk, seen, repeated, stable, lost, pages>>

SubscriptionFilter ==
  [SubscriberID : Subscribers \cup {None},
   PlanID       : PlanIDs \cup {None},
   Status       : Statuses \cup {None}]

\* The token encodes the ID of the last item of a page; none, or one that does
\* not decode, asks for the first page.
Cursor == SubIDs \cup {None}

ASSUME PaginationAssumption ==
  /\ SubIDs \subseteq Nat
  /\ Inputs \subseteq Subscription
  /\ UNION Shards = SubIDs
  /\ Filters \subseteq SubscriptionFilter
  /\ Limits \subseteq Int
  /\ DefaultLimit \in Nat \ {0}

\* A walk through the pages.  Time between two requests passes before the
\* first shard of the second one is listed.
Walk ==
  [pc     : {"listing", "done"},
   filter : SubscriptionFilter,
   limit  : Nat \ {0},
   cursor : Cursor,
   shards : SUBSET Shards,   \* still to be listed
   found  : SUBSET SubIDs]   \* listed so far

PaginationTypeOK ==
  /\ StoreTypeOK
  /\ walk \in Walk
  /\ seen \subseteq SubIDs /\ repeated \subseteq SubIDs /\ stable \subseteq SubIDs
  /\ lost \in BOOLEAN /\ pages \in Nat

NoFilter == [SubscriberID |-> None, PlanID |-> None, Status |-> None]

Init ==
  /\ StoreInit
  /\ walk = [pc |-> "done", filter |-> NoFilter, limit |-> DefaultLimit,
             cursor |-> None, shards |-> {}, found |-> {}]
  /\ seen = {} /\ repeated = {} /\ stable = {} /\ lost = FALSE /\ pages = 0

-----------------------------------------------------------------------------
(***************************************************************************)
(* The store's part.                                                       *)
(***************************************************************************)
Matches(sub, filter) ==
  /\ filter.SubscriberID \in {None, sub.SubscriberID}
  /\ filter.PlanID \in {None, sub.PlanID}
  /\ filter.Status \in {None, sub.Status}

\* The IDs of a shard that match, read under its lock.
ListSubscriptions(filter, shard) ==
  {id \in shard : Exists(id) /\ Matches(subs[id], filter)}

\* The sharded store locks one shard after the other; the order is left open.
ListShard(shard) ==
  /\ walk.pc = "listing" /\ shard \in walk.shards
  /\ walk' = [walk EXCEPT
       !.shards = @ \ {shard},
       !.found  = @ \cup ListSubscriptions(walk.filter, shard)]
  /\ UNCHANGED <<storeVars, seen, repeated, stable, lost, pages>>

-----------------------------------------------------------------------------
(***************************************************************************)
(* The page, cut in ListPlansPage and ListSubscriptionsPage alike.         *)
(***************************************************************************)
\* A limit of zero is taken as it is.
PageLimit_NoDefault(limit) == limit

PageLimit(limit) == IF limit <= 0 THEN DefaultLimit ELSE limit

\* Nothing is left when the item of the cursor is gone.
AfterCursor_NothingLeft(found, cursor) ==
  {id \in found : cursor # None => cursor \in found /\ id > cursor}

\* The item of the cursor is returned again.
AfterCursor_Inclusive(found, cursor) ==
  {id \in found : cursor \in found => id >= cursor}

\* What follows the cursor; everything, if there is none or its item is gone.
AfterCursor(found, cursor) ==
  {id \in found : cursor \in found => id > cursor}

\* The items of page come before all others in the order of sortByID.
Precedes(page, others) == \A i \in page, j \in others : i < j

\* The first items, at most limit of them.
IsPage(page, rest, limit) ==
  /\ Precedes(page, rest \ page)
  /\ \/ page = rest /\ Cardinality(page) <= limit
     \/ page # rest /\ Cardinality(page) = limit

\* There is always a token; after an empty page it is that of the request.
IsNextCursor_Always(cursor, page, rest) ==
  \/ page = {} /\ cursor = walk.cursor
  \/ cursor \in page /\ \A id \in page : id <= cursor

\* A token if there is more, naming the last item of the page.
IsNextCursor(cursor, page, rest) ==
  \/ page = rest /\ cursor = None
  \/ page # rest /\ cursor \in page /\ \A id \in page : id <= cursor

\* The first request; every subscription that matches now is due.
StartWalk(filter, limit) ==
  /\ walk.pc = "done"
  /\ walk' = [pc |-> "listing", filter |-> filter, limit |-> PageLimit(limit),
              cursor |-> None, shards |-> Shards, found |-> {}]
  /\ seen' = {} /\ repeated' = {} /\ lost' = FALSE /\ pages' = 0
  /\ stable' = ListSubscriptions(filter, SubIDs)
  /\ UNCHANGED storeVars

\* The listing is complete: sort it, go past the cursor, cut it at the limit.
\* A client that gets a token asks for the next page with it.
ListSubscriptionsPage ==
  LET rest == AfterCursor(walk.found, walk.cursor) IN
  /\ walk.pc = "listing" /\ walk.shards = {}
  /\ lost' = (lost \/ (walk.cursor # None /\ walk.cursor \notin walk.found))
  /\ \E page \in SUBSET rest, cursor \in Cursor :
       /\ IsPage(page, rest, walk.limit)
       /\ IsNextCursor(cursor, page, rest)
       /\ walk' = [walk EXCEPT
            !.pc     = IF cursor = None THEN "done" ELSE "listing",
            !.shards = IF cursor = None THEN {} ELSE Shards,
            !.cursor = cursor,
            !.found  = {}]
       /\ seen' = seen \cup page
       /\ repeated' = repeated \cup (seen \cap page)
       /\ pages' = IF cursor = None \/ lost' THEN pages ELSE pages + 1
  /\ UNCHANGED <<storeVars, stable>>

-----------------------------------------------------------------------------
\* A writer of the store, by any of its operations.
Write ==
  /\ \/ \E sub \in Inputs : SaveContract(sub) /\ SaveSubscription(sub)
     \/ \E sub \in Inputs :
          CreateContract(sub) /\ CreateSubscriptionIfNotActive(sub)
     \/ \E id \in SubIDs : DeleteSubscription(id)
  /\ UNCHANGED <<walk, seen, repeated, lost, pages>>
  /\ stable' = stable \cap ListSubscriptions(walk.filter, SubIDs)'

Next ==
  \/ Write
  \/ \E shard \in Shards : ListShard(shard)
  \/ ListSubscriptionsPage
  \/ \E filter \in Filters, limit \in Limits : StartWalk(filter, limit)

Spec == Init /\ [][Next]_vars

-----------------------------------------------------------------------------
(***************************************************************************)
(* Properties.                                                             *)
(***************************************************************************)
\* A subscription that matched the filter from the first request to the last
\* page is in one of the pages, although others come and go meanwhile, the
\* item of the cursor included, and the shards are read at different times.
NothingSkipped == walk.pc = "done" => stable \subseteq seen

\* No subscription is in two pages, unless the item that a cursor named was
\* deleted or left the filter: the next page then starts at the beginning.
NothingRepeated == ~lost => repeated = {}

\* A client is sent on only for a full page of subscriptions that were in no
\* page before, so a walk goes on no longer than writers keep adding
\* subscriptions, unless the item of a cursor was gone.  IDs are UUIDv7: new
\* ones come after every cursor, and while writers add them a walk need not end.
PagesAreNew == ~lost => pages * walk.limit <= Cardinality(seen)
=============================================================================
