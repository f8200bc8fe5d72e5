-------------------------- MODULE PaginationProofs --------------------------
(***************************************************************************)
(* Theorems about Pagination, for any number of records, shards, filters   *)
(* and limits.                                                             *)
(***************************************************************************)
EXTENDS Pagination, SubscriptionStoreProofs, FiniteSetTheorems

\* What is stable is stored and matches the filter.
StableMatches ==
  \A id \in stable : Exists(id) /\ Matches(subs[id], walk.filter)

\* The shards that have been listed gave every stable subscription in them.
StableFound ==
  walk.pc = "listing" =>
    \A shard \in Shards \ walk.shards : stable \cap shard \subseteq walk.found

\* What is stable and not yet in a page comes after the cursor.
StableAhead ==
  walk.pc = "listing" /\ walk.cursor # None =>
    \A id \in stable \ seen : id > walk.cursor

\* What has been in a page does not come after the cursor.
SeenBehind ==
  walk.pc = "listing" /\ ~lost =>
    \A id \in seen : walk.cursor # None /\ id <= walk.cursor

\* Only finitely many subscriptions are ever stored at a time, listed for a
\* page, or in the pages of a walk, whatever the supply of IDs.
StoredIDs == {id \in SubIDs : Exists(id)}

Finite ==
  IsFiniteSet(StoredIDs) /\ IsFiniteSet(walk.found) /\ IsFiniteSet(seen)

PaginationInv ==
  /\ PaginationTypeOK
  /\ Finite /\ PagesAreNew
  /\ StableMatches /\ StableFound /\ StableAhead /\ SeenBehind
  /\ NothingSkipped /\ NothingRepeated

-----------------------------------------------------------------------------
LEMMA ListShardInv ==
  ASSUME PaginationInv, NEW shard \in Shards, ListShard(shard)
  PROVE  PaginationInv'
<1> USE DEF PaginationInv
<1>1. /\ walk.pc = "listing" /\ UNCHANGED <<storeVars, seen, repeated, stable, lost, pages>>
      /\ walk' \in Walk /\ walk'.pc = walk.pc /\ walk'.limit = walk.limit
      /\ walk'.filter = walk.filter /\ walk'.cursor = walk.cursor
      /\ walk'.shards = walk.shards \ {shard}
      /\ walk'.found = walk.found \cup ListSubscriptions(walk.filter, shard)
  <2>1. ListSubscriptions(walk.filter, shard) \subseteq SubIDs
    BY PaginationAssumption DEF ListSubscriptions
  <2> QED BY <2>1 DEF ListShard, PaginationTypeOK, Walk
<1>2. PaginationTypeOK'
  BY <1>1 DEF PaginationTypeOK, StoreTypeOK, storeVars
<1>3. StableMatches'
  BY <1>1 DEF StableMatches, Exists, storeVars, Matches
<1>4. StableFound'
  <2>1. stable \cap shard \subseteq ListSubscriptions(walk.filter, shard)
    BY DEF StableMatches, ListSubscriptions
  <2> QED BY <1>1, <2>1 DEF StableFound
<1>5. /\ StableAhead' /\ SeenBehind' /\ NothingSkipped' /\ NothingRepeated'
      /\ PagesAreNew'
  BY <1>1 DEF StableAhead, SeenBehind, NothingSkipped, NothingRepeated, PagesAreNew
<1>6. Finite'
  <2>1. ListSubscriptions(walk.filter, shard) \in SUBSET StoredIDs
    BY PaginationAssumption DEF ListSubscriptions, StoredIDs
  <2>2. IsFiniteSet(walk'.found)
    BY <1>1, <2>1, FS_Subset, FS_Union DEF Finite
  <2> QED BY <1>1, <2>2 DEF Finite, StoredIDs, Exists, storeVars
<1> QED BY <1>2, <1>3, <1>4, <1>5, <1>6

\* The first request of a walk.
LEMMA StartWalkInv ==
  ASSUME PaginationInv, NEW filter \in Filters, NEW limit \in Limits,
         StartWalk(filter, limit)
  PROVE  PaginationInv'
<1> USE DEF PaginationInv
<1>1. PageLimit(limit) \in Nat \ {0}
  BY PaginationAssumption DEF PageLimit
<1>2. /\ walk' = [pc |-> "listing", filter |-> filter, limit |-> PageLimit(limit),
                  cursor |-> None, shards |-> Shards, found |-> {}]
      /\ seen' = {} /\ repeated' = {} /\ lost' = FALSE /\ pages' = 0
      /\ stable' = ListSubscriptions(filter, SubIDs)
      /\ UNCHANGED storeVars
  BY DEF StartWalk
<1>3. PaginationTypeOK'
  BY <1>1, <1>2, PaginationAssumption
  DEF PaginationTypeOK, StoreTypeOK, storeVars, Walk, Cursor, ListSubscriptions
<1>4. StableMatches'
  BY <1>2 DEF StableMatches, ListSubscriptions, Exists, storeVars, Matches
<1>5. Finite'
  BY <1>2, FS_EmptySet DEF Finite, StoredIDs, Exists, storeVars
<1>6. PagesAreNew'
  BY <1>1, <1>2, FS_EmptySet DEF PagesAreNew
<1> QED BY <1>2, <1>3, <1>4, <1>5, <1>6
        DEF StableFound, StableAhead, SeenBehind, NothingSkipped, NothingRepeated

\* A page is cut and the cursor moves behind it.
LEMMA PageInv ==
  ASSUME PaginationInv, ListSubscriptionsPage
  PROVE  PaginationInv'
<1> DEFINE rest == AfterCursor(walk.found, walk.cursor)
<1>1. /\ PaginationTypeOK /\ walk.pc = "listing" /\ walk.shards = {}
      /\ UNCHANGED <<storeVars, stable>>
      /\ lost' = (lost \/ (walk.cursor # None /\ walk.cursor \notin walk.found))
  BY DEF ListSubscriptionsPage, PaginationInv
<1>2. PICK page \in SUBSET rest, cursor \in Cursor :
        /\ Precedes(page, rest \ page)
        /\ page # rest => Cardinality(page) = walk.limit
        /\ IsNextCursor(cursor, page, rest)
        /\ walk' = [walk EXCEPT
             !.pc     = IF cursor = None THEN "done" ELSE "listing",
             !.shards = IF cursor = None THEN {} ELSE Shards,
             !.cursor = cursor,
             !.found  = {}]
        /\ seen' = seen \cup page
        /\ repeated' = repeated \cup (seen \cap page)
        /\ pages' = IF cursor = None \/ lost' THEN pages ELSE pages + 1
  BY DEF ListSubscriptionsPage, IsPage
<1>3. /\ walk' \in Walk /\ walk'.filter = walk.filter
      /\ walk'.pc = IF cursor = None THEN "done" ELSE "listing"
      /\ walk'.shards = IF cursor = None THEN {} ELSE Shards
      /\ walk'.cursor = cursor /\ walk'.found = {} /\ walk'.limit = walk.limit
  BY <1>1, <1>2 DEF PaginationTypeOK, Walk
<1>4. walk.found \subseteq SubIDs /\ rest \subseteq SubIDs /\ seen \subseteq SubIDs
  BY <1>1 DEF PaginationTypeOK, Walk, AfterCursor
<1>5. PaginationTypeOK'
  BY <1>1, <1>2, <1>3, <1>4 DEF PaginationTypeOK, StoreTypeOK, storeVars
<1>6. StableMatches'
  BY <1>1, <1>3 DEF PaginationInv, StableMatches, Exists, storeVars, Matches
<1>7. StableFound'
  BY <1>3 DEF StableFound
<1>8. stable \subseteq walk.found
  BY <1>1, PaginationAssumption DEF PaginationInv, StableFound, PaginationTypeOK
<1>9. stable \ seen \subseteq rest
  <2>1. walk.cursor # None => \A id \in stable \ seen : id > walk.cursor
    BY <1>1 DEF PaginationInv, StableAhead
  <2>2. None \notin walk.found
    BY <1>4, NoneAssumption
  <2> QED BY <1>8, <2>1, <2>2 DEF AfterCursor
<1>10. StableAhead' /\ NothingSkipped'
  <2>1. CASE page = rest
    BY <1>1, <1>2, <1>3, <1>9, <2>1 DEF StableAhead, NothingSkipped
  <2>2. CASE page # rest
    <3>1. cursor \in page /\ cursor # None
      BY <1>2, <1>4, <2>2, NoneAssumption DEF IsNextCursor
    <3>2. \A id \in rest \ page : id > cursor
      BY <1>2, <1>4, <3>1, PaginationAssumption DEF Precedes
    <3> QED BY <1>1, <1>2, <1>3, <1>9, <3>1, <3>2 DEF StableAhead, NothingSkipped
  <2> QED BY <2>1, <2>2
<1>11. ASSUME ~lost' PROVE seen \cap page = {}
  <2>1. ~lost /\ \A id \in seen : walk.cursor # None /\ id <= walk.cursor
    BY <1>1, <1>11 DEF PaginationInv, SeenBehind
  <2>2. seen # {} => walk.cursor \in walk.found
    BY <1>1, <1>11, <2>1
  <2>3. seen # {} => \A id \in page : id > walk.cursor
    BY <1>2, <2>2 DEF AfterCursor
  <2> QED BY <1>2, <1>4, <2>1, <2>2, <2>3, PaginationAssumption
<1>12. NothingRepeated'
  <2>1. ~lost' => repeated = {}
    BY <1>1 DEF PaginationInv, NothingRepeated
  <2> QED BY <1>2, <1>11, <2>1 DEF NothingRepeated
<1>13. SeenBehind'
  <2>1. SUFFICES ASSUME walk'.pc = "listing", ~lost', NEW id \in seen'
                 PROVE  walk'.cursor # None /\ id <= walk'.cursor
    BY DEF SeenBehind
  <2>2. cursor # None /\ cursor \in page /\ \A i \in page : i <= cursor
    BY <1>2, <1>3, <2>1 DEF IsNextCursor
  <2>3. CASE id \in page
    BY <1>3, <2>2, <2>3
  <2>4. CASE id \in seen
    <3>1. walk.cursor # None /\ id <= walk.cursor /\ walk.cursor \in walk.found
      BY <1>1, <2>1, <2>4 DEF PaginationInv, SeenBehind
    <3>2. cursor > walk.cursor
      BY <1>2, <2>2, <3>1 DEF AfterCursor
    <3>3. id \in Nat /\ cursor \in Nat /\ walk.cursor \in Nat
      BY <1>2, <1>4, <2>2, <2>4, <3>1, PaginationAssumption
    <3> QED BY <1>3, <2>2, <3>1, <3>2, <3>3
  <2> QED BY <1>2, <2>1, <2>3, <2>4
<1>14. IsFiniteSet(page) /\ IsFiniteSet(seen)
  BY <1>2, FS_Subset DEF PaginationInv, Finite, AfterCursor
<1>15. Finite'
  BY <1>1, <1>2, <1>3, <1>14, FS_Union, FS_EmptySet
  DEF PaginationInv, Finite, StoredIDs, Exists, storeVars
<1>16. PagesAreNew'
  <2>1. SUFFICES ASSUME ~lost' PROVE pages' * walk'.limit <= Cardinality(seen')
    BY DEF PagesAreNew
  <2>2. Cardinality(seen') = Cardinality(seen) + Cardinality(page)
    <3>1. seen \cap page = {} /\ seen' = seen \cup page
      BY <1>2, <1>11, <2>1
    <3>2. Cardinality(seen \cup page) = Cardinality(seen) + Cardinality(page) - 0
      BY <1>14, <3>1, FS_Union, FS_EmptySet
    <3>3. Cardinality(seen) \in Nat /\ Cardinality(page) \in Nat
      BY <1>14, FS_CardinalityType
    <3> QED BY <3>1, <3>2, <3>3
  <2>3. /\ Cardinality(seen) \in Nat /\ Cardinality(page) \in Nat
        /\ pages \in Nat /\ walk.limit \in Nat /\ walk'.limit = walk.limit
        /\ pages * walk.limit \in Nat
    BY <1>1, <1>3, <1>14, FS_CardinalityType DEF PaginationTypeOK, Walk
  <2>4. pages * walk.limit <= Cardinality(seen)
    BY <1>1, <2>1 DEF PaginationInv, PagesAreNew
  <2>5. CASE cursor = None
    BY <1>2, <2>2, <2>3, <2>4, <2>5
  <2>6. CASE cursor # None
    <3>1. Cardinality(page) = walk.limit
      BY <1>2, <2>6 DEF IsNextCursor
    <3>2. pages' = pages + 1
      BY <1>2, <2>1, <2>6
    <3>3. (pages + 1) * walk.limit = pages * walk.limit + walk.limit
      <4>1. \A m, n \in Nat : (m + 1) * n = m * n + n
        OBVIOUS
      <4> QED BY <2>3, <4>1
    <3> QED BY <2>2, <2>3, <2>4, <3>1, <3>2, <3>3
  <2> QED BY <2>5, <2>6
<1> QED BY <1>5, <1>6, <1>7, <1>10, <1>12, <1>13, <1>15, <1>16 DEF PaginationInv

\* Writers touch the store and take away from what is stable.
LEMMA WriteInv ==
  ASSUME PaginationInv, StoreTypeOK', Write
  PROVE  PaginationInv'
<1>1. /\ UNCHANGED <<walk, seen, repeated, lost, pages>>
      /\ stable' = stable \cap ListSubscriptions(walk.filter, SubIDs)'
  BY DEF Write
<1>2. PaginationTypeOK'
  BY <1>1 DEF PaginationInv, PaginationTypeOK
<1>3. StableMatches'
  BY <1>1 DEF StableMatches, ListSubscriptions, Exists, Matches
<1>4. stable' \subseteq stable
  BY <1>1
<1>5. StableFound' /\ StableAhead' /\ SeenBehind' /\ NothingSkipped' /\ NothingRepeated'
  BY <1>1, <1>4 DEF PaginationInv, StableFound, StableAhead, SeenBehind,
     NothingSkipped, NothingRepeated
<1>6. \E id \in SubIDs : StoredIDs' \subseteq StoredIDs \cup {id}
  <2>1. \A id \in SubIDs : UNCHANGED storeVars => StoredIDs' \subseteq StoredIDs \cup {id}
    BY DEF StoredIDs, Exists, storeVars
  <2>2. ASSUME NEW sub \in Inputs, subs' = [subs EXCEPT ![sub.ID] = sub]
        PROVE  sub.ID \in SubIDs /\ StoredIDs' \subseteq StoredIDs \cup {sub.ID}
    BY <2>2, PaginationAssumption
    DEF StoredIDs, Exists, PaginationInv, PaginationTypeOK, StoreTypeOK, Subscription
  <2>3. ASSUME NEW id \in SubIDs, subs' = [subs EXCEPT ![id] = None]
        PROVE  StoredIDs' \subseteq StoredIDs \cup {id}
    BY <2>3 DEF StoredIDs, Exists, PaginationInv, PaginationTypeOK, StoreTypeOK
  <2>4. ASSUME NEW sub \in Inputs, SaveSubscription(sub)
        PROVE  sub.ID \in SubIDs /\ StoredIDs' \subseteq StoredIDs \cup {sub.ID}
    BY <2>2, <2>4 DEF SaveSubscription
  <2>5. ASSUME NEW sub \in Inputs, CreateSubscriptionIfNotActive(sub)
        PROVE  sub.ID \in SubIDs /\ StoredIDs' \subseteq StoredIDs \cup {sub.ID}
    <3>1. sub.ID \in SubIDs
      BY PaginationAssumption DEF Subscription
    <3> QED BY <2>1, <2>2, <2>5, <3>1 DEF CreateSubscriptionIfNotActive, InsertSubscription
  <2>6. ASSUME NEW id \in SubIDs, DeleteSubscription(id)
        PROVE  StoredIDs' \subseteq StoredIDs \cup {id}
    BY <2>1, <2>3, <2>6 DEF DeleteSubscription, RemoveSubscription
  <2> QED BY <2>4, <2>5, <2>6 DEF Write
<1>7. Finite'
  <2>1. IsFiniteSet(StoredIDs')
    BY <1>6, FS_AddElement, FS_Subset DEF PaginationInv, Finite
  <2> QED BY <1>1, <2>1 DEF PaginationInv, Finite
<1>8. PagesAreNew'
  BY <1>1 DEF PaginationInv, PagesAreNew
<1> QED BY <1>2, <1>3, <1>5, <1>7, <1>8 DEF PaginationInv

-----------------------------------------------------------------------------
LEMMA PaginationInit == Init => PaginationInv /\ IndexInv
<1> SUFFICES ASSUME Init PROVE PaginationInv /\ IndexInv
  OBVIOUS
<1>1. IndexInv /\ StoreTypeOK
  BY IndexInvInit DEF Init, IndexInv
<1>2. walk \in Walk
  BY PaginationAssumption
  DEF Init, Walk, NoFilter, SubscriptionFilter, Cursor
<1>3. Finite /\ PagesAreNew
  <2>1. StoredIDs = {}
    BY DEF Init, StoreInit, StoredIDs, Exists
  <2> QED BY <1>2, <2>1, FS_EmptySet DEF Init, Finite, PagesAreNew, Walk
<1> QED BY <1>1, <1>2, <1>3 DEF Init, PaginationInv, PaginationTypeOK, StableMatches,
        StableFound, StableAhead, SeenBehind, NothingSkipped, NothingRepeated

\* The client leaves the store alone and the writers keep to its contract.
LEMMA StoreStep ==
  ASSUME [Next]_vars
  PROVE  [StoreNext]_storeVars
<1>1. CASE Write
  BY <1>1, PaginationAssumption DEF Write, StoreNext
<1>2. CASE UNCHANGED storeVars
  BY <1>2
<1> QED BY <1>1, <1>2 DEF Next, ListShard, ListSubscriptionsPage,
        StartWalk, vars, storeVars

LEMMA PaginationStep ==
  ASSUME PaginationInv, IndexInv, [Next]_vars
  PROVE  (PaginationInv /\ IndexInv)'
<1>1. IndexInv' /\ StoreTypeOK'
  BY StoreStep, IndexInvStep DEF IndexInv
<1>2. CASE UNCHANGED vars
  BY <1>1, <1>2 DEF vars, PaginationInv, PaginationTypeOK, StableMatches, StableFound,
     StableAhead, SeenBehind, NothingSkipped, NothingRepeated, Exists, Matches,
     Finite, StoredIDs, PagesAreNew
<1> QED BY <1>1, <1>2, ListShardInv, StartWalkInv, PageInv, WriteInv
        DEF Next

\* PaginationInv holds in every reachable state.
THEOREM PaginationInvariant == Spec => []PaginationInv
BY PaginationInit, PaginationStep, PTL DEF Spec

-----------------------------------------------------------------------------
(***************************************************************************)
(* Theorems.                                                               *)
(***************************************************************************)
\* Store, request and history stay well typed: a limit that is not positive
\* becomes the default, and a token names a subscription.
THEOREM PaginationTypes == Spec => []PaginationTypeOK
<1>1. PaginationInv => PaginationTypeOK
  BY DEF PaginationInv
<1> QED BY <1>1, PaginationInvariant, PTL

\* Under pagination the store is used within its contract, so that the index
\* theorems of SubscriptionStoreProofs hold for it.
THEOREM PaginationObeysStore == Spec => StoreSpec
<1>1. Init => StoreInit
  BY DEF Init
<1> QED BY <1>1, StoreStep, PTL DEF Spec, StoreSpec

\* ListSubscriptionsPage skips nothing that matched throughout, whatever
\* writers do between and during the requests and however the store is sharded.
THEOREM PagesSkipNothing == Spec => []NothingSkipped
<1>1. PaginationInv => NothingSkipped
  BY DEF PaginationInv
<1> QED BY <1>1, PaginationInvariant, PTL

\* It repeats nothing unless the item of a cursor was gone.
THEOREM PagesRepeatNothing == Spec => []NothingRepeated
<1>1. PaginationInv => NothingRepeated
  BY DEF PaginationInv
<1> QED BY <1>1, PaginationInvariant, PTL

\* A page that names a next one brings a full page of subscriptions that were
\* in none before, for any supply of IDs, any limit and however many
\* subscriptions writers add.
THEOREM PagesBringNew == Spec => []PagesAreNew
<1>1. PaginationInv => PagesAreNew
  BY DEF PaginationInv
<1> QED BY <1>1, PaginationInvariant, PTL
=============================================================================
