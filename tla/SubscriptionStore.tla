------------------------- MODULE SubscriptionStore -------------------------
(***************************************************************************)
(* store/memory/memory.go: SubscriptionStore, the in-memory subscription   *)
(* store with two secondary indexes.  Every method runs under one          *)
(* sync.RWMutex, so every method is one atomic action here.                *)
(*                                                                         *)
(* Go maps are total functions: a missing key is None.  The code compares  *)
(* a missing string with "" in the same way, because Manager.newID and the *)
(* provider never return the empty string.                                 *)
(***************************************************************************)
CONSTANTS
  SubIDs,       \* subscription IDs
  ProviderIDs,  \* IDs the payment provider assigns to subscriptions
  Subscribers,  \* the application's user or tenant IDs
  PlanIDs,      \* plan IDs
  None          \* "", nil, or a missing map entry

VARIABLES
  subs,               \* primary map: subscription ID -> record
  byProviderID,       \* provider ID -> subscription ID
  activeBySubscriber  \* subscriber ID -> ID of its active subscription

storeVars == <<subs, byProviderID, activeBySubscriber>>

(***************************************************************************)
(* The stored record.  Of the optional time stamps only "set" and "nil"    *)
(* are told apart; periods and metadata are carried but never read here.   *)
(***************************************************************************)
Statuses ==
  {"trialing", "active", "paused", "past_due", "canceled", "expired"}

Subscription ==
  [ID           : SubIDs,
   ProviderID   : ProviderIDs \cup {None},
   SubscriberID : Subscribers,
   PlanID       : PlanIDs,
   Status       : Statuses,
   CanceledAt   : BOOLEAN,
   PausedAt     : BOOLEAN]

ASSUME NoneAssumption ==
  /\ None \notin SubIDs
  /\ None \notin ProviderIDs
  /\ None \notin Subscription

isActiveStatus(status) == status \in {"active", "trialing"}

Exists(id) == subs[id] # None

\* id names a stored subscription that gives access to its features.
IsActive(id) == Exists(id) /\ isActiveStatus(subs[id].Status)

StoreTypeOK ==
  /\ subs \in [SubIDs -> Subscription \cup {None}]
  /\ byProviderID \in [ProviderIDs -> SubIDs \cup {None}]
  /\ activeBySubscriber \in [Subscribers -> SubIDs \cup {None}]

StoreInit ==
  /\ subs = [id \in SubIDs |-> None]
  /\ byProviderID = [pid \in ProviderIDs |-> None]
  /\ activeBySubscriber = [u \in Subscribers |-> None]

-----------------------------------------------------------------------------
(***************************************************************************)
(* Index maintenance, as functions of the index and of the record before   *)
(* (None when there was none) and after the write.                         *)
(***************************************************************************)
\* The stale entry of a record whose provider ID changed is left behind.
EvictProviderID_Never(index, old) == index

EvictProviderID(index, old) ==
  IF old # None /\ old.ProviderID # None
  THEN [index EXCEPT ![old.ProviderID] = None]
  ELSE index

\* The entry is written with the provider ID on both sides.
AddProviderID_WrongValue(index, sub) ==
  IF sub.ProviderID # None
  THEN [index EXCEPT ![sub.ProviderID] = sub.ProviderID]
  ELSE index

AddProviderID(index, sub) ==
  IF sub.ProviderID # None
  THEN [index EXCEPT ![sub.ProviderID] = sub.ID]
  ELSE index

ProviderIndexAfterSave(index, old, sub) ==
  AddProviderID(EvictProviderID(index, old), sub)

AddActive(index, sub) ==
  IF isActiveStatus(sub.Status)
  THEN [index EXCEPT ![sub.SubscriberID] = sub.ID]
  ELSE index

\* The entry is evicted whatever subscription it names.
EvictActive_Unchecked(index, u, id) == [index EXCEPT ![u] = None]

\* Evict the entry of a subscriber only if it still names subscription id.
EvictActive(index, u, id) ==
  IF index[u] = id THEN [index EXCEPT ![u] = None] ELSE index

\* Only a canceled subscription is evicted, not a paused or past-due one.
ActiveIndexAfterSave_CanceledOnly(index, old, sub) ==
  IF old # None /\ isActiveStatus(old.Status) /\ sub.Status = "canceled"
  THEN EvictActive(index, old.SubscriberID, sub.ID)
  ELSE AddActive(index, sub)

ActiveIndexAfterSave(index, old, sub) ==
  IF isActiveStatus(sub.Status)
  THEN AddActive(index, sub)
  ELSE IF old # None /\ isActiveStatus(old.Status)
       THEN EvictActive(index, old.SubscriberID, sub.ID)
       ELSE index

-----------------------------------------------------------------------------
(***************************************************************************)
(* Operations that write.                                                  *)
(***************************************************************************)
SaveSubscription(sub) ==
  /\ subs' = [subs EXCEPT ![sub.ID] = sub]
  /\ byProviderID' =
       ProviderIndexAfterSave(byProviderID, subs[sub.ID], sub)
  /\ activeBySubscriber' =
       ActiveIndexAfterSave(activeBySubscriber, subs[sub.ID], sub)

\* The conflict check forgets to look at the index.
ActiveConflict_Never(sub) == FALSE

\* The store-level duplicate check: *store.ErrAlreadyExists is returned.
ActiveConflict(sub) == activeBySubscriber[sub.SubscriberID] # None

InsertSubscription(sub) ==
  /\ subs' = [subs EXCEPT ![sub.ID] = sub]
  /\ byProviderID' = AddProviderID(byProviderID, sub)
  /\ activeBySubscriber' = AddActive(activeBySubscriber, sub)

CreateSubscriptionIfNotActive(sub) ==
  \/ ActiveConflict(sub) /\ UNCHANGED storeVars
  \/ ~ActiveConflict(sub) /\ InsertSubscription(sub)

RemoveSubscription(id) ==
  /\ byProviderID' = EvictProviderID(byProviderID, subs[id])
  /\ activeBySubscriber' =
       EvictActive(activeBySubscriber, subs[id].SubscriberID, id)
  /\ subs' = [subs EXCEPT ![id] = None]

DeleteSubscription(id) ==
  \/ ~Exists(id) /\ UNCHANGED storeVars
  \/ Exists(id) /\ RemoveSubscription(id)

-----------------------------------------------------------------------------
(***************************************************************************)
(* Operations that read: the record found, or None for *ErrNotFound.       *)
(***************************************************************************)
GetSubscription(id) == subs[id]

GetSubscriptionByProviderID(pid) ==
  IF byProviderID[pid] = None THEN None ELSE subs[byProviderID[pid]]

GetActiveSubscription(u) ==
  IF activeBySubscriber[u] = None THEN None ELSE subs[activeBySubscriber[u]]

-----------------------------------------------------------------------------
(***************************************************************************)
(* What the callers keep to.  Manager assigns SubscriberID once, when it   *)
(* creates the record, and takes provider IDs from the provider, which     *)
(* never gives the same one to two subscriptions (Lifecycle shows that the *)
(* Manager's calls obey this).                                             *)
(***************************************************************************)
ProviderIDUnshared(sub) ==
  sub.ProviderID # None =>
    \A id \in SubIDs \ {sub.ID} :
      Exists(id) => subs[id].ProviderID # sub.ProviderID

SaveContract(sub) ==
  /\ Exists(sub.ID) => subs[sub.ID].SubscriberID = sub.SubscriberID
  /\ ProviderIDUnshared(sub)

CreateContract(sub) ==
  /\ ~Exists(sub.ID)
  /\ ProviderIDUnshared(sub)

StoreNext ==
  \/ \E sub \in Subscription : SaveContract(sub) /\ SaveSubscription(sub)
  \/ \E sub \in Subscription :
       CreateContract(sub) /\ CreateSubscriptionIfNotActive(sub)
  \/ \E id \in SubIDs : DeleteSubscription(id)

StoreSpec == StoreInit /\ [][StoreNext]_storeVars

(***************************************************************************)
(* The same callers, who in addition never turn a second subscription of   *)
(* one subscriber active through SaveSubscription.                         *)
(***************************************************************************)
NoSecondActive(sub) ==
  isActiveStatus(sub.Status) =>
    \A id \in SubIDs \ {sub.ID} :
      IsActive(id) => subs[id].SubscriberID # sub.SubscriberID

ExclusiveNext ==
  \/ \E sub \in Subscription :
       SaveContract(sub) /\ NoSecondActive(sub) /\ SaveSubscription(sub)
  \/ \E sub \in Subscription :
       CreateContract(sub) /\ CreateSubscriptionIfNotActive(sub)
  \/ \E id \in SubIDs : DeleteSubscription(id)

ExclusiveSpec == StoreInit /\ [][ExclusiveNext]_storeVars

-----------------------------------------------------------------------------
(***************************************************************************)
(* Properties.                                                             *)
(***************************************************************************)
\* The documented invariant of byProviderID: an entry names subscription id
\* exactly when id is stored with that provider ID.  GetSubscriptionByProviderID
\* dereferences subs[id] unchecked, so a dangling entry would be a nil pointer.
ProviderIndexExact ==
  \A pid \in ProviderIDs, id \in SubIDs :
    byProviderID[pid] = id <=> Exists(id) /\ subs[id].ProviderID = pid

\* One half of the documented invariant of activeBySubscriber: an entry names
\* a stored, active subscription of that subscriber.  So Subscribe is never
\* refused to a subscriber without an active subscription, and
\* GetActiveSubscription never returns a paused or canceled record.
ActiveIndexSound ==
  \A u \in Subscribers :
    LET id == activeBySubscriber[u] IN
    id # None => IsActive(id) /\ subs[id].SubscriberID = u

\* The whole documented invariant of activeBySubscriber: in addition every
\* active subscription is the one its subscriber's entry names, so that there
\* is at most one and GetActiveSubscription finds it.
ActiveIndexExact ==
  /\ ActiveIndexSound
  /\ \A id \in SubIDs :
       IsActive(id) => activeBySubscriber[subs[id].SubscriberID] = id
=============================================================================
