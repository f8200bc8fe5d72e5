---------------------- MODULE SubscriptionStoreProofs ----------------------
(***************************************************************************)
(* The index invariants of SubscriptionStore for every set of IDs.         *)
(*                                                                         *)
(* IndexInv is inductive as it stands: each index is repaired in the same  *)
(* critical section as the primary map.  The exact form of the active      *)
(* index needs the callers of ExclusiveSpec.                               *)
(***************************************************************************)
EXTENDS SubscriptionStore, TLAPS

IndexInv == StoreTypeOK /\ ProviderIndexExact /\ ActiveIndexSound

-----------------------------------------------------------------------------
\* The three write operations keep every map well typed.
LEMMA SaveTypeOK ==
  ASSUME StoreTypeOK, NEW sub \in Subscription, SaveSubscription(sub)
  PROVE  StoreTypeOK'
BY NoneAssumption
   DEF StoreTypeOK, SaveSubscription, ProviderIndexAfterSave, AddProviderID,
       EvictProviderID, ActiveIndexAfterSave, AddActive, EvictActive,
       Subscription

LEMMA InsertTypeOK ==
  ASSUME StoreTypeOK, NEW sub \in Subscription, InsertSubscription(sub)
  PROVE  StoreTypeOK'
BY NoneAssumption
   DEF StoreTypeOK, InsertSubscription, AddProviderID, AddActive, Subscription

LEMMA RemoveTypeOK ==
  ASSUME StoreTypeOK, NEW id \in SubIDs, RemoveSubscription(id)
  PROVE  StoreTypeOK'
BY NoneAssumption
   DEF StoreTypeOK, RemoveSubscription, EvictProviderID, EvictActive,
       Subscription

-----------------------------------------------------------------------------
\* The provider index stays exact: the old entry is evicted before the new
\* one is written, and no other record holds either provider ID.
LEMMA SaveProviderIndex ==
  ASSUME StoreTypeOK, ProviderIndexExact,
         NEW sub \in Subscription, SaveContract(sub), SaveSubscription(sub)
  PROVE  ProviderIndexExact'
BY NoneAssumption
   DEF StoreTypeOK, ProviderIndexExact, SaveContract, ProviderIDUnshared,
       Exists, SaveSubscription, ProviderIndexAfterSave, AddProviderID,
       EvictProviderID, Subscription

LEMMA InsertProviderIndex ==
  ASSUME StoreTypeOK, ProviderIndexExact,
         NEW sub \in Subscription, CreateContract(sub), InsertSubscription(sub)
  PROVE  ProviderIndexExact'
BY NoneAssumption
   DEF StoreTypeOK, ProviderIndexExact, CreateContract, ProviderIDUnshared,
       Exists, InsertSubscription, AddProviderID, Subscription

LEMMA RemoveProviderIndex ==
  ASSUME StoreTypeOK, ProviderIndexExact,
         NEW id \in SubIDs, Exists(id), RemoveSubscription(id)
  PROVE  ProviderIndexExact'
BY NoneAssumption
   DEF StoreTypeOK, ProviderIndexExact, Exists, RemoveSubscription,
       EvictProviderID, Subscription

-----------------------------------------------------------------------------
\* The active index stays sound: an entry is written only for an active
\* record, and a record that stops being active loses its entry.
LEMMA SaveActiveSound ==
  ASSUME StoreTypeOK, ActiveIndexSound,
         NEW sub \in Subscription, SaveContract(sub), SaveSubscription(sub)
  PROVE  ActiveIndexSound'
BY NoneAssumption
   DEF StoreTypeOK, ActiveIndexSound, SaveContract, IsActive, Exists,
       SaveSubscription, ActiveIndexAfterSave, AddActive, EvictActive,
       isActiveStatus, Subscription

LEMMA InsertActiveSound ==
  ASSUME StoreTypeOK, ActiveIndexSound,
         NEW sub \in Subscription, CreateContract(sub), InsertSubscription(sub)
  PROVE  ActiveIndexSound'
BY NoneAssumption
   DEF StoreTypeOK, ActiveIndexSound, CreateContract, IsActive, Exists,
       InsertSubscription, AddActive, isActiveStatus, Subscription

LEMMA RemoveActiveSound ==
  ASSUME StoreTypeOK, ActiveIndexSound,
         NEW id \in SubIDs, Exists(id), RemoveSubscription(id)
  PROVE  ActiveIndexSound'
BY NoneAssumption
   DEF StoreTypeOK, ActiveIndexSound, IsActive, Exists, RemoveSubscription,
       EvictActive, Subscription

-----------------------------------------------------------------------------
LEMMA IndexInvStep ==
  ASSUME IndexInv, [StoreNext]_storeVars
  PROVE  IndexInv'
<1>1. ASSUME NEW sub \in Subscription, SaveContract(sub), SaveSubscription(sub)
      PROVE  IndexInv'
  BY <1>1, SaveTypeOK, SaveProviderIndex, SaveActiveSound DEF IndexInv
<1>2. ASSUME NEW sub \in Subscription, CreateContract(sub),
             InsertSubscription(sub)
      PROVE  IndexInv'
  BY <1>2, InsertTypeOK, InsertProviderIndex, InsertActiveSound DEF IndexInv
<1>3. ASSUME NEW id \in SubIDs, Exists(id), RemoveSubscription(id)
      PROVE  IndexInv'
  BY <1>3, RemoveTypeOK, RemoveProviderIndex, RemoveActiveSound DEF IndexInv
<1>4. CASE UNCHANGED storeVars
  BY <1>4 DEF IndexInv, storeVars, StoreTypeOK, ProviderIndexExact,
              ActiveIndexSound, IsActive, Exists
<1> QED
  BY <1>1, <1>2, <1>3, <1>4
     DEF StoreNext, CreateSubscriptionIfNotActive, DeleteSubscription

LEMMA IndexInvInit == StoreInit => IndexInv
BY NoneAssumption DEF StoreInit, IndexInv, StoreTypeOK, ProviderIndexExact,
                      ActiveIndexSound, IsActive, Exists

\* Every map of the store stays well typed, whatever the callers save,
\* create and delete within the contract.
THEOREM StoreTypeCorrect == StoreSpec => []StoreTypeOK
<1>1. IndexInv => StoreTypeOK
  BY DEF IndexInv
<1> QED
  BY IndexInvInit, IndexInvStep, <1>1, PTL DEF StoreSpec

\* byProviderID names exactly the stored subscriptions with a provider ID
\* (first invariant of the comment on SubscriptionStore).
THEOREM ProviderIndexCorrect == StoreSpec => []ProviderIndexExact
<1>1. IndexInv => ProviderIndexExact
  BY DEF IndexInv
<1> QED
  BY IndexInvInit, IndexInvStep, <1>1, PTL DEF StoreSpec

\* An entry of activeBySubscriber always names a stored, active subscription
\* of that subscriber.
THEOREM ActiveIndexSoundness == StoreSpec => []ActiveIndexSound
<1>1. IndexInv => ActiveIndexSound
  BY DEF IndexInv
<1> QED
  BY IndexInvInit, IndexInvStep, <1>1, PTL DEF StoreSpec

-----------------------------------------------------------------------------
\* With callers that never save a second active subscription the other half
\* of the second invariant is preserved too.
LEMMA ExactStep ==
  ASSUME IndexInv, ActiveIndexExact, [ExclusiveNext]_storeVars
  PROVE  ActiveIndexExact'
<1>0. ActiveIndexSound'
  BY IndexInvStep DEF ExclusiveNext, StoreNext, IndexInv
<1>1. ASSUME NEW sub \in Subscription, SaveContract(sub), NoSecondActive(sub),
             SaveSubscription(sub)
      PROVE  ActiveIndexExact'
  <2> DEFINE u == sub.SubscriberID
  <2>1. /\ sub.ID \in SubIDs /\ u \in Subscribers /\ sub # None
        /\ subs'[sub.ID] = sub
        /\ \A id \in SubIDs \ {sub.ID} : subs'[id] = subs[id]
    BY <1>1, NoneAssumption
       DEF IndexInv, StoreTypeOK, SaveSubscription, Subscription
  <2>2. SUFFICES ASSUME NEW id \in SubIDs, IsActive(id)'
                 PROVE  activeBySubscriber'[subs'[id].SubscriberID] = id
    BY <1>0 DEF ActiveIndexExact
  <2>3. CASE id = sub.ID
    <3>1. isActiveStatus(sub.Status)
      BY <2>1, <2>2, <2>3 DEF IsActive, isActiveStatus
    <3>2. activeBySubscriber' = [activeBySubscriber EXCEPT ![u] = sub.ID]
      BY <1>1, <3>1 DEF SaveSubscription, ActiveIndexAfterSave, AddActive
    <3> QED BY <2>1, <2>3, <3>2 DEF IndexInv, StoreTypeOK
  <2>4. CASE id # sub.ID
    <3>1. subs'[id] = subs[id] /\ IsActive(id)
      BY <2>1, <2>2, <2>4 DEF IsActive, Exists, isActiveStatus
    <3>2. PICK v \in Subscribers : v = subs[id].SubscriberID
      BY <3>1 DEF IsActive, Exists, IndexInv, StoreTypeOK, Subscription
    <3>3. activeBySubscriber[v] = id
      BY <3>1, <3>2 DEF ActiveIndexExact
    <3>4. CASE isActiveStatus(sub.Status)
      <4>1. v # u
        BY <1>1, <2>4, <3>1, <3>2, <3>4 DEF NoSecondActive
      <4>2. activeBySubscriber' = [activeBySubscriber EXCEPT ![u] = sub.ID]
        BY <1>1, <3>4 DEF SaveSubscription, ActiveIndexAfterSave, AddActive
      <4> QED BY <3>1, <3>2, <3>3, <4>1, <4>2 DEF IndexInv, StoreTypeOK
    <3>5. CASE ~isActiveStatus(sub.Status)
      BY <1>1, <2>1, <2>4, <3>1, <3>2, <3>3, <3>5
         DEF IndexInv, StoreTypeOK, SaveSubscription, ActiveIndexAfterSave,
             EvictActive
    <3> QED BY <3>4, <3>5
  <2> QED BY <2>3, <2>4
<1>2. ASSUME NEW sub \in Subscription, CreateContract(sub),
             ~ActiveConflict(sub), InsertSubscription(sub)
      PROVE  ActiveIndexExact'
  BY <1>0, <1>2, NoneAssumption
     DEF IndexInv, StoreTypeOK, ActiveIndexExact, CreateContract,
         ActiveConflict, IsActive, Exists, InsertSubscription, AddActive,
         isActiveStatus, Subscription
<1>3. ASSUME NEW id \in SubIDs, Exists(id), RemoveSubscription(id)
      PROVE  ActiveIndexExact'
  BY <1>0, <1>3, NoneAssumption
     DEF IndexInv, StoreTypeOK, ActiveIndexExact, IsActive, Exists,
         RemoveSubscription, EvictActive, Subscription
<1>4. CASE UNCHANGED storeVars
  BY <1>4 DEF storeVars, ActiveIndexExact, ActiveIndexSound, IsActive, Exists
<1> QED
  BY <1>1, <1>2, <1>3, <1>4
     DEF ExclusiveNext, CreateSubscriptionIfNotActive, DeleteSubscription

\* Under ExclusiveSpec activeBySubscriber is exact: a subscriber has at most
\* one active subscription and GetActiveSubscription finds it.
THEOREM ActiveIndexCorrect == ExclusiveSpec => []ActiveIndexExact
<1>1. StoreInit => IndexInv /\ ActiveIndexExact
  BY IndexInvInit, NoneAssumption
     DEF StoreInit, IndexInv, ActiveIndexExact, IsActive, Exists
<1>2. IndexInv /\ ActiveIndexExact /\ [ExclusiveNext]_storeVars
        => (IndexInv /\ ActiveIndexExact)'
  <2>1. [ExclusiveNext]_storeVars => [StoreNext]_storeVars
    BY DEF ExclusiveNext, StoreNext
  <2> QED
    BY <2>1, IndexInvStep, ExactStep
<1> QED
  BY <1>1, <1>2, PTL DEF ExclusiveSpec
=============================================================================
