-------------------------- MODULE LifecycleProofs --------------------------
(***************************************************************************)
(* Lifecycle for every set of callers, IDs and plans, with or without a    *)
(* provider, failures and overlapping calls.                               *)
(*                                                                         *)
(* The store's contract speaks of stored records only, while the records   *)
(* that break it would come from the copies the calls hold.  LifecycleInv  *)
(* therefore relates every copy to the store, to the other copies and to   *)
(* the provider.                                                           *)
(***************************************************************************)
EXTENDS Lifecycle, SubscriptionStoreProofs

\* A record is stored under its own ID.
RecordsKeyed == \A id \in SubIDs : Exists(id) => subs[id].ID = id

\* What a call may be doing at each step.
StepsOK ==
  \A c \in Calls : ~Idle(c) =>
    /\ call[c].step = "create" => call[c].kind = "Subscribe"
    /\ call[c].step = "provider" =>
         /\ HasProvider
         /\ call[c].kind \in Operations
         /\ call[c].kind = "Subscribe" <=> call[c].sub.ProviderID = None
    /\ call[c].kind \in {"Subscribe", "ChangePlan"} => call[c].plan \in PlanIDs

\* A copy read from the store still has the record's owner and provider ID.
CopiesFollow ==
  \A c \in Calls : ~Idle(c) /\ call[c].kind # "Subscribe" =>
    /\ Exists(call[c].sub.ID)
    /\ subs[call[c].sub.ID].SubscriberID = call[c].sub.SubscriberID
    /\ subs[call[c].sub.ID].ProviderID = call[c].sub.ProviderID

\* A record that Subscribe is about to insert has an ID nobody else uses.
NewIsFresh ==
  \A c \in Calls : ~Idle(c) /\ call[c].kind = "Subscribe" =>
    /\ ~Exists(call[c].sub.ID)
    /\ call[c].sub.Status # "canceled"
    /\ \A d \in Calls \ {c} : ~Idle(d) => call[d].sub.ID # call[c].sub.ID

\* The provider knows every provider ID that a record or a copy holds, and
\* without a provider none holds one.
ProviderKnown ==
  /\ \A id \in SubIDs : Exists(id) /\ subs[id].ProviderID # None =>
       HasProvider /\ provider[subs[id].ProviderID] # None
  /\ \A c \in Calls : ~Idle(c) /\ call[c].sub.ProviderID # None =>
       HasProvider /\ provider[call[c].sub.ProviderID] # None

\* No provider ID is in two records, or in a record and a new copy.
ProviderIDsDistinct ==
  /\ \A i \in SubIDs, j \in SubIDs :
       Exists(i) /\ Exists(j) /\ i # j /\ subs[i].ProviderID # None =>
         subs[i].ProviderID # subs[j].ProviderID
  /\ \A c \in Calls :
       ~Idle(c) /\ call[c].kind = "Subscribe" /\ call[c].sub.ProviderID # None =>
         /\ \A i \in SubIDs :
              Exists(i) => subs[i].ProviderID # call[c].sub.ProviderID
         /\ \A d \in Calls \ {c} :
              ~Idle(d) => call[d].sub.ProviderID # call[c].sub.ProviderID

\* A copy that is or will be saved as canceled is canceled at the provider.
CanceledCopies ==
  \A c \in Calls :
    /\ ~Idle(c) /\ call[c].sub.ProviderID # None
    /\ \/ call[c].sub.Status = "canceled"
       \/ call[c].kind = "subscription.canceled"
       \/ call[c].kind = "CancelNow" /\ call[c].step = "save"
    => provider[call[c].sub.ProviderID].Status = "canceled"

LifecycleInv ==
  /\ CallsTypeOK
  /\ IndexInv
  /\ RecordsKeyed
  /\ StepsOK
  /\ CopiesFollow
  /\ NewIsFresh
  /\ ProviderKnown
  /\ ProviderIDsDistinct
  /\ CanceledCopies
  /\ CanceledAtProvider

-----------------------------------------------------------------------------
\* Every update of a copy keeps its identity, and makes it canceled only for
\* the two kinds that cancel.
LEMMA UpdatedFacts ==
  ASSUME NEW sub \in Subscription, NEW kind \in Operations \cup Events,
         NEW p \in PlanIDs \cup {None}, kind = "ChangePlan" => p \in PlanIDs
  PROVE  /\ Updated(kind, p, sub) \in Subscription
         /\ Updated(kind, p, sub).ID = sub.ID
         /\ Updated(kind, p, sub).SubscriberID = sub.SubscriberID
         /\ Updated(kind, p, sub).ProviderID = sub.ProviderID
         /\ Updated(kind, p, sub).Status = "canceled" =>
              \/ sub.Status = "canceled"
              \/ kind \in {"CancelNow", "subscription.canceled"}
<1> DEFINE Kept(new) ==
      /\ new \in Subscription /\ new.ID = sub.ID
      /\ new.SubscriberID = sub.SubscriberID /\ new.ProviderID = sub.ProviderID
      /\ new.Status = "canceled" =>
           \/ sub.Status = "canceled"
           \/ kind \in {"CancelNow", "subscription.canceled"}
<1>1. CASE kind \in Events
  <2>1. Kept(applyEventToSubscription(sub, kind))
    BY <1>1 DEF applyEventToSubscription, Events, Subscription, Statuses
  <2>2. Updated(kind, p, sub) = applyEventToSubscription(sub, kind)
    BY <1>1 DEF Updated, Events
  <2> QED BY <2>1, <2>2
<1>2. CASE kind \in {"CancelNow", "CancelAtPeriodEnd"}
  <2>1. Kept(AfterCancel(kind, sub))
    BY <1>2 DEF AfterCancel, Subscription, Statuses
  <2>2. Updated(kind, p, sub) = AfterCancel(kind, sub)
    BY <1>2 DEF Updated, Events
  <2> QED BY <2>1, <2>2
<1>3. CASE kind \in {"Subscribe", "Pause", "Resume", "ChangePlan"}
  <2>1. Kept(sub) /\ Kept(AfterPause(sub)) /\ Kept(AfterResume(sub))
    BY DEF AfterPause, AfterResume, Subscription, Statuses
  <2>2. kind = "ChangePlan" => Kept(AfterChangePlan(p, sub))
    BY DEF AfterChangePlan, Subscription
  <2>3. Updated(kind, p, sub) =
          CASE kind = "Subscribe"  -> sub
            [] kind = "Pause"      -> AfterPause(sub)
            [] kind = "Resume"     -> AfterResume(sub)
            [] kind = "ChangePlan" -> AfterChangePlan(p, sub)
    BY <1>3 DEF Updated, Events
  <2> QED BY <1>3, <2>1, <2>2, <2>3
<1> QED BY <1>1, <1>2, <1>3 DEF Operations

LEMMA ServedFacts ==
  ASSUME NEW record \in ProviderRecord, NEW kind \in Operations \ {"Subscribe"},
         NEW p \in PlanIDs \cup {None}, kind = "ChangePlan" => p \in PlanIDs
  PROVE  /\ Served(record, kind, p) \in ProviderRecord
         /\ kind = "CancelNow" => Served(record, kind, p).Status = "canceled"
BY DEF Served, Operations, ProviderRecord

-----------------------------------------------------------------------------
(***************************************************************************)
(* Steps that change one call and nothing else: beginning a call, leaving  *)
(* it, and the check of the fallback path.                                 *)
(***************************************************************************)
\* Such a step keeps the invariant if the new value of the call fits the
\* store, the provider and the other calls.
LEMMA SetCallInv ==
  ASSUME LifecycleInv, NEW c \in Calls, NEW k \in Call \cup {None},
         call' = [call EXCEPT ![c] = k],
         UNCHANGED <<subs, byProviderID, activeBySubscriber, provider>>,
         k # None =>
           /\ k.step = "create" => k.kind = "Subscribe"
           /\ k.step = "provider" =>
                /\ HasProvider
                /\ k.kind \in Operations
                /\ k.kind = "Subscribe" <=> k.sub.ProviderID = None
           /\ k.kind \in {"Subscribe", "ChangePlan"} => k.plan \in PlanIDs
           /\ k.kind # "Subscribe" =>
                /\ Exists(k.sub.ID)
                /\ subs[k.sub.ID].SubscriberID = k.sub.SubscriberID
                /\ subs[k.sub.ID].ProviderID = k.sub.ProviderID
           /\ k.kind = "Subscribe" =>
                /\ ~Exists(k.sub.ID)
                /\ k.sub.Status # "canceled"
                /\ \A d \in Calls \ {c} : ~Idle(d) =>
                     /\ call[d].sub.ID # k.sub.ID
                     /\ k.sub.ProviderID # None =>
                          call[d].sub.ProviderID # k.sub.ProviderID
                /\ k.sub.ProviderID # None =>
                     \A i \in SubIDs :
                       Exists(i) => subs[i].ProviderID # k.sub.ProviderID
           /\ k.sub.ProviderID # None =>
                /\ HasProvider /\ provider[k.sub.ProviderID] # None
                /\ \/ k.sub.Status = "canceled"
                   \/ k.kind = "subscription.canceled"
                   \/ k.kind = "CancelNow" /\ k.step = "save"
                   => provider[k.sub.ProviderID].Status = "canceled"
  PROVE  LifecycleInv'
<1>1. /\ CallsTypeOK' /\ IndexInv' /\ RecordsKeyed' /\ CanceledAtProvider'
      /\ \A id \in SubIDs : Exists(id)' <=> Exists(id)
  BY DEF LifecycleInv, CallsTypeOK, StoreTypeOK, IndexInv, RecordsKeyed,
         CanceledAtProvider, ProviderIndexExact, ActiveIndexSound, IsActive,
         Exists
<1>2. /\ call \in [Calls -> Call \cup {None}] /\ call'[c] = k
      /\ \A d \in Calls \ {c} : call'[d] = call[d]
      /\ \A d \in Calls : ~Idle(d) => call[d].sub \in Subscription
      /\ k # None => k.sub \in Subscription
  BY DEF LifecycleInv, CallsTypeOK, Idle, Call
<1>3. StepsOK'
  BY <1>2 DEF LifecycleInv, StepsOK, Idle
<1>4. CopiesFollow'
  BY <1>2 DEF LifecycleInv, CopiesFollow, Idle, Exists
<1>5. NewIsFresh'
  BY <1>2 DEF LifecycleInv, NewIsFresh, Idle, Exists
<1>6. ProviderKnown' /\ CanceledCopies'
  BY <1>2 DEF LifecycleInv, ProviderKnown, CanceledCopies, Idle, Exists
<1>7. ProviderIDsDistinct'
  BY <1>2 DEF LifecycleInv, ProviderIDsDistinct, Idle, Exists, Subscription
<1> QED
  BY <1>1, <1>3, <1>4, <1>5, <1>6, <1>7 DEF LifecycleInv

LEMMA SubscribeInv ==
  ASSUME LifecycleInv, NEW c \in Calls, NEW u \in Subscribers,
         NEW p \in PlanIDs, Subscribe(c, u, p)
  PROVE  LifecycleInv'
<1> DEFINE k(id) == [step |-> IF HasProvider THEN "provider" ELSE "create",
                     kind |-> "Subscribe", plan |-> p,
                     sub  |-> NewSubscription(id, u, p)]
<1>1. PICK id \in SubIDs : /\ ~Exists(id) /\ ~Busy(id)
                           /\ call' = [call EXCEPT ![c] = k(id)]
  BY DEF Subscribe
<1>2. /\ k(id) \in Call /\ k(id).sub.ID = id /\ k(id).sub.ProviderID = None
      /\ k(id).kind = "Subscribe" /\ k(id).plan = p
      /\ k(id).sub.Status # "canceled"
      /\ k(id).step \in {"provider", "create"}
      /\ k(id).step = "provider" => HasProvider
  BY DEF Call, NewSubscription, Subscription, Statuses, Operations
<1>3. UNCHANGED <<subs, byProviderID, activeBySubscriber, provider>>
  BY DEF Subscribe, storeVars
<1> HIDE DEF k
<1> QED
  BY <1>1, <1>2, <1>3, SetCallInv DEF Busy, Operations

LEMMA BeginUpdateInv ==
  ASSUME LifecycleInv, NEW c \in Calls, NEW kind \in Operations \ {"Subscribe"},
         NEW id \in SubIDs, NEW p \in PlanIDs \cup {None},
         kind = "ChangePlan" => p \in PlanIDs, BeginUpdate(c, kind, id, p)
  PROVE  LifecycleInv'
<1> DEFINE k == [step |-> IF HasProvider /\ subs[id].ProviderID # None
                          THEN "provider" ELSE "save",
                 kind |-> kind, plan |-> p, sub |-> subs[id]]
<1>1. /\ Exists(id) /\ subs[id] \in Subscription /\ subs[id].ID = id
      /\ call' = [call EXCEPT ![c] = k]
      /\ UNCHANGED <<subs, byProviderID, activeBySubscriber, provider>>
  BY DEF BeginUpdate, GetSubscription, Exists, storeVars, LifecycleInv,
         CallsTypeOK, StoreTypeOK, RecordsKeyed
<1>2. /\ k \in Call /\ k.sub = subs[id] /\ k.kind = kind /\ k.plan = p
      /\ k.step \in {"provider", "save"}
      /\ k.step = "provider" => HasProvider /\ subs[id].ProviderID # None
  BY <1>1 DEF Call
<1>3. /\ subs[id].ProviderID # None =>
           HasProvider /\ provider[subs[id].ProviderID] # None
      /\ subs[id].Status = "canceled" /\ subs[id].ProviderID # None =>
           provider[subs[id].ProviderID].Status = "canceled"
  BY <1>1 DEF LifecycleInv, ProviderKnown, CanceledAtProvider
<1>4. kind = "CancelNow" /\ k.step = "save" => subs[id].ProviderID = None
  BY <1>3
<1> HIDE DEF k
<1> QED
  BY <1>1, <1>2, <1>3, <1>4, SetCallInv DEF Operations

LEMMA HandleWebhookInv ==
  ASSUME LifecycleInv, NEW c \in Calls, NEW pid \in ProviderIDs,
         NEW type \in Events, HandleWebhook(c, pid, type)
  PROVE  LifecycleInv'
<1> DEFINE id == byProviderID[pid]
           k == [step |-> "save", kind |-> type, plan |-> None, sub |-> subs[id]]
<1>0. id # None /\ subs[id] # None
  BY DEF HandleWebhook, GetSubscriptionByProviderID
<1>1. /\ id \in SubIDs /\ Exists(id) /\ subs[id].ProviderID = pid
      /\ HasProvider
      /\ call' = [call EXCEPT ![c] = k]
      /\ UNCHANGED <<subs, byProviderID, activeBySubscriber, provider>>
  <2>1. id \in SubIDs
    BY <1>0 DEF LifecycleInv, CallsTypeOK, StoreTypeOK
  <2>2. Exists(id) /\ subs[id].ProviderID = pid
    BY <2>1 DEF LifecycleInv, IndexInv, ProviderIndexExact
  <2> QED
    BY <1>0, <2>1, <2>2
       DEF HandleWebhook, GetSubscriptionByProviderID, storeVars
<1>2. subs[id] \in Subscription /\ subs[id].ID = id
  BY <1>1 DEF LifecycleInv, CallsTypeOK, StoreTypeOK, Exists, RecordsKeyed
<1>3. /\ k \in Call /\ k.sub = subs[id] /\ k.kind = type /\ k.step = "save"
  BY <1>2 DEF Call
<1>4. /\ provider[pid] # None
      /\ type = "subscription.canceled" => provider[pid].Status = "canceled"
      /\ subs[id].Status = "canceled" => provider[pid].Status = "canceled"
      /\ pid # None
  BY <1>1, NoneAssumption
     DEF HandleWebhook, WebhookSent, LifecycleInv, CanceledAtProvider
<1> HIDE DEF k
<1> QED
  BY <1>1, <1>2, <1>3, <1>4, SetCallInv DEF Events

LEMMA ReturnInv ==
  ASSUME LifecycleInv, NEW c \in Calls, Return(c),
         UNCHANGED <<storeVars, provider>>
  PROVE  LifecycleInv'
BY SetCallInv DEF Return, storeVars

LEMMA CheckNotActiveInv ==
  ASSUME LifecycleInv, NEW c \in Calls, CheckNotActive(c)
  PROVE  LifecycleInv'
<1> DEFINE k == [call[c] EXCEPT !.step = "save"]
<1>1. CASE Return(c)
  BY <1>1, ReturnInv DEF CheckNotActive
<1>2. CASE call' = [call EXCEPT ![c].step = "save"]
  <2>1. /\ ~Idle(c) /\ call[c] \in Call /\ call[c].kind = "Subscribe"
        /\ call' = [call EXCEPT ![c] = k]
        /\ UNCHANGED <<subs, byProviderID, activeBySubscriber, provider>>
    BY <1>2 DEF CheckNotActive, At, Idle, storeVars, LifecycleInv,
                CallsTypeOK, StepsOK
  <2>2. /\ k \in Call /\ k.sub = call[c].sub /\ k.kind = "Subscribe"
        /\ k.plan = call[c].plan /\ k.step = "save"
    BY <2>1 DEF Call
  <2>3. /\ k.plan \in PlanIDs /\ ~Exists(k.sub.ID) /\ k.sub.Status # "canceled"
        /\ \A d \in Calls \ {c} : ~Idle(d) => call[d].sub.ID # k.sub.ID
    BY <2>1, <2>2 DEF LifecycleInv, StepsOK, NewIsFresh
  <2>4. k.sub.ProviderID # None =>
          /\ HasProvider /\ provider[k.sub.ProviderID] # None
          /\ \A i \in SubIDs : Exists(i) => subs[i].ProviderID # k.sub.ProviderID
          /\ \A d \in Calls \ {c} :
               ~Idle(d) => call[d].sub.ProviderID # k.sub.ProviderID
    BY <2>1, <2>2 DEF LifecycleInv, ProviderKnown, ProviderIDsDistinct
  <2> HIDE DEF k
  <2> QED
    BY <2>1, <2>2, <2>3, <2>4, SetCallInv
<1> QED
  BY <1>1, <1>2 DEF CheckNotActive

-----------------------------------------------------------------------------
(***************************************************************************)
(* Steps of the provider.                                                  *)
(***************************************************************************)
\* The store's own invariants do not depend on calls or the provider.
LEMMA StoreUnchanged ==
  ASSUME LifecycleInv, UNCHANGED storeVars
  PROVE  IndexInv' /\ RecordsKeyed' /\ StoreTypeOK'
BY DEF LifecycleInv, IndexInv, RecordsKeyed, storeVars, StoreTypeOK,
       ProviderIndexExact, ActiveIndexSound, IsActive, Exists

LEMMA ProviderCreatesInv ==
  ASSUME LifecycleInv, NEW c \in Calls, ProviderCreates(c)
  PROVE  LifecycleInv'
<1>0. UNCHANGED <<subs, byProviderID, activeBySubscriber>>
  BY DEF ProviderCreates, storeVars
<1>1. PICK pid \in ProviderIDs :
        /\ provider[pid] = None
        /\ provider' = [provider EXCEPT ![pid] =
             [Status |-> "live", PlanID |-> call[c].plan, EndsAtPeriod |-> FALSE]]
        /\ call' = [call EXCEPT ![c] =
             [call[c] EXCEPT !.step = "create", !.sub.ProviderID = pid]]
  BY DEF ProviderCreates
<1>2. /\ ~Idle(c) /\ call[c] \in Call /\ call[c].kind = "Subscribe"
      /\ call[c].plan \in PlanIDs /\ call[c].sub \in Subscription
      /\ pid # None /\ HasProvider
  BY NoneAssumption
     DEF ProviderCreates, At, Idle, LifecycleInv, CallsTypeOK, StepsOK, Call
<1> DEFINE new == [call[c].sub EXCEPT !.ProviderID = pid]
           k == [call[c] EXCEPT !.step = "create", !.sub = new]
           record == [Status |-> "live", PlanID |-> call[c].plan,
                      EndsAtPeriod |-> FALSE]
<1>3. /\ new \in Subscription /\ new.ID = call[c].sub.ID
      /\ new.ProviderID = pid /\ new.Status = call[c].sub.Status
  BY <1>2 DEF Subscription
<1>4. /\ k \in Call /\ k.sub = new /\ k.kind = "Subscribe"
      /\ k.plan = call[c].plan /\ k.step = "create"
      /\ call' = [call EXCEPT ![c] = k]
  <2> HIDE DEF new
  <2>1. k \in Call /\ k.sub = new /\ k.kind = "Subscribe"
        /\ k.plan = call[c].plan /\ k.step = "create"
    BY <1>2, <1>3 DEF Call
  <2>2. call' = [call EXCEPT ![c] = k]
    BY <1>1, <1>2 DEF new, Call
  <2> QED
    BY <2>1, <2>2
<1>5. /\ k # None /\ call'[c] = k
      /\ \A d \in Calls \ {c} : call'[d] = call[d]
      /\ call' \in [Calls -> Call \cup {None}]
  <2> HIDE DEF k
  <2> QED
    BY <1>4, LifecycleAssumption DEF LifecycleInv, CallsTypeOK
<1>8. /\ provider' \in [ProviderIDs -> ProviderRecord \cup {None}]
      /\ provider'[pid] # None
      /\ \A q \in ProviderIDs \ {pid} : provider'[q] = provider[q]
  <2>1. record \in ProviderRecord
    BY <1>2 DEF ProviderRecord
  <2> HIDE DEF record
  <2>2. provider' = [provider EXCEPT ![pid] = record]
    BY <1>1 DEF record
  <2> QED
    BY <2>1, <2>2, LifecycleAssumption DEF LifecycleInv, CallsTypeOK
<1>6. /\ \A id \in SubIDs : Exists(id) => subs[id].ProviderID # pid
      /\ \A d \in Calls : ~Idle(d) => call[d].sub.ProviderID # pid
  BY <1>1, <1>2 DEF LifecycleInv, ProviderKnown
<1>7. /\ \A id \in SubIDs : Exists(id) => subs[id].ProviderID \in ProviderIDs \cup {None}
      /\ \A d \in Calls : ~Idle(d) => call[d].sub.ProviderID \in ProviderIDs \cup {None}
  BY DEF LifecycleInv, CallsTypeOK, StoreTypeOK, Exists, Idle, Call,
         Subscription
<1> HIDE DEF k, new, record
<1>9. CallsTypeOK' /\ IndexInv' /\ RecordsKeyed'
  BY <1>0, <1>5, <1>8, StoreUnchanged DEF CallsTypeOK, storeVars
<1>10. StepsOK' /\ CopiesFollow' /\ NewIsFresh'
  BY <1>0, <1>2, <1>3, <1>4, <1>5
     DEF LifecycleInv, StepsOK, CopiesFollow, NewIsFresh, Idle, Exists
<1>11. ProviderKnown' /\ ProviderIDsDistinct'
  BY <1>0, <1>2, <1>3, <1>4, <1>5, <1>6, <1>7, <1>8
     DEF LifecycleInv, ProviderKnown, ProviderIDsDistinct, Idle, Exists
<1>12. CanceledCopies' /\ CanceledAtProvider'
  BY <1>0, <1>2, <1>3, <1>4, <1>5, <1>6, <1>7, <1>8
     DEF LifecycleInv, CanceledCopies, CanceledAtProvider, NewIsFresh, Idle,
         Exists
<1> QED
  BY <1>9, <1>10, <1>11, <1>12 DEF LifecycleInv

LEMMA ProviderUpdatesInv ==
  ASSUME LifecycleInv, NEW c \in Calls, ProviderUpdates(c)
  PROVE  LifecycleInv'
<1> DEFINE pid == call[c].sub.ProviderID
           k == [call[c] EXCEPT !.step = "save"]
           record == Served(provider[pid], call[c].kind, call[c].plan)
<1>0. UNCHANGED <<subs, byProviderID, activeBySubscriber>>
  BY DEF ProviderUpdates, storeVars
<1>1. /\ ~Idle(c) /\ call[c] \in Call /\ call[c].sub \in Subscription
      /\ call[c].kind \in Operations \ {"Subscribe"}
      /\ call[c].kind = "ChangePlan" => call[c].plan \in PlanIDs
      /\ call[c].plan \in PlanIDs \cup {None}
      /\ pid # None /\ HasProvider
  BY DEF ProviderUpdates, At, Idle, LifecycleInv, CallsTypeOK, StepsOK, Call
<1>2. /\ pid \in ProviderIDs /\ provider[pid] \in ProviderRecord
      /\ provider[pid].Status # "canceled"
  <2>1. pid \in ProviderIDs
    BY <1>1 DEF Subscription
  <2>2. provider[pid] # None
    BY <1>1 DEF LifecycleInv, ProviderKnown
  <2> QED
    BY <2>1, <2>2 DEF ProviderUpdates, LifecycleInv, CallsTypeOK
<1>3. /\ record \in ProviderRecord
      /\ call[c].kind = "CancelNow" => record.Status = "canceled"
  BY <1>1, <1>2, ServedFacts
<1>4. /\ k \in Call /\ k.sub = call[c].sub /\ k.kind = call[c].kind
      /\ k.plan = call[c].plan /\ k.step = "save"
      /\ call' = [call EXCEPT ![c] = k]
  BY <1>1 DEF ProviderUpdates, Call
<1>5. provider' = [provider EXCEPT ![pid] = record]
  BY DEF ProviderUpdates
<1> HIDE DEF k, record, pid
<1>6. /\ k # None /\ call'[c] = k
      /\ \A d \in Calls \ {c} : call'[d] = call[d]
      /\ call' \in [Calls -> Call \cup {None}]
  BY <1>4, LifecycleAssumption DEF LifecycleInv, CallsTypeOK
<1>7. /\ provider' \in [ProviderIDs -> ProviderRecord \cup {None}]
      /\ provider'[pid] = record /\ record # None
      /\ \A q \in ProviderIDs \ {pid} : provider'[q] = provider[q]
  BY <1>2, <1>3, <1>5, LifecycleAssumption DEF LifecycleInv, CallsTypeOK
<1>8. /\ \A id \in SubIDs : Exists(id) =>
           subs[id].ProviderID \in ProviderIDs \cup {None}
      /\ \A d \in Calls : ~Idle(d) =>
           call[d].sub.ProviderID \in ProviderIDs \cup {None}
  BY DEF LifecycleInv, CallsTypeOK, StoreTypeOK, Exists, Idle, Call,
         Subscription
<1>9. CallsTypeOK' /\ IndexInv' /\ RecordsKeyed'
  BY <1>0, <1>6, <1>7, StoreUnchanged DEF CallsTypeOK, storeVars
<1>10. StepsOK' /\ CopiesFollow' /\ NewIsFresh'
  BY <1>0, <1>1, <1>4, <1>6
     DEF LifecycleInv, StepsOK, CopiesFollow, NewIsFresh, Idle, Exists
<1>11. ProviderKnown' /\ ProviderIDsDistinct'
  BY <1>0, <1>1, <1>4, <1>6, <1>7, <1>8
     DEF LifecycleInv, ProviderKnown, ProviderIDsDistinct, Idle, Exists
<1>12. CanceledCopies' /\ CanceledAtProvider'
  BY <1>0, <1>1, <1>2, <1>3, <1>4, <1>6, <1>7, <1>8
     DEF LifecycleInv, CanceledCopies, CanceledAtProvider, Idle, Exists,
         Operations, pid
<1> QED
  BY <1>9, <1>10, <1>11, <1>12 DEF LifecycleInv

LEMMA ProviderEndsInv ==
  ASSUME LifecycleInv, NEW pid \in ProviderIDs, ProviderEnds(pid)
  PROVE  LifecycleInv'
<1> DEFINE record == [provider[pid] EXCEPT !.Status = "canceled"]
<1>0. UNCHANGED <<subs, byProviderID, activeBySubscriber, call>>
  BY DEF ProviderEnds, storeVars
<1>1. /\ record \in ProviderRecord /\ record.Status = "canceled"
      /\ provider' = [provider EXCEPT ![pid] = record]
  BY DEF ProviderEnds, LifecycleInv, CallsTypeOK, ProviderRecord
<1> HIDE DEF record
<1>2. /\ provider' \in [ProviderIDs -> ProviderRecord \cup {None}]
      /\ provider'[pid] = record /\ record # None
      /\ \A q \in ProviderIDs \ {pid} : provider'[q] = provider[q]
  BY <1>1, LifecycleAssumption DEF LifecycleInv, CallsTypeOK
<1>3. /\ \A id \in SubIDs : Exists(id) =>
           subs[id].ProviderID \in ProviderIDs \cup {None}
      /\ \A d \in Calls : ~Idle(d) =>
           call[d].sub.ProviderID \in ProviderIDs \cup {None}
  BY DEF LifecycleInv, CallsTypeOK, StoreTypeOK, Exists, Idle, Call,
         Subscription
<1>4. CallsTypeOK' /\ IndexInv' /\ RecordsKeyed'
  BY <1>0, <1>2, StoreUnchanged DEF LifecycleInv, CallsTypeOK, storeVars
<1>5. StepsOK' /\ CopiesFollow' /\ NewIsFresh' /\ ProviderIDsDistinct'
  BY <1>0 DEF LifecycleInv, StepsOK, CopiesFollow, NewIsFresh,
              ProviderIDsDistinct, Idle, Exists
<1>6. ProviderKnown' /\ CanceledCopies' /\ CanceledAtProvider'
  BY <1>0, <1>1, <1>2, <1>3
     DEF LifecycleInv, ProviderKnown, CanceledCopies, CanceledAtProvider,
         Idle, Exists
<1> QED
  BY <1>4, <1>5, <1>6 DEF LifecycleInv

-----------------------------------------------------------------------------
(***************************************************************************)
(* Steps that write to the store.                                          *)
(***************************************************************************)
\* The call that writes is over afterwards; what it wrote has the identity
\* of its copy, and is canceled only if the provider's subscription is.
LEMMA WriteInv ==
  ASSUME LifecycleInv, NEW c \in Calls, ~Idle(c), NEW new \in Subscription,
         new.ID = call[c].sub.ID,
         new.SubscriberID = call[c].sub.SubscriberID,
         new.ProviderID = call[c].sub.ProviderID,
         new.Status = "canceled" /\ new.ProviderID # None =>
           provider[new.ProviderID].Status = "canceled",
         subs' = [subs EXCEPT ![new.ID] = new], IndexInv',
         Return(c), UNCHANGED provider
  PROVE  LifecycleInv'
<1>1. /\ call' \in [Calls -> Call \cup {None}] /\ call'[c] = None
      /\ \A d \in Calls \ {c} : call'[d] = call[d]
  BY DEF Return, LifecycleInv, CallsTypeOK
<1>2. /\ new.ID \in SubIDs /\ subs'[new.ID] = new /\ new # None
      /\ \A id \in SubIDs \ {new.ID} : subs'[id] = subs[id]
      /\ \A d \in Calls : ~Idle(d) => call[d].sub.ID \in SubIDs
  BY NoneAssumption
     DEF LifecycleInv, CallsTypeOK, StoreTypeOK, Subscription, Idle, Call
<1>3. CallsTypeOK' /\ RecordsKeyed'
  BY <1>1, <1>2
     DEF LifecycleInv, CallsTypeOK, IndexInv, RecordsKeyed, Exists
<1>4. StepsOK' /\ CanceledCopies'
  BY <1>1 DEF LifecycleInv, StepsOK, CanceledCopies, Idle
<1>5. CopiesFollow' /\ NewIsFresh'
  BY <1>1, <1>2 DEF LifecycleInv, CopiesFollow, NewIsFresh, Idle, Exists
<1>6. ProviderKnown' /\ CanceledAtProvider'
  BY <1>1, <1>2
     DEF LifecycleInv, ProviderKnown, CanceledAtProvider, Idle, Exists
<1>7. ProviderIDsDistinct'
  BY <1>1, <1>2
     DEF LifecycleInv, ProviderIDsDistinct, CopiesFollow, Idle, Exists
<1> QED
  BY <1>3, <1>4, <1>5, <1>6, <1>7 DEF LifecycleInv

\* The copy of a call may be written: no other record holds its provider ID.
LEMMA CopyUnshared ==
  ASSUME LifecycleInv, NEW c \in Calls, ~Idle(c), NEW new \in Subscription,
         new.ID = call[c].sub.ID, new.ProviderID = call[c].sub.ProviderID
  PROVE  ProviderIDUnshared(new)
<1>1. new.ID \in SubIDs
  BY DEF Subscription
<1> QED
  BY <1>1 DEF ProviderIDUnshared, LifecycleInv, ProviderIDsDistinct, CopiesFollow

LEMMA SaveStep ==
  ASSUME LifecycleInv, NEW c \in Calls, Save(c)
  PROVE  StoreNext /\ LifecycleInv'
<1> DEFINE new == Updated(call[c].kind, call[c].plan, call[c].sub)
<1>1. /\ ~Idle(c) /\ call[c] \in Call /\ call[c].step = "save"
      /\ call[c].kind = "ChangePlan" => call[c].plan \in PlanIDs
  BY DEF Save, At, Idle, LifecycleInv, CallsTypeOK, StepsOK
<1>2. /\ new \in Subscription /\ new.ID = call[c].sub.ID
      /\ new.SubscriberID = call[c].sub.SubscriberID
      /\ new.ProviderID = call[c].sub.ProviderID
      /\ new.Status = "canceled" =>
           \/ call[c].sub.Status = "canceled"
           \/ call[c].kind \in {"CancelNow", "subscription.canceled"}
  BY <1>1, UpdatedFacts DEF Call
<1>3. SaveSubscription(new) /\ Return(c) /\ UNCHANGED provider
  BY DEF Save
<1> HIDE DEF new
<1>4. SaveContract(new)
  <2>1. ProviderIDUnshared(new)
    BY <1>1, <1>2, CopyUnshared
  <2>2. Exists(new.ID) => subs[new.ID].SubscriberID = new.SubscriberID
    BY <1>1, <1>2 DEF LifecycleInv, CopiesFollow, NewIsFresh
  <2> QED
    BY <2>1, <2>2 DEF SaveContract
<1>5. StoreNext
  BY <1>2, <1>3, <1>4 DEF StoreNext
<1>6. IndexInv'
  BY <1>5, IndexInvStep DEF LifecycleInv
<1>7. new.Status = "canceled" /\ new.ProviderID # None =>
        provider[new.ProviderID].Status = "canceled"
  BY <1>1, <1>2 DEF LifecycleInv, CanceledCopies
<1>8. subs' = [subs EXCEPT ![new.ID] = new]
  BY <1>3 DEF SaveSubscription
<1> QED
  BY <1>1, <1>2, <1>3, <1>5, <1>6, <1>7, <1>8, WriteInv

LEMMA CreateStep ==
  ASSUME LifecycleInv, NEW c \in Calls, CreateAtomically(c)
  PROVE  StoreNext /\ LifecycleInv'
<1> DEFINE new == call[c].sub
<1>1. /\ ~Idle(c) /\ new \in Subscription /\ call[c].kind = "Subscribe"
  BY DEF CreateAtomically, At, Idle, LifecycleInv, CallsTypeOK, StepsOK, Call
<1>2. /\ CreateSubscriptionIfNotActive(new)
      /\ Return(c) /\ UNCHANGED provider
  BY DEF CreateAtomically
<1>3. CreateContract(new) /\ new.Status # "canceled"
  BY <1>1, CopyUnshared DEF CreateContract, LifecycleInv, NewIsFresh
<1>4. StoreNext
  BY <1>1, <1>2, <1>3 DEF StoreNext
<1>5. CASE UNCHANGED storeVars
  BY <1>2, <1>4, <1>5, ReturnInv
<1>6. CASE InsertSubscription(new)
  <2>1. IndexInv'
    BY <1>4, IndexInvStep DEF LifecycleInv
  <2>2. subs' = [subs EXCEPT ![new.ID] = new]
    BY <1>6 DEF InsertSubscription
  <2> QED
    BY <1>1, <1>2, <1>3, <1>4, <2>1, <2>2, WriteInv
<1> QED
  BY <1>2, <1>5, <1>6 DEF CreateSubscriptionIfNotActive

-----------------------------------------------------------------------------
(***************************************************************************)
(* Together: every step keeps the invariant and is, seen from the store, a *)
(* step of its contract or no step at all.                                 *)
(***************************************************************************)
LEMMA LifecycleInvInit == Init => LifecycleInv
BY NoneAssumption, IndexInvInit
   DEF Init, StoreInit, LifecycleInv, CallsTypeOK, IndexInv, RecordsKeyed,
       StepsOK, CopiesFollow, NewIsFresh, ProviderKnown, ProviderIDsDistinct,
       CanceledCopies, CanceledAtProvider, Idle, Exists

LEMMA BeginStep ==
  ASSUME LifecycleInv, app \in Apps, NEW c \in Calls, Begin(c)
  PROVE  UNCHANGED storeVars /\ LifecycleInv'
<1>0. app.Plans \subseteq PlanIDs
  BY LifecycleAssumption DEF App
<1>1. ASSUME NEW u \in Subscribers, NEW p \in PlanIDs, Subscribe(c, u, p)
      PROVE  UNCHANGED storeVars /\ LifecycleInv'
  BY <1>1, SubscribeInv DEF Subscribe
<1>2. ASSUME NEW kind \in Operations \ {"Subscribe"}, NEW id \in SubIDs,
             NEW p \in PlanIDs \cup {None}, kind = "ChangePlan" => p \in PlanIDs,
             BeginUpdate(c, kind, id, p)
      PROVE  UNCHANGED storeVars /\ LifecycleInv'
  BY <1>2, BeginUpdateInv DEF BeginUpdate
<1>3. ASSUME NEW pid \in ProviderIDs, NEW type \in Events,
             HandleWebhook(c, pid, type)
      PROVE  UNCHANGED storeVars /\ LifecycleInv'
  BY <1>3, HandleWebhookInv DEF HandleWebhook
<1>4. ASSUME NEW id \in SubIDs, NEW immediately \in BOOLEAN,
             Cancel(c, id, immediately)
      PROVE  UNCHANGED storeVars /\ LifecycleInv'
  BY <1>2, <1>4 DEF Cancel, Operations
<1>5. ASSUME NEW id \in SubIDs, Pause(c, id) \/ Resume(c, id)
      PROVE  UNCHANGED storeVars /\ LifecycleInv'
  BY <1>2, <1>5 DEF Pause, Resume, Operations
<1>6. ASSUME NEW id \in SubIDs, NEW p \in PlanIDs, ChangePlan(c, id, p)
      PROVE  UNCHANGED storeVars /\ LifecycleInv'
  BY <1>2, <1>6 DEF ChangePlan, Operations
<1> QED
  BY <1>0, <1>1, <1>3, <1>4, <1>5, <1>6 DEF Begin

LEMMA LifecycleStep ==
  ASSUME LifecycleInv, app \in Apps, [Next]_vars
  PROVE  LifecycleInv' /\ [StoreNext]_storeVars
<1>1. ASSUME NEW c \in Calls, Begin(c)
      PROVE  LifecycleInv' /\ [StoreNext]_storeVars
  BY <1>1, BeginStep
<1>2. ASSUME NEW c \in Calls, ProviderCreates(c)
      PROVE  LifecycleInv' /\ [StoreNext]_storeVars
  BY <1>2, ProviderCreatesInv DEF ProviderCreates
<1>3. ASSUME NEW c \in Calls, ProviderUpdates(c)
      PROVE  LifecycleInv' /\ [StoreNext]_storeVars
  BY <1>3, ProviderUpdatesInv DEF ProviderUpdates
<1>4. ASSUME NEW c \in Calls, ProviderRefuses(c) \/ Abandon(c)
      PROVE  LifecycleInv' /\ [StoreNext]_storeVars
  BY <1>4, ReturnInv DEF ProviderRefuses, Abandon
<1>5. ASSUME NEW c \in Calls, CheckNotActive(c)
      PROVE  LifecycleInv' /\ [StoreNext]_storeVars
  BY <1>5, CheckNotActiveInv DEF CheckNotActive
<1>6. ASSUME NEW c \in Calls, CreateAtomically(c) \/ Save(c)
      PROVE  LifecycleInv' /\ [StoreNext]_storeVars
  BY <1>6, CreateStep, SaveStep
<1>7. ASSUME NEW pid \in ProviderIDs, ProviderEnds(pid)
      PROVE  LifecycleInv' /\ [StoreNext]_storeVars
  BY <1>7, ProviderEndsInv DEF ProviderEnds
<1>8. CASE UNCHANGED vars
  BY <1>8
     DEF vars, storeVars, LifecycleInv, CallsTypeOK, IndexInv, RecordsKeyed,
         StepsOK, CopiesFollow, NewIsFresh, ProviderKnown, ProviderIDsDistinct,
         CanceledCopies, CanceledAtProvider, Idle, Exists, StoreTypeOK,
         ProviderIndexExact, ActiveIndexSound, IsActive
<1> QED
  BY <1>1, <1>2, <1>3, <1>4, <1>5, <1>6, <1>7, <1>8 DEF Next, Continue

\* The calls, the application that makes them, and the history.
LifecycleInvAll == LifecycleInv /\ LifecycleTypeOK

LEMMA LifecycleInvAllInit == Init => LifecycleInvAll
<1> SUFFICES ASSUME Init PROVE LifecycleTypeOK
  BY LifecycleInvInit DEF LifecycleInvAll
<1> QED
  BY LifecycleInvInit DEF Init, LifecycleInv, LifecycleTypeOK

LEMMA LifecycleInvAllStep ==
  ASSUME LifecycleInvAll, [Next]_vars
  PROVE  LifecycleInvAll'
<1>1. LifecycleInv'
  BY LifecycleStep DEF LifecycleInvAll, LifecycleTypeOK
<1>2. app' = app /\ reactivated' \subseteq Subscribers
  BY DEF LifecycleInvAll, LifecycleTypeOK, Next, History, vars
<1> QED
  BY <1>1, <1>2 DEF LifecycleInvAll, LifecycleInv, LifecycleTypeOK

\* Only the last step of a call writes to the store.
LEMMA StoreWriters ==
  ASSUME LifecycleInvAll, [Next]_vars
  PROVE  \/ UNCHANGED storeVars
         \/ \E c \in Calls : (Save(c) \/ CreateAtomically(c)) /\ History
BY BeginStep
   DEF LifecycleInvAll, LifecycleTypeOK, Next, Continue, ProviderCreates,
       ProviderUpdates, ProviderRefuses, CheckNotActive, Abandon,
       ProviderEnds, vars, storeVars

\* Store, calls, provider and history stay well typed under every
\* interleaving.
THEOREM LifecycleTypeCorrect == Spec => []LifecycleTypeOK
<1>1. LifecycleInvAll => LifecycleTypeOK
  BY DEF LifecycleInvAll
<1> QED
  BY LifecycleInvAllInit, LifecycleInvAllStep, <1>1, PTL DEF Spec

\* A record is never canceled while the provider goes on billing, although
\* calls overlap, fail between the provider and the store, and save stale
\* copies, and webhooks come late, twice and out of order.
THEOREM CanceledOnlyAtProvider == Spec => []CanceledAtProvider
<1>1. LifecycleInvAll => CanceledAtProvider
  BY DEF LifecycleInvAll, LifecycleInv
<1> QED
  BY LifecycleInvAllInit, LifecycleInvAllStep, <1>1, PTL DEF Spec

\* The Manager implements the abstract user of the store: every behaviour of
\* Lifecycle is one of StoreSpec, so that the index theorems hold for it.
THEOREM ManagerObeysStore == Spec => ObeysStoreContract
<1>1. Init => StoreInit
  BY DEF Init
<1>2. LifecycleInvAll /\ [Next]_vars => [StoreNext]_storeVars
  BY LifecycleStep DEF LifecycleInvAll, LifecycleTypeOK
<1> QED
  BY LifecycleInvAllInit, LifecycleInvAllStep, <1>1, <1>2, PTL
     DEF Spec, ObeysStoreContract, StoreSpec

-----------------------------------------------------------------------------
(***************************************************************************)
(* At most one active subscription.                                        *)
(***************************************************************************)
\* On an atomic store Subscribe never takes the plain save.
AtomicCalls ==
  \A c \in Calls :
    ~Idle(c) /\ call[c].step = "save" => call[c].kind # "Subscribe"

\* There the active index names every active subscription of a subscriber of
\* whom nothing was made active again.
ActiveIndexed ==
  app.Atomic =>
    /\ AtomicCalls
    /\ \A id \in SubIDs :
         IsActive(id) /\ subs[id].SubscriberID \notin reactivated
           => activeBySubscriber[subs[id].SubscriberID] = id

LEMMA AtomicCallsStep ==
  ASSUME LifecycleInv, AtomicCalls, app.Atomic, [Next]_vars
  PROVE  AtomicCalls'
<1>1. ASSUME NEW c \in Calls, Begin(c)
      PROVE  AtomicCalls'
  BY <1>1 DEF Begin, Subscribe, BeginUpdate, Cancel, Pause, Resume, ChangePlan,
     HandleWebhook, AtomicCalls, Idle, LifecycleInv, CallsTypeOK, Events
<1>2. ASSUME NEW c \in Calls, Continue(c), ~CheckNotActive(c)
      PROVE  AtomicCalls'
  <2>1. CASE Return(c)
    BY <2>1 DEF Return, AtomicCalls, Idle, LifecycleInv, CallsTypeOK
  <2>2. CASE ProviderCreates(c)
    <3>1. /\ call[c] \in Call /\ call \in [Calls -> Call \cup {None}]
      BY <2>2 DEF ProviderCreates, At, Idle, LifecycleInv, CallsTypeOK
    <3>2. /\ call'[c].step = "create"
          /\ \A d \in Calls \ {c} : call'[d] = call[d]
      BY <2>2, <3>1 DEF ProviderCreates, Call
    <3> QED
      BY <3>2 DEF AtomicCalls, Idle
  <2>3. CASE ProviderUpdates(c)
    <3>1. /\ call[c] \in Call /\ call[c].kind # "Subscribe"
          /\ call \in [Calls -> Call \cup {None}]
      BY <2>3 DEF ProviderUpdates, At, Idle, LifecycleInv, CallsTypeOK
    <3>2. /\ call'[c].kind # "Subscribe"
          /\ \A d \in Calls \ {c} : call'[d] = call[d]
      BY <2>3, <3>1 DEF ProviderUpdates, Call
    <3> QED
      BY <3>2 DEF AtomicCalls, Idle
  <2> QED
    BY <1>2, <2>1, <2>2, <2>3
       DEF Continue, ProviderRefuses, CreateAtomically, Save, Abandon
<1>3. CASE UNCHANGED call
  BY <1>3 DEF AtomicCalls, Idle
<1>4. \A c \in Calls : ~CheckNotActive(c)
  BY DEF CheckNotActive
<1> QED
  BY <1>1, <1>2, <1>3, <1>4 DEF Next, ProviderEnds, vars

\* A save of a stored record either leaves it active, and then the index
\* named it before, or takes it out of the index, or marks its subscriber.
LEMMA SaveIndexed ==
  ASSUME LifecycleInvAll, ActiveIndexed, app.Atomic, NEW c \in Calls, Save(c),
         History
  PROVE  \A id \in SubIDs :
           (IsActive(id) /\ subs[id].SubscriberID \notin reactivated)'
             => (activeBySubscriber[subs[id].SubscriberID] = id)'
<1> DEFINE new == Updated(call[c].kind, call[c].plan, call[c].sub)
<1>1. /\ ~Idle(c) /\ call[c] \in Call /\ call[c].kind # "Subscribe"
      /\ call[c].kind = "ChangePlan" => call[c].plan \in PlanIDs
  BY DEF Save, At, Idle, LifecycleInvAll, LifecycleInv, CallsTypeOK, StepsOK,
         ActiveIndexed, AtomicCalls
<1>2. /\ new \in Subscription /\ new.ID = call[c].sub.ID
      /\ new.SubscriberID = call[c].sub.SubscriberID
  BY <1>1, UpdatedFacts DEF Call
<1>3. SaveSubscription(new)
  BY DEF Save
<1> HIDE DEF new
<1>4. /\ new.ID \in SubIDs /\ new.SubscriberID \in Subscribers
      /\ Exists(new.ID) /\ subs[new.ID].SubscriberID = new.SubscriberID
      /\ new # None
  BY <1>1, <1>2, NoneAssumption
     DEF LifecycleInvAll, LifecycleInv, CopiesFollow, Subscription
<1>5. /\ subs \in [SubIDs -> Subscription \cup {None}]
      /\ subs' = [subs EXCEPT ![new.ID] = new]
      /\ activeBySubscriber \in [Subscribers -> SubIDs \cup {None}]
      /\ activeBySubscriber' =
           ActiveIndexAfterSave(activeBySubscriber, subs[new.ID], new)
  BY <1>3 DEF SaveSubscription, LifecycleInvAll, LifecycleInv, CallsTypeOK,
              StoreTypeOK
<1>6. /\ reactivated \subseteq reactivated'
      /\ isActiveStatus(new.Status) /\ ~IsActive(new.ID)
           => new.SubscriberID \in reactivated'
  BY <1>4, <1>5 DEF History, Reactivates, IsActive, Exists
<1> SUFFICES ASSUME NEW id \in SubIDs, IsActive(id)',
                    subs'[id].SubscriberID \notin reactivated'
             PROVE  activeBySubscriber'[subs'[id].SubscriberID] = id
  OBVIOUS
<1>7. CASE id = new.ID
  BY <1>4, <1>5, <1>7 DEF ActiveIndexAfterSave, AddActive, IsActive, Exists
<1>8. CASE id # new.ID
  <2>1. /\ subs'[id] = subs[id] /\ IsActive(id)
        /\ activeBySubscriber[subs[id].SubscriberID] = id
        /\ subs[id].SubscriberID \in Subscribers
    BY <1>4, <1>5, <1>6, <1>8
       DEF IsActive, Exists, ActiveIndexed, Subscription
  <2>2. CASE new.SubscriberID # subs[id].SubscriberID
    BY <1>4, <1>5, <2>1, <2>2
       DEF ActiveIndexAfterSave, AddActive, EvictActive
  <2>3. CASE new.SubscriberID = subs[id].SubscriberID
    <3>1. ~IsActive(new.ID)
      BY <1>4, <1>6, <1>8, <2>1, <2>3 DEF ActiveIndexed
    <3>2. ~isActiveStatus(new.Status)
      BY <1>6, <2>1, <2>3, <3>1
    <3> QED
      BY <1>4, <1>5, <2>1, <3>1, <3>2
         DEF ActiveIndexAfterSave, IsActive, Exists
  <2> QED
    BY <2>2, <2>3
<1> QED
  BY <1>7, <1>8

LEMMA CreateIndexed ==
  ASSUME LifecycleInvAll, ActiveIndexed, app.Atomic, NEW c \in Calls,
         CreateAtomically(c), History
  PROVE  \A id \in SubIDs :
           (IsActive(id) /\ subs[id].SubscriberID \notin reactivated)'
             => (activeBySubscriber[subs[id].SubscriberID] = id)'
<1> DEFINE new == call[c].sub
<1>1. /\ new \in Subscription /\ CreateSubscriptionIfNotActive(new)
      /\ ~Exists(new.ID) /\ reactivated \subseteq reactivated'
  BY DEF CreateAtomically, At, Idle, LifecycleInvAll, LifecycleInv,
         CallsTypeOK, StepsOK, NewIsFresh, Call, History
<1> HIDE DEF new
<1>2. CASE UNCHANGED storeVars
  BY <1>1, <1>2 DEF storeVars, ActiveIndexed, IsActive, Exists
<1>3. CASE ~ActiveConflict(new) /\ InsertSubscription(new)
  BY <1>1, <1>3, NoneAssumption
     DEF LifecycleInvAll, LifecycleInv, CallsTypeOK, StoreTypeOK,
         ActiveConflict, InsertSubscription, AddActive, ActiveIndexed,
         IsActive, Exists, Subscription
<1> QED
  BY <1>1, <1>2, <1>3 DEF CreateSubscriptionIfNotActive

LEMMA ActiveIndexedStep ==
  ASSUME LifecycleInvAll, ActiveIndexed, [Next]_vars
  PROVE  ActiveIndexed'
<1>1. app' = app /\ reactivated \subseteq reactivated'
  BY DEF Next, History, vars
<1> SUFFICES ASSUME app.Atomic PROVE ActiveIndexed'
  BY <1>1 DEF ActiveIndexed
<1>2. AtomicCalls'
  BY AtomicCallsStep DEF LifecycleInvAll, ActiveIndexed
<1>3. CASE UNCHANGED storeVars
  BY <1>1, <1>2, <1>3 DEF storeVars, ActiveIndexed, IsActive, Exists
<1>4. ASSUME NEW c \in Calls, Save(c) \/ CreateAtomically(c), History
      PROVE  ActiveIndexed'
  BY <1>2, <1>4, SaveIndexed, CreateIndexed DEF ActiveIndexed
<1> QED
  BY <1>3, <1>4, StoreWriters

\* On an atomic store no interleaving of calls, failures and webhooks gives a
\* subscriber a second active subscription, unless one of his inactive
\* subscriptions is made active again.
THEOREM OneActiveSubscription == Spec => []AtMostOneActive
<1>1. Init => LifecycleInvAll /\ ActiveIndexed
  BY LifecycleInvAllInit DEF Init, StoreInit, ActiveIndexed, AtomicCalls,
     Idle, IsActive, Exists
<1>2. LifecycleInvAll /\ ActiveIndexed /\ [Next]_vars
        => (LifecycleInvAll /\ ActiveIndexed)'
  BY LifecycleInvAllStep, ActiveIndexedStep
<1>3. ActiveIndexed => AtMostOneActive
  BY DEF ActiveIndexed, AtMostOneActive
<1> QED
  BY <1>1, <1>2, <1>3, PTL DEF Spec

-----------------------------------------------------------------------------
(***************************************************************************)
(* The provider's subscriptions keep their records.                        *)
(***************************************************************************)
\* A stored record stays and keeps its provider ID.
LEMMA RecordKept ==
  ASSUME LifecycleInvAll, [Next]_vars, NEW id \in SubIDs, Exists(id)
  PROVE  Exists(id)' /\ subs'[id].ProviderID = subs[id].ProviderID
<1>1. CASE UNCHANGED storeVars
  BY <1>1 DEF storeVars, Exists
<1>2. ASSUME NEW c \in Calls, CreateAtomically(c)
      PROVE  Exists(id)' /\ subs'[id].ProviderID = subs[id].ProviderID
  <2>1. ~Exists(call[c].sub.ID)
    BY <1>2 DEF CreateAtomically, At, LifecycleInvAll, LifecycleInv, StepsOK, NewIsFresh
  <2> QED
    BY <1>2, <2>1
       DEF CreateAtomically, CreateSubscriptionIfNotActive, InsertSubscription,
           storeVars, Exists, LifecycleInvAll, LifecycleInv, CallsTypeOK, StoreTypeOK
<1>3. ASSUME NEW c \in Calls, Save(c)
      PROVE  Exists(id)' /\ subs'[id].ProviderID = subs[id].ProviderID
  <2> DEFINE new == Updated(call[c].kind, call[c].plan, call[c].sub)
  <2>1. /\ ~Idle(c) /\ call[c] \in Call
        /\ call[c].kind = "ChangePlan" => call[c].plan \in PlanIDs
    BY <1>3 DEF Save, At, Idle, LifecycleInvAll, LifecycleInv, CallsTypeOK, StepsOK
  <2>2. /\ new \in Subscription /\ new.ID = call[c].sub.ID
        /\ new.ProviderID = call[c].sub.ProviderID
    BY <2>1, UpdatedFacts DEF Call
  <2>3. SaveSubscription(new)
    BY <1>3 DEF Save
  <2> HIDE DEF new
  <2>4. new.ID = id => new.ProviderID = subs[id].ProviderID
    BY <2>1, <2>2 DEF LifecycleInvAll, LifecycleInv, CopiesFollow, NewIsFresh
  <2> QED
    BY <2>2, <2>3, <2>4, NoneAssumption
       DEF SaveSubscription, Exists, LifecycleInvAll, LifecycleInv, CallsTypeOK,
           StoreTypeOK
<1> QED
  BY <1>1, <1>2, <1>3, StoreWriters

\* A subscription that the provider bills loses its owner only when the
\* Subscribe call that created it is refused or fails: no save of a stale
\* copy, operation or webhook drops the provider ID of a record.
THEOREM OrphansOnlyBySubscribe == Spec => OrphanedOnlyBySubscribe
<1>1. LifecycleInvAll /\ [Next]_vars =>
        [\A pid \in ProviderIDs :
           Owned(pid) /\ ~Owned(pid)' =>
             \E c \in Calls : /\ ~Idle(c) /\ call[c].kind = "Subscribe"
                              /\ call[c].sub.ProviderID = pid]_vars
  BY RecordKept DEF Owned
<1> QED
  BY LifecycleInvAllInit, LifecycleInvAllStep, <1>1, PTL
     DEF Spec, OrphanedOnlyBySubscribe

-----------------------------------------------------------------------------
(***************************************************************************)
(* The store and the provider agree when nobody works on a subscription.   *)
(***************************************************************************)
\* A record and the provider's record tell the same.
SameState(sub, record) ==
  /\ sub.Status = "canceled" <=> record.Status = "canceled"
  /\ sub.Status = "paused" <=> record.Status = "paused"
  /\ isActiveStatus(sub.Status) <=> record.Status = "live"
  /\ sub.PlanID = record.PlanID
  /\ sub.CanceledAt <=> record.EndsAtPeriod \/ record.Status = "canceled"

Agrees(sub) ==
  /\ sub.ProviderID # None /\ provider[sub.ProviderID] # None
  /\ SameState(sub, provider[sub.ProviderID])

\* What a call will save agrees with the provider once the provider answered;
\* before that its copy is the record, and the record agrees.
CallAgrees(c) ==
  LET k == call[c] IN
  ~Idle(c) =>
    /\ k.step = "provider" /\ k.kind = "Subscribe" =>
         /\ isActiveStatus(k.sub.Status) /\ ~k.sub.CanceledAt
         /\ k.sub.PlanID = k.plan
    /\ k.step = "provider" /\ k.kind # "Subscribe" =>
         subs[k.sub.ID] = k.sub /\ Agrees(k.sub)
    /\ k.step # "provider" => Agrees(Updated(k.kind, k.plan, k.sub))

\* No two calls work on one subscription.
Alone ==
  \A c, d \in Calls :
    ~Idle(c) /\ ~Idle(d) /\ call[c].sub.ID = call[d].sub.ID => c = d

Agreement ==
  /\ Alone
  /\ \A c \in Calls : CallAgrees(c)
  /\ \A id \in SubIDs : Exists(id) /\ ~Busy(id) => Agrees(subs[id])

AgreementInv == Undisturbed /\ HasProvider => Agreement

\* What the provider does for an operation is what the Manager then saves.
LEMMA ServedAgrees ==
  ASSUME NEW sub \in Subscription, NEW record \in ProviderRecord,
         NEW kind \in Operations \ {"Subscribe"}, NEW p \in PlanIDs \cup {None},
         kind = "ChangePlan" => p \in PlanIDs,
         SameState(sub, record), record.Status # "canceled"
  PROVE  SameState(Updated(kind, p, sub), Served(record, kind, p))
BY DEF SameState, Updated, AfterCancel, AfterPause, AfterResume, AfterChangePlan,
       Served, Operations, Events, Subscription, ProviderRecord, isActiveStatus

\* A new record and the provider's new record.
LEMMA CreatedAgrees ==
  ASSUME NEW sub \in Subscription, NEW p \in PlanIDs, isActiveStatus(sub.Status),
         ~sub.CanceledAt, sub.PlanID = p
  PROVE  SameState(sub, [Status |-> "live", PlanID |-> p, EndsAtPeriod |-> FALSE])
BY DEF SameState, isActiveStatus

\* A step of call c on subscription id disturbs no other subscription, if the
\* provider's records that it changes belong to id alone.
LEMMA OwnAgreement ==
  ASSUME LifecycleInv, Agreement, NEW c \in Calls, NEW id \in SubIDs,
         Idle(c) => ~Busy(id), ~Idle(c) => call[c].sub.ID = id,
         ~Idle(c)' => call'[c].sub.ID = id,
         \A d \in Calls \ {c} : call'[d] = call[d],
         \A o \in SubIDs \ {id} : subs'[o] = subs[o],
         \A pid \in ProviderIDs :
           \/ provider'[pid] = provider[pid]
           \/ /\ \A d \in Calls \ {c} : ~Idle(d) => call[d].sub.ProviderID # pid
              /\ \A o \in SubIDs \ {id} : Exists(o) => subs[o].ProviderID # pid,
         CallAgrees(c)', Exists(id)' /\ Idle(c)' => Agrees(subs[id])'
  PROVE  Agreement'
<1>1. ASSUME NEW d \in Calls, d # c, ~Idle(d)
      PROVE  /\ call[d] \in Call /\ call[d].sub \in Subscription
             /\ call[d].sub.ID \in SubIDs \ {id}
             /\ Updated(call[d].kind, call[d].plan, call[d].sub).ProviderID
                  = call[d].sub.ProviderID
  <2>1. call[d] \in Call /\ call[d].sub \in Subscription
    BY <1>1 DEF LifecycleInv, CallsTypeOK, Idle, Call
  <2>2. call[d].sub.ID \in SubIDs \ {id}
    BY <1>1, <2>1 DEF Agreement, Alone, Busy, Subscription
  <2>3. call[d].kind = "ChangePlan" => call[d].plan \in PlanIDs
    BY <1>1 DEF LifecycleInv, StepsOK
  <2> QED
    BY <2>1, <2>2, <2>3, UpdatedFacts DEF Call
<1>2. Alone'
  BY <1>1 DEF Agreement, Alone, Idle
<1>3. ASSUME NEW sub, Agrees(sub), sub.ProviderID \in ProviderIDs,
             provider'[sub.ProviderID] = provider[sub.ProviderID]
      PROVE  Agrees(sub)'
  BY <1>3 DEF Agrees
<1>4. ASSUME NEW d \in Calls PROVE CallAgrees(d)'
  <2>1. CASE d = c
    BY <2>1
  <2>2. CASE d # c
    <3>1. SUFFICES ASSUME ~Idle(d) PROVE CallAgrees(d)'
      BY <2>2 DEF CallAgrees, Idle
    <3>2. PICK k \in Call : k = call[d] /\ k = call'[d]
      BY <1>1, <2>2, <3>1
    <3>3. k.sub \in Subscription /\ k.sub.ID \in SubIDs \ {id}
      BY <1>1, <2>2, <3>1, <3>2
    <3>4. k.sub.ProviderID # None =>
            /\ k.sub.ProviderID \in ProviderIDs
            /\ provider'[k.sub.ProviderID] = provider[k.sub.ProviderID]
      BY <2>2, <3>1, <3>2, <3>3 DEF Subscription
    <3>5. PICK new : new = Updated(k.kind, k.plan, k.sub)
      OBVIOUS
    <3>6. new.ProviderID = k.sub.ProviderID
      BY <1>1, <2>2, <3>1, <3>2, <3>5
    <3>7. CallAgrees(d)
      BY DEF Agreement
    <3>8. (k.step = "provider" /\ k.kind # "Subscribe") =>
            subs'[k.sub.ID] = k.sub /\ Agrees(k.sub)'
      BY <1>3, <3>1, <3>2, <3>3, <3>4, <3>7 DEF CallAgrees, Agrees
    <3>9. k.step # "provider" => Agrees(new)'
      BY <1>3, <3>1, <3>2, <3>4, <3>5, <3>6, <3>7 DEF CallAgrees, Agrees
    <3> QED
      BY <3>1, <3>2, <3>5, <3>7, <3>8, <3>9 DEF CallAgrees
  <2> QED
    BY <2>1, <2>2
<1>5. ASSUME NEW o \in SubIDs, Exists(o)', ~Busy(o)'
      PROVE  Agrees(subs[o])'
  <2>1. CASE o = id
    BY <1>5, <2>1 DEF Busy
  <2>2. CASE o # id
    <3>1. Exists(o) /\ ~Busy(o)
      BY <1>5, <2>2 DEF Exists, Busy, Idle
    <3>2. PICK sub \in Subscription : sub = subs[o] /\ sub = subs'[o]
      BY <2>2, <3>1 DEF Exists, LifecycleInv, CallsTypeOK, StoreTypeOK
    <3>3. Agrees(sub)
      BY <3>1, <3>2 DEF Agreement
    <3>4. /\ sub.ProviderID \in ProviderIDs
          /\ provider'[sub.ProviderID] = provider[sub.ProviderID]
      BY <2>2, <3>1, <3>2, <3>3 DEF Agrees, Subscription
    <3>5. Agrees(sub)'
      BY <1>3, <3>3, <3>4
    <3> QED
      BY <3>2, <3>5
  <2> QED
    BY <2>1, <2>2
<1> QED
  BY <1>2, <1>4, <1>5 DEF Agreement

LEMMA SubscribeAgreement ==
  ASSUME LifecycleInv, Agreement, HasProvider, NEW c \in Calls, NEW u \in Subscribers,
         NEW p \in PlanIDs, Subscribe(c, u, p)
  PROVE  Agreement'
<1> DEFINE k(id) == [step |-> IF HasProvider THEN "provider" ELSE "create",
                     kind |-> "Subscribe", plan |-> p,
                     sub  |-> NewSubscription(id, u, p)]
<1>1. PICK id \in SubIDs : /\ ~Exists(id) /\ ~Busy(id)
                           /\ call' = [call EXCEPT ![c] = k(id)]
  BY DEF Subscribe
<1>2. /\ k(id) \in Call /\ k(id).step = "provider" /\ k(id).kind = "Subscribe"
      /\ k(id).plan = p /\ k(id).sub.ID = id /\ k(id).sub.PlanID = p
      /\ isActiveStatus(k(id).sub.Status) /\ ~k(id).sub.CanceledAt
  BY DEF Call, NewSubscription, Subscription, Statuses, Operations, isActiveStatus
<1> HIDE DEF k
<1>3. /\ call'[c] = k(id) /\ \A d \in Calls \ {c} : call'[d] = call[d]
      /\ subs' = subs /\ provider' = provider /\ Idle(c)
  BY <1>1 DEF Subscribe, storeVars, LifecycleInv, CallsTypeOK
<1>4. CallAgrees(c)'
  BY <1>2, <1>3 DEF CallAgrees
<1> QED
  BY <1>1, <1>2, <1>3, <1>4, OwnAgreement DEF Exists

LEMMA BeginUpdateAgreement ==
  ASSUME LifecycleInv, Agreement, HasProvider, app.Serial, NEW c \in Calls,
         NEW kind \in Operations \ {"Subscribe"}, NEW id \in SubIDs,
         NEW p \in PlanIDs \cup {None}, BeginUpdate(c, kind, id, p)
  PROVE  Agreement'
<1>1. PICK sub \in Subscription : sub = subs[id] /\ sub.ID = id /\ Exists(id)
  BY DEF BeginUpdate, GetSubscription, Exists, LifecycleInv, CallsTypeOK,
         StoreTypeOK, RecordsKeyed
<1>2. Idle(c) /\ ~Busy(id) /\ subs' = subs /\ provider' = provider
  BY DEF BeginUpdate, storeVars
<1>3. Agrees(sub) /\ sub.ProviderID # None
  BY <1>1, <1>2 DEF Agreement, Agrees
<1> DEFINE k == [step |-> "provider", kind |-> kind, plan |-> p, sub |-> sub]
<1>4. call' = [call EXCEPT ![c] = k]
  BY <1>1, <1>3 DEF BeginUpdate, GetSubscription
<1>5. k \in Call /\ k.step = "provider" /\ k.kind = kind /\ k.sub = sub
  BY DEF Call
<1> HIDE DEF k
<1>6. call'[c] = k /\ \A d \in Calls \ {c} : call'[d] = call[d]
  BY <1>4 DEF LifecycleInv, CallsTypeOK
<1>7. Agrees(sub)'
  BY <1>2, <1>3 DEF Agrees
<1>8. CallAgrees(c)'
  BY <1>1, <1>2, <1>5, <1>6, <1>7 DEF CallAgrees
<1>9. ~Idle(c)'
  BY <1>5, <1>6, LifecycleAssumption DEF Idle
<1> QED
  BY <1>1, <1>2, <1>5, <1>6, <1>8, <1>9, OwnAgreement

\* A call that the provider or the duplicate check refuses.
LEMMA RefusedAgreement ==
  ASSUME LifecycleInv, Agreement, NEW c \in Calls, ~Idle(c), Return(c),
         call[c].step = "provider" \/ call[c].kind = "Subscribe",
         UNCHANGED <<storeVars, provider>>
  PROVE  Agreement'
<1>1. PICK k \in Call : k = call[c]
  BY DEF LifecycleInv, CallsTypeOK, Idle
<1>2. PICK id \in SubIDs : id = k.sub.ID
  BY DEF Call, Subscription
<1>3. /\ call'[c] = None /\ \A d \in Calls \ {c} : call'[d] = call[d]
      /\ subs' = subs /\ provider' = provider
  BY DEF Return, storeVars, LifecycleInv, CallsTypeOK
<1>4. CallAgrees(c)'
  BY <1>3 DEF CallAgrees, Idle
<1>5. Exists(id)' => Agrees(subs[id])'
  <2>1. CASE k.kind = "Subscribe"
    BY <1>1, <1>2, <1>3, <2>1 DEF LifecycleInv, NewIsFresh, Exists
  <2>2. CASE k.kind # "Subscribe"
    BY <1>1, <1>2, <1>3, <2>2 DEF Agreement, CallAgrees, Agrees
  <2> QED
    BY <2>1, <2>2
<1> QED
  BY <1>1, <1>2, <1>3, <1>4, <1>5, OwnAgreement DEF Idle

LEMMA ProviderCreatesAgreement ==
  ASSUME LifecycleInv, Agreement, NEW c \in Calls, ProviderCreates(c)
  PROVE  Agreement'
<1>1. PICK k \in Call : k = call[c] /\ k.kind = "Subscribe" /\ k.step = "provider"
  BY DEF ProviderCreates, At, Idle, LifecycleInv, CallsTypeOK
<1>2. /\ ~Idle(c) /\ k.plan \in PlanIDs /\ ~Exists(k.sub.ID)
      /\ k.sub \in Subscription /\ subs' = subs
      /\ isActiveStatus(k.sub.Status) /\ ~k.sub.CanceledAt /\ k.sub.PlanID = k.plan
  BY <1>1 DEF ProviderCreates, At, LifecycleInv, StepsOK, NewIsFresh, Call,
              Agreement, CallAgrees, storeVars
<1>3. PICK id \in SubIDs : id = k.sub.ID
  BY <1>2 DEF Subscription
<1>4. PICK pid \in ProviderIDs :
        /\ provider[pid] = None
        /\ provider' = [provider EXCEPT ![pid] =
             [Status |-> "live", PlanID |-> k.plan, EndsAtPeriod |-> FALSE]]
        /\ call' = [call EXCEPT ![c] =
             [k EXCEPT !.step = "create", !.sub.ProviderID = pid]]
  BY <1>1 DEF ProviderCreates
<1> DEFINE new == [k.sub EXCEPT !.ProviderID = pid]
           k2 == [k EXCEPT !.step = "create", !.sub = new]
           record == [Status |-> "live", PlanID |-> k.plan, EndsAtPeriod |-> FALSE]
<1>5. /\ new \in Subscription /\ new.ID = id /\ new.ProviderID = pid
      /\ isActiveStatus(new.Status) /\ ~new.CanceledAt /\ new.PlanID = k.plan
  BY <1>2, <1>3 DEF Subscription
<1>6. k2 \in Call /\ k2.step = "create" /\ k2.kind = "Subscribe" /\ k2.sub = new
  BY <1>1, <1>5 DEF Call
<1>7. call' = [call EXCEPT ![c] = k2] /\ provider' = [provider EXCEPT ![pid] = record]
  BY <1>1, <1>2, <1>4 DEF Call, Subscription
<1>8. record # None /\ SameState(new, record)
  <2>1. record \in ProviderRecord
    BY <1>2 DEF ProviderRecord
  <2> QED
    BY <1>2, <1>5, <2>1, CreatedAgrees, LifecycleAssumption
<1> HIDE DEF new, k2, record
<1>9. /\ call'[c] = k2 /\ \A d \in Calls \ {c} : call'[d] = call[d]
      /\ provider'[pid] = record
      /\ \A q \in ProviderIDs \ {pid} : provider'[q] = provider[q]
  BY <1>7 DEF LifecycleInv, CallsTypeOK
<1>10. /\ \A d \in Calls \ {c} : ~Idle(d) => call[d].sub.ProviderID # pid
       /\ \A o \in SubIDs \ {id} : Exists(o) => subs[o].ProviderID # pid
  BY <1>4, NoneAssumption DEF LifecycleInv, ProviderKnown
<1>11. Agrees(new)'
  BY <1>5, <1>8, <1>9, NoneAssumption DEF Agrees
<1>12. Updated("Subscribe", k2.plan, new) = new
  BY DEF Updated, Events
<1>13. CallAgrees(c)'
  BY <1>6, <1>9, <1>11, <1>12 DEF CallAgrees
<1>14. ~Exists(id)'
  BY <1>2, <1>3 DEF Exists
<1> QED
  BY <1>1, <1>2, <1>3, <1>5, <1>6, <1>9, <1>10, <1>13, <1>14, OwnAgreement

LEMMA ProviderUpdatesAgreement ==
  ASSUME LifecycleInv, Agreement, NEW c \in Calls, ProviderUpdates(c)
  PROVE  Agreement'
<1>1. PICK k \in Call : k = call[c] /\ k.kind # "Subscribe" /\ k.step = "provider"
  BY DEF ProviderUpdates, At, Idle, LifecycleInv, CallsTypeOK
<1>2. /\ ~Idle(c) /\ k.kind \in Operations \ {"Subscribe"} /\ subs' = subs
      /\ k.kind = "ChangePlan" => k.plan \in PlanIDs
      /\ subs[k.sub.ID] = k.sub /\ Agrees(k.sub) /\ k.sub \in Subscription
  BY <1>1 DEF ProviderUpdates, At, LifecycleInv, StepsOK, Call, Agreement,
              CallAgrees, storeVars
<1>3. PICK id \in SubIDs : id = k.sub.ID
  BY <1>2 DEF Subscription
<1>4. PICK pid \in ProviderIDs : pid = k.sub.ProviderID
  BY <1>2 DEF Agrees, Subscription
<1>5. PICK record \in ProviderRecord :
        record = provider[pid] /\ record.Status # "canceled" /\ SameState(k.sub, record)
  BY <1>1, <1>2, <1>4 DEF ProviderUpdates, Agrees, LifecycleInv, CallsTypeOK
<1>6. PICK served \in ProviderRecord : served = Served(record, k.kind, k.plan)
  BY <1>1, <1>2, <1>5, ServedFacts DEF Call
<1>7. PICK new \in Subscription : /\ new = Updated(k.kind, k.plan, k.sub)
                                  /\ new.ProviderID = pid
  BY <1>1, <1>2, <1>4, UpdatedFacts DEF Call
<1>8. SameState(new, served)
  BY <1>1, <1>2, <1>5, <1>6, <1>7, ServedAgrees DEF Call
<1> DEFINE k2 == [k EXCEPT !.step = "save"]
<1>9. /\ k2 \in Call /\ k2.step = "save" /\ k2.kind = k.kind /\ k2.plan = k.plan
      /\ k2.sub = k.sub
  BY DEF Call
<1>10. call' = [call EXCEPT ![c] = k2] /\ provider' = [provider EXCEPT ![pid] = served]
  BY <1>1, <1>4, <1>5, <1>6 DEF ProviderUpdates
<1> HIDE DEF k2
<1>11. /\ call'[c] = k2 /\ \A d \in Calls \ {c} : call'[d] = call[d]
       /\ provider'[pid] = served
       /\ \A q \in ProviderIDs \ {pid} : provider'[q] = provider[q]
  BY <1>10 DEF LifecycleInv, CallsTypeOK
<1>12. Exists(id) /\ subs[id].ProviderID = pid /\ pid # None
  BY <1>2, <1>3, <1>4, NoneAssumption DEF Exists
<1>13. \A o \in SubIDs \ {id} : Exists(o) => subs[o].ProviderID # pid
  BY <1>12 DEF LifecycleInv, ProviderIDsDistinct
<1>14. ASSUME NEW d \in Calls \ {c}, ~Idle(d) PROVE call[d].sub.ProviderID # pid
  <2>1. CASE call[d].kind = "Subscribe"
    BY <1>12, <1>14, <2>1 DEF LifecycleInv, ProviderIDsDistinct
  <2>2. CASE call[d].kind # "Subscribe"
    <3>1. PICK o \in SubIDs : o = call[d].sub.ID
      BY <1>14 DEF LifecycleInv, CallsTypeOK, Idle, Call, Subscription
    <3>2. Exists(o) /\ subs[o].ProviderID = call[d].sub.ProviderID
      BY <1>14, <2>2, <3>1 DEF LifecycleInv, CopiesFollow
    <3>3. o # id
      BY <1>1, <1>2, <1>3, <1>14, <3>1 DEF Agreement, Alone
    <3> QED
      BY <1>13, <3>2, <3>3
  <2> QED
    BY <2>1, <2>2
<1>15. Agrees(new)'
  BY <1>7, <1>8, <1>11, <1>12, LifecycleAssumption DEF Agrees
<1>16. CallAgrees(c)'
  BY <1>7, <1>9, <1>11, <1>15 DEF CallAgrees
<1>17. ~Idle(c)'
  BY <1>9, <1>11, LifecycleAssumption DEF Idle
<1> QED
  BY <1>1, <1>2, <1>3, <1>9, <1>11, <1>13, <1>14, <1>16, <1>17, OwnAgreement

LEMMA CheckNotActiveAgreement ==
  ASSUME LifecycleInv, Agreement, NEW c \in Calls, CheckNotActive(c)
  PROVE  Agreement'
<1>1. PICK k \in Call : k = call[c] /\ k.kind = "Subscribe" /\ k.step = "create"
  BY DEF CheckNotActive, At, Idle, LifecycleInv, CallsTypeOK, StepsOK
<1>2. /\ ~Idle(c) /\ subs' = subs /\ provider' = provider /\ ~Exists(k.sub.ID)
      /\ UNCHANGED <<storeVars, provider>>
  BY <1>1 DEF CheckNotActive, At, storeVars, LifecycleInv, NewIsFresh
<1>3. PICK id \in SubIDs : id = k.sub.ID
  BY DEF Call, Subscription
<1>4. CASE Return(c)
  BY <1>1, <1>2, <1>4, RefusedAgreement
<1>5. CASE call' = [call EXCEPT ![c].step = "save"]
  <2> DEFINE k2 == [k EXCEPT !.step = "save"]
  <2>1. /\ k2 \in Call /\ k2.step = "save" /\ k2.kind = k.kind /\ k2.plan = k.plan
        /\ k2.sub = k.sub
    BY DEF Call
  <2>2. call' = [call EXCEPT ![c] = k2]
    BY <1>1, <1>5
  <2> HIDE DEF k2
  <2>3. call'[c] = k2 /\ \A d \in Calls \ {c} : call'[d] = call[d]
    BY <2>2 DEF LifecycleInv, CallsTypeOK
  <2>4. PICK new : new = Updated(k.kind, k.plan, k.sub)
    OBVIOUS
  <2>5. Agrees(new)'
    BY <1>1, <1>2, <2>4 DEF Agreement, CallAgrees, Agrees
  <2>6. CallAgrees(c)'
    BY <2>1, <2>3, <2>4, <2>5 DEF CallAgrees
  <2> QED
    BY <1>1, <1>2, <1>3, <2>1, <2>3, <2>6, OwnAgreement DEF Exists
<1> QED
  BY <1>4, <1>5 DEF CheckNotActive

\* The write: the record is what the call was to save.
LEMMA WriteAgreement ==
  ASSUME LifecycleInv, Agreement, NEW c \in Calls, ~Idle(c), call[c].step # "provider",
         Return(c), provider' = provider,
         subs' = [subs EXCEPT ![call[c].sub.ID] =
                    Updated(call[c].kind, call[c].plan, call[c].sub)]
  PROVE  Agreement'
<1>1. PICK k \in Call : k = call[c]
  BY DEF LifecycleInv, CallsTypeOK, Idle
<1>2. PICK id \in SubIDs : id = k.sub.ID
  BY DEF Call, Subscription
<1>3. PICK new : new = Updated(k.kind, k.plan, k.sub)
  OBVIOUS
<1>4. /\ call'[c] = None /\ \A d \in Calls \ {c} : call'[d] = call[d]
      /\ subs'[id] = new /\ \A o \in SubIDs \ {id} : subs'[o] = subs[o]
  BY <1>1, <1>2, <1>3 DEF Return, LifecycleInv, CallsTypeOK, StoreTypeOK
<1>5. Agrees(new)'
  BY <1>1, <1>3 DEF Agreement, CallAgrees, Agrees
<1>6. CallAgrees(c)'
  BY <1>4 DEF CallAgrees, Idle
<1>7. Idle(c)' /\ Agrees(subs[id])'
  BY <1>4, <1>5 DEF Idle
<1> QED
  BY <1>1, <1>2, <1>4, <1>6, <1>7, OwnAgreement

LEMMA CreateAtomicallyAgreement ==
  ASSUME LifecycleInv, Agreement, NEW c \in Calls, CreateAtomically(c)
  PROVE  Agreement'
<1>1. ~Idle(c) /\ call[c].step = "create" /\ call[c].kind = "Subscribe" /\ Return(c)
  BY DEF CreateAtomically, At, LifecycleInv, StepsOK
<1>2. provider' = provider
  BY DEF CreateAtomically
<1>3. CASE UNCHANGED storeVars
  BY <1>1, <1>2, <1>3, RefusedAgreement
<1>4. CASE InsertSubscription(call[c].sub)
  <2>1. Updated("Subscribe", call[c].plan, call[c].sub) = call[c].sub
    BY DEF Updated, Events
  <2> QED
    BY <1>1, <1>2, <1>4, <2>1, WriteAgreement DEF InsertSubscription
<1> QED
  BY <1>3, <1>4 DEF CreateAtomically, CreateSubscriptionIfNotActive

LEMMA SaveAgreement ==
  ASSUME LifecycleInv, Agreement, NEW c \in Calls, Save(c)
  PROVE  Agreement'
<1>1. /\ ~Idle(c) /\ call[c].step = "save" /\ Return(c) /\ call[c] \in Call
      /\ provider' = provider
      /\ call[c].kind = "ChangePlan" => call[c].plan \in PlanIDs
  BY DEF Save, At, Idle, LifecycleInv, CallsTypeOK, StepsOK
<1>2. Updated(call[c].kind, call[c].plan, call[c].sub).ID = call[c].sub.ID
  BY <1>1, UpdatedFacts DEF Call
<1> QED
  BY <1>1, <1>2, WriteAgreement DEF Save, SaveSubscription

LEMMA AgreementStep ==
  ASSUME LifecycleInvAll, AgreementInv, [Next]_vars
  PROVE  AgreementInv'
<1>1. app' = app /\ app \in App /\ LifecycleInv
  BY LifecycleAssumption DEF LifecycleInvAll, LifecycleTypeOK, Next, History, vars
<1>2. SUFFICES ASSUME Undisturbed, HasProvider PROVE Agreement'
  BY <1>1 DEF AgreementInv, Undisturbed
<1>3. /\ Agreement /\ app.Serial /\ ~app.MayFail /\ app.Plans \subseteq PlanIDs
      /\ app.Kinds \cap Events = {}
  BY <1>1, <1>2 DEF AgreementInv, Undisturbed, App, Operations, Events
<1>4. ASSUME NEW c \in Calls, Begin(c) PROVE Agreement'
  <2>1. \A pid \in ProviderIDs, type \in Events : ~HandleWebhook(c, pid, type)
    BY <1>3 DEF HandleWebhook
  <2>2. CASE \E u \in Subscribers, p \in app.Plans : Subscribe(c, u, p)
    BY <1>1, <1>2, <1>3, <2>2, SubscribeAgreement
  <2>3. ASSUME NEW kind \in Operations \ {"Subscribe"}, NEW id \in SubIDs,
               NEW p \in PlanIDs \cup {None}, BeginUpdate(c, kind, id, p)
        PROVE  Agreement'
    BY <1>1, <1>2, <1>3, <2>3, BeginUpdateAgreement
  <2>4. ASSUME NEW id \in SubIDs, NEW immediately \in BOOLEAN, Cancel(c, id, immediately)
        PROVE  Agreement'
    BY <2>3, <2>4 DEF Cancel, Operations
  <2>5. ASSUME NEW id \in SubIDs, Pause(c, id) \/ Resume(c, id)
        PROVE  Agreement'
    BY <2>3, <2>5 DEF Pause, Resume, Operations
  <2>6. ASSUME NEW id \in SubIDs, NEW p \in PlanIDs, ChangePlan(c, id, p)
        PROVE  Agreement'
    BY <2>3, <2>6 DEF ChangePlan, Operations
  <2> QED
    BY <1>3, <1>4, <2>1, <2>2, <2>4, <2>5, <2>6 DEF Begin
<1>5. ASSUME NEW c \in Calls, Continue(c) PROVE Agreement'
  <2>1. ~Abandon(c)
    BY <1>3 DEF Abandon
  <2>2. CASE ProviderRefuses(c)
    BY <1>1, <1>3, <2>2, RefusedAgreement DEF ProviderRefuses, At
  <2> QED
    BY <1>1, <1>3, <1>5, <2>1, <2>2, ProviderCreatesAgreement, ProviderUpdatesAgreement,
       CheckNotActiveAgreement, CreateAtomicallyAgreement, SaveAgreement DEF Continue
<1>6. \A pid \in ProviderIDs : ~ProviderEnds(pid)
  BY <1>3 DEF ProviderEnds, Events
<1>7. CASE UNCHANGED vars
  BY <1>3, <1>7 DEF vars, Agreement, Alone, CallAgrees, Agrees, Idle, Exists, Busy
<1> QED
  BY <1>4, <1>5, <1>6, <1>7 DEF Next

\* When no call works on a subscription, its record and the provider's agree
\* on status, plan and cancellation, in an application that neither overlaps
\* calls on one subscription nor fails, and whose provider changes nothing by
\* itself: every path through provider, duplicate check and store updates
\* both sides alike or neither.
THEOREM AgreesWhenQuiescent == Spec => []QuiescentAgreement
<1>1. Init => LifecycleInvAll /\ AgreementInv
  BY LifecycleInvAllInit DEF Init, StoreInit, AgreementInv, Agreement, Alone,
     CallAgrees, Idle, Exists
<1>2. LifecycleInvAll /\ AgreementInv /\ [Next]_vars
        => (LifecycleInvAll /\ AgreementInv)'
  BY LifecycleInvAllStep, AgreementStep
<1>3. AgreementInv => QuiescentAgreement
  BY DEF AgreementInv, Agreement, QuiescentAgreement, Agrees, SameState
<1> QED
  BY <1>1, <1>2, <1>3, PTL DEF Spec
=============================================================================
