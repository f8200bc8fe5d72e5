------------------------------ MODULE Lifecycle ------------------------------
(***************************************************************************)
(* subscriber.go and the state-changing part of webhook.go: the Manager's  *)
(* operations on subscriptions, run by concurrent calls against the shared *)
(* store and the payment provider.                                         *)
(*                                                                         *)
(* A call holds no lock between its store and provider accesses, so each   *)
(* access is a step of its own and the record a call has read may be stale *)
(* when it is saved.                                                       *)
(***************************************************************************)
EXTENDS SubscriptionStore

CONSTANTS
  Calls,        \* concurrent callers: request goroutines and webhook deliveries
  TrialPlans,   \* the plans with TrialDays > 0
  HasProvider,  \* Options.Provider # nil
  Apps          \* the applications and stores that are considered

VARIABLES
  call,        \* what each caller is doing, None when it is idle
  provider,    \* external: the provider's subscriptions
  app,         \* the application in question, chosen once
  reactivated  \* history: subscribers of whom a record became active again

vars == <<subs, byProviderID, activeBySubscriber, call, provider, app, reactivated>>

Operations ==
  {"Subscribe", "CancelNow", "CancelAtPeriodEnd", "Pause", "Resume",
   "ChangePlan"}

\* The webhook events that applyEventToSubscription acts on.
Events ==
  {"subscription.canceled", "subscription.paused", "subscription.resumed",
   "subscription.renewed", "payment.failed", "payment.succeeded",
   "trial.ended"}

\* A call in progress: its next access, what it was asked, its copy of the record.
Call ==
  [step : {"provider", "create", "save"},
   kind : Operations \cup Events,
   plan : PlanIDs \cup {None},
   sub  : Subscription]

(***************************************************************************)
(* An application: the operations and events that happen in it, the plans  *)
(* it offers, whether its store implements AtomicSubscriptionStore,        *)
(* whether it never overlaps calls on one subscription, and whether a call *)
(* may end early because of a store error, a lost answer or a crash.       *)
(***************************************************************************)
App ==
  [Kinds   : SUBSET (Operations \cup Events),
   Plans   : SUBSET PlanIDs,
   Atomic  : BOOLEAN,
   Serial  : BOOLEAN,
   MayFail : BOOLEAN]

ProviderRecord ==
  [Status      : {"live", "paused", "canceled"},
   PlanID      : PlanIDs,
   EndsAtPeriod : BOOLEAN]

ASSUME LifecycleAssumption ==
  /\ TrialPlans \subseteq PlanIDs
  /\ HasProvider \in BOOLEAN
  /\ Apps \subseteq App
  /\ None \notin Call
  /\ None \notin ProviderRecord

CallsTypeOK ==
  /\ StoreTypeOK
  /\ call \in [Calls -> Call \cup {None}]
  /\ provider \in [ProviderIDs -> ProviderRecord \cup {None}]

LifecycleTypeOK ==
  /\ CallsTypeOK
  /\ app \in Apps
  /\ reactivated \subseteq Subscribers

Init ==
  /\ StoreInit
  /\ call = [c \in Calls |-> None]
  /\ provider = [pid \in ProviderIDs |-> None]
  /\ app \in Apps
  /\ reactivated = {}

Idle(c) == call[c] = None

At(c, step) == ~Idle(c) /\ call[c].step = step

\* Some call holds a copy of subscription id.
Busy(id) == \E c \in Calls : ~Idle(c) /\ call[c].sub.ID = id

Return(c) == call' = [call EXCEPT ![c] = None]

-----------------------------------------------------------------------------
(***************************************************************************)
(* Beginning a call: the first reads, up to the first early return.  A     *)
(* call that returns at once (plan or subscription not found) changes      *)
(* nothing and is not shown.                                               *)
(***************************************************************************)
\* The plan ID is written where the subscriber belongs.
NewSubscription_WrongOwner(id, u, p) ==
  [ID |-> id, ProviderID |-> None, SubscriberID |-> p, PlanID |-> p,
   Status |-> IF p \in TrialPlans THEN "trialing" ELSE "active",
   CanceledAt |-> FALSE, PausedAt |-> FALSE]

\* The record Subscribe builds; newID is a UUID, so id was never used before.
NewSubscription(id, u, p) ==
  [ID |-> id, ProviderID |-> None, SubscriberID |-> u, PlanID |-> p,
   Status |-> IF p \in TrialPlans THEN "trialing" ELSE "active",
   CanceledAt |-> FALSE, PausedAt |-> FALSE]

\* The ID generator returns an ID for the second time.
Subscribe_IDReused(c, u, p) ==
  /\ "Subscribe" \in app.Kinds
  /\ Idle(c)
  /\ \E id \in SubIDs :
       call' = [call EXCEPT ![c] =
         [step |-> IF HasProvider THEN "provider" ELSE "create",
          kind |-> "Subscribe", plan |-> p,
          sub  |-> NewSubscription(id, u, p)]]
  /\ UNCHANGED <<storeVars, provider>>

Subscribe(c, u, p) ==
  /\ "Subscribe" \in app.Kinds
  /\ Idle(c)
  /\ \E id \in SubIDs :
       /\ ~Exists(id) /\ ~Busy(id)
       /\ call' = [call EXCEPT ![c] =
            [step |-> IF HasProvider THEN "provider" ELSE "create",
             kind |-> "Subscribe", plan |-> p,
             sub  |-> NewSubscription(id, u, p)]]
  /\ UNCHANGED <<storeVars, provider>>

\* GetSubscription, the first access of every operation on a subscription.
BeginUpdate(c, kind, id, p) ==
  /\ kind \in app.Kinds
  /\ Idle(c)
  /\ GetSubscription(id) # None
  /\ app.Serial => ~Busy(id)
  /\ call' = [call EXCEPT ![c] =
       [step |-> IF HasProvider /\ subs[id].ProviderID # None
                 THEN "provider" ELSE "save",
        kind |-> kind, plan |-> p, sub |-> GetSubscription(id)]]
  /\ UNCHANGED <<storeVars, provider>>

Cancel(c, id, immediately) ==
  BeginUpdate(c, IF immediately THEN "CancelNow" ELSE "CancelAtPeriodEnd",
              id, None)

Pause(c, id) == BeginUpdate(c, "Pause", id, None)

Resume(c, id) == BeginUpdate(c, "Resume", id, None)

ChangePlan(c, id, p) == BeginUpdate(c, "ChangePlan", id, p)

\* The switch of applyEventToSubscription returns true.
EventApplies(type, status) ==
  \/ type \in Events \ {"payment.succeeded", "trial.ended"}
  \/ type = "payment.succeeded" /\ status \in {"past_due", "trialing"}
  \/ type = "trial.ended" /\ status = "trialing"

(***************************************************************************)
(* External: a webhook is delivered late, again and out of order, or never.*)
(* The provider pauses, resumes, renews and charges on its own initiative, *)
(* so those events may come at any time; the canceled event is sent only   *)
(* once the subscription has ended.                                        *)
(***************************************************************************)
WebhookSent(pid, type) ==
  /\ provider[pid] # None
  /\ type = "subscription.canceled" => provider[pid].Status = "canceled"

\* An event for an unknown subscription, or one that does not apply, is only
\* dispatched to the handlers.
HandleWebhook(c, pid, type) ==
  LET sub == GetSubscriptionByProviderID(pid) IN
  /\ HasProvider /\ type \in app.Kinds
  /\ Idle(c)
  /\ WebhookSent(pid, type)
  /\ sub # None
  /\ app.Serial => ~Busy(sub.ID)
  /\ EventApplies(type, sub.Status)
  /\ call' = [call EXCEPT ![c] =
       [step |-> "save", kind |-> type, plan |-> None, sub |-> sub]]
  /\ UNCHANGED <<storeVars, provider>>

-----------------------------------------------------------------------------
(***************************************************************************)
(* The provider call.  External: an ended subscription cannot be changed   *)
(* any more, and provider IDs are never given twice.                       *)
(***************************************************************************)
\* The provider's record after it served a request.
Served(record, kind, p) ==
  CASE kind = "CancelNow"         -> [record EXCEPT !.Status = "canceled"]
    [] kind = "CancelAtPeriodEnd" -> [record EXCEPT !.EndsAtPeriod = TRUE]
    [] kind = "Pause"             -> [record EXCEPT !.Status = "paused"]
    [] kind = "Resume"            -> [record EXCEPT !.Status = "live"]
    [] kind = "ChangePlan"        -> [record EXCEPT !.PlanID = p]

ProviderCreates(c) ==
  /\ At(c, "provider") /\ call[c].kind = "Subscribe"
  /\ \E pid \in ProviderIDs :
       /\ provider[pid] = None
       /\ provider' = [provider EXCEPT ![pid] =
            [Status |-> "live", PlanID |-> call[c].plan, EndsAtPeriod |-> FALSE]]
       /\ call' = [call EXCEPT ![c] =
            [@ EXCEPT !.step = "create", !.sub.ProviderID = pid]]
  /\ UNCHANGED storeVars

ProviderUpdates(c) ==
  LET pid == call[c].sub.ProviderID IN
  /\ At(c, "provider") /\ call[c].kind # "Subscribe"
  /\ provider[pid].Status # "canceled"
  /\ provider' = [provider EXCEPT ![pid] =
                    Served(provider[pid], call[c].kind, call[c].plan)]
  /\ call' = [call EXCEPT ![c].step = "save"]
  /\ UNCHANGED storeVars

\* An error of the provider is carried into the store anyway.
ProviderRefuses_Ignored(c) ==
  /\ At(c, "provider")
  /\ call[c].kind # "Subscribe"
  /\ call' = [call EXCEPT ![c].step = "save"]
  /\ UNCHANGED <<storeVars, provider>>

ProviderRefuses(c) ==
  /\ At(c, "provider")
  /\ Return(c)
  /\ UNCHANGED <<storeVars, provider>>

\* External: the period of a subscription that ends is over, payment was
\* given up, or it was canceled in the provider's own console.
ProviderEnds(pid) ==
  /\ "subscription.canceled" \in app.Kinds
  /\ provider[pid] # None
  /\ provider' = [provider EXCEPT ![pid].Status = "canceled"]
  /\ UNCHANGED <<storeVars, call>>

-----------------------------------------------------------------------------
(***************************************************************************)
(* The write, the last step of a call.                                     *)
(***************************************************************************)
\* What each operation changes in its copy before it saves it.
AfterCancel(kind, sub) ==
  [sub EXCEPT !.CanceledAt = TRUE,
              !.Status = IF kind = "CancelNow" THEN "canceled" ELSE @]

AfterPause(sub) == [sub EXCEPT !.Status = "paused", !.PausedAt = TRUE]

AfterResume(sub) == [sub EXCEPT !.Status = "active", !.PausedAt = FALSE]

\* A new plan is taken for a new subscription at the provider.
AfterChangePlan_Detaches(p, sub) == [sub EXCEPT !.PlanID = p, !.ProviderID = None]

\* The new plan is only told to the provider.
AfterChangePlan_PlanLost(p, sub) == sub

AfterChangePlan(p, sub) == [sub EXCEPT !.PlanID = p]

\* What an event that applies changes in it.
applyEventToSubscription(sub, type) ==
  CASE type = "subscription.canceled" ->
         [sub EXCEPT !.Status = "canceled", !.CanceledAt = TRUE]
    [] type = "subscription.paused" ->
         [sub EXCEPT !.Status = "paused", !.PausedAt = TRUE]
    [] type = "subscription.resumed" ->
         [sub EXCEPT !.Status = "active", !.PausedAt = FALSE]
    [] type = "payment.failed" -> [sub EXCEPT !.Status = "past_due"]
    [] type \in {"subscription.renewed", "payment.succeeded", "trial.ended"} ->
         [sub EXCEPT !.Status = "active"]

Updated(kind, p, sub) ==
  CASE kind \in Events -> applyEventToSubscription(sub, kind)
    [] kind = "Subscribe" -> sub
    [] kind \in {"CancelNow", "CancelAtPeriodEnd"} -> AfterCancel(kind, sub)
    [] kind = "Pause" -> AfterPause(sub)
    [] kind = "Resume" -> AfterResume(sub)
    [] kind = "ChangePlan" -> AfterChangePlan(p, sub)

\* Subscribe on a store that checks and inserts in one critical section.
CreateAtomically(c) ==
  /\ At(c, "create") /\ app.Atomic
  /\ CreateSubscriptionIfNotActive(call[c].sub)
  /\ Return(c)
  /\ UNCHANGED provider

\* The check of the fallback path; the save is another step.
CheckNotActive(c) ==
  /\ At(c, "create") /\ ~app.Atomic
  /\ \/ /\ GetActiveSubscription(call[c].sub.SubscriberID) # None
        /\ Return(c)
     \/ /\ GetActiveSubscription(call[c].sub.SubscriberID) = None
        /\ call' = [call EXCEPT ![c].step = "save"]
  /\ UNCHANGED <<storeVars, provider>>

Save(c) ==
  /\ At(c, "save")
  /\ SaveSubscription(Updated(call[c].kind, call[c].plan, call[c].sub))
  /\ Return(c)
  /\ UNCHANGED provider

\* The store returns an error, the provider's answer is lost, or the process
\* stops: what the call did so far stays done.
Abandon(c) ==
  /\ app.MayFail
  /\ ~Idle(c)
  /\ Return(c)
  /\ UNCHANGED <<storeVars, provider>>

-----------------------------------------------------------------------------
Begin(c) ==
  \/ \E u \in Subscribers, p \in app.Plans : Subscribe(c, u, p)
  \/ \E id \in SubIDs, immediately \in BOOLEAN : Cancel(c, id, immediately)
  \/ \E id \in SubIDs : Pause(c, id) \/ Resume(c, id)
  \/ \E id \in SubIDs, p \in app.Plans : ChangePlan(c, id, p)
  \/ \E pid \in ProviderIDs, type \in Events : HandleWebhook(c, pid, type)

Continue(c) ==
  \/ ProviderCreates(c)
  \/ ProviderUpdates(c)
  \/ ProviderRefuses(c)
  \/ CreateAtomically(c)
  \/ CheckNotActive(c)
  \/ Save(c)
  \/ Abandon(c)

\* A step makes an inactive record of subscriber u active.
Reactivates(u) ==
  \E id \in SubIDs :
    /\ Exists(id) /\ ~IsActive(id) /\ IsActive(id)'
    /\ subs[id].SubscriberID = u

History ==
  /\ UNCHANGED app
  /\ reactivated' = reactivated \cup {u \in Subscribers : Reactivates(u)}

Next ==
  /\ \/ \E c \in Calls : Begin(c) \/ Continue(c)
     \/ \E pid \in ProviderIDs : ProviderEnds(pid)
  /\ History

Spec == Init /\ [][Next]_vars

-----------------------------------------------------------------------------
(***************************************************************************)
(* Properties.                                                             *)
(***************************************************************************)
\* Whatever calls overlap and wherever they fail, the Manager uses the store
\* as SubscriptionStore requires: it never moves a record to another
\* subscriber and never stores one provider ID in two records.
ObeysStoreContract == StoreSpec

\* On an atomic store a subscriber has at most one active or trialing
\* subscription, whatever calls overlap, fail or save stale copies, until a
\* paused, past-due or canceled subscription of his is made active again:
\* Resume, renewal and payment do not look for another active one.
AtMostOneActive ==
  app.Atomic =>
    \A i, j \in SubIDs :
      /\ IsActive(i) /\ IsActive(j)
      /\ subs[i].SubscriberID = subs[j].SubscriberID
      /\ subs[i].SubscriberID \notin reactivated
      => i = j

\* The provider's subscription pid has a record, or a Subscribe call that has
\* still to insert it.
Owned(pid) ==
  \/ \E id \in SubIDs : Exists(id) /\ subs[id].ProviderID = pid
  \/ \E c \in Calls :
       ~Idle(c) /\ call[c].kind = "Subscribe" /\ call[c].sub.ProviderID = pid

\* A subscription that the provider bills loses its owner only when the very
\* Subscribe call that created it is refused as a duplicate or fails: no
\* later operation, webhook or stale copy drops the provider ID of a record.
OrphanedOnlyBySubscribe ==
  [][\A pid \in ProviderIDs :
       Owned(pid) /\ ~Owned(pid)' =>
         \E c \in Calls : /\ ~Idle(c) /\ call[c].kind = "Subscribe"
                          /\ call[c].sub.ProviderID = pid]_vars

\* GetActiveSubscription "returns the active/trialing subscription for a
\* subscriber, or ErrNotFound if none exists" (store/store.go).
ActiveFound ==
  \A id \in SubIDs :
    IsActive(id) => GetActiveSubscription(subs[id].SubscriberID) # None

\* A record that says canceled is canceled at the provider: nobody is billed
\* for a subscription that the application was told has ended.  The provider
\* is called before the record is saved, and its errors stop the call.
CanceledAtProvider ==
  \A id \in SubIDs :
    Exists(id) /\ subs[id].Status = "canceled" /\ subs[id].ProviderID # None
      => provider[subs[id].ProviderID].Status = "canceled"

\* A canceled record stays canceled.  Where nothing resumes, renews or pays a
\* subscription, only the save of a copy read before the cancellation could
\* give access back: after Cancel at the period end the status is "active
\* until provider webhook fires" (subscriber.go), and not after it.
CanceledIsFinal ==
  [][\A id \in SubIDs :
       Exists(id) /\ subs[id].Status = "canceled"
         => subs'[id].Status = "canceled"]_vars

Undisturbed == app.Serial /\ ~app.MayFail /\ app.Kinds \subseteq Operations

\* When no call is working on a subscription, its record and the provider's
\* agree on the status, the plan and a pending or past cancellation, in an
\* application whose calls on one subscription neither overlap nor fail, and
\* where the provider changes nothing by itself.
QuiescentAgreement ==
  \A id \in SubIDs :
    LET sub == subs[id]
        record == provider[sub.ProviderID]
    IN  Undisturbed /\ Exists(id) /\ ~Busy(id) /\ HasProvider =>
          /\ sub.ProviderID # None /\ record # None
          /\ sub.Status = "canceled" <=> record.Status = "canceled"
          /\ sub.Status = "paused" <=> record.Status = "paused"
          /\ isActiveStatus(sub.Status) <=> record.Status = "live"
          /\ sub.PlanID = record.PlanID
          /\ sub.CanceledAt <=> record.EndsAtPeriod \/ record.Status = "canceled"
=============================================================================
