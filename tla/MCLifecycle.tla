---------------------------- MODULE MCLifecycle ----------------------------
(***************************************************************************)
(* TLC instances of Lifecycle.  Callers and IDs are only compared, so they *)
(* are symmetric; plans are not, since some have a trial.                  *)
(***************************************************************************)
EXTENDS Lifecycle, TLC

\* Calls overlap and fail, and webhooks of every effect arrive.
OverlappingApp ==
  [Kinds   |-> {"Subscribe", "CancelNow", "ChangePlan", "Resume",
                "subscription.canceled", "subscription.renewed",
                "payment.failed", "payment.succeeded", "trial.ended"},
   Plans   |-> TrialPlans,
   Atomic  |-> TRUE, Serial |-> FALSE, MayFail |-> TRUE]

\* Calls overlap and fail, and only take access away.
RevokingApp ==
  [Kinds   |-> {"Subscribe", "CancelNow", "Pause", "subscription.canceled",
                "subscription.paused", "payment.failed"},
   Plans   |-> PlanIDs \ TrialPlans,
   Atomic  |-> TRUE, Serial |-> FALSE, MayFail |-> TRUE]

\* All operations, without failures, one after the other on a subscription,
\* on a store without the atomic extension.
SerialApp ==
  [Kinds   |-> Operations, Plans |-> PlanIDs,
   Atomic  |-> FALSE, Serial |-> TRUE, MayFail |-> FALSE]

AllApps == {OverlappingApp, RevokingApp, SerialApp}

ResumingApps ==
  {[Kinds  |-> {"Subscribe", "Pause", "Resume"}, Plans |-> PlanIDs,
    Atomic |-> TRUE, Serial |-> FALSE, MayFail |-> FALSE]}

CancelingApps ==
  {[Kinds  |-> {"Subscribe", "CancelAtPeriodEnd", "subscription.canceled"},
    Plans  |-> PlanIDs,
    Atomic |-> TRUE, Serial |-> FALSE, MayFail |-> FALSE]}

Symmetry ==
  Permutations(Calls) \cup Permutations(SubIDs)
    \cup Permutations(ProviderIDs) \cup Permutations(Subscribers)
=============================================================================
