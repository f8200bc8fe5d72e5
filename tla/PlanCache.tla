------------------------------ MODULE PlanCache ------------------------------
(***************************************************************************)
(* plan.go and plancache.go: the Manager's plan operations on the plan     *)
(* store, on the payment provider and on the in-process cache with a time  *)
(* to live.                                                                *)
(*                                                                         *)
(* The store and the cache have a lock each and no call holds one from one *)
(* access to the next.  A plan is two of the fields UpdatePlan patches one *)
(* by one, of which the provider is told the first, and whether its        *)
(* ProviderID is set: it is not where no provider was configured when the  *)
(* plan was created.  Time is relative: an entry counts down from TTL.     *)
(***************************************************************************)
EXTENDS Naturals

CONSTANTS
  PlanIDs,
  Values,   \* values of a field
  TTL,      \* ticks an entry lives
  Calls,    \* concurrent callers
  None,     \* no plan stored or cached yet, an idle caller, a nil patch field
  Deleted   \* the plan was removed; newID never gives its ID again

VARIABLES
  plans,    \* the plan store
  provider, \* external: the name of each plan at the provider, None if it has none
  cache,    \* planCache.entries
  call,     \* what each caller is doing, None when it is idle
  serial,   \* constant: the application never overlaps calls on one plan
  quiet,    \* no operator changes plans any more
  failed    \* history: the plans of which a call ended after the provider's part

vars == <<plans, provider, cache, call, serial, quiet, failed>>

Plan == [Name : Values, Limits : Values, ProviderID : BOOLEAN]

Entry == [plan : Plan, left : 0..TTL]

\* UpdatePlanInput: nil fields are left alone.
Patches == [Name : Values \cup {None}, Limits : Values \cup {None}]

Call ==
  [step  : {"fill", "insert", "update", "save", "delete", "remove", "set", "evict"},
   id    : PlanIDs,
   patch : Patches \cup {None},
   plan  : Plan \cup {None}]

ASSUME PlanCacheAssumption ==
  /\ TTL \in Nat \ {0}
  /\ None \notin Plan \cup Entry \cup Call \cup Values \cup Patches
  /\ Deleted \notin Plan \cup Values \cup {None}

PlanCacheTypeOK ==
  /\ plans \in [PlanIDs -> Plan \cup {None, Deleted}]
  /\ provider \in [PlanIDs -> Values \cup {None, Deleted}]
  /\ cache \in [PlanIDs -> Entry \cup {None}]
  /\ call \in [Calls -> Call \cup {None}]
  /\ serial \in BOOLEAN /\ quiet \in BOOLEAN
  /\ failed \subseteq PlanIDs

Init ==
  /\ plans = [id \in PlanIDs |-> None]
  /\ provider = [id \in PlanIDs |-> None]
  /\ cache = [id \in PlanIDs |-> None]
  /\ call = [c \in Calls |-> None]
  /\ serial \in BOOLEAN
  /\ quiet = FALSE
  /\ failed = {}

Stored(id) == plans[id] \notin {None, Deleted}

\* get finds an entry that has not expired.
Live(id) == cache[id] # None /\ cache[id].left > 0

Idle(c) == call[c] = None

At(c, step) == ~Idle(c) /\ call[c].step = step

Busy(id) == \E c \in Calls : ~Idle(c) /\ call[c].id = id

MayBegin(c, id) == Idle(c) /\ (serial => ~Busy(id))

Enter(c, step, id, patch, plan) ==
  call' = [call EXCEPT ![c] =
             [step |-> step, id |-> id, patch |-> patch, plan |-> plan]]

Return(c) == call' = [call EXCEPT ![c] = None]

-----------------------------------------------------------------------------
(***************************************************************************)
(* CreatePlan and GetPlan.  A cache hit and a plan that is not found       *)
(* change nothing, nor does a registration that the provider refuses.      *)
(***************************************************************************)
\* What the provider is told of a plan.
NameAtProvider(plan) == IF plan.ProviderID THEN plan.Name ELSE None

\* No plan is stored or registered under id, and none is being created.
Unused(id) ==
  /\ plans[id] = None /\ provider[id] = None
  /\ \A c \in Calls : At(c, "insert") => call[c].id # id

\* The provider, if there is one, has registered the plan, under a new ID.
CreatePlan(c, id, plan) ==
  /\ MayBegin(c, id) /\ ~quiet
  /\ Unused(id)
  /\ provider' = [provider EXCEPT ![id] = NameAtProvider(plan)]
  /\ Enter(c, "insert", id, None, plan)
  /\ UNCHANGED <<plans, cache, serial, quiet, failed>>

Insert(c) ==
  /\ At(c, "insert")
  /\ plans' = [plans EXCEPT ![call[c].id] = call[c].plan]
  /\ Enter(c, "set", call[c].id, None, call[c].plan)
  /\ UNCHANGED <<provider, cache, serial, quiet, failed>>

\* A hit prolongs the life of the entry.
GetPlanHit_Refreshes(c, id) ==
  /\ MayBegin(c, id) /\ Live(id)
  /\ cache' = [cache EXCEPT ![id].left = TTL]
  /\ UNCHANGED <<plans, provider, call, serial, quiet, failed>>

GetPlanHit(c, id) ==
  /\ MayBegin(c, id) /\ Live(id)
  /\ UNCHANGED vars

GetPlanMiss(c, id) ==
  /\ MayBegin(c, id) /\ ~Live(id)
  /\ Enter(c, "fill", id, None, None)
  /\ UNCHANGED <<plans, provider, cache, serial, quiet, failed>>

Fill(c) ==
  LET id == call[c].id IN
  /\ At(c, "fill")
  /\ \/ ~Stored(id) /\ Return(c)
     \/ Stored(id) /\ Enter(c, "set", id, None, plans[id])
  /\ UNCHANGED <<plans, provider, cache, serial, quiet, failed>>

-----------------------------------------------------------------------------
(***************************************************************************)
(* UpdatePlan and DeletePlan: read, call the provider, write, and bring    *)
(* the cache up to date.                                                   *)
(***************************************************************************)
\* A nil field of the input overwrites the stored value.
Patched_NilOverwrites(plan, patch) ==
  LET Get(v) == IF v = None THEN CHOOSE w \in Values : TRUE ELSE v
  IN  [plan EXCEPT !.Name = Get(patch.Name), !.Limits = Get(patch.Limits)]

Patched(plan, patch) ==
  [plan EXCEPT !.Name   = IF patch.Name = None THEN @ ELSE patch.Name,
               !.Limits = IF patch.Limits = None THEN @ ELSE patch.Limits]

\* An update of a plan that is gone creates it again.
UpdatePlan_Upserts(c, id, patch) ==
  /\ MayBegin(c, id) /\ ~quiet
  /\ plans[id] # None
  /\ \E plan \in IF Stored(id) THEN {plans[id]} ELSE Plan :
       Enter(c, "update", id, patch, Patched(plan, patch))
  /\ UNCHANGED <<plans, provider, cache, serial, quiet, failed>>

UpdatePlan(c, id, patch) ==
  /\ MayBegin(c, id) /\ ~quiet
  /\ Stored(id)
  /\ Enter(c, "update", id, patch, Patched(plans[id], patch))
  /\ UNCHANGED <<plans, provider, cache, serial, quiet, failed>>

\* The provider is not told of a new name.
ProviderUpdates_Skipped(c) ==
  /\ At(c, "update")
  /\ Enter(c, "save", call[c].id, call[c].patch, call[c].plan)
  /\ UNCHANGED <<plans, provider, cache, serial, quiet, failed>>

\* The provider is told if it has the plan.  An archived plan may be updated; it
\* stays archived.
ProviderUpdates(c) ==
  /\ At(c, "update")
  /\ provider' = [provider EXCEPT ![call[c].id] =
       IF call[c].plan.ProviderID /\ @ # Deleted THEN call[c].plan.Name ELSE @]
  /\ Enter(c, "save", call[c].id, call[c].patch, call[c].plan)
  /\ UNCHANGED <<plans, cache, serial, quiet, failed>>

\* The cache is left to expire.
UpdateSave_NoSet(c) ==
  /\ At(c, "save")
  /\ plans' = [plans EXCEPT ![call[c].id] = call[c].plan]
  /\ Return(c)
  /\ UNCHANGED <<provider, cache, serial, quiet, failed>>

UpdateSave(c) ==
  /\ At(c, "save")
  /\ plans' = [plans EXCEPT ![call[c].id] = call[c].plan]
  /\ Enter(c, "set", call[c].id, call[c].patch, call[c].plan)
  /\ UNCHANGED <<provider, cache, serial, quiet, failed>>

DeletePlan(c, id) ==
  /\ MayBegin(c, id) /\ ~quiet
  /\ Stored(id)
  /\ Enter(c, "delete", id, None, plans[id])
  /\ UNCHANGED <<plans, provider, cache, serial, quiet, failed>>

ProviderDeletes(c) ==
  /\ At(c, "delete")
  /\ provider' = [provider EXCEPT ![call[c].id] =
       IF call[c].plan.ProviderID THEN Deleted ELSE @]
  /\ Enter(c, "remove", call[c].id, None, None)
  /\ UNCHANGED <<plans, cache, serial, quiet, failed>>

Remove(c) ==
  LET id == call[c].id IN
  /\ At(c, "remove")
  /\ \/ ~Stored(id) /\ Return(c) /\ UNCHANGED plans
     \/ /\ Stored(id)
        /\ plans' = [plans EXCEPT ![id] = Deleted]
        /\ Enter(c, "evict", id, None, None)
  /\ UNCHANGED <<provider, cache, serial, quiet, failed>>

\* The provider refuses the update or the removal.
ProviderRefuses(c) ==
  /\ At(c, "update") \/ At(c, "delete")
  /\ call[c].plan.ProviderID
  /\ Return(c)
  /\ UNCHANGED <<plans, provider, cache, serial, quiet, failed>>

\* The provider's answer is lost or the store fails: the call returns the error
\* and takes nothing back.
Fails(c) ==
  /\ At(c, "insert") \/ At(c, "save") \/ At(c, "remove")
  /\ failed' = failed \cup {call[c].id}
  /\ Return(c)
  /\ UNCHANGED <<plans, provider, cache, serial, quiet>>

-----------------------------------------------------------------------------
(***************************************************************************)
(* planCache.set and planCache.delete, the last step of a call.            *)
(***************************************************************************)
\* The entry lives one tick too long.
CacheSet_OffByOne(c) ==
  /\ At(c, "set")
  /\ cache' = [cache EXCEPT ![call[c].id] =
                 [plan |-> call[c].plan, left |-> TTL + 1]]
  /\ Return(c)
  /\ UNCHANGED <<plans, provider, serial, quiet, failed>>

CacheSet(c) ==
  /\ At(c, "set")
  /\ cache' = [cache EXCEPT ![call[c].id] = [plan |-> call[c].plan, left |-> TTL]]
  /\ Return(c)
  /\ UNCHANGED <<plans, provider, serial, quiet, failed>>

CacheDelete(c) ==
  /\ At(c, "evict")
  /\ cache' = [cache EXCEPT ![call[c].id] = None]
  /\ Return(c)
  /\ UNCHANGED <<plans, provider, serial, quiet, failed>>

\* Time passes; an entry at 0 has expired and stays until it is overwritten.
Tick ==
  /\ \E id \in PlanIDs : Live(id)
  /\ cache' = [id \in PlanIDs |->
                 IF Live(id) THEN [cache[id] EXCEPT !.left = @ - 1]
                 ELSE cache[id]]
  /\ UNCHANGED <<plans, provider, call, serial, quiet, failed>>

\* The operators stop creating, changing and deleting plans.
BecomeQuiet ==
  /\ ~quiet
  /\ quiet' = TRUE
  /\ UNCHANGED <<plans, provider, cache, call, serial, failed>>

-----------------------------------------------------------------------------
Begin(c) ==
  \/ \E id \in PlanIDs, plan \in Plan : CreatePlan(c, id, plan)
  \/ \E id \in PlanIDs : GetPlanHit(c, id) \/ GetPlanMiss(c, id)
  \/ \E id \in PlanIDs, patch \in Patches : UpdatePlan(c, id, patch)
  \/ \E id \in PlanIDs : DeletePlan(c, id)

Step(c) ==
  \/ Fill(c)
  \/ Insert(c)
  \/ ProviderUpdates(c) \/ UpdateSave(c)
  \/ ProviderDeletes(c) \/ Remove(c)
  \/ ProviderRefuses(c) \/ Fails(c)
  \/ CacheSet(c)
  \/ CacheDelete(c)

Next ==
  \/ \E c \in Calls : Begin(c) \/ Step(c)
  \/ Tick
  \/ BecomeQuiet

Spec == Init /\ [][Next]_vars

\* Calls return and time passes.
FairSpec == Spec /\ (\A c \in Calls : WF_vars(Step(c))) /\ WF_vars(Tick)

-----------------------------------------------------------------------------
(***************************************************************************)
(* Properties.                                                             *)
(***************************************************************************)
\* When nobody works on plan id, what a hit returns is what is stored.
Consistent(id) == ~Busy(id) /\ Live(id) => cache[id].plan = plans[id]

\* "the cache is always consistent with the store for plans mutated through
\* this Manager" (GetPlan in plan.go), whatever calls overlapped.
CacheConsistent == \A id \in PlanIDs : Consistent(id)

\* The same where calls on one plan do not overlap: create, update and delete
\* all leave the cache as they leave the store.
SerialConsistent == serial => CacheConsistent

\* Whatever calls overlapped, a stale entry does not outlive its TTL: once
\* plans are no longer changed, GetPlan returns what is stored for good.
EventuallyConsistent ==
  [](quiet => <>[](\A id \in PlanIDs : Live(id) => cache[id].plan = plans[id]))

\* The provider has plan id exactly if it is stored with a ProviderID, and
\* under the name that is stored.
InStep(id) ==
  IF Stored(id) THEN provider[id] = NameAtProvider(plans[id])
                ELSE provider[id] \in {None, plans[id]}

\* Where calls on one plan do not overlap, store and provider agree on the
\* plans that exist and on their names when nobody works on them, unless a call
\* failed between the provider and the store: the plan is then at the provider
\* alone (CreatePlan), in the store alone (DeletePlan) or named differently.
ProviderInStep ==
  serial => \A id \in PlanIDs \ failed : ~Busy(id) => InStep(id)

\* UpdatePlan applies a patch: if calls on the plan do not overlap, a field
\* that is nil in the input keeps the value it has when the plan is saved.
PatchKeepsOthers ==
  [][\A c \in Calls :
       /\ At(c, "save") /\ call'[c] \notin {None, call[c]}
       /\ serial
       => \A f \in {"Name", "Limits"} :
            call[c].patch[f] = None =>
              plans'[call[c].id][f] = plans[call[c].id][f]]_vars

\* DeletePlan "removes the plan permanently" (store.go): if calls on the plan
\* do not overlap, no update stores it again.
DeletedIsFinal ==
  [][serial => \A id \in PlanIDs :
                 plans[id] = Deleted => plans'[id] = Deleted]_vars
=============================================================================
