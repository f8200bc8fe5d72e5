--------------------------- MODULE PlanCacheProofs ---------------------------
(***************************************************************************)
(* Theorems about PlanCache, for any number of plans, callers and values   *)
(* and any time to live.                                                   *)
(***************************************************************************)
EXTENDS PlanCache, TLAPS

\* What a hit on plan id returns is what is stored.
CacheFollows(id) == Live(id) => cache[id].plan = plans[id]

\* The provider has plan id as it is stored.
ProviderFollows(id) == id \notin failed => InStep(id)

\* A call carries the plan and the patch that its next steps need.
CarriesPlan ==
  \A c \in Calls : ~Idle(c) =>
    /\ call[c].step \in {"insert", "update", "save", "delete", "set"} =>
         call[c].plan \in Plan
    /\ call[c].step \in {"update", "save"} => call[c].patch \in Patches

\* Calls on one plan do not overlap.
Apart ==
  \A c, d \in Calls : ~Idle(c) /\ ~Idle(d) /\ call[c].id = call[d].id => c = d

\* Where store, provider and cache are when call c has done its steps so far.
UnderWay(c) ==
  LET r == call[c] IN
  ~Idle(c) =>
    /\ r.step \in {"update", "save", "delete", "remove"} => Stored(r.id)
    /\ r.step \in {"update", "save"} => r.plan = Patched(plans[r.id], r.patch)
    /\ r.step = "insert" => plans[r.id] = None
    /\ r.step = "delete" => r.plan = plans[r.id]
    /\ r.step = "set" => plans[r.id] = r.plan
    /\ r.step \notin {"set", "evict"} => CacheFollows(r.id)
    /\ r.step \notin {"insert", "save", "remove"} => ProviderFollows(r.id)
    /\ r.step \in {"insert", "save"} /\ r.id \notin failed =>
         provider[r.id] = NameAtProvider(r.plan)
    /\ r.step = "remove" /\ r.id \notin failed => provider[r.id] \in {None, Deleted}

\* Where they are when nobody works on plan id.
AtRest(id) == ~Busy(id) => CacheFollows(id) /\ ProviderFollows(id)

SerialInv == Apart /\ (\A c \in Calls : UnderWay(c)) /\ (\A id \in PlanIDs : AtRest(id))

PlanCacheInv == PlanCacheTypeOK /\ CarriesPlan /\ (serial => SerialInv)

-----------------------------------------------------------------------------
(***************************************************************************)
(* Types.                                                                  *)
(***************************************************************************)
\* A patched plan is a plan.
LEMMA PatchedType ==
  ASSUME NEW plan \in Plan, NEW patch \in Patches
  PROVE  Patched(plan, patch) \in Plan
BY PlanCacheAssumption DEF Patched, Plan, Patches

\* A patch leaves the fields alone that it does not name.
LEMMA PatchedKeeps ==
  ASSUME NEW plan \in Plan, NEW patch, NEW f \in {"Name", "Limits"}, patch[f] = None
  PROVE  Patched(plan, patch)[f] = plan[f]
<1>1. CASE f = "Name"
  BY <1>1 DEF Patched, Plan
<1>2. CASE f = "Limits"
  BY <1>2 DEF Patched, Plan
<1> QED BY <1>1, <1>2

\* A call enters its next step.
LEMMA EnterType ==
  ASSUME PlanCacheTypeOK, CarriesPlan, NEW c \in Calls, NEW id \in PlanIDs,
         NEW step \in {"fill", "insert", "update", "save", "delete", "remove",
                       "set", "evict"},
         NEW patch \in Patches \cup {None}, NEW plan \in Plan \cup {None},
         step \in {"insert", "update", "save", "delete", "set"} => plan \in Plan,
         step \in {"update", "save"} => patch \in Patches,
         Enter(c, step, id, patch, plan)
  PROVE  /\ call' \in [Calls -> Call \cup {None}]
         /\ CarriesPlan'
         /\ call' = [call EXCEPT ![c] = call'[c]] /\ call'[c] # None
         /\ call'[c].step = step /\ call'[c].id = id
         /\ call'[c].patch = patch /\ call'[c].plan = plan
<1> DEFINE r == [step |-> step, id |-> id, patch |-> patch, plan |-> plan]
<1>1. r \in Call /\ r # None
  BY PlanCacheAssumption DEF Call
<1>2. call' = [call EXCEPT ![c] = r] /\ call'[c] = r
  BY DEF Enter, PlanCacheTypeOK
<1>3. call' \in [Calls -> Call \cup {None}]
  BY <1>1, <1>2 DEF PlanCacheTypeOK
<1>4. CarriesPlan'
  BY <1>1, <1>2 DEF PlanCacheTypeOK, CarriesPlan, Idle
<1> QED BY <1>1, <1>2, <1>3, <1>4

\* A call returns.
LEMMA ReturnType ==
  ASSUME PlanCacheTypeOK, CarriesPlan, NEW c \in Calls, Return(c)
  PROVE  /\ call' \in [Calls -> Call \cup {None}]
         /\ CarriesPlan'
         /\ call' = [call EXCEPT ![c] = call'[c]] /\ call'[c] = None
BY DEF PlanCacheTypeOK, CarriesPlan, Return, Idle

-----------------------------------------------------------------------------
(***************************************************************************)
(* Where calls on one plan do not overlap, a step of a call concerns its   *)
(* own plan only.                                                          *)
(***************************************************************************)
LEMMA OwnPlanOnly ==
  ASSUME PlanCacheTypeOK, SerialInv, NEW c \in Calls, NEW id \in PlanIDs,
         (Idle(c) /\ ~Busy(id)) \/ (~Idle(c) /\ call[c].id = id),
         call' = [call EXCEPT ![c] = call'[c]],
         call'[c] # None => call'[c].id = id,
         \A o \in PlanIDs \ {id} :
           /\ plans'[o] = plans[o] /\ cache'[o] = cache[o]
           /\ provider'[o] = provider[o] /\ (o \in failed' <=> o \in failed),
         UnderWay(c)',
         call'[c] = None => CacheFollows(id)' /\ ProviderFollows(id)'
  PROVE  SerialInv'
<1>1. \A d \in Calls \ {c} : call'[d] = call[d]
  BY DEF PlanCacheTypeOK
<1>2. \A d \in Calls : ~Idle(d) => call[d].id \in PlanIDs
  BY DEF PlanCacheTypeOK, Idle, Call
<1>3. \A d \in Calls \ {c} : ~Idle(d) => call[d].id # id
  BY DEF Busy, SerialInv, Apart
<1>4. Apart'
  BY <1>1, <1>3 DEF SerialInv, Apart, Idle
<1>5. \A o \in PlanIDs \ {id} :
        /\ CacheFollows(o)' <=> CacheFollows(o)
        /\ ProviderFollows(o)' <=> ProviderFollows(o)
        /\ Stored(o)' <=> Stored(o)
  BY DEF CacheFollows, ProviderFollows, Live, Stored, InStep, NameAtProvider
<1>6. ASSUME NEW d \in Calls PROVE UnderWay(d)'
  <2>1. CASE d = c
    BY <2>1
  <2>2. CASE d # c
    <3>1. call'[d] = call[d] /\ (~Idle(d) => call[d].id \in PlanIDs \ {id})
      BY <1>1, <1>2, <1>3, <2>2
    <3>2. UnderWay(d)
      BY DEF SerialInv
    <3> QED BY <1>5, <3>1, <3>2 DEF UnderWay, Idle
  <2> QED BY <2>1, <2>2
<1>7. ASSUME NEW o \in PlanIDs PROVE AtRest(o)'
  <2>1. CASE o = id
    <3>1. call'[c] # None => Busy(id)'
      BY DEF Busy, Idle
    <3> QED BY <2>1, <3>1 DEF AtRest
  <2>2. CASE o # id
    <3>1. ~Busy(o)' => ~Busy(o)
      BY <1>1, <2>2 DEF Busy, Idle
    <3>2. AtRest(o)
      BY DEF SerialInv
    <3> QED BY <1>5, <2>2, <3>1, <3>2 DEF AtRest
  <2> QED BY <2>1, <2>2
<1> QED BY <1>4, <1>6, <1>7 DEF SerialInv

\* A call that begins does so on a plan that nobody works on.
LEMMA MayBeginSerial ==
  ASSUME PlanCacheTypeOK, serial, SerialInv, NEW c \in Calls, NEW id \in PlanIDs,
         MayBegin(c, id)
  PROVE  Idle(c) /\ ~Busy(id) /\ CacheFollows(id) /\ ProviderFollows(id)
BY DEF MayBegin, SerialInv, AtRest

-----------------------------------------------------------------------------
(***************************************************************************)
(* The actions, each for the types and for SerialInv.                      *)
(***************************************************************************)
\* CreatePlan: the provider has the plan, the store has it not yet.
LEMMA CreatePlanInv ==
  ASSUME PlanCacheInv, NEW c \in Calls, NEW id \in PlanIDs, NEW plan \in Plan,
         CreatePlan(c, id, plan)
  PROVE  PlanCacheInv'
<1>1. PlanCacheTypeOK /\ CarriesPlan /\ (serial => SerialInv)
  BY DEF PlanCacheInv
<1>2. Enter(c, "insert", id, None, plan)
  BY DEF CreatePlan
<1>3. /\ call' \in [Calls -> Call \cup {None}] /\ CarriesPlan'
      /\ call' = [call EXCEPT ![c] = call'[c]] /\ call'[c] # None
      /\ call'[c].step = "insert" /\ call'[c].id = id /\ call'[c].plan = plan
  BY <1>1, <1>2, EnterType
<1>4. PlanCacheTypeOK'
  <2>1. NameAtProvider(plan) \in Values \cup {None}
    BY DEF NameAtProvider, Plan
  <2> QED BY <1>1, <1>3, <2>1 DEF CreatePlan, PlanCacheTypeOK
<1>5. ASSUME serial PROVE SerialInv'
  <2>1. Idle(c) /\ ~Busy(id) /\ CacheFollows(id)
    BY <1>1, <1>5, MayBeginSerial DEF CreatePlan
  <2>2. UnderWay(c)'
    BY <1>1, <1>3, <2>1 DEF CreatePlan, Unused, UnderWay, CacheFollows, Live, PlanCacheTypeOK
  <2>3. \A o \in PlanIDs \ {id} :
          /\ plans'[o] = plans[o] /\ cache'[o] = cache[o]
          /\ provider'[o] = provider[o] /\ (o \in failed' <=> o \in failed)
    BY <1>1 DEF CreatePlan, PlanCacheTypeOK
  <2> QED BY <1>1, <1>3, <1>5, <2>1, <2>2, <2>3, OwnPlanOnly
<1> QED BY <1>1, <1>3, <1>4, <1>5 DEF CreatePlan, PlanCacheInv

\* The first reads of GetPlan, UpdatePlan and DeletePlan.
LEMMA BeginInv ==
  ASSUME PlanCacheInv, NEW c \in Calls, NEW id \in PlanIDs, MayBegin(c, id),
         NEW step \in {"fill", "update", "delete"},
         NEW patch \in Patches \cup {None}, NEW plan \in Plan \cup {None},
         Enter(c, step, id, patch, plan),
         step # "fill" => Stored(id),
         step = "update" => patch \in Patches /\ plan = Patched(plans[id], patch),
         step = "delete" => plan = plans[id],
         UNCHANGED <<plans, provider, cache, serial, quiet, failed>>
  PROVE  PlanCacheInv'
<1>1. PlanCacheTypeOK /\ CarriesPlan /\ (serial => SerialInv)
  BY DEF PlanCacheInv
<1>2. step \in {"update", "delete"} => plan \in Plan
  BY <1>1, PatchedType DEF Stored, PlanCacheTypeOK
<1>3. /\ call' \in [Calls -> Call \cup {None}] /\ CarriesPlan'
      /\ call' = [call EXCEPT ![c] = call'[c]] /\ call'[c] # None
      /\ call'[c].step = step /\ call'[c].id = id
      /\ call'[c].patch = patch /\ call'[c].plan = plan
  BY <1>1, <1>2, EnterType
<1>4. PlanCacheTypeOK'
  BY <1>1, <1>3 DEF PlanCacheTypeOK
<1>5. ASSUME serial PROVE SerialInv'
  <2>1. Idle(c) /\ ~Busy(id) /\ CacheFollows(id) /\ ProviderFollows(id)
    BY <1>1, <1>5, MayBeginSerial
  <2>2. CacheFollows(id)' /\ ProviderFollows(id)' /\ (Stored(id)' <=> Stored(id))
    BY <2>1 DEF CacheFollows, ProviderFollows, Live, Stored, InStep, NameAtProvider
  <2>3. UnderWay(c)'
    BY <1>3, <2>2 DEF UnderWay
  <2> QED BY <1>1, <1>3, <1>5, <2>1, <2>3, OwnPlanOnly
<1> QED BY <1>1, <1>3, <1>4, <1>5 DEF PlanCacheInv

\* The later steps of a call, one lemma for all of them: what a step has to show
\* of the plan that its call is about.
LEMMA StepInv ==
  ASSUME PlanCacheInv, NEW c \in Calls, NEW id \in PlanIDs,
         ~Idle(c), call[c].id = id, PlanCacheTypeOK', CarriesPlan',
         call' = [call EXCEPT ![c] = call'[c]],
         call'[c] # None => call'[c].id = id,
         \A o \in PlanIDs \ {id} :
           /\ plans'[o] = plans[o] /\ cache'[o] = cache[o]
           /\ provider'[o] = provider[o] /\ (o \in failed' <=> o \in failed),
         serial' = serial,
         serial /\ UnderWay(c) =>
           /\ UnderWay(c)'
           /\ call'[c] = None => CacheFollows(id)' /\ ProviderFollows(id)'
  PROVE  PlanCacheInv'
<1>1. ASSUME serial PROVE SerialInv'
  <2>1. PlanCacheTypeOK /\ SerialInv /\ UnderWay(c)
    BY <1>1 DEF PlanCacheInv, SerialInv
  <2> QED BY <1>1, <2>1, OwnPlanOnly
<1> QED BY <1>1 DEF PlanCacheInv

\* The store is read by GetPlan.
LEMMA FillInv ==
  ASSUME PlanCacheInv, NEW c \in Calls, NEW id \in PlanIDs,
         ~Idle(c), call[c].id = id, Fill(c)
  PROVE  PlanCacheInv'
<1>1. PlanCacheTypeOK /\ CarriesPlan /\ call[c].step = "fill"
  BY DEF PlanCacheInv, Fill, At
<1>2. UNCHANGED <<plans, provider, cache, serial, quiet, failed>>
  BY DEF Fill
<1>3. CASE ~Stored(id) /\ Return(c)
  <2>1. /\ call' \in [Calls -> Call \cup {None}] /\ CarriesPlan'
        /\ call' = [call EXCEPT ![c] = call'[c]] /\ call'[c] = None
    BY <1>1, <1>3, ReturnType
  <2>2. UnderWay(c) => /\ UnderWay(c)'
                       /\ CacheFollows(id)' /\ ProviderFollows(id)'
    BY <1>1, <1>2, <2>1
    DEF UnderWay, Idle, CacheFollows, ProviderFollows, Live, Stored, InStep, NameAtProvider
  <2>3. PlanCacheTypeOK'
    BY <1>1, <1>2, <2>1 DEF PlanCacheTypeOK
  <2> QED BY <1>2, <2>1, <2>2, <2>3, StepInv
<1>4. CASE Stored(id) /\ Enter(c, "set", id, None, plans[id])
  <2>1. plans[id] \in Plan
    BY <1>1, <1>4 DEF Stored, PlanCacheTypeOK
  <2>2. PICK plan \in Plan : plan = plans[id]
    BY <2>1
  <2>3. /\ call' \in [Calls -> Call \cup {None}] /\ CarriesPlan'
        /\ call' = [call EXCEPT ![c] = call'[c]] /\ call'[c] # None
        /\ call'[c].step = "set" /\ call'[c].id = id /\ call'[c].plan = plan
    BY <1>1, <1>4, <2>2, EnterType
  <2>4. UnderWay(c) => UnderWay(c)'
    BY <1>1, <1>2, <2>2, <2>3
    DEF UnderWay, Idle, CacheFollows, ProviderFollows, Live, Stored, InStep, NameAtProvider
  <2>5. PlanCacheTypeOK'
    BY <1>1, <1>2, <2>3 DEF PlanCacheTypeOK
  <2> QED BY <1>2, <2>3, <2>4, <2>5, StepInv
<1> QED BY <1>3, <1>4 DEF Fill

\* A call that carries a plan goes on to its next step with it.
LEMMA CarryOn ==
  ASSUME PlanCacheTypeOK, CarriesPlan, NEW c \in Calls, NEW id \in PlanIDs,
         ~Idle(c), call[c].id = id,
         NEW old \in {"insert", "update", "save"}, call[c].step = old,
         NEW step \in {"save", "set"}, step = "save" => old = "update",
         NEW patch \in Patches \cup {None}, step = "save" => patch = call[c].patch,
         Enter(c, step, call[c].id, patch, call[c].plan)
  PROVE  /\ call[c].plan \in Plan
         /\ call' \in [Calls -> Call \cup {None}] /\ CarriesPlan'
         /\ call' = [call EXCEPT ![c] = call'[c]] /\ call'[c] # None
         /\ call'[c].step = step /\ call'[c].id = id
         /\ call'[c].patch = patch /\ call'[c].plan = call[c].plan
<1>1. call[c].plan \in Plan /\ (step = "save" => patch \in Patches)
  BY DEF CarriesPlan
<1>2. PICK plan \in Plan : plan = call[c].plan
  BY <1>1
<1>3. Enter(c, step, id, patch, plan)
  BY <1>2
<1> QED BY <1>1, <1>2, <1>3, EnterType

\* CreatePlan stores the plan.
LEMMA InsertInv ==
  ASSUME PlanCacheInv, NEW c \in Calls, NEW id \in PlanIDs,
         ~Idle(c), call[c].id = id, Insert(c)
  PROVE  PlanCacheInv'
<1>1. PlanCacheTypeOK /\ CarriesPlan /\ call[c].step = "insert"
  BY DEF PlanCacheInv, Insert, At
<1>2. /\ call[c].plan \in Plan
      /\ call' \in [Calls -> Call \cup {None}] /\ CarriesPlan'
      /\ call' = [call EXCEPT ![c] = call'[c]] /\ call'[c] # None
      /\ call'[c].step = "set" /\ call'[c].id = id /\ call'[c].plan = call[c].plan
  BY <1>1, CarryOn DEF Insert
<1>3. /\ plans' = [plans EXCEPT ![id] = call[c].plan]
      /\ UNCHANGED <<provider, cache, serial, quiet, failed>>
  BY DEF Insert
<1>4. PlanCacheTypeOK'
  BY <1>1, <1>2, <1>3 DEF PlanCacheTypeOK
<1>5. plans'[id] = call[c].plan /\ Stored(id)'
  BY <1>1, <1>2, <1>3, PlanCacheAssumption DEF PlanCacheTypeOK, Stored
<1>6. UnderWay(c) => UnderWay(c)'
  <2>1. UnderWay(c) => ProviderFollows(id)'
    BY <1>1, <1>3, <1>5 DEF UnderWay, ProviderFollows, InStep, NameAtProvider
  <2> QED BY <1>1, <1>2, <1>3, <1>5, <2>1 DEF UnderWay, Idle
<1>7. \A o \in PlanIDs \ {id} : plans'[o] = plans[o]
  BY <1>1, <1>3 DEF PlanCacheTypeOK
<1> QED BY <1>2, <1>3, <1>4, <1>6, <1>7, StepInv

\* UpdatePlan stores the patched plan.
LEMMA UpdateSaveInv ==
  ASSUME PlanCacheInv, NEW c \in Calls, NEW id \in PlanIDs,
         ~Idle(c), call[c].id = id, UpdateSave(c)
  PROVE  PlanCacheInv'
<1>1. PlanCacheTypeOK /\ CarriesPlan /\ call[c].step = "save"
  BY DEF PlanCacheInv, UpdateSave, At
<1>2. call[c].patch \in Patches
  BY <1>1 DEF CarriesPlan
<1>3. PICK patch \in Patches : patch = call[c].patch
  BY <1>2
<1>4. Enter(c, "set", call[c].id, patch, call[c].plan)
  BY <1>3 DEF UpdateSave
<1>5. /\ call[c].plan \in Plan
      /\ call' \in [Calls -> Call \cup {None}] /\ CarriesPlan'
      /\ call' = [call EXCEPT ![c] = call'[c]] /\ call'[c] # None
      /\ call'[c].step = "set" /\ call'[c].id = id /\ call'[c].plan = call[c].plan
  BY <1>1, <1>4, CarryOn
<1>6. /\ plans' = [plans EXCEPT ![id] = call[c].plan]
      /\ UNCHANGED <<provider, cache, serial, quiet, failed>>
  BY DEF UpdateSave
<1>7. PlanCacheTypeOK'
  BY <1>1, <1>5, <1>6 DEF PlanCacheTypeOK
<1>8. plans'[id] = call[c].plan /\ Stored(id)'
  BY <1>1, <1>5, <1>6, PlanCacheAssumption DEF PlanCacheTypeOK, Stored
<1>9. UnderWay(c) => UnderWay(c)'
  <2>1. UnderWay(c) => ProviderFollows(id)'
    BY <1>1, <1>6, <1>8 DEF UnderWay, ProviderFollows, InStep, NameAtProvider
  <2> QED BY <1>1, <1>5, <1>6, <1>8, <2>1 DEF UnderWay, Idle
<1>10. \A o \in PlanIDs \ {id} : plans'[o] = plans[o]
  BY <1>1, <1>6 DEF PlanCacheTypeOK
<1> QED BY <1>5, <1>6, <1>7, <1>9, <1>10, StepInv

\* UpdatePlan tells the provider.
LEMMA ProviderUpdatesInv ==
  ASSUME PlanCacheInv, NEW c \in Calls, NEW id \in PlanIDs,
         ~Idle(c), call[c].id = id, ProviderUpdates(c)
  PROVE  PlanCacheInv'
<1>1. PlanCacheTypeOK /\ CarriesPlan /\ call[c].step = "update"
  BY DEF PlanCacheInv, ProviderUpdates, At
<1>2. call[c].patch \in Patches
  BY <1>1 DEF CarriesPlan
<1>3. PICK patch \in Patches : patch = call[c].patch
  BY <1>2
<1>4. Enter(c, "save", call[c].id, patch, call[c].plan)
  BY <1>3 DEF ProviderUpdates
<1>5. /\ call[c].plan \in Plan
      /\ call' \in [Calls -> Call \cup {None}] /\ CarriesPlan'
      /\ call' = [call EXCEPT ![c] = call'[c]] /\ call'[c] # None
      /\ call'[c].step = "save" /\ call'[c].id = id
      /\ call'[c].patch = call[c].patch /\ call'[c].plan = call[c].plan
  BY <1>1, <1>3, <1>4, CarryOn
<1>6. /\ provider' = [provider EXCEPT ![id] =
           IF call[c].plan.ProviderID /\ provider[id] # Deleted
           THEN call[c].plan.Name ELSE provider[id]]
      /\ UNCHANGED <<plans, cache, serial, quiet, failed>>
  BY DEF ProviderUpdates
<1>7. call[c].plan.Name \in Values
  BY <1>5 DEF Plan
<1>8. PlanCacheTypeOK'
  BY <1>1, <1>5, <1>6, <1>7 DEF PlanCacheTypeOK
<1>9. UnderWay(c) => UnderWay(c)'
  <2>1. SUFFICES ASSUME UnderWay(c) PROVE UnderWay(c)'
    OBVIOUS
  <2>2. /\ Stored(id) /\ call[c].plan = Patched(plans[id], call[c].patch)
        /\ CacheFollows(id) /\ ProviderFollows(id)
    BY <1>1, <2>1 DEF UnderWay
  <2>3. plans[id] \in Plan /\ Deleted \notin Values \cup {None}
    BY <1>1, <2>2, PlanCacheAssumption DEF PlanCacheTypeOK, Stored
  <2>4. call[c].plan.ProviderID = plans[id].ProviderID
    BY <2>2, <2>3 DEF Patched, Plan
  <2>5. id \notin failed => provider[id] = NameAtProvider(plans[id])
    BY <2>2 DEF ProviderFollows, InStep
  <2>6. id \notin failed => provider'[id] = NameAtProvider(call[c].plan)
    BY <1>1, <1>6, <2>3, <2>4, <2>5 DEF PlanCacheTypeOK, NameAtProvider, Plan
  <2>7. Stored(id)' /\ CacheFollows(id)'
    BY <1>6, <2>2 DEF Stored, CacheFollows, Live
  <2> QED BY <1>5, <1>6, <2>2, <2>6, <2>7 DEF UnderWay
<1>10. \A o \in PlanIDs \ {id} : provider'[o] = provider[o]
  BY <1>1, <1>6 DEF PlanCacheTypeOK
<1> QED BY <1>5, <1>6, <1>8, <1>9, <1>10, StepInv

\* DeletePlan removes the plan at the provider.
LEMMA ProviderDeletesInv ==
  ASSUME PlanCacheInv, NEW c \in Calls, NEW id \in PlanIDs,
         ~Idle(c), call[c].id = id, ProviderDeletes(c)
  PROVE  PlanCacheInv'
<1>1. /\ PlanCacheTypeOK /\ CarriesPlan /\ call[c].step = "delete"
      /\ Enter(c, "remove", id, None, None)
  BY DEF PlanCacheInv, ProviderDeletes, At
<1>2. /\ call' \in [Calls -> Call \cup {None}] /\ CarriesPlan'
      /\ call' = [call EXCEPT ![c] = call'[c]] /\ call'[c] # None
      /\ call'[c].step = "remove" /\ call'[c].id = id
  BY <1>1, EnterType
<1>3. /\ provider' = [provider EXCEPT ![id] =
           IF call[c].plan.ProviderID THEN Deleted ELSE provider[id]]
      /\ UNCHANGED <<plans, cache, serial, quiet, failed>>
  BY DEF ProviderDeletes
<1>4. PlanCacheTypeOK'
  BY <1>1, <1>2, <1>3 DEF PlanCacheTypeOK
<1>5. UnderWay(c) => UnderWay(c)'
  <2>1. SUFFICES ASSUME UnderWay(c) PROVE UnderWay(c)'
    OBVIOUS
  <2>2. /\ Stored(id) /\ CacheFollows(id) /\ ProviderFollows(id)
        /\ call[c].plan = plans[id]
    BY <1>1, <2>1 DEF UnderWay, Idle
  <2>3. id \notin failed => provider'[id] \in {None, Deleted}
    BY <1>1, <1>3, <2>2
    DEF ProviderFollows, InStep, NameAtProvider, PlanCacheTypeOK
  <2>4. Stored(id)' /\ CacheFollows(id)'
    BY <1>3, <2>2 DEF Stored, CacheFollows, Live
  <2> QED BY <1>2, <1>3, <2>2, <2>3, <2>4 DEF UnderWay
<1>6. \A o \in PlanIDs \ {id} : provider'[o] = provider[o]
  BY <1>1, <1>3 DEF PlanCacheTypeOK
<1> QED BY <1>2, <1>3, <1>4, <1>5, <1>6, StepInv

\* DeletePlan removes the plan from the store.
LEMMA RemoveInv ==
  ASSUME PlanCacheInv, NEW c \in Calls, NEW id \in PlanIDs,
         ~Idle(c), call[c].id = id, Remove(c)
  PROVE  PlanCacheInv'
<1>1. PlanCacheTypeOK /\ CarriesPlan /\ call[c].step = "remove"
  BY DEF PlanCacheInv, Remove, At
<1>2. UNCHANGED <<provider, cache, serial, quiet, failed>>
  BY DEF Remove
<1>3. CASE ~Stored(id) /\ Return(c) /\ UNCHANGED plans
  <2>1. /\ call' \in [Calls -> Call \cup {None}] /\ CarriesPlan'
        /\ call' = [call EXCEPT ![c] = call'[c]] /\ call'[c] = None
    BY <1>1, <1>3, ReturnType
  <2>2. ~UnderWay(c)
    BY <1>1, <1>3 DEF UnderWay
  <2>3. PlanCacheTypeOK'
    BY <1>1, <1>2, <1>3, <2>1 DEF PlanCacheTypeOK
  <2> QED BY <1>2, <1>3, <2>1, <2>2, <2>3, StepInv
<1>4. CASE /\ Stored(id) /\ plans' = [plans EXCEPT ![id] = Deleted]
           /\ Enter(c, "evict", id, None, None)
  <2>1. /\ call' \in [Calls -> Call \cup {None}] /\ CarriesPlan'
        /\ call' = [call EXCEPT ![c] = call'[c]] /\ call'[c] # None
        /\ call'[c].step = "evict" /\ call'[c].id = id
    BY <1>1, <1>4, EnterType
  <2>2. PlanCacheTypeOK'
    BY <1>1, <1>2, <1>4, <2>1 DEF PlanCacheTypeOK
  <2>3. UnderWay(c) => UnderWay(c)'
    BY <1>1, <1>2, <1>4, <2>1
    DEF UnderWay, Idle, ProviderFollows, InStep, NameAtProvider, Stored, PlanCacheTypeOK
  <2>4. \A o \in PlanIDs \ {id} : plans'[o] = plans[o]
    BY <1>1, <1>4 DEF PlanCacheTypeOK
  <2> QED BY <1>2, <2>1, <2>2, <2>3, <2>4, StepInv
<1> QED BY <1>3, <1>4 DEF Remove

\* A refusal of the provider ends a call that has changed nothing.
LEMMA ProviderRefusesInv ==
  ASSUME PlanCacheInv, NEW c \in Calls, NEW id \in PlanIDs,
         ~Idle(c), call[c].id = id, ProviderRefuses(c)
  PROVE  PlanCacheInv'
<1>1. /\ PlanCacheTypeOK /\ CarriesPlan /\ call[c].step \in {"update", "delete"}
      /\ Return(c) /\ UNCHANGED <<plans, provider, cache, serial, quiet, failed>>
  BY DEF PlanCacheInv, ProviderRefuses, At
<1>2. /\ call' \in [Calls -> Call \cup {None}] /\ CarriesPlan'
      /\ call' = [call EXCEPT ![c] = call'[c]] /\ call'[c] = None
  BY <1>1, ReturnType
<1>3. PlanCacheTypeOK'
  BY <1>1, <1>2 DEF PlanCacheTypeOK
<1>4. UnderWay(c) => UnderWay(c)' /\ CacheFollows(id)' /\ ProviderFollows(id)'
  BY <1>1, <1>2
  DEF UnderWay, Idle, CacheFollows, ProviderFollows, Live, Stored, InStep, NameAtProvider
<1> QED BY <1>1, <1>2, <1>3, <1>4, StepInv

\* An error after the provider's part.
LEMMA FailsInv ==
  ASSUME PlanCacheInv, NEW c \in Calls, NEW id \in PlanIDs,
         ~Idle(c), call[c].id = id, Fails(c)
  PROVE  PlanCacheInv'
<1>1. /\ PlanCacheTypeOK /\ CarriesPlan
      /\ call[c].step \in {"insert", "save", "remove"}
      /\ Return(c) /\ UNCHANGED <<plans, provider, cache, serial, quiet>>
      /\ failed' = failed \cup {id}
  BY DEF PlanCacheInv, Fails, At
<1>2. /\ call' \in [Calls -> Call \cup {None}] /\ CarriesPlan'
      /\ call' = [call EXCEPT ![c] = call'[c]] /\ call'[c] = None
  BY <1>1, ReturnType
<1>3. PlanCacheTypeOK'
  BY <1>1, <1>2 DEF PlanCacheTypeOK
<1>4. UnderWay(c) => UnderWay(c)' /\ CacheFollows(id)' /\ ProviderFollows(id)'
  BY <1>1, <1>2 DEF UnderWay, Idle, CacheFollows, ProviderFollows, Live
<1> QED BY <1>1, <1>2, <1>3, <1>4, StepInv

\* The cache takes what the call stored or read, or drops what it removed.
LEMMA CacheInv ==
  ASSUME PlanCacheInv, NEW c \in Calls, NEW id \in PlanIDs,
         ~Idle(c), call[c].id = id, CacheSet(c) \/ CacheDelete(c)
  PROVE  PlanCacheInv'
<1>1. /\ PlanCacheTypeOK /\ CarriesPlan /\ Return(c)
      /\ UNCHANGED <<plans, provider, serial, quiet, failed>>
  BY DEF PlanCacheInv, CacheSet, CacheDelete
<1>2. /\ call' \in [Calls -> Call \cup {None}] /\ CarriesPlan'
      /\ call' = [call EXCEPT ![c] = call'[c]] /\ call'[c] = None
  BY <1>1, ReturnType
<1>3. \/ /\ call[c].step = "set" /\ call[c].plan \in Plan
         /\ cache' = [cache EXCEPT ![id] = [plan |-> call[c].plan, left |-> TTL]]
      \/ call[c].step = "evict" /\ cache' = [cache EXCEPT ![id] = None]
  BY <1>1 DEF CacheSet, CacheDelete, At, CarriesPlan
<1>4. cache' \in [PlanIDs -> Entry \cup {None}]
  <2>1. \A plan \in Plan : [plan |-> plan, left |-> TTL] \in Entry
    BY PlanCacheAssumption DEF Entry
  <2> QED BY <1>1, <1>3, <2>1 DEF PlanCacheTypeOK
<1>5. PlanCacheTypeOK'
  BY <1>1, <1>2, <1>4 DEF PlanCacheTypeOK
<1>6. UnderWay(c) => UnderWay(c)' /\ CacheFollows(id)' /\ ProviderFollows(id)'
  BY <1>1, <1>2, <1>3 DEF UnderWay, Idle, CacheFollows, ProviderFollows, Live,
     Stored, InStep, NameAtProvider, PlanCacheTypeOK
<1>7. \A o \in PlanIDs \ {id} : cache'[o] = cache[o]
  BY <1>1, <1>3 DEF PlanCacheTypeOK
<1> QED BY <1>1, <1>2, <1>5, <1>6, <1>7, StepInv

\* Time passes, plans are no longer changed, nothing happens.
LEMMA ElsewhereInv ==
  ASSUME PlanCacheInv,
         UNCHANGED <<plans, provider, call, serial, failed>>,
         cache' \in [PlanIDs -> Entry \cup {None}], quiet' \in BOOLEAN,
         \A id \in PlanIDs : Live(id)' => Live(id) /\ cache'[id].plan = cache[id].plan
  PROVE  PlanCacheInv'
<1>1. PlanCacheTypeOK /\ CarriesPlan /\ (serial => SerialInv)
  BY DEF PlanCacheInv
<1>2. PlanCacheTypeOK' /\ CarriesPlan'
  BY <1>1 DEF PlanCacheTypeOK, CarriesPlan, Idle
<1>3. \A id \in PlanIDs : /\ CacheFollows(id) => CacheFollows(id)'
                          /\ ProviderFollows(id) => ProviderFollows(id)'
                          /\ Stored(id)' <=> Stored(id)
                          /\ Busy(id)' <=> Busy(id)
  BY DEF CacheFollows, ProviderFollows, InStep, NameAtProvider, Stored, Busy, Idle
<1>4. \A c \in Calls : ~Idle(c) => call[c].id \in PlanIDs
  BY <1>1 DEF PlanCacheTypeOK, Idle, Call
<1>5. ASSUME SerialInv PROVE SerialInv'
  <2>1. Apart'
    BY <1>5 DEF SerialInv, Apart, Idle
  <2>2. \A c \in Calls : UnderWay(c)'
    BY <1>3, <1>4, <1>5 DEF SerialInv, UnderWay, Idle
  <2>3. \A id \in PlanIDs : AtRest(id)'
    BY <1>3, <1>5 DEF SerialInv, AtRest
  <2> QED BY <2>1, <2>2, <2>3 DEF SerialInv
<1> QED BY <1>1, <1>2, <1>5 DEF PlanCacheInv

LEMMA TickInv ==
  ASSUME PlanCacheInv, Tick
  PROVE  PlanCacheInv'
<1>1. PlanCacheTypeOK
  BY DEF PlanCacheInv
<1>2. ASSUME NEW id \in PlanIDs
      PROVE  /\ cache'[id] \in Entry \cup {None}
             /\ Live(id)' => Live(id) /\ cache'[id].plan = cache[id].plan
  <2>1. cache[id] \in Entry \cup {None}
    BY <1>1 DEF PlanCacheTypeOK
  <2>2. CASE Live(id)
    <3>1. cache[id] \in Entry /\ cache[id].left \in 1..TTL
      BY <2>1, <2>2, PlanCacheAssumption DEF Live, Entry
    <3>2. cache'[id] = [cache[id] EXCEPT !.left = cache[id].left - 1]
      BY <2>2 DEF Tick
    <3>3. cache'[id] \in Entry /\ cache'[id].plan = cache[id].plan
      BY <3>1, <3>2, PlanCacheAssumption DEF Entry
    <3> QED BY <2>2, <3>3
  <2>3. CASE ~Live(id)
    BY <2>1, <2>3 DEF Tick, Live
  <2> QED BY <2>2, <2>3
<1>3. cache' \in [PlanIDs -> Entry \cup {None}]
  <2>1. cache' = [id \in PlanIDs |-> cache'[id]]
    BY DEF Tick
  <2> QED BY <1>2, <2>1
<1>4. quiet' \in BOOLEAN
  BY <1>1 DEF Tick, PlanCacheTypeOK
<1> QED BY <1>2, <1>3, <1>4, ElsewhereInv DEF Tick

-----------------------------------------------------------------------------
(***************************************************************************)
(* The invariant.                                                          *)
(***************************************************************************)
LEMMA InitInv ==
  ASSUME Init
  PROVE  PlanCacheInv
BY DEF Init, PlanCacheInv, PlanCacheTypeOK, CarriesPlan, SerialInv, Apart, UnderWay,
   AtRest, Busy, Idle, CacheFollows, ProviderFollows, Live, Stored, InStep, NameAtProvider

LEMMA CallInv ==
  ASSUME PlanCacheInv, NEW c \in Calls, Begin(c) \/ Step(c)
  PROVE  PlanCacheInv'
<1>1. PlanCacheTypeOK
  BY DEF PlanCacheInv
<1>2. ASSUME NEW id \in PlanIDs, NEW plan \in Plan, CreatePlan(c, id, plan)
      PROVE  PlanCacheInv'
  BY <1>2, CreatePlanInv
<1>3. ASSUME NEW id \in PlanIDs, GetPlanHit(c, id) PROVE PlanCacheInv'
  BY <1>1, <1>3, ElsewhereInv DEF GetPlanHit, vars, PlanCacheTypeOK, Live
<1>4. ASSUME NEW id \in PlanIDs, GetPlanMiss(c, id) PROVE PlanCacheInv'
  BY <1>4, BeginInv DEF GetPlanMiss
<1>5. ASSUME NEW id \in PlanIDs, NEW patch \in Patches, UpdatePlan(c, id, patch)
      PROVE  PlanCacheInv'
  <2>1. Patched(plans[id], patch) \in Plan
    BY <1>1, <1>5, PatchedType DEF UpdatePlan, Stored, PlanCacheTypeOK
  <2>2. PICK plan \in Plan : plan = Patched(plans[id], patch)
    BY <2>1
  <2> QED BY <1>5, <2>2, BeginInv DEF UpdatePlan
<1>6. ASSUME NEW id \in PlanIDs, DeletePlan(c, id) PROVE PlanCacheInv'
  <2>1. plans[id] \in Plan
    BY <1>1, <1>6 DEF DeletePlan, Stored, PlanCacheTypeOK
  <2>2. PICK plan \in Plan : plan = plans[id]
    BY <2>1
  <2> QED BY <1>6, <2>2, BeginInv DEF DeletePlan
<1>7. ASSUME Step(c) PROVE PlanCacheInv'
  <2>1. ~Idle(c)
    BY <1>7 DEF Step, Fill, Insert, ProviderUpdates, UpdateSave, ProviderDeletes,
       Remove, ProviderRefuses, Fails, CacheSet, CacheDelete, At
  <2>2. call[c].id \in PlanIDs
    BY <1>1, <2>1 DEF PlanCacheTypeOK, Idle, Call
  <2>3. PICK id \in PlanIDs : call[c].id = id
    BY <2>2
  <2> QED BY <1>7, <2>1, <2>3, FillInv, InsertInv, ProviderUpdatesInv, UpdateSaveInv,
          ProviderDeletesInv, RemoveInv, ProviderRefusesInv, FailsInv, CacheInv
          DEF Step
<1> QED BY <1>2, <1>3, <1>4, <1>5, <1>6, <1>7 DEF Begin

\* Every step preserves the invariant.
LEMMA NextInv ==
  ASSUME PlanCacheInv, [Next]_vars
  PROVE  PlanCacheInv'
<1>1. PlanCacheTypeOK
  BY DEF PlanCacheInv
<1>2. CASE UNCHANGED vars
  BY <1>1, <1>2, ElsewhereInv DEF vars, PlanCacheTypeOK, Live
<1>3. CASE BecomeQuiet
  BY <1>1, <1>3, ElsewhereInv DEF BecomeQuiet, PlanCacheTypeOK, Live
<1> QED BY <1>2, <1>3, TickInv, CallInv DEF Next

\* PlanCacheInv holds in every reachable state.
THEOREM PlanCacheInvariant == Spec => []PlanCacheInv
BY InitInv, NextInv, PTL DEF Spec

-----------------------------------------------------------------------------
(***************************************************************************)
(* Theorems.                                                               *)
(***************************************************************************)
\* The store, the provider, the cache and the calls keep their types whatever
\* calls overlap: an entry never has more than TTL ticks left, and a call never
\* stores or caches anything but a plan.
THEOREM PlanCacheTypes == Spec => []PlanCacheTypeOK
<1>1. PlanCacheInv => PlanCacheTypeOK
  BY DEF PlanCacheInv
<1> QED BY <1>1, PlanCacheInvariant, PTL

\* Where calls on one plan do not overlap, a hit of GetPlan returns what is
\* stored once nobody works on the plan, for every history of CreatePlan,
\* UpdatePlan, DeletePlan, errors and expiry.
THEOREM CacheIsConsistent == Spec => []SerialConsistent
<1>1. PlanCacheInv => SerialConsistent
  BY DEF PlanCacheInv, SerialInv, AtRest, CacheFollows, SerialConsistent,
     CacheConsistent, Consistent
<1> QED BY <1>1, PlanCacheInvariant, PTL

\* Under the same condition the provider has the plans that the store has, under
\* their names, except those of which a call failed between the two.
THEOREM ProviderKeepsStep == Spec => []ProviderInStep
<1>1. PlanCacheInv => ProviderInStep
  BY DEF PlanCacheInv, SerialInv, AtRest, ProviderFollows, ProviderInStep
<1> QED BY <1>1, PlanCacheInvariant, PTL

\* A call changes its own record only.
LEMMA OwnCallOnly ==
  ASSUME PlanCacheTypeOK, NEW c \in Calls, NEW d \in Calls \ {c}, Begin(d) \/ Step(d)
  PROVE  call'[c] = call[c]
BY DEF PlanCacheTypeOK, Begin, Step, CreatePlan, GetPlanHit, GetPlanMiss, UpdatePlan,
   DeletePlan, Fill, Insert, ProviderUpdates, UpdateSave, ProviderDeletes, Remove,
   ProviderRefuses, Fails, CacheSet, CacheDelete, Enter, Return, vars

\* A call at the save step of UpdatePlan stores what it read, patched.
LEMMA SavesPatched ==
  ASSUME PlanCacheInv, serial, [Next]_vars, NEW c \in Calls, At(c, "save"),
         call'[c] \notin {None, call[c]}
  PROVE  /\ plans[call[c].id] \in Plan
         /\ plans'[call[c].id] = Patched(plans[call[c].id], call[c].patch)
<1>1. /\ PlanCacheTypeOK /\ CarriesPlan /\ UnderWay(c) /\ ~Idle(c)
      /\ call[c].step = "save"
  BY DEF PlanCacheInv, SerialInv, At
<1>2. call[c].id \in PlanIDs /\ call[c].patch \in Patches
  BY <1>1 DEF PlanCacheTypeOK, Call, Idle, CarriesPlan
<1>3. Begin(c) \/ Step(c)
  BY <1>1, OwnCallOnly DEF Next, vars, Tick, BecomeQuiet
<1>4. ~Begin(c)
  BY <1>1 DEF Begin, CreatePlan, GetPlanHit, GetPlanMiss, UpdatePlan, DeletePlan,
     MayBegin
<1>5. ~Fails(c)
  BY <1>1 DEF Fails, Return, PlanCacheTypeOK
<1>6. UpdateSave(c)
  BY <1>1, <1>3, <1>4, <1>5 DEF Step, Fill, Insert, ProviderUpdates, ProviderDeletes,
     Remove, ProviderRefuses, CacheSet, CacheDelete, At
<1>7. plans'[call[c].id] = call[c].plan
  BY <1>1, <1>2, <1>6 DEF UpdateSave, PlanCacheTypeOK
<1>8. plans[call[c].id] \in Plan
  BY <1>1, <1>2 DEF UnderWay, Stored, PlanCacheTypeOK
<1> QED BY <1>1, <1>7, <1>8 DEF UnderWay

\* Where calls on one plan do not overlap, UpdatePlan leaves the stored value of
\* every field that is nil in its input: what it read is what it overwrites.
THEOREM UpdateKeepsOtherFields == Spec => PatchKeepsOthers
<1>1. ASSUME PlanCacheInv, [Next]_vars, serial, NEW c \in Calls, At(c, "save"),
             call'[c] \notin {None, call[c]}, NEW f \in {"Name", "Limits"},
             call[c].patch[f] = None
      PROVE  plans'[call[c].id][f] = plans[call[c].id][f]
  BY <1>1, SavesPatched, PatchedKeeps
<1>2. PlanCacheInv /\ [Next]_vars =>
        [\A c \in Calls :
           /\ At(c, "save") /\ call'[c] \notin {None, call[c]}
           /\ serial
           => \A f \in {"Name", "Limits"} :
                call[c].patch[f] = None =>
                  plans'[call[c].id][f] = plans[call[c].id][f]]_vars
  BY <1>1
<1> QED BY <1>2, PlanCacheInvariant, PTL DEF Spec, PatchKeepsOthers

\* Where calls on one plan do not overlap, a plan that DeletePlan has removed is
\* never stored again: no call that read it before is still under way.
THEOREM DeletePlanIsFinal == Spec => DeletedIsFinal
<1>1. ASSUME PlanCacheInv, [Next]_vars, serial, NEW id \in PlanIDs, plans[id] = Deleted
      PROVE  plans'[id] = Deleted
  <2>1. PlanCacheTypeOK /\ CarriesPlan /\ \A c \in Calls : UnderWay(c)
    BY <1>1 DEF PlanCacheInv, SerialInv
  <2>2. ASSUME NEW c \in Calls, Insert(c) \/ UpdateSave(c) PROVE call[c].id # id
    BY <1>1, <2>1, <2>2, PlanCacheAssumption
    DEF Insert, UpdateSave, At, UnderWay, Stored
  <2>3. ASSUME NEW c \in Calls, Insert(c) \/ UpdateSave(c) PROVE plans'[id] = plans[id]
    BY <2>1, <2>2, <2>3 DEF Insert, UpdateSave, PlanCacheTypeOK
  <2>4. ASSUME NEW c \in Calls, Remove(c) PROVE plans'[id] = Deleted
    BY <1>1, <2>1, <2>4 DEF Remove, PlanCacheTypeOK
  <2>5. CASE UNCHANGED plans
    BY <1>1, <2>5
  <2> QED BY <1>1, <2>3, <2>4, <2>5 DEF Next, vars, Tick, BecomeQuiet, Begin, Step,
          CreatePlan, GetPlanHit, GetPlanMiss, UpdatePlan, DeletePlan, Fill,
          ProviderUpdates, ProviderDeletes, ProviderRefuses, Fails, CacheSet,
          CacheDelete
<1>2. PlanCacheInv /\ [Next]_vars =>
        [serial => \A id \in PlanIDs :
                     plans[id] = Deleted => plans'[id] = Deleted]_vars
  BY <1>1
<1> QED BY <1>2, PlanCacheInvariant, PTL DEF Spec, DeletedIsFinal
=============================================================================
