---------------------- MODULE ShardedSubscriptionStore ----------------------
(***************************************************************************)
(* store/memory/memory.go: ShardedSubscriptionStore.  The primary map is   *)
(* split into shards with a lock each, and the two indexes have a lock     *)
(* each, so that an operation is several critical sections.                *)
(*                                                                         *)
(* No operation but CreateSubscriptionIfNotActive holds a lock from one    *)
(* critical section to the next, so every critical section is one step and *)
(* only activeMu is a variable.  A shard's lock is never held across steps *)
(* and an operation touches one ID, hence subs is one map here as well.    *)
(* The index updates are those of SubscriptionStore.                       *)
(***************************************************************************)
EXTENDS SubscriptionStore

CONSTANTS
  Calls,        \* goroutines that use the store
  Inputs,       \* the records they write
  Serial,       \* no two writes of one subscription overlap
  Reactivates   \* SaveSubscription may make an inactive record active

VARIABLES
  call,     \* what each goroutine is doing, None when it is idle
  activeMu  \* the goroutine that holds activeMu, None when it is free

vars == <<subs, byProviderID, activeBySubscriber, call, activeMu>>

\* A call in progress: old is the record it replaced or removed, sub the one
\* it writes or has read, key what it looks up.
Call ==
  [op   : {"save", "delete", "create", "getActive", "getByProviderID"},
   step : {"pid", "active", "lock", "shard", "index", "read", "result"},
   old  : Subscription \cup {None},
   sub  : Subscription \cup {None},
   key  : SubIDs \cup ProviderIDs \cup Subscribers]

ASSUME ShardedAssumption ==
  /\ Inputs \subseteq Subscription
  /\ Serial \in BOOLEAN /\ Reactivates \in BOOLEAN
  /\ None \notin Call /\ None \notin Calls

ShardedTypeOK ==
  /\ StoreTypeOK
  /\ call \in [Calls -> Call \cup {None}]
  /\ activeMu \in Calls \cup {None}

Init ==
  /\ StoreInit
  /\ call = [c \in Calls |-> None]
  /\ activeMu = None

Idle(c) == call[c] = None

At(c, op, step) == ~Idle(c) /\ call[c].op = op /\ call[c].step = step

Goto(c, step) == call' = [call EXCEPT ![c].step = step]

Return(c) == call' = [call EXCEPT ![c] = None]

Writing(c) == ~Idle(c) /\ call[c].op \in {"save", "delete", "create"}

\* Some goroutine is writing subscription id.
Busy(id) == \E c \in Calls : Writing(c) /\ call[c].key = id

-----------------------------------------------------------------------------
(***************************************************************************)
(* What the callers keep to (Lifecycle shows it of the Manager): a record  *)
(* never changes its owner or its provider ID, and a new one has an ID and *)
(* a provider ID that nothing else uses.                                   *)
(***************************************************************************)
ProviderIDFree(sub) ==
  sub.ProviderID # None =>
    /\ \A id \in SubIDs : Exists(id) => subs[id].ProviderID # sub.ProviderID
    /\ \A c \in Calls : Writing(c) =>
         \A r \in {call[c].old, call[c].sub} \ {None} :
           r.ProviderID # sub.ProviderID

MayCreate(sub) == ~Exists(sub.ID) /\ ~Busy(sub.ID) /\ ProviderIDFree(sub)

MaySave(sub) ==
  /\ Serial => ~Busy(sub.ID)
  /\ ~Reactivates /\ isActiveStatus(sub.Status) => IsActive(sub.ID)
  /\ \/ Exists(sub.ID) /\ subs[sub.ID].SubscriberID = sub.SubscriberID
                       /\ subs[sub.ID].ProviderID = sub.ProviderID
     \/ MayCreate(sub)

-----------------------------------------------------------------------------
(***************************************************************************)
(* SaveSubscription: the shard, then one index after the other.            *)
(***************************************************************************)
SaveShard(c, sub) ==
  /\ Idle(c) /\ MaySave(sub)
  /\ subs' = [subs EXCEPT ![sub.ID] = sub]
  /\ call' = [call EXCEPT ![c] =
       [op |-> "save", step |-> "pid", old |-> subs[sub.ID], sub |-> sub,
        key |-> sub.ID]]
  /\ UNCHANGED <<byProviderID, activeBySubscriber, activeMu>>

SaveProviderID(c) ==
  /\ At(c, "save", "pid")
  /\ byProviderID' =
       ProviderIndexAfterSave(byProviderID, call[c].old, call[c].sub)
  /\ Goto(c, "active")
  /\ UNCHANGED <<subs, activeBySubscriber, activeMu>>

SaveActive(c) ==
  /\ At(c, "save", "active") /\ activeMu = None
  /\ activeBySubscriber' =
       ActiveIndexAfterSave(activeBySubscriber, call[c].old, call[c].sub)
  /\ Return(c)
  /\ UNCHANGED <<subs, byProviderID, activeMu>>

(***************************************************************************)
(* DeleteSubscription: likewise.  *ErrNotFound changes nothing.            *)
(***************************************************************************)
DeleteShard(c, id) ==
  /\ Idle(c) /\ Exists(id)
  /\ Serial => ~Busy(id)
  /\ subs' = [subs EXCEPT ![id] = None]
  /\ call' = [call EXCEPT ![c] =
       [op |-> "delete", step |-> "pid", old |-> subs[id], sub |-> None,
        key |-> id]]
  /\ UNCHANGED <<byProviderID, activeBySubscriber, activeMu>>

DeleteProviderID(c) ==
  /\ At(c, "delete", "pid")
  /\ byProviderID' = EvictProviderID(byProviderID, call[c].old)
  /\ Goto(c, "active")
  /\ UNCHANGED <<subs, activeBySubscriber, activeMu>>

DeleteActive(c) ==
  /\ At(c, "delete", "active") /\ activeMu = None
  /\ activeBySubscriber' =
       EvictActive(activeBySubscriber, call[c].old.SubscriberID, call[c].key)
  /\ Return(c)
  /\ UNCHANGED <<subs, byProviderID, activeMu>>

(***************************************************************************)
(* CreateSubscriptionIfNotActive: all of it under activeMu.                *)
(***************************************************************************)
CreateBegin(c, sub) ==
  /\ Idle(c) /\ MayCreate(sub)
  /\ call' = [call EXCEPT ![c] =
       [op |-> "create", step |-> "lock", old |-> None, sub |-> sub,
        key |-> sub.ID]]
  /\ UNCHANGED <<storeVars, activeMu>>

\* The early return on a conflict leaves activeMu locked.
CreateCheck_KeepsLock(c) ==
  /\ At(c, "create", "lock") /\ activeMu = None
  /\ activeMu' = c
  /\ \/ ActiveConflict(call[c].sub) /\ Return(c)
     \/ ~ActiveConflict(call[c].sub) /\ Goto(c, "shard")
  /\ UNCHANGED storeVars

\* The lock is released after the check and taken again for the insert.
CreateCheck_Unlocks(c) ==
  /\ At(c, "create", "lock") /\ activeMu = None
  /\ \/ ActiveConflict(call[c].sub) /\ Return(c)
     \/ ~ActiveConflict(call[c].sub) /\ Goto(c, "shard")
  /\ UNCHANGED <<storeVars, activeMu>>

CreateCheck(c) ==
  /\ At(c, "create", "lock") /\ activeMu = None
  /\ \/ ActiveConflict(call[c].sub) /\ Return(c) /\ UNCHANGED activeMu
     \/ ~ActiveConflict(call[c].sub) /\ Goto(c, "shard") /\ activeMu' = c
  /\ UNCHANGED storeVars

CreateShard(c) ==
  /\ At(c, "create", "shard")
  /\ subs' = [subs EXCEPT ![call[c].key] = call[c].sub]
  /\ Goto(c, "pid")
  /\ UNCHANGED <<byProviderID, activeBySubscriber, activeMu>>

CreateProviderID(c) ==
  /\ At(c, "create", "pid")
  /\ byProviderID' = AddProviderID(byProviderID, call[c].sub)
  /\ Goto(c, "active")
  /\ UNCHANGED <<subs, activeBySubscriber, activeMu>>

CreateActive(c) ==
  /\ At(c, "create", "active")
  /\ activeBySubscriber' = AddActive(activeBySubscriber, call[c].sub)
  /\ activeMu' = None
  /\ Return(c)
  /\ UNCHANGED <<subs, byProviderID>>

-----------------------------------------------------------------------------
(***************************************************************************)
(* GetActiveSubscription and GetSubscriptionByProviderID: the index under  *)
(* its lock, then the record under the shard's, then the answer.           *)
(***************************************************************************)
GetBegin(c, op, key) ==
  /\ Idle(c)
  /\ call' = [call EXCEPT ![c] =
       [op |-> op, step |-> "index", old |-> None, sub |-> None, key |-> key]]
  /\ UNCHANGED <<storeVars, activeMu>>

\* A missing entry is *ErrNotFound; otherwise key becomes the ID found.
Found(c, id) ==
  \/ id = None /\ Return(c)
  \/ id # None /\ call' = [call EXCEPT ![c] = [@ EXCEPT !.step = "read", !.key = id]]

ReadIndex(c) ==
  /\ \/ /\ At(c, "getActive", "index") /\ activeMu = None
        /\ Found(c, activeBySubscriber[call[c].key])
     \/ /\ At(c, "getByProviderID", "index")
        /\ Found(c, byProviderID[call[c].key])
  /\ UNCHANGED <<storeVars, activeMu>>

ReadShard(c) ==
  /\ ~Idle(c) /\ call[c].step = "read"
  /\ call' = [call EXCEPT ![c] =
                [@ EXCEPT !.step = "result", !.sub = subs[call[c].key]]]
  /\ UNCHANGED <<storeVars, activeMu>>

GetReturn(c) ==
  /\ ~Idle(c) /\ call[c].step = "result"
  /\ Return(c)
  /\ UNCHANGED <<storeVars, activeMu>>

-----------------------------------------------------------------------------
Begin(c) ==
  \/ \E sub \in Inputs : SaveShard(c, sub) \/ CreateBegin(c, sub)
  \/ \E id \in SubIDs : DeleteShard(c, id)
  \/ \E u \in Subscribers : GetBegin(c, "getActive", u)
  \/ \E pid \in ProviderIDs : GetBegin(c, "getByProviderID", pid)

\* The critical sections of activeMu.
LockActive(c) ==
  \/ SaveActive(c)
  \/ DeleteActive(c)
  \/ CreateCheck(c)

Step(c) ==
  \/ LockActive(c)
  \/ SaveProviderID(c)
  \/ DeleteProviderID(c)
  \/ CreateShard(c)
  \/ CreateProviderID(c)
  \/ CreateActive(c)
  \/ ReadIndex(c)
  \/ ReadShard(c)
  \/ GetReturn(c)

Next == \E c \in Calls : Begin(c) \/ Step(c)

\* A goroutine that can go on is scheduled, and sync.RWMutex gives the lock to
\* every waiting goroutine in the end.
Fairness ==
  \A c \in Calls :
    WF_vars(Step(c)) /\ SF_vars(LockActive(c)) /\ SF_vars(ReadIndex(c))

Spec == Init /\ [][Next]_vars

FairSpec == Spec /\ Fairness

-----------------------------------------------------------------------------
(***************************************************************************)
(* Properties.                                                             *)
(***************************************************************************)
\* When nobody writes subscription id, both indexes say about it what its
\* record says, whatever is going on with other subscriptions.
IndexesSettled ==
  \A id \in SubIDs : ~Busy(id) =>
    /\ \A pid \in ProviderIDs :
         byProviderID[pid] = id <=> Exists(id) /\ subs[id].ProviderID = pid
    /\ \A u \in Subscribers :
         activeBySubscriber[u] = id <=>
           IsActive(id) /\ subs[id].SubscriberID = u

(***************************************************************************)
(* The single-lock store whose indexes follow the primary map at once.     *)
(***************************************************************************)
TheOneWith(P(_)) == IF \E id \in SubIDs : P(id)
                    THEN CHOOSE id \in SubIDs : P(id) ELSE None

ProviderIndexOf ==
  [pid \in ProviderIDs |->
     TheOneWith(LAMBDA id : Exists(id) /\ subs[id].ProviderID = pid)]

ActiveIndexOf ==
  [u \in Subscribers |->
     TheOneWith(LAMBDA id : IsActive(id) /\ subs[id].SubscriberID = u)]

Locked == INSTANCE SubscriptionStore
            WITH byProviderID <- ProviderIndexOf,
                 activeBySubscriber <- ActiveIndexOf

\* For such callers the sharded store implements SubscriptionStore: an
\* operation takes effect when its shard is written, and a creation only if
\* the subscriber has no active subscription at that moment.
ImplementsLocked == Locked!ExclusiveSpec

\* At rest the two unconditional index invariants of SubscriptionStore hold:
\* "Index invariants are identical to SubscriptionStore" (memory.go).
SettledAsLocked ==
  (\A c \in Calls : Idle(c)) => ProviderIndexExact /\ ActiveIndexSound

\* Every operation returns: activeMu is always released, and the other locks
\* are taken under it in one order only.
EveryCallReturns == \A c \in Calls : ~Idle(c) ~> Idle(c)
=============================================================================
