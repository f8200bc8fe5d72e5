------------------- MODULE ShardedSubscriptionStoreProofs -------------------
(***************************************************************************)
(* Theorems about ShardedSubscriptionStore, for any number of goroutines   *)
(* and IDs: its types whatever calls overlap, and, where no two writes of  *)
(* one subscription overlap and no save reactivates a record, that its     *)
(* indexes settle and that it implements SubscriptionStore.                *)
(***************************************************************************)
EXTENDS ShardedSubscriptionStore, TLAPS

\* The record of a call fits its operation and step.
CallTyped(c) ==
  LET r == call[c] IN
  ~Idle(c) =>
    /\ r.op = "save" => /\ r.step \in {"pid", "active"}
                        /\ r.sub \in Subscription /\ r.key = r.sub.ID
    /\ r.op = "delete" => /\ r.step \in {"pid", "active"}
                          /\ r.old \in Subscription /\ r.sub = None
                          /\ r.key \in SubIDs
    /\ r.op = "create" => /\ r.step \in {"lock", "shard", "pid", "active"}
                          /\ r.old = None
                          /\ r.sub \in Subscription /\ r.key = r.sub.ID
    /\ r.op \in {"getActive", "getByProviderID"} =>
         r.step \in {"index", "read", "result"}
    /\ r.op = "getActive" /\ r.step = "index" => r.key \in Subscribers
    /\ r.op = "getByProviderID" /\ r.step = "index" => r.key \in ProviderIDs
    /\ r.step = "read" => r.key \in SubIDs

TypeInv == ShardedTypeOK /\ \A c \in Calls : CallTyped(c)

-----------------------------------------------------------------------------
(***************************************************************************)
(* The invariant for callers whose writes of one subscription do not       *)
(* overlap.  A writer brings the two indexes up to date one after the      *)
(* other; until then each still says what the record said that the writer  *)
(* replaced.                                                               *)
(***************************************************************************)
\* byProviderID says about a subscription what this record says.
Says(id, rec) ==
  \A pid \in ProviderIDs :
    byProviderID[pid] = id <=> rec # None /\ rec.ProviderID = pid

\* activeBySubscriber says about a subscription what this record says.
SaysActive(id, rec) ==
  \A u \in Subscribers :
    activeBySubscriber[u] = id <=>
      rec # None /\ isActiveStatus(rec.Status) /\ rec.SubscriberID = u

Settled(id) == Says(id, subs[id]) /\ SaysActive(id, subs[id])

\* Where the primary map, the indexes and the lock are while c writes.
WriterInv(c) ==
  LET r == call[c] IN
  Writing(c) =>
    /\ r.op = "save" =>
         /\ subs[r.key] = r.sub
         /\ r.old # None => /\ r.old.SubscriberID = r.sub.SubscriberID
                            /\ r.old.ProviderID = r.sub.ProviderID
         /\ isActiveStatus(r.sub.Status) => r.old # None /\ isActiveStatus(r.old.Status)
    /\ r.op = "delete" => subs[r.key] = None
    /\ r.op = "create" =>
         /\ r.step \in {"lock", "shard"} => subs[r.key] = None
         /\ r.step \in {"pid", "active"} => subs[r.key] = r.sub
         /\ r.step # "lock" =>
              activeMu = c /\ activeBySubscriber[r.sub.SubscriberID] = None
    /\ r.step = "active" => Says(r.key, r.sub)
    /\ r.step # "active" => Says(r.key, r.old)
    /\ SaysActive(r.key, r.old)

Apart ==
  \A c, d \in Calls : Writing(c) /\ Writing(d) /\ call[c].key = call[d].key => c = d

\* Subscription id is or was stored with this provider ID, or is about to be.
Holds(id, pid) ==
  \/ Exists(id) /\ subs[id].ProviderID = pid
  \/ \E c \in Calls :
       /\ Writing(c) /\ call[c].key = id
       /\ \/ call[c].old # None /\ call[c].old.ProviderID = pid
          \/ call[c].sub # None /\ call[c].sub.ProviderID = pid

Unshared ==
  \A pid \in ProviderIDs, i, j \in SubIDs : Holds(i, pid) /\ Holds(j, pid) => i = j

SerialInv ==
  /\ Apart
  /\ Unshared
  /\ \A c \in Calls : WriterInv(c)
  /\ \A id \in SubIDs : ~Busy(id) => Settled(id)

\* IndexesSettled in these terms.
LEMMA SettledMeaning ==
  IndexesSettled <=> \A id \in SubIDs : ~Busy(id) => Settled(id)
BY DEF IndexesSettled, Settled, Says, SaysActive, Exists, IsActive

-----------------------------------------------------------------------------
(***************************************************************************)
(* Types.                                                                  *)
(***************************************************************************)
LEMMA ProviderIndexType ==
  ASSUME NEW index \in [ProviderIDs -> SubIDs \cup {None}],
         NEW old \in Subscription \cup {None}, NEW sub \in Subscription
  PROVE  /\ EvictProviderID(index, old) \in [ProviderIDs -> SubIDs \cup {None}]
         /\ AddProviderID(index, sub) \in [ProviderIDs -> SubIDs \cup {None}]
         /\ ProviderIndexAfterSave(index, old, sub)
              \in [ProviderIDs -> SubIDs \cup {None}]
BY DEF ProviderIndexAfterSave, EvictProviderID, AddProviderID, Subscription

LEMMA ActiveIndexType ==
  ASSUME NEW index \in [Subscribers -> SubIDs \cup {None}],
         NEW old \in Subscription \cup {None}, NEW sub \in Subscription
  PROVE  /\ \A u, id : EvictActive(index, u, id) \in [Subscribers -> SubIDs \cup {None}]
         /\ AddActive(index, sub) \in [Subscribers -> SubIDs \cup {None}]
         /\ ActiveIndexAfterSave(index, old, sub)
              \in [Subscribers -> SubIDs \cup {None}]
BY DEF ActiveIndexAfterSave, EvictActive, AddActive, Subscription

\* A call begins.
LEMMA NewCall ==
  ASSUME TypeInv, NEW c \in Calls,
         NEW op \in {"save", "delete", "create", "getActive", "getByProviderID"},
         NEW step \in {"pid", "active", "lock", "shard", "index", "read", "result"},
         NEW old \in Subscription \cup {None}, NEW sub \in Subscription \cup {None},
         NEW key \in SubIDs \cup ProviderIDs \cup Subscribers,
         call' = [call EXCEPT ![c] =
           [op |-> op, step |-> step, old |-> old, sub |-> sub, key |-> key]]
  PROVE  /\ call' \in [Calls -> Call \cup {None}] /\ call'[c] # None
         /\ call'[c].op = op /\ call'[c].step = step /\ call'[c].old = old
         /\ call'[c].sub = sub /\ call'[c].key = key
         /\ \A d \in Calls \ {c} : call'[d] = call[d]
<1> DEFINE r == [op |-> op, step |-> step, old |-> old, sub |-> sub, key |-> key]
<1>1. r \in Call /\ r # None
  BY ShardedAssumption DEF Call
<1>2. call \in [Calls -> Call \cup {None}]
  BY DEF TypeInv, ShardedTypeOK
<1>3. call'[c] = r /\ \A d \in Calls \ {c} : call'[d] = call[d]
  BY <1>2
<1>4. call' \in [Calls -> Call \cup {None}]
  BY <1>1, <1>2
<1> QED BY <1>1, <1>3, <1>4

\* A call goes to its next step.
LEMMA GotoCall ==
  ASSUME TypeInv, NEW c \in Calls, ~Idle(c),
         NEW step \in {"pid", "active", "lock", "shard", "index", "read", "result"},
         Goto(c, step)
  PROVE  /\ call' \in [Calls -> Call \cup {None}] /\ call'[c] # None
         /\ call'[c].op = call[c].op /\ call'[c].step = step
         /\ call'[c].old = call[c].old
         /\ call'[c].sub = call[c].sub /\ call'[c].key = call[c].key
         /\ \A d \in Calls \ {c} : call'[d] = call[d]
<1>1. call \in [Calls -> Call \cup {None}] /\ call[c] \in Call
  BY DEF TypeInv, ShardedTypeOK, Idle
<1>2. PICK r \in Call : r = call[c]
  BY <1>1
<1> DEFINE r2 == [r EXCEPT !.step = step]
<1>3. /\ r2 \in Call /\ r2.op = r.op /\ r2.step = step /\ r2.old = r.old
      /\ r2.sub = r.sub /\ r2.key = r.key
  BY DEF Call
<1>4. call' = [call EXCEPT ![c] = r2]
  BY <1>1, <1>2 DEF Goto
<1> HIDE DEF r2
<1>5. call'[c] = r2 /\ \A d \in Calls \ {c} : call'[d] = call[d]
  BY <1>1, <1>4
<1>6. call' \in [Calls -> Call \cup {None}]
  BY <1>1, <1>3, <1>4
<1> QED BY <1>2, <1>3, <1>5, <1>6, ShardedAssumption

\* A call returns.
LEMMA ReturnCall ==
  ASSUME TypeInv, NEW c \in Calls, Return(c)
  PROVE  /\ call' \in [Calls -> Call \cup {None}] /\ call'[c] = None
         /\ \A d \in Calls \ {c} : call'[d] = call[d]
BY DEF TypeInv, ShardedTypeOK, Return

\* The other calls keep their types.
LEMMA OwnCallType ==
  ASSUME TypeInv, NEW c \in Calls, call' \in [Calls -> Call \cup {None}],
         \A d \in Calls \ {c} : call'[d] = call[d], CallTyped(c)', StoreTypeOK',
         activeMu' \in Calls \cup {None}
  PROVE  TypeInv'
<1>1. ASSUME NEW d \in Calls PROVE CallTyped(d)'
  <2>1. CASE d = c
    BY <2>1
  <2>2. CASE d # c
    BY <2>2 DEF TypeInv, CallTyped, Idle
  <2> QED BY <2>1, <2>2
<1> QED BY <1>1 DEF TypeInv, ShardedTypeOK

\* The first steps of the three operations that write.
LEMMA SaveBegins ==
  ASSUME TypeInv, NEW c \in Calls, NEW sub \in Inputs, SaveShard(c, sub)
  PROVE  /\ sub \in Subscription /\ sub.ID \in SubIDs
         /\ call' \in [Calls -> Call \cup {None}] /\ call'[c] # None
         /\ call'[c].op = "save" /\ call'[c].step = "pid"
         /\ call'[c].old = subs[sub.ID]
         /\ call'[c].sub = sub /\ call'[c].key = sub.ID
         /\ \A d \in Calls \ {c} : call'[d] = call[d]
<1>1. sub \in Subscription /\ sub.ID \in SubIDs
  BY ShardedAssumption DEF Subscription
<1>2. PICK old \in Subscription \cup {None} : old = subs[sub.ID]
  BY <1>1 DEF TypeInv, ShardedTypeOK, StoreTypeOK
<1>3. PICK key \in SubIDs : key = sub.ID
  BY <1>1
<1>4. call' = [call EXCEPT ![c] = [op |-> "save", step |-> "pid",
                 old |-> old, sub |-> sub, key |-> key]]
  BY <1>2, <1>3 DEF SaveShard
<1>5. /\ call' \in [Calls -> Call \cup {None}] /\ call'[c] # None
      /\ call'[c].op = "save" /\ call'[c].step = "pid" /\ call'[c].old = old
      /\ call'[c].sub = sub /\ call'[c].key = key
      /\ \A d \in Calls \ {c} : call'[d] = call[d]
  BY <1>1, <1>4, NewCall
<1> QED BY <1>1, <1>2, <1>3, <1>5

LEMMA CreateBegins ==
  ASSUME TypeInv, NEW c \in Calls, NEW sub \in Inputs, CreateBegin(c, sub)
  PROVE  /\ sub \in Subscription /\ sub.ID \in SubIDs
         /\ call' \in [Calls -> Call \cup {None}] /\ call'[c] # None
         /\ call'[c].op = "create" /\ call'[c].step = "lock"
         /\ call'[c].old = None
         /\ call'[c].sub = sub /\ call'[c].key = sub.ID
         /\ \A d \in Calls \ {c} : call'[d] = call[d]
<1>1. sub \in Subscription /\ sub.ID \in SubIDs
  BY ShardedAssumption DEF Subscription
<1>2. PICK key \in SubIDs : key = sub.ID
  BY <1>1
<1>3. /\ call' \in [Calls -> Call \cup {None}] /\ call'[c] # None
      /\ call'[c].op = "create" /\ call'[c].step = "lock" /\ call'[c].old = None
      /\ call'[c].sub = sub /\ call'[c].key = key
      /\ \A d \in Calls \ {c} : call'[d] = call[d]
  BY <1>1, <1>2, NewCall DEF CreateBegin
<1> QED BY <1>1, <1>2, <1>3

LEMMA DeleteBegins ==
  ASSUME TypeInv, NEW c \in Calls, NEW id \in SubIDs, DeleteShard(c, id)
  PROVE  /\ subs[id] \in Subscription
         /\ call' \in [Calls -> Call \cup {None}] /\ call'[c] # None
         /\ call'[c].op = "delete" /\ call'[c].step = "pid"
         /\ call'[c].old = subs[id]
         /\ call'[c].sub = None /\ call'[c].key = id
         /\ \A d \in Calls \ {c} : call'[d] = call[d]
<1>1. subs[id] \in Subscription
  BY DEF DeleteShard, TypeInv, ShardedTypeOK, StoreTypeOK, Exists
<1>2. PICK old \in Subscription : old = subs[id]
  BY <1>1
<1>3. /\ call' \in [Calls -> Call \cup {None}] /\ call'[c] # None
      /\ call'[c].op = "delete" /\ call'[c].step = "pid" /\ call'[c].old = old
      /\ call'[c].sub = None /\ call'[c].key = id
      /\ \A d \in Calls \ {c} : call'[d] = call[d]
  BY ZenonT(60), <1>2, NewCall DEF DeleteShard
<1> QED BY <1>1, <1>2, <1>3

\* The first step of a call.
LEMMA BeginType ==
  ASSUME TypeInv, NEW c \in Calls, Begin(c)
  PROVE  TypeInv'
<1>1. StoreTypeOK /\ activeMu \in Calls \cup {None}
  BY DEF TypeInv, ShardedTypeOK
<1>2. ASSUME NEW sub \in Inputs, SaveShard(c, sub) PROVE TypeInv'
  <2>1. CallTyped(c)'
    BY <1>2, SaveBegins DEF CallTyped
  <2>2. StoreTypeOK' /\ activeMu' = activeMu
    BY <1>1, <1>2, SaveBegins DEF SaveShard, StoreTypeOK
  <2> QED BY <1>1, <1>2, <2>1, <2>2, SaveBegins, OwnCallType
<1>3. ASSUME NEW sub \in Inputs, CreateBegin(c, sub) PROVE TypeInv'
  <2>1. CallTyped(c)'
    BY <1>3, CreateBegins DEF CallTyped
  <2>2. StoreTypeOK' /\ activeMu' = activeMu
    BY <1>1, <1>3 DEF CreateBegin, StoreTypeOK, storeVars
  <2> QED BY <1>1, <1>3, <2>1, <2>2, CreateBegins, OwnCallType
<1>4. ASSUME NEW id \in SubIDs, DeleteShard(c, id) PROVE TypeInv'
  <2>1. CallTyped(c)'
    BY <1>4, DeleteBegins DEF CallTyped
  <2>2. StoreTypeOK' /\ activeMu' = activeMu
    BY <1>1, <1>4 DEF DeleteShard, StoreTypeOK
  <2> QED BY <1>1, <1>4, <2>1, <2>2, DeleteBegins, OwnCallType
<1>5. ASSUME NEW op \in {"getActive", "getByProviderID"},
             NEW key \in ProviderIDs \cup Subscribers,
             op = "getActive" => key \in Subscribers,
             op = "getByProviderID" => key \in ProviderIDs,
             GetBegin(c, op, key)
      PROVE  TypeInv'
  <2>1. /\ call' \in [Calls -> Call \cup {None}] /\ call'[c] # None
        /\ call'[c].op = op /\ call'[c].step = "index" /\ call'[c].key = key
        /\ \A d \in Calls \ {c} : call'[d] = call[d]
    BY ZenonT(60), <1>5, NewCall DEF GetBegin
  <2>2. CallTyped(c)'
    BY <1>5, <2>1 DEF CallTyped
  <2>3. StoreTypeOK' /\ activeMu' = activeMu
    BY <1>1, <1>5 DEF GetBegin, StoreTypeOK, storeVars
  <2> QED BY <1>1, <2>1, <2>2, <2>3, OwnCallType
<1> QED BY <1>2, <1>3, <1>4, <1>5 DEF Begin

\* The steps of SaveSubscription, DeleteSubscription and
\* CreateSubscriptionIfNotActive.
LEMMA WriteType ==
  ASSUME TypeInv, NEW c \in Calls,
         \/ LockActive(c) \/ SaveProviderID(c) \/ DeleteProviderID(c)
         \/ CreateShard(c) \/ CreateProviderID(c) \/ CreateActive(c)
  PROVE  TypeInv'
<1>1. /\ StoreTypeOK /\ activeMu \in Calls \cup {None} /\ CallTyped(c)
      /\ call \in [Calls -> Call \cup {None}]
  BY DEF TypeInv, ShardedTypeOK
<1>2. ~Idle(c) /\ call[c].op \in {"save", "delete", "create"}
  BY DEF LockActive, SaveActive, DeleteActive, CreateCheck, SaveProviderID,
     DeleteProviderID, CreateShard, CreateProviderID, CreateActive, At
<1>3. PICK old \in Subscription \cup {None} : old = call[c].old
  BY <1>1, <1>2 DEF Idle, Call
<1>4. StoreTypeOK' /\ activeMu' \in Calls \cup {None}
  <2>1. CASE SaveProviderID(c) \/ SaveActive(c)
    <3>1. PICK sub \in Subscription : sub = call[c].sub
      BY <1>1, <1>2, <2>1 DEF SaveProviderID, SaveActive, At, CallTyped
    <3>2. CASE SaveProviderID(c)
      <4>1. ProviderIndexAfterSave(byProviderID, old, sub)
              \in [ProviderIDs -> SubIDs \cup {None}]
        BY <1>1, ProviderIndexType DEF StoreTypeOK
      <4> QED BY <1>1, <1>3, <3>1, <3>2, <4>1 DEF SaveProviderID, StoreTypeOK
    <3>3. CASE SaveActive(c)
      <4>1. ActiveIndexAfterSave(activeBySubscriber, old, sub)
              \in [Subscribers -> SubIDs \cup {None}]
        BY <1>1, ActiveIndexType DEF StoreTypeOK
      <4> QED BY <1>1, <1>3, <3>1, <3>3, <4>1 DEF SaveActive, StoreTypeOK
    <3> QED BY <2>1, <3>2, <3>3
  <2>2. CASE DeleteProviderID(c)
    BY <1>1, <1>3, <2>2, NoneAssumption
    DEF DeleteProviderID, StoreTypeOK, EvictProviderID, Subscription
  <2>3. CASE DeleteActive(c)
    BY <1>1, <2>3 DEF DeleteActive, StoreTypeOK, EvictActive
  <2>4. CASE CreateCheck(c)
    BY <1>1, <2>4 DEF CreateCheck, StoreTypeOK, storeVars
  <2>5. CASE CreateShard(c) \/ CreateProviderID(c) \/ CreateActive(c)
    <3>1. PICK sub \in Subscription : sub = call[c].sub
      BY <1>1, <1>2, <2>5 DEF CreateShard, CreateProviderID, CreateActive, At, CallTyped
    <3> QED BY <1>1, <1>3, <2>5, <3>1, ProviderIndexType, ActiveIndexType
            DEF CreateShard, CreateProviderID, CreateActive, StoreTypeOK
  <2> QED BY <2>1, <2>2, <2>3, <2>4, <2>5 DEF LockActive
<1>5. CASE Return(c)
  <2>1. /\ call' \in [Calls -> Call \cup {None}] /\ call'[c] = None
        /\ \A d \in Calls \ {c} : call'[d] = call[d]
    BY <1>5, ReturnCall
  <2>2. CallTyped(c)'
    BY <2>1 DEF CallTyped, Idle
  <2> QED BY <1>4, <2>1, <2>2, OwnCallType
<1>6. ASSUME NEW step \in {"pid", "active", "shard"},
             call[c].op = "create" \/ step = "active", Goto(c, step)
      PROVE  TypeInv'
  <2>1. /\ call' \in [Calls -> Call \cup {None}] /\ call'[c] # None
        /\ call'[c].op = call[c].op /\ call'[c].step = step
        /\ call'[c].old = call[c].old
        /\ call'[c].sub = call[c].sub /\ call'[c].key = call[c].key
        /\ \A d \in Calls \ {c} : call'[d] = call[d]
    BY <1>2, <1>6, GotoCall
  <2>2. CallTyped(c)'
    BY <1>1, <1>2, <1>6, <2>1 DEF CallTyped
  <2> QED BY <1>4, <2>1, <2>2, OwnCallType
<1> QED BY <1>5, <1>6 DEF LockActive, SaveActive, DeleteActive, CreateCheck,
        SaveProviderID, DeleteProviderID, CreateShard, CreateProviderID, CreateActive, At

\* The steps of the read operations.
LEMMA ReadType ==
  ASSUME TypeInv, NEW c \in Calls, ReadIndex(c) \/ ReadShard(c) \/ GetReturn(c)
  PROVE  TypeInv'
<1>1. /\ StoreTypeOK /\ activeMu \in Calls \cup {None} /\ CallTyped(c)
      /\ call \in [Calls -> Call \cup {None}]
  BY DEF TypeInv, ShardedTypeOK
<1>2. ~Idle(c) /\ UNCHANGED <<storeVars, activeMu>>
  BY DEF ReadIndex, ReadShard, GetReturn, At
<1>3. StoreTypeOK' /\ activeMu' \in Calls \cup {None}
  BY <1>1, <1>2 DEF StoreTypeOK, storeVars
<1>4. CASE Return(c)
  <2>1. /\ call' \in [Calls -> Call \cup {None}] /\ call'[c] = None
        /\ \A d \in Calls \ {c} : call'[d] = call[d]
    BY <1>4, ReturnCall
  <2>2. CallTyped(c)'
    BY <2>1 DEF CallTyped, Idle
  <2> QED BY <1>3, <2>1, <2>2, OwnCallType
<1>5. PICK r \in Call : r = call[c]
  BY <1>1, <1>2 DEF Idle
<1>6. ASSUME NEW id \in SubIDs, r.op \in {"getActive", "getByProviderID"},
             call' = [call EXCEPT ![c] = [r EXCEPT !.step = "read", !.key = id]]
      PROVE  TypeInv'
  <2> DEFINE r2 == [r EXCEPT !.step = "read", !.key = id]
  <2>1. r2 \in Call /\ r2.op = r.op /\ r2.step = "read" /\ r2.key = id
    BY DEF Call
  <2> HIDE DEF r2
  <2>2. /\ call' \in [Calls -> Call \cup {None}] /\ call'[c] = r2
        /\ \A d \in Calls \ {c} : call'[d] = call[d]
    BY <1>1, <1>6, <2>1 DEF r2
  <2>3. CallTyped(c)'
    BY <1>6, <2>1, <2>2 DEF CallTyped
  <2> QED BY <1>3, <2>2, <2>3, OwnCallType
<1>7. CASE ReadIndex(c)
  <2>1. r.op \in {"getActive", "getByProviderID"}
    BY <1>5, <1>7 DEF ReadIndex, At
  <2>2. r.op = "getActive" => activeBySubscriber[r.key] \in SubIDs \cup {None}
    BY <1>1, <1>2, <1>5, <1>7 DEF ReadIndex, At, CallTyped, StoreTypeOK
  <2>3. r.op = "getByProviderID" => byProviderID[r.key] \in SubIDs \cup {None}
    BY <1>1, <1>2, <1>5, <1>7 DEF ReadIndex, At, CallTyped, StoreTypeOK
  <2>4. PICK id \in SubIDs \cup {None} : Found(c, id)
    BY <1>5, <1>7, <2>1, <2>2, <2>3 DEF ReadIndex, At
  <2> QED BY <1>4, <1>5, <1>6, <2>1, <2>4 DEF Found
<1>8. CASE ReadShard(c)
  <2>1. PICK sub \in Subscription \cup {None} : sub = subs[r.key]
    BY <1>1, <1>2, <1>5, <1>8 DEF ReadShard, CallTyped, StoreTypeOK
  <2> DEFINE r2 == [r EXCEPT !.step = "result", !.sub = sub]
  <2>2. r2 \in Call /\ r2.op = r.op /\ r2.step = "result"
    BY DEF Call
  <2>3. r.op \in {"getActive", "getByProviderID"}
    BY <1>1, <1>2, <1>5, <1>8 DEF ReadShard, CallTyped, Call
  <2>4. call' = [call EXCEPT ![c] = r2]
    BY <1>5, <1>8, <2>1 DEF ReadShard
  <2> HIDE DEF r2
  <2>5. /\ call' \in [Calls -> Call \cup {None}] /\ call'[c] = r2
        /\ \A d \in Calls \ {c} : call'[d] = call[d]
    BY <1>1, <2>2, <2>4
  <2>6. CallTyped(c)'
    BY <2>2, <2>3, <2>5 DEF CallTyped
  <2> QED BY <1>3, <2>5, <2>6, OwnCallType
<1> QED BY <1>4, <1>7, <1>8 DEF GetReturn

LEMMA TypeInvStep ==
  ASSUME TypeInv, [Next]_vars
  PROVE  TypeInv'
<1>1. CASE UNCHANGED vars
  BY <1>1 DEF vars, TypeInv, ShardedTypeOK, StoreTypeOK, CallTyped, Idle
<1> QED BY <1>1, BeginType, WriteType, ReadType DEF Next, Step

LEMMA TypeInvInit ==
  ASSUME Init
  PROVE  TypeInv
BY DEF Init, StoreInit, TypeInv, ShardedTypeOK, StoreTypeOK, CallTyped, Idle

\* Whatever writes overlap, the maps, the calls and the lock of the sharded
\* store stay well typed: an index never names anything but a subscription.
THEOREM ShardedTypes == Spec => []ShardedTypeOK
<1>1. TypeInv => ShardedTypeOK
  BY DEF TypeInv
<1> QED BY <1>1, TypeInvInit, TypeInvStep, PTL DEF Spec

-----------------------------------------------------------------------------
(***************************************************************************)
(* A step of one call disturbs no other subscription.                      *)
(***************************************************************************)
\* Goroutine c works on subscription id and nobody else does.
Owns(c, id) ==
  \/ ~Writing(c) /\ ~Busy(id)
  \/ Writing(c) /\ call[c].key = id

\* A step of c leaves the other calls alone, and writes nothing about other
\* subscriptions than id.
OthersKept(c, id) ==
  /\ \A d \in Calls \ {c} : call'[d] = call[d]
  /\ \A o \in SubIDs \ {id} : subs'[o] = subs[o]
  /\ \A o \in SubIDs \ {id} : \A pid \in ProviderIDs :
       byProviderID'[pid] = o <=> byProviderID[pid] = o
  /\ \A o \in SubIDs \ {id} : \A u \in Subscribers :
       activeBySubscriber'[u] = o <=> activeBySubscriber[u] = o

\* What the step needs of activeMu if it writes the index of active ones.
LockRespected(c) ==
  \/ activeMu' = activeMu /\ activeBySubscriber' = activeBySubscriber
  \/ activeMu \in {None, c}

\* Two records of id agree on its provider ID, or the new one's is unused.
HoldsNothingNew(id) ==
  \A pid \in ProviderIDs :
    Holds(id, pid)' => Holds(id, pid) \/ \A o \in SubIDs : ~Holds(o, pid)

\* The ID that a write is about.
LEMMA WriterKey ==
  ASSUME TypeInv, NEW c \in Calls, Writing(c)
  PROVE  call[c].key \in SubIDs
BY DEF TypeInv, CallTyped, Writing, Subscription

LEMMA OthersNotOnID ==
  ASSUME SerialInv, NEW c \in Calls, NEW id \in SubIDs, Owns(c, id),
         NEW d \in Calls \ {c}, Writing(d)
  PROVE  call[d].key # id
BY DEF SerialInv, Apart, Owns, Busy

\* The other subscriptions hold the provider IDs they held.
LEMMA OthersHold ==
  ASSUME NEW c \in Calls, NEW id \in SubIDs, Owns(c, id), OthersKept(c, id),
         Writing(c)' => call'[c].key = id, NEW o \in SubIDs \ {id}, NEW pid
  PROVE  Holds(o, pid)' <=> Holds(o, pid)
<1>1. subs'[o] = subs[o]
  BY DEF OthersKept
<1>2. ASSUME NEW d \in Calls
      PROVE  /\ (Writing(d) /\ call[d].key = o)' <=> Writing(d) /\ call[d].key = o
             /\ (Writing(d) /\ call[d].key = o)' => call'[d] = call[d]
  <2>1. CASE d = c
    BY <2>1 DEF Owns
  <2>2. CASE d # c
    BY <2>2 DEF OthersKept, Writing, Idle
  <2> QED BY <2>1, <2>2
<1> QED BY <1>1, <1>2 DEF Holds, Exists

LEMMA OwnIDOnly ==
  ASSUME TypeInv, SerialInv, NEW c \in Calls, NEW id \in SubIDs,
         Owns(c, id), OthersKept(c, id), LockRespected(c), HoldsNothingNew(id),
         Writing(c)' => call'[c].key = id, WriterInv(c)', ~Writing(c)' => Settled(id)'
  PROVE  SerialInv'
<1>1. ASSUME NEW d \in Calls, d # c
      PROVE  /\ call'[d] = call[d]
             /\ Writing(d)' <=> Writing(d)
             /\ Writing(d) => call[d].key \in SubIDs \ {id}
  BY <1>1, OthersNotOnID, WriterKey DEF OthersKept, Writing, Idle
<1>2. Apart'
  BY <1>1 DEF Apart, SerialInv
<1>3. Unshared'
  <2>1. SUFFICES ASSUME NEW pid \in ProviderIDs, NEW i \in SubIDs, NEW j \in SubIDs,
                        Holds(i, pid)', Holds(j, pid)'
                 PROVE  i = j
    BY DEF Unshared
  <2>2. ASSUME NEW o \in SubIDs, o # id, Holds(o, pid)', Holds(id, pid)'
        PROVE  FALSE
    <3>1. Holds(o, pid)
      BY <2>2, OthersHold
    <3>2. Holds(id, pid)
      BY <2>2, <3>1 DEF HoldsNothingNew
    <3> QED BY <2>2, <3>1, <3>2 DEF SerialInv, Unshared
  <2>3. CASE i # id /\ j # id
    <3>1. Holds(i, pid) /\ Holds(j, pid)
      BY <2>1, <2>3, OthersHold
    <3> QED BY <3>1 DEF SerialInv, Unshared
  <2> QED BY <2>1, <2>2, <2>3
<1>4. ASSUME NEW o \in SubIDs, o # id, NEW rec
      PROVE  (Says(o, rec)' <=> Says(o, rec)) /\ (SaysActive(o, rec)' <=> SaysActive(o, rec))
  BY <1>4 DEF OthersKept, Says, SaysActive
<1>5. ASSUME NEW d \in Calls PROVE WriterInv(d)'
  <2>1. CASE d = c
    BY <2>1
  <2>2. CASE d # c
    <3>1. SUFFICES ASSUME Writing(d)' PROVE WriterInv(d)'
      BY DEF WriterInv
    <3>2. call'[d] = call[d] /\ Writing(d) /\ call[d].key \in SubIDs \ {id}
      BY <1>1, <2>2, <3>1
    <3>3. PICK k \in SubIDs : k = call[d].key /\ k # id
      BY <3>2
    <3>4. subs'[k] = subs[k]
      BY <3>3 DEF OthersKept
    <3>5. \A rec : (Says(k, rec)' <=> Says(k, rec)) /\ (SaysActive(k, rec)' <=> SaysActive(k, rec))
      BY <1>4, <3>3
    <3>6. WriterInv(d)
      BY DEF SerialInv
    <3>7. activeMu = d => /\ activeMu' = d
                          /\ activeBySubscriber' = activeBySubscriber
      BY <2>2, ShardedAssumption DEF LockRespected
    <3> QED BY <3>2, <3>3, <3>4, <3>5, <3>6, <3>7 DEF WriterInv
  <2> QED BY <2>1, <2>2
<1>6. ASSUME NEW o \in SubIDs, ~Busy(o)' PROVE Settled(o)'
  <2>1. CASE o = id
    BY <1>6, <2>1 DEF Busy
  <2>2. CASE o # id
    <3>1. ~Busy(o)
      BY <1>1, <1>6, <2>2 DEF Busy, Owns
    <3>2. Settled(o)
      BY <3>1 DEF SerialInv
    <3>3. subs'[o] = subs[o]
      BY <2>2 DEF OthersKept
    <3>4. PICK rec : rec = subs[o]
      OBVIOUS
    <3>5. (Says(o, rec)' <=> Says(o, rec)) /\ (SaysActive(o, rec)' <=> SaysActive(o, rec))
      BY <1>4, <2>2
    <3> QED BY <3>2, <3>3, <3>4, <3>5 DEF Settled
  <2> QED BY <2>1, <2>2
<1> QED BY <1>2, <1>3, <1>5, <1>6 DEF SerialInv

\* A step of a reader disturbs nothing.
LEMMA ReaderStep ==
  ASSUME SerialInv, NEW c \in Calls, ~Writing(c), ~Writing(c)',
         \A d \in Calls \ {c} : call'[d] = call[d], UNCHANGED <<storeVars, activeMu>>
  PROVE  SerialInv'
<1>1. ASSUME NEW d \in Calls
      PROVE  (Writing(d)' <=> Writing(d)) /\ (Writing(d) => call'[d] = call[d])
  BY DEF Writing, Idle
<1>2. /\ subs' = subs /\ byProviderID' = byProviderID
      /\ activeBySubscriber' = activeBySubscriber /\ activeMu' = activeMu
  BY DEF storeVars
<1>3. \A id \in SubIDs : Busy(id)' <=> Busy(id)
  BY <1>1 DEF Busy
<1>4. ASSUME NEW id \in SubIDs, NEW pid PROVE Holds(id, pid)' <=> Holds(id, pid)
  BY <1>1, <1>2 DEF Holds, Exists
<1>5. Apart' /\ Unshared'
  BY <1>1, <1>4 DEF SerialInv, Apart, Unshared
<1>6. ASSUME NEW id, NEW rec
      PROVE  (Says(id, rec)' <=> Says(id, rec)) /\ (SaysActive(id, rec)' <=> SaysActive(id, rec))
  BY <1>2 DEF Says, SaysActive
<1>7. ASSUME NEW d \in Calls PROVE WriterInv(d)'
  BY <1>1, <1>2, <1>6 DEF SerialInv, WriterInv
<1>8. ASSUME NEW id \in SubIDs, ~Busy(id)' PROVE Settled(id)'
  BY <1>2, <1>3, <1>8 DEF SerialInv, Settled, Says, SaysActive
<1> QED BY <1>5, <1>7, <1>8 DEF SerialInv

-----------------------------------------------------------------------------
(***************************************************************************)
(* What the index updates write, entry by entry.                           *)
(***************************************************************************)
LEMMA ProviderEntries ==
  ASSUME NEW index \in [ProviderIDs -> SubIDs \cup {None}],
         NEW old \in Subscription \cup {None}, NEW sub \in Subscription,
         NEW pid \in ProviderIDs
  PROVE  /\ EvictProviderID(index, old)[pid] =
              IF old # None /\ old.ProviderID = pid THEN None ELSE index[pid]
         /\ AddProviderID(index, sub)[pid] =
              IF sub.ProviderID = pid THEN sub.ID ELSE index[pid]
         /\ (old # None => old.ProviderID = sub.ProviderID) =>
              ProviderIndexAfterSave(index, old, sub)[pid] =
                IF sub.ProviderID = pid THEN sub.ID ELSE index[pid]
BY NoneAssumption DEF EvictProviderID, AddProviderID, ProviderIndexAfterSave, Subscription

LEMMA ActiveEntries ==
  ASSUME NEW index \in [Subscribers -> SubIDs \cup {None}],
         NEW old \in Subscription \cup {None}, NEW sub \in Subscription,
         NEW u \in Subscribers
  PROVE  /\ \A v \in Subscribers : \A id : EvictActive(index, v, id)[u] =
              IF u = v /\ index[u] = id THEN None ELSE index[u]
         /\ AddActive(index, sub)[u] =
              IF isActiveStatus(sub.Status) /\ sub.SubscriberID = u
              THEN sub.ID ELSE index[u]
         /\ isActiveStatus(sub.Status) =>
              ActiveIndexAfterSave(index, old, sub) = AddActive(index, sub)
         /\ ~isActiveStatus(sub.Status) =>
              ActiveIndexAfterSave(index, old, sub)[u] =
                IF /\ old # None /\ isActiveStatus(old.Status)
                   /\ u = old.SubscriberID /\ index[u] = sub.ID
                THEN None ELSE index[u]
<1>1. \A v \in Subscribers : \A id : EvictActive(index, v, id)[u] =
        IF u = v /\ index[u] = id THEN None ELSE index[u]
  BY DEF EvictActive
<1>2. AddActive(index, sub)[u] =
        IF isActiveStatus(sub.Status) /\ sub.SubscriberID = u
        THEN sub.ID ELSE index[u]
  BY DEF AddActive
<1>3. old # None => old.SubscriberID \in Subscribers
  BY DEF Subscription
<1> QED BY <1>1, <1>2, <1>3 DEF ActiveIndexAfterSave

\* An entry of byProviderID names a subscription that holds the provider ID.
LEMMA EntryHolds ==
  ASSUME TypeInv, SerialInv, NEW id \in SubIDs, NEW pid \in ProviderIDs,
         byProviderID[pid] = id
  PROVE  Holds(id, pid)
<1>1. CASE ~Busy(id)
  BY <1>1 DEF SerialInv, Settled, Says, Holds, Exists
<1>2. CASE Busy(id)
  <2>1. PICK c \in Calls : Writing(c) /\ call[c].key = id
    BY <1>2 DEF Busy
  <2>2. Says(id, call[c].sub) \/ Says(id, call[c].old)
    BY <2>1 DEF SerialInv, WriterInv
  <2> QED BY <2>1, <2>2 DEF Says, Holds
<1> QED BY <1>1, <1>2

\* So a write of the entry of a provider ID that id holds is about id only.
LEMMA OwnProviderID ==
  ASSUME TypeInv, SerialInv, NEW id \in SubIDs,
         \A pid \in ProviderIDs :
           \/ byProviderID'[pid] = byProviderID[pid]
           \/ Holds(id, pid) /\ byProviderID'[pid] \in {None, id}
  PROVE  \A o \in SubIDs \ {id} : \A pid \in ProviderIDs :
           byProviderID'[pid] = o <=> byProviderID[pid] = o
<1>1. SUFFICES ASSUME NEW o \in SubIDs \ {id}, NEW pid \in ProviderIDs,
                      byProviderID'[pid] # byProviderID[pid]
               PROVE  byProviderID'[pid] # o /\ byProviderID[pid] # o
  OBVIOUS
<1>2. Holds(id, pid) /\ byProviderID'[pid] \in {None, id}
  BY <1>1
<1>3. ~Holds(o, pid)
  BY <1>2 DEF SerialInv, Unshared
<1> QED BY <1>2, <1>3, EntryHolds, NoneAssumption

-----------------------------------------------------------------------------
(***************************************************************************)
(* Every step keeps the invariant.                                         *)
(***************************************************************************)
LEMMA SaveShardInv ==
  ASSUME TypeInv, SerialInv, Serial, ~Reactivates,
         NEW c \in Calls, NEW sub \in Inputs, SaveShard(c, sub)
  PROVE  SerialInv'
<1>1. PICK id \in SubIDs : id = sub.ID
  BY SaveBegins
<1>2. /\ sub \in Subscription /\ call'[c] # None
      /\ call'[c].op = "save" /\ call'[c].step = "pid" /\ call'[c].old = subs[id]
      /\ call'[c].sub = sub /\ call'[c].key = id
      /\ \A d \in Calls \ {c} : call'[d] = call[d]
  BY <1>1, SaveBegins
<1>3. Owns(c, id) /\ ~Writing(c) /\ ~Busy(id)
  BY <1>1 DEF SaveShard, MaySave, Owns, Writing
<1>4. /\ subs'[id] = sub /\ \A o \in SubIDs \ {id} : subs'[o] = subs[o]
      /\ byProviderID' = byProviderID /\ activeMu' = activeMu
      /\ activeBySubscriber' = activeBySubscriber
  BY <1>1 DEF SaveShard, TypeInv, ShardedTypeOK, StoreTypeOK
<1>5. OthersKept(c, id) /\ LockRespected(c)
  BY <1>2, <1>4 DEF OthersKept, LockRespected
<1>6. /\ subs[id] # None => /\ subs[id].SubscriberID = sub.SubscriberID
                            /\ subs[id].ProviderID = sub.ProviderID
      /\ subs[id] = None => ProviderIDFree(sub)
      /\ isActiveStatus(sub.Status) => subs[id] # None /\ isActiveStatus(subs[id].Status)
  BY <1>1 DEF SaveShard, MaySave, MayCreate, Exists, IsActive
<1>7. HoldsNothingNew(id)
  <2>1. SUFFICES ASSUME NEW pid \in ProviderIDs, Holds(id, pid)'
                 PROVE  Holds(id, pid) \/ \A o \in SubIDs : ~Holds(o, pid)
    BY DEF HoldsNothingNew
  <2>2. sub.ProviderID = pid
    BY <1>2, <1>3, <1>4, <1>6, <2>1, OthersNotOnID DEF Holds, Exists, Writing, Idle
  <2>3. CASE subs[id] # None
    BY <1>6, <2>2, <2>3 DEF Holds, Exists
  <2>4. CASE subs[id] = None
    BY <1>6, <2>2, <2>4, NoneAssumption DEF Holds, ProviderIDFree
  <2> QED BY <2>3, <2>4
<1>8. WriterInv(c)'
  <2>1. Says(id, subs[id]) /\ SaysActive(id, subs[id])
    BY <1>3 DEF SerialInv, Settled
  <2>2. PICK old : old = subs[id]
    OBVIOUS
  <2>3. Says(id, old)' /\ SaysActive(id, old)'
    BY <1>4, <2>1, <2>2 DEF Says, SaysActive
  <2> QED BY <1>2, <1>4, <1>6, <2>2, <2>3 DEF WriterInv
<1>9. Writing(c)'
  BY <1>2 DEF Writing, Idle
<1> QED BY <1>2, <1>3, <1>5, <1>7, <1>8, <1>9, OwnIDOnly

LEMMA DeleteShardInv ==
  ASSUME TypeInv, SerialInv, Serial, NEW c \in Calls, NEW id \in SubIDs,
         DeleteShard(c, id)
  PROVE  SerialInv'
<1>1. /\ call'[c] # None
      /\ call'[c].op = "delete" /\ call'[c].step = "pid" /\ call'[c].old = subs[id]
      /\ call'[c].sub = None /\ call'[c].key = id
      /\ \A d \in Calls \ {c} : call'[d] = call[d]
  BY DeleteBegins
<1>2. Owns(c, id) /\ ~Writing(c) /\ ~Busy(id)
  BY DEF DeleteShard, Owns, Writing
<1>3. /\ subs'[id] = None /\ \A o \in SubIDs \ {id} : subs'[o] = subs[o]
      /\ byProviderID' = byProviderID /\ activeMu' = activeMu
      /\ activeBySubscriber' = activeBySubscriber
  BY DEF DeleteShard, TypeInv, ShardedTypeOK, StoreTypeOK
<1>4. OthersKept(c, id) /\ LockRespected(c)
  BY <1>1, <1>3 DEF OthersKept, LockRespected
<1>5. HoldsNothingNew(id)
  <2>1. SUFFICES ASSUME NEW pid \in ProviderIDs, Holds(id, pid)'
                 PROVE  Holds(id, pid)
    BY DEF HoldsNothingNew
  <2> QED BY <1>1, <1>2, <1>3, <2>1, OthersNotOnID DEF Holds, Exists, Writing, Idle
<1>6. WriterInv(c)'
  <2>1. Says(id, subs[id]) /\ SaysActive(id, subs[id])
    BY <1>2 DEF SerialInv, Settled
  <2>2. PICK old : old = subs[id]
    OBVIOUS
  <2>3. Says(id, old)' /\ SaysActive(id, old)'
    BY <1>3, <2>1, <2>2 DEF Says, SaysActive
  <2> QED BY <1>1, <1>3, <2>2, <2>3 DEF WriterInv
<1>7. Writing(c)'
  BY <1>1 DEF Writing, Idle
<1> QED BY <1>1, <1>2, <1>4, <1>5, <1>6, <1>7, OwnIDOnly

LEMMA CreateBeginInv ==
  ASSUME TypeInv, SerialInv, NEW c \in Calls, NEW sub \in Inputs, CreateBegin(c, sub)
  PROVE  SerialInv'
<1>1. PICK id \in SubIDs : id = sub.ID
  BY CreateBegins
<1>2. /\ sub \in Subscription /\ call'[c] # None
      /\ call'[c].op = "create" /\ call'[c].step = "lock" /\ call'[c].old = None
      /\ call'[c].sub = sub /\ call'[c].key = id
      /\ \A d \in Calls \ {c} : call'[d] = call[d]
  BY <1>1, CreateBegins
<1>3. /\ Owns(c, id) /\ ~Writing(c) /\ ~Busy(id)
      /\ subs[id] = None /\ ProviderIDFree(sub)
  BY <1>1 DEF CreateBegin, MayCreate, Owns, Writing, Exists
<1>4. /\ subs' = subs /\ byProviderID' = byProviderID /\ activeMu' = activeMu
      /\ activeBySubscriber' = activeBySubscriber
  BY DEF CreateBegin, storeVars
<1>5. OthersKept(c, id) /\ LockRespected(c)
  BY <1>2, <1>4 DEF OthersKept, LockRespected
<1>6. HoldsNothingNew(id)
  <2>1. SUFFICES ASSUME NEW pid \in ProviderIDs, Holds(id, pid)'
                 PROVE  \A o \in SubIDs : ~Holds(o, pid)
    BY DEF HoldsNothingNew
  <2>2. sub.ProviderID = pid
    BY <1>2, <1>3, <1>4, <2>1, OthersNotOnID DEF Holds, Exists, Writing, Idle
  <2> QED BY <1>3, <2>2, NoneAssumption DEF Holds, ProviderIDFree
<1>7. WriterInv(c)'
  <2>1. Says(id, None) /\ SaysActive(id, None)
    BY <1>3 DEF SerialInv, Settled
  <2>2. Says(id, None)' /\ SaysActive(id, None)'
    BY <1>4, <2>1 DEF Says, SaysActive
  <2> QED BY <1>2, <1>3, <1>4, <2>2 DEF WriterInv
<1>8. Writing(c)'
  BY <1>2 DEF Writing, Idle
<1> QED BY <1>2, <1>3, <1>5, <1>6, <1>7, <1>8, OwnIDOnly

\* The state of a call that writes subscription id between two of its steps.
LEMMA WriterState ==
  ASSUME TypeInv, SerialInv, NEW c \in Calls, Writing(c)
  PROVE  /\ call[c].key \in SubIDs /\ Owns(c, call[c].key)
         /\ call[c].old \in Subscription \cup {None}
         /\ call[c].sub \in Subscription \cup {None}
         /\ call[c].op \in {"save", "create"} =>
              call[c].sub \in Subscription /\ call[c].sub.ID = call[c].key
         /\ call[c].op = "delete" => call[c].old # None /\ call[c].sub = None
         /\ call[c].op = "create" => call[c].old = None
         /\ WriterInv(c)
<1>1. CallTyped(c) /\ call[c] \in Call /\ WriterInv(c)
  BY DEF TypeInv, ShardedTypeOK, SerialInv, Writing, Idle
<1>2. call[c].key \in SubIDs /\ Owns(c, call[c].key)
  BY WriterKey DEF Owns
<1> QED BY <1>1, <1>2, NoneAssumption DEF CallTyped, Writing, Call

\* A call holds no new provider ID after its first step.
LEMMA HoldsKept ==
  ASSUME SerialInv, NEW c \in Calls, NEW id \in SubIDs, Writing(c), call[c].key = id,
         \A d \in Calls \ {c} : call'[d] = call[d],
         Writing(c)' => call'[c].old = call[c].old /\ call'[c].sub = call[c].sub,
         subs'[id] \in {subs[id], call[c].sub}
  PROVE  HoldsNothingNew(id)
<1>1. SUFFICES ASSUME NEW pid \in ProviderIDs, Holds(id, pid)'
               PROVE  Holds(id, pid)
  BY DEF HoldsNothingNew
<1>2. CASE subs'[id] # None /\ subs'[id].ProviderID = pid
  BY <1>2 DEF Holds, Exists
<1>3. ASSUME NEW d \in Calls, Writing(d)', call'[d].key = id,
             \/ call'[d].old # None /\ call'[d].old.ProviderID = pid
             \/ call'[d].sub # None /\ call'[d].sub.ProviderID = pid
      PROVE  Holds(id, pid)
  <2>1. CASE d = c
    BY <1>3, <2>1 DEF Holds
  <2>2. CASE d # c
    <3>1. call'[d] = call[d] /\ Writing(d)
      BY <1>3, <2>2 DEF Writing, Idle
    <3> QED BY <1>3, <3>1 DEF Holds
  <2> QED BY <2>1, <2>2
<1> QED BY <1>1, <1>2, <1>3 DEF Holds, Exists

LEMMA SaveProviderIDInv ==
  ASSUME TypeInv, SerialInv, NEW c \in Calls, SaveProviderID(c)
  PROVE  SerialInv'
<1>1. Writing(c) /\ ~Idle(c) /\ call[c].op = "save" /\ call[c].step = "pid"
  BY DEF SaveProviderID, At, Writing
<1>2. PICK id \in SubIDs : id = call[c].key
  BY <1>1, WriterState
<1>3. PICK old \in Subscription \cup {None} : old = call[c].old
  BY <1>1, WriterState
<1>4. PICK sub \in Subscription : sub = call[c].sub /\ sub.ID = id
  BY <1>1, <1>2, WriterState
<1>5. /\ Owns(c, id) /\ subs[id] = sub /\ Says(id, old) /\ SaysActive(id, old)
      /\ old # None => /\ old.SubscriberID = sub.SubscriberID
                       /\ old.ProviderID = sub.ProviderID
      /\ isActiveStatus(sub.Status) => old # None /\ isActiveStatus(old.Status)
  BY <1>1, <1>2, <1>3, <1>4, WriterState DEF WriterInv
<1>6. /\ call'[c] # None /\ call'[c].op = "save" /\ call'[c].step = "active"
      /\ call'[c].old = old /\ call'[c].sub = sub /\ call'[c].key = id
      /\ \A d \in Calls \ {c} : call'[d] = call[d]
  BY <1>1, <1>2, <1>3, <1>4, GotoCall DEF SaveProviderID
<1>7. /\ subs' = subs /\ activeMu' = activeMu
      /\ activeBySubscriber' = activeBySubscriber
      /\ byProviderID' = ProviderIndexAfterSave(byProviderID, old, sub)
  BY <1>3, <1>4 DEF SaveProviderID
<1>8. ASSUME NEW pid \in ProviderIDs
      PROVE  byProviderID'[pid] = IF sub.ProviderID = pid THEN id ELSE byProviderID[pid]
  <2>1. byProviderID \in [ProviderIDs -> SubIDs \cup {None}]
    BY DEF TypeInv, ShardedTypeOK, StoreTypeOK
  <2>2. ProviderIndexAfterSave(byProviderID, old, sub)[pid] =
          IF sub.ProviderID = pid THEN sub.ID ELSE byProviderID[pid]
    BY <1>3, <1>4, <1>5, <1>8, <2>1, ProviderEntries
  <2> QED BY <1>4, <1>7, <2>2
<1>9. OthersKept(c, id) /\ LockRespected(c)
  <2>1. ASSUME NEW pid \in ProviderIDs, sub.ProviderID = pid PROVE Holds(id, pid)
    BY <1>5, <2>1, NoneAssumption DEF Holds, Exists
  <2>2. \A o \in SubIDs \ {id} : \A pid \in ProviderIDs :
          byProviderID'[pid] = o <=> byProviderID[pid] = o
    BY <1>8, <2>1, OwnProviderID
  <2> QED BY <1>6, <1>7, <2>2 DEF OthersKept, LockRespected
<1>10. HoldsNothingNew(id)
  BY <1>1, <1>2, <1>3, <1>4, <1>6, <1>7, HoldsKept
<1>11. WriterInv(c)'
  <2>1. Says(id, sub)'
    BY <1>5, <1>8, NoneAssumption DEF Says
  <2>2. SaysActive(id, old)'
    BY <1>5, <1>7 DEF SaysActive
  <2> QED BY <1>5, <1>6, <1>7, <2>1, <2>2 DEF WriterInv
<1>12. Writing(c)'
  BY <1>6 DEF Writing, Idle
<1> QED BY <1>5, <1>6, <1>9, <1>10, <1>11, <1>12, OwnIDOnly

LEMMA SaveActiveInv ==
  ASSUME TypeInv, SerialInv, NEW c \in Calls, SaveActive(c)
  PROVE  SerialInv'
<1>1. Writing(c) /\ ~Idle(c) /\ call[c].op = "save" /\ call[c].step = "active"
  BY DEF SaveActive, At, Writing
<1>2. PICK id \in SubIDs : id = call[c].key
  BY <1>1, WriterState
<1>3. PICK old \in Subscription \cup {None} : old = call[c].old
  BY <1>1, WriterState
<1>4. PICK sub \in Subscription : sub = call[c].sub /\ sub.ID = id
  BY <1>1, <1>2, WriterState
<1>5. /\ Owns(c, id) /\ subs[id] = sub /\ Says(id, sub) /\ SaysActive(id, old)
      /\ old # None => old.SubscriberID = sub.SubscriberID
      /\ isActiveStatus(sub.Status) => old # None /\ isActiveStatus(old.Status)
  BY <1>1, <1>2, <1>3, <1>4, WriterState DEF WriterInv
<1>6. call'[c] = None /\ \A d \in Calls \ {c} : call'[d] = call[d]
  BY ReturnCall DEF SaveActive
<1>7. /\ subs' = subs /\ byProviderID' = byProviderID /\ activeMu = None
      /\ activeBySubscriber' = ActiveIndexAfterSave(activeBySubscriber, old, sub)
  BY <1>3, <1>4 DEF SaveActive
<1>8. /\ sub.SubscriberID \in Subscribers /\ sub # None
      /\ activeBySubscriber \in [Subscribers -> SubIDs \cup {None}]
  BY NoneAssumption DEF Subscription, TypeInv, ShardedTypeOK, StoreTypeOK
<1>9. ASSUME NEW u \in Subscribers
      PROVE  activeBySubscriber'[u] =
               IF u = sub.SubscriberID /\ activeBySubscriber[u] = id
               THEN IF isActiveStatus(sub.Status) THEN id ELSE None
               ELSE activeBySubscriber[u]
  <2>1. activeBySubscriber[u] = id <=>
          old # None /\ isActiveStatus(old.Status) /\ old.SubscriberID = u
    BY <1>5 DEF SaysActive
  <2>2. CASE isActiveStatus(sub.Status)
    BY <1>4, <1>5, <1>7, <1>8, <2>1, <2>2, ActiveEntries
  <2>3. CASE ~isActiveStatus(sub.Status)
    BY <1>4, <1>5, <1>7, <1>8, <2>1, <2>3, ActiveEntries
  <2> QED BY <2>2, <2>3
<1>10. OthersKept(c, id) /\ LockRespected(c)
  <2>1. \A o \in SubIDs \ {id} : \A u \in Subscribers :
          activeBySubscriber'[u] = o <=> activeBySubscriber[u] = o
    BY <1>9, NoneAssumption
  <2> QED BY <1>6, <1>7, <2>1 DEF OthersKept, LockRespected
<1>11. ~Writing(c)' /\ WriterInv(c)'
  BY <1>6 DEF Writing, Idle, WriterInv
<1>12. HoldsNothingNew(id)
  BY <1>1, <1>2, <1>6, <1>7, <1>11, HoldsKept
<1>13. Settled(id)'
  <2>1. Says(id, sub)'
    BY <1>5, <1>7 DEF Says
  <2>2. SaysActive(id, sub)'
    BY <1>5, <1>8, <1>9, NoneAssumption DEF SaysActive
  <2> QED BY <1>5, <1>7, <2>1, <2>2 DEF Settled
<1> QED BY <1>5, <1>10, <1>11, <1>12, <1>13, OwnIDOnly

LEMMA DeleteProviderIDInv ==
  ASSUME TypeInv, SerialInv, NEW c \in Calls, DeleteProviderID(c)
  PROVE  SerialInv'
<1>1. Writing(c) /\ ~Idle(c) /\ call[c].op = "delete" /\ call[c].step = "pid"
  BY DEF DeleteProviderID, At, Writing
<1>2. PICK id \in SubIDs : id = call[c].key
  BY <1>1, WriterState
<1>3. PICK old \in Subscription : old = call[c].old
  BY <1>1, WriterState
<1>4. /\ Owns(c, id) /\ subs[id] = None /\ Says(id, old) /\ SaysActive(id, old)
      /\ call[c].sub = None /\ old # None
  BY <1>1, <1>2, <1>3, WriterState DEF WriterInv
<1>5. /\ call'[c] # None /\ call'[c].op = "delete" /\ call'[c].step = "active"
      /\ call'[c].old = old /\ call'[c].sub = None /\ call'[c].key = id
      /\ \A d \in Calls \ {c} : call'[d] = call[d]
  BY <1>1, <1>2, <1>3, <1>4, GotoCall DEF DeleteProviderID
<1>6. /\ subs' = subs /\ activeMu' = activeMu
      /\ activeBySubscriber' = activeBySubscriber
      /\ byProviderID' = EvictProviderID(byProviderID, old)
  BY <1>3 DEF DeleteProviderID
<1>7. ASSUME NEW pid \in ProviderIDs
      PROVE  byProviderID'[pid] = IF old.ProviderID = pid THEN None ELSE byProviderID[pid]
  BY <1>3, <1>4, <1>6, ProviderEntries DEF TypeInv, ShardedTypeOK, StoreTypeOK
<1>8. OthersKept(c, id) /\ LockRespected(c)
  <2>1. ASSUME NEW pid \in ProviderIDs, old.ProviderID = pid PROVE Holds(id, pid)
    BY <1>1, <1>2, <1>3, <1>4, <2>1 DEF Holds
  <2>2. \A o \in SubIDs \ {id} : \A pid \in ProviderIDs :
          byProviderID'[pid] = o <=> byProviderID[pid] = o
    BY <1>7, <2>1, OwnProviderID
  <2> QED BY <1>5, <1>6, <2>2 DEF OthersKept, LockRespected
<1>9. HoldsNothingNew(id)
  BY <1>1, <1>2, <1>3, <1>4, <1>5, <1>6, HoldsKept
<1>10. WriterInv(c)'
  <2>1. Says(id, None)'
    BY <1>4, <1>7, NoneAssumption DEF Says
  <2>2. SaysActive(id, old)'
    BY <1>4, <1>6 DEF SaysActive
  <2> QED BY <1>4, <1>5, <1>6, <2>1, <2>2 DEF WriterInv
<1>11. Writing(c)'
  BY <1>5 DEF Writing, Idle
<1> QED BY <1>4, <1>5, <1>8, <1>9, <1>10, <1>11, OwnIDOnly

LEMMA DeleteActiveInv ==
  ASSUME TypeInv, SerialInv, NEW c \in Calls, DeleteActive(c)
  PROVE  SerialInv'
<1>1. Writing(c) /\ ~Idle(c) /\ call[c].op = "delete" /\ call[c].step = "active"
  BY DEF DeleteActive, At, Writing
<1>2. PICK id \in SubIDs : id = call[c].key
  BY <1>1, WriterState
<1>3. PICK old \in Subscription : old = call[c].old
  BY <1>1, WriterState
<1>4. Owns(c, id) /\ subs[id] = None /\ Says(id, None) /\ SaysActive(id, old)
  BY <1>1, <1>2, <1>3, WriterState DEF WriterInv
<1>5. call'[c] = None /\ \A d \in Calls \ {c} : call'[d] = call[d]
  BY ReturnCall DEF DeleteActive
<1>6. PICK v \in Subscribers : v = old.SubscriberID
  BY DEF Subscription
<1>7. /\ subs' = subs /\ byProviderID' = byProviderID /\ activeMu = None
      /\ activeBySubscriber' = EvictActive(activeBySubscriber, v, id)
  BY <1>2, <1>3, <1>6 DEF DeleteActive
<1>8. ASSUME NEW u \in Subscribers
      PROVE  activeBySubscriber'[u] = IF u = v /\ activeBySubscriber[u] = id
                                      THEN None ELSE activeBySubscriber[u]
  BY <1>3, <1>7, ActiveEntries DEF TypeInv, ShardedTypeOK, StoreTypeOK
<1>9. OthersKept(c, id) /\ LockRespected(c)
  <2>1. \A o \in SubIDs \ {id} : \A u \in Subscribers :
          activeBySubscriber'[u] = o <=> activeBySubscriber[u] = o
    BY <1>8, NoneAssumption
  <2> QED BY <1>5, <1>7, <2>1 DEF OthersKept, LockRespected
<1>10. ~Writing(c)' /\ WriterInv(c)'
  BY <1>5 DEF Writing, Idle, WriterInv
<1>11. HoldsNothingNew(id)
  BY <1>1, <1>2, <1>5, <1>7, <1>10, HoldsKept
<1>12. Settled(id)'
  <2>1. Says(id, None)'
    BY <1>4, <1>7 DEF Says
  <2>2. SaysActive(id, None)'
    BY <1>4, <1>6, <1>8, NoneAssumption DEF SaysActive
  <2> QED BY <1>4, <1>7, <2>1, <2>2 DEF Settled
<1> QED BY <1>4, <1>9, <1>10, <1>11, <1>12, OwnIDOnly

LEMMA CreateCheckInv ==
  ASSUME TypeInv, SerialInv, NEW c \in Calls, CreateCheck(c)
  PROVE  SerialInv'
<1>1. Writing(c) /\ ~Idle(c) /\ call[c].op = "create" /\ call[c].step = "lock"
  BY DEF CreateCheck, At, Writing
<1>2. PICK id \in SubIDs : id = call[c].key
  BY <1>1, WriterState
<1>3. PICK sub \in Subscription : sub = call[c].sub /\ sub.ID = id
  BY <1>1, <1>2, WriterState
<1>4. /\ Owns(c, id) /\ subs[id] = None /\ call[c].old = None
      /\ Says(id, None) /\ SaysActive(id, None)
  BY <1>1, <1>2, WriterState DEF WriterInv
<1>5. /\ subs' = subs /\ byProviderID' = byProviderID
      /\ activeBySubscriber' = activeBySubscriber /\ activeMu = None
  BY DEF CreateCheck, storeVars
<1>6. Says(id, None)' /\ SaysActive(id, None)'
  BY <1>4, <1>5 DEF Says, SaysActive
<1>7. CASE Return(c) /\ UNCHANGED activeMu
  <2>1. call'[c] = None /\ \A d \in Calls \ {c} : call'[d] = call[d]
    BY <1>7, ReturnCall
  <2>2. OthersKept(c, id) /\ LockRespected(c)
    BY <1>5, <2>1 DEF OthersKept, LockRespected
  <2>3. ~Writing(c)' /\ WriterInv(c)'
    BY <2>1 DEF Writing, Idle, WriterInv
  <2>4. HoldsNothingNew(id)
    BY <1>1, <1>2, <1>5, <2>1, <2>3, HoldsKept
  <2>5. Settled(id)'
    BY <1>4, <1>5, <1>6 DEF Settled
  <2> QED BY <1>4, <2>2, <2>3, <2>4, <2>5, OwnIDOnly
<1>8. CASE ~ActiveConflict(call[c].sub) /\ Goto(c, "shard") /\ activeMu' = c
  <2>1. /\ call'[c] # None /\ call'[c].op = "create" /\ call'[c].step = "shard"
        /\ call'[c].old = None /\ call'[c].sub = sub /\ call'[c].key = id
        /\ \A d \in Calls \ {c} : call'[d] = call[d]
    BY <1>1, <1>2, <1>3, <1>4, <1>8, GotoCall
  <2>2. OthersKept(c, id) /\ LockRespected(c)
    BY <1>5, <2>1 DEF OthersKept, LockRespected
  <2>3. HoldsNothingNew(id)
    BY <1>1, <1>2, <1>3, <1>4, <1>5, <2>1, HoldsKept
  <2>4. WriterInv(c)'
    BY <1>3, <1>4, <1>5, <1>6, <1>8, <2>1 DEF WriterInv, ActiveConflict
  <2>5. Writing(c)'
    BY <2>1 DEF Writing, Idle
  <2> QED BY <1>4, <2>1, <2>2, <2>3, <2>4, <2>5, OwnIDOnly
<1> QED BY <1>7, <1>8 DEF CreateCheck

LEMMA CreateShardInv ==
  ASSUME TypeInv, SerialInv, NEW c \in Calls, CreateShard(c)
  PROVE  SerialInv'
<1>1. Writing(c) /\ ~Idle(c) /\ call[c].op = "create" /\ call[c].step = "shard"
  BY DEF CreateShard, At, Writing
<1>2. PICK id \in SubIDs : id = call[c].key
  BY <1>1, WriterState
<1>3. PICK sub \in Subscription : sub = call[c].sub /\ sub.ID = id
  BY <1>1, <1>2, WriterState
<1>4. /\ Owns(c, id) /\ call[c].old = None /\ Says(id, None) /\ SaysActive(id, None)
      /\ activeMu = c /\ activeBySubscriber[sub.SubscriberID] = None
  BY <1>1, <1>2, <1>3, WriterState DEF WriterInv
<1>5. /\ call'[c] # None /\ call'[c].op = "create" /\ call'[c].step = "pid"
      /\ call'[c].old = None /\ call'[c].sub = sub /\ call'[c].key = id
      /\ \A d \in Calls \ {c} : call'[d] = call[d]
  BY <1>1, <1>2, <1>3, <1>4, GotoCall DEF CreateShard
<1>6. /\ subs'[id] = sub /\ \A o \in SubIDs \ {id} : subs'[o] = subs[o]
      /\ byProviderID' = byProviderID /\ activeMu' = activeMu
      /\ activeBySubscriber' = activeBySubscriber
  BY <1>2, <1>3 DEF CreateShard, TypeInv, ShardedTypeOK, StoreTypeOK
<1>7. OthersKept(c, id) /\ LockRespected(c)
  BY <1>5, <1>6 DEF OthersKept, LockRespected
<1>8. HoldsNothingNew(id)
  BY <1>1, <1>2, <1>3, <1>4, <1>5, <1>6, HoldsKept
<1>9. WriterInv(c)'
  <2>1. Says(id, None)' /\ SaysActive(id, None)'
    BY <1>4, <1>6 DEF Says, SaysActive
  <2> QED BY <1>4, <1>5, <1>6, <2>1 DEF WriterInv
<1>10. Writing(c)'
  BY <1>5 DEF Writing, Idle
<1> QED BY <1>4, <1>5, <1>7, <1>8, <1>9, <1>10, OwnIDOnly

LEMMA CreateProviderIDInv ==
  ASSUME TypeInv, SerialInv, NEW c \in Calls, CreateProviderID(c)
  PROVE  SerialInv'
<1>1. Writing(c) /\ ~Idle(c) /\ call[c].op = "create" /\ call[c].step = "pid"
  BY DEF CreateProviderID, At, Writing
<1>2. PICK id \in SubIDs : id = call[c].key
  BY <1>1, WriterState
<1>3. PICK sub \in Subscription : sub = call[c].sub /\ sub.ID = id
  BY <1>1, <1>2, WriterState
<1>4. /\ Owns(c, id) /\ call[c].old = None /\ Says(id, None) /\ SaysActive(id, None)
      /\ subs[id] = sub /\ activeMu = c /\ activeBySubscriber[sub.SubscriberID] = None
  BY <1>1, <1>2, <1>3, WriterState DEF WriterInv
<1>5. /\ call'[c] # None /\ call'[c].op = "create" /\ call'[c].step = "active"
      /\ call'[c].old = None /\ call'[c].sub = sub /\ call'[c].key = id
      /\ \A d \in Calls \ {c} : call'[d] = call[d]
  BY <1>1, <1>2, <1>3, <1>4, GotoCall DEF CreateProviderID
<1>6. /\ subs' = subs /\ activeMu' = activeMu
      /\ activeBySubscriber' = activeBySubscriber
      /\ byProviderID' = AddProviderID(byProviderID, sub)
  BY <1>3 DEF CreateProviderID
<1>7. ASSUME NEW pid \in ProviderIDs
      PROVE  byProviderID'[pid] = IF sub.ProviderID = pid THEN id ELSE byProviderID[pid]
  BY <1>3, <1>6, ProviderEntries DEF TypeInv, ShardedTypeOK, StoreTypeOK
<1>8. OthersKept(c, id) /\ LockRespected(c)
  <2>1. ASSUME NEW pid \in ProviderIDs, sub.ProviderID = pid PROVE Holds(id, pid)
    BY <1>4, <2>1, NoneAssumption DEF Holds, Exists
  <2>2. \A o \in SubIDs \ {id} : \A pid \in ProviderIDs :
          byProviderID'[pid] = o <=> byProviderID[pid] = o
    BY <1>7, <2>1, OwnProviderID
  <2> QED BY <1>5, <1>6, <2>2 DEF OthersKept, LockRespected
<1>9. HoldsNothingNew(id)
  BY <1>1, <1>2, <1>3, <1>4, <1>5, <1>6, HoldsKept
<1>10. WriterInv(c)'
  <2>1. Says(id, sub)'
    BY <1>4, <1>7, NoneAssumption DEF Says
  <2>2. SaysActive(id, None)'
    BY <1>4, <1>6 DEF SaysActive
  <2> QED BY <1>4, <1>5, <1>6, <2>1, <2>2 DEF WriterInv
<1>11. Writing(c)'
  BY <1>5 DEF Writing, Idle
<1> QED BY <1>4, <1>5, <1>8, <1>9, <1>10, <1>11, OwnIDOnly

LEMMA CreateActiveInv ==
  ASSUME TypeInv, SerialInv, NEW c \in Calls, CreateActive(c)
  PROVE  SerialInv'
<1>1. Writing(c) /\ ~Idle(c) /\ call[c].op = "create" /\ call[c].step = "active"
  BY DEF CreateActive, At, Writing
<1>2. PICK id \in SubIDs : id = call[c].key
  BY <1>1, WriterState
<1>3. PICK sub \in Subscription : sub = call[c].sub /\ sub.ID = id
  BY <1>1, <1>2, WriterState
<1>4. /\ Owns(c, id) /\ subs[id] = sub /\ Says(id, sub) /\ SaysActive(id, None)
      /\ activeMu = c /\ activeBySubscriber[sub.SubscriberID] = None
  BY <1>1, <1>2, <1>3, WriterState DEF WriterInv
<1>5. call'[c] = None /\ \A d \in Calls \ {c} : call'[d] = call[d]
  BY ReturnCall DEF CreateActive
<1>6. /\ subs' = subs /\ byProviderID' = byProviderID
      /\ activeBySubscriber' = AddActive(activeBySubscriber, sub)
  BY <1>3 DEF CreateActive
<1>7. ASSUME NEW u \in Subscribers
      PROVE  activeBySubscriber'[u] =
               IF isActiveStatus(sub.Status) /\ sub.SubscriberID = u
               THEN id ELSE activeBySubscriber[u]
  BY <1>3, <1>6, ActiveEntries DEF TypeInv, ShardedTypeOK, StoreTypeOK
<1>8. OthersKept(c, id) /\ LockRespected(c)
  <2>1. \A o \in SubIDs \ {id} : \A u \in Subscribers :
          activeBySubscriber'[u] = o <=> activeBySubscriber[u] = o
    BY <1>4, <1>7, NoneAssumption
  <2> QED BY <1>4, <1>5, <1>6, <2>1 DEF OthersKept, LockRespected
<1>9. ~Writing(c)' /\ WriterInv(c)'
  BY <1>5 DEF Writing, Idle, WriterInv
<1>10. HoldsNothingNew(id)
  BY <1>1, <1>2, <1>5, <1>6, <1>9, HoldsKept
<1>11. Settled(id)'
  <2>1. Says(id, sub)'
    BY <1>4, <1>6 DEF Says
  <2>2. SaysActive(id, sub)'
    BY <1>4, <1>7, NoneAssumption DEF SaysActive
  <2> QED BY <1>4, <1>6, <2>1, <2>2 DEF Settled
<1> QED BY <1>4, <1>8, <1>9, <1>10, <1>11, OwnIDOnly

\* The read operations.
LEMMA ReaderInv ==
  ASSUME TypeInv, SerialInv, NEW c \in Calls,
         \/ \E u \in Subscribers : GetBegin(c, "getActive", u)
         \/ \E pid \in ProviderIDs : GetBegin(c, "getByProviderID", pid)
         \/ ReadIndex(c) \/ ReadShard(c) \/ GetReturn(c)
  PROVE  SerialInv'
<1>1. UNCHANGED <<storeVars, activeMu>>
  BY DEF GetBegin, ReadIndex, ReadShard, GetReturn
<1>2. \A d \in Calls \ {c} : call'[d] = call[d]
  BY DEF TypeInv, ShardedTypeOK, GetBegin, ReadIndex, Found, Return, ReadShard, GetReturn
<1>3. ~Writing(c)
  BY DEF GetBegin, ReadIndex, ReadShard, GetReturn, At, Writing, TypeInv, CallTyped
<1>4. call \in [Calls -> Call \cup {None}]
  BY DEF TypeInv, ShardedTypeOK
<1>5. ASSUME Return(c) PROVE ~Writing(c)'
  BY <1>5, ReturnCall DEF Writing, Idle
<1>6. ASSUME NEW op \in {"getActive", "getByProviderID"}, NEW key, GetBegin(c, op, key)
      PROVE  ~Writing(c)'
  BY <1>4, <1>6 DEF GetBegin, Writing
<1>7. ASSUME NEW r \in Call, NEW r2, r = call[c], r2.op = r.op, ~Idle(c),
             call' = [call EXCEPT ![c] = r2]
      PROVE  ~Writing(c)'
  BY <1>3, <1>4, <1>7 DEF Writing
<1>8. ASSUME ~Idle(c), NEW id, call' = [call EXCEPT ![c] = [@ EXCEPT !.step = "read", !.key = id]]
      PROVE  ~Writing(c)'
  <2>1. PICK r \in Call : r = call[c]
    BY <1>4, <1>8 DEF Idle
  <2>2. [r EXCEPT !.step = "read", !.key = id].op = r.op
    BY DEF Call
  <2>3. call' = [call EXCEPT ![c] = [r EXCEPT !.step = "read", !.key = id]]
    BY <1>8, <2>1
  <2> QED BY <1>7, <1>8, <2>1, <2>2, <2>3
<1>9. ASSUME ReadIndex(c) PROVE ~Writing(c)'
  BY <1>5, <1>8, <1>9 DEF ReadIndex, Found, At
<1>10. ASSUME ReadShard(c) PROVE ~Writing(c)'
  <2>1. PICK r \in Call : r = call[c]
    BY <1>4, <1>10 DEF ReadShard, Idle
  <2>2. PICK sub : sub = subs[call[c].key]
    OBVIOUS
  <2>3. [r EXCEPT !.step = "result", !.sub = sub].op = r.op
    BY DEF Call
  <2>4. ~Idle(c) /\ call' = [call EXCEPT ![c] = [r EXCEPT !.step = "result", !.sub = sub]]
    BY <1>10, <2>1, <2>2 DEF ReadShard
  <2> QED BY <1>7, <2>1, <2>3, <2>4
<1>11. ~Writing(c)'
  BY <1>5, <1>6, <1>9, <1>10 DEF GetReturn
<1> QED BY <1>1, <1>2, <1>3, <1>11, ReaderStep

LEMMA SerialInvInit ==
  ASSUME Init
  PROVE  SerialInv
BY NoneAssumption
DEF Init, StoreInit, SerialInv, Apart, Unshared, WriterInv, Settled, Says, SaysActive,
    Holds, Exists, Writing, Idle

LEMMA SerialInvStep ==
  ASSUME Serial, ~Reactivates, TypeInv, SerialInv, [Next]_vars
  PROVE  SerialInv'
<1>1. CASE UNCHANGED vars
  BY <1>1
  DEF vars, SerialInv, Apart, Unshared, WriterInv, Settled, Says, SaysActive, Holds,
      Exists, Busy, Writing, Idle
<1>2. ASSUME NEW c \in Calls, Begin(c) PROVE SerialInv'
  BY <1>2, SaveShardInv, DeleteShardInv, CreateBeginInv, ReaderInv DEF Begin
<1>3. ASSUME NEW c \in Calls, Step(c) PROVE SerialInv'
  BY <1>3, SaveProviderIDInv, SaveActiveInv, DeleteProviderIDInv, DeleteActiveInv,
     CreateCheckInv, CreateShardInv, CreateProviderIDInv, CreateActiveInv, ReaderInv
  DEF Step, LockActive
<1> QED BY <1>1, <1>2, <1>3 DEF Next

\* Where no two writes of one subscription overlap and no save reactivates a
\* record, the inductive invariant above holds of every behaviour.
THEOREM SerialInvariant ==
  ASSUME Serial, ~Reactivates
  PROVE  Spec => [](TypeInv /\ SerialInv)
<1>1. Init => TypeInv /\ SerialInv
  BY TypeInvInit, SerialInvInit
<1>2. TypeInv /\ SerialInv /\ [Next]_vars => (TypeInv /\ SerialInv)'
  BY TypeInvStep, SerialInvStep
<1> QED BY <1>1, <1>2, PTL DEF Spec

\* Then the two indexes say about every subscription that nobody is writing
\* what its record in the shard says, though SaveSubscription,
\* DeleteSubscription and CreateSubscriptionIfNotActive update the shard and
\* the indexes under locks of their own and other subscriptions are written
\* meanwhile.
THEOREM IndexesSettle ==
  ASSUME Serial, ~Reactivates
  PROVE  Spec => []IndexesSettled
<1>1. SerialInv => IndexesSettled
  BY SettledMeaning DEF SerialInv
<1> QED BY <1>1, SerialInvariant, PTL

-----------------------------------------------------------------------------
(***************************************************************************)
(* The sharded store implements SubscriptionStore.                         *)
(***************************************************************************)
\* The indexes computed from the primary map: every provider ID and every
\* subscriber has at most one subscription to name.
ViewExact ==
  /\ ProviderIndexOf \in [ProviderIDs -> SubIDs \cup {None}]
  /\ ActiveIndexOf \in [Subscribers -> SubIDs \cup {None}]
  /\ \A pid \in ProviderIDs, id \in SubIDs :
       ProviderIndexOf[pid] = id <=> subs[id] # None /\ subs[id].ProviderID = pid
  /\ \A u \in Subscribers, id \in SubIDs :
       ActiveIndexOf[u] = id <=>
         /\ subs[id] # None /\ isActiveStatus(subs[id].Status)
         /\ subs[id].SubscriberID = u

\* An active subscription is the one its subscriber's entry names, or it is
\* being created by the holder of activeMu and there is no entry.
LEMMA ActiveNamed ==
  ASSUME TypeInv, SerialInv, NEW id \in SubIDs, IsActive(id), NEW u \in Subscribers,
         subs[id].SubscriberID = u
  PROVE  \/ activeBySubscriber[u] = id
         \/ activeBySubscriber[u] = None /\ activeMu \in Calls /\ call[activeMu].key = id
<1>1. CASE ~Busy(id)
  BY <1>1 DEF SerialInv, Settled, SaysActive, IsActive, Exists
<1>2. CASE Busy(id)
  <2>1. PICK c \in Calls : Writing(c) /\ call[c].key = id
    BY <1>2 DEF Busy
  <2>2. CASE call[c].op = "save"
    BY <2>1, <2>2, WriterState DEF WriterInv, SaysActive, IsActive, Exists
  <2>3. CASE call[c].op = "delete"
    BY <2>1, <2>3, WriterState DEF WriterInv, IsActive, Exists
  <2>4. CASE call[c].op = "create"
    <3>1. call[c].step \in {"lock", "shard", "pid", "active"}
      BY <2>1, <2>4 DEF TypeInv, CallTyped, Writing
    <3> QED BY <2>1, <2>4, <3>1, WriterState DEF WriterInv, IsActive, Exists
  <2> QED BY <2>1, <2>2, <2>3, <2>4 DEF Writing
<1> QED BY <1>1, <1>2

LEMMA ViewIsExact == TypeInv /\ SerialInv => ViewExact
<1> SUFFICES ASSUME TypeInv, SerialInv PROVE ViewExact
  OBVIOUS
<1>1. subs \in [SubIDs -> Subscription \cup {None}]
  BY DEF TypeInv, ShardedTypeOK, StoreTypeOK
<1>2. ASSUME NEW pid \in ProviderIDs, NEW i \in SubIDs, NEW j \in SubIDs,
             Exists(i) /\ subs[i].ProviderID = pid, Exists(j) /\ subs[j].ProviderID = pid
      PROVE  i = j
  BY <1>2 DEF SerialInv, Unshared, Holds
<1>3. ASSUME NEW u \in Subscribers, NEW i \in SubIDs, NEW j \in SubIDs,
             IsActive(i) /\ subs[i].SubscriberID = u, IsActive(j) /\ subs[j].SubscriberID = u
      PROVE  i = j
  BY <1>3, ActiveNamed, NoneAssumption
<1>4. ASSUME NEW pid \in ProviderIDs
      PROVE  /\ ProviderIndexOf[pid] \in SubIDs \cup {None}
             /\ \A id \in SubIDs :
                  ProviderIndexOf[pid] = id <=> Exists(id) /\ subs[id].ProviderID = pid
  <2>1. CASE \E id \in SubIDs : Exists(id) /\ subs[id].ProviderID = pid
    BY <1>2, <2>1 DEF ProviderIndexOf, TheOneWith
  <2>2. CASE ~\E id \in SubIDs : Exists(id) /\ subs[id].ProviderID = pid
    BY <2>2, NoneAssumption DEF ProviderIndexOf, TheOneWith
  <2> QED BY <2>1, <2>2
<1>5. ASSUME NEW u \in Subscribers
      PROVE  /\ ActiveIndexOf[u] \in SubIDs \cup {None}
             /\ \A id \in SubIDs :
                  ActiveIndexOf[u] = id <=> IsActive(id) /\ subs[id].SubscriberID = u
  <2>1. CASE \E id \in SubIDs : IsActive(id) /\ subs[id].SubscriberID = u
    BY <1>3, <2>1 DEF ActiveIndexOf, TheOneWith
  <2>2. CASE ~\E id \in SubIDs : IsActive(id) /\ subs[id].SubscriberID = u
    BY <2>2, NoneAssumption DEF ActiveIndexOf, TheOneWith
  <2> QED BY <2>1, <2>2
<1>6. /\ ProviderIndexOf \in [ProviderIDs -> SubIDs \cup {None}]
      /\ ActiveIndexOf \in [Subscribers -> SubIDs \cup {None}]
  <2>1. ProviderIndexOf = [pid \in ProviderIDs |-> ProviderIndexOf[pid]]
    BY DEF ProviderIndexOf
  <2>2. ActiveIndexOf = [u \in Subscribers |-> ActiveIndexOf[u]]
    BY DEF ActiveIndexOf
  <2> QED BY <1>4, <1>5, <2>1, <2>2
<1> QED BY <1>4, <1>5, <1>6 DEF ViewExact, Exists, IsActive

LEMMA SameView ==
  ASSUME subs' = subs
  PROVE  UNCHANGED <<subs, ProviderIndexOf, ActiveIndexOf>>
BY DEF ProviderIndexOf, ActiveIndexOf, TheOneWith, Exists, IsActive

\* The operators of the two instances are the same.
LEMMA SameOperators ==
  ASSUME NEW index, NEW old, NEW sub, NEW u, NEW id
  PROVE  /\ Locked!EvictProviderID(index, old) = EvictProviderID(index, old)
         /\ Locked!AddProviderID(index, sub) = AddProviderID(index, sub)
         /\ Locked!ProviderIndexAfterSave(index, old, sub) =
              ProviderIndexAfterSave(index, old, sub)
         /\ Locked!EvictActive(index, u, id) = EvictActive(index, u, id)
         /\ Locked!AddActive(index, sub) = AddActive(index, sub)
         /\ Locked!ActiveIndexAfterSave(index, old, sub) =
              ActiveIndexAfterSave(index, old, sub)
         /\ Locked!Subscription = Subscription
         /\ Locked!Exists(id) <=> subs[id] # None
         /\ Locked!IsActive(id) <=> subs[id] # None /\ isActiveStatus(subs[id].Status)
BY DEF Locked!EvictProviderID, Locked!AddProviderID, Locked!ProviderIndexAfterSave,
       Locked!EvictActive, Locked!AddActive, Locked!ActiveIndexAfterSave,
       Locked!isActiveStatus, Locked!Subscription, Locked!Statuses, Locked!Exists,
       Locked!IsActive,
       EvictProviderID, AddProviderID, ProviderIndexAfterSave, EvictActive, AddActive,
       ActiveIndexAfterSave, isActiveStatus, Subscription, Statuses

LEMMA SaveShardRefines ==
  ASSUME TypeInv, SerialInv, ViewExact, ViewExact', Serial, ~Reactivates,
         NEW c \in Calls, NEW sub \in Inputs, SaveShard(c, sub)
  PROVE  Locked!ExclusiveNext
<1>1. PICK id \in SubIDs : id = sub.ID /\ sub \in Subscription
  BY SaveBegins
<1>2. PICK old \in Subscription \cup {None} : old = subs[id]
  BY DEF TypeInv, ShardedTypeOK, StoreTypeOK
<1>3. /\ subs' = [subs EXCEPT ![id] = sub]
      /\ subs'[id] = sub /\ \A o \in SubIDs \ {id} : subs'[o] = subs[o]
  BY <1>1 DEF SaveShard, TypeInv, ShardedTypeOK, StoreTypeOK
<1>4. /\ old # None => /\ old.SubscriberID = sub.SubscriberID
                       /\ old.ProviderID = sub.ProviderID
      /\ old = None => ProviderIDFree(sub)
      /\ isActiveStatus(sub.Status) => old # None /\ isActiveStatus(old.Status)
  BY <1>1, <1>2 DEF SaveShard, MaySave, MayCreate, Exists, IsActive
<1>5. sub # None /\ sub.SubscriberID \in Subscribers /\ sub.ProviderID \in ProviderIDs \cup {None}
  BY <1>1, NoneAssumption DEF Subscription
<1>6. ProviderIndexOf' = ProviderIndexAfterSave(ProviderIndexOf, old, sub)
  <2>1. PICK index \in [ProviderIDs -> SubIDs \cup {None}] : index = ProviderIndexOf
    BY DEF ViewExact
  <2>2. ASSUME NEW pid \in ProviderIDs
        PROVE  ProviderIndexOf'[pid] = ProviderIndexAfterSave(index, old, sub)[pid]
    <3>1. ProviderIndexAfterSave(index, old, sub)[pid] =
            IF sub.ProviderID = pid THEN id ELSE index[pid]
      BY <1>1, <1>4, ProviderEntries
    <3> QED BY <1>2, <1>3, <1>4, <1>5, <2>1, <3>1, NoneAssumption DEF ViewExact
  <2>3. ProviderIndexAfterSave(index, old, sub) \in [ProviderIDs -> SubIDs \cup {None}]
    BY <1>1, ProviderIndexType
  <2>4. ProviderIndexOf' \in [ProviderIDs -> SubIDs \cup {None}]
    BY DEF ViewExact
  <2> QED BY <2>1, <2>2, <2>3, <2>4
<1>7. ActiveIndexOf' = ActiveIndexAfterSave(ActiveIndexOf, old, sub)
  <2>1. PICK index \in [Subscribers -> SubIDs \cup {None}] : index = ActiveIndexOf
    BY DEF ViewExact
  <2>2. ASSUME NEW u \in Subscribers
        PROVE  ActiveIndexOf'[u] = ActiveIndexAfterSave(index, old, sub)[u]
    <3>1. CASE isActiveStatus(sub.Status)
      <4>1. ActiveIndexAfterSave(index, old, sub)[u] =
              IF sub.SubscriberID = u THEN id ELSE index[u]
        BY <1>1, <3>1, ActiveEntries
      <4> QED BY <1>2, <1>3, <1>4, <1>5, <2>1, <3>1, <4>1, NoneAssumption DEF ViewExact
    <3>2. CASE ~isActiveStatus(sub.Status)
      <4>1. ActiveIndexAfterSave(index, old, sub)[u] =
              IF /\ old # None /\ isActiveStatus(old.Status)
                 /\ u = old.SubscriberID /\ index[u] = id
              THEN None ELSE index[u]
        BY <1>1, <3>2, ActiveEntries
      <4> QED BY <1>2, <1>3, <1>4, <1>5, <2>1, <3>2, <4>1, NoneAssumption DEF ViewExact
    <3> QED BY <3>1, <3>2
  <2>3. ActiveIndexAfterSave(index, old, sub) \in [Subscribers -> SubIDs \cup {None}]
    BY <1>1, ActiveIndexType
  <2>4. ActiveIndexOf' \in [Subscribers -> SubIDs \cup {None}]
    BY DEF ViewExact
  <2> QED BY <2>1, <2>2, <2>3, <2>4
<1>8. Locked!SaveSubscription(sub)
  BY <1>1, <1>2, <1>3, <1>6, <1>7, SameOperators DEF Locked!SaveSubscription
<1>9. Locked!SaveContract(sub)
  <2>1. ASSUME sub.ProviderID # None, NEW o \in SubIDs \ {id}, subs[o] # None,
               subs[o].ProviderID = sub.ProviderID
        PROVE  FALSE
    <3>1. old # None
      BY <1>4, <2>1 DEF ProviderIDFree, Exists
    <3> QED BY <1>2, <1>4, <1>5, <2>1, <3>1 DEF ViewExact
  <2> QED BY <1>1, <1>2, <1>4, <2>1 DEF Locked!SaveContract, Locked!ProviderIDUnshared, Locked!Exists
<1>10. Locked!NoSecondActive(sub)
  <2>1. ASSUME isActiveStatus(sub.Status), NEW o \in SubIDs \ {id}, subs[o] # None,
               isActiveStatus(subs[o].Status), subs[o].SubscriberID = sub.SubscriberID
        PROVE  FALSE
    BY <1>2, <1>4, <1>5, <2>1 DEF ViewExact
  <2> QED BY <1>1, <2>1
          DEF Locked!NoSecondActive, Locked!IsActive, Locked!Exists, Locked!isActiveStatus,
              isActiveStatus
<1> QED BY <1>1, <1>8, <1>9, <1>10, SameOperators DEF Locked!ExclusiveNext

LEMMA DeleteShardRefines ==
  ASSUME TypeInv, ViewExact, ViewExact', NEW c \in Calls, NEW id \in SubIDs,
         DeleteShard(c, id)
  PROVE  Locked!ExclusiveNext
<1>1. PICK old \in Subscription : old = subs[id] /\ old # None
  BY DeleteBegins, NoneAssumption
<1>2. /\ subs' = [subs EXCEPT ![id] = None]
      /\ subs'[id] = None /\ \A o \in SubIDs \ {id} : subs'[o] = subs[o]
  BY DEF DeleteShard, TypeInv, ShardedTypeOK, StoreTypeOK
<1>3. ProviderIndexOf' = EvictProviderID(ProviderIndexOf, old)
  <2>1. PICK index \in [ProviderIDs -> SubIDs \cup {None}] : index = ProviderIndexOf
    BY DEF ViewExact
  <2>2. ASSUME NEW pid \in ProviderIDs
        PROVE  ProviderIndexOf'[pid] = EvictProviderID(index, old)[pid]
    <3>1. EvictProviderID(index, old)[pid] = IF old.ProviderID = pid THEN None ELSE index[pid]
      BY <1>1, ProviderEntries
    <3> QED BY <1>1, <1>2, <2>1, <3>1, NoneAssumption DEF ViewExact
  <2>3. EvictProviderID(index, old) \in [ProviderIDs -> SubIDs \cup {None}]
    BY <1>1, ProviderIndexType
  <2>4. ProviderIndexOf' \in [ProviderIDs -> SubIDs \cup {None}]
    BY DEF ViewExact
  <2> QED BY <2>1, <2>2, <2>3, <2>4
<1>4. PICK v \in Subscribers : v = old.SubscriberID
  BY DEF Subscription
<1>5. ActiveIndexOf' = EvictActive(ActiveIndexOf, v, id)
  <2>1. PICK index \in [Subscribers -> SubIDs \cup {None}] : index = ActiveIndexOf
    BY DEF ViewExact
  <2>2. ASSUME NEW u \in Subscribers
        PROVE  ActiveIndexOf'[u] = EvictActive(index, v, id)[u]
    <3>1. EvictActive(index, v, id)[u] = IF u = v /\ index[u] = id THEN None ELSE index[u]
      BY <1>1, ActiveEntries
    <3> QED BY <1>1, <1>2, <1>4, <2>1, <3>1, NoneAssumption DEF ViewExact
  <2>3. EvictActive(index, v, id) \in [Subscribers -> SubIDs \cup {None}]
    BY <1>1, ActiveIndexType
  <2>4. ActiveIndexOf' \in [Subscribers -> SubIDs \cup {None}]
    BY DEF ViewExact
  <2> QED BY <2>1, <2>2, <2>3, <2>4
<1>6. Locked!RemoveSubscription(id)
  BY <1>1, <1>2, <1>3, <1>4, <1>5, SameOperators DEF Locked!RemoveSubscription
<1>7. Locked!DeleteSubscription(id)
  BY <1>1, <1>6 DEF Locked!DeleteSubscription, Locked!Exists
<1> QED BY <1>7 DEF Locked!ExclusiveNext

LEMMA CreateShardRefines ==
  ASSUME TypeInv, SerialInv, ViewExact, ViewExact', NEW c \in Calls, CreateShard(c)
  PROVE  Locked!ExclusiveNext
<1>1. Writing(c) /\ call[c].op = "create" /\ call[c].step = "shard"
  BY DEF CreateShard, At, Writing
<1>2. PICK id \in SubIDs : id = call[c].key
  BY <1>1, WriterState
<1>3. PICK sub \in Subscription : sub = call[c].sub /\ sub.ID = id
  BY <1>1, <1>2, WriterState
<1>4. /\ subs[id] = None /\ activeMu = c
      /\ activeBySubscriber[sub.SubscriberID] = None
  BY <1>1, <1>2, <1>3, WriterState DEF WriterInv
<1>5. /\ subs' = [subs EXCEPT ![id] = sub]
      /\ subs'[id] = sub /\ \A o \in SubIDs \ {id} : subs'[o] = subs[o]
  BY <1>2, <1>3 DEF CreateShard, TypeInv, ShardedTypeOK, StoreTypeOK
<1>6. sub # None /\ sub.SubscriberID \in Subscribers /\ sub.ProviderID \in ProviderIDs \cup {None}
  BY <1>3, NoneAssumption DEF Subscription
<1>7. ASSUME sub.ProviderID # None, NEW o \in SubIDs \ {id}, subs[o] # None,
             subs[o].ProviderID = sub.ProviderID
      PROVE  FALSE
  <2>1. PICK pid \in ProviderIDs : pid = sub.ProviderID
    BY <1>6, <1>7
  <2>2. Holds(id, pid) /\ Holds(o, pid)
    BY <1>1, <1>2, <1>3, <1>6, <1>7, <2>1 DEF Holds, Exists
  <2> QED BY <2>2 DEF SerialInv, Unshared
<1>8. ActiveIndexOf[sub.SubscriberID] = None
  <2>1. SUFFICES ASSUME NEW k \in SubIDs, ActiveIndexOf[sub.SubscriberID] = k PROVE FALSE
    BY <1>6 DEF ViewExact
  <2>2. IsActive(k) /\ subs[k].SubscriberID = sub.SubscriberID
    BY <1>6, <2>1 DEF ViewExact, IsActive, Exists
  <2>3. k = id
    BY <1>2, <1>4, <1>6, <2>2, ActiveNamed, NoneAssumption
  <2> QED BY <1>4, <2>2, <2>3 DEF IsActive, Exists
<1>9. ProviderIndexOf' = AddProviderID(ProviderIndexOf, sub)
  <2>1. PICK index \in [ProviderIDs -> SubIDs \cup {None}] : index = ProviderIndexOf
    BY DEF ViewExact
  <2>2. ASSUME NEW pid \in ProviderIDs
        PROVE  ProviderIndexOf'[pid] = AddProviderID(index, sub)[pid]
    <3>1. AddProviderID(index, sub)[pid] = IF sub.ProviderID = pid THEN id ELSE index[pid]
      BY <1>3, ProviderEntries
    <3> QED BY <1>4, <1>5, <1>6, <2>1, <3>1, NoneAssumption DEF ViewExact
  <2>3. AddProviderID(index, sub) \in [ProviderIDs -> SubIDs \cup {None}]
    BY <1>3, ProviderIndexType
  <2>4. ProviderIndexOf' \in [ProviderIDs -> SubIDs \cup {None}]
    BY DEF ViewExact
  <2> QED BY <2>1, <2>2, <2>3, <2>4
<1>10. ActiveIndexOf' = AddActive(ActiveIndexOf, sub)
  <2>1. PICK index \in [Subscribers -> SubIDs \cup {None}] : index = ActiveIndexOf
    BY DEF ViewExact
  <2>2. ASSUME NEW u \in Subscribers
        PROVE  ActiveIndexOf'[u] = AddActive(index, sub)[u]
    <3>1. AddActive(index, sub)[u] =
            IF isActiveStatus(sub.Status) /\ sub.SubscriberID = u THEN id ELSE index[u]
      BY <1>3, ActiveEntries
    <3> QED BY <1>4, <1>5, <1>6, <2>1, <3>1, NoneAssumption DEF ViewExact
  <2>3. AddActive(index, sub) \in [Subscribers -> SubIDs \cup {None}]
    BY <1>3, ActiveIndexType
  <2>4. ActiveIndexOf' \in [Subscribers -> SubIDs \cup {None}]
    BY DEF ViewExact
  <2> QED BY <2>1, <2>2, <2>3, <2>4
<1>11. Locked!CreateContract(sub)
  BY <1>3, <1>4, <1>7 DEF Locked!CreateContract, Locked!ProviderIDUnshared, Locked!Exists
<1>12. Locked!CreateSubscriptionIfNotActive(sub)
  BY <1>3, <1>5, <1>8, <1>9, <1>10, SameOperators
  DEF Locked!CreateSubscriptionIfNotActive, Locked!ActiveConflict, Locked!InsertSubscription
<1> QED BY <1>11, <1>12, SameOperators DEF Locked!ExclusiveNext

LEMMA StepRefines ==
  ASSUME TypeInv, SerialInv, ViewExact, ViewExact', Serial, ~Reactivates, [Next]_vars
  PROVE  [Locked!ExclusiveNext]_(Locked!storeVars)
<1>1. CASE subs' = subs
  BY <1>1, SameView DEF Locked!storeVars
<1>2. CASE UNCHANGED vars
  BY <1>1, <1>2 DEF vars
<1>3. ASSUME NEW c \in Calls, Begin(c)
      PROVE  [Locked!ExclusiveNext]_(Locked!storeVars)
  <2>1. CASE subs' # subs
    <3>1. \/ \E sub \in Inputs : SaveShard(c, sub)
          \/ \E id \in SubIDs : DeleteShard(c, id)
      BY <1>3, <2>1 DEF Begin, CreateBegin, GetBegin, storeVars
    <3> QED BY <3>1, SaveShardRefines, DeleteShardRefines
  <2> QED BY <1>1, <2>1
<1>4. ASSUME NEW c \in Calls, Step(c)
      PROVE  [Locked!ExclusiveNext]_(Locked!storeVars)
  <2>1. CASE subs' # subs
    <3>1. CreateShard(c)
      BY <1>4, <2>1
      DEF Step, LockActive, SaveActive, DeleteActive, CreateCheck, SaveProviderID,
          DeleteProviderID, CreateProviderID, CreateActive, ReadIndex, ReadShard,
          GetReturn, storeVars
    <3> QED BY <3>1, CreateShardRefines
  <2> QED BY <1>1, <2>1
<1> QED BY <1>2, <1>3, <1>4 DEF Next

LEMMA InitRefines ==
  ASSUME Init
  PROVE  Locked!StoreInit
BY DEF Init, StoreInit, Locked!StoreInit, ProviderIndexOf, ActiveIndexOf, TheOneWith,
       Exists, IsActive

\* For such callers the sharded store, with its critical section per shard and
\* per index, implements the store with a single lock: an operation takes
\* effect when its shard is written, and CreateSubscriptionIfNotActive writes
\* it only if the subscriber has no active subscription at that moment.
THEOREM ShardedImplementsLocked ==
  ASSUME Serial, ~Reactivates
  PROVE  Spec => ImplementsLocked
<1>1. Init => Locked!StoreInit
  BY InitRefines
<1>2. TypeInv /\ SerialInv /\ ViewExact /\ ViewExact' /\ [Next]_vars =>
        [Locked!ExclusiveNext]_(Locked!storeVars)
  BY StepRefines
<1> QED BY <1>1, <1>2, SerialInvariant, ViewIsExact, PTL
        DEF Spec, ImplementsLocked, Locked!ExclusiveSpec
=============================================================================
