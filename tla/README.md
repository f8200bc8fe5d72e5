# billow in TLA+

A verification development for [billow](../src/README.md), a Go library for
plans, subscriptions, metered usage and payment-provider webhooks.  The library
keeps its state in stores behind interfaces (with in-memory implementations),
talks to a payment provider behind another interface, and is called
concurrently by request handlers and webhook deliveries.  Most of what can go
wrong lies between two of its accesses to a store, where no lock is held.

## 1. Inventory

| Component | State | Operations | Source |
|---|---|---|---|
| SubscriptionStore | primary map, `byProviderID`, `activeBySubscriber`, one RWMutex | save, create if not active, delete, lookups, list | `store/memory/memory.go` |
| ShardedSubscriptionStore | 256 shards with a lock each, two indexes with a lock each | the same, as several critical sections | `store/memory/memory.go` |
| Subscription lifecycle | none of its own; copies of records held by calls in progress | Subscribe, Cancel, Pause, Resume, ChangePlan, webhook events | `subscriber.go`, `webhook.go` |
| Plans and plan cache | plan map; cache entries with expiry | CreatePlan, GetPlan, UpdatePlan, DeletePlan | `plan.go`, `plancache.go`, `manager.go` |
| Handler registry | atomic pointer to an immutable map | OnWebhookEvent, dispatchSync | `manager.go`, `dispatch.go` |
| Dispatch pool | one bounded channel per worker | send, worker loop, Close | `dispatch.go`, `manager.go` |
| Usage tracking | append-only records; the period of a subscription | RecordUsage, GetCurrentUsage, CheckLimit(s), report | `usage.go`, `webhook.go`, `memory.go` |
| Usage reporter | sweeper goroutine, `ProviderReportedAt` marks | sweep, close | `usage_reporter.go` |
| Pagination | none; an opaque cursor | ListPlansPage, ListSubscriptionsPage | `pagination.go` |
| Billing periods | none | periodEnd | `subscriber.go` |
| Payment provider | outside the repository | interface only | `provider/provider.go` |

How they interact.  The Manager's lifecycle operations read a record from the
store, call the provider, change their copy and save it.  HandleWebhook finds
the record by provider ID, changes and saves it, and hands the event to the
dispatch pool, whose worker runs the handlers of the registry.  Plans are read
through the cache by the limit checks and from the store by Subscribe and
ChangePlan; their changes go to the provider first.  Usage is saved locally,
summed by the limit checks over the stored period, and reported to the provider
by a sweeper that marks what was accepted.

What is hard: calls that overlap between a read and a save; two critical
sections of the sharded store seen in between; a provider call that succeeds
while the save fails; webhooks late, repeated and out of order; full queues;
shutdown; a crash between a report and its mark; a listing that changes between
two pages; check and record as two calls.  `PROJECT.json` lists each hazard at
its line.

What makes each component correct:

- the stores: both indexes say what the records say; lookups find what exists;
- the lifecycle: one active subscription per subscriber; no cancellation that
  the provider does not know; no subscription billed without a record; store
  and provider agree at rest;
- the plans: the cache agrees with the store, at once or within its TTL, and
  the store with the provider; a patch changes its own fields only; a deleted
  plan stays deleted;
- the registry: no registration is lost, handlers keep their order;
- the pool: no event lost, repeated or reordered; Close drains and returns;
- usage limits: what was checked is not exceeded;
- the reporter: every record is reported, again only for a reason; Close
  flushes and returns;
- pagination: what is there all the time is listed, once, and every page that
  names a next one brings something new.

## 2. Modules

| Module | Models | State | Steps |
|---|---|---|---|
| `SubscriptionStore` | the single-lock store | the three maps | one action per method |
| `SubscriptionStoreProofs` | | | theorems about it, for any size |
| `Pagination` (extends `SubscriptionStore`) | a client's walk through the pages, writers | the store, `walk` (request and listing), histories | first request; one step per listed shard; cut of a page; any write of the store |
| `PaginationProofs` (extends `SubscriptionStoreProofs` too) | | | theorems about it |
| `Lifecycle` (extends `SubscriptionStore`) | the Manager's calls | the store, `call` (the step and the record copy of every caller), `provider` (external), `app` (the application in question), `reactivated` | one action per access: begin with the first read, provider call, check, save |
| `LifecycleProofs` | | | the inductive invariants and theorems |
| `ShardedSubscriptionStore` (extends `SubscriptionStore`) | the sharded store | the three maps, `call`, `activeMu` | one action per critical section |
| `ShardedSubscriptionStoreProofs` | | | refinement of `SubscriptionStore`, settled indexes |
| `PlanCache` | plans, cache, plans at the provider | `plans`, `provider` (external), `cache`, `call`, `serial`, `quiet`, `failed` | one action per access of provider, store or cache; `Tick` |
| `PlanCacheProofs` | | | the inductive invariant and theorems |
| `HandlerList` | what OnWebhookEvent promises | `handlers`, `registered` | an atomic append |
| `HandlerRegistry` | the compare-and-swap loop, dispatch | `handlersPtr`, `pc`, `old`, `todo` | load, swap, retry; load, call, return |
| `HandlerRegistryProofs` | | | refinement of `HandlerList`, order of a dispatch |
| `DispatchPool` | pool, senders, Close | channels, workers, `closing`, histories | one action per channel operation |
| `DispatchPoolProofs` | | | the inductive invariant and theorems |
| `UsageStore` | the usage records | `log` | save, sum, list unreported, mark |
| `UsageReporter` (extends `UsageStore`) | the sweeper, the report of RecordUsage, Close, crash and restart | `sweeper`, `stop`, `direct`, `accepted` (external), histories | one action per store or provider access of a sweep; the process steps |
| `UsageLimits` (extends `UsageStore`) | CheckLimit(s), RecordUsage, renewals | `clock`, `period`, `caller`, `serial`, histories | read the period, compare one metric, record one metric (`RecordAllowed`); renew; time (`Elapse`) |
| `UsageProofs` (extends both) | | | sums by induction; the inductive invariants and theorems of the reporter and of the limits |
| `MC...` | TLC instances | | constants and symmetry only |

Definitions keep the names of the Go functions they model.  Definitions whose
name has a suffix after an underscore (`CreateCheck_Unlocks`) are plausible
mistakes, defined next to the operation they vary; `PROJECT.json` names the
property each of them breaks.

Decisions worth knowing:

- **Atomic steps.** A method under a mutex is one action.  A Manager operation
  is one action per store, cache or provider access, since it holds nothing in
  between; that is where stale copies come from.  A call that returns before it
  changed anything (not found, provider not set) is left out.
- **Records.** `Subscription` keeps the identity, owner, plan and status, and of
  the time stamps whether they are nil.  Periods are in `UsageLimits`; metadata
  and trial dates are carried by the code and never decide anything here.
- **Applications.** What the store offers and what an application does is the
  record `app`, chosen once from the constant `Apps`: the operations and events
  that occur, whether the store has the atomic extension, whether calls on one
  subscription are kept apart, whether calls may fail.  A property names the
  applications it speaks of.  `reactivated` remembers whose inactive record was
  made active.
- **Shards.** A shard's lock is held for one map access and an operation touches
  one ID, so in `ShardedSubscriptionStore` the shards are one map and their
  locks are not shown.  `activeMu` is a variable, because
  CreateSubscriptionIfNotActive holds it over several critical sections.  In
  `Pagination` the listing goes shard by shard, in any order; with one shard it
  is the listing of the plain store.
- **Order of IDs.** The code sorts IDs as strings; `Pagination` takes numbers,
  of which it uses only the order.  A page token names the last item of a page;
  none, or one that does not decode, is `None`.
- **Provider (external).** It refuses to change an ended subscription, never
  gives an ID twice, may end a subscription by itself, and sends
  `subscription.canceled` only for one that has ended; every other event may
  come at any time, any number of times.  It counts the usage reports it has
  accepted.  That is what the callers rely on, and nothing more.
- **Failures.** With `MayFail` a lifecycle call may end at any point: a store
  error, a lost answer or a crash.  What it did so far stays done.  A report of
  usage is accepted, fails, or is accepted with its answer lost; a mark fails
  with the store or with the 30 seconds of its sweep.
- **Crashes of the reporter.** The usage store is durable, as the code's own
  comments suppose ("across restarts"); the sweeper, `stopC` and a report that
  RecordUsage is about to make are lost.  One process runs at a time.
- **Usage records.** The nested maps are one sequence in the order of insertion
  and a record's ID is its position.  ListUnreportedUsage walks Go maps: which
  batches it may return is a set.  SumUsage adds the records one by one, those
  of another bucket or period counting nothing (`Term`, `SumSeq`).
- **Integers.** Sums have the width `IntBits` and wrap.  `int(h.Sum32()) %
  workers` of the pool has the width of `int` and Go's sign of the remainder.
- **Time.** A cache entry counts down from `TTL`; `Tick` is one unit.  In
  `UsageLimits` the clock advances through `Times`, and renewals come at any
  moment, with both boundaries of the period or one.

## 3. Runs

| Run | Checks | Instance |
|---|---|---|
| `listing` | `ProviderIndexExact`, `ActiveIndexSound`, `NothingSkipped`, `NothingRepeated`, `PagesAreNew` | 3 subscriptions of 2 subscribers in 2 shards, 1 provider ID, with and without a filter, limits 1 and 0 (the default, 2) |
| `lifecycle` | `CanceledAtProvider`, `AtMostOneActive`, `QuiescentAgreement`, `ObeysStoreContract`, `OrphanedOnlyBySubscribe` | 2 callers, 2 subscriptions of one subscriber, 2 plans, 3 applications |
| `sharded` | `IndexesSettled`, `ImplementsLocked`, `EveryCallReturns` | 2 goroutines, 2 subscriptions of one subscriber |
| `plans` | `SerialConsistent`, `ProviderInStep`, `PatchKeepsOthers`, `DeletedIsFinal`, `EventuallyConsistent` | 2 callers, 1 plan of 2 fields, TTL 2 |
| `pool` | `NeverPanics`, `HandledInOrder`, `DrainedByClose`, `EveryEventHandled`, `CloseReturns` | 2 senders, 3 keys on 2 workers, queues of depth 1, 2 events per key |
| `registry` | `DispatchInOrder`, `ImplementsList`, `EveryRegistrationReturns` | 4 registrations, 3 of one type, 1 dispatcher |
| `reporter` | `ReportsAccounted`, `FlushedByClose`, `EventuallyReported`, `FlushReturns` | 3 records, batches of 2, a subscription with a provider ID and one without, 1 fault |
| `limits` | `LimitKept`, `OvershootBounded` | 2 callers, 3 records of 3 metrics (limits 3, 1, none), quantities from -1 to 7 in 4-bit integers, 2 periods |

Each of these runs checks the type invariants of its modules too.

**Why the bounds are enough.** Two subscriptions of one subscriber are the
smallest instance with a second active one, and a violation of an index or of
exclusivity is between two records.  Races between a read and a save need two
callers.  The three applications of `lifecycle` are: calls that overlap and
fail, with webhooks of every effect; calls that overlap and fail and only take
access away; all operations one after the other on the fallback path.  Three
subscriptions give walks of three pages, a cursor with items on both sides, and
shards whose IDs interleave.  A pair of keys on one worker and a queue of depth
1 give full channels and events of different subscriptions behind each other;
one of the hashes has its top bit set.  Three registrations of one type let a
compare-and-swap fail twice.  Three records and batches of two let a record be
left out of a batch and be starved by two that cannot be reported; one fault
(crash, lost answer or failed mark; plain failures are unlimited) gives each
kind of repeated report, and their number is what the theorem lifts.  A request
of 7 wraps 4-bit sums, one of -1 gives a seat back; requests of several metrics can be refused or end half
way.  The theorems of section 5 lift the bounds for every safety property, so
there the instances serve to find mistakes, not to decide; for liveness the
instances are all there is.

**Conditions in the properties.** Each is needed: without it TLC finds a
behaviour of the code that violates the property.

- `AtMostOneActive`: the store is atomic, and no record of the subscriber was
  made active again.  On the fallback path two Subscribe calls both pass the
  check.
- `QuiescentAgreement`: calls on one subscription do not overlap, none fails,
  and the provider changes nothing by itself (`Undisturbed`).
- `IndexesSettled`, `ImplementsLocked`: writes of one subscription do not
  overlap and none makes an inactive record active.
- `SerialConsistent`, `PatchKeepsOthers`, `DeletedIsFinal`: calls on one plan
  are kept apart (`serial`, chosen once).  Otherwise overlapping updates undo
  each other, and one that overlaps a deletion stores the plan again.
  `ProviderInStep` moreover leaves out the plans of which a call failed between
  provider and store (`failed`).
- `NeverPanics`: no webhook is served while Close runs (`abrupt`); it would
  send on a closed channel.
- `NothingRepeated`, `PagesAreNew`: the item that a cursor names was in the next
  listing (`~lost`).  If it was deleted or left the filter, the code starts
  again at the first item: nothing is skipped, but items come twice, and a client
  may be sent round for ever.  `PagesAreNew` says that otherwise a page that names
  a next one is a full page of subscriptions that were in none before.  That a
  walk ends is not claimed: new subscriptions get UUIDv7 IDs, which sort behind
  every cursor, and as long as they are added there is a next page.
- `FlushedByClose`: the final sweep lists every unreported record and nothing
  fails in it (`clean`).  The comment in `usage_reporter.go:73` ("ensures
  records written just before shutdown are not left unreported across
  restarts") states it without; with more records than a batch, or with one
  failure, records wait for the next process.
- `EventuallyReported`: fewer records without a provider ID than a batch holds
  (`Starved`), and a process that is not stopped.
- `ReportsAccounted` counts a report that RecordUsage makes itself
  (`ReportToProvider`) among the causes of a repeated report, because nothing
  marks the record afterwards and the sweeper reports it again.  It also
  reports records without the flag.
- `LimitKept`: requests for a subscription are kept apart (`serial`), no usage
  was recorded outside the period that its check had read (`unchecked`: after
  the end of the period and before the renewal arrives, no check sees it), and
  no sum wrapped (`wrapped`), and no negative quantity was recorded
  (`TakenBack`): a renewal may leave such a record in the old period and keep the
  usage that it had made room for.  A limit that is negative allows nothing, and
  even no usage at all exceeds it.  `OvershootBounded` has the same conditions but
  `serial`; its bound, one limit per caller, is reached.  (Exceeding that bound by
  taking usage back takes more records than the three of the instance.)

Four runs show a disagreement between the code and what it says of itself:

- `resume_second_active` (violates `ActiveFound`): Pause s1, Subscribe s2,
  Resume s1, Pause s1 with a single caller.  Resume writes s1 into the index
  over s2, Pause evicts it, and GetActiveSubscription no longer finds s2.
- `cancel_undone` (violates `CanceledIsFinal`): Cancel at the period end has
  read the record; the provider ends the subscription and its webhook is
  applied; Cancel saves its copy, which is active.
- `sharded_overlap` (violates `SettledAsLocked`): two overlapping saves of one
  subscription update the active index in the other order than the shard.
- `plan_cache_stale` (violates `CacheConsistent`): CreatePlan saves the plan,
  UpdatePlan saves and caches a changed one, CreatePlan then caches its own copy,
  the plan as it was.  A GetPlan that misses and reads the plan before the update
  can do the same.

**Deadlock** is not checked where a behaviour ends because a bound is used up:
the lifecycle runs (the Manager never deletes a subscription), `reporter` and
`limits` (records are never deleted).

**Fairness.** `sharded`: a goroutine that can go on does (weak), and
sync.RWMutex, which gives waiting writers precedence, lets no goroutine starve (strong fairness for the steps
that take `activeMu`).  `plans`: calls return and time passes.  `pool`: workers
run and handlers return (weak), blocked senders of a channel are served in FIFO
order by the runtime (strong), Close goes on once called; nobody is obliged to
call it or to send.  `registry`: every goroutine is scheduled (weak); a lost
compare-and-swap means that another registration succeeded, and there are
finitely many, so no strong fairness is needed.  `reporter`: the sweeper runs
(weak); Go's select chooses among ready cases at random, so a closed `stopC` is
not passed over for ever (strong, `FinalSweep`; with weak fairness
`FlushReturns` fails); a provider asked about a record again and again accepts
it in the end (strong, `ReportAccepted`), without which nothing can be promised.

## 4. Refinements

- `Lifecycle` implements `SubscriptionStore!StoreSpec` (`ObeysStoreContract`):
  the contract that makes the indexes exact is met by the Manager under every
  interleaving.  So does `Pagination`, with its writers (`PaginationObeysStore`).
- `ShardedSubscriptionStore` implements `ExclusiveSpec` with both indexes mapped
  to what the primary map implies (`ImplementsLocked`): an operation takes
  effect when its shard is written.
- `HandlerRegistry` implements `HandlerList` (`ImplementsList`): a registration
  takes effect at its successful compare-and-swap.

TLC checks the three named properties on the instances of section 3, and all
four refinements are proved.

## 5. Theorems

All are checked by TLAPS, for every value of the constants.

| Theorem | Statement |
|---|---|
| `StoreTypeCorrect`, `ProviderIndexCorrect`, `ActiveIndexSoundness` | `StoreSpec` keeps the types, `ProviderIndexExact` and `ActiveIndexSound` |
| `ActiveIndexCorrect` | `ExclusiveSpec => []ActiveIndexExact` |
| `LifecycleTypeCorrect` | `Spec => []LifecycleTypeOK` |
| `CanceledOnlyAtProvider` | `Spec => []CanceledAtProvider` |
| `ManagerObeysStore` | `Spec => ObeysStoreContract` |
| `OneActiveSubscription` | `Spec => []AtMostOneActive` |
| `OrphansOnlyBySubscribe` | `Spec => OrphanedOnlyBySubscribe` |
| `AgreesWhenQuiescent` | `Spec => []QuiescentAgreement` |
| `ShardedTypes` | the sharded store's `Spec => []ShardedTypeOK` |
| `IndexesSettle`, `ShardedImplementsLocked` | given `Serial` and `~Reactivates`, `Spec => []IndexesSettled` and `Spec => ImplementsLocked` |
| `PaginationTypes`, `PagesSkipNothing`, `PagesRepeatNothing`, `PagesBringNew` | `Spec` keeps the types, `NothingSkipped`, `NothingRepeated` and `PagesAreNew` |
| `PaginationObeysStore` | `Spec => StoreSpec` |
| `PlanCacheTypes`, `CacheIsConsistent`, `ProviderKeepsStep` | `Spec` keeps the types, `SerialConsistent` and `ProviderInStep` |
| `UpdateKeepsOtherFields`, `DeletePlanIsFinal` | `Spec => PatchKeepsOthers`, `Spec => DeletedIsFinal` |
| `RegistryTypeCorrect`, `RegistryImplementsList`, `DispatchesInOrder` | `Spec` keeps the types, implements `HandlerList` and keeps `DispatchInOrder` |
| `PoolTypes`, `PoolKeepsOrder`, `CloseDrains` | `Spec` keeps the types, `HandledInOrder` and `DrainedByClose` |
| `PoolNeverPanics` | given `\A k \in Keys : ToInt(Hash[k]) \in Nat`, `Spec => []NeverPanics` |
| `ReporterTypeCorrect`, `ReportsAlwaysAccounted`, `CloseFlushes` | the reporter's `Spec` keeps the types, `ReportsAccounted` and `FlushedByClose` |
| `LimitsTypes`, `LimitIsKept`, `OvershootIsBounded` | `LimitsSpec` keeps the types, `LimitKept` and `OvershootBounded` |

**Assumptions.** `None` differs from every ID, record and event
(`NoneAssumption`, `LifecycleAssumption`, `ShardedAssumption`,
`PlanCacheAssumption`, `RegistryAssumption`, `PoolAssumption`), and the mark of a
deleted plan from every plan; flags are Booleans; `TypeOf` is a function on the
registrations; the shards make up all IDs, which are numbers because
`Pagination` compares them (`PaginationAssumption`); there is a worker and a
queue place, and hashes fit `HashBits` (`PoolAssumption`); the bounds of the
reporter are numbers and its batches not empty (`UsageAssumption`,
`ReporterAssumption`); limits and quantities fit an integer of either sign, as they are any
int64 in the code, times are numbers, and there are finitely many callers
(`LimitsAssumption`).
Nothing is assumed finite in the stores, the lifecycle,
the plans, the pages and the registry; in the pool and for usage the bounds
on events, records and faults are arbitrary numbers, and instants may be infinitely
many.

Two theorems of the sharded store have the hypotheses `Serial` and
`~Reactivates`, under which the run `sharded` checks them; `sharded_overlap`
shows what happens otherwise.  `PoolNeverPanics` supposes that the conversion of
a hash to `int` is not negative, as it is wherever `int` has 64 bits: with 32,
`int(h.Sum32()) % workers` can be negative and the send would index before the
first channel.

**The store.** `IndexInv` joins the types, the fact that a record is stored
under its own ID, and both index invariants.  Each index needs the contract: if
a provider ID were in two records, evicting it for one would lose it for the
other.  There is a lemma per write and per index.

**The lifecycle.** No property of the stored records alone is inductive: what is
saved next is in a call's copy.  `LifecycleInv` adds that a copy has the owner
and provider ID of its record (`CopiesFollow`), that a record about to be
inserted uses an ID nobody else has (`NewIsFresh`), that provider IDs are known
to the provider and in one record or new copy only (`ProviderKnown`,
`ProviderIDsDistinct`), and that a copy that is, or will be saved as, canceled
is canceled at the provider already (`CanceledCopies`).  The last part is the
argument for `CanceledAtProvider`: the provider is asked before the save, ended
is final there, and the webhook is sent only afterwards.

`OneActiveSubscription` needs more: the index must name the active subscription
of every subscriber who is not in `reactivated` (`ActiveIndexed`), and on an
atomic store no Subscribe call ever saves without the check (`AtomicCalls`).
`CreateIndexed` shows that an insert finds the index telling the truth,
`SaveIndexed` that a save of a stale copy either leaves the active one alone or
puts its owner into `reactivated`.

`OrphansOnlyBySubscribe` is a statement about steps.  Saves are the only writes
of a Manager (`StoreWriters`), a saved copy has the provider ID of its record
(`CopiesFollow`) and a new one an ID that no record has (`NewIsFresh`), so that a
stored provider ID stays stored (`RecordKept`); what can still lose its owner is
a copy that a Subscribe call holds.

`AgreesWhenQuiescent` needs to know what is going on while a call is under way.
`AgreementInv` says of an undisturbed application that calls on one subscription
are alone; that before its provider call a call's copy is the record, and
agrees, and after it what it will save agrees with what the provider now has
(`CallAgrees`); and that records nobody works on agree.  `ServedAgrees` compares,
operation by operation, what the provider does with what the Manager will save;
`OwnAgreement` is the frame: a step of one call changes no other subscription,
neither in the store nor at the provider.

**The sharded store.** Between the critical sections of a write an index is out
of date, and the invariant says how: until its own step, each index says of the
subscription what the record said that the writer replaced (`WriterInv`), and of
every other subscription what its record says (`Settled`).  For the provider
index this needs that no provider ID is in two subscriptions, those being
written included (`Unshared`); for the active index, that a Create beyond its
check holds `activeMu` and that its subscriber has no entry, which is why a save
must not make a record active.  `OwnIDOnly` is the frame lemma.  The abstract
indexes of the refinement are what the primary map implies (`ViewExact`);
`SaveShard`, `DeleteShard` and `CreateShard` are the abstract operations, and all
other steps stutter.  The critical case is a Create: its check reads the real
index, the abstract one asks the primary map, and `ActiveNamed` shows that an
active record is the one its subscriber's entry names, unless the holder of
`activeMu` is creating it.

**Pagination.** An item that is there throughout (`stable`) is found in every
shard that was listed (`StableFound`), and if it was in no page it lies beyond
the cursor (`StableAhead`); so when the pages end it was in one.  What was in a
page lies at or before the cursor (`SeenBehind`), unless a cursor was lost.
Neither part needs the shards to be listed in one moment.  `PagesBringNew` counts:
a page that names a next one has as many items as the limit, all of them beyond
the cursor and so in no page before; the store is finite (`Finite`), so the sets
have sizes even where the supply of IDs is not.

**The plans.** `UnderWay` says where store, provider and cache are at each step
of a call, `AtRest` that they agree on a plan nobody works on, `OwnPlanOnly` that
a call leaves all other plans alone.  A call that ends between provider and
store puts its plan into `failed`; from the cache's side nothing is exempted,
since a failed call has not touched the cache yet.  A plan without a ProviderID,
created when no provider was configured, is changed and deleted without a word
to the provider (`NameAtProvider`, `InStep`); `PatchedKeeps` says that no update
changes that.

**The registry.** The invariant is the type; a successful comparison says that
the loaded map is the published one, hence the new map is the published one
with one handler appended.  A published list therefore only grows at its end,
and what a dispatch has called and has still to call remains a run of it.

**The pool.** `HandledInOrder` says that the events of a key that wait are
found, in order, in what its worker holds and in its channel.  The lemmas on
`NumbersOf` say how this placement changes when an event is queued behind the
others or the first one is handled.  To be kept, it needs that a worker only has
events routed to it (`OwnEvents`) and that a key whose index is outside the slice
never gets one queued (`NothingUnrouted`).  `CloseDrains` needs that a worker
that has left has an empty, closed channel (`LeftEmpty`), and `PoolNeverPanics`
that no sender is left when Close begins, or it is `abrupt` (`NoSenderLeft`).

**The reporter.** `ReportsAccounted` alone is not inductive: a sweep could hold
a record that is marked already and report it once more.  `SweeperHolds` says
that the batch and the accepted record are stored, unreported and disjoint:
only the sweeper marks, and it forgets a record before it marks it.
`FlushGoesOn` describes a final sweep half way: every reportable record that
existed at Close is marked, or still in the batch, or about to be marked, as
long as the sweep is `clean`.  A crash keeps both, because it forgets the batch
and counts the accepted record that now stays unmarked.

**The limits.** What has to be bounded is everything recorded since the current
period began (`Since`), whether or not its end has passed: a renewal that
brings a later end makes it count.  Quantities have either sign, so a total is a
natural number only for the buckets that the properties speak of
(`GuardedFacts`); a caller that is about to record a negative quantity is not
among those who may add to the usage, and afterwards nothing is claimed of its
bucket.  Neither property is inductive, because a
caller whose check has passed is going to add to the usage without looking
again.  `LimitsInv` therefore speaks of the callers that are `Pending` for a
metric, in a period that has not ended:

- `Kept`, if requests are kept apart: the usage, and the usage with what the one
  pending caller will add, are within the limit.
- `Overshoot`, otherwise: the usage is at most one limit for each caller that is
  not pending; or some pending caller's check had seen so little that usage and
  request together are at most one limit more.  A caller that records takes one
  limit's worth of place and is free again, and one that passes a check brings
  the second case about with nothing but its own limit.

`Shrinks`, `Joins` and `Leaves` are all that can happen to one bucket, and
`MovesKeep` shows, as a fact about numbers and sets, that they keep both bounds.
For each action it then remains to see which of them it is.  That the check
looked at enough (`PassedFits`) needs the rest of the invariant: no record is
stamped with a time to come (`Stamped`), and a request read a period that began
no later than the present one (`StartedBefore`), unless a renewal moved the
period back, which is why those buckets are in `unchecked`.

The totals need induction along the records.  The theorems of the library that
take a property as a parameter cannot be used by the installed provers;
`Induction`, from the well-founded order of the numbers, takes the set of the
numbers with the property instead.  From it follow that a sum of larger terms is
larger (`SumCompare`, hence `TotalCompare`: where no quantity is negative, a
period within a period has no larger total) and that one more record adds its term (`TotalAppend`).

**Only model-checked.** Liveness under fairness (`EveryCallReturns`,
`EventuallyConsistent`, `EveryEventHandled`, `CloseReturns`,
`EveryRegistrationReturns`, `EventuallyReported`, `FlushReturns`)
is beyond the proof system.  So are the four runs that show a disagreement, whose
counterexamples TLC finds.

## 6. Not modelled

- `periodEnd` and trial dates: a switch over calls of Go's calendar arithmetic.
- GetCurrentUsage, GetUsageReport and the unpaged lists: they read and change
  nothing; SumUsage and ListSubscriptions themselves are modelled.
- A webhook that arrives before Subscribe has inserted the record is
  acknowledged and has no effect; no property says what should become of it.
- Two reporters on one usage store: nothing in the code coordinates them.
- Metrics, error wording, the event-name table, UUID bits, the example.

## 7. Plan

Every safety property of the runs has its theorem.  What is left is to shorten
the longest proofs, those of the sharded store and of the lifecycle, where their
frame arguments (`OwnIDOnly`, `OwnAgreement`) can be shared by more actions.
