---------------------------- MODULE UsageLimits ----------------------------
(***************************************************************************)
(* usage.go: CheckLimits, and the RecordUsage calls of an application that *)
(* asks before it consumes, by several callers, while time passes and      *)
(* renewals (webhook.go) move the billing period.  CheckLimit is the       *)
(* request of one metric.                                                  *)
(***************************************************************************)
EXTENDS UsageStore

CONSTANTS
  Callers,
  Requests,     \* the deltas of the requests: functions from metrics to quantities
  Limits,       \* Limits of the plan; 0, or no entry in the code, is unlimited
  FirstPeriod,  \* the end of the first period
  Renewals,     \* the periods in the data of renewal events, None where missing
  None

VARIABLES
  clock,
  period,     \* CurrentPeriodStart and CurrentPeriodEnd of each subscription
  caller,     \* the request of each caller, or None
  serial,     \* chosen once: requests for one subscription do not overlap
  unchecked,  \* history: the buckets with usage that no check has seen
  wrapped     \* history: the buckets of which a check has added past MaxInt

limitsVars == <<log, clock, period, caller, serial, unchecked, wrapped>>

Request ==
  [sub      : SubscriptionIDs,
   deltas   : Requests,
   start    : Times,           \* the period, as GetSubscription returned it
   end      : Times,
   toCheck  : SUBSET Metrics,  \* with a limit, not compared yet
   toRecord : SUBSET Metrics]

\* Quantities and limits are any int64, of either sign.
Word == (-(MaxInt + 1))..MaxInt

ASSUME LimitsAssumption ==
  /\ Quantities \subseteq Word
  /\ Limits \in [Metrics -> Word]
  /\ Requests \subseteq UNION {[D -> Quantities] : D \in SUBSET Metrics}
  /\ 0 \in Times /\ FirstPeriod \in Times
  /\ Renewals \subseteq [start : Times \cup {None}, end : Times \cup {None}]
  /\ None \notin Times /\ None \notin Request
  /\ IsFiniteSet(Callers)

Buckets == SubscriptionIDs \X Metrics

LimitsTypeOK ==
  /\ UsageTypeOK
  /\ clock \in Times
  /\ period \in [SubscriptionIDs -> [start : Times, end : Times]]
  /\ caller \in [Callers -> Request \cup {None}]
  /\ serial \in BOOLEAN
  /\ unchecked \subseteq Buckets
  /\ wrapped \subseteq Buckets

LimitsInit ==
  /\ UsageInit
  /\ clock = 0
  /\ period = [sub \in SubscriptionIDs |-> [start |-> 0, end |-> FirstPeriod]]
  /\ caller = [c \in Callers |-> None]
  /\ serial \in BOOLEAN
  /\ unchecked = {} /\ wrapped = {}

-----------------------------------------------------------------------------
(***************************************************************************)
(* CheckLimits: the subscription is read once, then each metric is summed  *)
(* and compared by itself.                                                 *)
(***************************************************************************)
Busy(sub) == \E c \in Callers : caller[c] # None /\ caller[c].sub = sub

HasLimit(metric) == Limits[metric] # 0

CheckLimits(c, sub, deltas) ==
  /\ caller[c] = None
  /\ serial => ~Busy(sub)
  /\ caller' = [caller EXCEPT ![c] =
       [sub      |-> sub,
        deltas   |-> deltas,
        start    |-> period[sub].start,
        end      |-> period[sub].end,
        toCheck  |-> {metric \in DOMAIN deltas : HasLimit(metric)},
        toRecord |-> DOMAIN deltas]]
  /\ UNCHANGED <<log, clock, period, serial, unchecked, wrapped>>

\* The usage so far is compared, without what is asked for.
Exceeds_DeltaIgnored(current, delta, limit) == current > limit

\* The sum is an int64.
Exceeds(current, delta, limit) == Wrap(current + delta) > limit

Used(r, metric) == Total(r.sub, metric, r.start, r.end)

Current(r, metric) == SumUsage(r.sub, metric, r.start, r.end)

\* The bucket, if the check of it adds past MaxInt.
Overflow(r, metric) ==
  {b \in {<<r.sub, metric>>} : Used(r, metric) + r.deltas[metric] > MaxInt}

\* The metrics that are still to be checked are forgotten.
Passed_FirstOnly(r, metric) == [r EXCEPT !.toCheck = {}]

Passed(r, metric) == [r EXCEPT !.toCheck = @ \ {metric}]

\* ErrUsageLimitExceeded ends the request; the map's order is any order.
CheckMetric(c, metric) ==
  LET r == caller[c] IN
  /\ r # None
  /\ metric \in r.toCheck
  /\ \/ /\ Exceeds(Current(r, metric), r.deltas[metric], Limits[metric])
        /\ caller' = [caller EXCEPT ![c] = None]
     \/ /\ ~Exceeds(Current(r, metric), r.deltas[metric], Limits[metric])
        /\ caller' = [caller EXCEPT ![c] = Passed(r, metric)]
  /\ wrapped' = wrapped \cup Overflow(r, metric)
  /\ UNCHANGED <<log, clock, period, serial, unchecked>>

\* An error of the store, or an application that changes its mind.
GiveUp(c) ==
  /\ caller[c] # None
  /\ caller' = [caller EXCEPT ![c] = None]
  /\ UNCHANGED <<log, clock, period, serial, unchecked, wrapped>>

-----------------------------------------------------------------------------
\* The application records what the check has allowed, at the time of the call.
RecordAllowed(c, metric) ==
  LET r == caller[c]
      record == [SubscriptionID |-> r.sub, Metric |-> metric,
                 Quantity |-> r.deltas[metric], RecordedAt |-> clock,
                 Reported |-> FALSE] IN
  /\ r # None
  /\ r.toCheck = {} /\ metric \in r.toRecord
  /\ SaveUsageRecord(record)
  /\ caller' = [caller EXCEPT ![c] =
       IF r.toRecord = {metric} THEN None ELSE [r EXCEPT !.toRecord = @ \ {metric}]]
  /\ unchecked' = IF InPeriod(record, r.start, r.end)
                  THEN unchecked ELSE unchecked \cup {<<r.sub, metric>>}
  /\ UNCHANGED <<clock, period, serial, wrapped>>

\* A missing boundary overwrites the stored one.
Renewed_Missing(old, event) == event

\* Each boundary is taken from the event if it is there.
Renewed(old, event) ==
  [start |-> IF event.start = None THEN old.start ELSE event.start,
   end   |-> IF event.end = None THEN old.end ELSE event.end]

\* subscription.renewed, also late, early, repeated or out of order.
Renew(sub, event) ==
  /\ period' = [period EXCEPT ![sub] = Renewed(@, event)]
  /\ unchecked' = unchecked \cup
       {b \in Buckets : b[1] = sub /\ event.start # None
                                   /\ event.start < period[sub].start}
  /\ UNCHANGED <<log, clock, caller, serial, wrapped>>

Elapse ==
  /\ clock + 1 \in Times
  /\ clock' = clock + 1
  /\ UNCHANGED <<log, period, caller, serial, unchecked, wrapped>>

LimitsNext ==
  \/ \E c \in Callers :
       \/ \E sub \in SubscriptionIDs, deltas \in Requests : CheckLimits(c, sub, deltas)
       \/ \E metric \in Metrics : CheckMetric(c, metric) \/ RecordAllowed(c, metric)
       \/ GiveUp(c)
  \/ \E sub \in SubscriptionIDs, event \in Renewals : Renew(sub, event)
  \/ Elapse

LimitsSpec == LimitsInit /\ [][LimitsNext]_limitsVars

-----------------------------------------------------------------------------
(***************************************************************************)
(* Properties.                                                             *)
(***************************************************************************)
Usage(sub, metric) == Total(sub, metric, period[sub].start, period[sub].end)

\* A negative quantity was recorded.  A renewal may leave it behind, and keep
\* the usage that it made room for.
TakenBack(sub, metric) ==
  \E i \in DOMAIN log : Bucket(i) = <<sub, metric>> /\ log[i].Quantity < 0

\* The buckets whose usage the checks have seen and added correctly: nothing
\* was recorded outside the period that its check had read (after the period
\* ended and before the renewal arrived), no renewal moved the period back, no
\* check added past MaxInt, and no usage was taken back.  A negative limit
\* allows nothing, not even the empty usage.
Guarded(sub, metric) ==
  /\ Limits[metric] > 0
  /\ <<sub, metric>> \notin unchecked \cup wrapped
  /\ ~TakenBack(sub, metric)

\* If requests for one subscription are kept apart, its usage in the current
\* period stays within the limit of every metric, through renewals whose data
\* lack a boundary, and requests that end between two of their records.
LimitKept ==
  serial => \A sub \in SubscriptionIDs, metric \in Metrics :
              Guarded(sub, metric) => Usage(sub, metric) <= Limits[metric]

\* Requests that overlap pass the check together, but the usage never exceeds
\* the limit more often than there are callers.
OvershootBounded ==
  \A sub \in SubscriptionIDs, metric \in Metrics :
    Guarded(sub, metric) =>
      Usage(sub, metric) <= Cardinality(Callers) * Limits[metric]
=============================================================================
