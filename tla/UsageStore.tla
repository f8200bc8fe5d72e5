----------------------------- MODULE UsageStore -----------------------------
(***************************************************************************)
(* store/memory/memory.go: UsageStore, the append-only usage records with  *)
(* the mark that the reporter sets.  Every method runs under one           *)
(* sync.RWMutex, so every method is one atomic step here.                  *)
(*                                                                         *)
(* The nested index is one sequence in the order of insertion: a record's  *)
(* ID is its position, and a bucket is the subsequence of one subscription *)
(* and metric.  RecordUsage accepts any subscription ID.                   *)
(***************************************************************************)
EXTENDS Integers, Sequences, FiniteSetsExt

CONSTANTS
  SubscriptionIDs,
  Metrics,
  Quantities,  \* the quantities that callers record
  Times,       \* the instants of RecordedAt
  IntBits,     \* the width of the integers: 64 in the code
  MaxRecords   \* bound of the instance

VARIABLE log   \* the records in the order of insertion

MaxInt == 2^(IntBits - 1) - 1

UsageRecord ==
  [SubscriptionID : SubscriptionIDs,
   Metric         : Metrics,
   Quantity       : Quantities,
   RecordedAt     : Times,
   Reported       : BOOLEAN]  \* ProviderReportedAt is not nil

ASSUME UsageAssumption ==
  /\ IntBits \in Nat \ {0} /\ MaxInt \in Nat
  /\ MaxRecords \in Nat
  /\ Quantities \subseteq Int
  /\ Times \subseteq Nat

IDs == 1..MaxRecords

UsageTypeOK == log \in Seq(UsageRecord) /\ Len(log) <= MaxRecords

UsageInit == log = << >>

-----------------------------------------------------------------------------
SaveUsageRecord(record) ==
  /\ Len(log) < MaxRecords
  /\ log' = Append(log, record)

\* Two's complement.
Wrap(n) == ((n + MaxInt + 1) % (2 * (MaxInt + 1))) - (MaxInt + 1)

InPeriod(record, from, to) ==
  from <= record.RecordedAt /\ record.RecordedAt < to

\* The terms added up one by one, from the first to the last.
SumSeq(terms) ==
  LET sum[n \in 0..Len(terms)] == IF n = 0 THEN 0 ELSE sum[n - 1] + terms[n]
  IN  sum[Len(terms)]

\* What a record adds to the sum of a bucket over [from, to).
Term(record, sub, metric, from, to) ==
  IF /\ record.SubscriptionID = sub /\ record.Metric = metric
     /\ InPeriod(record, from, to)
  THEN record.Quantity ELSE 0

\* The total of a bucket over [from, to), as a mathematical integer.
Total(sub, metric, from, to) ==
  SumSeq([i \in DOMAIN log |-> Term(log[i], sub, metric, from, to)])

\* Additions that wrap wrap the total.
SumUsage(sub, metric, from, to) == Wrap(Total(sub, metric, from, to))

-----------------------------------------------------------------------------
(***************************************************************************)
(* The part of store.ReportableUsageStore.                                 *)
(***************************************************************************)
Unreported == {i \in DOMAIN log : ~log[i].Reported}

Bucket(i) == <<log[i].SubscriptionID, log[i].Metric>>

\* The groups of which some records are taken and some are left.
Cut(batch, Group(_)) ==
  {Group(i) : i \in batch} \cap {Group(i) : i \in Unreported \ batch}

\* The limit counts the records visited, reported ones included.
ListUnreportedUsage_LimitFirst(limit) == {Unreported \cap 1..limit}

\* The batches a call may return: Go visits subscriptions, and the metrics of
\* each, in any order, and the records of a bucket in the order of insertion.
ListUnreportedUsage(limit) ==
  {batch \in SUBSET Unreported :
     /\ Cardinality(batch) = Min({limit, Cardinality(Unreported)})
     /\ Cardinality(Cut(batch, LAMBDA i : log[i].SubscriptionID)) <= 1
     /\ Cardinality(Cut(batch, Bucket)) <= 1
     /\ \A i \in batch, j \in Unreported \ batch :
          Bucket(i) = Bucket(j) => i < j}

MarkUsageReported(i) == log' = [log EXCEPT ![i].Reported = TRUE]
=============================================================================
