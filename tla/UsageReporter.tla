--------------------------- MODULE UsageReporter ---------------------------
(***************************************************************************)
(* usage_reporter.go: the sweeper that reports persisted usage records to  *)
(* the payment provider, with RecordUsage of usage.go, Manager.Close and a *)
(* process that crashes and restarts on a durable store.                   *)
(*                                                                         *)
(* A call of the provider has three outcomes: accepted, failed, or lost,   *)
(* accepted although the caller sees an error.  A lookup or a mark fails   *)
(* with the store or when the sweep's 30 seconds are over.                 *)
(***************************************************************************)
EXTENDS UsageStore

CONSTANTS
  Reportable,  \* the subscription IDs found in the store with a provider ID
  BatchSize,   \* 100 by default
  MaxFaults    \* bound of the crashes, lost answers and failed marks

VARIABLES
  sweeper,   \* the goroutine of run()
  stop,      \* stopC is closed
  direct,    \* records that RecordUsage is about to report itself
  accepted,  \* external: how often the provider has accepted each record
  unmarked,  \* history: those acceptances after which no mark was set
  due,       \* history: the number of records when Close was called
  clean,     \* history: the final sweep listed everything, nothing failed
  faults     \* the faults so far

reporterVars == <<sweeper, stop, direct, accepted, unmarked, due, clean, faults>>

vars == <<log, reporterVars>>

ASSUME ReporterAssumption ==
  /\ Reportable \subseteq SubscriptionIDs
  /\ BatchSize \in Nat \ {0}
  /\ MaxFaults \in Nat

Sweeper ==
  [pc    : {"waiting", "sweeping", "marking", "stopped"},
   batch : SUBSET IDs,        \* still to be visited
   cur   : IDs \cup {0},      \* accepted, to be marked
   final : BOOLEAN]           \* the sweep after stopC was closed

ReporterTypeOK ==
  /\ UsageTypeOK
  /\ sweeper \in Sweeper
  /\ stop \in BOOLEAN
  /\ direct \subseteq DOMAIN log
  /\ accepted \in [IDs -> Nat] /\ unmarked \in [IDs -> Nat]
  /\ due \in 0..MaxRecords
  /\ clean \in BOOLEAN
  /\ faults \in 0..MaxFaults

Waiting == [pc |-> "waiting", batch |-> {}, cur |-> 0, final |-> FALSE]

Init ==
  /\ UsageInit
  /\ sweeper = Waiting
  /\ stop = FALSE
  /\ direct = {}
  /\ accepted = [i \in IDs |-> 0] /\ unmarked = [i \in IDs |-> 0]
  /\ due = 0
  /\ clean = FALSE
  /\ faults = 0

HasProviderID(i) == log[i].SubscriptionID \in Reportable

Accept(i) == accepted' = [accepted EXCEPT ![i] = @ + 1]

NoMark(i) == unmarked' = [unmarked EXCEPT ![i] = @ + 1]

Fault == faults < MaxFaults /\ faults' = faults + 1

-----------------------------------------------------------------------------
(***************************************************************************)
(* RecordUsage: the record is saved first, and reported at once as well if *)
(* the caller asks for it.  That report marks nothing.                     *)
(***************************************************************************)
\* A record that could not be saved is reported all the same.
RecordUsage_Unsaved(record, ReportToProvider) ==
  /\ Len(log) < MaxRecords
  /\ direct' = IF ReportToProvider /\ record.SubscriptionID \in Reportable
               THEN direct \cup {Len(log) + 1} ELSE direct
  /\ \/ SaveUsageRecord(record)
     \/ UNCHANGED log
  /\ UNCHANGED <<sweeper, stop, accepted, unmarked, due, clean, faults>>

RecordUsage(record, ReportToProvider) ==
  /\ SaveUsageRecord(record)
  /\ direct' = IF ReportToProvider /\ record.SubscriptionID \in Reportable
               THEN direct \cup {Len(log) + 1} ELSE direct
  /\ UNCHANGED <<sweeper, stop, accepted, unmarked, due, clean, faults>>

\* An error, whether the provider has accepted or not, is ignored.
DirectReport(i) ==
  /\ i \in direct
  /\ direct' = direct \ {i}
  /\ \/ Accept(i) /\ NoMark(i)
     \/ UNCHANGED <<accepted, unmarked>>
  /\ UNCHANGED <<log, sweeper, stop, due, clean, faults>>

-----------------------------------------------------------------------------
(***************************************************************************)
(* The sweeper.                                                            *)
(***************************************************************************)
\* The ticker fires.  A sweep without records, or without a listing, is over
\* at once.
Tick ==
  /\ sweeper.pc = "waiting"
  /\ \E batch \in ListUnreportedUsage(BatchSize) :
       /\ batch # {}
       /\ sweeper' = [sweeper EXCEPT !.pc = "sweeping", !.batch = batch]
  /\ UNCHANGED <<log, stop, direct, accepted, unmarked, due, clean, faults>>

\* The goroutine returns at once.
FinalSweep_Omitted ==
  /\ sweeper.pc = "waiting" /\ stop
  /\ sweeper' = [sweeper EXCEPT !.pc = "stopped"]
  /\ clean' = (Cardinality(Unreported) <= BatchSize)
  /\ UNCHANGED <<log, stop, direct, accepted, unmarked, due, faults>>

\* stopC is closed: one more sweep, of one more batch.
FinalSweep ==
  /\ sweeper.pc = "waiting" /\ stop
  /\ \E batch \in ListUnreportedUsage(BatchSize) \cup {{}} :
       /\ sweeper' = [sweeper EXCEPT
            !.pc = "sweeping", !.batch = batch, !.final = TRUE]
       /\ clean' = (batch = Unreported)
  /\ UNCHANGED <<log, stop, direct, accepted, unmarked, due, faults>>

\* Done with record i, whatever became of it.
Visited(i) == sweeper' = [sweeper EXCEPT !.batch = @ \ {i}]

\* The subscription has no provider ID.
Skip(i) ==
  /\ sweeper.pc = "sweeping" /\ i \in sweeper.batch /\ ~HasProviderID(i)
  /\ Visited(i)
  /\ UNCHANGED <<log, stop, direct, accepted, unmarked, due, clean, faults>>

Reporting(i) ==
  sweeper.pc = "sweeping" /\ i \in sweeper.batch /\ HasProviderID(i)

ReportAccepted(i) ==
  /\ Reporting(i)
  /\ Accept(i)
  /\ sweeper' = [sweeper EXCEPT !.pc = "marking", !.batch = @ \ {i}, !.cur = i]
  /\ UNCHANGED <<log, stop, direct, unmarked, due, clean, faults>>

\* The record is marked although the report failed.
ReportFails_Marks(i) ==
  /\ Reporting(i)
  /\ Visited(i)
  /\ MarkUsageReported(i)
  /\ clean' = FALSE
  /\ UNCHANGED <<stop, direct, accepted, unmarked, due, faults>>

\* The lookup or the report fails: the record stays unreported.
ReportFails(i) ==
  /\ Reporting(i)
  /\ Visited(i)
  /\ clean' = FALSE
  /\ UNCHANGED <<log, stop, direct, accepted, unmarked, due, faults>>

\* The provider has accepted, the answer is an error.
ReportLost(i) ==
  /\ Reporting(i) /\ Fault
  /\ Accept(i) /\ NoMark(i)
  /\ Visited(i)
  /\ clean' = FALSE
  /\ UNCHANGED <<log, stop, direct, due>>

Marked == [sweeper EXCEPT !.pc = "sweeping", !.cur = 0]

MarkSucceeds ==
  /\ sweeper.pc = "marking"
  /\ MarkUsageReported(sweeper.cur)
  /\ sweeper' = Marked
  /\ UNCHANGED <<stop, direct, accepted, unmarked, due, clean, faults>>

\* The error is ignored; a later sweep reports the record again.
MarkFails ==
  /\ sweeper.pc = "marking" /\ Fault
  /\ NoMark(sweeper.cur)
  /\ sweeper' = Marked
  /\ clean' = FALSE
  /\ UNCHANGED <<log, stop, direct, accepted, due>>

\* The loop goes on after the final sweep.
SweepEnds_LoopsOn ==
  /\ sweeper.pc = "sweeping" /\ sweeper.batch = {}
  /\ sweeper' = Waiting
  /\ UNCHANGED <<log, stop, direct, accepted, unmarked, due, clean, faults>>

SweepEnds ==
  /\ sweeper.pc = "sweeping" /\ sweeper.batch = {}
  /\ sweeper' = IF sweeper.final THEN [sweeper EXCEPT !.pc = "stopped"] ELSE Waiting
  /\ UNCHANGED <<log, stop, direct, accepted, unmarked, due, clean, faults>>

-----------------------------------------------------------------------------
\* Manager.Close, until it waits for the goroutine.
Close ==
  /\ ~stop
  /\ stop' = TRUE
  /\ due' = Len(log)
  /\ UNCHANGED <<log, sweeper, direct, accepted, unmarked, clean, faults>>

\* NewManager of a new process, on the same store.
NewProcess ==
  /\ sweeper' = Waiting
  /\ stop' = FALSE
  /\ direct' = {}
  /\ due' = 0 /\ clean' = FALSE
  /\ UNCHANGED <<log, accepted>>

Restart ==
  /\ sweeper.pc = "stopped"
  /\ NewProcess
  /\ UNCHANGED <<unmarked, faults>>

\* The process ends at any moment.
Crash ==
  /\ sweeper.pc # "stopped" /\ Fault
  /\ NewProcess
  /\ IF sweeper.pc = "marking" THEN NoMark(sweeper.cur) ELSE UNCHANGED unmarked

SweeperStep ==
  \/ Tick \/ FinalSweep \/ SweepEnds \/ MarkSucceeds \/ MarkFails
  \/ \E i \in IDs : Skip(i) \/ ReportAccepted(i) \/ ReportFails(i) \/ ReportLost(i)

Next ==
  \/ \E record \in UsageRecord, now \in BOOLEAN :
       ~record.Reported /\ RecordUsage(record, now)
  \/ \E i \in IDs : DirectReport(i)
  \/ SweeperStep
  \/ Close
  \/ Restart
  \/ Crash

Spec == Init /\ [][Next]_vars

(***************************************************************************)
(* The goroutine runs; a select with two ready cases takes each of them    *)
(* again and again; a provider that is asked about a record again and      *)
(* again accepts it in the end.                                            *)
(***************************************************************************)
FairSpec ==
  /\ Spec
  /\ WF_vars(SweeperStep)
  /\ SF_vars(FinalSweep)
  /\ \A i \in IDs : SF_vars(ReportAccepted(i))

-----------------------------------------------------------------------------
(***************************************************************************)
(* Properties.                                                             *)
(***************************************************************************)
IsMarked(i) == i \in DOMAIN log /\ log[i].Reported

\* Every acceptance by the provider but one is explained by a lost answer, a
\* failed mark, a crash between report and mark, or a report that RecordUsage
\* made itself; the one is there exactly if the record is marked or about to
\* be.  So a marked record was accepted, and a record that met none of these
\* is billed once, over any number of sweeps and restarts.
ReportsAccounted ==
  \A i \in IDs :
    accepted[i] = unmarked[i] + IF IsMarked(i) \/ sweeper.cur = i THEN 1 ELSE 0

\* Close leaves no record behind that existed when it was called and whose
\* subscription has a provider ID, if one batch holds all unreported records
\* and nothing failed in the final sweep.  The comment in run() promises it
\* without the condition.
FlushedByClose ==
  sweeper.pc = "stopped" /\ clean =>
    \A i \in 1..due : HasProviderID(i) => IsMarked(i)

\* The records that can never be reported fill whole batches.
Starved == Cardinality({i \in DOMAIN log : ~HasProviderID(i)}) >= BatchSize

\* A record is marked as reported in the end, through failures and crashes,
\* unless its subscription has no provider ID, such records fill whole batches
\* (every sweep may then list nothing else), or the process was closed.
EventuallyReported ==
  \A i \in IDs :
    i \in DOMAIN log /\ HasProviderID(i)
      ~> IsMarked(i) \/ Starved \/ sweeper.pc = "stopped"

\* Close returns although the ticker goes on firing, unless the process dies.
FlushReturns == stop ~> (sweeper.pc = "stopped" \/ ~stop)
=============================================================================
