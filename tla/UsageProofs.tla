---------------------------- MODULE UsageProofs ----------------------------
(***************************************************************************)
(* Theorems about UsageReporter, for any number of records, batches of any *)
(* size and any number of faults, and about UsageLimits, for any number of *)
(* callers, records, metrics and instants, and integers of any width.      *)
(***************************************************************************)
EXTENDS
  UsageReporter, UsageLimits,
  TLAPS, WellFoundedInduction, FiniteSetTheorems

(***************************************************************************)
(* What the sweeper holds: records that are stored and not yet marked, and *)
(* the one whose report was accepted is none of those it has still to      *)
(* visit.  Without this a sweep could report a marked record again.        *)
(***************************************************************************)
SweeperHolds ==
  /\ sweeper.pc = "marking" <=> sweeper.cur # 0
  /\ sweeper.batch \subseteq Unreported
  /\ sweeper.cur # 0 => sweeper.cur \in Unreported \ sweeper.batch

\* What remains of a final sweep in which nothing has failed so far.
FlushGoesOn ==
  /\ due <= Len(log)
  /\ sweeper.final => stop
  /\ sweeper.pc = "stopped" => sweeper.final
  /\ sweeper.pc = "waiting" => ~sweeper.final
  /\ sweeper.final /\ clean =>
       \A i \in 1..due :
         HasProviderID(i) =>
           \/ IsMarked(i)
           \/ sweeper.pc # "stopped" /\ (i \in sweeper.batch \/ i = sweeper.cur)

ReporterInv == ReporterTypeOK /\ SweeperHolds /\ ReportsAccounted /\ FlushGoesOn

-----------------------------------------------------------------------------
(***************************************************************************)
(* The store.                                                              *)
(***************************************************************************)
\* A new record is unreported and leaves the others as they are.
LEMMA AppendKeeps ==
  ASSUME UsageTypeOK, NEW record \in UsageRecord, ~record.Reported,
         SaveUsageRecord(record)
  PROVE  /\ UsageTypeOK'
         /\ Len(log') = Len(log) + 1
         /\ DOMAIN log' = DOMAIN log \cup {Len(log) + 1}
         /\ \A i \in DOMAIN log : log'[i] = log[i]
         /\ Unreported' = Unreported \cup {Len(log) + 1}
         /\ \A i \in Nat : IsMarked(i)' = IsMarked(i)
  <1>1. /\ log' \in Seq(UsageRecord) /\ Len(log') = Len(log) + 1
        /\ \A i \in 1..Len(log) : log'[i] = log[i]
        /\ log'[Len(log) + 1] = record
    BY DEF UsageTypeOK, SaveUsageRecord
  <1>2. /\ Len(log) \in Nat /\ DOMAIN log = 1..Len(log)
        /\ DOMAIN log' = 1..(Len(log) + 1)
    BY <1>1 DEF UsageTypeOK
  <1>3. DOMAIN log' = DOMAIN log \cup {Len(log) + 1}
    BY <1>2
  <1>4. UsageTypeOK'
    BY <1>1, <1>2, UsageAssumption DEF UsageTypeOK, SaveUsageRecord
  <1>5. Unreported' = Unreported \cup {Len(log) + 1}
    BY <1>1, <1>2, <1>3 DEF Unreported
  <1>6. \A i \in Nat : IsMarked(i)' = IsMarked(i)
    BY <1>1, <1>2, <1>3 DEF IsMarked
  <1> QED BY <1>1, <1>2, <1>3, <1>4, <1>5, <1>6

\* A mark changes one record, and of that only the mark.
LEMMA MarkKeeps ==
  ASSUME UsageTypeOK, NEW i \in DOMAIN log, MarkUsageReported(i)
  PROVE  /\ UsageTypeOK'
         /\ Len(log') = Len(log) /\ DOMAIN log' = DOMAIN log
         /\ \A j \in DOMAIN log : log'[j].SubscriptionID = log[j].SubscriptionID
         /\ Unreported' = Unreported \ {i}
         /\ \A j \in Nat : IsMarked(j)' <=> IsMarked(j) \/ j = i
  <1>1. /\ DOMAIN log = 1..Len(log) /\ Len(log) \in Nat
        /\ log[i] \in UsageRecord
    BY DEF UsageTypeOK
  <1> DEFINE new == [log[i] EXCEPT !.Reported = TRUE]
  <1>2. log' = [log EXCEPT ![i] = new]
    BY DEF MarkUsageReported
  <1>3. /\ new \in UsageRecord
        /\ new.SubscriptionID = log[i].SubscriptionID /\ new.Reported = TRUE
    BY <1>1 DEF UsageRecord
  <1> HIDE DEF new
  <1>4. /\ log' \in Seq(UsageRecord) /\ Len(log') = Len(log)
        /\ DOMAIN log' = DOMAIN log
        /\ \A j \in DOMAIN log : log'[j] = IF j = i THEN new ELSE log[j]
    BY <1>1, <1>2, <1>3 DEF UsageTypeOK
  <1>5. UsageTypeOK'
    BY <1>4 DEF UsageTypeOK
  <1>6. \A j \in DOMAIN log : log'[j].SubscriptionID = log[j].SubscriptionID
    BY <1>3, <1>4
  <1>7. Unreported' = Unreported \ {i}
    BY <1>3, <1>4 DEF Unreported
  <1>8. \A j \in Nat : IsMarked(j)' <=> IsMarked(j) \/ j = i
    BY <1>3, <1>4 DEF IsMarked
  <1> QED BY <1>4, <1>5, <1>6, <1>7, <1>8

\* A batch holds unreported records.
LEMMA BatchUnreported ==
  ASSUME NEW batch \in ListUnreportedUsage(BatchSize)
  PROVE  batch \subseteq Unreported
  BY DEF ListUnreportedUsage

-----------------------------------------------------------------------------
(***************************************************************************)
(* The invariant.                                                          *)
(***************************************************************************)
\* The empty store and the waiting sweeper satisfy it.
LEMMA ReporterInit == Init => ReporterInv
  <1> SUFFICES ASSUME Init PROVE ReporterInv OBVIOUS
  <1> USE DEF Init, UsageInit, Waiting
  <1>1. /\ log \in Seq(UsageRecord) /\ Len(log) = 0 /\ DOMAIN log = {}
    OBVIOUS
  <1>2. ReporterTypeOK
    <2>1. sweeper \in Sweeper
      BY DEF Sweeper
    <2>2. UsageTypeOK
      BY <1>1, UsageAssumption DEF UsageTypeOK
    <2>3. accepted \in [IDs -> Nat] /\ unmarked \in [IDs -> Nat]
      OBVIOUS
    <2>4. due \in 0..MaxRecords /\ faults \in 0..MaxFaults
      BY ReporterAssumption, UsageAssumption
    <2>5. direct \subseteq DOMAIN log /\ stop \in BOOLEAN /\ clean \in BOOLEAN
      OBVIOUS
    <2> QED BY <2>1, <2>2, <2>3, <2>4, <2>5 DEF ReporterTypeOK
  <1>3. SweeperHolds
    BY <1>1 DEF SweeperHolds, Unreported
  <1>4. ReportsAccounted
    BY <1>1 DEF ReportsAccounted, IsMarked, IDs
  <1>5. FlushGoesOn
    BY <1>1 DEF FlushGoesOn
  <1> QED BY <1>2, <1>3, <1>4, <1>5 DEF ReporterInv

\* The caller's part, RecordUsage and its own report, keeps it.
LEMMA CallerSteps ==
  ASSUME ReporterInv,
         \/ \E record \in UsageRecord, now \in BOOLEAN :
              ~record.Reported /\ RecordUsage(record, now)
         \/ \E i \in IDs : DirectReport(i)
  PROVE  ReporterInv'
  <1> USE DEF ReporterInv
  <1>0. /\ Len(log) \in Nat /\ DOMAIN log = 1..Len(log)
        /\ MaxRecords \in Nat /\ due \in Nat /\ sweeper.cur \in Nat
    BY UsageAssumption DEF ReporterTypeOK, UsageTypeOK, Sweeper, IDs
  <1>1. ASSUME NEW record \in UsageRecord, NEW now \in BOOLEAN,
               ~record.Reported, RecordUsage(record, now)
        PROVE  ReporterInv'
    <2>1. /\ UsageTypeOK'
          /\ Len(log') = Len(log) + 1
          /\ DOMAIN log' = DOMAIN log \cup {Len(log) + 1}
          /\ \A i \in DOMAIN log : log'[i] = log[i]
          /\ Unreported' = Unreported \cup {Len(log) + 1}
          /\ \A i \in Nat : IsMarked(i)' = IsMarked(i)
      BY <1>1, AppendKeeps DEF RecordUsage, ReporterTypeOK
    <2> USE <1>1 DEF RecordUsage
    <2>2. ReporterTypeOK'
      BY <2>1 DEF ReporterTypeOK
    <2>3. SweeperHolds'
      <3>1. Len(log) + 1 \notin Unreported
        BY <1>0 DEF Unreported
      <3>2. sweeper.cur # 0 => sweeper.cur \in Unreported \ sweeper.batch
        BY DEF SweeperHolds
      <3> QED BY <2>1, <3>1, <3>2 DEF SweeperHolds
    <2>4. ReportsAccounted'
      BY <2>1 DEF ReportsAccounted, IDs
    <2>5. FlushGoesOn'
      <3>1. due <= Len(log) /\ due <= Len(log')
        BY <1>0, <2>1 DEF FlushGoesOn
      <3>2. \A i \in 1..due : HasProviderID(i)' = HasProviderID(i)
        BY <1>0, <2>1, <3>1 DEF HasProviderID
      <3>3. \A i \in 1..due : IsMarked(i)' = IsMarked(i)
        BY <1>0, <2>1
      <3> QED BY <3>1, <3>2, <3>3 DEF FlushGoesOn
    <2> QED BY <2>2, <2>3, <2>4, <2>5
  <1>2. ASSUME NEW i \in IDs, DirectReport(i)
        PROVE  ReporterInv'
    <2> USE <1>2 DEF DirectReport, Accept, NoMark
    <2>1. ReporterTypeOK'
      <3>1. UsageTypeOK'
        BY DEF ReporterTypeOK, UsageTypeOK
      <3>2. accepted' \in [IDs -> Nat] /\ unmarked' \in [IDs -> Nat]
        BY DEF ReporterTypeOK
      <3> QED BY <3>1, <3>2 DEF ReporterTypeOK
    <2>2. SweeperHolds'
      BY DEF SweeperHolds, Unreported
    <2>3. ReportsAccounted'
      BY DEF ReportsAccounted, IsMarked, ReporterTypeOK
    <2>4. FlushGoesOn'
      BY DEF FlushGoesOn, HasProviderID, IsMarked
    <2> QED BY <2>1, <2>2, <2>3, <2>4
  <1> QED BY <1>1, <1>2

\* A sweep begins with unreported records; the final one with all of them, or it
\* is not clean.
LEMMA SweepBegins ==
  ASSUME ReporterInv, Tick \/ FinalSweep
  PROVE  ReporterInv'
  <1> USE DEF ReporterInv
  <1>1. PICK batch \in SUBSET Unreported, final \in BOOLEAN :
          /\ sweeper.pc = "waiting" /\ (final => stop)
          /\ sweeper' = [sweeper EXCEPT !.pc = "sweeping", !.batch = batch,
                                        !.final = final]
          /\ final => clean' = (batch = Unreported)
          /\ ~final => clean' = clean
          /\ clean' \in BOOLEAN
          /\ UNCHANGED <<log, stop, direct, accepted, unmarked, due, faults>>
    <2>1. CASE Tick
      <3>1. PICK batch \in ListUnreportedUsage(BatchSize) :
              sweeper' = [sweeper EXCEPT !.pc = "sweeping", !.batch = batch]
        BY <2>1 DEF Tick
      <3>2. batch \in SUBSET Unreported /\ sweeper.final = FALSE
        BY <2>1, BatchUnreported DEF FlushGoesOn, Tick, ReporterTypeOK, Sweeper
      <3>3. sweeper' = [sweeper EXCEPT !.pc = "sweeping", !.batch = batch,
                                       !.final = FALSE]
        BY <3>1, <3>2 DEF ReporterTypeOK, Sweeper
      <3>4. clean' \in BOOLEAN /\ clean' = clean
        BY <2>1 DEF Tick, ReporterTypeOK
      <3> QED BY <2>1, <3>2, <3>3, <3>4 DEF Tick
    <2>2. CASE FinalSweep
      <3>1. PICK batch \in ListUnreportedUsage(BatchSize) \cup {{}} :
              /\ sweeper' = [sweeper EXCEPT
                   !.pc = "sweeping", !.batch = batch, !.final = TRUE]
              /\ clean' = (batch = Unreported)
        BY <2>2 DEF FinalSweep
      <3>2. batch \in SUBSET Unreported
        BY BatchUnreported
      <3>3. clean' \in BOOLEAN
        BY <3>1
      <3> QED BY <2>2, <3>1, <3>2, <3>3 DEF FinalSweep
    <2> QED BY <2>1, <2>2
  <1>2. /\ sweeper'.pc = "sweeping" /\ sweeper'.batch = batch
        /\ sweeper'.cur = sweeper.cur /\ sweeper'.final = final
        /\ sweeper.cur = 0
    BY <1>1 DEF ReporterTypeOK, Sweeper, SweeperHolds
  <1>3. ReporterTypeOK'
    <2>1. Unreported \subseteq IDs
      BY UsageAssumption DEF Unreported, IDs, ReporterTypeOK, UsageTypeOK
    <2>2. sweeper' \in Sweeper
      BY <1>1, <2>1 DEF ReporterTypeOK, Sweeper
    <2> QED BY <1>1, <2>2 DEF ReporterTypeOK, UsageTypeOK
  <1>4. SweeperHolds'
    BY <1>1, <1>2 DEF SweeperHolds, Unreported
  <1>5. ReportsAccounted'
    BY <1>1, <1>2 DEF ReportsAccounted, IsMarked
  <1>6. FlushGoesOn'
    <2>1. /\ due' <= Len(log') /\ (sweeper'.final => stop')
          /\ (sweeper'.pc = "stopped" => sweeper'.final)
          /\ (sweeper'.pc = "waiting" => ~sweeper'.final)
      BY <1>1, <1>2 DEF FlushGoesOn
    <2>2. ASSUME final, clean', NEW i \in 1..due
          PROVE  IsMarked(i)' \/ i \in sweeper'.batch
      <3>1. i \in DOMAIN log
        BY UsageAssumption DEF FlushGoesOn, ReporterTypeOK, UsageTypeOK
      <3>2. batch = Unreported
        BY <1>1, <2>2
      <3> QED BY <1>1, <1>2, <3>1, <3>2 DEF IsMarked, Unreported
    <2> QED BY <1>1, <1>2, <2>1, <2>2 DEF FlushGoesOn
  <1> QED BY <1>3, <1>4, <1>5, <1>6

\* One record less to visit: skipped, failed, lost, or accepted and to be marked.
LEMMA RecordVisited ==
  ASSUME ReporterInv, NEW i \in IDs,
         Skip(i) \/ ReportAccepted(i) \/ ReportFails(i) \/ ReportLost(i)
  PROVE  ReporterInv'
  <1> USE DEF ReporterInv
  <1>1. /\ sweeper.pc = "sweeping" /\ i \in sweeper.batch
        /\ UNCHANGED <<log, stop, direct, due>>
        /\ sweeper.cur = 0 /\ i # 0
    BY UsageAssumption DEF Skip, ReportAccepted, ReportFails, ReportLost, Reporting,
       SweeperHolds, IDs
  <1>2. /\ sweeper'.batch = sweeper.batch \ {i} /\ sweeper'.final = sweeper.final
        /\ \/ sweeper'.pc = "sweeping" /\ sweeper'.cur = 0
           \/ sweeper'.pc = "marking" /\ sweeper'.cur = i
        /\ sweeper' \in Sweeper
    BY <1>1 DEF Skip, ReportAccepted, ReportFails, ReportLost, Visited,
       ReporterTypeOK, Sweeper
  <1>3. ReporterTypeOK'
    <2>1. accepted' \in [IDs -> Nat] /\ unmarked' \in [IDs -> Nat]
      BY DEF Skip, ReportAccepted, ReportFails, ReportLost, Accept, NoMark,
         ReporterTypeOK
    <2>2. faults' \in 0..MaxFaults
      BY ReporterAssumption DEF Skip, ReportAccepted, ReportFails, ReportLost, Fault,
         ReporterTypeOK
    <2>3. clean' \in BOOLEAN
      BY DEF Skip, ReportAccepted, ReportFails, ReportLost, ReporterTypeOK
    <2> QED BY <1>1, <1>2, <2>1, <2>2, <2>3 DEF ReporterTypeOK, UsageTypeOK
  <1>4. SweeperHolds'
    BY <1>1, <1>2 DEF SweeperHolds, Unreported
  <1>5. ReportsAccounted'
    <2>1. ~IsMarked(i) /\ accepted[i] = unmarked[i]
      BY <1>1 DEF ReportsAccounted, SweeperHolds, IsMarked, Unreported, ReporterTypeOK
    <2>2. \/ accepted' = accepted /\ unmarked' = unmarked /\ sweeper'.cur = 0
          \/ Accept(i) /\ unmarked' = unmarked /\ sweeper'.cur = i
          \/ Accept(i) /\ NoMark(i) /\ sweeper'.cur = 0
      BY <1>1 DEF Skip, ReportAccepted, ReportFails, ReportLost, Visited,
         ReporterTypeOK, Sweeper
    <2>3. \A j \in IDs : IsMarked(j)' = IsMarked(j)
      BY <1>1 DEF IsMarked
    <2>4. SUFFICES ASSUME NEW j \in IDs
          PROVE accepted'[j] = unmarked'[j]
                  + IF IsMarked(j)' \/ sweeper'.cur = j THEN 1 ELSE 0
      BY DEF ReportsAccounted
    <2>5. /\ accepted[j] \in Nat /\ unmarked[j] \in Nat /\ j # 0
          /\ accepted[j] = unmarked[j] + IF IsMarked(j) THEN 1 ELSE 0
      BY <1>1, UsageAssumption DEF ReportsAccounted, ReporterTypeOK, IDs
    <2>6. /\ Accept(i) => accepted'[j] = accepted[j] + IF j = i THEN 1 ELSE 0
          /\ NoMark(i) => unmarked'[j] = unmarked[j] + IF j = i THEN 1 ELSE 0
      BY DEF Accept, NoMark, ReporterTypeOK
    <2>7. CASE j = i
      BY <1>1, <2>1, <2>2, <2>3, <2>5, <2>6, <2>7
    <2>8. CASE j # i
      BY <1>1, <2>2, <2>3, <2>5, <2>6, <2>8
    <2> QED BY <2>7, <2>8
  <1>6. FlushGoesOn'
    <2>1. clean' => /\ clean
                    /\ ~HasProviderID(i) \/ sweeper'.cur = i
      BY DEF Skip, ReportAccepted, ReportFails, ReportLost, ReporterTypeOK, Sweeper
    <2>2. \A j \in 1..due : j # 0
      OBVIOUS
    <2> QED BY <1>1, <1>2, <2>1, <2>2 DEF FlushGoesOn, HasProviderID, IsMarked
  <1> QED BY <1>3, <1>4, <1>5, <1>6

\* The accepted record is marked, or it counts as accepted without a mark.
LEMMA RecordMarked ==
  ASSUME ReporterInv, MarkSucceeds \/ MarkFails
  PROVE  ReporterInv'
  <1> USE DEF ReporterInv
  <1> DEFINE i == sweeper.cur
  <1>1. /\ sweeper.pc = "marking" /\ sweeper' = Marked
        /\ UNCHANGED <<stop, direct, accepted, due>>
        /\ i \in Unreported \ sweeper.batch /\ i \in DOMAIN log
    BY DEF MarkSucceeds, MarkFails, SweeperHolds, Unreported
  <1>2. /\ sweeper'.pc = "sweeping" /\ sweeper'.cur = 0
        /\ sweeper'.batch = sweeper.batch /\ sweeper'.final = sweeper.final
        /\ sweeper' \in Sweeper
    BY <1>1 DEF Marked, ReporterTypeOK, Sweeper
  <1>3. /\ Len(log) \in Nat /\ DOMAIN log = 1..Len(log) /\ due \in Nat
        /\ MaxRecords \in Nat /\ i \in IDs /\ i \in Nat /\ i # 0
        /\ due <= Len(log) /\ ~IsMarked(i)
    BY <1>1, UsageAssumption
       DEF ReporterTypeOK, UsageTypeOK, IDs, FlushGoesOn, IsMarked, Unreported
  <1> HIDE DEF i
  <1>4. CASE MarkSucceeds
    <2>1. /\ UsageTypeOK'
          /\ Len(log') = Len(log) /\ DOMAIN log' = DOMAIN log
          /\ \A j \in DOMAIN log : log'[j].SubscriptionID = log[j].SubscriptionID
          /\ Unreported' = Unreported \ {i}
          /\ \A j \in Nat : IsMarked(j)' <=> IsMarked(j) \/ j = i
      BY <1>1, <1>4, MarkKeeps DEF MarkSucceeds, ReporterTypeOK, i
    <2>2. UNCHANGED <<unmarked, clean, faults>>
      BY <1>4 DEF MarkSucceeds
    <2>3. ReporterTypeOK'
      BY <1>1, <1>2, <2>1, <2>2 DEF ReporterTypeOK
    <2>4. SweeperHolds'
      BY <1>1, <1>2, <2>1 DEF SweeperHolds
    <2>5. ReportsAccounted'
      <3>1. \A j \in IDs : j \in Nat /\ j # 0
        BY UsageAssumption DEF IDs
      <3>2. \A j \in IDs : IsMarked(j)' \/ sweeper'.cur = j
                             <=> IsMarked(j) \/ sweeper.cur = j
        BY <1>2, <2>1, <3>1 DEF i
      <3> QED BY <1>1, <2>2, <3>2 DEF ReportsAccounted
    <2>6. FlushGoesOn'
      <3>1. \A j \in 1..due : HasProviderID(j)' = HasProviderID(j)
        BY <1>3, <2>1 DEF HasProviderID
      <3>2. \A j \in 1..due : IsMarked(j)' <=> IsMarked(j) \/ j = sweeper.cur
        BY <1>3, <2>1 DEF i
      <3> QED BY <1>1, <1>2, <2>1, <2>2, <3>1, <3>2 DEF FlushGoesOn
    <2> QED BY <2>3, <2>4, <2>5, <2>6
  <1>5. CASE MarkFails
    <2>1. /\ UNCHANGED log /\ clean' = FALSE
          /\ unmarked' = [unmarked EXCEPT ![i] = @ + 1]
          /\ faults < MaxFaults /\ faults' = faults + 1
      BY <1>5 DEF MarkFails, NoMark, Fault, i
    <2>2. ReporterTypeOK'
      <3>1. unmarked' \in [IDs -> Nat]
        BY <1>3, <2>1 DEF ReporterTypeOK
      <3>2. faults' \in 0..MaxFaults
        BY <2>1, ReporterAssumption DEF ReporterTypeOK
      <3> QED BY <1>1, <1>2, <2>1, <3>1, <3>2 DEF ReporterTypeOK, UsageTypeOK
    <2>3. SweeperHolds'
      BY <1>1, <1>2, <2>1 DEF SweeperHolds, Unreported
    <2>4. ReportsAccounted'
      <3>1. SUFFICES ASSUME NEW j \in IDs
            PROVE accepted'[j] = unmarked'[j]
                    + IF IsMarked(j)' \/ sweeper'.cur = j THEN 1 ELSE 0
        BY DEF ReportsAccounted
      <3>2. /\ accepted[j] \in Nat /\ unmarked[j] \in Nat /\ j # 0
            /\ accepted[j] = unmarked[j] + IF IsMarked(j) \/ i = j THEN 1 ELSE 0
        BY UsageAssumption DEF ReportsAccounted, ReporterTypeOK, IDs, i
      <3>3. unmarked'[j] = unmarked[j] + IF j = i THEN 1 ELSE 0
        BY <2>1 DEF ReporterTypeOK
      <3>4. IsMarked(j)' = IsMarked(j)
        BY <2>1 DEF IsMarked
      <3>5. CASE j = i
        BY <1>1, <1>2, <1>3, <3>2, <3>3, <3>4, <3>5
      <3>6. CASE j # i
        BY <1>1, <1>2, <3>2, <3>3, <3>4, <3>6
      <3> QED BY <3>5, <3>6
    <2>5. FlushGoesOn'
      BY <1>1, <1>2, <2>1 DEF FlushGoesOn
    <2> QED BY <2>2, <2>3, <2>4, <2>5
  <1> QED BY <1>4, <1>5

\* A sweep that has visited its batch ends; the final one stops the goroutine.
LEMMA SweepOver ==
  ASSUME ReporterInv, SweepEnds
  PROVE  ReporterInv'
  <1> USE DEF ReporterInv, SweepEnds
  <1>1. sweeper.cur = 0 /\ sweeper.batch = {} /\ sweeper.pc = "sweeping"
    BY DEF SweeperHolds
  <1>2. /\ sweeper'.batch = {} /\ sweeper'.cur = 0
        /\ sweeper'.final = sweeper.final
        /\ sweeper'.pc = IF sweeper.final THEN "stopped" ELSE "waiting"
        /\ sweeper' \in Sweeper
    BY <1>1 DEF Waiting, ReporterTypeOK, Sweeper
  <1>3. ReporterTypeOK'
    BY <1>2 DEF ReporterTypeOK, UsageTypeOK
  <1>4. SweeperHolds'
    BY <1>2 DEF SweeperHolds, Unreported
  <1>5. ReportsAccounted'
    BY <1>1, <1>2 DEF ReportsAccounted, IsMarked
  <1>6. FlushGoesOn'
    <2>1. \A j \in 1..due : j # 0
      OBVIOUS
    <2> QED BY <1>1, <1>2, <2>1 DEF FlushGoesOn, HasProviderID, IsMarked
  <1> QED BY <1>3, <1>4, <1>5, <1>6

\* Close, and a new process after a stop or a crash.
LEMMA ProcessSteps ==
  ASSUME ReporterInv, Close \/ Restart \/ Crash
  PROVE  ReporterInv'
  <1> USE DEF ReporterInv
  <1>1. Len(log) \in 0..MaxRecords /\ MaxRecords \in Nat
    BY UsageAssumption DEF ReporterTypeOK, UsageTypeOK
  <1>2. CASE Close
    <2> USE <1>2 DEF Close
    <2>1. ReporterTypeOK'
      BY <1>1 DEF ReporterTypeOK, UsageTypeOK
    <2>2. SweeperHolds'
      BY DEF SweeperHolds, Unreported
    <2>3. ReportsAccounted'
      BY DEF ReportsAccounted, IsMarked
    <2>4. FlushGoesOn'
      BY <1>1 DEF FlushGoesOn
    <2> QED BY <2>1, <2>2, <2>3, <2>4
  <1>3. CASE Restart \/ Crash
    <2>1. /\ sweeper' = Waiting /\ stop' = FALSE /\ direct' = {}
          /\ due' = 0 /\ clean' = FALSE /\ UNCHANGED <<log, accepted>>
          /\ IF sweeper.cur # 0 THEN NoMark(sweeper.cur) ELSE UNCHANGED unmarked
          /\ faults' \in 0..MaxFaults
      BY <1>3, ReporterAssumption
         DEF Restart, Crash, NewProcess, Fault, SweeperHolds, ReporterTypeOK
    <2>2. /\ sweeper'.pc = "waiting" /\ sweeper'.batch = {}
          /\ sweeper'.cur = 0 /\ sweeper'.final = FALSE /\ sweeper' \in Sweeper
      BY <2>1 DEF Waiting, Sweeper
    <2>3. ReporterTypeOK'
      <3>1. unmarked' \in [IDs -> Nat]
        BY <2>1 DEF NoMark, ReporterTypeOK
      <3>2. UsageTypeOK' /\ due' \in 0..MaxRecords /\ accepted' \in [IDs -> Nat]
        BY <1>1, <2>1 DEF ReporterTypeOK, UsageTypeOK
      <3>3. direct' \subseteq DOMAIN log' /\ stop' \in BOOLEAN /\ clean' \in BOOLEAN
        BY <2>1
      <3> QED BY <2>1, <2>2, <3>1, <3>2, <3>3 DEF ReporterTypeOK
    <2>4. SweeperHolds'
      BY <2>2 DEF SweeperHolds
    <2>5. ReportsAccounted'
      <3>1. SUFFICES ASSUME NEW j \in IDs
            PROVE accepted'[j] = unmarked'[j]
                    + IF IsMarked(j)' \/ sweeper'.cur = j THEN 1 ELSE 0
        BY DEF ReportsAccounted
      <3>2. /\ accepted[j] \in Nat /\ unmarked[j] \in Nat /\ j # 0
            /\ accepted[j] = unmarked[j]
                 + IF IsMarked(j) \/ sweeper.cur = j THEN 1 ELSE 0
        BY UsageAssumption DEF ReportsAccounted, ReporterTypeOK, IDs
      <3>3. unmarked'[j] = unmarked[j] + IF j = sweeper.cur THEN 1 ELSE 0
        BY <2>1, <3>2 DEF NoMark, ReporterTypeOK
      <3>4. IsMarked(j)' = IsMarked(j)
        BY <2>1 DEF IsMarked
      <3>5. j = sweeper.cur => ~IsMarked(j)
        BY <3>2 DEF SweeperHolds, Unreported, IsMarked
      <3>6. CASE j = sweeper.cur
        BY <2>1, <2>2, <3>2, <3>3, <3>4, <3>5, <3>6
      <3>7. CASE j # sweeper.cur
        BY <2>1, <2>2, <3>2, <3>3, <3>4, <3>7
      <3> QED BY <3>6, <3>7
    <2>6. FlushGoesOn'
      BY <1>1, <2>1, <2>2 DEF FlushGoesOn
    <2> QED BY <2>3, <2>4, <2>5, <2>6
  <1> QED BY <1>2, <1>3

\* Every step keeps it.
LEMMA ReporterStep == ReporterInv /\ [Next]_vars => ReporterInv'
  <1> SUFFICES ASSUME ReporterInv, [Next]_vars PROVE ReporterInv' OBVIOUS
  <1>1. CASE UNCHANGED vars
    <2> USE <1>1 DEF vars, reporterVars
    <2>1. ReporterTypeOK'
      BY DEF ReporterInv, ReporterTypeOK, UsageTypeOK
    <2>2. SweeperHolds' /\ ReportsAccounted'
      BY DEF ReporterInv, SweeperHolds, Unreported, ReportsAccounted, IsMarked
    <2>3. FlushGoesOn'
      BY DEF ReporterInv, FlushGoesOn, HasProviderID, IsMarked
    <2> QED BY <2>1, <2>2, <2>3 DEF ReporterInv
  <1>2. CASE SweeperStep
    BY <1>2, SweepBegins, RecordVisited, RecordMarked, SweepOver DEF SweeperStep
  <1>3. CASE Close \/ Restart \/ Crash
    BY <1>3, ProcessSteps
  <1> QED BY <1>1, <1>2, <1>3, CallerSteps DEF Next

-----------------------------------------------------------------------------
(***************************************************************************)
(* The theorems.                                                           *)
(***************************************************************************)
\* The inductive invariant holds in every behaviour.
LEMMA ReporterInvAlways == Spec => []ReporterInv
  BY ReporterInit, ReporterStep, PTL DEF Spec

\* The variables of the reporter keep their types through sweeps and crashes.
THEOREM ReporterTypeCorrect == Spec => []ReporterTypeOK
  <1>1. ReporterInv => ReporterTypeOK
    BY DEF ReporterInv
  <1> QED BY <1>1, ReporterInvAlways, PTL

\* sweep(), RecordUsage and crashes: the provider accepts a record once more
\* than there are lost answers, lost marks and reports of RecordUsage itself if
\* the record is marked or about to be, and exactly that often otherwise.
THEOREM ReportsAlwaysAccounted == Spec => []ReportsAccounted
  <1>1. ReporterInv => ReportsAccounted
    BY DEF ReporterInv
  <1> QED BY <1>1, ReporterInvAlways, PTL

\* run() and Close: a final sweep that lists every unreported record and meets no
\* failure leaves no reportable record behind, for batches of any size.
THEOREM CloseFlushes == Spec => []FlushedByClose
  <1>1. ReporterInv => FlushedByClose
    BY DEF ReporterInv, FlushGoesOn, FlushedByClose
  <1> QED BY <1>1, ReporterInvAlways, PTL

-----------------------------------------------------------------------------
(***************************************************************************)
(* Sums.  What a record adds to a total, and how totals compare, follows   *)
(* by induction along the records, for which the set of the numbers with   *)
(* the property stands for the property.                                   *)
(***************************************************************************)
\* A set that holds 0 and the successor of each of its members holds all.
LEMMA Induction ==
  ASSUME NEW S \in SUBSET Nat, 0 \in S, \A n \in S : n + 1 \in S
  PROVE  S = Nat
  <1> DEFINE T == Nat \ S
             R == OpToRel(<, Nat)
  <1>1. SUFFICES ASSUME T # {} PROVE FALSE
    OBVIOUS
  <1>2. IsWellFoundedOn(R, Nat)
    BY NatLessThanWellFounded
  <1>3. \E n \in T : \A m \in T : <<m, n>> \notin R
    <2>1. T \subseteq Nat
      OBVIOUS
    <2> HIDE DEF R, T
    <2> QED BY <1>1, <1>2, <2>1, WFMin
  <1>4. PICK n \in T : \A m \in T : <<m, n>> \notin R
    BY <1>3
  <1>5. \A m \in T : ~(m < n)
    BY <1>4 DEF OpToRel
  <1>6. n - 1 \in Nat /\ n - 1 \in S
    BY <1>5
  <1> QED BY <1>6

\* g holds the sums of the first terms.
RunningSum(g, terms) ==
  /\ g \in [0..Len(terms) -> Int]
  /\ g[0] = 0
  /\ \A m \in 1..Len(terms) : g[m] = g[m - 1] + terms[m]

\* There are such sums: the sums of n terms extend to n + 1.
LEMMA RunningSumExists ==
  ASSUME NEW terms \in Seq(Int)
  PROVE  \E g : RunningSum(g, terms)
  <1> DEFINE N == Len(terms)
             Upto(n) == {g \in [0..n -> Int] :
                           g[0] = 0 /\ \A m \in 1..n : g[m] = g[m - 1] + terms[m]}
             S == {n \in Nat : n <= N => Upto(n) # {}}
  <1>1. N \in Nat /\ \A m \in 1..N : terms[m] \in Int
    OBVIOUS
  <1>2. 0 \in S
    <2>1. [m \in 0..0 |-> 0] \in Upto(0)
      OBVIOUS
    <2> QED BY <2>1
  <1>3. ASSUME NEW n \in S PROVE n + 1 \in S
    <2> HIDE DEF Upto
    <2>0. n \in Nat /\ (n <= N => Upto(n) # {})
      BY <1>3
    <2> SUFFICES ASSUME n + 1 <= N PROVE Upto(n + 1) # {}
      BY <2>0
    <2>1. PICK g : g \in Upto(n)
      BY <1>1, <2>0
    <2> USE DEF Upto
    <2> DEFINE h == [m \in 0..(n + 1) |-> IF m = n + 1 THEN g[n] + terms[n + 1] ELSE g[m]]
    <2>2. g[n] \in Int /\ terms[n + 1] \in Int /\ n \in Nat
      BY <1>1, <2>0, <2>1
    <2>3. \A m \in 0..n : h[m] = g[m] /\ g[m] \in Int
      <3>1. \A m \in 0..n : m \in 0..(n + 1) /\ m # n + 1
        BY <2>2
      <3>2. \A m \in 0..n : g[m] \in Int
        BY <2>1
      <3> QED BY <3>1, <3>2
    <2>4. h[n + 1] = g[n] + terms[n + 1]
      <3>1. n + 1 \in 0..(n + 1)
        BY <2>2
      <3> QED BY <3>1
    <2>5. h \in [0..(n + 1) -> Int]
      <3>1. \A m \in 0..(n + 1) : m # n + 1 => m \in 0..n
        BY <2>2
      <3>2. \A m \in 0..(n + 1) : h[m] \in Int
        <4>1. SUFFICES ASSUME NEW m \in 0..(n + 1) PROVE h[m] \in Int
          OBVIOUS
        <4> HIDE DEF h
        <4>2. CASE m = n + 1
          BY <2>2, <2>4, <4>2
        <4>3. CASE m # n + 1
          BY <2>3, <3>1, <4>3
        <4> QED BY <4>2, <4>3
      <3> QED BY <3>2
    <2> HIDE DEF h
    <2>6. \A m \in 1..(n + 1) : h[m] = h[m - 1] + terms[m]
      <3>1. SUFFICES ASSUME NEW m \in 1..(n + 1) PROVE h[m] = h[m - 1] + terms[m]
        OBVIOUS
      <3>2. CASE m = n + 1
        BY <2>2, <2>3, <2>4, <3>2
      <3>3. CASE m \in 1..n
        <4>1. g[m] = g[m - 1] + terms[m]
          BY <2>1, <3>3
        <4>2. m - 1 \in 0..n /\ m \in 0..n
          BY <2>2, <3>3
        <4> QED BY <2>3, <4>1, <4>2
      <3> QED BY <2>2, <3>2, <3>3
    <2>7. h[0] = 0
      BY <2>1, <2>2, <2>3
    <2> QED BY <2>5, <2>6, <2>7
  <1>4. N \in S
    <2> HIDE DEF S
    <2> QED BY <1>1, <1>2, <1>3, Induction DEF S
  <1> QED BY <1>1, <1>4 DEF RunningSum

\* SumSeq is the last of them.
LEMMA SumIsRunning ==
  ASSUME NEW terms \in Seq(Int)
  PROVE  \E g : RunningSum(g, terms) /\ SumSeq(terms) = g[Len(terms)]
  <1> DEFINE N == Len(terms)
             Rec(g) == g = [n \in 0..N |-> IF n = 0 THEN 0 ELSE g[n - 1] + terms[n]]
             h == CHOOSE g : Rec(g)
  <1>1. N \in Nat
    OBVIOUS
  <1>2. PICK g : RunningSum(g, terms)
    BY RunningSumExists
  <1>3. Rec(g)
    BY <1>1, <1>2 DEF RunningSum
  <1>4. Rec(h)
    <2> HIDE DEF Rec
    <2> QED BY <1>3
  <1>5. SumSeq(terms) = h[N]
    BY DEF SumSeq
  <1> HIDE DEF h
  <1>6. DOMAIN h = 0..N /\ h[0] = 0 /\ \A m \in 1..N : h[m] = h[m - 1] + terms[m]
    BY <1>1, <1>4
  <1> DEFINE S == {n \in Nat : n <= N => h[n] = g[n]}
  <1>7. S = Nat
    <2>1. 0 \in S
      BY <1>2, <1>6 DEF RunningSum
    <2>2. ASSUME NEW n \in S PROVE n + 1 \in S
      <3> SUFFICES ASSUME n + 1 <= N PROVE h[n + 1] = g[n + 1]
        BY <2>2
      <3>1. n \in Nat /\ h[n] = g[n] /\ n + 1 \in 1..N /\ (n + 1) - 1 = n
        BY <1>1, <2>2
      <3> QED BY <1>2, <1>6, <3>1 DEF RunningSum
    <2> HIDE DEF S
    <2> QED BY <2>1, <2>2, Induction DEF S
  <1>8. \A n \in 0..N : h[n] = g[n]
    BY <1>1, <1>7
  <1> QED BY <1>1, <1>2, <1>5, <1>8

\* Larger terms have larger sums, as far as both go.
LEMMA RunningSumCompare ==
  ASSUME NEW a \in Seq(Int), NEW b \in Seq(Int), Len(a) <= Len(b),
         \A i \in 1..Len(a) : a[i] <= b[i],
         NEW g, RunningSum(g, a), NEW h, RunningSum(h, b)
  PROVE  g[Len(a)] <= h[Len(a)]
  <1> DEFINE S == {n \in Nat : n <= Len(a) => g[n] <= h[n]}
  <1>1. Len(a) \in Nat /\ Len(b) \in Nat
    OBVIOUS
  <1>2. 0 \in S
    BY <1>1 DEF RunningSum
  <1>3. ASSUME NEW n \in S PROVE n + 1 \in S
    <2> SUFFICES ASSUME n + 1 <= Len(a) PROVE g[n + 1] <= h[n + 1]
      BY <1>3
    <2>1. n \in Nat /\ g[n] <= h[n] /\ n + 1 \in 1..Len(a) /\ n + 1 \in 1..Len(b)
      BY <1>1, <1>3
    <2>2. /\ a[n + 1] \in Int /\ b[n + 1] \in Int /\ a[n + 1] <= b[n + 1]
          /\ n \in 0..Len(a) /\ n \in 0..Len(b)
      BY <1>1, <2>1
    <2>4. g[n] \in Int /\ h[n] \in Int
      BY <2>2 DEF RunningSum
    <2>3. g[n + 1] = g[n] + a[n + 1] /\ h[n + 1] = h[n] + b[n + 1]
      <3>1. (n + 1) - 1 = n
        BY <2>1
      <3> QED BY <2>1, <3>1 DEF RunningSum
    <2> QED BY <2>1, <2>2, <2>3, <2>4
  <1>4. S = Nat
    <2> HIDE DEF S
    <2> QED BY <1>2, <1>3, Induction DEF S
  <1> QED BY <1>1, <1>4

\* Sums compare as their terms do.
LEMMA SumCompare ==
  ASSUME NEW a \in Seq(Int), NEW b \in Seq(Int), Len(a) = Len(b),
         \A i \in 1..Len(a) : a[i] <= b[i]
  PROVE  SumSeq(a) <= SumSeq(b)
  <1>1. PICK g : RunningSum(g, a) /\ SumSeq(a) = g[Len(a)]
    BY SumIsRunning
  <1>2. PICK h : RunningSum(h, b) /\ SumSeq(b) = h[Len(b)]
    BY SumIsRunning
  <1> QED BY <1>1, <1>2, RunningSumCompare

\* A sum of natural numbers is not negative.
LEMMA SumNatural ==
  ASSUME NEW a \in Seq(Int), \A i \in 1..Len(a) : a[i] \in Nat
  PROVE  0 <= SumSeq(a)
  <1> DEFINE zeros == [i \in 1..Len(a) |-> 0]
             none == [i \in 0..Len(a) |-> 0]
  <1>1. PICK g : RunningSum(g, a) /\ SumSeq(a) = g[Len(a)]
    BY SumIsRunning
  <1>2. Len(a) \in Nat
    OBVIOUS
  <1>3. /\ zeros \in Seq(Int) /\ Len(zeros) = Len(a)
        /\ \A i \in 1..Len(a) : zeros[i] = 0
    BY <1>2
  <1>4. none[Len(a)] = 0 /\ RunningSum(none, zeros)
    <2>1. \A m \in 1..Len(a) : m \in 0..Len(a) /\ m - 1 \in 0..Len(a)
      BY <1>2
    <2> QED BY <1>2, <1>3, <2>1 DEF RunningSum
  <1> HIDE DEF zeros, none
  <1>5. Len(zeros) <= Len(a) /\ \A i \in 1..Len(zeros) : zeros[i] <= a[i]
    BY <1>2, <1>3
  <1>6. none[Len(zeros)] <= g[Len(zeros)]
    BY <1>1, <1>3, <1>4, <1>5, RunningSumCompare
  <1> QED BY <1>1, <1>3, <1>4, <1>6

\* The sum of integers is one.
LEMMA SumType ==
  ASSUME NEW a \in Seq(Int)
  PROVE  SumSeq(a) \in Int
  BY SumIsRunning DEF RunningSum

\* One more term is added.
LEMMA SumAppend ==
  ASSUME NEW a \in Seq(Int), NEW x \in Int
  PROVE  SumSeq(Append(a, x)) = SumSeq(a) + x
  <1> DEFINE b == Append(a, x)
             N == Len(a)
  <1>1. /\ b \in Seq(Int) /\ N \in Nat /\ Len(b) = N + 1
        /\ b[N + 1] = x /\ \A i \in 1..N : b[i] = a[i] /\ a[i] \in Int
    OBVIOUS
  <1> HIDE DEF b
  <1>2. PICK g : RunningSum(g, a) /\ SumSeq(a) = g[N]
    BY SumIsRunning
  <1>3. PICK h : RunningSum(h, b) /\ SumSeq(b) = h[N + 1]
    BY <1>1, SumIsRunning
  <1>4. h[N + 1] = h[N] + x /\ h[N] \in Int /\ g[N] \in Int
    <2>1. N + 1 \in 1..(N + 1) /\ (N + 1) - 1 = N /\ N \in 0..(N + 1) /\ N \in 0..N
      BY <1>1
    <2> QED BY <1>1, <1>2, <1>3, <2>1 DEF RunningSum
  <1> DEFINE k == [i \in 0..N |-> h[i]]
  <1>5. RunningSum(k, a) /\ k[N] = h[N]
    BY <1>1, <1>3 DEF RunningSum
  <1> HIDE DEF N, k
  <1>6. g[N] <= k[N] /\ k[N] <= g[N]
    BY <1>1, <1>2, <1>5, RunningSumCompare DEF N
  <1> QED BY <1>1, <1>2, <1>3, <1>4, <1>5, <1>6 DEF b

-----------------------------------------------------------------------------
(***************************************************************************)
(* Totals of usage records, of any sequence of them.                       *)
(***************************************************************************)
\* What each of the records adds.
Terms(records, sub, metric, from, to) ==
  [i \in DOMAIN records |-> Term(records[i], sub, metric, from, to)]

TotalOf(records, sub, metric, from, to) ==
  SumSeq(Terms(records, sub, metric, from, to))

\* The records of a bucket have no negative quantity.
NonNegative(records, sub, metric) ==
  \A i \in 1..Len(records) :
    /\ records[i].SubscriptionID = sub /\ records[i].Metric = metric
    => records[i].Quantity >= 0

\* A record adds an integer, and a natural number if its quantity is not negative.
LEMMA TermType ==
  ASSUME NEW record \in UsageRecord, NEW sub, NEW metric, NEW from, NEW to
  PROVE  /\ Term(record, sub, metric, from, to) \in Int
         /\ (record.SubscriptionID = sub /\ record.Metric = metric
               => record.Quantity >= 0)
            => Term(record, sub, metric, from, to) >= 0
  <1>1. record.Quantity \in Int
    BY UsageAssumption DEF UsageRecord
  <1> QED BY <1>1 DEF Term

\* There is a term for each record.
LEMMA TermsType ==
  ASSUME NEW records \in Seq(UsageRecord),
         NEW sub, NEW metric, NEW from, NEW to
  PROVE  LET terms == Terms(records, sub, metric, from, to)
         IN  /\ terms \in Seq(Int)
             /\ Len(terms) = Len(records)
             /\ \A i \in 1..Len(records) :
                  /\ terms[i] = Term(records[i], sub, metric, from, to)
                  /\ terms[i] \in Int
                  /\ NonNegative(records, sub, metric) => terms[i] \in Nat
  <1> DEFINE terms == Terms(records, sub, metric, from, to)
  <1>1. Len(records) \in Nat /\ DOMAIN records = 1..Len(records)
    OBVIOUS
  <1>2. \A i \in 1..Len(records) :
          /\ Term(records[i], sub, metric, from, to) \in Int
          /\ NonNegative(records, sub, metric)
               => Term(records[i], sub, metric, from, to) >= 0
    BY TermType DEF NonNegative
  <1>3. \A i \in 1..Len(records) :
          /\ terms[i] = Term(records[i], sub, metric, from, to)
          /\ terms[i] \in Int
          /\ NonNegative(records, sub, metric) => terms[i] \in Nat
    BY <1>1, <1>2 DEF Terms
  <1>4. terms \in [1..Len(records) -> Int]
    <2>1. \A i \in 1..Len(records) : Term(records[i], sub, metric, from, to) \in Int
      BY <1>2
    <2> QED BY <1>1, <2>1 DEF Terms
  <1>5. terms \in Seq(Int) /\ Len(terms) = Len(records)
    BY <1>1, <1>4
  <1> QED BY <1>3, <1>5

\* A total is an integer, and a natural number if no quantity is negative.
LEMMA TotalType ==
  ASSUME NEW records \in Seq(UsageRecord),
         NEW sub, NEW metric, NEW from, NEW to
  PROVE  /\ TotalOf(records, sub, metric, from, to) \in Int
         /\ NonNegative(records, sub, metric)
              => TotalOf(records, sub, metric, from, to) \in Nat
  <1> DEFINE terms == Terms(records, sub, metric, from, to)
  <1>1. /\ terms \in Seq(Int) /\ Len(terms) = Len(records)
        /\ NonNegative(records, sub, metric)
             => \A i \in 1..Len(records) : terms[i] \in Nat
    BY TermsType
  <1>2. TotalOf(records, sub, metric, from, to) = SumSeq(terms)
    BY DEF TotalOf
  <1> HIDE DEF terms
  <1>3. SumSeq(terms) \in Int
    BY <1>1, SumType
  <1>4. NonNegative(records, sub, metric) => 0 <= SumSeq(terms)
    BY <1>1, SumNatural
  <1> QED BY <1>2, <1>3, <1>4

\* A period that holds every record of another has no smaller total, if no
\* quantity is negative.
LEMMA TotalCompare ==
  ASSUME NEW records \in Seq(UsageRecord), NEW sub, NEW metric,
         NEW from, NEW to, NEW from2, NEW to2,
         NonNegative(records, sub, metric),
         \A i \in 1..Len(records) :
           InPeriod(records[i], from, to) => InPeriod(records[i], from2, to2)
  PROVE  TotalOf(records, sub, metric, from, to)
           <= TotalOf(records, sub, metric, from2, to2)
  <1> DEFINE a == Terms(records, sub, metric, from, to)
             b == Terms(records, sub, metric, from2, to2)
  <1>1. /\ a \in Seq(Int) /\ Len(a) = Len(records)
        /\ \A i \in 1..Len(records) : a[i] = Term(records[i], sub, metric, from, to)
    BY TermsType
  <1>2. /\ b \in Seq(Int) /\ Len(b) = Len(records)
        /\ \A i \in 1..Len(records) :
             b[i] = Term(records[i], sub, metric, from2, to2) /\ b[i] \in Nat
    BY TermsType
  <1>3. /\ TotalOf(records, sub, metric, from, to) = SumSeq(a)
        /\ TotalOf(records, sub, metric, from2, to2) = SumSeq(b)
    BY DEF TotalOf
  <1> HIDE DEF a, b
  <1>4. \A i \in 1..Len(a) : a[i] <= b[i]
    <2>1. SUFFICES ASSUME NEW i \in 1..Len(records) PROVE a[i] <= b[i]
      BY <1>1
    <2>2. b[i] \in Nat
      BY <1>2
    <2>3. a[i] = 0 \/ a[i] = b[i]
      BY <1>1, <1>2 DEF Term
    <2> QED BY <2>2, <2>3
  <1>5. SumSeq(a) <= SumSeq(b)
    BY <1>1, <1>2, <1>4, SumCompare
  <1> QED BY <1>3, <1>5

\* A new record adds its term.
LEMMA TotalAppend ==
  ASSUME NEW records \in Seq(UsageRecord), NEW record \in UsageRecord,
         NEW sub, NEW metric, NEW from, NEW to
  PROVE  TotalOf(Append(records, record), sub, metric, from, to) =
           TotalOf(records, sub, metric, from, to)
             + Term(record, sub, metric, from, to)
  <1> DEFINE N == Len(records)
             more == Append(records, record)
             a == Terms(records, sub, metric, from, to)
             b == Terms(more, sub, metric, from, to)
             x == Term(record, sub, metric, from, to)
             c == Append(a, x)
  <1>1. /\ a \in Seq(Int) /\ Len(a) = N
        /\ \A i \in 1..N : a[i] = Term(records[i], sub, metric, from, to)
    BY TermsType
  <1>2. /\ N \in Nat
        /\ more \in Seq(UsageRecord) /\ Len(more) = N + 1
        /\ \A i \in 1..N : more[i] = records[i]
        /\ more[N + 1] = record
    OBVIOUS
  <1>3. x \in Int
    BY TermType
  <1>4. /\ b \in Seq(Int) /\ Len(b) = N + 1
        /\ \A i \in 1..(N + 1) : b[i] = Term(more[i], sub, metric, from, to)
    <2> HIDE DEF more
    <2> QED BY <1>2, TermsType
  <1>5. /\ TotalOf(records, sub, metric, from, to) = SumSeq(a)
        /\ TotalOf(more, sub, metric, from, to) = SumSeq(b)
    BY DEF TotalOf
  <1> HIDE DEF more, a, b
  <1>6. /\ b = [i \in 1..(N + 1) |-> b[i]]
        /\ \A i \in 1..N : b[i] = a[i]
        /\ b[N + 1] = x
    <2>1. b = [i \in 1..(N + 1) |-> b[i]]
      BY <1>4
    <2>2. \A i \in 1..N : i \in 1..(N + 1)
      BY <1>2
    <2>3. \A i \in 1..N : b[i] = a[i]
      BY <1>1, <1>2, <1>4, <2>2
    <2>4. b[N + 1] = x
      BY <1>2, <1>4
    <2> QED BY <2>1, <2>3, <2>4
  <1> HIDE DEF x, N
  <1>7. /\ c \in Seq(Int) /\ Len(c) = N + 1
        /\ \A i \in 1..N : c[i] = a[i]
        /\ c[N + 1] = x
    BY <1>1, <1>2, <1>3
  <1>8. SumSeq(c) = SumSeq(a) + x
    BY <1>1, <1>3, SumAppend
  <1> HIDE DEF c
  <1>9. b = c
    <2>1. c = [i \in 1..(N + 1) |-> c[i]]
      BY <1>7
    <2>2. \A i \in 1..(N + 1) : i \in 1..N \/ i = N + 1
      BY <1>2
    <2>3. \A i \in 1..(N + 1) : b[i] = c[i]
      BY <1>6, <1>7, <2>2
    <2> QED BY <1>6, <2>1, <2>3
  <1> QED BY <1>5, <1>8, <1>9 DEF more, x

-----------------------------------------------------------------------------
(***************************************************************************)
(* One bucket: what its usage is and who is about to add to it.            *)
(***************************************************************************)
\* Everything recorded since the current period began.
Since(sub, metric) == TotalOf(log, sub, metric, period[sub].start, clock + 1)

\* The check of the metric has passed, in a period that has not ended, and the
\* metric is not recorded yet.  A negative quantity is not waited for: the bucket
\* is not guarded once it is recorded.
Waits(r, now, sub, metric) ==
  /\ r # None /\ r.sub = sub
  /\ metric \in r.toRecord \ r.toCheck
  /\ r.deltas[metric] >= 0
  /\ now < r.end

Pending(requests, now, sub, metric) ==
  {c \in Callers : Waits(requests[c], now, sub, metric)}

\* What a request may add.
Delta(r, metric) ==
  IF r # None /\ metric \in DOMAIN r.deltas /\ r.deltas[metric] >= 0
  THEN r.deltas[metric] ELSE 0

Asked(requests, metric) == [c \in Callers |-> Delta(requests[c], metric)]

\* S is the usage, P the callers who may add d[c] to it, and L the limit.
Kept(S, P, d, L) == S <= L /\ \A c \in P : S + d[c] <= L

Free(P) == Cardinality(Callers) - Cardinality(P)

\* Each caller who is not pending has overshot at most once.  If the usage
\* grew after the check of one who is pending, the check of another had
\* seen no more than the limit allows.
Overshoot(S, P, d, L) ==
  /\ \A c \in P : d[c] <= L
  /\ \/ S <= Free(P) * L
     \/ \E c \in P : S + d[c] <= (Free(P) + 1) * L

\* The steps of a bucket: somebody leaves it or the usage shrinks, ...
Shrinks(S, P, S2, P2) == P2 \subseteq P /\ S2 <= S

\* ... a check passes, ...
Joins(S, P, d, L, S2, P2) ==
  \E c \in Callers \ P : P2 = P \cup {c} /\ S2 <= S /\ S + d[c] <= L

\* ... or a caller records what it asked for.
Leaves(S, P, d, S2, P2) ==
  \E c \in P : P2 = P \ {c} /\ S2 <= S + d[c]

Moves(S, P, d, L, S2, P2) ==
  \/ Shrinks(S, P, S2, P2)
  \/ Joins(S, P, d, L, S2, P2)
  \/ Leaves(S, P, d, S2, P2)

\* How many callers are free.
LEMMA FreeType ==
  ASSUME NEW P \in SUBSET Callers
  PROVE  /\ Free(P) \in Nat
         /\ \A c \in Callers \ P : Free(P \cup {c}) = Free(P) - 1
         /\ \A c \in P : Free(P \ {c}) = Free(P) + 1
         /\ \A Q \in SUBSET P : Free(Q) \in Nat /\ Free(P) <= Free(Q)
         /\ \A Q \in SUBSET P : Q # P => Free(P) + 1 <= Free(Q)
  <1>1. /\ IsFiniteSet(Callers) /\ Cardinality(Callers) \in Nat
        /\ \A Q \in SUBSET Callers :
             /\ IsFiniteSet(Q) /\ Cardinality(Q) \in Nat
             /\ Cardinality(Q) <= Cardinality(Callers)
    BY LimitsAssumption, FS_Subset, FS_CardinalityType
  <1>2. \A c \in Callers \ P : Cardinality(P \cup {c}) = Cardinality(P) + 1
    BY <1>1, FS_AddElement
  <1>3. \A c \in P : Cardinality(P \ {c}) = Cardinality(P) - 1
    BY <1>1, FS_RemoveElement
  <1>4. \A Q \in SUBSET P : /\ Cardinality(Q) \in Nat
                            /\ Cardinality(Q) <= Cardinality(P)
                            /\ Q # P => Cardinality(Q) < Cardinality(P)
    BY <1>1, FS_Subset
  <1> QED BY <1>1, <1>2, <1>3, <1>4 DEF Free

\* A bucket that moves stays within its bounds.
LEMMA MovesKeep ==
  ASSUME NEW S \in Nat, NEW S2 \in Nat, NEW L \in Nat,
         NEW P \in SUBSET Callers, NEW P2 \in SUBSET Callers,
         NEW d \in [Callers -> Nat], NEW d2 \in [Callers -> Nat],
         \A c \in P2 : d2[c] = d[c],
         Moves(S, P, d, L, S2, P2)
  PROVE  /\ Overshoot(S, P, d, L) => Overshoot(S2, P2, d2, L)
         /\ (\A a, b \in P : a = b) /\ Kept(S, P, d, L) => Kept(S2, P2, d2, L)
  <1>1. /\ Free(P) \in Nat /\ Free(P2) \in Nat
        /\ Free(P) * L \in Nat /\ Free(P2) * L \in Nat
        /\ (Free(P) + 1) * L = Free(P) * L + L
        /\ (Free(P2) + 1) * L = Free(P2) * L + L
    <2>1. Free(P) \in Nat /\ Free(P2) \in Nat
      BY FreeType
    <2>2. \A n \in Nat : n * L \in Nat /\ (n + 1) * L = n * L + L
      OBVIOUS
    <2> QED BY <2>1, <2>2
  <1>2. ASSUME Shrinks(S, P, S2, P2)
        PROVE  /\ Overshoot(S, P, d, L) => Overshoot(S2, P2, d2, L)
               /\ Kept(S, P, d, L) => Kept(S2, P2, d2, L)
    <2>1. P2 \subseteq P /\ S2 <= S /\ \A c \in P2 : d2[c] = d[c] /\ d[c] \in Nat
      BY <1>2 DEF Shrinks
    <2>2. Kept(S, P, d, L) => Kept(S2, P2, d2, L)
      BY <2>1 DEF Kept
    <2>3. ASSUME Overshoot(S, P, d, L) PROVE Overshoot(S2, P2, d2, L)
      <3>1. \A c \in P2 : d2[c] <= L
        BY <2>1, <2>3 DEF Overshoot
      <3>2. Free(P) * L <= Free(P2) * L
        <4>1. Free(P) <= Free(P2)
          BY <2>1, FreeType
        <4>2. \A m, n \in Nat : m <= n => m * L <= n * L
          OBVIOUS
        <4> QED BY <1>1, <4>1, <4>2
      <3>3. CASE S <= Free(P) * L
        BY <1>1, <2>1, <3>1, <3>2, <3>3 DEF Overshoot
      <3>4. ASSUME NEW c \in P, S + d[c] <= (Free(P) + 1) * L
            PROVE  Overshoot(S2, P2, d2, L)
        <4>1. d[c] \in Nat
          OBVIOUS
        <4>2. CASE c \in P2
          <5>1. S2 + d2[c] <= (Free(P2) + 1) * L
            BY <1>1, <2>1, <3>2, <3>4, <4>1, <4>2
          <5> QED BY <3>1, <4>2, <5>1 DEF Overshoot
        <4>3. CASE c \notin P2
          <5>1. Free(P) + 1 <= Free(P2)
            BY <2>1, <4>3, FreeType
          <5>2. \A m, n \in Nat : m <= n => m * L <= n * L
            OBVIOUS
          <5>3. (Free(P) + 1) * L <= Free(P2) * L
            BY <1>1, <5>1, <5>2
          <5>4. S2 <= Free(P2) * L
            BY <1>1, <2>1, <3>4, <4>1, <5>3
          <5> QED BY <3>1, <5>4 DEF Overshoot
        <4> QED BY <4>2, <4>3
      <3> QED BY <2>3, <3>3, <3>4 DEF Overshoot
    <2> QED BY <2>2, <2>3
  <1>3. ASSUME Joins(S, P, d, L, S2, P2)
        PROVE  /\ Overshoot(S, P, d, L) => Overshoot(S2, P2, d2, L)
               /\ Kept(S, P, d, L) => Kept(S2, P2, d2, L)
    <2>1. PICK c \in Callers \ P : P2 = P \cup {c} /\ S2 <= S /\ S + d[c] <= L
      BY <1>3 DEF Joins
    <2>2. /\ d[c] \in Nat /\ d2[c] = d[c] /\ c \in P2
          /\ \A e \in P : d2[e] = d[e] /\ d[e] \in Nat
      BY <2>1
    <2>3. Kept(S, P, d, L) => Kept(S2, P2, d2, L)
      BY <2>1, <2>2 DEF Kept
    <2>4. ASSUME Overshoot(S, P, d, L) PROVE Overshoot(S2, P2, d2, L)
      <3>1. \A e \in P2 : d2[e] <= L
        BY <2>1, <2>2, <2>4 DEF Overshoot
      <3>2. S2 + d2[c] <= (Free(P2) + 1) * L
        BY <1>1, <2>1, <2>2
      <3> QED BY <2>2, <3>1, <3>2 DEF Overshoot
    <2> QED BY <2>3, <2>4
  <1>4. ASSUME Leaves(S, P, d, S2, P2)
        PROVE  /\ Overshoot(S, P, d, L) => Overshoot(S2, P2, d2, L)
               /\ (\A a, b \in P : a = b) /\ Kept(S, P, d, L) => Kept(S2, P2, d2, L)
    <2>1. PICK c \in P : P2 = P \ {c} /\ S2 <= S + d[c]
      BY <1>4 DEF Leaves
    <2>2. d[c] \in Nat /\ \A e \in P2 : e \in P /\ d2[e] = d[e] /\ d[e] \in Nat
      BY <2>1
    <2>3. (\A a, b \in P : a = b) /\ Kept(S, P, d, L) => Kept(S2, P2, d2, L)
      BY <2>1, <2>2 DEF Kept
    <2>4. ASSUME Overshoot(S, P, d, L) PROVE Overshoot(S2, P2, d2, L)
      <3>1. d[c] <= L /\ \A e \in P2 : d2[e] <= L
        BY <2>1, <2>2, <2>4 DEF Overshoot
      <3>2. Free(P2) * L = Free(P) * L + L
        <4>1. Free(P2) = Free(P) + 1
          BY <2>1, FreeType
        <4> QED BY <1>1, <4>1
      <3>3. CASE S <= Free(P) * L
        <4>1. S2 <= Free(P2) * L
          BY <1>1, <2>1, <2>2, <3>1, <3>2, <3>3
        <4> QED BY <3>1, <4>1 DEF Overshoot
      <3>4. ASSUME NEW e \in P, S + d[e] <= (Free(P) + 1) * L
            PROVE  Overshoot(S2, P2, d2, L)
        <4>1. CASE e = c
          <5>1. S2 <= Free(P2) * L
            BY <1>1, <2>1, <2>2, <3>2, <3>4, <4>1
          <5> QED BY <3>1, <5>1 DEF Overshoot
        <4>2. CASE e # c
          <5>1. e \in P2 /\ d2[e] = d[e] /\ d[e] \in Nat
            BY <2>1, <2>2, <4>2
          <5>2. S2 + d2[e] <= (Free(P2) + 1) * L
            BY <1>1, <2>1, <2>2, <3>1, <3>2, <3>4, <5>1
          <5> QED BY <3>1, <5>1, <5>2 DEF Overshoot
        <4> QED BY <4>1, <4>2
      <3> QED BY <2>4, <3>3, <3>4 DEF Overshoot
    <2> QED BY <2>3, <2>4
  <1> QED BY <1>2, <1>3, <1>4 DEF Moves

-----------------------------------------------------------------------------
(***************************************************************************)
(* The invariant of the limits.                                            *)
(***************************************************************************)
\* No record is stamped with a time to come.
Stamped == \A i \in 1..Len(log) : log[i].RecordedAt <= clock

\* A request checks and records what it asks for.
Fit(r) == r.toCheck \subseteq DOMAIN r.deltas /\ r.toRecord \subseteq DOMAIN r.deltas

\* The period that a request has read began no later than the current one.
StartedBefore(r) ==
  \A metric \in Metrics :
    <<r.sub, metric>> \notin unchecked => r.start <= period[r.sub].start

\* Requests for one subscription are kept apart.
Apart ==
  serial => \A a, b \in Callers :
              /\ caller[a] # None /\ caller[b] # None
              /\ caller[a].sub = caller[b].sub
              => a = b

LimitsShape ==
  /\ LimitsTypeOK
  /\ Stamped
  /\ \A c \in Callers : caller[c] # None => Fit(caller[c]) /\ StartedBefore(caller[c])
  /\ Apart

\* The usage and the pending callers of a bucket.
BucketBound(sub, metric) ==
  LET S == Since(sub, metric)
      P == Pending(caller, clock, sub, metric)
      d == Asked(caller, metric)
  IN  Guarded(sub, metric) =>
        /\ Overshoot(S, P, d, Limits[metric])
        /\ serial => Kept(S, P, d, Limits[metric])

LimitsInv ==
  /\ LimitsShape
  /\ \A sub \in SubscriptionIDs, metric \in Metrics : BucketBound(sub, metric)

\* A step that moves a bucket, or gives up on guarding it.
BucketMoves(sub, metric) ==
  LET P == Pending(caller, clock, sub, metric)
      d == Asked(caller, metric)
      P2 == Pending(caller', clock', sub, metric)
      d2 == Asked(caller', metric)
  IN  Guarded(sub, metric)' =>
        /\ Guarded(sub, metric)
        /\ Moves(Since(sub, metric), P, d, Limits[metric], Since(sub, metric)', P2)
        /\ \A c \in P2 : d2[c] = d[c]

\* A request asks for integers that fit.
LEMMA DeltaType ==
  ASSUME NEW r \in Request
  PROVE  /\ DOMAIN r.deltas \subseteq Metrics
         /\ \A metric \in DOMAIN r.deltas : r.deltas[metric] \in Quantities
         /\ \A metric \in DOMAIN r.deltas : r.deltas[metric] \in Word
  <1>1. r.deltas \in Requests
    BY DEF Request
  <1>2. PICK D \in SUBSET Metrics : r.deltas \in [D -> Quantities]
    BY <1>1, LimitsAssumption
  <1>3. DOMAIN r.deltas = D /\ \A metric \in D : r.deltas[metric] \in Quantities
    BY <1>2
  <1> QED BY <1>2, <1>3, LimitsAssumption

\* Every caller may add a natural number, 0 if it has no request.
LEMMA AskedType ==
  ASSUME NEW requests \in [Callers -> Request \cup {None}], NEW metric
  PROVE  Asked(requests, metric) \in [Callers -> Nat]
  <1>1. SUFFICES ASSUME NEW c \in Callers PROVE Delta(requests[c], metric) \in Nat
    BY DEF Asked
  <1>2. CASE requests[c] = None \/ metric \notin DOMAIN requests[c].deltas
    BY <1>2 DEF Delta
  <1>3. CASE requests[c] # None /\ metric \in DOMAIN requests[c].deltas
    <2>1. requests[c] \in Request
      BY <1>3
    <2>2. requests[c].deltas[metric] \in Int
      BY <1>3, <2>1, DeltaType, UsageAssumption
    <2> QED BY <1>3, <2>2 DEF Delta
  <1> QED BY <1>2, <1>3

\* The types a step needs.
LEMMA LimitsFacts ==
  ASSUME LimitsTypeOK
  PROVE  /\ log \in Seq(UsageRecord) /\ Len(log) \in Nat
         /\ clock \in Nat
         /\ \A sub \in SubscriptionIDs :
              period[sub].start \in Nat /\ period[sub].end \in Nat
         /\ \A sub \in SubscriptionIDs, metric \in Metrics : Since(sub, metric) \in Int
         /\ \A metric : Asked(caller, metric) \in [Callers -> Nat]
         /\ \A metric \in Metrics : Limits[metric] \in Int
  <1>1. log \in Seq(UsageRecord) /\ Len(log) \in Nat
    BY DEF LimitsTypeOK, UsageTypeOK
  <1>2. /\ clock \in Nat
        /\ \A sub \in SubscriptionIDs : period[sub].start \in Nat /\ period[sub].end \in Nat
    BY UsageAssumption DEF LimitsTypeOK
  <1>3. \A sub \in SubscriptionIDs, metric \in Metrics : Since(sub, metric) \in Int
    BY <1>1, TotalType DEF Since
  <1>4. \A metric : Asked(caller, metric) \in [Callers -> Nat]
    BY AskedType DEF LimitsTypeOK
  <1>5. \A metric \in Metrics : Limits[metric] \in Int
    BY LimitsAssumption, UsageAssumption DEF Word
  <1> QED BY <1>1, <1>2, <1>3, <1>4, <1>5

\* A bucket without a record that takes usage back.
LEMMA NoneTakenBack ==
  ASSUME NEW records \in Seq(UsageRecord), NEW sub, NEW metric,
         ~ \E i \in DOMAIN records :
             /\ <<records[i].SubscriptionID, records[i].Metric>> = <<sub, metric>>
             /\ records[i].Quantity < 0
  PROVE  NonNegative(records, sub, metric)
  <1>1. SUFFICES ASSUME NEW i \in 1..Len(records),
                        records[i].SubscriptionID = sub, records[i].Metric = metric
                 PROVE  records[i].Quantity >= 0
    BY DEF NonNegative
  <1>2. records[i].Quantity \in Int
    <2>1. records[i] \in UsageRecord
      OBVIOUS
    <2> QED BY <2>1, UsageAssumption DEF UsageRecord
  <1>3. ~(records[i].Quantity < 0)
    BY <1>1
  <1> QED BY <1>2, <1>3

\* The usage and the limit of a guarded bucket are natural numbers.
LEMMA GuardedFacts ==
  ASSUME LimitsTypeOK, NEW sub \in SubscriptionIDs, NEW metric \in Metrics,
         Guarded(sub, metric)
  PROVE  /\ NonNegative(log, sub, metric)
         /\ Limits[metric] \in Nat
         /\ Since(sub, metric) \in Nat
  <1>1. log \in Seq(UsageRecord)
    BY DEF LimitsTypeOK, UsageTypeOK
  <1>2. NonNegative(log, sub, metric)
    BY <1>1, NoneTakenBack DEF Guarded, TakenBack, Bucket
  <1>3. Limits[metric] \in Nat
    BY LimitsAssumption, UsageAssumption DEF Guarded, Word
  <1>4. Since(sub, metric) \in Nat
    BY <1>1, <1>2, TotalType DEF Since
  <1> QED BY <1>2, <1>3, <1>4

\* A bucket that is guarded after a step was guarded before it.
LEMMA GuardedBefore ==
  ASSUME NEW sub, NEW metric, Guarded(sub, metric)',
         unchecked \subseteq unchecked', wrapped \subseteq wrapped',
         \A i \in DOMAIN log : i \in DOMAIN log' /\ log'[i] = log[i]
  PROVE  Guarded(sub, metric)
  BY DEF Guarded, TakenBack, Bucket

\* Buckets that move stay bounded.
LEMMA BucketsKeep ==
  ASSUME LimitsInv, LimitsShape', serial' = serial,
         \A sub \in SubscriptionIDs, metric \in Metrics : BucketMoves(sub, metric)
  PROVE  LimitsInv'
  <1>1. SUFFICES ASSUME NEW sub \in SubscriptionIDs, NEW metric \in Metrics,
                        Guarded(sub, metric)'
                 PROVE  LET S2 == Since(sub, metric)'
                            P2 == Pending(caller', clock', sub, metric)
                            d2 == Asked(caller', metric)
                        IN  /\ Overshoot(S2, P2, d2, Limits[metric])
                            /\ serial => Kept(S2, P2, d2, Limits[metric])
    BY DEF LimitsInv, BucketBound
  <1> DEFINE S == Since(sub, metric)
             S2 == Since(sub, metric)'
             P == Pending(caller, clock, sub, metric)
             P2 == Pending(caller', clock', sub, metric)
             d == Asked(caller, metric)
             d2 == Asked(caller', metric)
             L == Limits[metric]
  <1>2. S \in Nat /\ L \in Nat /\ d \in [Callers -> Nat]
    <2>1. Guarded(sub, metric)
      BY <1>1 DEF BucketMoves
    <2> QED BY <2>1, GuardedFacts, LimitsFacts DEF LimitsInv, LimitsShape
  <1>3. S2 \in Nat
    <2>1. log' \in Seq(UsageRecord)
      BY DEF LimitsShape, LimitsTypeOK, UsageTypeOK
    <2>2. NonNegative(log', sub, metric)
      BY <1>1, <2>1, NoneTakenBack DEF Guarded, TakenBack, Bucket
    <2> QED BY <2>1, <2>2, TotalType DEF Since
  <1>4. d2 \in [Callers -> Nat]
    <2>1. caller' \in [Callers -> Request \cup {None}]
      BY DEF LimitsShape, LimitsTypeOK
    <2> QED BY <2>1, AskedType
  <1>5. P \in SUBSET Callers /\ P2 \in SUBSET Callers
    BY DEF Pending
  <1>6. Guarded(sub, metric) /\ Moves(S, P, d, L, S2, P2) /\ \A c \in P2 : d2[c] = d[c]
    BY <1>1 DEF BucketMoves
  <1>7. Overshoot(S, P, d, L) /\ (serial => Kept(S, P, d, L))
    BY <1>6 DEF LimitsInv, BucketBound
  <1>8. serial => \A a, b \in P : a = b
    BY DEF LimitsInv, LimitsShape, Apart, Pending, Waits
  <1> HIDE DEF S, S2, P, P2, d, d2, L
  <1>9. /\ Overshoot(S, P, d, L) => Overshoot(S2, P2, d2, L)
        /\ (\A a, b \in P : a = b) /\ Kept(S, P, d, L) => Kept(S2, P2, d2, L)
    BY <1>2, <1>3, <1>4, <1>5, <1>6, MovesKeep
  <1>10. Overshoot(S2, P2, d2, L) /\ (serial => Kept(S2, P2, d2, L))
    BY <1>7, <1>8, <1>9
  <1> QED BY <1>10 DEF S2, P2, d2, L

-----------------------------------------------------------------------------
(***************************************************************************)
(* What a step does to one request.                                        *)
(***************************************************************************)
\* The shape is kept if the request that changes keeps it.
LEMMA CallerShape ==
  ASSUME LimitsShape, NEW c \in Callers, NEW r \in Request \cup {None},
         caller' = [caller EXCEPT ![c] = r],
         UNCHANGED <<clock, period, serial>>,
         UsageTypeOK', Stamped',
         unchecked \subseteq unchecked', unchecked' \subseteq Buckets,
         wrapped' \subseteq Buckets,
         r # None => Fit(r) /\ StartedBefore(r)',
         serial /\ r # None =>
           \A e \in Callers : e # c /\ caller[e] # None => caller[e].sub # r.sub
  PROVE  LimitsShape'
  <1>1. /\ caller' \in [Callers -> Request \cup {None}]
        /\ caller'[c] = r
        /\ \A e \in Callers : e # c => caller'[e] = caller[e]
    BY DEF LimitsShape, LimitsTypeOK
  <1>2. LimitsTypeOK'
    BY <1>1 DEF LimitsShape, LimitsTypeOK
  <1>3. ASSUME NEW e \in Callers, caller'[e] # None
        PROVE  Fit(caller'[e]) /\ StartedBefore(caller[e])'
    <2>1. CASE e = c
      BY <1>1, <1>3, <2>1 DEF StartedBefore
    <2>2. CASE e # c
      <3>1. caller'[e] = caller[e] /\ Fit(caller[e]) /\ StartedBefore(caller[e])
        BY <1>1, <1>3, <2>2 DEF LimitsShape
      <3> QED BY <3>1 DEF StartedBefore
    <2> QED BY <2>1, <2>2
  <1>4. Apart'
    BY <1>1 DEF LimitsShape, Apart
  <1> QED BY <1>2, <1>3, <1>4 DEF LimitsShape

\* A bucket only shrinks if the request that changes does not begin to wait.
LEMMA CallerShrinks ==
  ASSUME LimitsShape, NEW c \in Callers, NEW r \in Request \cup {None},
         caller' = [caller EXCEPT ![c] = r],
         UNCHANGED <<log, clock, period>>,
         unchecked \subseteq unchecked', wrapped \subseteq wrapped',
         NEW sub \in SubscriptionIDs, NEW metric \in Metrics,
         Waits(r, clock, sub, metric) =>
           /\ Waits(caller[c], clock, sub, metric)
           /\ Delta(r, metric) = Delta(caller[c], metric)
  PROVE  BucketMoves(sub, metric)
  <1> DEFINE P == Pending(caller, clock, sub, metric)
             P2 == Pending(caller', clock', sub, metric)
  <1>1. /\ caller'[c] = r /\ clock' = clock
        /\ \A e \in Callers : e # c => caller'[e] = caller[e]
    BY DEF LimitsShape, LimitsTypeOK
  <1>2. /\ \A e \in Callers : e # c =>
             /\ e \in P2 <=> e \in P
             /\ Asked(caller', metric)[e] = Asked(caller, metric)[e]
        /\ c \in P2 <=> Waits(r, clock, sub, metric)
        /\ Asked(caller', metric)[c] = Delta(r, metric)
    BY <1>1 DEF Pending, Asked
  <1>3. /\ c \in P <=> Waits(caller[c], clock, sub, metric)
        /\ Asked(caller, metric)[c] = Delta(caller[c], metric)
        /\ P \subseteq Callers /\ P2 \subseteq Callers
    BY DEF Pending, Asked
  <1>4. P2 \subseteq P /\ \A e \in P2 : Asked(caller', metric)[e] = Asked(caller, metric)[e]
    <2> HIDE DEF P, P2
    <2> QED BY <1>2, <1>3
  <1>5. Since(sub, metric) \in Int /\ Since(sub, metric)' = Since(sub, metric)
    BY LimitsFacts DEF LimitsShape, Since
  <1>6. Guarded(sub, metric)' => Guarded(sub, metric)
    BY GuardedBefore
  <1>7. Moves(Since(sub, metric), P, Asked(caller, metric), Limits[metric],
              Since(sub, metric)', P2)
    <2>1. Since(sub, metric)' <= Since(sub, metric)
      BY <1>5
    <2> HIDE DEF P, P2
    <2> QED BY <1>4, <2>1 DEF Moves, Shrinks
  <1> QED BY <1>4, <1>6, <1>7 DEF BucketMoves

-----------------------------------------------------------------------------
(***************************************************************************)
(* The actions.                                                            *)
(***************************************************************************)
\* CheckLimits reads the period; a metric with a limit is still to be checked, so
\* the caller is not yet pending in any guarded bucket.
LEMMA CheckLimitsKeeps ==
  ASSUME LimitsInv, NEW c \in Callers, NEW sub \in SubscriptionIDs,
         NEW deltas \in Requests, CheckLimits(c, sub, deltas)
  PROVE  LimitsInv'
  <1>0. PICK r : r = [sub      |-> sub,
                      deltas   |-> deltas,
                      start    |-> period[sub].start,
                      end      |-> period[sub].end,
                      toCheck  |-> {metric \in DOMAIN deltas : HasLimit(metric)},
                      toRecord |-> DOMAIN deltas]
    OBVIOUS
  <1>1. LimitsShape
    BY DEF LimitsInv
  <1>2. /\ caller[c] = None /\ caller' = [caller EXCEPT ![c] = r]
        /\ serial => ~Busy(sub)
        /\ UNCHANGED <<log, clock, period, serial, unchecked, wrapped>>
    BY <1>0 DEF CheckLimits
  <1>3. DOMAIN deltas \subseteq Metrics
    BY LimitsAssumption
  <1>4. r \in Request
    BY <1>0, <1>1, <1>3 DEF Request, LimitsShape, LimitsTypeOK
  <1>5. /\ r.sub = sub /\ r.deltas = deltas /\ r.start = period[sub].start
        /\ r.toCheck = {metric \in DOMAIN deltas : HasLimit(metric)}
        /\ r.toRecord = DOMAIN deltas
    BY <1>0
  <1>6. LimitsShape'
    <2>1. Fit(r)
      BY <1>5 DEF Fit
    <2>2. StartedBefore(r)'
      BY <1>1, <1>2, <1>5, LimitsFacts DEF StartedBefore, LimitsShape
    <2>3. UsageTypeOK' /\ Stamped'
      BY <1>1, <1>2 DEF LimitsShape, LimitsTypeOK, UsageTypeOK, Stamped
    <2>4. serial => \A e \in Callers : e # c /\ caller[e] # None => caller[e].sub # r.sub
      BY <1>2, <1>5 DEF Busy
    <2>5. unchecked \subseteq Buckets /\ wrapped \subseteq Buckets
      BY <1>1 DEF LimitsShape, LimitsTypeOK
    <2> QED BY <1>1, <1>2, <1>4, <2>1, <2>2, <2>3, <2>4, <2>5, CallerShape
  <1>7. ASSUME NEW s \in SubscriptionIDs, NEW metric \in Metrics
        PROVE  BucketMoves(s, metric)
    <2>1. CASE HasLimit(metric)
      <3>1. ~Waits(r, clock, s, metric)
        BY <1>5, <2>1 DEF Waits
      <3> QED BY <1>1, <1>2, <1>4, <3>1, CallerShrinks
    <2>2. CASE ~HasLimit(metric)
      BY <2>2 DEF BucketMoves, Guarded, HasLimit
    <2> QED BY <2>1, <2>2
  <1> QED BY <1>2, <1>6, <1>7, BucketsKeep

\* A request that ends early.
LEMMA EndKeeps ==
  ASSUME LimitsInv, NEW c \in Callers,
         caller' = [caller EXCEPT ![c] = None],
         wrapped \subseteq wrapped', wrapped' \subseteq Buckets,
         UNCHANGED <<log, clock, period, serial, unchecked>>
  PROVE  LimitsInv'
  <1>1. LimitsShape
    BY DEF LimitsInv
  <1>2. LimitsShape'
    <2>1. UsageTypeOK' /\ Stamped'
      BY <1>1 DEF LimitsShape, LimitsTypeOK, UsageTypeOK, Stamped
    <2>2. unchecked \subseteq Buckets
      BY <1>1 DEF LimitsShape, LimitsTypeOK
    <2> QED BY <1>1, <2>1, <2>2, CallerShape
  <1>3. \A sub \in SubscriptionIDs, metric \in Metrics : BucketMoves(sub, metric)
    <2>1. \A sub, metric : ~Waits(None, clock, sub, metric)
      BY DEF Waits
    <2> QED BY <1>1, <2>1, CallerShrinks
  <1> QED BY <1>2, <1>3, BucketsKeep

\* A small number is what its bits say.
LEMMA WrapSmall ==
  ASSUME NEW n \in 0..MaxInt
  PROVE  Wrap(n) = n
  <1>1. MaxInt \in Nat
    BY UsageAssumption
  <1> DEFINE k == 2 * (MaxInt + 1)
             m == n + MaxInt + 1
  <1>2. m \in Nat /\ k \in Nat /\ m < k /\ 0 < k
    BY <1>1
  <1>3. m % k = m
    <2> HIDE DEF m, k
    <2> QED BY <1>2
  <1>4. m - (MaxInt + 1) = n
    BY <1>1
  <1> QED BY <1>3, <1>4 DEF Wrap

\* A check that passes has seen the usage since the period began.
LEMMA PassedFits ==
  ASSUME LimitsShape, NEW c \in Callers, NEW metric \in Metrics,
         caller[c] # None, metric \in caller[c].toCheck,
         ~Exceeds(Current(caller[c], metric), caller[c].deltas[metric], Limits[metric]),
         Guarded(caller[c].sub, metric), caller[c].deltas[metric] >= 0,
         Overflow(caller[c], metric) = {},
         clock < caller[c].end
  PROVE  Since(caller[c].sub, metric) + Delta(caller[c], metric) <= Limits[metric]
  <1> DEFINE r == caller[c]
             used == TotalOf(log, r.sub, metric, r.start, r.end)
             delta == r.deltas[metric]
  <1>1. /\ r \in Request /\ metric \in DOMAIN r.deltas
        /\ r.start <= period[r.sub].start
    BY DEF LimitsShape, LimitsTypeOK, Fit, StartedBefore, Guarded
  <1>2. /\ log \in Seq(UsageRecord) /\ Len(log) \in Nat /\ clock \in Nat
        /\ r.start \in Nat /\ r.end \in Nat /\ period[r.sub].start \in Nat
        /\ \A i \in 1..Len(log) : log[i].RecordedAt \in Nat
    <2>1. r.start \in Times /\ r.end \in Times /\ r.sub \in SubscriptionIDs
      BY <1>1 DEF Request
    <2>2. log \in Seq(UsageRecord) /\ Len(log) \in Nat /\ clock \in Nat
      BY LimitsFacts DEF LimitsShape
    <2>3. \A i \in 1..Len(log) : log[i].RecordedAt \in Times
      <3>1. \A i \in 1..Len(log) : log[i] \in UsageRecord
        BY <2>2
      <3> QED BY <3>1 DEF UsageRecord
    <2>4. period[r.sub].start \in Nat
      BY <2>1, LimitsFacts DEF LimitsShape
    <2> HIDE DEF r
    <2> QED BY <2>1, <2>2, <2>3, <2>4, UsageAssumption
  <1>3. Used(r, metric) = used
    BY DEF Used, Total, TotalOf, Terms
  <1>4. /\ NonNegative(log, r.sub, metric)
        /\ Limits[metric] \in Nat /\ Since(r.sub, metric) \in Nat
    <2>1. r.sub \in SubscriptionIDs
      BY <1>1 DEF Request
    <2> QED BY <2>1, GuardedFacts DEF LimitsShape
  <1>5. used \in Nat
    BY <1>2, <1>4, TotalType
  <1>6. delta \in Nat /\ MaxInt \in Nat /\ Delta(r, metric) = delta
    <2>1. delta \in Int /\ delta >= 0
      BY <1>1, DeltaType, UsageAssumption
    <2> QED BY <1>1, <2>1, UsageAssumption DEF Delta
  <1>7. used + delta <= MaxInt
    <2>1. ~(used + delta > MaxInt)
      BY <1>3 DEF Overflow
    <2> HIDE DEF used, delta
    <2> QED BY <1>5, <1>6, <2>1
  <1>8. Wrap(used) = used /\ Wrap(used + delta) = used + delta
    <2>1. used \in 0..MaxInt /\ used + delta \in 0..MaxInt
      <3> HIDE DEF used, delta
      <3> QED BY <1>5, <1>6, <1>7
    <2> QED BY <2>1, WrapSmall
  <1>9. Current(r, metric) = used
    BY <1>3, <1>8 DEF Current, SumUsage, Used
  <1>10. used + delta <= Limits[metric]
    <2>1. ~(used + delta > Limits[metric])
      BY <1>8, <1>9 DEF Exceeds
    <2> HIDE DEF used, delta
    <2> QED BY <1>5, <1>6, <1>4, <2>1
  <1>11. Since(r.sub, metric) <= used
    <2>1. \A i \in 1..Len(log) :
            InPeriod(log[i], period[r.sub].start, clock + 1)
              => InPeriod(log[i], r.start, r.end)
      <3> SUFFICES ASSUME NEW i \in 1..Len(log),
                          period[r.sub].start <= log[i].RecordedAt,
                          log[i].RecordedAt < clock + 1
                   PROVE  r.start <= log[i].RecordedAt /\ log[i].RecordedAt < r.end
        BY DEF InPeriod
      <3>1. log[i].RecordedAt \in Nat
        BY <1>2
      <3> QED BY <1>1, <1>2, <3>1
    <2> HIDE DEF r
    <2> QED BY <1>2, <1>4, <2>1, TotalCompare DEF Since
  <1> HIDE DEF used, delta
  <1>12. Since(r.sub, metric) + delta <= Limits[metric]
    BY <1>5, <1>6, <1>10, <1>11, <1>4
  <1> QED BY <1>6, <1>12

\* The check of one metric ends the request or adds the caller to those pending.
LEMMA CheckMetricKeeps ==
  ASSUME LimitsInv, NEW c \in Callers, NEW metric \in Metrics, CheckMetric(c, metric)
  PROVE  LimitsInv'
  <1>0. PICK r : r = caller[c]
    OBVIOUS
  <1>1. LimitsShape
    BY DEF LimitsInv
  <1>2. /\ r # None /\ metric \in r.toCheck
        /\ wrapped' = wrapped \cup Overflow(r, metric)
        /\ UNCHANGED <<log, clock, period, serial, unchecked>>
    BY <1>0 DEF CheckMetric
  <1>3. r \in Request /\ Fit(r) /\ StartedBefore(r)
    BY <1>0, <1>1, <1>2 DEF LimitsShape, LimitsTypeOK
  <1>4. /\ wrapped \subseteq wrapped' /\ wrapped' \subseteq Buckets
        /\ unchecked \subseteq Buckets
    <2>1. Overflow(r, metric) \subseteq Buckets
      BY <1>3 DEF Overflow, Buckets, Request
    <2> QED BY <1>1, <1>2, <2>1 DEF LimitsShape, LimitsTypeOK
  <1>5. CASE caller' = [caller EXCEPT ![c] = None]
    BY <1>2, <1>4, <1>5, EndKeeps
  <1>6. ASSUME ~Exceeds(Current(r, metric), r.deltas[metric], Limits[metric]),
               caller' = [caller EXCEPT ![c] = Passed(r, metric)]
        PROVE  LimitsInv'
    <2>1. PICK r2 : r2 = Passed(r, metric)
      OBVIOUS
    <2>2. /\ r2 \in Request
          /\ r2.sub = r.sub /\ r2.deltas = r.deltas
          /\ r2.start = r.start /\ r2.end = r.end
          /\ r2.toCheck = r.toCheck \ {metric} /\ r2.toRecord = r.toRecord
      BY <1>3, <2>1 DEF Passed, Request
    <2>3. r2 # None /\ caller' = [caller EXCEPT ![c] = r2]
      BY <1>6, <2>1, <2>2, LimitsAssumption
    <2>4. LimitsShape'
      <3>1. Fit(r2)
        BY <1>3, <2>2 DEF Fit
      <3>2. StartedBefore(r2)'
        BY <1>2, <1>3, <2>2 DEF StartedBefore
      <3>3. UsageTypeOK' /\ Stamped'
        BY <1>1, <1>2 DEF LimitsShape, LimitsTypeOK, UsageTypeOK, Stamped
      <3>4. serial => \A e \in Callers : e # c /\ caller[e] # None => caller[e].sub # r2.sub
        BY <1>0, <1>1, <1>2, <2>2 DEF LimitsShape, Apart
      <3> QED BY <1>1, <1>2, <1>4, <2>2, <2>3, <3>1, <3>2, <3>3, <3>4, CallerShape
    <2>5. ASSUME NEW sub \in SubscriptionIDs, NEW m \in Metrics
          PROVE  BucketMoves(sub, m)
      <3>1. Delta(r2, m) = Delta(r, m)
        BY <1>2, <2>2, <2>3 DEF Delta
      <3>2. CASE Waits(r2, clock, sub, m) => Waits(r, clock, sub, m)
        BY <1>0, <1>1, <1>2, <1>4, <2>2, <2>3, <3>1, <3>2, CallerShrinks
      <3>3. CASE Waits(r2, clock, sub, m) /\ ~Waits(r, clock, sub, m)
        <4>1. SUFFICES ASSUME Guarded(sub, m)' PROVE BucketMoves(sub, m)
          BY DEF BucketMoves
        <4>2. Guarded(sub, m)
          BY <1>2, <1>4, <4>1, GuardedBefore
        <4>3. /\ m = metric /\ r.sub = sub /\ clock < r.end
              /\ r.deltas[metric] >= 0
          BY <1>2, <2>2, <3>3 DEF Waits
        <4>4. Guarded(r.sub, metric) /\ Overflow(r, metric) = {}
          <5>1. Guarded(r.sub, metric) /\ <<r.sub, metric>> \notin wrapped'
            BY <4>1, <4>2, <4>3 DEF Guarded
          <5> QED BY <1>2, <5>1 DEF Overflow
        <4>5. Since(sub, m) + Delta(r, m) <= Limits[m]
          BY <1>0, <1>1, <1>2, <1>6, <4>3, <4>4, PassedFits
        <4> DEFINE P == Pending(caller, clock, sub, m)
                   P2 == Pending(caller', clock', sub, m)
                   d == Asked(caller, m)
                   d2 == Asked(caller', m)
        <4>6. /\ caller'[c] = r2 /\ clock' = clock
              /\ \A e \in Callers : e # c => caller'[e] = caller[e]
          BY <1>1, <1>2, <2>3 DEF LimitsShape, LimitsTypeOK
        <4>7. P2 = P \cup {c} /\ c \in Callers \ P
          BY <1>0, <3>3, <4>6 DEF Pending
        <4>8. d[c] = Delta(r, m) /\ \A e \in Callers : d2[e] = d[e]
          BY <1>0, <3>1, <4>6 DEF Asked
        <4>9. Since(sub, m) \in Int /\ Since(sub, m)' = Since(sub, m)
          BY <1>1, <1>2, LimitsFacts DEF LimitsShape, Since
        <4>10. Moves(Since(sub, m), P, d, Limits[m], Since(sub, m)', P2)
          <5> HIDE DEF P, P2, d
          <5>1. Since(sub, m)' <= Since(sub, m)
            BY <4>9
          <5> QED BY <4>5, <4>7, <4>8, <5>1 DEF Moves, Joins
        <4>11. \A e \in P2 : d2[e] = d[e]
          BY <4>8 DEF Pending
        <4> QED BY <4>2, <4>10, <4>11 DEF BucketMoves
      <3> QED BY <3>2, <3>3
    <2> QED BY <1>2, <2>4, <2>5, BucketsKeep
  <1> QED BY <1>0, <1>5, <1>6 DEF CheckMetric

\* A request that is given up ends.
LEMMA GiveUpKeeps ==
  ASSUME LimitsInv, NEW c \in Callers, GiveUp(c)
  PROVE  LimitsInv'
  <1>1. wrapped \subseteq Buckets
    BY DEF LimitsInv, LimitsShape, LimitsTypeOK
  <1> QED BY <1>1, EndKeeps DEF GiveUp

\* A record adds to its own bucket what the caller was pending for, or is made
\* after the period of the check, and then the bucket is no longer guarded.
LEMMA RecordAllowedKeeps ==
  ASSUME LimitsInv, NEW c \in Callers, NEW metric \in Metrics, RecordAllowed(c, metric)
  PROVE  LimitsInv'
  <1>0. PICK r, record, r2 :
          /\ r = caller[c]
          /\ record = [SubscriptionID |-> r.sub, Metric |-> metric,
                       Quantity |-> r.deltas[metric], RecordedAt |-> clock,
                       Reported |-> FALSE]
          /\ r2 = IF r.toRecord = {metric} THEN None
                  ELSE [r EXCEPT !.toRecord = @ \ {metric}]
    OBVIOUS
  <1>1. LimitsShape
    BY DEF LimitsInv
  <1>2. /\ r # None /\ r.toCheck = {} /\ metric \in r.toRecord
        /\ SaveUsageRecord(record)
        /\ caller' = [caller EXCEPT ![c] = r2]
        /\ unchecked' = IF InPeriod(record, r.start, r.end)
                        THEN unchecked ELSE unchecked \cup {<<r.sub, metric>>}
        /\ UNCHANGED <<clock, period, serial, wrapped>>
    BY <1>0 DEF RecordAllowed
  <1>3. r \in Request /\ Fit(r) /\ StartedBefore(r)
    BY <1>0, <1>1, <1>2 DEF LimitsShape, LimitsTypeOK
  <1>4. /\ r.sub \in SubscriptionIDs /\ metric \in DOMAIN r.deltas
        /\ r.deltas[metric] \in Int /\ r.deltas[metric] \in Quantities
    BY <1>2, <1>3, DeltaType, UsageAssumption DEF Request, Fit
  <1>5. /\ record \in UsageRecord
        /\ record.SubscriptionID = r.sub /\ record.Metric = metric
        /\ record.Quantity = r.deltas[metric] /\ record.RecordedAt = clock
    BY <1>0, <1>1, <1>4 DEF UsageRecord, LimitsShape, LimitsTypeOK
  <1>6. /\ log \in Seq(UsageRecord) /\ Len(log) \in Nat /\ clock \in Nat
        /\ log' = Append(log, record)
    BY <1>1, <1>2, LimitsFacts DEF LimitsShape, SaveUsageRecord
  <1>7. /\ r2 \in Request \cup {None}
        /\ r2 # None => /\ r2.sub = r.sub /\ r2.deltas = r.deltas
                        /\ r2.start = r.start /\ r2.end = r.end
                        /\ r2.toCheck = {} /\ r2.toRecord = r.toRecord \ {metric}
        /\ r2 = None => r.toRecord = {metric}
    <2>1. CASE r.toRecord = {metric}
      BY <1>0, <2>1
    <2>2. CASE r.toRecord # {metric}
      BY <1>0, <1>2, <1>3, <2>2, LimitsAssumption DEF Request
    <2> QED BY <2>1, <2>2
  <1>8. LimitsShape'
    <2>1. UsageTypeOK'
      BY <1>1, <1>2, <1>5, <1>6, UsageAssumption
         DEF LimitsShape, LimitsTypeOK, UsageTypeOK, SaveUsageRecord
    <2>2. Stamped'
      BY <1>1, <1>2, <1>5, <1>6 DEF LimitsShape, Stamped
    <2>3. /\ unchecked \subseteq unchecked' /\ unchecked' \subseteq Buckets
          /\ wrapped' \subseteq Buckets
      BY <1>1, <1>2, <1>4 DEF LimitsShape, LimitsTypeOK, Buckets
    <2>4. r2 # None => Fit(r2)
      BY <1>2, <1>3, <1>7 DEF Fit
    <2>5. r2 # None => StartedBefore(r2)'
      BY <1>2, <1>3, <1>7, <2>3 DEF StartedBefore
    <2>6. serial /\ r2 # None =>
            \A e \in Callers : e # c /\ caller[e] # None => caller[e].sub # r2.sub
      BY <1>0, <1>1, <1>2, <1>7 DEF LimitsShape, Apart
    <2> QED BY <1>1, <1>2, <1>7, <2>1, <2>2, <2>3, <2>4, <2>5, <2>6, CallerShape
  <1>9. ASSUME NEW sub \in SubscriptionIDs, NEW m \in Metrics, Guarded(sub, m)'
        PROVE  BucketMoves(sub, m)
    <2> DEFINE P == Pending(caller, clock, sub, m)
               P2 == Pending(caller', clock', sub, m)
               d == Asked(caller, m)
               d2 == Asked(caller', m)
               S == Since(sub, m)
               S2 == Since(sub, m)'
               term == Term(record, sub, m, period[sub].start, clock + 1)
    <2>1. Guarded(sub, m)
      <3>1. \A i \in DOMAIN log : i \in DOMAIN log' /\ log'[i] = log[i]
        BY <1>5, <1>6
      <3> QED BY <1>2, <1>9, <3>1, GuardedBefore
    <2>2. /\ caller'[c] = r2 /\ clock' = clock
          /\ \A e \in Callers : e # c => caller'[e] = caller[e]
      BY <1>1, <1>2 DEF LimitsShape, LimitsTypeOK
    <2>3. S2 = S + term
      BY <1>2, <1>5, <1>6, TotalAppend DEF Since
    <2>4. S \in Int
      BY <1>1, LimitsFacts DEF LimitsShape
    <2>5. \A e \in P2 : d2[e] = d[e]
      BY <1>0, <1>2, <1>7, <2>2 DEF Pending, Asked, Waits, Delta
    <2>6. \A e \in Callers \ {c} : e \in P2 <=> e \in P
      BY <2>2 DEF Pending
    <2>7. CASE sub = r.sub /\ m = metric
      <3>1. InPeriod(record, r.start, r.end)
        BY <1>2, <1>9, <2>7 DEF Guarded
      <3>0. r.deltas[metric] >= 0
        <4>1. Len(log) + 1 \in DOMAIN log' /\ log'[Len(log) + 1] = record
          BY <1>5, <1>6
        <4>2. ~(record.Quantity < 0)
          BY <1>5, <1>9, <2>7, <4>1 DEF Guarded, TakenBack, Bucket
        <4> QED BY <1>4, <1>5, <4>2
      <3>2. Waits(r, clock, sub, m)
        BY <1>2, <1>5, <2>7, <3>0, <3>1 DEF Waits, InPeriod
      <3>3. ~Waits(r2, clock, sub, m)
        BY <1>7, <2>7 DEF Waits
      <3>4. c \in P /\ P2 = P \ {c}
        BY <1>0, <2>2, <2>6, <3>2, <3>3 DEF Pending
      <3>5. d[c] = r.deltas[metric]
        BY <1>0, <1>2, <1>4, <2>7, <3>0 DEF Asked, Delta
      <3>6. term = 0 \/ term = r.deltas[metric]
        BY <1>5 DEF Term
      <3>7. Moves(S, P, d, Limits[m], S2, P2)
        <4> HIDE DEF P, P2, d, S, S2, term
        <4>1. S2 <= S + d[c]
          BY <1>4, <2>3, <2>4, <3>0, <3>5, <3>6
        <4> QED BY <3>4, <4>1 DEF Moves, Leaves
      <3> QED BY <2>1, <2>5, <3>7 DEF BucketMoves
    <2>8. CASE ~(sub = r.sub /\ m = metric)
      <3>1. term = 0
        BY <1>5, <2>8 DEF Term
      <3>2. Waits(r2, clock, sub, m) => Waits(r, clock, sub, m)
        BY <1>2, <1>7 DEF Waits
      <3>3. P2 \subseteq P
        BY <1>0, <2>2, <2>6, <3>2 DEF Pending
      <3>4. Moves(S, P, d, Limits[m], S2, P2)
        <4> HIDE DEF P, P2, d, S, S2, term
        <4>1. S2 <= S
          BY <2>3, <2>4, <3>1
        <4> QED BY <3>3, <4>1 DEF Moves, Shrinks
      <3> QED BY <2>1, <2>5, <3>4 DEF BucketMoves
    <2> QED BY <2>7, <2>8
  <1>10. \A sub \in SubscriptionIDs, m \in Metrics : BucketMoves(sub, m)
    BY <1>9 DEF BucketMoves
  <1> QED BY <1>2, <1>8, <1>10, BucketsKeep

\* A renewal moves the start of the period forward, which only takes usage away,
\* or the buckets of the subscription are no longer guarded.
LEMMA RenewKeeps ==
  ASSUME LimitsInv, NEW sub \in SubscriptionIDs, NEW event \in Renewals,
         Renew(sub, event)
  PROVE  LimitsInv'
  <1>1. LimitsShape
    BY DEF LimitsInv
  <1>2. PICK now : now = Renewed(period[sub], event)
    OBVIOUS
  <1>3. /\ period' = [period EXCEPT ![sub] = now]
        /\ UNCHANGED <<log, clock, caller, serial, wrapped>>
        /\ unchecked' = unchecked \cup
             {b \in Buckets : b[1] = sub /\ event.start # None
                                         /\ event.start < period[sub].start}
    BY <1>2 DEF Renew
  <1>4. now \in [start : Times, end : Times]
    <2>1. /\ event.start \in Times \cup {None} /\ event.end \in Times \cup {None}
      BY LimitsAssumption
    <2>2. period[sub].start \in Times /\ period[sub].end \in Times
      BY <1>1 DEF LimitsShape, LimitsTypeOK
    <2> QED BY <1>2, <2>1, <2>2 DEF Renewed
  <1>5. /\ period \in [SubscriptionIDs -> [start : Times, end : Times]]
        /\ period'[sub] = now
        /\ \A s \in SubscriptionIDs : s # sub => period'[s] = period[s]
    BY <1>1, <1>3 DEF LimitsShape, LimitsTypeOK
  <1>6. unchecked \subseteq unchecked' /\ unchecked' \subseteq Buckets
    BY <1>1, <1>3 DEF LimitsShape, LimitsTypeOK
  <1>7. \A s \in SubscriptionIDs, metric \in Metrics :
          <<s, metric>> \notin unchecked' => period[s].start <= period'[s].start
    <2>1. SUFFICES ASSUME NEW s \in SubscriptionIDs, NEW metric \in Metrics,
                          <<s, metric>> \notin unchecked'
                   PROVE  period[s].start <= period'[s].start
      OBVIOUS
    <2>2. period[s].start \in Nat
      BY <1>1, LimitsFacts DEF LimitsShape
    <2>3. CASE s # sub
      BY <1>5, <2>2, <2>3
    <2>4. CASE s = sub
      <3>1. event.start = None \/ ~(event.start < period[sub].start)
        BY <1>3, <2>1, <2>4 DEF Buckets
      <3>2. now.start = IF event.start = None THEN period[sub].start ELSE event.start
        BY <1>2 DEF Renewed
      <3>3. now.start \in Nat
        BY <1>4, UsageAssumption
      <3> QED BY <1>5, <2>2, <2>4, <3>1, <3>2, <3>3
    <2> QED BY <2>3, <2>4
  <1>8. LimitsShape'
    <2>1. LimitsTypeOK'
      <3>1. period' \in [SubscriptionIDs -> [start : Times, end : Times]]
        BY <1>3, <1>4, <1>5
      <3> QED BY <1>1, <1>3, <1>6, <3>1 DEF LimitsShape, LimitsTypeOK, UsageTypeOK
    <2>2. Stamped' /\ Apart'
      BY <1>1, <1>3 DEF LimitsShape, Stamped, Apart
    <2>3. ASSUME NEW c \in Callers, caller'[c] # None
          PROVE  Fit(caller'[c]) /\ StartedBefore(caller[c])'
      <3>0. PICK r : r = caller[c]
        OBVIOUS
      <3>1. /\ r = caller'[c] /\ r \in Request /\ r.sub \in SubscriptionIDs
            /\ Fit(r) /\ StartedBefore(r)
        BY <1>1, <1>3, <2>3, <3>0 DEF LimitsShape, LimitsTypeOK, Request
      <3>2. StartedBefore(r)'
        <4>1. SUFFICES ASSUME NEW metric \in Metrics, <<r.sub, metric>> \notin unchecked'
                       PROVE  r.start <= period'[r.sub].start
          BY DEF StartedBefore
        <4>2. r.start <= period[r.sub].start
          BY <1>6, <3>1, <4>1 DEF StartedBefore
        <4>3. period[r.sub].start <= period'[r.sub].start
          BY <1>7, <3>1, <4>1
        <4>4. /\ r.start \in Nat /\ period[r.sub].start \in Nat
              /\ period'[r.sub].start \in Nat
          BY <1>4, <1>5, <3>1, UsageAssumption DEF Request
        <4> QED BY <4>2, <4>3, <4>4
      <3> QED BY <3>1, <3>2 DEF StartedBefore
    <2> QED BY <2>1, <2>2, <2>3 DEF LimitsShape
  <1>9. ASSUME NEW s \in SubscriptionIDs, NEW m \in Metrics, Guarded(s, m)'
        PROVE  BucketMoves(s, m)
    <2>1. Guarded(s, m) /\ NonNegative(log, s, m)
      <3>1. Guarded(s, m)
        BY <1>3, <1>6, <1>9, GuardedBefore
      <3> QED BY <1>1, <3>1, GuardedFacts DEF LimitsShape
    <2>2. period[s].start <= period'[s].start
      BY <1>7, <1>9 DEF Guarded
    <2>3. /\ log \in Seq(UsageRecord) /\ Len(log) \in Nat /\ clock \in Nat
          /\ \A i \in 1..Len(log) : log[i].RecordedAt \in Nat
          /\ period[s].start \in Nat /\ period'[s].start \in Nat
      <3>1. log \in Seq(UsageRecord) /\ Len(log) \in Nat /\ clock \in Nat
        BY <1>1, LimitsFacts DEF LimitsShape
      <3>2. \A i \in 1..Len(log) : log[i] \in UsageRecord
        BY <3>1
      <3>3. period[s].start \in Nat /\ period'[s].start \in Nat
        BY <1>4, <1>5, UsageAssumption
      <3> QED BY <3>1, <3>2, <3>3, UsageAssumption DEF UsageRecord
    <2>4. Since(s, m)' <= Since(s, m)
      <3>1. \A i \in 1..Len(log) :
              InPeriod(log[i], period'[s].start, clock + 1)
                => InPeriod(log[i], period[s].start, clock + 1)
        BY <2>2, <2>3 DEF InPeriod
      <3>2. TotalOf(log, s, m, period'[s].start, clock + 1)
              <= TotalOf(log, s, m, period[s].start, clock + 1)
        BY <2>1, <2>3, <3>1, TotalCompare
      <3> QED BY <1>3, <3>2 DEF Since
    <2>5. /\ Pending(caller', clock', s, m) = Pending(caller, clock, s, m)
          /\ Asked(caller', m) = Asked(caller, m)
      BY <1>3
    <2> QED BY <2>1, <2>4, <2>5 DEF BucketMoves, Moves, Shrinks
  <1>10. \A s \in SubscriptionIDs, m \in Metrics : BucketMoves(s, m)
    BY <1>9 DEF BucketMoves
  <1> QED BY <1>3, <1>8, <1>10, BucketsKeep

\* Time alone adds no usage, and only ends the periods of pending callers.
LEMMA ElapseKeeps ==
  ASSUME LimitsInv, Elapse
  PROVE  LimitsInv'
  <1>1. LimitsShape
    BY DEF LimitsInv
  <1>2. /\ clock' = clock + 1 /\ clock + 1 \in Times
        /\ UNCHANGED <<log, period, caller, serial, unchecked, wrapped>>
    BY DEF Elapse
  <1>3. /\ log \in Seq(UsageRecord) /\ Len(log) \in Nat /\ clock \in Nat
        /\ \A i \in 1..Len(log) : log[i].RecordedAt \in Nat /\ log[i].RecordedAt <= clock
    <2>1. log \in Seq(UsageRecord) /\ Len(log) \in Nat /\ clock \in Nat
      BY <1>1, LimitsFacts DEF LimitsShape
    <2>2. \A i \in 1..Len(log) : log[i] \in UsageRecord
      BY <2>1
    <2> QED BY <1>1, <2>1, <2>2, UsageAssumption DEF UsageRecord, LimitsShape, Stamped
  <1>4. LimitsShape'
    <2>1. LimitsTypeOK'
      BY <1>1, <1>2 DEF LimitsShape, LimitsTypeOK, UsageTypeOK
    <2>2. Stamped'
      <3>1. \A i \in 1..Len(log) : log[i].RecordedAt <= clock + 1
        BY <1>3
      <3> QED BY <1>2, <3>1 DEF Stamped
    <2>3. Apart'
      BY <1>1, <1>2 DEF LimitsShape, Apart
    <2>4. \A c \in Callers :
            caller'[c] # None => Fit(caller'[c]) /\ StartedBefore(caller[c])'
      BY <1>1, <1>2 DEF LimitsShape, StartedBefore
    <2> QED BY <2>1, <2>2, <2>3, <2>4 DEF LimitsShape
  <1>5. ASSUME NEW sub \in SubscriptionIDs, NEW metric \in Metrics,
               Guarded(sub, metric)'
        PROVE  BucketMoves(sub, metric)
    <2>1. Guarded(sub, metric) /\ NonNegative(log, sub, metric)
      <3>1. Guarded(sub, metric)
        BY <1>2, <1>5, GuardedBefore
      <3> QED BY <1>1, <3>1, GuardedFacts DEF LimitsShape
    <2>2. Since(sub, metric)' <= Since(sub, metric)
      <3>1. \A i \in 1..Len(log) :
              InPeriod(log[i], period[sub].start, clock + 2)
                => InPeriod(log[i], period[sub].start, clock + 1)
        BY <1>3 DEF InPeriod
      <3>2. TotalOf(log, sub, metric, period[sub].start, clock + 2)
              <= TotalOf(log, sub, metric, period[sub].start, clock + 1)
        BY <1>3, <2>1, <3>1, TotalCompare
      <3>3. clock' + 1 = clock + 2
        BY <1>2, <1>3
      <3> QED BY <1>2, <3>2, <3>3 DEF Since
    <2>3. ASSUME NEW r \in Request, Waits(r, clock + 1, sub, metric)
          PROVE  Waits(r, clock, sub, metric)
      <3>1. r.end \in Nat
        BY UsageAssumption DEF Request
      <3> QED BY <1>3, <2>3, <3>1 DEF Waits
    <2>4. /\ caller' = caller /\ clock' = clock + 1
          /\ \A c \in Callers : caller[c] # None => caller[c] \in Request
      BY <1>1, <1>2 DEF LimitsShape, LimitsTypeOK
    <2>5. Pending(caller', clock', sub, metric)
            \subseteq Pending(caller, clock, sub, metric)
      <3>1. SUFFICES ASSUME NEW c \in Callers, Waits(caller[c], clock + 1, sub, metric)
                     PROVE  Waits(caller[c], clock, sub, metric)
        BY <2>4 DEF Pending
      <3>2. caller[c] \in Request
        BY <2>4, <3>1 DEF Waits
      <3> QED BY <2>3, <3>1, <3>2
    <2> QED BY <2>1, <2>2, <2>4, <2>5 DEF BucketMoves, Moves, Shrinks
  <1>6. \A sub \in SubscriptionIDs, metric \in Metrics : BucketMoves(sub, metric)
    BY <1>5 DEF BucketMoves
  <1> QED BY <1>2, <1>4, <1>6, BucketsKeep

\* A step of nothing keeps it.
LEMMA LimitsStutter ==
  ASSUME LimitsInv, UNCHANGED limitsVars
  PROVE  LimitsInv'
  BY DEF limitsVars, LimitsInv, LimitsShape, LimitsTypeOK, UsageTypeOK, Stamped,
         StartedBefore, Apart, BucketBound, Guarded, TakenBack, Bucket, Since

\* The empty store satisfies it.
LEMMA LimitsStart ==
  ASSUME LimitsInit
  PROVE  LimitsInv
  <1>1. /\ log = << >> /\ log \in Seq(UsageRecord) /\ Len(log) = 0
        /\ \A c \in Callers : caller[c] = None
    BY DEF LimitsInit, UsageInit
  <1>2. LimitsShape
    <2>1. UsageTypeOK
      BY <1>1, UsageAssumption DEF UsageTypeOK
    <2>2. LimitsTypeOK
      BY <2>1, LimitsAssumption DEF LimitsInit, LimitsTypeOK
    <2> QED BY <1>1, <2>2 DEF LimitsShape, Stamped, Apart
  <1>3. ASSUME NEW sub \in SubscriptionIDs, NEW metric \in Metrics
        PROVE  BucketBound(sub, metric)
    <2>0. SUFFICES ASSUME Guarded(sub, metric)
                   PROVE  LET S == Since(sub, metric)
                              P == Pending(caller, clock, sub, metric)
                              d == Asked(caller, metric)
                          IN  /\ Overshoot(S, P, d, Limits[metric])
                              /\ serial => Kept(S, P, d, Limits[metric])
      BY DEF BucketBound
    <2>1. Since(sub, metric) = 0
      <3>0. PICK from, to : from = period[sub].start /\ to = clock + 1
        OBVIOUS
      <3> DEFINE terms == Terms(log, sub, metric, from, to)
      <3>1. log \in Seq(UsageRecord)
        BY <1>1
      <3>2. terms \in Seq(Int) /\ Len(terms) = Len(log)
        BY <3>1, TermsType
      <3>3. Since(sub, metric) = SumSeq(terms)
        BY <3>0 DEF Since, TotalOf
      <3> HIDE DEF terms
      <3> QED BY <1>1, <3>2, <3>3, SumIsRunning DEF RunningSum
    <2>2. Pending(caller, clock, sub, metric) = {}
      BY <1>1 DEF Pending, Waits
    <2>3. Limits[metric] \in Nat /\ Free({}) \in Nat
      BY <1>2, <2>0, GuardedFacts, FreeType DEF LimitsShape
    <2>4. 0 <= Free({}) * Limits[metric]
      <3>1. \A m, n \in Nat : 0 <= m * n
        OBVIOUS
      <3> QED BY <2>3, <3>1
    <2> QED BY <2>1, <2>2, <2>3, <2>4 DEF Overshoot, Kept
  <1> QED BY <1>2, <1>3 DEF LimitsInv

\* The inductive invariant holds in every behaviour.
LEMMA LimitsInductive == LimitsSpec => []LimitsInv
  <1>1. LimitsInit => LimitsInv
    BY LimitsStart
  <1>2. LimitsInv /\ [LimitsNext]_limitsVars => LimitsInv'
    <2>1. SUFFICES ASSUME LimitsInv, [LimitsNext]_limitsVars PROVE LimitsInv'
      OBVIOUS
    <2>2. ASSUME NEW c \in Callers, NEW sub \in SubscriptionIDs, NEW deltas \in Requests,
                 CheckLimits(c, sub, deltas)
          PROVE  LimitsInv'
      BY <2>1, <2>2, CheckLimitsKeeps
    <2>3. ASSUME NEW c \in Callers, NEW metric \in Metrics, CheckMetric(c, metric)
          PROVE  LimitsInv'
      BY <2>1, <2>3, CheckMetricKeeps
    <2>4. ASSUME NEW c \in Callers, NEW metric \in Metrics, RecordAllowed(c, metric)
          PROVE  LimitsInv'
      BY <2>1, <2>4, RecordAllowedKeeps
    <2>5. ASSUME NEW c \in Callers, GiveUp(c)
          PROVE  LimitsInv'
      BY <2>1, <2>5, GiveUpKeeps
    <2>6. ASSUME NEW sub \in SubscriptionIDs, NEW event \in Renewals, Renew(sub, event)
          PROVE  LimitsInv'
      BY <2>1, <2>6, RenewKeeps
    <2>7. ASSUME Elapse PROVE LimitsInv'
      BY <2>1, <2>7, ElapseKeeps
    <2>8. ASSUME UNCHANGED limitsVars PROVE LimitsInv'
      BY <2>1, <2>8, LimitsStutter
    <2> QED BY <2>1, <2>2, <2>3, <2>4, <2>5, <2>6, <2>7, <2>8 DEF LimitsNext
  <1> QED BY <1>1, <1>2, PTL DEF LimitsSpec

\* The usage of the period is part of what was recorded since its start.
LEMMA UsageWithin ==
  ASSUME LimitsShape, NEW sub \in SubscriptionIDs, NEW metric \in Metrics,
         Guarded(sub, metric)
  PROVE  /\ Usage(sub, metric) \in Nat /\ Since(sub, metric) \in Nat
         /\ Usage(sub, metric) <= Since(sub, metric)
  <1>1. /\ log \in Seq(UsageRecord) /\ Len(log) \in Nat /\ clock \in Nat
        /\ Since(sub, metric) \in Nat /\ NonNegative(log, sub, metric)
    BY LimitsFacts, GuardedFacts DEF LimitsShape
  <1>2. \A i \in 1..Len(log) : log[i].RecordedAt \in Nat /\ log[i].RecordedAt <= clock
    <2>1. \A i \in 1..Len(log) : log[i] \in UsageRecord
      BY <1>1
    <2> QED BY <2>1, UsageAssumption DEF UsageRecord, LimitsShape, Stamped
  <1>3. \A i \in 1..Len(log) :
          InPeriod(log[i], period[sub].start, period[sub].end)
            => InPeriod(log[i], period[sub].start, clock + 1)
    BY <1>1, <1>2 DEF InPeriod
  <1>4. Usage(sub, metric) = TotalOf(log, sub, metric, period[sub].start, period[sub].end)
    BY DEF Usage, Total, TotalOf, Terms
  <1>5. TotalOf(log, sub, metric, period[sub].start, period[sub].end) \in Nat
    BY <1>1, TotalType
  <1>6. TotalOf(log, sub, metric, period[sub].start, period[sub].end) <= Since(sub, metric)
    BY <1>1, <1>3, TotalCompare DEF Since
  <1> QED BY <1>1, <1>4, <1>5, <1>6

\* Each caller overshoots at most once.
LEMMA OvershootTotal ==
  ASSUME NEW S \in Nat, NEW L \in Nat, NEW P \in SUBSET Callers,
         NEW d \in [Callers -> Nat], Overshoot(S, P, d, L)
  PROVE  S <= Cardinality(Callers) * L
  <1> DEFINE N == Cardinality(Callers)
  <1>1. Free({}) = N
    <2>1. Cardinality({}) = 0 /\ N \in Nat
      BY LimitsAssumption, FS_EmptySet, FS_CardinalityType
    <2> QED BY <2>1 DEF Free
  <1>2. /\ N \in Nat /\ Free(P) \in Nat /\ Free(P) <= N
        /\ P # {} => Free(P) + 1 <= N
    <2>1. {} \in SUBSET P /\ {} \in SUBSET Callers
      OBVIOUS
    <2> HIDE DEF N
    <2>2. Free({}) \in Nat /\ Free(P) \in Nat
      BY <2>1, FreeType
    <2>3. Free(P) <= Free({}) /\ (P # {} => Free(P) + 1 <= Free({}))
      BY <2>1, FreeType
    <2> QED BY <1>1, <2>2, <2>3
  <1>3. \A m, n \in Nat : m <= n => m * L <= n * L /\ m * L \in Nat
    OBVIOUS
  <1> HIDE DEF N
  <1>4. Free(P) * L <= N * L /\ Free(P) * L \in Nat /\ N * L \in Nat
    BY <1>2, <1>3
  <1>5. CASE S <= Free(P) * L
    BY <1>4, <1>5 DEF N
  <1>6. ASSUME NEW c \in P, S + d[c] <= (Free(P) + 1) * L
        PROVE  S <= N * L
    <2>1. (Free(P) + 1) * L <= N * L /\ (Free(P) + 1) * L \in Nat /\ d[c] \in Nat
      BY <1>2, <1>3
    <2> QED BY <1>4, <1>6, <2>1
  <1> QED BY <1>5, <1>6 DEF Overshoot, N

\* CheckLimits and RecordUsage: the records, the periods and the requests keep
\* their types, for any number of callers, records, metrics and instants.
THEOREM LimitsTypes == LimitsSpec => []LimitsTypeOK
  <1>1. LimitsInv => LimitsTypeOK
    BY DEF LimitsInv, LimitsShape
  <1> QED BY <1>1, LimitsInductive, PTL

\* CheckLimits: if requests for one subscription do not overlap, the usage of the
\* current period stays within every limit as long as the checks saw all of it, no
\* sum wrapped around and no negative quantity was recorded, whatever the renewals,
\* the widths, the quantities asked for and the number of metrics in a request.
THEOREM LimitIsKept == LimitsSpec => []LimitKept
  <1>1. LimitsInv => LimitKept
    <2>1. SUFFICES ASSUME LimitsInv, serial,
                          NEW sub \in SubscriptionIDs, NEW metric \in Metrics,
                          Guarded(sub, metric)
                   PROVE  Usage(sub, metric) <= Limits[metric]
      BY DEF LimitKept
    <2>2. Since(sub, metric) <= Limits[metric]
      BY <2>1 DEF LimitsInv, BucketBound, Kept
    <2>3. Limits[metric] \in Nat
      BY <2>1, GuardedFacts DEF LimitsInv, LimitsShape
    <2> QED BY <2>1, <2>2, <2>3, UsageWithin DEF LimitsInv
  <1> QED BY <1>1, LimitsInductive, PTL

\* CheckLimits: requests that overlap exceed a limit at most once per caller, under
\* the same conditions.
THEOREM OvershootIsBounded == LimitsSpec => []OvershootBounded
  <1>1. LimitsInv => OvershootBounded
    <2>1. SUFFICES ASSUME LimitsInv,
                          NEW sub \in SubscriptionIDs, NEW metric \in Metrics,
                          Guarded(sub, metric)
                   PROVE  Usage(sub, metric) <= Cardinality(Callers) * Limits[metric]
      BY DEF OvershootBounded
    <2> DEFINE P == Pending(caller, clock, sub, metric)
               d == Asked(caller, metric)
    <2>2. Overshoot(Since(sub, metric), P, d, Limits[metric])
      BY <2>1 DEF LimitsInv, BucketBound
    <2>3. /\ Since(sub, metric) \in Nat /\ Limits[metric] \in Nat
          /\ d \in [Callers -> Nat] /\ P \in SUBSET Callers
      BY <2>1, LimitsFacts, GuardedFacts DEF LimitsInv, LimitsShape, Pending
    <2> HIDE DEF P, d
    <2>4. Since(sub, metric) <= Cardinality(Callers) * Limits[metric]
      BY <2>2, <2>3, OvershootTotal
    <2>5. /\ Usage(sub, metric) \in Nat
          /\ Usage(sub, metric) <= Since(sub, metric)
      BY <2>1, UsageWithin DEF LimitsInv
    <2>6. Cardinality(Callers) * Limits[metric] \in Int
      <3>1. Cardinality(Callers) \in Nat
        BY LimitsAssumption, FS_CardinalityType
      <3> QED BY <2>3, <3>1
    <2> QED BY <2>3, <2>4, <2>5, <2>6
  <1> QED BY <1>1, LimitsInductive, PTL
=============================================================================
