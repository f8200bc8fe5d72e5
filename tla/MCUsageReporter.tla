-------------------------- MODULE MCUsageReporter --------------------------
(***************************************************************************)
(* TLC instance of UsageReporter: one subscription with a provider ID and  *)
(* one without.  Quantities and times decide nothing here.                 *)
(***************************************************************************)
EXTENDS UsageReporter
=============================================================================
