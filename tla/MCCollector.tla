----------------------------- MODULE MCCollector -----------------------------
(* Collector on small instances.                                           *)
EXTENDS Collector

\* "no limit" and the smallest limit that splits a campaign over several runs
MCLimits == {0, 1, NumCases}
=============================================================================
