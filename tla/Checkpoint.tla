----------------------------- MODULE Checkpoint ------------------------------
(***************************************************************************)
(* collector/checkpoint.py: the ledger that lets a measurement campaign    *)
(* resume, as a value in memory and as a file.                             *)
(***************************************************************************)
EXTENDS Integers, FiniteSets

CONSTANT NumCases     \* length of the case list of one operator

ASSUME NumCasesOK == NumCases \in Nat

\* Cases are numbered by their position in the list.
Case == 1..NumCases

Ledger  == [done : SUBSET Case, failed : SUBSET Case]
Empty   == [done |-> {}, failed |-> {}]

\* A checkpoint file: "absent", "damaged" (truncated, half written, or not a
\* CheckpointState at all: load catches what json.loads and from_json_dict
\* raise), "whole".
LedgerFile == [status : {"absent", "damaged", "whole"}, ledger : Ledger]
Absent     == [status |-> "absent", ledger |-> Empty]
Damaged    == [status |-> "damaged", ledger |-> Empty]
Whole(l)   == [status |-> "whole", ledger |-> l]

\* checkpoint.load: a missing or damaged file is an empty ledger.
Load(file) == IF file.status = "whole" THEN file.ledger ELSE Empty

\* Mutant: --retry-failed runs everything again.
FilterCasesForgetful(ledger, requested, retryFailed) ==
  requested \ (IF retryFailed THEN {} ELSE ledger.done \cup ledger.failed)

\* checkpoint.filter_cases: done is always skipped, failed unless retried.
FilterCases(ledger, requested, retryFailed) ==
  requested \ (ledger.done \cup (IF retryFailed THEN {} ELSE ledger.failed))

\* cases_to_run[:limit]
FirstN(S, n) == {c \in S : Cardinality({d \in S : d < c}) < n}

\* Mutant: a failure is not noted.
WithFailedForgotten(ledger, c) == ledger

\* checkpoint.mark_done and mark_failed, before their save.
WithDone(ledger, c) == [done |-> ledger.done \cup {c}, failed |-> ledger.failed \ {c}]
WithFailed(ledger, c) == [ledger EXCEPT !.failed = @ \cup {c}]
=============================================================================
