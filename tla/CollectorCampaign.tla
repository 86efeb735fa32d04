-------------------------- MODULE CollectorCampaign --------------------------
(***************************************************************************)
(* What the measurement collector promises its operator, with no process,  *)
(* no file format and no crash in sight: a case is accounted for as done   *)
(* only once its measurement is published, as failed only once its error   *)
(* is logged, and a done case stays done until the ledger itself is lost.  *)
(* Collector (collector/scheduler.py, checkpoint.py, writer.py) implements *)
(* this module.                                                            *)
(***************************************************************************)
EXTENDS Naturals

CONSTANT Case       \* the measurement cases of one operator

VARIABLES recorded, \* cases with a published measurement
          logged,   \* cases with a logged error
          done,     \* cases accounted for as measured
          failed    \* cases accounted for as failed

vars == <<recorded, logged, done, failed>>

TypeOK == /\ recorded \subseteq Case
          /\ logged \subseteq Case
          /\ done \subseteq Case
          /\ failed \subseteq Case

Init == recorded = {} /\ logged = {} /\ done = {} /\ failed = {}

\* A measurement reaches the published file.
Publish(c) == /\ recorded' = recorded \cup {c}
              /\ UNCHANGED <<logged, done, failed>>

\* An error reaches the error log.
LogError(c) == /\ logged' = logged \cup {c}
               /\ UNCHANGED <<recorded, done, failed>>

\* A published case is accounted for; an earlier failure is redeemed.
Complete(c) == /\ c \in recorded
               /\ done' = done \cup {c}
               /\ failed' = failed \ {c}
               /\ UNCHANGED <<recorded, logged>>

\* A case that is not done and whose error is logged is given up.
GiveUp(c) == /\ c \in logged \ done
             /\ failed' = failed \cup {c}
             /\ UNCHANGED <<recorded, logged, done>>

\* The ledger is damaged: everything is to be measured again.
LoseLedger == /\ done' = {}
              /\ failed' = {}
              /\ UNCHANGED <<recorded, logged>>

Next == \/ \E c \in Case : Publish(c) \/ LogError(c) \/ Complete(c) \/ GiveUp(c)
        \/ LoseLedger

Spec == Init /\ [][Next]_vars
=============================================================================
