------------------------------- MODULE DPSync --------------------------------
(***************************************************************************)
(* Data parallelism: every rank runs its own engine and its own virtual    *)
(* worker, and a step lasts as long as the slowest rank's:                 *)
(* VirtualModelRunner._sync_dp_latency takes the maximum of the latencies  *)
(* with an all_reduce over the ranks.  The k-th all_reduce a rank enters   *)
(* is matched with the k-th of every other rank.  Gloo gives up on a       *)
(* reduce some rank does not join; from then on the group is broken, every *)
(* all_reduce raises, and the runner uses its own latency.                 *)
(***************************************************************************)
EXTENDS Integers, Sequences, FiniteSets

CONSTANTS Rank,        \* the data parallel ranks
          Costs,       \* step latencies the cost engine may return
          MaxSteps     \* bound: iterations of a rank's engine

ASSUME DPOK == /\ Costs \subseteq Nat
               /\ MaxSteps \in Nat

VARIABLES pc,       \* per rank: "ready", or "reducing" inside all_reduce
          step,     \* per rank: iterations of the engine so far
          cost,     \* per rank: local_latency of the last step
          reduces,  \* per all_reduce: rank -> latency and iteration it came with
          joined,   \* per rank: all_reduces entered
          broken,   \* gloo has given up
          simTime,  \* per rank: MetricsCollector.sim_time
          \* history:
          worked,   \* per rank: sum of its own latencies
          idled     \* ranks that had nothing to run in some iteration

runner  == <<pc, step, cost, reduces, joined, broken, simTime>>
vars == <<runner, worked, idled>>

TypeOK == /\ pc \in [Rank -> {"ready", "reducing"}]
          /\ step \in [Rank -> 0..MaxSteps]
          /\ cost \in [Rank -> Costs \cup {0}]
          /\ reduces \in Seq(SUBSET [rank : Rank, cost : Costs, step : 1..MaxSteps])
          /\ joined \in [Rank -> 0..Len(reduces)]
          /\ broken \in BOOLEAN
          /\ simTime \in [Rank -> Nat]
          /\ worked \in [Rank -> Nat]
          /\ idled \subseteq Rank

Init == /\ pc = [r \in Rank |-> "ready"]
        /\ step = [r \in Rank |-> 0]
        /\ cost = [r \in Rank |-> 0]
        /\ reduces = << >>
        /\ joined = [r \in Rank |-> 0]
        /\ broken = FALSE
        /\ simTime = [r \in Rank |-> 0]
        /\ worked = [r \in Rank |-> 0]
        /\ idled = {}

\* The reduces once rank r has entered its next one.
Entered(r, c) ==
  LET k == joined[r] + 1
      entry == [rank |-> r, cost |-> c, step |-> step[r] + 1]
  IN  IF k > Len(reduces) THEN Append(reduces, {entry})
                          ELSE [reduces EXCEPT ![k] = @ \cup {entry}]

\* Mutant: a step that costs nothing is not synchronised.
BusyStepUnlessFree(r) ==
  /\ pc[r] = "ready" /\ step[r] < MaxSteps
  /\ step' = [step EXCEPT ![r] = @ + 1]
  /\ \E c \in Costs :
       /\ cost' = [cost EXCEPT ![r] = c]
       /\ worked' = [worked EXCEPT ![r] = @ + c]
       /\ IF broken \/ c = 0
          THEN /\ simTime' = [simTime EXCEPT ![r] = @ + c]
               /\ UNCHANGED <<pc, reduces, joined>>
          ELSE /\ pc' = [pc EXCEPT ![r] = "reducing"]
               /\ reduces' = Entered(r, c)
               /\ joined' = [joined EXCEPT ![r] = @ + 1]
               /\ UNCHANGED simTime
  /\ UNCHANGED <<broken, idled>>

\* execute_step with tokens: the rank enters an all_reduce, which raises at
\* once in a broken group.
BusyStep(r) ==
  /\ pc[r] = "ready" /\ step[r] < MaxSteps
  /\ step' = [step EXCEPT ![r] = @ + 1]
  /\ \E c \in Costs :
       /\ cost' = [cost EXCEPT ![r] = c]
       /\ worked' = [worked EXCEPT ![r] = @ + c]
       /\ IF broken
          THEN /\ simTime' = [simTime EXCEPT ![r] = @ + c]
               /\ UNCHANGED <<pc, reduces, joined>>
          ELSE /\ pc' = [pc EXCEPT ![r] = "reducing"]
               /\ reduces' = Entered(r, c)
               /\ joined' = [joined EXCEPT ![r] = @ + 1]
               /\ UNCHANGED simTime
  /\ UNCHANGED <<broken, idled>>

\* execute_dummy_batch, or execute_step without tokens: nothing happens.
IdleStep(r) ==
  /\ pc[r] = "ready" /\ step[r] < MaxSteps
  /\ step' = [step EXCEPT ![r] = @ + 1]
  /\ idled' = idled \cup {r}
  /\ UNCHANGED <<pc, cost, reduces, joined, broken, simTime, worked>>

\* Every rank has entered the reduce that r is in.
Complete(r) == {e.rank : e \in reduces[joined[r]]} = Rank

\* Mutant: ReduceOp.MIN
Fastest(entries) == {e.cost : e \in {d \in entries : \A f \in entries : d.cost <= f.cost}}

\* ReduceOp.MAX: the one greatest cost.
Slowest(entries) == {e.cost : e \in {d \in entries : \A f \in entries : f.cost <= d.cost}}

Synced(r) ==
  /\ pc[r] = "reducing" /\ Complete(r)
  /\ pc' = [pc EXCEPT ![r] = "ready"]
  /\ \E c \in Slowest(reduces[joined[r]]) : simTime' = [simTime EXCEPT ![r] = @ + c]
  /\ UNCHANGED <<step, cost, reduces, joined, broken, worked, idled>>

\* Mutant: a failed reduce is tried again.
FallBackNever(r) ==
  /\ pc[r] = "reducing" /\ ~ Complete(r)
  /\ broken' = TRUE
  /\ UNCHANGED <<pc, step, cost, reduces, joined, simTime, worked, idled>>

\* The reduce raises, here by timing out or because the group is broken: the
\* step lasts what it costs locally.
FallBack(r) ==
  /\ pc[r] = "reducing" /\ ~ Complete(r)
  /\ broken' = TRUE
  /\ pc' = [pc EXCEPT ![r] = "ready"]
  /\ simTime' = [simTime EXCEPT ![r] = @ + cost[r]]
  /\ UNCHANGED <<step, cost, reduces, joined, worked, idled>>

Next == \E r \in Rank : BusyStep(r) \/ IdleStep(r) \/ Synced(r) \/ FallBack(r)

Spec == Init /\ [][Next]_vars

\* A reduce ends: complete, or given up by gloo after its timeout.
FairSpec == Spec /\ \A r \in Rank : WF_vars(Synced(r) \/ FallBack(r))

-----------------------------------------------------------------------------
(* Properties                                                              *)

\* A rank is never faster than its own work: synchronising only lengthens a
\* step, and the fallback loses none (virtual_model_runner.py:232-263).
NeverFaster ==
  \A r \in Rank : simTime[r] + (IF pc[r] = "reducing" THEN cost[r] ELSE 0) >= worked[r]

\* No step waits for ever: whatever the other ranks do, the runner gets a
\* latency (virtual_model_runner.py:259-263).
EveryStepEnds == \A r \in Rank : pc[r] = "reducing" ~> pc[r] = "ready"

\* The latencies an all_reduce compares are those of the same iteration.
\* This is what execute_dummy_batch is said to be called for by an idle rank:
\* "keep gloo collective 同步" (virtual_worker.py:258-259).
LockStep == \A k \in DOMAIN reduces : \A d, e \in reduces[k] : d.step = e.step

\* As long as every rank has work and the group is whole, ranks that have run
\* the same number of steps have the same clock, and each all_reduce compares
\* one iteration.
ClocksAgree ==
  ~ broken /\ idled = {} =>
     /\ LockStep
     /\ \A r, s \in Rank : step[r] = step[s] /\ pc[r] = "ready" /\ pc[s] = "ready"
                             => simTime[r] = simTime[s]

\* All_reduces of rank r that have ended.
Ended(r) == joined[r] - (IF pc[r] = "reducing" THEN 1 ELSE 0)

\* A rank waits in a reduce it has an entry in, and has joined every reduce
\* it has an entry in.
EntriesMatch ==
  /\ \A r \in Rank : pc[r] = "reducing" =>
       /\ joined[r] > 0
       /\ \E e \in reduces[joined[r]] : e.rank = r /\ e.cost = cost[r]
  /\ \A k \in DOMAIN reduces : \A e \in reduces[k] : k <= joined[e.rank]

\* In a whole group no reduce ends before all have joined it; clocks that
\* have ended as many reduces agree, and one that is ahead is so by one
\* reduce and by what that one took.
ClocksFollowReduces ==
  ~ broken =>
    \A r, s \in Rank :
      /\ Ended(s) <= joined[r]
      /\ Ended(s) = Ended(r) => simTime[s] = simTime[r]
      /\ Ended(s) = Ended(r) + 1 =>
           \E c \in Slowest(reduces[Ended(s)]) : simTime[s] = simTime[r] + c

\* While all have work the n-th reduce is that of the n-th iteration.
StepsAreReduces ==
  ~ broken /\ idled = {} =>
    /\ \A r \in Rank : step[r] = joined[r]
    /\ \A k \in DOMAIN reduces : \A e \in reduces[k] : e.step = k

\* The inductive invariant behind ClocksAgree; it holds NeverFaster as well.
IInv == TypeOK /\ EntriesMatch /\ NeverFaster /\ ClocksFollowReduces /\ StepsAreReduces
=============================================================================
