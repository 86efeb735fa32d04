----------------------------- MODULE DPSyncProofs -----------------------------
(***************************************************************************)
(* What is proved of DPSync, for any ranks, latencies and number of steps: *)
(* synchronising never makes a rank faster than its own work, and while    *)
(* every rank has work and gloo is whole, clocks of ranks that have run as *)
(* many steps agree.                                                       *)
(***************************************************************************)
EXTENDS DPSync, TLAPS

-----------------------------------------------------------------------------
\* The numbers the runner computes with are natural.
LEMMA Numbers ==
  ASSUME TypeOK
  PROVE  /\ Len(reduces) \in Nat /\ DOMAIN reduces = 1..Len(reduces)
         /\ \A q \in Rank : /\ joined[q] \in Nat /\ joined[q] <= Len(reduces)
                            /\ {step[q], cost[q], simTime[q], worked[q]} \subseteq Nat
                            /\ Ended(q) \in Int
         /\ \A k \in DOMAIN reduces : \A e \in reduces[k] :
              e.rank \in Rank /\ e.cost \in Nat /\ e.step \in Nat
<1>1. Len(reduces) \in Nat /\ DOMAIN reduces = 1..Len(reduces)
  BY DEF TypeOK
<1>2. ASSUME NEW q \in Rank
      PROVE  /\ joined[q] \in Nat /\ joined[q] <= Len(reduces)
             /\ {step[q], cost[q], simTime[q], worked[q]} \subseteq Nat
             /\ Ended(q) \in Int
  <2>1. joined[q] \in 0..Len(reduces) /\ step[q] \in 0..MaxSteps
    BY DEF TypeOK
  <2>2. cost[q] \in Costs \cup {0} /\ simTime[q] \in Nat /\ worked[q] \in Nat
    BY DEF TypeOK
  <2>3. cost[q] \in Nat
    BY <2>2, DPOK
  <2> QED
    BY <1>1, <2>1, <2>2, <2>3, DPOK DEF Ended
<1>3. ASSUME NEW k \in DOMAIN reduces, NEW e \in reduces[k]
      PROVE  e.rank \in Rank /\ e.cost \in Nat /\ e.step \in Nat
  <2>1. reduces[k] \in SUBSET [rank : Rank, cost : Costs, step : 1..MaxSteps]
    BY DEF TypeOK
  <2>2. e \in [rank : Rank, cost : Costs, step : 1..MaxSteps]
    BY <2>1
  <2>3. e.rank \in Rank /\ e.cost \in Costs /\ e.step \in 1..MaxSteps
    BY <2>2
  <2>4. e.cost \in Nat
    BY <2>3, DPOK
  <2>5. e.step \in Nat
    BY <2>3, DPOK
  <2> QED
    BY <2>3, <2>4, <2>5
<1> QED
  BY <1>1, <1>2, <1>3

\* Entering an all_reduce adds one entry to the rank's next reduce and leaves
\* every other reduce as it was (virtual_model_runner.py:253-258).
LEMMA EnteredAdds ==
  ASSUME TypeOK, NEW r \in Rank, NEW c \in Costs, step[r] < MaxSteps
  PROVE  LET k == joined[r] + 1
             e == [rank |-> r, cost |-> c, step |-> step[r] + 1]
         IN  /\ Entered(r, c) \in Seq(SUBSET [rank : Rank, cost : Costs, step : 1..MaxSteps])
             /\ Len(Entered(r, c)) >= Len(reduces)
             /\ k \in DOMAIN Entered(r, c)
             /\ e \in Entered(r, c)[k]
             /\ DOMAIN Entered(r, c) = DOMAIN reduces \cup {k}
             /\ \A i \in DOMAIN reduces : i # k => Entered(r, c)[i] = reduces[i]
             /\ \A x \in Entered(r, c)[k] : x = e \/ (k \in DOMAIN reduces /\ x \in reduces[k])
<1> DEFINE k == joined[r] + 1
           e == [rank |-> r, cost |-> c, step |-> step[r] + 1]
           Entries == [rank : Rank, cost : Costs, step : 1..MaxSteps]
<1>1. e \in Entries /\ k \in Nat \ {0} /\ k <= Len(reduces) + 1 /\ Len(reduces) \in Nat
  BY DPOK DEF TypeOK
<1>2. reduces \in Seq(SUBSET Entries)
  BY DEF TypeOK
<1>3. CASE k > Len(reduces)
  <2>1. Entered(r, c) = Append(reduces, {e}) /\ k = Len(reduces) + 1
    BY <1>1, <1>3 DEF Entered
  <2> QED
    BY <1>1, <1>2, <2>1
<1>4. CASE k <= Len(reduces)
  <2>1. Entered(r, c) = [reduces EXCEPT ![k] = @ \cup {e}] /\ k \in 1..Len(reduces)
    BY <1>1, <1>4 DEF Entered
  <2>2. reduces[k] \in SUBSET Entries
    BY <1>2, <2>1
  <2>3. reduces[k] \cup {e} \in SUBSET Entries
    BY <1>1, <2>2
  <2> HIDE DEF k, e, Entries
  <2>4. /\ Entered(r, c) \in Seq(SUBSET Entries)
        /\ Len(Entered(r, c)) = Len(reduces) /\ DOMAIN Entered(r, c) = 1..Len(reduces)
        /\ Entered(r, c)[k] = reduces[k] \cup {e}
        /\ \A i \in 1..Len(reduces) : i # k => Entered(r, c)[i] = reduces[i]
    BY <1>1, <1>2, <2>1, <2>3
  <2>5. DOMAIN reduces = 1..Len(reduces)
    BY <1>2
  <2> QED
    BY <1>1, <2>1, <2>4, <2>5 DEF k, e, Entries
<1> QED
  BY <1>1, <1>3, <1>4

\* The greatest cost is one (ReduceOp.MAX), and no entry has a greater one.
LEMMA SlowestIsOne ==
  ASSUME NEW entries, \A e \in entries : e.cost \in Nat,
         NEW c \in Slowest(entries)
  PROVE  /\ c \in Nat
         /\ \A e \in entries : e.cost <= c
         /\ \A d \in Slowest(entries) : d = c
<1>1. PICK x \in entries : x.cost = c /\ \A f \in entries : f.cost <= x.cost
  BY DEF Slowest
<1>2. ASSUME NEW d \in Slowest(entries)
      PROVE  d = c
  <2>1. PICK y \in entries : y.cost = d /\ \A f \in entries : f.cost <= y.cost
    BY DEF Slowest
  <2> QED
    BY <1>1, <2>1
<1> QED
  BY <1>1, <1>2

-----------------------------------------------------------------------------
(* IInv is inductive                                                       *)

LEMMA InvInit == Init => IInv
<1> SUFFICES ASSUME Init PROVE IInv
  OBVIOUS
<1>1. TypeOK
  <2>1. reduces \in Seq(SUBSET [rank : Rank, cost : Costs, step : 1..MaxSteps])
        /\ Len(reduces) = 0
    BY DEF Init
  <2>2. 0 \in 0..MaxSteps /\ 0 \in 0..Len(reduces)
    BY <2>1, DPOK
  <2> QED
    BY <2>1, <2>2 DEF Init, TypeOK
<1>2. EntriesMatch
  BY DEF Init, EntriesMatch
<1>3. NeverFaster
  BY DEF Init, NeverFaster
<1>4. ClocksFollowReduces
  BY DEF Init, ClocksFollowReduces, Ended
<1>5. StepsAreReduces
  BY DEF Init, StepsAreReduces
<1> QED
  BY <1>1, <1>2, <1>3, <1>4, <1>5 DEF IInv

\* A step of work in a whole group: the rank enters its next all_reduce.
LEMMA EnterInv ==
  ASSUME IInv, NEW r \in Rank, NEW c \in Costs,
         pc[r] = "ready", step[r] < MaxSteps, ~ broken,
         step' = [step EXCEPT ![r] = @ + 1],
         cost' = [cost EXCEPT ![r] = c],
         worked' = [worked EXCEPT ![r] = @ + c],
         pc' = [pc EXCEPT ![r] = "reducing"],
         reduces' = Entered(r, c),
         joined' = [joined EXCEPT ![r] = @ + 1],
         UNCHANGED <<simTime, broken, idled>>
  PROVE  IInv'
<1> DEFINE k == joined[r] + 1
           e == [rank |-> r, cost |-> c, step |-> step[r] + 1]
<1>0. TypeOK
  BY DEF IInv
<1>1. /\ reduces' \in Seq(SUBSET [rank : Rank, cost : Costs, step : 1..MaxSteps])
      /\ Len(reduces') >= Len(reduces)
      /\ k \in DOMAIN reduces' /\ e \in reduces'[k]
      /\ DOMAIN reduces' = DOMAIN reduces \cup {k}
      /\ \A i \in DOMAIN reduces : i # k => reduces'[i] = reduces[i]
      /\ \A x \in reduces'[k] : x = e \/ (k \in DOMAIN reduces /\ x \in reduces[k])
  BY <1>0, EnteredAdds
<1>2. /\ joined[r] \in Nat /\ step[r] \in Nat /\ c \in Nat /\ Len(reduces) \in Nat
      /\ \A q \in Rank : joined[q] \in 0..Len(reduces)
      /\ k \in 1..Len(reduces')
  <2>1. \A S : reduces' \in Seq(S) => DOMAIN reduces' = 1..Len(reduces')
    OBVIOUS
  <2> QED
    BY <1>0, <1>1, <2>1, Numbers, DPOK
<1>8. \A q \in Rank : /\ joined[q] \in Nat
                      /\ joined'[q] = IF q = r THEN joined[q] + 1 ELSE joined[q]
                      /\ pc'[q] = IF q = r THEN "reducing" ELSE pc[q]
  <2>1. \A q \in Rank : joined[q] \in Nat
    BY <1>2
  <2> QED
    BY <1>0, <2>1 DEF TypeOK
<1>3. TypeOK'
  <2>1. joined' \in [Rank -> 0..Len(reduces')]
    <3>1. \A q \in Rank : joined'[q] \in 0..Len(reduces')
      BY <1>1, <1>2, <1>8
    <3> QED
      BY <1>0, <3>1 DEF TypeOK
  <2>2. /\ step' \in [Rank -> 0..MaxSteps] /\ worked' \in [Rank -> Nat]
        /\ cost' \in [Rank -> Costs \cup {0}]
    BY <1>0, <1>2, DPOK DEF TypeOK
  <2> QED
    BY <1>0, <1>1, <2>1, <2>2 DEF TypeOK
<1>4. EntriesMatch'
  <2>1. ASSUME NEW q \in Rank, pc'[q] = "reducing"
        PROVE  joined'[q] > 0 /\ \E x \in reduces'[joined'[q]] : x.rank = q /\ x.cost = cost'[q]
    <3>1. CASE q = r
      <4>1. joined'[q] = k /\ cost'[q] = c
        BY <1>0, <3>1 DEF TypeOK
      <4> QED
        BY <1>1, <1>2, <3>1, <4>1
    <3>2. CASE q # r
      <4>1. joined'[q] = joined[q] /\ cost'[q] = cost[q] /\ pc[q] = "reducing"
        BY <1>0, <2>1, <3>2 DEF TypeOK
      <4>2. joined[q] > 0 /\ \E x \in reduces[joined[q]] : x.rank = q /\ x.cost = cost[q]
        BY <4>1 DEF IInv, EntriesMatch
      <4>3. reduces[joined[q]] \subseteq reduces'[joined[q]]
        <5>1. joined[q] \in DOMAIN reduces
          BY <1>0, <1>2, <4>2 DEF TypeOK
        <5>2. CASE joined[q] # k
          BY <1>1, <5>1, <5>2
        <5>3. CASE joined[q] = k
          <6>1. k <= Len(reduces)
            BY <1>2, <5>3
          <6>2. reduces' = [reduces EXCEPT ![k] = @ \cup {e}]
            BY <1>2, <6>1 DEF Entered
          <6> QED
            BY <1>0, <5>1, <5>3, <6>2 DEF TypeOK
        <5> QED
          BY <5>2, <5>3
      <4> QED
        BY <4>1, <4>2, <4>3
    <3> QED
      BY <3>1, <3>2
  <2>2. ASSUME NEW i \in DOMAIN reduces', NEW x \in reduces'[i]
        PROVE  i <= joined'[x.rank]
    <3>1. CASE x = e /\ i = k
      BY <1>0, <1>2, <3>1 DEF TypeOK
    <3>2. CASE i \in DOMAIN reduces /\ x \in reduces[i]
      <4>1. i <= joined[x.rank] /\ x.rank \in Rank /\ i \in Nat
        BY <1>0, <3>2 DEF IInv, EntriesMatch, TypeOK
      <4>2. joined'[x.rank] >= joined[x.rank]
        BY <1>8, <4>1
      <4>3. joined'[x.rank] \in Nat
        BY <1>3, <4>1 DEF TypeOK
      <4> QED
        BY <1>2, <4>1, <4>2, <4>3
    <3> QED
      BY <1>1, <2>2, <3>1, <3>2
  <2> QED
    BY <2>1, <2>2 DEF EntriesMatch
<1>5. NeverFaster'
  <2> SUFFICES ASSUME NEW q \in Rank
               PROVE  simTime'[q] + (IF pc'[q] = "reducing" THEN cost'[q] ELSE 0) >= worked'[q]
    BY DEF NeverFaster
  <2>1. /\ simTime'[q] = simTime[q] /\ simTime[q] \in Nat /\ worked[q] \in Nat
        /\ cost'[q] = IF q = r THEN c ELSE cost[q]
        /\ worked'[q] = IF q = r THEN worked[q] + c ELSE worked[q]
    BY <1>0 DEF TypeOK
  <2>2. simTime[q] + (IF pc[q] = "reducing" THEN cost[q] ELSE 0) >= worked[q]
    BY DEF IInv, NeverFaster
  <2> QED
    BY <1>2, <1>8, <2>1, <2>2
<1>6. ClocksFollowReduces'
  <2>1. \A q \in Rank : Ended(q)' = Ended(q) /\ Ended(q) \in Int
    BY <1>8 DEF Ended
  <2>2. \A p, q \in Rank : Ended(q) <= joined[p]
    BY DEF IInv, ClocksFollowReduces
  <2>3. \A p, q \in Rank : Ended(q) <= joined'[p]
    BY <1>8, <2>1, <2>2
  <2>4. ASSUME NEW p \in Rank, NEW q \in Rank, Ended(q) = Ended(p) + 1
        PROVE  reduces'[Ended(q)] = reduces[Ended(q)]
    <3>1. Ended(p) >= 0
      <4>1. pc[p] = "reducing" => joined[p] > 0
        BY DEF IInv, EntriesMatch
      <4> QED
        BY <1>2, <4>1 DEF Ended
    <3>2. Ended(q) \in DOMAIN reduces /\ Ended(q) # k
      <4>1. Ended(q) <= joined[r] /\ Ended(q) > 0 /\ Ended(q) \in Int
        BY <2>1, <2>2, <2>4, <3>1
      <4> QED
        BY <1>0, <4>1, Numbers
    <3> QED
      BY <1>1, <3>2
  <2>5. \A p, q \in Rank :
          /\ Ended(q) = Ended(p) => simTime[q] = simTime[p]
          /\ Ended(q) = Ended(p) + 1 =>
               \E d \in Slowest(reduces[Ended(q)]) : simTime[q] = simTime[p] + d
    BY DEF IInv, ClocksFollowReduces
  <2>6. ASSUME NEW p \in Rank, NEW q \in Rank
        PROVE  /\ Ended(q)' <= joined'[p]
               /\ Ended(q)' = Ended(p)' => simTime'[q] = simTime'[p]
               /\ Ended(q)' = Ended(p)' + 1 =>
                    \E d \in Slowest(reduces'[Ended(q)']) : simTime'[q] = simTime'[p] + d
    BY <2>1, <2>3, <2>4, <2>5
  <2> QED
    BY <2>6 DEF ClocksFollowReduces, Slowest
<1>7. StepsAreReduces'
  <2> SUFFICES ASSUME idled = {}
               PROVE  /\ \A q \in Rank : step'[q] = joined'[q]
                      /\ \A i \in DOMAIN reduces' : \A x \in reduces'[i] : x.step = i
    BY DEF StepsAreReduces
  <2>1. /\ \A q \in Rank : step[q] = joined[q]
        /\ \A i \in DOMAIN reduces : \A x \in reduces[i] : x.step = i
    BY DEF IInv, StepsAreReduces
  <2> QED
    BY <1>0, <1>1, <2>1 DEF TypeOK
<1> QED
  BY <1>3, <1>4, <1>5, <1>6, <1>7 DEF IInv

LEMMA BusyInv ==
  ASSUME IInv, NEW r \in Rank, BusyStep(r)
  PROVE  IInv'
<1>1. PICK c \in Costs :
        /\ cost' = [cost EXCEPT ![r] = c]
        /\ worked' = [worked EXCEPT ![r] = @ + c]
        /\ IF broken
           THEN /\ simTime' = [simTime EXCEPT ![r] = @ + c]
                /\ UNCHANGED <<pc, reduces, joined>>
           ELSE /\ pc' = [pc EXCEPT ![r] = "reducing"]
                /\ reduces' = Entered(r, c)
                /\ joined' = [joined EXCEPT ![r] = @ + 1]
                /\ UNCHANGED simTime
  BY DEF BusyStep
<1>2. /\ pc[r] = "ready" /\ step[r] < MaxSteps /\ step' = [step EXCEPT ![r] = @ + 1]
      /\ UNCHANGED <<broken, idled>>
  BY DEF BusyStep
<1>3. CASE ~ broken
  BY <1>1, <1>2, <1>3, EnterInv
<1>4. CASE broken
  <2>1. c \in Nat
    BY DPOK
  <2>2. TypeOK'
    <3>1. /\ step' \in [Rank -> 0..MaxSteps]
          /\ cost' \in [Rank -> Costs \cup {0}]
      BY <1>1, <1>2, DPOK DEF IInv, TypeOK
    <3>2. simTime' \in [Rank -> Nat] /\ worked' \in [Rank -> Nat]
      BY <1>1, <1>4, <2>1 DEF IInv, TypeOK
    <3>3. UNCHANGED <<pc, reduces, joined, broken, idled>>
      BY <1>1, <1>2, <1>4
    <3> QED
      BY <3>1, <3>2, <3>3 DEF IInv, TypeOK
  <2>3. EntriesMatch'
    BY <1>1, <1>2, <1>4 DEF IInv, TypeOK, EntriesMatch
  <2>4. NeverFaster'
    BY <1>1, <1>2, <1>4, <2>1 DEF IInv, TypeOK, NeverFaster
  <2>5. ClocksFollowReduces' /\ StepsAreReduces'
    BY <1>2, <1>4 DEF ClocksFollowReduces, StepsAreReduces
  <2> QED
    BY <2>2, <2>3, <2>4, <2>5 DEF IInv
<1> QED
  BY <1>3, <1>4

LEMMA IdleInv ==
  ASSUME IInv, NEW r \in Rank, IdleStep(r)
  PROVE  IInv'
<1>1. TypeOK'
  BY DPOK DEF IdleStep, IInv, TypeOK
<1>2. EntriesMatch' /\ NeverFaster'
  BY DEF IdleStep, IInv, EntriesMatch, NeverFaster
<1>3. ClocksFollowReduces'
  BY DEF IdleStep, IInv, ClocksFollowReduces, Ended, Slowest
<1>4. StepsAreReduces'
  BY DEF IdleStep, StepsAreReduces
<1> QED
  BY <1>1, <1>2, <1>3, <1>4 DEF IInv

LEMMA SyncedInv ==
  ASSUME IInv, NEW r \in Rank, Synced(r)
  PROVE  IInv'
<1> DEFINE k == joined[r]
<1>1. PICK c \in Slowest(reduces[k]) : simTime' = [simTime EXCEPT ![r] = @ + c]
  BY DEF Synced
<1>2. /\ pc[r] = "reducing" /\ {e.rank : e \in reduces[k]} = Rank
      /\ pc' = [pc EXCEPT ![r] = "ready"]
      /\ UNCHANGED <<step, cost, reduces, joined, broken, worked, idled>>
  BY DEF Synced, Complete
<1>3. k \in DOMAIN reduces /\ k \in Nat
  BY <1>2 DEF IInv, EntriesMatch, TypeOK
<1>4. \A e \in reduces[k] : e.cost \in Nat
  BY <1>3, Numbers DEF IInv
<1>5. /\ c \in Nat
      /\ \A e \in reduces[k] : e.cost <= c
      /\ \A d \in Slowest(reduces[k]) : d = c
  BY <1>4, SlowestIsOne
<1>6. \A q \in Rank : k <= joined[q]
  <2>1. ASSUME NEW q \in Rank PROVE k <= joined[q]
    <3>1. PICK e \in reduces[k] : e.rank = q
      BY <1>2
    <3> QED
      BY <1>3, <3>1 DEF IInv, EntriesMatch
  <2> QED
    BY <2>1
<1>7. TypeOK'
  BY <1>1, <1>2, <1>5 DEF IInv, TypeOK
<1>8. EntriesMatch'
  BY <1>2 DEF IInv, TypeOK, EntriesMatch
<1>9. NeverFaster'
  <2>1. cost[r] <= c /\ cost[r] \in Nat
    <3>1. PICK e \in reduces[k] : e.cost = cost[r]
      BY <1>2 DEF IInv, EntriesMatch
    <3> QED
      BY <1>4, <1>5, <3>1
  <2>2. simTime[r] + cost[r] >= worked[r]
    BY <1>2 DEF IInv, NeverFaster
  <2>3. simTime'[r] + (IF pc'[r] = "reducing" THEN cost'[r] ELSE 0) >= worked'[r]
    <3>1. simTime'[r] = simTime[r] + c /\ pc'[r] = "ready" /\ worked'[r] = worked[r]
      BY <1>1, <1>2 DEF IInv, TypeOK
    <3>2. simTime[r] \in Nat /\ worked[r] \in Nat
      BY DEF IInv, TypeOK
    <3> QED
      BY <1>5, <2>1, <2>2, <3>1, <3>2
  <2>4. ASSUME NEW q \in Rank, q # r
        PROVE  simTime'[q] + (IF pc'[q] = "reducing" THEN cost'[q] ELSE 0) >= worked'[q]
    <3>1. /\ simTime'[q] = simTime[q] /\ pc'[q] = pc[q]
          /\ cost'[q] = cost[q] /\ worked'[q] = worked[q]
      BY <1>1, <1>2, <2>4 DEF IInv, TypeOK
    <3> QED
      BY <3>1 DEF IInv, NeverFaster
  <2> QED
    BY <2>3, <2>4 DEF NeverFaster
<1>10. ClocksFollowReduces'
  <2> SUFFICES ASSUME ~ broken PROVE ClocksFollowReduces'
    BY <1>2 DEF ClocksFollowReduces
  <2>1. /\ \A q \in Rank : joined[q] \in Nat /\ Ended(q) \in Int /\ simTime[q] \in Nat
        /\ Ended(r) = k - 1 /\ Ended(r)' = k
        /\ \A q \in Rank \ {r} : Ended(q)' = Ended(q)
    BY <1>2 DEF IInv, TypeOK, Ended
  <2>2. \A p, q \in Rank :
          /\ Ended(q) <= joined[p]
          /\ Ended(q) = Ended(p) => simTime[q] = simTime[p]
          /\ Ended(q) = Ended(p) + 1 =>
               \E d \in Slowest(reduces[Ended(q)]) : simTime[q] = simTime[p] + d
    BY DEF IInv, ClocksFollowReduces
  <2>3. simTime'[r] = simTime[r] + c /\ \A q \in Rank \ {r} : simTime'[q] = simTime[q]
    BY <1>1 DEF IInv, TypeOK
  <2>4. ASSUME NEW q \in Rank \ {r}
        PROVE  /\ Ended(q) <= k
               /\ Ended(q) = k => simTime[q] = simTime[r] + c
               /\ Ended(q) = k - 1 => simTime[q] = simTime[r]
    <3>1. ASSUME Ended(q) = k PROVE simTime[q] = simTime[r] + c
      <4>1. Ended(q) = Ended(r) + 1
        BY <1>3, <2>1, <3>1
      <4>2. PICK d \in Slowest(reduces[Ended(q)]) : simTime[q] = simTime[r] + d
        BY <2>2, <4>1
      <4>3. d = c
        BY <1>5, <3>1, <4>2
      <4> QED
        BY <4>2, <4>3
    <3> QED
      BY <2>1, <2>2, <3>1
  <2>5. ASSUME NEW p \in Rank, NEW q \in Rank
        PROVE  /\ Ended(q)' <= joined[p]
               /\ Ended(q)' = Ended(p)' => simTime'[q] = simTime'[p]
               /\ Ended(q)' = Ended(p)' + 1 =>
                    \E d \in Slowest(reduces[Ended(q)']) : simTime'[q] = simTime'[p] + d
    <3>1. CASE p = r /\ q = r
      BY <1>3, <1>6, <2>1, <3>1
    <3>2. CASE p = r /\ q # r
      <4>1. Ended(q)' = Ended(q) /\ Ended(p)' = k /\ Ended(q) <= k /\ Ended(q) <= joined[p]
        BY <2>1, <2>2, <2>4, <3>2
      <4>2. Ended(q) = k => simTime'[q] = simTime'[p]
        BY <2>3, <2>4, <3>2
      <4> QED
        BY <1>3, <2>1, <4>1, <4>2
    <3>3. CASE p # r /\ q = r
      <4>1. Ended(q)' = k /\ Ended(p)' = Ended(p) /\ k <= joined[p]
        BY <1>6, <2>1, <3>3
      <4>2. Ended(p) = k => simTime'[q] = simTime'[p]
        BY <2>3, <2>4, <3>3
      <4>3. Ended(p) = k - 1 => simTime'[q] = simTime'[p] + c
        BY <2>3, <2>4, <3>3
      <4> QED
        BY <1>1, <1>3, <2>1, <4>1, <4>2, <4>3
    <3>4. CASE p # r /\ q # r
      BY <2>1, <2>2, <2>3, <3>4
    <3> QED
      BY <3>1, <3>2, <3>3, <3>4
  <2> QED
    BY <1>2, <2>5 DEF ClocksFollowReduces, Slowest
<1>11. StepsAreReduces'
  BY <1>2 DEF IInv, StepsAreReduces
<1> QED
  BY <1>7, <1>8, <1>9, <1>10, <1>11 DEF IInv

LEMMA FallBackInv ==
  ASSUME IInv, NEW r \in Rank, FallBack(r)
  PROVE  IInv'
<1>0. cost[r] \in Nat /\ \A q \in Rank : simTime[q] \in Nat /\ worked[q] \in Nat
  BY Numbers DEF IInv
<1>1. TypeOK'
  BY <1>0 DEF FallBack, IInv, TypeOK
<1>2. EntriesMatch'
  BY DEF FallBack, IInv, TypeOK, EntriesMatch
<1>3. NeverFaster'
  BY <1>0 DEF FallBack, IInv, TypeOK, NeverFaster
<1>4. ClocksFollowReduces' /\ StepsAreReduces'
  BY DEF FallBack, ClocksFollowReduces, StepsAreReduces
<1> QED
  BY <1>1, <1>2, <1>3, <1>4 DEF IInv

LEMMA InvNext == IInv /\ [Next]_vars => IInv'
<1> SUFFICES ASSUME IInv, [Next]_vars PROVE IInv'
  OBVIOUS
<1>1. CASE Next
  BY <1>1, BusyInv, IdleInv, SyncedInv, FallBackInv DEF Next
<1>2. CASE UNCHANGED vars
  BY <1>2 DEF vars, runner, IInv, TypeOK, EntriesMatch, NeverFaster, ClocksFollowReduces,
     StepsAreReduces, Ended, Slowest
<1> QED
  BY <1>1, <1>2

-----------------------------------------------------------------------------
\* The inductive invariant holds in every reachable state.
THEOREM InvCorrect == Spec => []IInv
BY InvInit, InvNext, PTL DEF Spec

\* No rank is faster than its own work (virtual_model_runner.py:232-263).
THEOREM NeverFasterAlways == Spec => []NeverFaster
<1>1. IInv => NeverFaster
  BY DEF IInv
<1> QED
  BY <1>1, InvCorrect, PTL

\* In a whole group of ranks that all have work, each all_reduce compares one
\* iteration and clocks agree (virtual_model_runner.py:243-258).
THEOREM ClocksAgreeAlways == Spec => []ClocksAgree
<1>1. ASSUME IInv PROVE ClocksAgree
  <2> SUFFICES ASSUME ~ broken, idled = {} PROVE
        /\ LockStep
        /\ \A r, s \in Rank : step[r] = step[s] /\ pc[r] = "ready" /\ pc[s] = "ready"
                                => simTime[r] = simTime[s]
    BY DEF ClocksAgree
  <2>1. LockStep
    BY <1>1 DEF IInv, StepsAreReduces, LockStep
  <2>2. ASSUME NEW r \in Rank, NEW s \in Rank,
               step[r] = step[s], pc[r] = "ready", pc[s] = "ready"
        PROVE  simTime[r] = simTime[s]
    <3>1. joined[r] = joined[s] /\ joined[r] \in Int
      BY <1>1, <2>2 DEF IInv, StepsAreReduces, TypeOK
    <3>2. Ended(r) = Ended(s)
      BY <2>2, <3>1 DEF Ended
    <3> QED
      BY <1>1, <3>2 DEF IInv, ClocksFollowReduces
  <2> QED
    BY <2>1, <2>2
<1> QED
  BY <1>1, InvCorrect, PTL
=============================================================================
