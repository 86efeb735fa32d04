----------------------------- MODULE ServingProofs -----------------------------
(***************************************************************************)
(* What the runner keeps of a request follows what the engine does with    *)
(* it, for any requests, any block size and any schedule.                  *)
(***************************************************************************)
EXTENDS Serving, SumLemmas

-----------------------------------------------------------------------------
(* The inductive invariant.  Times and totals are no part of it.           *)

Tokens    == (Req \cup {NoPrompt}) \X Nat
Transfers == [side : {"send", "recv"}, blocks : Nat]

Types ==
  /\ engine \in [Req -> [status : Statuses, computed : Nat, outputs : Seq(Tokens)]]
  /\ notify \subseteq Req
  /\ reqBlocks \in [Req -> Nat]
  /\ role \in Roles
  /\ charges \in [Req -> Seq(Transfers)]
  /\ DOMAIN requests = Req
  /\ \A r \in Req : DOMAIN requests[r] = DOMAIN NoMetrics

\* A request the engine has not run yet has left no trace.
Untouched(r) ==
  /\ r \notin tracked /\ r \notin handled /\ r \notin notify
  /\ reqBlocks[r] = 0
  /\ engine[r].outputs = << >> /\ engine[r].computed = 0
  /\ charges[r] = << >>

\* A request the engine runs, or will run again, is tracked, and its prompt booked.
Kept(r) ==
  /\ r \in tracked /\ r \notin notify
  /\ PromptLen[r] <= reqBlocks[r] * BlockSize
  /\ charges[r] # << >> => r \in handled

Follows ==
  \A r \in Req :
    /\ engine[r].status \in {"unborn", "waiting"} => Untouched(r)
    /\ engine[r].status \in {"running", "preempted"} => Kept(r)
    /\ role = "none" => r \notin handled
    /\ r \in handled => charges[r] # << >>

Inv == /\ Types /\ Follows
       /\ BlocksCoverComputed /\ ReleasedUnlessDrained /\ TokensFollowPrompt /\ OneTransfer

-----------------------------------------------------------------------------
(* Lemmas.                                                                 *)

\* Rounded up to blocks, no token is left over (kv_block_allocator.py:209-212).
LEMMA CeilDivCovers ==
  ASSUME NEW a \in Nat
  PROVE  CeilDiv(a, BlockSize) \in Nat /\ a <= CeilDiv(a, BlockSize) * BlockSize
<1> DEFINE q == (-a) \div BlockSize
<1>1. BlockSize \in Nat \ {0} /\ -a \in Int
  BY RequestsOK
<1>2. q \in Int /\ q * BlockSize <= -a
  BY <1>1
<1>3. q <= 0
  BY <1>1, <1>2
<1>4. CeilDiv(a, BlockSize) = -q
  BY <1>1 DEF CeilDiv
<1> QED
  BY <1>1, <1>2, <1>3, <1>4

\* A longer row of blocks covers what a shorter one does.
LEMMA CoversMore ==
  ASSUME NEW a \in Nat, NEW b \in Nat, NEW n \in Nat, a <= b, n <= a * BlockSize
  PROVE  n <= b * BlockSize
<1>1. BlockSize \in Nat
  BY RequestsOK
<1>2. a * BlockSize <= b * BlockSize
  BY <1>1
<1> QED
  BY <1>1, <1>2

\* What the scheduler's output says of each request it schedules.
LEMMA OutputsOK ==
  ASSUME Types, NEW so \in NextOutputs(IsConsumer)
  PROVE  /\ Scheduled(so) \subseteq Live
         /\ New(so) = {r \in Scheduled(so) : engine[r].status = "waiting"}
         /\ Cached(so) = {r \in Scheduled(so) : engine[r].status # "waiting"}
         /\ so.finished = notify
         /\ \A r \in Scheduled(so) : ComputedAfter(so, r) \in Nat /\ so.ntok[r] \in Nat \ {0}
         /\ \A r \in New(so) : so.new[r] \in Nat /\ so.new[r] <= PromptLen[r]
         /\ \A r \in New(so) : engine[r].outputs = << >> =>
              /\ ComputedAfter(so, r) <= PromptLen[r] + (IF IsConsumer THEN 1 ELSE 0)
              /\ ComputedAfter(so, r) > PromptLen[r] => so.new[r] = PromptLen[r]
         /\ \A r \in Cached(so) : so.cached[r].outputs = Len(engine[r].outputs)
<1> DEFINE Fresh(S)  == {q \in S : engine[q].status = "waiting"}
           Seen(S)   == {q \in S : engine[q].status # "waiting"}
           Starts(S) == {f \in [S -> UNION {Admitted(r, IsConsumer) : r \in Req}
                                       \cup {engine[r].computed : r \in Req}] :
                           \A r \in S : IF engine[r].status = "running"
                                        THEN f[r] = engine[r].computed
                                        ELSE f[r] \in Admitted(r, IsConsumer)}
           Shares(S, start) == {n \in [S -> 1..Budget] :
                                  /\ \A r \in S : n[r] \in Share(r, start[r])
                                  /\ SumFunction(n) <= Budget}
           Out(S, start, ntok) ==
             [new      |-> [r \in Fresh(S) |-> start[r]],
              cached   |-> [r \in Seen(S) |->
                              [computed |-> start[r], outputs |-> Len(engine[r].outputs)]],
              ntok     |-> ntok,
              finished |-> notify]
<1>1. \E S \in SUBSET Live \ {{}} : \E start \in Starts(S) : \E ntok \in Shares(S, start) :
        so = Out(S, start, ntok)
  <2>1. so \in UNION {UNION {{Out(S, start, ntok) : ntok \in Shares(S, start)} :
                               start \in Starts(S)} : S \in SUBSET Live \ {{}}}
    BY DEF NextOutputs
  <2> HIDE DEF Out, Shares, Starts
  <2> QED
    BY <2>1
<1>2. PICK S \in SUBSET Live \ {{}} : \E start \in Starts(S) : \E ntok \in Shares(S, start) :
        so = Out(S, start, ntok)
  BY <1>1
<1>3. PICK start \in Starts(S) : \E ntok \in Shares(S, start) : so = Out(S, start, ntok)
  BY <1>2
<1>4. PICK ntok \in Shares(S, start) : so = Out(S, start, ntok)
  BY <1>3
<1>5. /\ so.new = [r \in Fresh(S) |-> start[r]]
      /\ so.cached = [r \in Seen(S) |->
                        [computed |-> start[r], outputs |-> Len(engine[r].outputs)]]
      /\ so.ntok = ntok
      /\ so.finished = notify
  BY <1>4
<1>6. /\ DOMAIN ntok = S
      /\ \A r \in S : ntok[r] \in 1..Budget /\ ntok[r] \in Share(r, start[r])
  <2> HIDE DEF Out, Starts
  <2> QED
    BY <1>4
<1>7. \A r \in S : IF engine[r].status = "running" THEN start[r] = engine[r].computed
                                                  ELSE start[r] \in Admitted(r, IsConsumer)
  <2> HIDE DEF Out, Shares
  <2> QED
    BY <1>3
<1> HIDE DEF Out, Shares, Starts
<1>8. Scheduled(so) = S /\ New(so) = Fresh(S) /\ Cached(so) = Seen(S) /\ S \subseteq Req
  BY <1>2, <1>5, <1>6 DEF Scheduled, New, Cached, Live, With
<1>9. ASSUME NEW r \in S
      PROVE  /\ start[r] \in Nat
             /\ engine[r].status # "running" =>
                  start[r] < PromptLen[r] \/ (start[r] = PromptLen[r] /\ IsConsumer)
  <2>1. PromptLen[r] \in Nat /\ engine[r].computed \in Nat /\ PrefixHits \subseteq Nat
    BY <1>8, RequestsOK, EngineOK DEF Types
  <2> QED
    BY <1>7, <2>1 DEF Admitted
<1>10. ASSUME NEW r \in S
       PROVE  /\ ComputedAfter(so, r) = ntok[r] + start[r]
              /\ ComputedAfter(so, r) \in Nat
  <2>1. ComputedAfter(so, r) = ntok[r] + start[r]
    BY <1>5, <1>8 DEF ComputedAfter
  <2>2. ntok[r] \in Nat
    BY <1>6, EngineOK
  <2> QED
    BY <2>1, <2>2, <1>9
<1>11. ASSUME NEW r \in Fresh(S), engine[r].outputs = << >>
       PROVE  /\ ComputedAfter(so, r) <= PromptLen[r] + (IF IsConsumer THEN 1 ELSE 0)
              /\ ComputedAfter(so, r) > PromptLen[r] => so.new[r] = PromptLen[r]
  <2>1. PromptLen[r] \in Nat /\ NumTokens(r) = PromptLen[r]
    BY <1>8, <1>11, RequestsOK DEF NumTokens
  <2>2. /\ start[r] \in Nat
        /\ start[r] < PromptLen[r] \/ (start[r] = PromptLen[r] /\ IsConsumer)
    BY <1>9
  <2>3. ntok[r] \in Nat /\ ntok[r] <= Larger(PromptLen[r] - start[r], 1)
    BY <1>6, <2>1, <2>2, EngineOK DEF Share, Larger
  <2>4. ComputedAfter(so, r) = ntok[r] + start[r]
    BY <1>10
  <2>5. so.new[r] = start[r]
    BY <1>5
  <2> QED
    BY <2>1, <2>2, <2>3, <2>4, <2>5 DEF Larger
<1>12. \A r \in Seen(S) : so.cached[r].outputs = Len(engine[r].outputs)
  BY <1>5
<1>13. \A r \in Fresh(S) : so.new[r] \in Nat /\ so.new[r] <= PromptLen[r]
  <2> SUFFICES ASSUME NEW r \in Fresh(S)
               PROVE  so.new[r] \in Nat /\ so.new[r] <= PromptLen[r]
    OBVIOUS
  <2>1. so.new[r] = start[r] /\ PromptLen[r] \in Nat
    BY <1>5, <1>8, RequestsOK
  <2> QED
    BY <1>9, <2>1
<1>14. \A r \in S : so.ntok[r] \in Nat \ {0}
  BY <1>5, <1>6, EngineOK
<1> QED
  BY <1>2, <1>5, <1>8, <1>10, <1>11, <1>12, <1>13, <1>14

\* Requests that are not waiting have their prompt booked when they run.
LEMMA SeenKept ==
  ASSUME Inv, NEW r \in Req, r \in Live, engine[r].status # "waiting"
  PROVE  Kept(r)
BY DEF Inv, Follows, Live, With

\* The ledger of a request that runs covers its prompt and what is computed
\* of it (kv_block_allocator.py:141-166).
LEMMA BookingCovers ==
  ASSUME Inv, NEW so \in NextOutputs(IsConsumer), AllocStep(so)
  PROVE  /\ reqBlocks' \in [Req -> Nat]
         /\ \A r \in notify : r \in Req => reqBlocks'[r] = 0
         /\ \A r \in Req \ (notify \cup Scheduled(so)) : reqBlocks'[r] = reqBlocks[r]
         /\ \A r \in Scheduled(so) :
              /\ r \in Req /\ r \notin notify
              /\ PromptLen[r] <= reqBlocks'[r] * BlockSize
              /\ ComputedAfter(so, r) <= reqBlocks'[r] * BlockSize + (IF IsConsumer THEN 1 ELSE 0)
<1>1. /\ Scheduled(so) \subseteq Live /\ Live \subseteq Req
      /\ New(so) = {r \in Scheduled(so) : engine[r].status = "waiting"}
      /\ Cached(so) = {r \in Scheduled(so) : engine[r].status # "waiting"}
      /\ so.finished = notify
      /\ \A r \in Scheduled(so) : ComputedAfter(so, r) \in Nat
      /\ \A r \in New(so) : engine[r].outputs = << >> =>
           ComputedAfter(so, r) <= PromptLen[r] + (IF IsConsumer THEN 1 ELSE 0)
  BY OutputsOK DEF Inv, Live, With
<1>2. /\ reqBlocks \in [Req -> Nat] /\ PromptLen \in [Req -> Nat \ {0}] /\ BlockSize \in Nat
  BY RequestsOK DEF Inv, Types
<1>3. reqBlocks' = [r \in Req |-> IF r \in notify THEN 0 ELSE Booked(so)[r]]
  BY <1>1 DEF AllocStep
<1>4. ASSUME NEW r \in New(so)
      PROVE  /\ r \in Req /\ r \notin notify
             /\ Booked(so)[r] \in Nat /\ PromptLen[r] <= Booked(so)[r] * BlockSize
             /\ ComputedAfter(so, r) <= Booked(so)[r] * BlockSize + (IF IsConsumer THEN 1 ELSE 0)
  <2>1. r \in Req /\ Untouched(r) /\ r \notin Cached(so)
    BY <1>1 DEF Inv, Follows
  <2>2. Booked(so)[r] = CeilDiv(PromptLen[r], BlockSize)
    BY <2>1 DEF Booked, BlocksNeeded
  <2>3. /\ Booked(so)[r] \in Nat /\ PromptLen[r] <= Booked(so)[r] * BlockSize
    BY <1>2, <2>1, <2>2, CeilDivCovers
  <2>4. ComputedAfter(so, r) <= PromptLen[r] + (IF IsConsumer THEN 1 ELSE 0)
    BY <1>1, <2>1 DEF Untouched
  <2>5. Booked(so)[r] * BlockSize \in Nat /\ ComputedAfter(so, r) \in Nat /\ PromptLen[r] \in Nat
    BY <1>1, <1>2, <2>1, <2>3
  <2> QED
    BY <2>1, <2>3, <2>4, <2>5 DEF Untouched
<1>5. ASSUME NEW r \in Cached(so)
      PROVE  /\ r \in Req /\ r \notin notify
             /\ Booked(so)[r] \in Nat /\ PromptLen[r] <= Booked(so)[r] * BlockSize
             /\ ComputedAfter(so, r) <= Booked(so)[r] * BlockSize + (IF IsConsumer THEN 1 ELSE 0)
  <2> DEFINE needed == CeilDiv(ComputedAfter(so, r), BlockSize)
  <2>1. r \in Req /\ r \notin New(so) /\ Kept(r) /\ ComputedAfter(so, r) \in Nat
    BY <1>1, SeenKept
  <2>2. Booked(so)[r] = Larger(reqBlocks[r], needed)
    BY <2>1 DEF Booked, Grown
  <2>3. needed \in Nat /\ ComputedAfter(so, r) <= needed * BlockSize
    BY <2>1, CeilDivCovers
  <2> HIDE DEF needed
  <2>4. Booked(so)[r] \in Nat /\ needed <= Booked(so)[r] /\ reqBlocks[r] <= Booked(so)[r]
    BY <1>2, <2>1, <2>2, <2>3 DEF Larger
  <2>5. PromptLen[r] <= Booked(so)[r] * BlockSize
    BY <1>2, <2>1, <2>4, CoversMore DEF Kept
  <2>6. ComputedAfter(so, r) <= Booked(so)[r] * BlockSize
    BY <2>1, <2>3, <2>4, CoversMore
  <2>7. Booked(so)[r] * BlockSize \in Nat
    BY <1>2, <2>4
  <2> QED
    BY <2>1, <2>4, <2>5, <2>6, <2>7 DEF Kept
<1>6. Scheduled(so) = New(so) \cup Cached(so)
  BY <1>1
<1>7. \A r \in Req \ Scheduled(so) : Booked(so)[r] = reqBlocks[r]
  BY <1>6 DEF Booked
<1>8. reqBlocks' \in [Req -> Nat]
  <2>1. \A r \in Req : Booked(so)[r] \in Nat
    BY <1>2, <1>4, <1>5, <1>6, <1>7
  <2> QED
    BY <1>3, <2>1
<1> QED
  BY <1>3, <1>4, <1>5, <1>6, <1>7, <1>8

\* The transfers of a step: none is charged to a request that has been
\* charged before, and each covers the prompt.
LEMMA ChargesOK ==
  ASSUME Inv, NEW so \in NextOutputs(IsConsumer), AllocStep(so), PDStep(so, tracked'), Record(so)
  PROVE  /\ role' = role
         /\ charges' \in [Req -> Seq(Transfers)]
         /\ \A r \in Req :
              /\ role = "none" => r \notin handled'
              /\ r \in handled' => r \in handled \/ (r \in Scheduled(so) /\ charges'[r] # << >>)
              /\ r \in handled' => r \notin notify
              /\ r \in handled \ notify => r \in handled'
              /\ \/ charges'[r] = charges[r]
                 \/ /\ r \in Scheduled(so) \ handled /\ r \in handled'
                    /\ charges[r] = << >> /\ Len(charges'[r]) = 1
                    /\ PromptLen[r] <= charges'[r][1].blocks * BlockSize
<1> DEFINE charged == IF role = "none" THEN << >> ELSE Charged(so, tracked')
<1>1. /\ Scheduled(so) \subseteq Live /\ Live \subseteq Req
      /\ New(so) = {r \in Scheduled(so) : engine[r].status = "waiting"}
      /\ so.finished = notify
  BY OutputsOK DEF Inv, Live, With
<1>2. /\ reqBlocks' \in [Req -> Nat]
      /\ \A r \in Scheduled(so) : /\ r \in Req /\ r \notin notify
                                  /\ PromptLen[r] <= reqBlocks'[r] * BlockSize
  BY BookingCovers
<1>3. ASSUME NEW r \in DOMAIN charged
      PROVE  /\ r \in Scheduled(so) \ handled
             /\ charged[r] \in Transfers
             /\ PromptLen[r] <= charged[r].blocks * BlockSize
  <2>1. role # "none" /\ charged = Charged(so, tracked')
    OBVIOUS
  <2>2. r \in Sends(so, tracked') \cup Receives(so, tracked')
    BY <2>1 DEF Charged
  <2>3. r \in Scheduled(so) \ handled
    BY <1>1, <2>2 DEF Sends, Receives
  <2>4. CASE r \in Sends(so, tracked')
    <3>1. charged[r] = [side |-> "send", blocks |-> reqBlocks'[r]]
      BY <2>1, <2>4 DEF Charged
    <3> QED
      BY <1>2, <2>3, <3>1 DEF Transfers
  <2>5. CASE r \notin Sends(so, tracked')
    <3>1. charged[r] = [side |-> "recv", blocks |-> BlocksNeeded(r)]
      BY <2>1, <2>2, <2>5 DEF Charged
    <3>2. BlocksNeeded(r) \in Nat /\ PromptLen[r] <= BlocksNeeded(r) * BlockSize
      BY <1>2, <2>3, RequestsOK, CeilDivCovers DEF BlocksNeeded
    <3> QED
      BY <2>3, <3>1, <3>2 DEF Transfers
  <2> QED
    BY <2>3, <2>4, <2>5
<1>4. role' = role /\ \A r \in Req : r \in handled' <=> r \in handled \cup DOMAIN charged /\ r \notin notify
  <2>1. CASE role = "none"
    BY <2>1 DEF PDStep, pdVars, Inv, Follows
  <2>2. CASE role # "none"
    BY <1>1, <2>2 DEF PDStep
  <2> QED
    BY <2>1, <2>2
<1>5. charges' = [r \in Req |-> IF r \in DOMAIN charged THEN Append(charges[r], charged[r])
                                                       ELSE charges[r]]
  BY DEF Record
<1>6. role = "none" => DOMAIN charged = {}
  OBVIOUS
<1> HIDE DEF charged
<1>7. charges \in [Req -> Seq(Transfers)]
  BY DEF Inv, Types
<1>8. charges' \in [Req -> Seq(Transfers)]
  BY <1>3, <1>5, <1>7
<1>9. ASSUME NEW r \in Req, r \in DOMAIN charged
      PROVE  /\ charges[r] = << >> /\ Len(charges'[r]) = 1
             /\ PromptLen[r] <= charges'[r][1].blocks * BlockSize
             /\ r \in Scheduled(so) \ handled /\ r \in handled'
  <2>1. r \in Scheduled(so) \ handled /\ r \in Live
    BY <1>1, <1>3, <1>9
  <2>2. charges[r] = << >>
    BY <2>1 DEF Inv, Follows, Untouched, Kept, Live, With
  <2>3. charges'[r] = Append(<< >>, charged[r])
    BY <1>5, <1>9, <2>2
  <2>4. Len(charges'[r]) = 1 /\ charges'[r][1] = charged[r]
    BY <2>3
  <2> QED
    BY <1>2, <1>3, <1>4, <1>9, <2>1, <2>2, <2>4
<1>10. \A r \in Req : r \notin DOMAIN charged => charges'[r] = charges[r]
  BY <1>5
<1>11. \A r \in Req : role = "none" => r \notin handled
  BY DEF Inv, Follows
<1> QED
  BY <1>3, <1>4, <1>6, <1>8, <1>9, <1>10, <1>11

\* The metrics keep an entry for every request, and complete it when its end
\* is reported (collector.py:44-108).
LEMMA MetricsOK ==
  ASSUME Types, NEW workload, NEW latency, RecordStep(workload, latency, notify)
  PROVE  /\ DOMAIN requests' = Req
         /\ \A r \in Req : DOMAIN requests'[r] = DOMAIN NoMetrics
         /\ \A r \in notify : requests'[r].seen => requests'[r].completed
         /\ \A r \in Req \ (notify \cup DOMAIN workload) : requests'[r] = requests[r]
<1> DEFINE end      == simTime + latency
           observed == [r \in Req |->
                          IF r \in DOMAIN workload
                          THEN Observed(requests[r], workload[r], simTime, end)
                          ELSE requests[r]]
<1>1. requests' = [r \in Req |-> IF r \in notify THEN Completed(observed[r], end)
                                                  ELSE observed[r]]
  BY DEF RecordStep
<1>2. ASSUME NEW r \in Req
      PROVE  DOMAIN observed[r] = DOMAIN NoMetrics
  BY DEF Types, Observed
<1>3. ASSUME NEW rm, DOMAIN rm = DOMAIN NoMetrics
      PROVE  /\ DOMAIN Completed(rm, end) = DOMAIN NoMetrics
             /\ Completed(rm, end).seen => Completed(rm, end).completed
  BY <1>3 DEF Completed, NoMetrics
<1>4. \A r \in Req \ DOMAIN workload : observed[r] = requests[r]
  OBVIOUS
<1> HIDE DEF observed, end
<1>5. notify \subseteq Req
  BY DEF Types
<1> QED
  BY <1>1, <1>2, <1>3, <1>4, <1>5

-----------------------------------------------------------------------------
(* The initial states and the steps.                                       *)

LEMMA InvInit == Init => Inv
<1> SUFFICES ASSUME Init PROVE Inv
  OBVIOUS
<1> USE DEF Init, RunnerInit, EngineInit, AllocInit, PDInit, MetricsInit
<1>1. Types
  BY DEF Types, Statuses, NoMetrics
<1>2. Follows
  BY DEF Follows, Untouched
<1>3. BlocksCoverComputed /\ ReleasedUnlessDrained /\ TokensFollowPrompt /\ OneTransfer
  BY DEF BlocksCoverComputed, ReleasedUnlessDrained, TokensFollowPrompt, OneTransfer, With, Reported
<1> QED
  BY <1>1, <1>2, <1>3 DEF Inv

\* Clients and the scheduler's preemptions touch the engine only.
LEMMA ClientKeeps ==
  ASSUME Inv, Client
  PROVE  Inv'
<1>1. UNCHANGED <<runnerVars, history>>
  BY DEF Client
<1>2. PICK r \in Req : Arrive(r) \/ Abort(r) \/ Preempt(r)
  BY DEF Client
<1> USE DEF runnerVars, allocVars, pdVars, metricsVars, history
<1>3. /\ engine \in [Req -> [status : Statuses, computed : Nat, outputs : Seq(Tokens)]]
      /\ notify \subseteq Req
  BY DEF Inv, Types
<1>4. /\ engine' \in [Req -> [status : Statuses, computed : Nat, outputs : Seq(Tokens)]]
      /\ \A q \in Req : engine'[q].outputs = engine[q].outputs
      /\ \A q \in Req \ {r} : engine'[q] = engine[q]
  <2>1. CASE Arrive(r)
    BY <1>3, <2>1 DEF Arrive, Statuses
  <2>2. CASE Abort(r)
    BY <1>3, <2>2 DEF Abort, Statuses
  <2>3. CASE Preempt(r)
    BY <1>3, <2>3 DEF Preempt, Statuses
  <2> QED
    BY <1>2, <2>1, <2>2, <2>3
<1>5. \/ /\ engine[r].status = "unborn" /\ engine'[r].status = "waiting" /\ notify' = notify
         /\ engine'[r].computed = engine[r].computed
      \/ /\ engine[r].status \in {"waiting", "running", "preempted"}
         /\ engine'[r].status = "finished" /\ notify' = notify \cup {r}
      \/ /\ engine[r].status = "running" /\ engine'[r].status = "preempted" /\ notify' = notify
  BY <1>2, <1>3 DEF Arrive, Abort, Preempt, Live, With
<1>6. Types'
  BY <1>1, <1>4, <1>5 DEF Inv, Types
<1>7. Follows'
  BY <1>1, <1>4, <1>5 DEF Inv, Follows, Untouched, Kept
<1>8. BlocksCoverComputed'
  BY <1>1, <1>4, <1>5 DEF Inv, BlocksCoverComputed, With, IsConsumer
<1>9. ReleasedUnlessDrained'
  BY <1>1, <1>4, <1>5 DEF Inv, ReleasedUnlessDrained, Reported
<1>10. TokensFollowPrompt'
  BY <1>4 DEF Inv, TokensFollowPrompt
<1>11. OneTransfer'
  BY <1>1 DEF Inv, OneTransfer
<1> QED
  BY <1>6, <1>7, <1>8, <1>9, <1>10, <1>11 DEF Inv

\* A step without tokens reports ends the runner does not see.
LEMMA DrainKeeps ==
  ASSUME Inv, DrainStep
  PROVE  Inv'
<1>1. /\ UNCHANGED <<engine, charges>> /\ UNCHANGED runnerVars
      /\ notify' = {} /\ drained' = drained \cup notify
  BY DEF DrainStep, EmptyStep
<1> USE DEF runnerVars, allocVars, pdVars, metricsVars
<1>2. Types'
  BY <1>1 DEF Inv, Types
<1>3. Follows'
  BY <1>1 DEF Inv, Follows, Untouched, Kept
<1>4. BlocksCoverComputed' /\ TokensFollowPrompt' /\ OneTransfer'
  BY <1>1 DEF Inv, BlocksCoverComputed, TokensFollowPrompt, OneTransfer, With, IsConsumer
<1>5. ReleasedUnlessDrained'
  BY <1>1 DEF Inv, ReleasedUnlessDrained, Reported
<1> QED
  BY <1>2, <1>3, <1>4, <1>5 DEF Inv

\* An iteration with tokens: what the runner books, charges and returns.
LEMMA EngineKeeps ==
  ASSUME Inv, EngineStep
  PROVE  Inv'
<1>1. PICK so \in NextOutputs(IsConsumer) : BusyStep(so) /\ Progress(so, SampledTokens(so)) /\ Record(so)
  BY DEF EngineStep
<1>2. /\ Scheduled(so) \subseteq Live /\ Live \subseteq Req
      /\ New(so) = {r \in Scheduled(so) : engine[r].status = "waiting"}
      /\ Cached(so) = {r \in Scheduled(so) : engine[r].status # "waiting"}
      /\ so.finished = notify
      /\ \A r \in Scheduled(so) : ComputedAfter(so, r) \in Nat
      /\ \A r \in Cached(so) : so.cached[r].outputs = Len(engine[r].outputs)
  BY OutputsOK DEF Inv, Live, With
<1>3. /\ AllocStep(so) /\ PDStep(so, tracked') /\ Record(so)
      /\ tracked' = (tracked \cup New(so)) \ notify
      /\ drained' = drained
  BY <1>1, <1>2 DEF BusyStep, UpdateRequestStates, Record
<1>4. /\ reqBlocks' \in [Req -> Nat]
      /\ \A r \in notify : r \in Req => reqBlocks'[r] = 0
      /\ \A r \in Req \ (notify \cup Scheduled(so)) : reqBlocks'[r] = reqBlocks[r]
      /\ \A r \in Scheduled(so) :
           /\ r \notin notify
           /\ PromptLen[r] <= reqBlocks'[r] * BlockSize
           /\ ComputedAfter(so, r) <= reqBlocks'[r] * BlockSize + (IF IsConsumer THEN 1 ELSE 0)
  BY <1>3, BookingCovers
<1>5. /\ role' = role
      /\ charges' \in [Req -> Seq(Transfers)]
      /\ \A r \in Req :
           /\ role = "none" => r \notin handled'
           /\ r \in handled' => r \in handled \/ (r \in Scheduled(so) /\ charges'[r] # << >>)
           /\ r \in handled' => r \notin notify
           /\ r \in handled \ notify => r \in handled'
           /\ \/ charges'[r] = charges[r]
              \/ /\ r \in Scheduled(so) \ handled /\ r \in handled'
                 /\ charges[r] = << >> /\ Len(charges'[r]) = 1
                 /\ PromptLen[r] <= charges'[r][1].blocks * BlockSize
  BY <1>3, ChargesOK
<1>6. /\ DOMAIN requests' = Req
      /\ \A r \in Req : DOMAIN requests'[r] = DOMAIN NoMetrics
      /\ \A r \in notify : requests'[r].seen => requests'[r].completed
      /\ \A r \in Req \ (notify \cup Scheduled(so)) : requests'[r] = requests[r]
  <2>1. PICK latency : RecordStep(Extract(so, tracked'), latency, notify)
    BY <1>1, <1>2 DEF BusyStep
  <2>2. DOMAIN Extract(so, tracked') = Scheduled(so)
    BY DEF Extract
  <2> QED
    BY <2>1, <2>2, MetricsOK DEF Inv
<1> DEFINE After(r) == [status   |-> IF r \in notify' THEN "finished" ELSE "running",
                        computed |-> ComputedAfter(so, r),
                        outputs  |-> Append(engine[r].outputs, SampledTokens(so)[r])]
<1>7. /\ notify' \subseteq Scheduled(so)
      /\ \A r \in Req \ Scheduled(so) : engine'[r] = engine[r]
      /\ \A r \in Scheduled(so) :
           /\ engine'[r].status = (IF r \in notify' THEN "finished" ELSE "running")
           /\ engine'[r].computed = ComputedAfter(so, r)
           /\ engine'[r].outputs = Append(engine[r].outputs, SampledTokens(so)[r])
      /\ engine' = [r \in Req |-> IF r \notin Scheduled(so) THEN engine[r] ELSE After(r)]
  <2>1. /\ engine' = [r \in Req |-> IF r \notin Scheduled(so) THEN engine[r] ELSE After(r)]
        /\ notify' \subseteq Scheduled(so)
    BY <1>1 DEF Progress
  <2>2. \A r \in Req : engine'[r] = IF r \notin Scheduled(so) THEN engine[r] ELSE After(r)
    <3> HIDE DEF After
    <3> QED
      BY <2>1
  <2>3. \A r \in Scheduled(so) : r \in Req /\ engine'[r] = After(r)
    <3> HIDE DEF After
    <3> QED
      BY <1>2, <2>2
  <2> QED
    BY <2>1, <2>2, <2>3
<1> HIDE DEF After
<1>8. \A r \in Scheduled(so) : SampledTokens(so)[r] = Token(r, Len(engine[r].outputs))
  <2> SUFFICES ASSUME NEW r \in Scheduled(so)
               PROVE  SampledTokens(so)[r] = Token(r, Len(engine[r].outputs))
    OBVIOUS
  <2>1. CASE r \in New(so)
    <3>1. r \in Req /\ Untouched(r)
      BY <1>2, <2>1 DEF Inv, Follows
    <3>2. r \in tracked' /\ r \notin Cached(so) /\ Len(engine[r].outputs) = 0
      BY <1>2, <1>3, <1>4, <2>1, <3>1 DEF Untouched
    <3> QED
      BY <3>2 DEF SampledTokens
  <2>2. CASE r \in Cached(so)
    <3>1. r \in tracked'
      BY <1>2, <1>3, <1>4, <2>2, SeenKept DEF Kept
    <3> QED
      BY <1>2, <2>2, <3>1 DEF SampledTokens
  <2> QED
    BY <1>2, <2>1, <2>2
<1>9. engine' \in [Req -> [status : Statuses, computed : Nat, outputs : Seq(Tokens)]]
  <2>1. \A r \in Req : engine[r] \in [status : Statuses, computed : Nat, outputs : Seq(Tokens)]
    BY DEF Inv, Types
  <2>2. ASSUME NEW r \in Scheduled(so)
        PROVE  After(r) \in [status : Statuses, computed : Nat, outputs : Seq(Tokens)]
    <3>1. r \in Req /\ engine[r].outputs \in Seq(Tokens)
      BY <1>2, <2>1
    <3>2. Token(r, Len(engine[r].outputs)) \in Tokens
      BY <3>1 DEF Token, Tokens
    <3>3. Append(engine[r].outputs, SampledTokens(so)[r]) \in Seq(Tokens)
      BY <1>8, <3>1, <3>2
    <3>4. (IF r \in notify' THEN "finished" ELSE "running") \in Statuses
      BY DEF Statuses
    <3> QED
      BY <1>2, <3>3, <3>4 DEF After
  <2> QED
    BY <1>7, <2>1, <2>2
<1>10. Types'
  BY <1>2, <1>4, <1>5, <1>6, <1>7, <1>9 DEF Inv, Types
<1>11. Follows'
  <2>1. ASSUME NEW r \in Req, engine'[r].status \in {"unborn", "waiting"}
        PROVE  Untouched(r)'
    <3>1. r \notin Scheduled(so) /\ engine'[r] = engine[r] /\ Untouched(r)
      BY <1>7, <2>1 DEF Inv, Follows
    <3> QED
      BY <1>2, <1>3, <1>4, <1>5, <1>7, <3>1 DEF Untouched
  <2>2. ASSUME NEW r \in Req, engine'[r].status \in {"running", "preempted"}
        PROVE  Kept(r)'
    <3>1. CASE r \in Scheduled(so)
      <4>1. r \notin notify'
        BY <1>7, <2>2, <3>1
      <4>2. r \in tracked'
        BY <1>2, <1>3, <1>4, <3>1, SeenKept DEF Kept
      <4>3. charges'[r] # << >> => r \in handled'
        <5>1. charges[r] # << >> => r \in handled
          BY <1>2, <3>1, SeenKept DEF Kept, Inv, Follows, Untouched
        <5> QED
          BY <1>4, <1>5, <3>1, <5>1
      <4> QED
        BY <1>4, <3>1, <4>1, <4>2, <4>3 DEF Kept
    <3>2. CASE r \notin Scheduled(so)
      <4>1. Kept(r)
        BY <1>7, <2>2, <3>2 DEF Inv, Follows
      <4> QED
        BY <1>3, <1>4, <1>5, <1>7, <3>2, <4>1 DEF Kept
    <3> QED
      BY <3>1, <3>2
  <2> QED
    <3>1. \A r \in Req : r \in handled' => charges'[r] # << >>
      BY <1>5 DEF Inv, Follows
    <3> QED
      BY <1>5, <2>1, <2>2, <3>1 DEF Follows
<1>12. BlocksCoverComputed'
  <2> SUFFICES ASSUME NEW r \in Req, engine'[r].status = "running"
               PROVE  engine'[r].computed <= reqBlocks'[r] * BlockSize + (IF IsConsumer THEN 1 ELSE 0)
    BY <1>5 DEF BlocksCoverComputed, With, IsConsumer
  <2>1. CASE r \in Scheduled(so)
    BY <1>4, <1>7, <2>1
  <2>2. CASE r \notin Scheduled(so)
    <3>1. engine[r].status = "running" /\ engine'[r] = engine[r] /\ Kept(r)
      BY <1>7, <2>2 DEF Inv, Follows
    <3> QED
      BY <1>4, <2>2, <3>1 DEF Inv, BlocksCoverComputed, With, Kept
  <2> QED
    BY <2>1, <2>2
<1>13. ReleasedUnlessDrained'
  <2> SUFFICES ASSUME NEW r \in Req, engine'[r].status = "finished", r \notin notify', r \notin drained
               PROVE  /\ r \notin tracked' /\ reqBlocks'[r] = 0 /\ r \notin handled'
                      /\ requests'[r].seen => requests'[r].completed
    BY <1>3 DEF ReleasedUnlessDrained, Reported
  <2>1. r \notin Scheduled(so) /\ engine[r].status = "finished"
    BY <1>7
  <2>2. CASE r \in notify
    BY <1>3, <1>4, <1>5, <1>6, <2>2
  <2>3. CASE r \notin notify
    <3>1. /\ r \notin tracked /\ reqBlocks[r] = 0 /\ r \notin handled
          /\ requests[r].seen => requests[r].completed
      BY <2>1, <2>3 DEF Inv, ReleasedUnlessDrained, Reported
    <3> QED
      BY <1>2, <1>3, <1>4, <1>5, <1>6, <2>1, <2>3, <3>1
  <2> QED
    BY <2>2, <2>3
<1>14. TokensFollowPrompt'
  <2> SUFFICES ASSUME NEW r \in Req, NEW k \in 1..Len(engine'[r].outputs)
               PROVE  engine'[r].outputs[k] = Token(r, k - 1)
    BY DEF TokensFollowPrompt
  <2>1. engine[r].outputs \in Seq(Tokens)
    BY DEF Inv, Types
  <2>2. \A j \in 1..Len(engine[r].outputs) : engine[r].outputs[j] = Token(r, j - 1)
    BY DEF Inv, TokensFollowPrompt
  <2>3. CASE r \notin Scheduled(so)
    BY <1>7, <2>2, <2>3
  <2>4. CASE r \in Scheduled(so)
    <3>1. engine'[r].outputs = Append(engine[r].outputs, Token(r, Len(engine[r].outputs)))
      BY <1>7, <1>8, <2>4
    <3>2. CASE k \in 1..Len(engine[r].outputs)
      BY <2>1, <2>2, <3>1, <3>2
    <3>3. CASE k = Len(engine[r].outputs) + 1
      <4>1. engine'[r].outputs[k] = Token(r, Len(engine[r].outputs))
        BY <2>1, <3>1, <3>3
      <4>2. k - 1 = Len(engine[r].outputs)
        BY <2>1, <3>3
      <4> QED
        BY <4>1, <4>2
    <3> QED
      BY <2>1, <3>1, <3>2, <3>3
  <2> QED
    BY <2>3, <2>4
<1>15. OneTransfer'
  <2> SUFFICES ASSUME NEW r \in Req
               PROVE  /\ Len(charges'[r]) <= 1
                      /\ \A k \in DOMAIN charges'[r] : PromptLen[r] <= charges'[r][k].blocks * BlockSize
    BY DEF OneTransfer
  <2>1. CASE charges'[r] = charges[r]
    BY <2>1 DEF Inv, OneTransfer
  <2>2. CASE charges'[r] # charges[r]
    <3>1. Len(charges'[r]) = 1 /\ PromptLen[r] <= charges'[r][1].blocks * BlockSize
      BY <1>5, <2>2
    <3>2. DOMAIN charges'[r] = {1}
      BY <1>5, <3>1
    <3> QED
      BY <3>1, <3>2
  <2> QED
    BY <2>1, <2>2
<1> QED
  BY <1>10, <1>11, <1>12, <1>13, <1>14, <1>15 DEF Inv

LEMMA InvNext == Inv /\ [Next]_vars => Inv'
<1> SUFFICES ASSUME Inv, [Next]_vars
             PROVE  Inv'
  OBVIOUS
<1>1. CASE UNCHANGED vars
  <2> USE <1>1 DEF vars, runnerVars, allocVars, pdVars, metricsVars, engineVars, history
  <2>1. Types' /\ Follows'
    BY DEF Inv, Types, Follows, Untouched, Kept
  <2>2. BlocksCoverComputed' /\ ReleasedUnlessDrained' /\ TokensFollowPrompt' /\ OneTransfer'
    BY DEF Inv, BlocksCoverComputed, ReleasedUnlessDrained, TokensFollowPrompt, OneTransfer,
           With, Reported, IsConsumer
  <2> QED
    BY <2>1, <2>2 DEF Inv
<1> QED
  BY <1>1, EngineKeeps, DrainKeeps, ClientKeeps DEF Next

-----------------------------------------------------------------------------
(* The theorems.                                                           *)

\* Inv holds of every node, whatever its clients and the engine do.
THEOREM InvCorrect == Spec => []Inv
<1> QED
  BY InvInit, InvNext, PTL DEF Spec

\* The ledger covers what a running request has computed, in any blocks and
\* chunks, with any prefix hits and preemptions (kv_block_allocator.py:141-166).
THEOREM BlocksCoverComputedAlways == Spec => []BlocksCoverComputed
<1>1. Inv => BlocksCoverComputed
  BY DEF Inv
<1> QED
  BY <1>1, InvCorrect, PTL

\* An end that is reported with a step that has tokens releases all the
\* runner keeps (virtual_model_runner.py:472-484, kv_block_allocator.py:168-183).
THEOREM ReleasedUnlessDrainedAlways == Spec => []ReleasedUnlessDrained
<1>1. Inv => ReleasedUnlessDrained
  BY DEF Inv
<1> QED
  BY <1>1, InvCorrect, PTL

\* Every request gets the tokens of its own prompt in order
\* (output_generator.py:8-19, virtual_model_runner.py:486-510).
THEOREM TokensFollowPromptAlways == Spec => []TokensFollowPrompt
<1>1. Inv => TokensFollowPrompt
  BY DEF Inv
<1> QED
  BY <1>1, InvCorrect, PTL

\* No request is charged two transfers, and the one it is charged covers its
\* prompt, on a node of any role (virtual_model_runner.py:269-353).
THEOREM OneTransferAlways == Spec => []OneTransfer
<1>1. Inv => OneTransfer
  BY DEF Inv
<1> QED
  BY <1>1, InvCorrect, PTL

\* A transfer that is due is charged, if none has been charged before.
LEMMA DueIsCharged ==
  ASSUME Inv, NEW so \in NextOutputs(IsConsumer), AllocStep(so), Record(so), role # "none",
         NEW r \in Req, r \in Sends(so, tracked') \cup Receives(so, tracked')
  PROVE  /\ charges[r] = << >> /\ Len(charges'[r]) = 1
         /\ charges'[r][1].side = IF r \in Sends(so, tracked') THEN "send" ELSE "recv"
<1> DEFINE charged == Charged(so, tracked')
<1>1. /\ r \in DOMAIN charged
      /\ charged[r].side = IF r \in Sends(so, tracked') THEN "send" ELSE "recv"
  BY DEF Charged
<1>2. r \in Scheduled(so) \ handled /\ r \in Live
  <2>1. Scheduled(so) \subseteq Live /\ New(so) \subseteq Scheduled(so)
    BY OutputsOK DEF Inv
  <2> QED
    BY <2>1 DEF Sends, Receives
<1>3. charges[r] = << >>
  BY <1>2 DEF Inv, Follows, Untouched, Kept, Live, With
<1>4. charges'[r] = Append(<< >>, charged[r])
  BY <1>1, <1>3 DEF Record
<1> HIDE DEF charged
<1> QED
  BY <1>1, <1>3, <1>4

\* The history of a prefill keeps its shape.
PrefillKept ==
  /\ prefill = [r \in Req |-> prefill[r]]
  /\ \A r \in Req : DOMAIN prefill[r] = {"partials", "at", "elsewhere"}

LEMMA PrefillKeptAlways == Spec => []PrefillKept
<1>1. Init => PrefillKept
  BY DEF Init, PrefillKept
<1>2. PrefillKept /\ [Next]_vars => PrefillKept'
  <2> SUFFICES ASSUME PrefillKept, [Next]_vars
               PROVE  PrefillKept'
    OBVIOUS
  <2>1. CASE EngineStep
    <3>1. PICK so \in NextOutputs(IsConsumer) : Record(so)
      BY <2>1 DEF EngineStep
    <3>2. prefill' = [r \in Req |-> IF r \in Scheduled(so) /\ prefill[r].at = 0
                                   THEN Prefilled(so, r) ELSE prefill[r]]
      BY <3>1 DEF Record
    <3>3. \A r \in Req : DOMAIN Prefilled(so, r) = DOMAIN prefill[r]
      BY DEF Prefilled
    <3> QED
      BY <3>2, <3>3 DEF PrefillKept
  <2>2. CASE UNCHANGED prefill
    BY <2>2 DEF PrefillKept
  <2> QED
    BY <2>1, <2>2 DEF Next, DrainStep, Client, vars, history
<1> QED
  BY <1>1, <1>2, PTL DEF Spec

\* What a step with tokens records of the prefill of a request.
LEMMA PrefillRecorded ==
  ASSUME Inv, NEW so \in NextOutputs(IsConsumer), Record(so), NEW r \in Req,
         PrefillKept
  PROVE  /\ prefill'[r] = IF r \in Scheduled(so) /\ prefill[r].at = 0
                          THEN Prefilled(so, r) ELSE prefill[r]
         /\ Completes(r) => /\ r \in Scheduled(so) /\ ComputedAfter(so, r) >= PromptLen[r]
                            /\ prefill'[r].elsewhere <=>
                                 r \in New(so) /\ so.new[r] >= PromptLen[r]
<1>1. prefill'[r] = IF r \in Scheduled(so) /\ prefill[r].at = 0
                    THEN Prefilled(so, r) ELSE prefill[r]
  BY DEF Record
<1>2. ASSUME Completes(r)
      PROVE  /\ r \in Scheduled(so) /\ ComputedAfter(so, r) >= PromptLen[r]
             /\ prefill'[r].elsewhere <=> r \in New(so) /\ so.new[r] >= PromptLen[r]
  <2>1. r \in Scheduled(so) /\ prefill'[r] = Prefilled(so, r) /\ prefill'[r].at # prefill[r].at
    BY <1>1, <1>2 DEF Completes
  <2>2. ComputedAfter(so, r) \in Nat /\ PromptLen[r] \in Nat
    BY <2>1, OutputsOK, RequestsOK DEF Inv
  <2>3. ~ (ComputedAfter(so, r) < PromptLen[r])
    BY <2>1 DEF Prefilled, PrefillKept
  <2>4. prefill'[r].elsewhere = (r \in New(so) /\ so.new[r] >= PromptLen[r])
    BY <2>1, <2>3 DEF Prefilled, PrefillKept
  <2>5. ComputedAfter(so, r) >= PromptLen[r]
    BY <2>2, <2>3
  <2> QED
    BY <2>1, <2>4, <2>5, Zenon
<1> QED
  BY <1>1, <1>2

\* The transfer of a prompt is charged in the step that completes it: that of a
\* computed prompt on a producer, unless its last chunk is one token, and that
\* of a prompt computed elsewhere on a consumer (virtual_model_runner.py:287-343).
THEOREM ChargedWhenDueAlways == Spec => ChargedWhenDue
<1>1. Inv /\ PrefillKept /\ [Next]_vars =>
        [\A r \in Req : ChargedWhenComputed(r) /\ ChargedWhenReceived(r)]_vars
  <2> SUFFICES ASSUME Inv, PrefillKept, Next, NEW r \in Req
               PROVE  ChargedWhenComputed(r) /\ ChargedWhenReceived(r)
    OBVIOUS
  <2>1. PromptLen[r] \in Nat \ {0} /\ engine[r].computed \in Nat
    BY RequestsOK DEF Inv, Types
  <2>2. engine[r].status = "waiting" => Untouched(r)
    BY DEF Inv, Follows
  <2>3. CASE DrainStep \/ Client
    <3>1. prefill' = prefill
      BY <2>3 DEF DrainStep, Client, history
    <3> QED
      BY <3>1 DEF ChargedWhenComputed, ChargedWhenReceived, Completes
  <2>4. CASE EngineStep
    <3>1. PICK so \in NextOutputs(IsConsumer) :
            BusyStep(so) /\ Progress(so, SampledTokens(so)) /\ Record(so)
      BY <2>4 DEF EngineStep
    <3>2. /\ Scheduled(so) \subseteq Live
          /\ New(so) = {q \in Scheduled(so) : engine[q].status = "waiting"}
          /\ Cached(so) = {q \in Scheduled(so) : engine[q].status # "waiting"}
          /\ so.finished = notify
          /\ r \in Scheduled(so) => ComputedAfter(so, r) \in Nat
      BY OutputsOK DEF Inv
    <3>3. /\ AllocStep(so) /\ PDStep(so, tracked')
          /\ tracked' = (tracked \cup New(so)) \ notify
          /\ lastTokens'[r] = IF r \in Scheduled(so) THEN so.ntok[r] ELSE lastTokens[r]
      BY <3>1, <3>2 DEF BusyStep, UpdateRequestStates, Record
    <3>4. /\ charges[r] \in Seq(Transfers) /\ Len(charges[r]) <= 1
          /\ charges'[r] # charges[r] => charges[r] = << >> /\ Len(charges'[r]) = 1
      BY <3>1, <3>3, ChargesOK DEF Inv, Types, OneTransfer
    <3>5. Completes(r) => /\ r \in Scheduled(so) /\ ComputedAfter(so, r) >= PromptLen[r]
                          /\ prefill'[r].elsewhere <=>
                               r \in New(so) /\ so.new[r] >= PromptLen[r]
      BY <3>1, PrefillRecorded
    <3>6. ASSUME role # "none", r \in Sends(so, tracked') \cup Receives(so, tracked')
          PROVE  /\ Len(charges'[r]) = 1
                 /\ charges'[r][1].side = IF r \in Sends(so, tracked') THEN "send" ELSE "recv"
      BY <3>1, <3>3, <3>6, DueIsCharged
    <3>7. ChargedWhenComputed(r)
      <4> SUFFICES ASSUME IsProducer, Completes(r),
                          engine[r].status = "waiting" \/ lastTokens'[r] > 1
                   PROVE  Len(charges'[r]) = 1
        BY DEF ChargedWhenComputed
      <4>1. r \in Scheduled(so) /\ ComputedAfter(so, r) >= PromptLen[r]
        BY <3>5
      <4>2. CASE charges[r] # << >>
        <5>1. charges'[r] = charges[r]
          BY <3>4, <4>2
        <5>2. Len(charges[r]) \in Nat /\ Len(charges[r]) # 0 /\ Len(charges[r]) <= 1
          BY <3>4, <4>2
        <5>3. Len(charges[r]) = 1
          <6>1. \A n \in Nat : n # 0 /\ n <= 1 => n = 1
            OBVIOUS
          <6> QED
            BY ONLY <5>2, <6>1
        <5> QED
          BY <5>1, <5>3
      <4>3. CASE charges[r] = << >>
        <5>1. r \notin handled
          BY <4>3 DEF Inv, Follows
        <5>2. r \in Cached(so) => r \in tracked' /\ so.ntok[r] > 1
          BY <3>2, <3>3, <4>1, SeenKept DEF Kept
        <5>3. r \in Sends(so, tracked')
          BY <4>1, <5>1, <5>2 DEF Sends
        <5>4. role # "none"
          BY DEF IsProducer
        <5> QED
          BY <3>6, <5>3, <5>4
      <4> QED
        BY <4>2, <4>3
    <3>8. ChargedWhenReceived(r)
      <4> SUFFICES ASSUME IsConsumer, Completes(r), prefill'[r].elsewhere
                   PROVE  /\ Len(charges'[r]) = 1
                          /\ ~ IsProducer => charges'[r][1].side = "recv"
        BY DEF ChargedWhenReceived
      <4>1. /\ r \in Scheduled(so) /\ ComputedAfter(so, r) >= PromptLen[r]
            /\ r \in New(so) /\ so.new[r] >= PromptLen[r]
        BY <3>5
      <4>2. engine[r].status = "waiting" /\ r \notin handled /\ r \notin Cached(so)
        BY <2>2, <3>2, <4>1 DEF Untouched
      <4>3. IsProducer => r \in Sends(so, tracked')
        BY <4>1, <4>2 DEF Sends
      <4>4. ~ IsProducer => r \notin Sends(so, tracked') /\ r \in Receives(so, tracked')
        BY <4>1, <4>2 DEF Sends, Receives
      <4> QED
        BY <3>6, <4>3, <4>4 DEF IsConsumer
    <3> QED
      BY <3>7, <3>8
  <2> QED
    BY <2>3, <2>4 DEF Next
<1> QED
  BY <1>1, InvCorrect, PrefillKeptAlways, PTL DEF Spec, ChargedWhenDue
-----------------------------------------------------------------------------
(* The statistics of the ledger.                                           *)

\* What the prefix cache provides of a prompt is whole blocks of it.
LEMMA HitsWithinPrompt ==
  ASSUME NEW len \in Nat, NEW hit \in Nat, hit <= len
  PROVE  hit \div BlockSize \in Nat /\ hit \div BlockSize <= CeilDiv(len, BlockSize)
<1> DEFINE q == hit \div BlockSize
           n == CeilDiv(len, BlockSize)
<1>1. BlockSize \in Nat \ {0}
  BY RequestsOK
<1>2. q \in Nat /\ q * BlockSize <= hit
  BY <1>1
<1>3. n \in Nat /\ len <= n * BlockSize
  BY CeilDivCovers
<1> HIDE DEF q, n
<1>4. ASSUME n < q
      PROVE  FALSE
  <2>1. n + 1 <= q
    BY <1>2, <1>3, <1>4
  <2>2. (n + 1) * BlockSize <= q * BlockSize
    BY <1>1, <1>2, <1>3, <2>1
  <2>3. (n + 1) * BlockSize = n * BlockSize + BlockSize
    BY <1>1, <1>3
  <2>4. n * BlockSize \in Nat /\ q * BlockSize \in Nat
    BY <1>1, <1>2, <1>3
  <2> QED
    BY <1>1, <1>2, <1>3, <2>2, <2>3, <2>4
<1> QED
  BY <1>2, <1>3, <1>4 DEF q, n

\* What a step books beyond what is held is allocated or found in the cache.
LEMMA BookedSplits ==
  ASSUME Inv, NEW so \in NextOutputs(IsConsumer), NEW r \in Req
  PROVE  /\ r \in New(so) =>
              /\ Allocated(so)[r] \in Nat /\ CachedBlocks(so, r) \in Nat
              /\ Booked(so)[r] = reqBlocks[r] + Allocated(so)[r] + CachedBlocks(so, r)
         /\ r \in Cached(so) =>
              /\ Allocated(so)[r] \in Nat
              /\ Booked(so)[r] = reqBlocks[r] + Allocated(so)[r]
         /\ r \notin Scheduled(so) => Booked(so)[r] = reqBlocks[r]
         /\ Booked(so)[r] \in Nat
<1>1. /\ New(so) = {q \in Scheduled(so) : engine[q].status = "waiting"}
      /\ Cached(so) = {q \in Scheduled(so) : engine[q].status # "waiting"}
      /\ \A q \in Scheduled(so) : ComputedAfter(so, q) \in Nat
      /\ \A q \in New(so) : so.new[q] \in Nat /\ so.new[q] <= PromptLen[q]
  BY OutputsOK DEF Inv
<1>2. reqBlocks[r] \in Nat /\ PromptLen[r] \in Nat
  BY RequestsOK DEF Inv, Types
<1>3. CASE r \in New(so)
  <2>1. reqBlocks[r] = 0 /\ r \in Scheduled(so)
    BY <1>1, <1>3 DEF Inv, Follows, Untouched
  <2>2. /\ CachedBlocks(so, r) \in Nat /\ BlocksNeeded(r) \in Nat
        /\ CachedBlocks(so, r) <= BlocksNeeded(r)
    BY <1>1, <1>2, <1>3, HitsWithinPrompt, CeilDivCovers DEF CachedBlocks, BlocksNeeded
  <2>3. Allocated(so)[r] = Larger(BlocksNeeded(r) - CachedBlocks(so, r), 0)
    BY <1>3, <2>1 DEF Allocated
  <2>4. Booked(so)[r] = BlocksNeeded(r)
    BY <1>1, <1>3 DEF Booked
  <2>5. Allocated(so)[r] = BlocksNeeded(r) - CachedBlocks(so, r)
    BY <2>2, <2>3 DEF Larger
  <2> QED
    BY <1>1, <1>3, <2>1, <2>2, <2>4, <2>5
<1>4. CASE r \in Cached(so)
  <2>1. r \in Scheduled(so) /\ r \notin New(so)
    BY <1>1, <1>4
  <2>2. Booked(so)[r] = Grown(so, r) /\ Allocated(so)[r] = Grown(so, r) - reqBlocks[r]
    BY <1>4, <2>1 DEF Booked, Allocated
  <2>3. Grown(so, r) \in Nat /\ reqBlocks[r] <= Grown(so, r)
    BY <1>1, <1>2, <2>1, CeilDivCovers DEF Grown, Larger
  <2> QED
    BY <1>2, <2>1, <2>2, <2>3
<1>5. CASE r \notin Scheduled(so)
  BY <1>1, <1>2, <1>5 DEF Booked
<1> QED
  BY <1>1, <1>3, <1>4, <1>5

\* The blocks held after the bookings of a step.
LEMMA BookedBalances ==
  ASSUME Inv, NEW so \in NextOutputs(IsConsumer)
  PROVE  LET hits == [r \in New(so) |-> CachedBlocks(so, r)]
         IN  /\ SumFunction(Allocated(so)) \in Nat
             /\ SumFunction(hits) \in Nat
             /\ SumFunctionOnSet(Booked(so), Req) =
                  SumFunction(reqBlocks) + SumFunction(Allocated(so)) + SumFunction(hits)
<1> DEFINE hits  == [r \in New(so) |-> CachedBlocks(so, r)]
           grow  == [r \in Req |-> IF r \in Scheduled(so) THEN Allocated(so)[r] ELSE 0]
           found == [r \in Req |-> IF r \in New(so) THEN hits[r] ELSE 0]
           both  == [r \in Req |-> reqBlocks[r] + grow[r]]
<1>1. /\ Scheduled(so) \subseteq Req /\ New(so) \subseteq Req
      /\ Scheduled(so) = New(so) \cup Cached(so) /\ New(so) \cap Cached(so) = {}
  BY OutputsOK DEF Inv, Live, With
<1>2. /\ IsFiniteSet(Req) /\ IsFiniteSet(Scheduled(so)) /\ IsFiniteSet(New(so))
      /\ \A r \in Req : reqBlocks[r] \in Nat
      /\ DOMAIN reqBlocks = Req
      /\ DOMAIN Allocated(so) = Scheduled(so)
  BY <1>1, RequestsOK, FS_Subset DEF Inv, Types, Allocated
<1>3. /\ \A r \in New(so) : /\ Allocated(so)[r] \in Nat /\ hits[r] \in Nat
                            /\ Booked(so)[r] = reqBlocks[r] + Allocated(so)[r] + hits[r]
      /\ \A r \in Cached(so) : /\ Allocated(so)[r] \in Nat
                               /\ Booked(so)[r] = reqBlocks[r] + Allocated(so)[r]
      /\ \A r \in Req \ Scheduled(so) : Booked(so)[r] = reqBlocks[r]
  BY <1>1, BookedSplits
<1>4. \A r \in Req : /\ grow[r] \in Nat /\ found[r] \in Nat /\ both[r] \in Nat
                     /\ both[r] = reqBlocks[r] + grow[r]
                     /\ Booked(so)[r] = both[r] + found[r]
  BY <1>1, <1>2, <1>3
<1>5. SumFunctionOnSet(grow, Req) = SumFunctionOnSet(Allocated(so), Scheduled(so))
  BY <1>1, <1>2, <1>3, SumPadded
<1>6. SumFunctionOnSet(found, Req) = SumFunctionOnSet(hits, New(so))
  BY <1>1, <1>2, <1>3, SumPadded
<1>7. SumFunctionOnSet(both, Req) = SumFunctionOnSet(reqBlocks, Req) + SumFunctionOnSet(grow, Req)
  <2> HIDE DEF grow, both
  <2> QED
    BY <1>2, <1>4, SumPlus
<1>8. SumFunctionOnSet(Booked(so), Req) = SumFunctionOnSet(both, Req) + SumFunctionOnSet(found, Req)
  <2> HIDE DEF both, found
  <2> QED
    BY <1>2, <1>4, SumPlus
<1>9. /\ SumFunctionOnSet(Allocated(so), Scheduled(so)) \in Nat
      /\ SumFunctionOnSet(hits, New(so)) \in Nat
  <2>1. /\ \A r \in Scheduled(so) : Allocated(so)[r] \in Int /\ Allocated(so)[r] >= 0
        /\ \A r \in New(so) : hits[r] \in Int /\ hits[r] >= 0
    BY <1>1, <1>3
  <2> HIDE DEF hits
  <2> QED
    BY <1>2, <2>1, SumType
<1>10. DOMAIN hits = New(so)
  OBVIOUS
<1> HIDE DEF hits, grow, found, both
<1>11. /\ SumFunction(Allocated(so)) = SumFunctionOnSet(Allocated(so), Scheduled(so))
       /\ SumFunction(hits) = SumFunctionOnSet(hits, New(so))
       /\ SumFunction(reqBlocks) = SumFunctionOnSet(reqBlocks, Req)
  BY <1>2, <1>10 DEF SumFunction
<1>12. /\ SumFunction(Allocated(so)) \in Nat /\ SumFunction(hits) \in Nat
       /\ SumFunctionOnSet(Booked(so), Req) =
            SumFunction(reqBlocks) + SumFunction(Allocated(so)) + SumFunction(hits)
  BY <1>5, <1>6, <1>7, <1>8, <1>9, <1>11
<1> QED
  BY <1>12 DEF hits

\* A step of the ledger books what its statistics say (kv_block_allocator.py:120-183).
LEMMA AllocBalances ==
  ASSUME Inv, LedgerBalances, NEW so \in NextOutputs(IsConsumer), AllocStep(so)
  PROVE  LedgerBalances'
<1> DEFINE hits  == [r \in New(so) |-> CachedBlocks(so, r)]
           rest  == Req \ notify
           freed == SumFunctionOnSet(Booked(so), notify)
<1>1. /\ New(so) \subseteq Req /\ notify \subseteq Req /\ so.finished = notify
      /\ \A r \in New(so) : so.new[r] \in Nat
  BY OutputsOK DEF Inv, Live, With, Types
<1>2. /\ IsFiniteSet(Req) /\ IsFiniteSet(New(so)) /\ IsFiniteSet(notify) /\ IsFiniteSet(rest)
      /\ PromptLen \in [Req -> Nat \ {0}]
  BY <1>1, RequestsOK, FS_Subset
<1>3. /\ SumFunction(Allocated(so)) \in Nat
      /\ SumFunction(hits) \in Nat
      /\ SumFunctionOnSet(Booked(so), Req) =
           SumFunction(reqBlocks) + SumFunction(Allocated(so)) + SumFunction(hits)
  BY BookedBalances
<1>4. \A r \in Req : Booked(so)[r] \in Nat
  BY BookedSplits
<1>5. reqBlocks' = [r \in Req |-> IF r \in notify THEN 0 ELSE Booked(so)[r]]
  BY <1>1 DEF AllocStep
<1>6. /\ freed \in Nat
      /\ SumFunctionOnSet(Booked(so), Req) = freed + SumFunctionOnSet(Booked(so), rest)
      /\ SumFunctionOnSet(Booked(so), rest) \in Nat
  <2>1. notify \cup rest = Req /\ notify \cap rest = {}
    BY <1>1
  <2>2. \A r \in notify \cup rest : Booked(so)[r] \in Int /\ Booked(so)[r] >= 0
    BY <1>4, <2>1
  <2> HIDE DEF rest
  <2>3. SumFunctionOnSet(Booked(so), notify \cup rest)
         = SumFunctionOnSet(Booked(so), notify) + SumFunctionOnSet(Booked(so), rest)
    BY <1>2, <2>1, <2>2, SumUnion
  <2>4. /\ SumFunctionOnSet(Booked(so), notify) \in Nat
        /\ SumFunctionOnSet(Booked(so), rest) \in Nat
    BY <1>2, <2>1, <2>2, SumType
  <2>5. SumFunctionOnSet(Booked(so), Req)
         = SumFunctionOnSet(Booked(so), notify) + SumFunctionOnSet(Booked(so), rest)
    BY ONLY <2>1, <2>3, Zenon
  <2> QED
    BY <2>4, <2>5
<1>7. SumFunction(reqBlocks') = SumFunctionOnSet(Booked(so), rest)
  <2> DEFINE after == [r \in Req |-> IF r \in notify THEN 0 ELSE Booked(so)[r]]
  <2>1. /\ DOMAIN after = Req
        /\ \A r \in rest : Booked(so)[r] \in Int /\ after[r] = Booked(so)[r]
        /\ \A r \in Req \ rest : after[r] = 0
    BY <1>4
  <2> HIDE DEF after
  <2>2. SumFunctionOnSet(after, Req) = SumFunctionOnSet(Booked(so), rest)
    BY <1>2, <2>1, SumPadded
  <2>3. SumFunction(after) = SumFunctionOnSet(Booked(so), rest)
    BY <2>1, <2>2 DEF SumFunction
  <2> QED
    BY <1>5, <2>3 DEF after
<1>8. SumFunction(so.new) \in Nat /\ SumFunctionOnSet(PromptLen, New(so)) \in Nat
  <2>1. /\ \A r \in New(so) : so.new[r] \in Int /\ so.new[r] >= 0
        /\ \A r \in New(so) : PromptLen[r] \in Int /\ PromptLen[r] >= 0
    BY <1>1, <1>2
  <2>2. /\ SumFunctionOnSet(so.new, New(so)) \in Int /\ SumFunctionOnSet(so.new, New(so)) >= 0
        /\ SumFunctionOnSet(PromptLen, New(so)) \in Int /\ SumFunctionOnSet(PromptLen, New(so)) >= 0
    BY <1>2, <2>1, SumType
  <2>3. SumFunction(so.new) = SumFunctionOnSet(so.new, New(so))
    BY DEF SumFunction, New
  <2> QED
    BY <2>2, <2>3
<1> DEFINE inUse == SumFunction(reqBlocks')
           stats == [newAllocated |-> cumulative.newAllocated + SumFunction(Allocated(so)),
                     dedupHit     |-> cumulative.dedupHit + SumFunction(hits),
                     freed        |-> cumulative.freed + freed,
                     peak         |-> Larger(cumulative.peak, inUse),
                     overCapacity |-> cumulative.overCapacity + (IF inUse > NumBlocks THEN 1 ELSE 0),
                     cachedTokens |-> cumulative.cachedTokens + SumFunction(so.new),
                     promptTokens |-> cumulative.promptTokens + SumFunctionOnSet(PromptLen, New(so))]
<1>9. cumulative' = stats
  BY <1>1 DEF AllocStep, PromptHits
<1>10. cumulative \in BlockStats
  BY DEF LedgerBalances
<1>11. inUse \in Nat
  BY <1>6, <1>7
<1> HIDE DEF hits, freed, inUse
<1>12. Larger(cumulative.peak, inUse) \in Nat
  BY <1>10, <1>11 DEF Larger, BlockStats
<1>13. stats \in BlockStats
  BY <1>3, <1>6, <1>8, <1>10, <1>11, <1>12 DEF BlockStats
<1>14. inUse = stats.newAllocated + stats.dedupHit - stats.freed
  <2>1. inUse + freed = SumFunction(reqBlocks) + SumFunction(Allocated(so)) + SumFunction(hits)
    BY <1>3, <1>6, <1>7, <1>11 DEF inUse
  <2>2. SumFunction(reqBlocks) = cumulative.newAllocated + cumulative.dedupHit - cumulative.freed
    BY DEF LedgerBalances
  <2>3. /\ cumulative.newAllocated \in Nat /\ cumulative.dedupHit \in Nat
        /\ cumulative.freed \in Nat
    BY <1>10 DEF BlockStats
  <2>4. /\ stats.newAllocated = cumulative.newAllocated + SumFunction(Allocated(so))
        /\ stats.dedupHit = cumulative.dedupHit + SumFunction(hits)
        /\ stats.freed = cumulative.freed + freed
    OBVIOUS
  <2>5. /\ freed \in Int /\ inUse \in Int /\ SumFunction(reqBlocks) \in Int
        /\ SumFunction(Allocated(so)) \in Int /\ SumFunction(hits) \in Int
    BY <1>3, <1>6, <1>11, <2>2, <2>3
  <2> HIDE DEF stats
  <2> QED
    BY ONLY <2>1, <2>2, <2>3, <2>4, <2>5
<1> HIDE DEF stats
<1> QED
  BY <1>9, <1>13, <1>14 DEF LedgerBalances, inUse

LEMMA BalancesInit == Init => LedgerBalances
<1> SUFFICES ASSUME Init PROVE LedgerBalances
  OBVIOUS
<1>1. reqBlocks = [r \in Req |-> 0]
  BY DEF Init, RunnerInit, AllocInit
<1>2. SumFunctionOnSet(reqBlocks, Req) = 0
  <2>1. SumFunctionOnSet(reqBlocks, Req) = 0 * Cardinality(Req)
    BY <1>1, RequestsOK, SumConstant
  <2> QED
    BY <2>1, RequestsOK, FS_CardinalityType
<1>3. SumFunction(reqBlocks) = 0
  BY <1>1, <1>2 DEF SumFunction
<1> QED
  BY <1>3 DEF Init, RunnerInit, AllocInit, LedgerBalances, BlockStats

\* The statistics account for every block the ledger holds, whatever is
\* chunked, found in the cache, preempted, recomputed or aborted
\* (kv_block_allocator.py:120-183).
THEOREM LedgerBalancesAlways == Spec => []LedgerBalances
<1>1. Inv /\ LedgerBalances /\ [Next]_vars => LedgerBalances'
  <2> SUFFICES ASSUME Inv, LedgerBalances, [Next]_vars
               PROVE  LedgerBalances'
    OBVIOUS
  <2>1. CASE EngineStep
    BY <2>1, AllocBalances DEF EngineStep, BusyStep
  <2>2. CASE UNCHANGED runnerVars
    BY <2>2 DEF runnerVars, allocVars, LedgerBalances
  <2> QED
    BY <2>1, <2>2 DEF Next, DrainStep, EmptyStep, Client, vars
<1> QED
  BY <1>1, BalancesInit, InvCorrect, PTL DEF Spec
-----------------------------------------------------------------------------
(* Simulated time and the metrics.                                         *)

Life == [seen : BOOLEAN, arrival : Nat, sawFirst : BOOLEAN, firstToken : Nat,
         completed : BOOLEAN, completion : Nat, outputTokens : Nat,
         latencies : Nat, target : Nat]

Prefills == [partials : Nat, at : Nat, elsewhere : BOOLEAN]

Timed ==
  /\ simTime \in Nat /\ pdTotals.blocks \in Nat
  /\ requests \in [Req -> Life]
  /\ prefill \in [Req -> Prefills]
  /\ \A r \in Req : prefill[r].at <= simTime /\ requests[r].arrival <= simTime

\* The metrics know the requests that have sampled a token, and what has run
\* has sampled one.
Sighted(r) ==
  /\ engine[r].status \in {"running", "preempted"} => engine[r].outputs # << >>
  /\ requests[r].seen => engine[r].outputs # << >>
  /\ ~ requests[r].seen => /\ engine[r].outputs = << >>
                           /\ ~ requests[r].sawFirst /\ ~ requests[r].completed
                           /\ requests[r].outputTokens = 0

\* The output counted is the one before the last step.
OutputOneBehind(r) ==
  requests[r].seen => requests[r].outputTokens = Len(engine[r].outputs) - 1

\* What has run has completed its prompt or left it incomplete at least once.
Prompted(r) ==
  prefill[r].at = 0 /\ engine[r].outputs # << >> => prefill[r].partials >= 1

MetricsInv ==
  /\ Timed
  /\ \A r \in Req : /\ Sighted(r) /\ OutputOneBehind(r) /\ Prompted(r)
                    /\ LifeInOrder(r) /\ FirstTokenNotEarly(r)

LEMMA MetricsImply == Types /\ MetricsInv => MetricsFollowEngine
<1> SUFFICES ASSUME Types, MetricsInv, NEW r \in Req
             PROVE  LifeInOrder(r) /\ OutputKeepsUp(r) /\ FirstTokenNotEarly(r)
  BY DEF MetricsFollowEngine
<1>1. engine[r].outputs \in Seq(Tokens)
  BY DEF Types
<1>2. OutputKeepsUp(r)
  BY <1>1 DEF MetricsInv, OutputOneBehind, OutputKeepsUp
<1> QED
  BY <1>2 DEF MetricsInv

\* A transfer takes no time back.
LEMMA TransfersTake ==
  ASSUME Inv, pdTotals.blocks \in Nat, NEW so \in NextOutputs(IsConsumer),
         AllocStep(so), PDStep(so, tracked')
  PROVE  (pdTotals.blocks)' \in Nat /\ PDLatency \in Nat
<1> DEFINE charged == Charged(so, tracked')
           blocks  == [r \in DOMAIN charged |-> charged[r].blocks]
<1>1. CASE role = "none"
  BY <1>1 DEF PDStep, pdVars, PDLatency
<1>2. CASE role # "none"
  <2>1. /\ Scheduled(so) \subseteq Req /\ New(so) \subseteq Scheduled(so)
        /\ reqBlocks' \in [Req -> Nat]
    BY OutputsOK, BookingCovers DEF Inv, Live, With
  <2>2. DOMAIN charged \subseteq Scheduled(so)
    BY <2>1 DEF Charged, Sends, Receives
  <2>3. \A r \in DOMAIN charged : charged[r].blocks \in Nat
    <3> SUFFICES ASSUME NEW r \in DOMAIN charged
                 PROVE  charged[r].blocks \in Nat
      OBVIOUS
    <3>1. r \in Req /\ BlocksNeeded(r) \in Nat /\ reqBlocks'[r] \in Nat
      BY <2>1, <2>2, RequestsOK, CeilDivCovers DEF BlocksNeeded
    <3> QED
      BY <3>1 DEF Charged
  <2>4. IsFiniteSet(DOMAIN charged)
    BY <2>1, <2>2, RequestsOK, FS_Subset
  <2>5. (pdTotals.blocks)' = pdTotals.blocks + SumFunction(blocks)
    BY <1>2 DEF PDStep
  <2> HIDE DEF charged
  <2>6. SumFunctionOnSet(blocks, DOMAIN charged) \in Nat
    <3>1. \A r \in DOMAIN charged : blocks[r] \in Int /\ blocks[r] >= 0
      BY <2>3
    <3> HIDE DEF blocks
    <3> QED
      BY <2>4, <3>1, SumType
  <2>7. SumFunction(blocks) \in Nat
    BY <2>6 DEF SumFunction
  <2> HIDE DEF blocks
  <2> QED
    BY <2>5, <2>7 DEF PDLatency
<1> QED
  BY <1>1, <1>2

\* What the metrics are told of a request that runs.
LEMMA WorkloadOK ==
  ASSUME Inv, NEW so \in NextOutputs(IsConsumer), NEW keep, NEW r \in Scheduled(so)
  PROVE  LET w == Extract(so, keep)[r]
         IN  /\ w.generated = Len(engine[r].outputs) /\ w.target \in Nat
             /\ engine[r].status = "waiting" => w.generated = 0 /\ w.phase # DECODE
<1>1. /\ r \in Req
      /\ r \in New(so) <=> engine[r].status = "waiting"
      /\ r \notin New(so) => so.cached[r].outputs = Len(engine[r].outputs)
      /\ MaxTokens[r] \in Nat
  BY OutputsOK, RequestsOK DEF Inv, Live, With
<1>2. CASE r \in New(so)
  <2>1. engine[r].outputs = << >>
    BY <1>1, <1>2 DEF Inv, Follows, Untouched
  <2>2. Extract(so, keep)[r] = NewWorkload(so, r)
    BY <1>2 DEF Extract
  <2> QED
    BY <1>1, <1>2, <2>1, <2>2 DEF NewWorkload, PREFILL, CHUNKED_PREFILL, DECODE
<1>3. CASE r \notin New(so)
  <2>1. Extract(so, keep)[r] = CachedWorkload(so, r, keep)
    BY <1>3 DEF Extract
  <2> QED
    BY <1>1, <1>3, <2>1 DEF CachedWorkload
<1> QED
  BY <1>2, <1>3

\* A prompt before its completion: a step leaves it incomplete or completes it.
Prompts(r) ==
  \/ prefill[r].at # 0 /\ prefill'[r] = prefill[r]
  \/ /\ prefill[r].at = 0 /\ prefill'[r] \in Prefills
     /\ \/ prefill'[r].at = 0 /\ prefill'[r].partials = prefill[r].partials + 1
        \/ prefill'[r].at = simTime' /\ prefill'[r].partials = prefill[r].partials

\* One request in one recorded step: it has run and sampled, its end is
\* reported, or nothing happens to it (collector.py:44-108).
Recorded(r) ==
  \/ /\ engine[r].status \in {"waiting", "running", "preempted"}
     /\ engine'[r].outputs # << >> /\ Len(engine'[r].outputs) = Len(engine[r].outputs) + 1
     /\ Prompts(r)
     /\ \E w : /\ w.generated = Len(engine[r].outputs) /\ w.target \in Nat
               /\ engine[r].status = "waiting" => w.generated = 0 /\ w.phase # DECODE
               /\ requests'[r] = Observed(requests[r], w, simTime, simTime')
  \/ /\ engine[r].status = "finished" /\ engine'[r] = engine[r]
     /\ prefill'[r] = prefill[r]
     /\ requests'[r] = Completed(requests[r], simTime')
  \/ /\ engine'[r] = engine[r]
     /\ prefill'[r] = prefill[r]
     /\ requests'[r] = requests[r]

\* Such a step keeps the life of the request in order.
LEMMA RecordedKeeps ==
  ASSUME Inv, MetricsInv, NEW r \in Req, simTime' \in Nat, simTime < simTime', Recorded(r)
  PROVE  /\ requests'[r] \in Life /\ prefill'[r] \in Prefills
         /\ prefill'[r].at <= simTime' /\ requests'[r].arrival <= simTime'
         /\ engine'[r].outputs # << >> \/ engine'[r] = engine[r]
         /\ requests'[r].seen => engine'[r].outputs # << >>
         /\ ~ requests'[r].seen => /\ engine'[r].outputs = << >>
                                   /\ ~ requests'[r].sawFirst /\ ~ requests'[r].completed
                                   /\ requests'[r].outputTokens = 0
         /\ requests'[r].completed => requests[r].completed \/ engine[r].status = "finished"
         /\ requests'[r].completed => engine'[r] = engine[r]
         /\ requests'[r].completed => /\ requests'[r].arrival <= requests'[r].completion
                                      /\ requests'[r].completion <= simTime'
         /\ requests'[r].completed /\ requests'[r].sawFirst =>
                requests'[r].firstToken <= requests'[r].completion
         /\ requests'[r].sawFirst => /\ requests'[r].arrival < requests'[r].firstToken
                                     /\ requests'[r].firstToken <= simTime'
         /\ OutputOneBehind(r)' /\ Prompted(r)'
         /\ FirstTokenNotEarly(r)'
<1> DEFINE m == requests[r]
           n == Len(engine[r].outputs)
<1>1. /\ m \in Life /\ prefill[r] \in Prefills /\ simTime \in Nat
      /\ prefill[r].at <= simTime /\ m.arrival <= simTime
  BY DEF MetricsInv, Timed
<1>2. /\ Sighted(r) /\ OutputOneBehind(r) /\ Prompted(r)
      /\ LifeInOrder(r) /\ FirstTokenNotEarly(r)
  BY DEF MetricsInv
<1>3. /\ engine[r].outputs \in Seq(Tokens) /\ n \in Nat
      /\ n = 0 <=> engine[r].outputs = << >>
  BY DEF Inv, Types
<1>4. CASE /\ engine'[r] = engine[r] /\ prefill'[r] = prefill[r]
           /\ requests'[r] = requests[r]
  BY <1>1, <1>2, <1>4
  DEF Sighted, OutputOneBehind, Prompted, LifeInOrder, FirstTokenNotEarly, Life, Prefills
<1>5. CASE /\ engine[r].status = "finished" /\ engine'[r] = engine[r]
           /\ prefill'[r] = prefill[r]
           /\ requests'[r] = Completed(requests[r], simTime')
  <2>1. CASE ~ m.seen \/ m.completed
    <3>1. requests'[r] = requests[r]
      BY <1>5, <2>1 DEF Completed
    <3> QED
      BY <1>4, <1>5, <3>1
  <2>2. CASE m.seen /\ ~ m.completed
    <3>1. requests'[r] = [m EXCEPT !.completion = simTime', !.completed = TRUE]
      BY <1>5, <2>2 DEF Completed
    <3>2. /\ requests'[r] \in Life
          /\ requests'[r].completion = simTime' /\ requests'[r].completed
          /\ requests'[r].seen /\ requests'[r].sawFirst = m.sawFirst
          /\ requests'[r].arrival = m.arrival /\ requests'[r].firstToken = m.firstToken
          /\ requests'[r].outputTokens = m.outputTokens
      BY <1>1, <2>2, <3>1 DEF Life
    <3> QED
      BY <1>1, <1>2, <1>5, <2>2, <3>2
      DEF Sighted, OutputOneBehind, Prompted, LifeInOrder, FirstTokenNotEarly, Life, Prefills
  <2> QED
    BY <2>1, <2>2
<1>6. ASSUME NEW w,
             engine[r].status \in {"waiting", "running", "preempted"},
             engine'[r].outputs # << >>, Len(engine'[r].outputs) = n + 1,
             Prompts(r),
             w.generated = n, w.target \in Nat,
             engine[r].status = "waiting" => w.generated = 0 /\ w.phase # DECODE,
             requests'[r] = Observed(requests[r], w, simTime, simTime')
      PROVE  /\ requests'[r] \in Life /\ prefill'[r] \in Prefills
             /\ prefill'[r].at <= simTime' /\ requests'[r].arrival <= simTime'
             /\ requests'[r].seen /\ ~ requests'[r].completed
             /\ requests'[r].sawFirst => /\ requests'[r].arrival < requests'[r].firstToken
                                         /\ requests'[r].firstToken <= simTime'
             /\ requests'[r].outputTokens = n
             /\ FirstTokenNotEarly(r)'
  <2> DEFINE first == w.generated >= 1 \/ w.phase = DECODE
  <2>1. /\ ~ m.completed
        /\ m.seen => n # 0 /\ m.outputTokens = n - 1
        /\ ~ m.seen => n = 0 /\ m.outputTokens = 0 /\ ~ m.sawFirst
        /\ first => m.seen
    BY <1>2, <1>3, <1>6 DEF Sighted, LifeInOrder, OutputOneBehind
  <2>2. Larger(m.outputTokens, n) = n
    BY <1>3, <2>1 DEF Larger
  <2>3. Larger(m.target, w.target) \in Nat
    BY <1>1, <1>6 DEF Larger, Life
  <2>4. requests'[r] = [m EXCEPT !.seen = TRUE,
                                 !.arrival = IF m.seen THEN @ ELSE simTime,
                                 !.sawFirst = @ \/ first,
                                 !.firstToken = IF ~ m.sawFirst /\ first THEN simTime' ELSE @,
                                 !.outputTokens = n,
                                 !.latencies = @ + 1,
                                 !.target = Larger(m.target, w.target)]
    BY <1>6, <2>2 DEF Observed
  <2> HIDE DEF first
  <2>5. requests'[r] =
          [seen |-> TRUE, arrival |-> IF m.seen THEN m.arrival ELSE simTime,
           sawFirst |-> m.sawFirst \/ first,
           firstToken |-> IF ~ m.sawFirst /\ first THEN simTime' ELSE m.firstToken,
           completed |-> m.completed, completion |-> m.completion, outputTokens |-> n,
           latencies |-> m.latencies + 1, target |-> Larger(m.target, w.target)]
    BY <1>1, <2>4 DEF Life
  <2> DEFINE arrived == IF m.seen THEN m.arrival ELSE simTime
             dated   == IF ~ m.sawFirst /\ first THEN simTime' ELSE m.firstToken
  <2>6. /\ arrived \in Nat /\ arrived <= simTime /\ dated \in Nat
        /\ m.latencies + 1 \in Nat /\ m.completion \in Nat
    BY <1>1 DEF Life
  <2>7. m.sawFirst \/ first => arrived < dated /\ dated <= simTime'
    <3>1. CASE m.sawFirst
      BY <1>1, <1>2, <2>1, <3>1 DEF LifeInOrder, Life
    <3>2. CASE ~ m.sawFirst /\ first
      BY <1>1, <2>1, <3>2 DEF Life
    <3> QED
      BY <3>1, <3>2
  <2>8. /\ requests'[r].seen = TRUE /\ requests'[r].arrival = arrived
        /\ requests'[r].sawFirst = (m.sawFirst \/ first) /\ requests'[r].firstToken = dated
        /\ requests'[r].completed = m.completed /\ requests'[r].outputTokens = n
    BY <1>3, <1>6, <2>5
  <2>9. requests'[r] \in Life
    BY <1>1, <1>3, <2>3, <2>5, <2>6 DEF Life
  <2>10. simTime \in Nat /\ simTime' \in Nat /\ simTime < simTime'
    BY <1>1
  <2>11. arrived <= simTime'
    BY <2>6, <2>10
  <2>12. /\ prefill'[r] \in Prefills /\ prefill'[r].at <= simTime'
         /\ prefill'[r].at # 0 <=> prefill'[r].at \in {prefill[r].at, simTime'} \ {0}
    BY <1>1, <1>6, <2>10 DEF Prompts, Prefills
  <2>13. ASSUME m.sawFirst \/ first, prefill'[r].partials <= 1
         PROVE  prefill'[r].at # 0 /\ prefill'[r].at <= dated
    <3>1. prefill[r].at = 0 => prefill[r].partials \in Nat /\ prefill[r].partials >= 1
      <4>1. engine[r].outputs # << >>
        BY <1>3, <2>1, <2>13
      <4> QED
        BY <1>1, <1>2, <4>1 DEF Prompted, Prefills
    <3>2. CASE prefill[r].at = 0
      <4>1. prefill'[r].at = simTime' /\ prefill'[r].partials = prefill[r].partials
        BY <1>6, <2>13, <3>1, <3>2 DEF Prompts
      <4>2. ~ m.sawFirst
        BY <1>2, <2>13, <3>2, <4>1 DEF FirstTokenNotEarly
      <4> QED
        BY <2>10, <2>13, <4>1, <4>2
    <3>3. CASE prefill[r].at # 0
      <4>1. prefill'[r] = prefill[r]
        BY <1>6, <3>3 DEF Prompts
      <4>2. m.sawFirst => prefill[r].at <= m.firstToken
        BY <1>2, <2>13, <4>1 DEF FirstTokenNotEarly
      <4>3. prefill[r].at <= simTime'
        BY <1>1, <2>10 DEF Prefills
      <4> QED
        BY <2>13, <3>3, <4>1, <4>2, <4>3
    <3> QED
      BY <3>2, <3>3
  <2>14. FirstTokenNotEarly(r)'
    BY <2>8, <2>13 DEF FirstTokenNotEarly
  <2> HIDE DEF arrived, dated
  <2> QED
    BY <2>1, <2>6, <2>7, <2>8, <2>9, <2>11, <2>12, <2>14
<1>7. ASSUME NEW w,
             engine[r].status \in {"waiting", "running", "preempted"},
             engine'[r].outputs # << >>, Len(engine'[r].outputs) = n + 1,
             Prompts(r),
             w.generated = n, w.target \in Nat,
             engine[r].status = "waiting" => w.generated = 0 /\ w.phase # DECODE,
             requests'[r] = Observed(requests[r], w, simTime, simTime')
      PROVE  OutputOneBehind(r)' /\ Prompted(r)'
  <2>1. OutputOneBehind(r)'
    BY <1>3, <1>6, <1>7 DEF OutputOneBehind
  <2>2. Prompted(r)'
    BY <1>1, <1>7 DEF Prompted, Prompts, Prefills
  <2> QED
    BY <2>1, <2>2
<1> QED
  BY <1>4, <1>5, <1>6, <1>7 DEF Recorded

LEMMA MetricsStart == Init => MetricsInv
<1> SUFFICES ASSUME Init PROVE MetricsInv
  OBVIOUS
<1> USE DEF Init, RunnerInit, EngineInit, PDInit, MetricsInit
<1>1. Timed
  BY DEF Timed, Life, Prefills, NoMetrics
<1>2. \A r \in Req : Sighted(r) /\ OutputOneBehind(r) /\ Prompted(r)
  BY DEF Sighted, OutputOneBehind, Prompted, NoMetrics
<1>3. \A r \in Req : LifeInOrder(r) /\ FirstTokenNotEarly(r)
  BY DEF LifeInOrder, FirstTokenNotEarly, NoMetrics
<1> QED
  BY <1>1, <1>2, <1>3 DEF MetricsInv

\* An iteration with tokens takes time and records every request once.
LEMMA EngineRecords ==
  ASSUME Inv, MetricsInv, EngineStep
  PROVE  /\ simTime' \in Nat /\ simTime < simTime' /\ (pdTotals.blocks)' \in Nat
         /\ DOMAIN requests' = Req /\ requests' = [r \in Req |-> requests'[r]]
         /\ prefill' = [r \in Req |-> prefill'[r]]
         /\ \A r \in Req : Recorded(r)
<1>1. PICK so \in NextOutputs(IsConsumer) :
        BusyStep(so) /\ Progress(so, SampledTokens(so)) /\ Record(so)
  BY DEF EngineStep
<1>2. /\ Scheduled(so) \subseteq Live /\ Live \subseteq Req /\ so.finished = notify
  BY OutputsOK DEF Inv, Live, With
<1>3. AllocStep(so) /\ PDStep(so, tracked')
  BY <1>1 DEF BusyStep
<1>4. simTime \in Nat /\ pdTotals.blocks \in Nat
  BY DEF MetricsInv, Timed
<1>5. (pdTotals.blocks)' \in Nat /\ PDLatency \in Nat
  BY <1>3, <1>4, TransfersTake
<1>6. PICK latency \in Nat \ {0} : RecordStep(Extract(so, tracked'), latency, notify)
  <2>1. PICK cost \in Latencies :
          LET workload == Extract(so, tracked')
              overhead == IF PrefillRequests(workload) = {} THEN 0 ELSE PrefillOverhead
          IN  RecordStep(workload, cost + overhead + PDLatency, notify)
    BY <1>1, <1>2 DEF BusyStep
  <2> DEFINE overhead == IF PrefillRequests(Extract(so, tracked')) = {} THEN 0 ELSE PrefillOverhead
  <2>2. overhead \in Nat /\ cost \in Nat \ {0}
    BY CostsOK
  <2>3. RecordStep(Extract(so, tracked'), cost + overhead + PDLatency, notify)
    BY <2>1
  <2> HIDE DEF overhead
  <2>4. cost + overhead + PDLatency \in Nat \ {0}
    BY <1>5, <2>2
  <2> QED
    BY <2>3, <2>4
<1>7. simTime' = simTime + latency
  BY <1>6 DEF RecordStep
<1>8. simTime' \in Nat /\ simTime < simTime'
  BY <1>4, <1>6, <1>7
<1> DEFINE work     == Extract(so, tracked')
           observed == [r \in Req |-> IF r \in DOMAIN work
                                      THEN Observed(requests[r], work[r], simTime, simTime')
                                      ELSE requests[r]]
<1>9. requests' = [r \in Req |-> IF r \in notify THEN Completed(observed[r], simTime')
                                                  ELSE observed[r]]
  BY <1>6, <1>7 DEF RecordStep
<1>10. DOMAIN work = Scheduled(so)
  BY DEF Extract
<1>11. prefill' = [r \in Req |-> IF r \in Scheduled(so) /\ prefill[r].at = 0
                                 THEN Prefilled(so, r) ELSE prefill[r]]
  BY <1>1 DEF Record
<1>12. ASSUME NEW r \in Req
       PROVE  /\ r \in Scheduled(so) =>
                   engine'[r].outputs = Append(engine[r].outputs, SampledTokens(so)[r])
              /\ r \notin Scheduled(so) => engine'[r] = engine[r]
  BY <1>1 DEF Progress
<1>13. ASSUME NEW r \in Req
       PROVE  Recorded(r)
  <2>1. engine[r].outputs \in Seq(Tokens) /\ engine[r].status \in Statuses
    BY DEF Inv, Types
  <2>2. CASE r \in Scheduled(so)
    <3>1. r \notin notify /\ engine[r].status \in {"waiting", "running", "preempted"}
      BY <1>2, <2>2 DEF Live, With, Inv, Follows, Untouched, Kept
    <3>2. requests'[r] = Observed(requests[r], work[r], simTime, simTime')
      <4> HIDE DEF work
      <4> QED
        BY <1>9, <1>10, <2>2, <3>1
    <3>3. /\ work[r].generated = Len(engine[r].outputs) /\ work[r].target \in Nat
          /\ engine[r].status = "waiting" => work[r].generated = 0 /\ work[r].phase # DECODE
      BY <2>2, WorkloadOK
    <3>4. engine'[r].outputs = Append(engine[r].outputs, SampledTokens(so)[r])
      BY <1>12, <2>2
    <3>5. engine'[r].outputs # << >> /\ Len(engine'[r].outputs) = Len(engine[r].outputs) + 1
      <4>1. \A t : /\ Append(engine[r].outputs, t) # << >>
                   /\ Len(Append(engine[r].outputs, t)) = Len(engine[r].outputs) + 1
        BY <2>1
      <4> QED
        BY <3>4, <4>1
    <3>6. Prompts(r)
      <4>1. prefill[r] \in Prefills
        BY DEF MetricsInv, Timed
      <4>2. CASE prefill[r].at # 0
        BY <1>11, <4>2 DEF Prompts
      <4>3. CASE prefill[r].at = 0
        <5> DEFINE elsewhere == r \in New(so) /\ so.new[r] >= PromptLen[r]
        <5>1. prefill'[r] = Prefilled(so, r)
          BY <1>11, <2>2, <4>3
        <5>2. prefill[r] = [partials |-> prefill[r].partials, at |-> prefill[r].at,
                            elsewhere |-> prefill[r].elsewhere]
          BY <4>1 DEF Prefills
        <5>3. elsewhere \in BOOLEAN
          OBVIOUS
        <5>4. prefill'[r] \in
                {[partials |-> prefill[r].partials + 1, at |-> prefill[r].at,
                  elsewhere |-> prefill[r].elsewhere],
                 [partials |-> prefill[r].partials, at |-> simTime',
                  elsewhere |-> elsewhere]}
          BY <5>1, <5>2 DEF Prefilled
        <5> HIDE DEF elsewhere
        <5> QED
          BY <1>8, <4>1, <4>3, <5>3, <5>4 DEF Prefills, Prompts
      <4> QED
        BY <4>2, <4>3
    <3> HIDE DEF work
    <3> QED
      BY <3>1, <3>2, <3>3, <3>5, <3>6 DEF Recorded
  <2>3. CASE r \notin Scheduled(so)
    <3>1. engine'[r] = engine[r] /\ prefill'[r] = prefill[r]
      BY <1>11, <1>12, <2>3
    <3>2. r \in notify => engine[r].status = "finished"
      BY <2>1 DEF Inv, Follows, Untouched, Kept, Statuses
    <3>3. requests'[r] = IF r \in notify THEN Completed(requests[r], simTime') ELSE requests[r]
      <4> HIDE DEF work
      <4> QED
        BY <1>9, <1>10, <2>3
    <3> QED
      BY <3>1, <3>2, <3>3 DEF Recorded
  <2> QED
    BY <2>2, <2>3
<1> HIDE DEF observed
<1>14. /\ DOMAIN requests' = Req /\ requests' = [r \in Req |-> requests'[r]]
       /\ prefill' = [r \in Req |-> prefill'[r]]
  BY <1>9, <1>11
<1> QED
  BY <1>5, <1>8, <1>13, <1>14

LEMMA MetricsNext ==
  ASSUME Inv, Inv', MetricsInv, [Next]_vars
  PROVE  MetricsInv'
<1>1. CASE EngineStep
  <2>1. /\ simTime' \in Nat /\ simTime < simTime' /\ (pdTotals.blocks)' \in Nat
        /\ requests' = [r \in Req |-> requests'[r]]
        /\ prefill' = [r \in Req |-> prefill'[r]]
        /\ \A r \in Req : Recorded(r)
    BY <1>1, EngineRecords
  <2>2. Timed'
    <3>1. \A r \in Req : /\ requests'[r] \in Life /\ prefill'[r] \in Prefills
                         /\ prefill'[r].at <= simTime' /\ requests'[r].arrival <= simTime'
      BY <2>1, RecordedKeeps
    <3>2. requests' \in [Req -> Life] /\ prefill' \in [Req -> Prefills]
      BY <2>1, <3>1
    <3> QED
      BY <2>1, <3>1, <3>2 DEF Timed
  <2>3. ASSUME NEW r \in Req
        PROVE  /\ Sighted(r)' /\ OutputOneBehind(r)' /\ Prompted(r)'
               /\ LifeInOrder(r)' /\ FirstTokenNotEarly(r)'
    <3>1. /\ engine'[r].outputs # << >> \/ engine'[r] = engine[r]
          /\ requests'[r].seen => engine'[r].outputs # << >>
          /\ ~ requests'[r].seen => /\ engine'[r].outputs = << >>
                                    /\ ~ requests'[r].sawFirst /\ ~ requests'[r].completed
                                    /\ requests'[r].outputTokens = 0
          /\ requests'[r].completed => requests[r].completed \/ engine[r].status = "finished"
          /\ requests'[r].completed => engine'[r] = engine[r]
          /\ requests'[r].completed => /\ requests'[r].arrival <= requests'[r].completion
                                       /\ requests'[r].completion <= simTime'
          /\ requests'[r].completed /\ requests'[r].sawFirst =>
                 requests'[r].firstToken <= requests'[r].completion
          /\ requests'[r].sawFirst => /\ requests'[r].arrival < requests'[r].firstToken
                                      /\ requests'[r].firstToken <= simTime'
          /\ OutputOneBehind(r)' /\ Prompted(r)' /\ FirstTokenNotEarly(r)'
      BY <2>1, RecordedKeeps
    <3>2. Sighted(r)'
      BY <3>1 DEF Sighted, MetricsInv
    <3>3. requests'[r].completed => engine'[r].status = "finished"
      BY <3>1 DEF MetricsInv, LifeInOrder
    <3>4. LifeInOrder(r)'
      BY <3>1, <3>3 DEF LifeInOrder
    <3> QED
      BY <3>1, <3>2, <3>4
  <2> QED
    BY <2>2, <2>3 DEF MetricsInv
<1>2. CASE ~ EngineStep
  <2>1. /\ UNCHANGED <<simTime, requests, pdTotals, prefill>>
        /\ \A r \in Req :
             /\ engine'[r].outputs = engine[r].outputs
             /\ engine[r].status = "finished" => engine'[r].status = "finished"
             /\ engine'[r].status \in {"running", "preempted"} =>
                  engine[r].status \in {"running", "preempted"}
    <3>1. engine \in [Req -> [status : Statuses, computed : Nat, outputs : Seq(Tokens)]]
      BY DEF Inv, Types
    <3>2. CASE UNCHANGED vars \/ DrainStep
      BY <3>2 DEF vars, runnerVars, metricsVars, pdVars, engineVars, history, DrainStep, EmptyStep
    <3>3. CASE Client
      <4>1. UNCHANGED <<simTime, requests, pdTotals, prefill>>
        BY <3>3 DEF Client, runnerVars, metricsVars, pdVars, history
      <4>2. PICK q \in Req : Arrive(q) \/ Abort(q) \/ Preempt(q)
        BY <3>3 DEF Client
      <4>3. CASE Arrive(q)
        BY <3>1, <4>1, <4>3 DEF Arrive
      <4>4. CASE Abort(q)
        BY <3>1, <4>1, <4>4 DEF Abort
      <4>5. CASE Preempt(q)
        BY <3>1, <4>1, <4>5 DEF Preempt
      <4> QED
        BY <4>2, <4>3, <4>4, <4>5
    <3> QED
      BY <1>2, <3>2, <3>3 DEF Next
  <2>2. Timed'
    BY <2>1 DEF MetricsInv, Timed
  <2>3. ASSUME NEW r \in Req
        PROVE  /\ Sighted(r)' /\ OutputOneBehind(r)' /\ Prompted(r)'
               /\ LifeInOrder(r)' /\ FirstTokenNotEarly(r)'
    BY <2>1 DEF MetricsInv, Sighted, OutputOneBehind, Prompted, LifeInOrder, FirstTokenNotEarly
  <2> QED
    BY <2>2, <2>3 DEF MetricsInv
<1> QED
  BY <1>1, <1>2

\* The metrics of every request are in order, its output at most one token
\* behind the engine and its first token not dated before a prompt computed in
\* one or two chunks is complete, for any costs, chunks, preemptions, aborts
\* and transfers (collector.py:44-108).
THEOREM MetricsFollowEngineAlways == Spec => []MetricsFollowEngine
<1>1. Inv /\ Inv' /\ MetricsInv /\ [Next]_vars => MetricsInv'
  BY MetricsNext
<1>2. Inv /\ MetricsInv => MetricsFollowEngine
  BY MetricsImply DEF Inv
<1> QED
  BY <1>1, <1>2, MetricsStart, InvCorrect, PTL DEF Spec
=============================================================================
