------------------------------- MODULE Serving -------------------------------
(***************************************************************************)
(* The closed loop: vLLM's engine schedules, the virtual runner answers.   *)
(* The engine core is synchronous (virtual_platform.py turns asynchronous  *)
(* scheduling off), so one iteration is one action; arrivals, aborts and   *)
(* preemptions happen between iterations.                                  *)
(***************************************************************************)
EXTENDS VirtualModelRunner, VllmEngine

CONSTANT MaxSteps     \* bound: steps with tokens

ASSUME MaxStepsOK == MaxSteps \in Nat

\* History, for the properties.
VARIABLES drained,       \* requests whose end came with a step without tokens
          charges,       \* per request: the transfers charged to it
          prefill,       \* per request: steps that left its prompt incomplete,
                         \* when it was first complete (0: not yet), and
                         \* whether it was computed elsewhere
          lastTokens     \* tokens of a request in its last step

history == <<drained, charges, prefill, lastTokens>>
vars == <<runnerVars, engineVars, history>>

Init == /\ RunnerInit
        /\ EngineInit
        /\ drained = {}
        /\ charges = [r \in Req |-> <<>>]
        /\ prefill = [r \in Req |-> [partials |-> 0, at |-> 0, elsewhere |-> FALSE]]
        /\ lastTokens = [r \in Req |-> 0]

\* A step of a request whose prompt has not been complete yet.
Prefilled(so, r) ==
  IF ComputedAfter(so, r) < PromptLen[r]
  THEN [prefill[r] EXCEPT !.partials = @ + 1]
  ELSE [prefill[r] EXCEPT !.at = simTime',
                          !.elsewhere = r \in New(so) /\ so.new[r] >= PromptLen[r]]

Record(so) ==
  LET charged == IF role = "none" THEN << >> ELSE Charged(so, tracked')
  IN  /\ charges' = [r \in Req |-> IF r \in DOMAIN charged THEN Append(charges[r], charged[r])
                                                            ELSE charges[r]]
      /\ prefill' = [r \in Req |-> IF r \in Scheduled(so) /\ prefill[r].at = 0
                                    THEN Prefilled(so, r) ELSE prefill[r]]
      /\ lastTokens' = [r \in Req |-> IF r \in Scheduled(so) THEN so.ntok[r] ELSE lastTokens[r]]
      /\ UNCHANGED drained

\* An iteration with tokens.
EngineStep ==
  /\ numSteps < MaxSteps
  /\ \E so \in NextOutputs(IsConsumer) : /\ BusyStep(so)
                                         /\ Progress(so, SampledTokens(so))
                                         /\ Record(so)

\* An iteration that only reports finished requests.
DrainStep ==
  /\ Live = {}
  /\ notify # {}
  /\ EmptyStep(DrainOutput)
  /\ notify' = {}
  /\ drained' = drained \cup notify
  /\ UNCHANGED <<engine, charges, prefill, lastTokens>>

Client == \E r \in Req : /\ Arrive(r) \/ Abort(r) \/ Preempt(r)
                         /\ UNCHANGED <<runnerVars, history>>

Next == EngineStep \/ DrainStep \/ Client

Spec == Init /\ [][Next]_vars

-----------------------------------------------------------------------------
(* Properties                                                              *)

Reported(r)   == engine[r].status = "finished" /\ r \notin notify

\* The ledger never shows fewer blocks than a running request has computed
\* tokens for, through chunks, prefix hits, preemption and recomputation
\* (kv_block_allocator.py:141-166).  A request that arrives prefilled is
\* booked for its prompt only: its first decode token may be missing.
BlocksCoverComputed ==
  \A r \in With({"running"}) :
     engine[r].computed <= reqBlocks[r] * BlockSize + (IF IsConsumer THEN 1 ELSE 0)

\* Blocks in use are what was allocated or found in the prefix cache, less
\* what was freed: the cumulative statistics account for the ledger, and none
\* of them is ever negative (kv_block_allocator.py:140-183).
LedgerBalances ==
  /\ cumulative \in BlockStats
  /\ SumFunction(reqBlocks) = cumulative.newAllocated + cumulative.dedupHit - cumulative.freed

\* A reported end releases everything the runner keeps of the request and
\* completes its metrics, unless the report came with a step without tokens.
ReleasedUnlessDrained ==
  \A r \in Req : Reported(r) /\ r \notin drained =>
     /\ r \notin tracked /\ reqBlocks[r] = 0 /\ r \notin handled
     /\ requests[r].seen => requests[r].completed

\* The k-th token of a request is the k-th token of its prompt, whatever was
\* chunked, preempted or computed again in between: two requests with the
\* same prompt repeat each other (output_generator.py:8-19).
TokensFollowPrompt ==
  \A r \in Req : \A k \in 1..Len(engine[r].outputs) :
     engine[r].outputs[k] = Token(r, k - 1)

\* The life of a request on simulated time is in order, and it is complete
\* only when the engine says so.
LifeInOrder(r) ==
  LET m == requests[r]
  IN  /\ m.sawFirst => m.arrival < m.firstToken /\ m.firstToken <= simTime
      /\ m.completed => /\ engine[r].status = "finished"
                        /\ m.arrival <= m.completion /\ m.completion <= simTime
                        /\ m.sawFirst => m.firstToken <= m.completion

\* The output counted for a request that ran is never ahead of what it has
\* produced, and at most the token of its last step behind: the count is taken
\* from what was generated before the step (collector.py:96).  That the token
\* is still missing at the end is refuted apart (OutputTokensProduced).
OutputKeepsUp(r) ==
  requests[r].seen => /\ requests[r].outputTokens <= Len(engine[r].outputs)
                      /\ Len(engine[r].outputs) <= requests[r].outputTokens + 1

\* The first token is not dated before the prompt is complete, unless two
\* steps or more left the prompt incomplete: the runner answers a chunk like
\* any other step, the engine counts the answer, and the collector takes a
\* counted token for the end of the prefill (FirstTokenMeansPrefilled).
FirstTokenNotEarly(r) ==
  requests[r].sawFirst /\ prefill[r].partials <= 1
  => prefill[r].at # 0 /\ prefill[r].at <= requests[r].firstToken

\* The metrics of a request follow what the engine did with it, through
\* chunks, preemption, aborts and prompts prefilled elsewhere
\* (collector.py:44-108): its life is in order, its output keeps up, its
\* first token does not precede a prompt computed in one or two chunks.
MetricsFollowEngine ==
  \A r \in Req : LifeInOrder(r) /\ OutputKeepsUp(r) /\ FirstTokenNotEarly(r)

\* At most one transfer is charged to a request, in whatever chunks it is
\* computed and however often it is preempted and computed again, and it
\* covers the whole prompt (virtual_model_runner.py:269-353).
OneTransfer ==
  \A r \in Req : /\ Len(charges[r]) <= 1
                 /\ \A k \in DOMAIN charges[r] : PromptLen[r] <= charges[r][k].blocks * BlockSize

\* The step in which a prompt is complete for the first time.
Completes(r) == prefill[r].at = 0 /\ prefill'[r].at # 0

\* A producer charges a prompt it has computed in the step that completes it,
\* if that is the request's first step or computes several tokens.  What this
\* leaves out, a last chunk of one token, is refuted apart (SentWhenPrefilled).
ChargedWhenComputed(r) ==
  /\ IsProducer /\ Completes(r) /\ ~ prefill'[r].elsewhere
  /\ engine[r].status = "waiting" \/ lastTokens'[r] > 1
  => Len(charges'[r]) = 1

\* A prompt that arrives prefilled is charged in its first step.  The side it
\* is charged on is right where the node only consumes; where it is a producer
\* too, that is refuted apart (ReceivedWhenPrefilled).
ChargedWhenReceived(r) ==
  /\ IsConsumer /\ Completes(r) /\ prefill'[r].elsewhere
  => /\ Len(charges'[r]) = 1
     /\ ~ IsProducer => charges'[r][1].side = "recv"

\* The code takes a transfer for due in the step that completes the prompt
\* (virtual_model_runner.py:287-343), and charges it there.  This is less than
\* its docstring promises: see the claims below.
ChargedWhenDue ==
  [][\A r \in Req : ChargedWhenComputed(r) /\ ChargedWhenReceived(r)]_vars

-----------------------------------------------------------------------------
(* What the repository says of this loop and the code does not do.  Each   *)
(* claim implies SomeClaimHolds, which one behaviour refutes: at its end    *)
(* every claim is false.                                                    *)

\* "finished_req_ids: 释放该 req 全部 block" (kv_block_allocator.py:11).
ReleasedWhenReported == \A r \in Req : Reported(r) => reqBlocks[r] = 0

\* "进入 DECODE 或 generated_tokens 已 >=1 都说明 prefill 已完成"
\* (collector.py:79): the first token of a request is dated at the end of a
\* step after which its prompt is complete.
FirstTokenMeansPrefilled ==
  \A r \in Req : requests[r].sawFirst =>
     prefill[r].at # 0 /\ prefill[r].at <= requests[r].firstToken

\* output_tokens is "已产出的 output token 数" (request_state.py:20): of a
\* complete request, all its tokens.
OutputTokensProduced ==
  \A r \in Req : requests[r].completed => requests[r].outputTokens = Len(engine[r].outputs)

\* "若本 step 完成 prefill (computed_after >= prompt_len) 且尚未 send -> 计
\* kv_send cost", of each request of a producer (virtual_model_runner.py:272-274).
SentWhenPrefilled ==
  IsProducer => \A r \in Req : prefill[r].at # 0 /\ ~ prefill[r].elsewhere => charges[r] # <<>>

\* "Consumer (kv_consumer / kv_both): ... 若 num_computed_tokens == prompt_len
\* ... 计 kv_recv cost" (virtual_model_runner.py:276-278).
ReceivedWhenPrefilled ==
  IsConsumer => \A r \in Req : prefill[r].elsewhere =>
     \E k \in DOMAIN charges[r] : charges[r][k].side = "recv"

\* At least one of these claims holds (virtual_model_runner.py,
\* kv_block_allocator.py, collector.py and request_state.py, as quoted).
SomeClaimHolds == \/ ReleasedWhenReported
                  \/ FirstTokenMeansPrefilled
                  \/ OutputTokensProduced
                  \/ SentWhenPrefilled
                  \/ ReceivedWhenPrefilled
=============================================================================
