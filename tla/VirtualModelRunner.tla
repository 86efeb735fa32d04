------------------------- MODULE VirtualModelRunner --------------------------
(***************************************************************************)
(* adapters/vllm/virtual_model_runner.py: what happens instead of a        *)
(* forward pass.  execute_step composes the extractor, the cost engine,    *)
(* the block ledger, the PD charges, the metrics and the fake tokens.      *)
(* The cost engine is a choice of latency here.                            *)
(***************************************************************************)
EXTENDS PDTransfer, MetricsCollector

CONSTANTS Latencies,        \* step costs the cost engine may return
          PrefillOverhead   \* prefill_worker_overhead_s

\* A step with tokens takes time: embedding and norms move bytes, and have no
\* measurement that could say otherwise.
ASSUME CostsOK == Latencies \subseteq Nat \ {0} /\ PrefillOverhead \in Nat

VARIABLE tracked            \* the keys of _request_states

runnerVars == <<allocVars, pdVars, metricsVars, tracked>>

RunnerInit == AllocInit /\ PDInit /\ MetricsInit /\ tracked = {}

\* Mutant: finished requests are kept.
UpdateRequestStatesKept(so) == tracked' = tracked \cup New(so)

\* _update_request_states: new requests first, then the finished ones go.
UpdateRequestStates(so) == tracked' = (tracked \cup New(so)) \ so.finished

\* A transfer lasts one unit per block in this model.
PDLatency == (pdTotals.blocks)' - pdTotals.blocks

\* A fake token: a function of the prompt the runner tracks and the number
\* of tokens generated before (FakeTokenGenerator.next_token, in the mode
\* that reads the prompt; the other one is constant).
NoPrompt == "no prompt"
Token(prompt, numGenerated) == <<prompt, numGenerated>>

\* Mutant: the prompt is looked up before the states are updated.
SampledTokensEarly(so) ==
  [r \in Scheduled(so) |-> Token(IF r \in tracked THEN r ELSE NoPrompt,
                                 IF r \in Cached(so) THEN so.cached[r].outputs ELSE 0)]
\* _build_model_runner_output: one token for every scheduled request.
SampledTokens(so) ==
  [r \in Scheduled(so) |->
     Token(IF r \in tracked' THEN r ELSE NoPrompt,
           IF r \in Cached(so) THEN so.cached[r].outputs ELSE 0)]

\* execute_step.  A step with no tokens returns before anything is updated.
EmptyStep(so) == TotalTokens(so) = 0 /\ UNCHANGED runnerVars

BusyStep(so) ==
  /\ TotalTokens(so) > 0
  /\ UpdateRequestStates(so)
  /\ AllocStep(so)
  /\ PDStep(so, tracked')
  /\ \E cost \in Latencies :
       LET workload == Extract(so, tracked')
           overhead == IF PrefillRequests(workload) = {} THEN 0 ELSE PrefillOverhead
       IN  RecordStep(workload, cost + overhead + PDLatency, so.finished)
=============================================================================
