--------------------------- MODULE SchedulerOutput ---------------------------
(***************************************************************************)
(* What vLLM's scheduler hands the virtual worker at each step, as         *)
(* adapters/vllm/step_extractor.py, virtual_model_runner.py and            *)
(* kv_block_allocator.py read it:                                          *)
(*   so.new       scheduled_new_reqs: request -> tokens already computed   *)
(*   so.cached    scheduled_cached_reqs: request -> computed and output    *)
(*                tokens (the parallel arrays)                             *)
(*   so.ntok      num_scheduled_tokens                                     *)
(*   so.finished  finished_req_ids                                         *)
(* The code treats the requests of a step independently of their order.    *)
(***************************************************************************)
EXTENDS Integers, FiniteSets, Functions

CONSTANTS Req,        \* request ids; an id is never used twice
          PromptLen,  \* tokens in the prompt of a request
          MaxTokens,  \* sampling_params.max_tokens of a request
          BlockSize   \* cache_config.block_size

ASSUME RequestsOK == /\ IsFiniteSet(Req)
                     /\ PromptLen \in [Req -> Nat \ {0}]
                     /\ MaxTokens \in [Req -> Nat \ {0}]
                     /\ BlockSize \in Nat \ {0}

New(so)       == DOMAIN so.new
Cached(so)    == DOMAIN so.cached
Scheduled(so) == DOMAIN so.ntok

\* total_num_scheduled_tokens
TotalTokens(so) == SumFunction(so.ntok)

\* Tokens of the request that are computed once the step has run.
ComputedAfter(so, r) ==
  so.ntok[r] + (IF r \in New(so) THEN so.new[r] ELSE so.cached[r].computed)

\* kv_block_allocator._ceil_div
CeilDiv(a, b) == IF b <= 0 THEN 0 ELSE -((-a) \div b)

Larger(a, b) == IF a < b THEN b ELSE a
=============================================================================
