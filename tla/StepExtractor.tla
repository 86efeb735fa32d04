---------------------------- MODULE StepExtractor ----------------------------
(***************************************************************************)
(* adapters/vllm/step_extractor.py: from a SchedulerOutput to the          *)
(* framework-free workload of the step.  The extractor has no state.       *)
(***************************************************************************)
EXTENDS SchedulerOutput

PREFILL == "prefill"
CHUNKED_PREFILL == "chunked_prefill"
DECODE == "decode"

\* A request seen for the first time: the part of the prompt this step
\* leaves out makes it a chunk.
NewWorkload(so, r) ==
  LET remainingPrompt == Larger(PromptLen[r] - so.new[r], 0)
  IN  [phase     |-> IF so.ntok[r] < remainingPrompt THEN CHUNKED_PREFILL ELSE PREFILL,
       tokens    |-> so.ntok[r],
       context   |-> so.new[r] + so.ntok[r],
       generated |-> 0,
       target    |-> MaxTokens[r]]

\* A request seen before: one token is a decode, more are prompt.  Its
\* target length comes from the runner's request states.
CachedWorkload(so, r, tracked) ==
  [phase     |-> IF so.ntok[r] > 1 THEN CHUNKED_PREFILL ELSE DECODE,
   tokens    |-> so.ntok[r],
   context   |-> so.cached[r].computed + so.ntok[r],
   generated |-> so.cached[r].outputs,
   target    |-> IF r \in tracked THEN MaxTokens[r] ELSE 0]

Extract(so, tracked) ==
  [r \in Scheduled(so) |-> IF r \in New(so) THEN NewWorkload(so, r)
                                            ELSE CachedWorkload(so, r, tracked)]

PrefillRequests(workload) ==
  {r \in DOMAIN workload : workload[r].phase \in {PREFILL, CHUNKED_PREFILL}}
=============================================================================
