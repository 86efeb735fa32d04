----------------------------- MODULE VllmEngine ------------------------------
(***************************************************************************)
(* vLLM's engine core, external to the repository, as its plugin sees it:  *)
(* requests arrive, are scheduled for some of their remaining tokens       *)
(* within a token budget, may be preempted (and computed again later) or   *)
(* aborted.  Finished requests are reported with the next step, which has  *)
(* no tokens when nothing else is left to run.  A request without chunked  *)
(* prefill is scheduled for all its remaining tokens at once.              *)
(***************************************************************************)
EXTENDS SchedulerOutput, Sequences

CONSTANTS Budget,         \* max_num_batched_tokens
          Chunked,        \* enable_chunked_prefill
          PrefixHits      \* token counts the prefix cache may provide

ASSUME EngineOK == /\ Budget \in Nat \ {0}
                   /\ Chunked \in BOOLEAN
                   /\ PrefixHits \subseteq Nat

VARIABLES engine,   \* per request: status, computed tokens, output tokens
          notify    \* finished requests not yet reported to the worker

engineVars == <<engine, notify>>

Statuses == {"unborn", "waiting", "running", "preempted", "finished"}

EngineInit ==
  /\ engine = [r \in Req |-> [status |-> "unborn", computed |-> 0, outputs |-> <<>>]]
  /\ notify = {}

With(s)     == {r \in Req : engine[r].status \in s}
Live        == With({"waiting", "running", "preempted"})
NumTokens(r) == PromptLen[r] + Len(engine[r].outputs)

Arrive(r) == /\ engine[r].status = "unborn"
             /\ engine' = [engine EXCEPT ![r].status = "waiting"]
             /\ UNCHANGED notify

Abort(r) == /\ r \in Live
            /\ engine' = [engine EXCEPT ![r].status = "finished"]
            /\ notify' = notify \cup {r}

\* Out of blocks: the youngest requests lose theirs.
Preempt(r) == /\ engine[r].status = "running"
              /\ engine' = [engine EXCEPT ![r].status = "preempted", ![r].computed = 0]
              /\ UNCHANGED notify

\* What may already be computed of a request that is (re)admitted: whole
\* blocks of the prefix cache, or, with a KV connector that receives, a prompt
\* prefilled elsewhere.
Admitted(r, external) ==
  {h \in PrefixHits : h % BlockSize = 0 /\ h < PromptLen[r]}
    \cup (IF external /\ engine[r].status = "waiting" THEN {PromptLen[r]} ELSE {})

\* Tokens a request may be scheduled for when computed of them are done.
Share(r, computed) ==
  LET rest == Larger(NumTokens(r) - computed, 1)
  IN  IF Chunked THEN 1..rest ELSE {rest}

\* The steps the scheduler may produce.  running are continued, admitted are
\* new or resumed; a resumed request is reported as cached.
NextOutputs(external) ==
  UNION {UNION {{[new      |-> [r \in {q \in S : engine[q].status = "waiting"} |-> start[r]],
                  cached   |-> [r \in {q \in S : engine[q].status # "waiting"} |->
                                  [computed |-> start[r], outputs |-> Len(engine[r].outputs)]],
                  ntok     |-> ntok,
                  finished |-> notify] :
                    ntok \in {n \in [S -> 1..Budget] :
                                /\ \A r \in S : n[r] \in Share(r, start[r])
                                /\ SumFunction(n) <= Budget}} :
           start \in {f \in [S -> UNION {Admitted(r, external) : r \in Req}
                                    \cup {engine[r].computed : r \in Req}] :
                        \A r \in S : IF engine[r].status = "running"
                                     THEN f[r] = engine[r].computed
                                     ELSE f[r] \in Admitted(r, external)}} :
         S \in SUBSET Live \ {{}}}

\* Nothing left to run: the step only carries the finished requests.
DrainOutput == [new |-> << >>, cached |-> << >>, ntok |-> << >>, finished |-> notify]

\* The engine takes in every token the runner returns (it leaves it to the
\* runner not to return one for a partial prefill) and finishes what reached
\* its length.
Progress(so, sampled) ==
  LET outputs(r) == Append(engine[r].outputs, sampled[r])
      full == {r \in Scheduled(so) : Len(outputs(r)) >= MaxTokens[r]}
  IN  /\ engine' = [r \in Req |->
           IF r \notin Scheduled(so) THEN engine[r]
           ELSE [status   |-> IF r \in full THEN "finished" ELSE "running",
                 computed |-> ComputedAfter(so, r),
                 outputs  |-> outputs(r)]]
      /\ notify' = full
=============================================================================
