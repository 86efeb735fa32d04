------------------------------ MODULE StepShape ------------------------------
(***************************************************************************)
(* core/workload/workload.py, core/step/step_shape.py and                  *)
(* core/step/runtime.py: what the operators of a model see of a step.  A   *)
(* workload is what StepExtractor!Extract returns.                         *)
(***************************************************************************)
EXTENDS StepExtractor, FiniteSetsExt

MIXED == "mixed"

DecodeRequests(workload) == DOMAIN workload \ PrefillRequests(workload)

TokensOf(workload, requests) ==
  SumFunctionOnSet([r \in DOMAIN workload |-> workload[r].tokens], requests)

\* The phase of a step follows from its tokens, not from its requests.
StepPhase(workload) ==
  LET prefillTokens == TokensOf(workload, PrefillRequests(workload))
      decodeTokens  == TokensOf(workload, DecodeRequests(workload))
  IN  CASE prefillTokens > 0 /\ decodeTokens > 0 -> MIXED
        [] prefillTokens > 0 /\ decodeTokens = 0 -> PREFILL
        [] OTHER                                 -> DECODE

MaxContextLen(workload) == Max({workload[r].context : r \in DOMAIN workload} \union {0})

ContextsOf(workload, requests) ==
  SumFunctionOnSet([r \in DOMAIN workload |-> workload[r].context], requests)

AvgDecodeContextLen(workload) ==
  LET decodes == DecodeRequests(workload)
  IN  IF decodes = {} THEN 0
      ELSE ContextsOf(workload, decodes) \div Cardinality(decodes)

\* Mutant: the shortest prefill stands for all of them.
MinPrefillSeqlen(workload) ==
  LET lengths == {workload[r].tokens : r \in PrefillRequests(workload)}
  IN  IF lengths = {} THEN 0 ELSE Min(lengths)

MaxPrefillSeqlen(workload) ==
  Max({workload[r].tokens : r \in PrefillRequests(workload)} \union {0})

\* StepShape.from_workload; StepRuntime.from_step copies it.
ShapeOf(workload) ==
  LET prefills == PrefillRequests(workload)
      decodes  == DecodeRequests(workload)
  IN  [phase           |-> StepPhase(workload),
       totalTokens     |-> TokensOf(workload, DOMAIN workload),
       prefillTokens   |-> TokensOf(workload, prefills),
       decodeTokens    |-> TokensOf(workload, decodes),
       prefillRequests |-> Cardinality(prefills),
       decodeRequests  |-> Cardinality(decodes),
       maxContext      |-> MaxContextLen(workload),
       maxPrefill      |-> MaxPrefillSeqlen(workload),
       avgContext      |-> AvgDecodeContextLen(workload)]
=============================================================================
