-------------------------- MODULE MetricsCollector ---------------------------
(***************************************************************************)
(* core/metrics/collector.py: simulated time and the life of each request  *)
(* on it.  Time is in abstract units.                                      *)
(***************************************************************************)
EXTENDS StepExtractor

VARIABLES simTime,    \* sim_time
          requests,   \* requests: RequestMetrics (seen: the entry exists)
          numSteps    \* len(step_records)

metricsVars == <<simTime, requests, numSteps>>

NoMetrics == [seen |-> FALSE, arrival |-> 0, sawFirst |-> FALSE, firstToken |-> 0,
              completed |-> FALSE, completion |-> 0, outputTokens |-> 0,
              latencies |-> 0, target |-> 0]

MetricsInit == /\ simTime = 0
               /\ requests = [r \in Req |-> NoMetrics]
               /\ numSteps = 0

\* Mutant: a chunk of a prompt is taken for its end.
ObservedChunk(rm, w, start, end) ==
  LET producedFirst == w.generated >= 1 \/ w.phase \in {DECODE, CHUNKED_PREFILL}
  IN  [rm EXCEPT !.seen = TRUE, !.arrival = IF rm.seen THEN @ ELSE start,
                 !.sawFirst = @ \/ producedFirst,
                 !.firstToken = IF ~ rm.sawFirst /\ producedFirst THEN end ELSE @,
                 !.outputTokens = Larger(@, w.generated), !.latencies = @ + 1,
                 !.target = Larger(@, w.target)]
\* The entry of a request that the step ran: created on first sight, its
\* first token taken from the tokens it had before the step or its phase.
Observed(rm, w, start, end) ==
  LET producedFirst == w.generated >= 1 \/ w.phase = DECODE
  IN  [rm EXCEPT !.seen = TRUE,
                 !.arrival = IF rm.seen THEN @ ELSE start,
                 !.sawFirst = @ \/ producedFirst,
                 !.firstToken = IF ~ rm.sawFirst /\ producedFirst THEN end ELSE @,
                 !.outputTokens = Larger(@, w.generated),
                 !.latencies = @ + 1,
                 !.target = Larger(@, w.target)]

\* The entry of a request reported finished.
Completed(rm, end) ==
  IF ~ rm.seen \/ rm.completed THEN rm
  ELSE [rm EXCEPT !.completion = end, !.completed = TRUE]

\* MetricsCollector.record_step
RecordStep(workload, latency, finished) ==
  LET end == simTime + latency
      observed == [r \in Req |->
                     IF r \in DOMAIN workload
                     THEN Observed(requests[r], workload[r], simTime, end)
                     ELSE requests[r]]
  IN  /\ requests' = [r \in Req |-> IF r \in finished THEN Completed(observed[r], end)
                                                     ELSE observed[r]]
      /\ simTime' = end
      /\ numSteps' = numSteps + 1
=============================================================================
