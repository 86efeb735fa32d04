----------------------------- MODULE PDTransfer ------------------------------
(***************************************************************************)
(* Prefill/decode disaggregation in adapters/vllm/virtual_model_runner.py  *)
(* (_compute_pd_transfer_cost) and core/deployment/pd_disagg.py: when the  *)
(* KV cache of a request is charged as sent or received.  Bytes are        *)
(* counted in blocks: block_bytes is a constant factor.                    *)
(***************************************************************************)
EXTENDS KVBlockAllocator

CONSTANT Roles        \* the roles of a node: PDDisaggConfig.role

ASSUME RolesOK == Roles \subseteq {"none", "kv_producer", "kv_consumer", "kv_both"}

VARIABLES role,       \* fixed when the runner is built
          handled,    \* _pd_handled_reqs
          pdTotals    \* transferred blocks, steps with a transfer

pdVars == <<role, handled, pdTotals>>

IsProducer == role \in {"kv_producer", "kv_both"}
IsConsumer == role \in {"kv_consumer", "kv_both"}

PDInit == /\ role \in Roles
          /\ handled = {}
          /\ pdTotals = [blocks |-> 0, transfers |-> 0]

\* Mutants: a request is charged again when it is computed again; a prompt
\* is complete only when exceeded.
SendsAgain(so, tracked) ==
  IF ~ IsProducer THEN {}
  ELSE {r \in Scheduled(so) : /\ r \in Cached(so) => r \in tracked /\ so.ntok[r] > 1
                              /\ ComputedAfter(so, r) >= PromptLen[r]}
SendsLate(so, tracked) ==
  IF ~ IsProducer THEN {}
  ELSE {r \in Scheduled(so) \ handled :
          /\ r \in Cached(so) => r \in tracked /\ so.ntok[r] > 1
          /\ ComputedAfter(so, r) > PromptLen[r]}

\* Producer: a request whose prompt this step completes.  Of the requests
\* seen before, only those scheduled for more than one token are looked at,
\* and only if the runner still tracks their prompt.
Sends(so, tracked) ==
  IF ~ IsProducer THEN {}
  ELSE {r \in Scheduled(so) \ handled :
          /\ r \in Cached(so) => r \in tracked /\ so.ntok[r] > 1
          /\ ComputedAfter(so, r) >= PromptLen[r]}

\* Consumer: a new request whose prompt was computed elsewhere, unless the
\* producer path has just handled it.
Receives(so, tracked) ==
  IF ~ IsConsumer THEN {}
  ELSE {r \in New(so) \ (handled \cup Sends(so, tracked)) : so.new[r] >= PromptLen[r]}

\* The blocks charged to each transfer: those the ledger holds after this
\* step's bookings for a send, those of the prompt for a receive.
Charged(so, tracked) ==
  [r \in Sends(so, tracked) \cup Receives(so, tracked) |->
     IF r \in Sends(so, tracked) THEN [side |-> "send", blocks |-> reqBlocks'[r]]
                                 ELSE [side |-> "recv", blocks |-> BlocksNeeded(r)]]

\* _compute_pd_transfer_cost, called after the allocator's step unless the
\* node has no role.  A finished request is forgotten.
PDStep(so, tracked) ==
  LET charged == Charged(so, tracked)
  IN  IF role = "none" THEN UNCHANGED pdVars
      ELSE /\ handled' = (handled \cup DOMAIN charged) \ so.finished
           /\ pdTotals' =
                [blocks    |-> pdTotals.blocks
                                 + SumFunction([r \in DOMAIN charged |-> charged[r].blocks]),
                 transfers |-> pdTotals.transfers + (IF charged = << >> THEN 0 ELSE 1)]
           /\ UNCHANGED role
=============================================================================
