------------------------------- MODULE Pricing -------------------------------
(***************************************************************************)
(* core/cost/engine.py, router.py and backends/operator_db.py: a step of a *)
(* deployment is priced by the operator graph of its model, each operator  *)
(* by the operator database or by the roofline, while the collector goes   *)
(* on writing the files and the store is loaded again.                     *)
(***************************************************************************)
EXTENDS OperatorStore

CONSTANTS Deployments,   \* the deployments considered
          Steps,         \* the scheduler outputs considered
          Policies,      \* CostPolicy: [mode, db, fallback]
          Measured(_,_)  \* bound: the cases that are measured for a deployment

\* The dimensions of a model (ModelProfile); those it does not have are 0.
Dimensions == {"layers", "heads", "kvHeads", "headDim", "ffn", "vocab", "hidden", "experts",
               "topk", "expertDim", "shared", "qLora", "kvLora", "nope", "rope", "vDim"}

\* An expert-parallel group has all ranks of a tensor-parallel one or is not
\* used (profile_extractor.py:62-63).
ASSUME DeploymentsOK ==
  \A d \in Deployments :
    /\ Dimensions \cup {"tp", "ep", "firstMoe", "moeFreq"} \subseteq DOMAIN d
    /\ \A dim \in Dimensions : d[dim] \in Nat
    /\ {d.tp, d.ep, d.headDim, d.hardware.memory.onchip} \subseteq Nat \ {0}
    /\ d.ep = 1 \/ d.ep % d.tp = 0
    /\ d.mode \in Modes
    /\ d.distribution \in {"balanced", "power_law"}

\* A scheduler hands out no request without a token to compute.
ASSUME StepsOK ==
  \A so \in Steps :
    /\ IsFiniteSet(Scheduled(so))
    /\ \A r \in Scheduled(so) :
         /\ so.ntok[r] \in Nat \ {0}
         /\ IF r \in New(so) THEN so.new[r] \in Nat ELSE so.cached[r].computed \in Nat

\* The roofline has a price for every operator of a step it can be asked about.
ASSUME RooflineOK ==
  \A d \in Deployments, so \in Steps :
    LET s    == ShapeOf(Extract(so, Req))
        plan == PlanOf(d, s)
    IN  Builds(d, s) => \A i \in DOMAIN plan : RooflinePrice(d, plan[i].op) \in Nat

VARIABLES deployment,    \* the deployment; fixed
          estimate       \* the last estimate since the store changed

vars == <<storeVars, deployment, estimate>>

NoEstimate == [outcome |-> "none", workload |-> << >>, policy |-> << >>,
               sources |-> {}, total |-> 0]

Init ==
  /\ StoreInit
  /\ deployment \in Deployments
  /\ estimate = NoEstimate

-----------------------------------------------------------------------------
(* router.py                                                               *)

\* Mutant: what is looked up carries the version of the database.
KeyOfPartition(op) == OpSignature([deployment EXCEPT !.version = DbVersion], op)

\* The signature OperatorDBBackend.estimate looks up.
Key(op) == OpSignature(deployment, op)

Hit(op) == HasSignature(op) /\ Key(op) \in DOMAIN store

\* Mutant: require_operator_db falls back like operator_db_first.
MayFallBackAlways(policy) == policy.mode = "roofline_only" \/ policy.fallback

MayFallBack(policy) ==
  \/ policy.mode = "roofline_only"
  \/ policy.mode = "operator_db_first" /\ policy.fallback

\* _estimate_op: where the price of an operator comes from; "none" is a
\* LookupError.
SourceOf(policy, op) ==
  CASE policy.mode # "roofline_only" /\ policy.db /\ Hit(op) -> "operator_db"
    [] MayFallBack(policy)                                   -> "roofline"
    [] OTHER                                                 -> "none"

PriceOf(policy, op) ==
  IF SourceOf(policy, op) = "operator_db" THEN store[Key(op)]
                                          ELSE RooflinePrice(deployment, op)

\* _scale_entry
NodePrice(policy, node) == PriceOf(policy, node.op) * node.count

PlanPrice(policy, plan) == SumFunction([i \in DOMAIN plan |-> NodePrice(policy, plan[i])])

-----------------------------------------------------------------------------
(* engine.py and what happens around it                                    *)

\* estimate raises with the first operator that has no price.
Refused(sources) == "none" \in sources

\* StepCostEngine.estimate: what it returns or raises.
EstimateOf(so, policy) ==
  LET workload == Extract(so, Req)
      shape    == ShapeOf(workload)
      plan     == PlanOf(deployment, shape)
      sources  == {SourceOf(policy, plan[i].op) : i \in DOMAIN plan}
      Outcome(outcome, used, total) ==
        [outcome |-> outcome, workload |-> workload, policy |-> policy,
         sources |-> used, total |-> total]
  IN  CASE ~ Builds(deployment, shape) -> Outcome("NotImplementedError", {}, 0)
        [] Builds(deployment, shape) /\ Refused(sources) -> Outcome("LookupError", {}, 0)
        [] OTHER -> Outcome("priced", sources, PlanPrice(policy, plan))

\* It depends on nothing an estimate changes: bound, one estimate between two
\* changes of the store.
Estimate(so, policy) ==
  /\ estimate = NoEstimate
  /\ estimate' = EstimateOf(so, policy)
  /\ UNCHANGED <<storeVars, deployment>>

\* The collector measures a case of the deployment's model, or dies writing
\* its record, or a line of another schema gets into a file.
Collect ==
  /\ \/ \E case \in {c \in CasesOf(deployment) : Measured(deployment, c)} :
          \/ \E price \in Prices :
               AppendLine(case.kind, Record(CaseSignature(case, DbVersion), price))
          \/ TearLine(case.kind)
     \/ AppendLine("attention", FOREIGN)
  /\ estimate' = NoEstimate
  /\ UNCHANGED deployment

Load(ignoreMismatch) ==
  /\ LoadPartition(deployment.version, ignoreMismatch)
  /\ estimate' = NoEstimate
  /\ UNCHANGED deployment

Next ==
  \/ \E so \in Steps, policy \in Policies : Estimate(so, policy)
  \/ Collect
  \/ \E ignoreMismatch \in BOOLEAN : Load(ignoreMismatch)

Spec == Init /\ [][Next]_vars

-----------------------------------------------------------------------------
(* Properties                                                              *)

Priced == estimate.outcome = "priced"

StepShapeOf == ShapeOf(estimate.workload)

OpsOf(plan) == {plan[i].op : i \in DOMAIN plan}

\* The plan of the last estimate of a step the model has a graph for.
Plan == PlanOf(deployment, StepShapeOf)
HasPlan == estimate.outcome \in {"priced", "LookupError"}

\* The query-key pairs of a prefill, one by one: a token attends to itself and
\* to all its request holds before it, what earlier steps computed included.
CausalPairSet(tokens, context) ==
  {pair \in (context - tokens + 1..context) \X (1..context) : pair[2] <= pair[1]}

\* Keys a blocked prefill reads: each block of query rows reads the keys up
\* to its last row.
KeysRead(tokens, context, rows) ==
  SumFunction([block \in 1..CeilDiv(tokens, rows) |->
                 context - tokens + Smaller(block * rows, tokens)])

\* What the prefills of the step do, request by request, and what of it is
\* attention to earlier steps' tokens.
PrefillPairs(w) ==
  SumFunctionOnSet([r \in DOMAIN w |-> Cardinality(CausalPairSet(w[r].tokens, w[r].context))],
                   PrefillRequests(w))
EarlierPairs(w) ==
  SumFunctionOnSet([r \in DOMAIN w |-> w[r].tokens * (w[r].context - w[r].tokens)],
                   PrefillRequests(w))
PrefillReads(w, rows) ==
  SumFunctionOnSet([r \in DOMAIN w |-> KeysRead(w[r].tokens, w[r].context, rows)],
                   PrefillRequests(w))
EarlierReads(w, rows) ==
  SumFunctionOnSet([r \in DOMAIN w |->
                      CeilDiv(w[r].tokens, rows) * (w[r].context - w[r].tokens)],
                   PrefillRequests(w))

\* A flash-attention prefill is charged too little by exactly the attention to
\* what earlier steps or the prefix cache hold (a mixed step records it as
\* kv_prefill, attention.py:173, a pure one not at all; the work of neither
\* counts it, attention.py:204-213), and too
\* much where requests are padded to the longest.  Prompts that start at their
\* first token and are of one length are charged what the kernel does: the
\* flops are those of the pairs under the causal mask, and the traffic of keys
\* and values is what the blocks read, less at most half a block's worth for
\* each block when the last one is not full.
PrefillWorkAccounted(a) ==
  LET w    == estimate.workload
      part == a.parts[1]
      work == FlashPrefillWork(deployment, a, part)
      rows == BlockRows(deployment, a.head_dim)
      pair == (4 * a.head_dim + 5) * a.num_q_heads
      key  == 2 * a.head_dim * a.num_kv_heads
      kv   == work.bytes - 3 * part.q_len * part.num_seqs * a.head_dim * a.num_q_heads
  IN  /\ work.flops + pair * EarlierPairs(w) >= pair * PrefillPairs(w)
      /\ (\A r \in PrefillRequests(w) : w[r].tokens = part.q_len) =>
           /\ work.flops + pair * EarlierPairs(w) = pair * PrefillPairs(w)
           /\ kv + key * EarlierReads(w, rows) <= key * PrefillReads(w, rows)
           /\ part.q_len % rows = 0 =>
                kv + key * EarlierReads(w, rows) = key * PrefillReads(w, rows)

\* The experts hit by a balanced batch: the mean over every choice of topk
\* experts by every token (enumerated for at most three tokens).
ExpertsHitExact(tokens) ==
  LET choices == [1..tokens -> kSubset(deployment.topk, 1..deployment.experts)]
      hit     == SumFunction([choice \in choices |-> Cardinality(UNION Range(choice))])
      mean    == DistinctExperts(deployment, tokens)
  IN  mean.over * Cardinality(choices) = hit * mean.under

\* The flash-attention prefills of a step are charged their own tokens' work.
PrefillsAccounted ==
  HasPlan =>
    \A op \in OpsOf(Plan) :
      op.kind = "attention" /\ op.shape.subtype # DECODE => PrefillWorkAccounted(op.shape)

\* Routed experts are charged for the experts a balanced batch hits.
ExpertsExact ==
  HasPlan =>
    \A op \in OpsOf(Plan) :
      op.kind = "moe" /\ op.shape.num_tokens <= 3 => ExpertsHitExact(op.shape.num_tokens)

\* The closed forms the roofline takes its work from, against the kernels
\* request by request and token by token (core/operators/attention.py, moe.py):
\* of a prefill nothing is missing but its context, of the experts nothing.
WorkAccounted == PrefillsAccounted /\ ExpertsExact

\* A step is priced from six aggregates of its requests.  They bound what the
\* requests do: a prefill padded to the longest one holds every prompt token,
\* the decodes at their average context read as many keys as they have, less
\* than one each rounded away, and the output head sees at most one row per
\* request, all of them unless the step mixes phases.
RowsCoverStep ==
  estimate.outcome # "none" =>
    LET w        == estimate.workload
        s        == StepShapeOf
        contexts == ContextsOf(w, DecodeRequests(w))
        rows     == LmHeadRows(s)
    IN  /\ s.totalTokens = SumFunction([r \in DOMAIN w |-> w[r].tokens])
        /\ s.prefillRequests * s.maxPrefill >= s.prefillTokens
        /\ s.avgContext * s.decodeRequests <= contexts
        /\ s.decodeRequests > 0 => contexts < (s.avgContext + 1) * s.decodeRequests
        /\ rows <= Cardinality(DOMAIN w)
        /\ s.phase # MIXED => rows = Cardinality(DOMAIN w)

UniformRouting == \A i, j \in LayersOf(deployment) :
                    SkewForLayer(deployment, i) = SkewForLayer(deployment, j)

\* Layers that are alike are priced once and multiplied.  The total is that of
\* every layer priced by itself, wherever its operators' prices come from, as
\* long as all layers route alike.
StepCostsItsLayers ==
  Priced /\ UniformRouting =>
    LET Cost(ops) == SumFunction([i \in DOMAIN ops |-> PriceOf(estimate.policy, ops[i])])
        s         == StepShapeOf
    IN  estimate.total =
          Cost(EmbeddingOps(deployment, s)) + Cost(LmHeadOps(deployment, s))
            + SumFunction([layer \in LayersOf(deployment) |->
                             Cost(AttentionOps(deployment, s))
                               + Cost(FfnOps(deployment, s, layer))])

\* Operators whose inputs and outputs every rank holds in full.
Replicated == {"embedding", "attn_norm", "mlp_norm", "attn_add", "mlp_add", "moe_gate",
               "moe_topk", "q_a_proj", "kv_a_proj_with_mqa"}

RanksOf(op) ==
  CASE op.name \in Replicated       -> 1
    [] op.name = "routed_experts"   -> Larger(deployment.tp, deployment.ep)
    [] OTHER                        -> deployment.tp

\* What is sharded divides evenly.  Nothing in core/ asks for it: where key
\* heads are fewer than ranks, KvHeadsPerRank is none.  The work of experts is
\* divided as a product, which divides when the model's width does.
Divides ==
  /\ \A dim \in {"heads", "kvHeads", "ffn", "vocab", "expertDim"} :
       deployment[dim] % deployment.tp = 0
  /\ deployment.hidden % deployment.ep = 0

\* The same model on one rank.
Whole == [deployment EXCEPT !.tp = 1, !.ep = 1]

\* Where the operators are that a rank does by itself, and the place of one
\* among them.
LocalAt(plan)   == {i \in DOMAIN plan : plan[i].op.kind \notin {"collective", "moe_dispatch"}}
Place(local, i) == Cardinality({j \in local : j <= i})

\* The ranks share the work of the model on one rank: what is sharded adds up
\* to the whole, with nothing done twice or left out, and what is replicated
\* is the same on each.
RanksShareTheWork ==
  HasPlan /\ Divides =>
    LET mine   == Plan
        all    == PlanOf(Whole, StepShapeOf)
        myOps  == LocalAt(mine)
        allOps == LocalAt(all)
    IN  /\ Cardinality(myOps) = Cardinality(allOps)
        /\ \A i \in myOps, j \in allOps :
             Place(myOps, i) = Place(allOps, j) =>
               /\ mine[i].count = all[j].count
               /\ WorkOf(deployment, mine[i].op).flops * RanksOf(mine[i].op)
                    = WorkOf(Whole, all[j].op).flops

\* Operators that contract a dimension the ranks share: each rank has a
\* partial sum of its output.
Contracting == {"o_proj", "down_proj", "shared_expert_down", "routed_experts"}

\* Every partial sum is reduced once, over the ranks that hold a part of it,
\* before anything else uses it.
PartialSumsReduced ==
  HasPlan =>
    LET plan == Plan
    IN  \A i \in DOMAIN plan :
          LET op   == plan[i].op
              next == plan[i + 1]
          IN  op.name \in Contracting /\ RanksOf(op) > 1 =>
                /\ next.op.kind \in {"collective", "moe_dispatch"}
                /\ next.op.shape.message_bytes = StepShapeOf.totalTokens * deployment.hidden
                /\ next.op.shape.world_size = RanksOf(op)
                /\ next.count = plan[i].count

\* What the collector measures of the deployment: see ContractKept.
InContract(op) ==
  LET d == deployment
  IN  CASE op.kind = "gemm" ->
             /\ ArchOf(d) # "deepseek" /\ d.tp \in TpSizes /\ op.shape.m \in Points
             /\ \/ op.name = "qkv_proj" /\ d.heads % d.tp = 0 /\ d.kvHeads % d.tp = 0
                \/ op.name = "o_proj" /\ d.heads % d.tp = 0
                \/ /\ op.name \in {"gate_up_proj", "down_proj"}
                   /\ ~ IsMoE(d) /\ d.ffn > 0 /\ d.ffn % d.tp = 0
                \/ op.name = "lm_head" /\ d.tp = 1
        [] op.kind = "attention" ->
             /\ d.tp \in TpSizes /\ d.tp <= d.kvHeads /\ d.heads % d.tp = 0
             /\ d.blockSize = MeasuredBlockSize
             /\ \/ op.shape.subtype = PREFILL /\ op.shape.parts[1].num_seqs = 1
                \/ op.shape.subtype = DECODE
             /\ {op.shape.parts[1].num_seqs, op.shape.parts[1].kv_len} \subseteq Points
        [] op.kind = "moe" ->
             /\ d.mode = "cudagraph" /\ op.shape.num_tokens \in Points
             /\ d.ep <= d.experts
             /\ <<IF d.ep = 1 THEN d.tp ELSE 1, d.ep>> \in MoeParallel
        [] OTHER -> FALSE

\* The contract of core/operator_schema/signature.py: an operator of a model
\* within the collector's sweep has the signature of one of its cases, computed
\* from other inputs by other code.  Outside it is what InContract leaves out:
\* all collectives, gates, shared experts, DeepSeek's projections, a sharded
\* output head, replicated key heads, batched prefills and mixed steps are
\* never found; where a dimension does not divide, the two sides round apart.
ContractKept ==
  HasPlan =>
    LET filed == {CaseSignature(c, deployment.version) : c \in CasesOf(deployment)}
    IN  \A op \in {o \in OpsOf(Plan) : InContract(o)} : Key(op) \in filed

\* A measured price was measured under the very version the deployment runs,
\* also when ignore_version_mismatch let the files of another one in.
VersionIsolated == "operator_db" \in estimate.sources => deployment.version = DbVersion

\* A policy that may not fall back never returns a price: every plan has
\* operators no measurement can answer for, and none of them is passed over.
NoSilentFallback ==
  Priced => \/ estimate.policy.mode = "roofline_only"
            \/ estimate.policy.mode = "operator_db_first" /\ estimate.policy.fallback

\* A load that returns has put every record of every file in the store, each
\* signature at the price of its last line, whatever loads before it left there.
LoadsEveryRecord ==
  [][ (\E ignoreMismatch \in BOOLEAN : Load(ignoreMismatch)) /\ raised' = "" =>
        \A k \in Kinds : \A i \in DOMAIN files[k] :
          LET line     == files[k][i]
              repeated == \E j \in DOMAIN files[k] :
                            j > i /\ IsRecord(files[k][j]) /\ files[k][j].sig = line.sig
          IN  IsRecord(line) /\ ~ repeated =>
                line.sig \in DOMAIN store' /\ store'[line.sig] = line.price
    ]_vars

\* "keep tolerant so partial JSONL doesn't break load" (jsonl.py:43-44).
PartialFilesLoad == raised # "JSONDecodeError"
=============================================================================
