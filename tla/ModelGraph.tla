------------------------------ MODULE ModelGraph ------------------------------
(***************************************************************************)
(* core/models/: the operator graphs of the three registered models and    *)
(* the plan of a step.  A plan is a sequence of nodes [op, count]: layers  *)
(* that are alike are one node with a count.  Qwen's graphs are built once *)
(* and bound by forward(), DeepSeek's at each step; both are written here  *)
(* as functions of the deployment d and the step's shape s.                *)
(***************************************************************************)
EXTENDS Operators, SequencesExt

Times(ops, count) == [i \in DOMAIN ops |-> [op |-> ops[i], count |-> count]]

(***************************************************************************)
(* Layers.  ModelProfile.is_moe_layer, partition_ffn_layers.               *)
(***************************************************************************)
LayersOf(d) == 0 .. d.layers - 1

IsMoE(d) == d.experts > 0

IsMoeLayer(d, i) ==
  /\ IsMoE(d)
  /\ i >= d.firstMoe
  /\ (i - d.firstMoe) % d.moeFreq = 0

\* The layers of each kind are one bucket.
MoeLayers(d)   == {i \in LayersOf(d) : IsMoeLayer(d, i)}
DenseLayers(d) == LayersOf(d) \ MoeLayers(d)

\* MoERoutingProfile.get_skew_for_layer
SkewForLayer(d, i) == IF i < Len(d.layerSkews) THEN d.layerSkews[i + 1] ELSE d.skew

(***************************************************************************)
(* What is sharded over the tensor-parallel ranks.                         *)
(***************************************************************************)
HeadsPerRank(d)   == d.heads \div d.tp
KvHeadsPerRank(d) == d.kvHeads \div d.tp
FfnPerRank(d)     == d.ffn \div d.tp
SharedPerRank(d)  == (d.expertDim * d.shared) \div d.tp

TpAllReduce(name, d, s, source) == AllReduce(name, s.totalTokens * d.hidden, d.tp, source)

\* One row per request whose next token is sampled.  A step that mixes
\* phases counts the decodes only.
LmHeadRows(s) == IF s.phase = PREFILL THEN Larger(s.prefillRequests, 1) ELSE s.decodeRequests

EmbeddingOps(d, s) == <<Embedding(s.totalTokens, d.vocab, d.hidden)>>
LmHeadOps(d, s)    == <<GEMM("lm_head", LmHeadRows(s), d.vocab \div d.tp, d.hidden)>>

(***************************************************************************)
(* qwen3.py and qwen3_moe.py                                               *)
(***************************************************************************)
QwenReduce(name, d, s) == TpAllReduce(name, d, s, "torch_dist_nccl")

QwenAttentionOps(d, s) ==
  LET T  == s.totalTokens
      nq == HeadsPerRank(d)
      nk == KvHeadsPerRank(d)
  IN  <<Norm("attn_norm", T * d.hidden),
        GEMM("qkv_proj", T, (nq + 2 * nk) * d.headDim, d.hidden),
        ElementWise("rope", T * (nq + nk) * d.headDim)>>
      \o FlashAttention(nq, nk, d.headDim, s)
      \o <<GEMM("o_proj", T, d.hidden, nq * d.headDim)>>
      \o QwenReduce("tp_o_proj_allreduce", d, s)
      \o <<ElementWise("attn_add", T * d.hidden)>>

\* Mutant: the input of down_proj is not sharded.
QwenDenseFfnOpsWhole(d, s) ==
  LET T == s.totalTokens
  IN  <<Norm("mlp_norm", T * d.hidden),
        GEMM("gate_up_proj", T, 2 * FfnPerRank(d), d.hidden),
        ElementWise("mlp_act", T * FfnPerRank(d)),
        GEMM("down_proj", T, d.hidden, d.ffn)>>
      \o QwenReduce("tp_down_proj_allreduce", d, s)
      \o <<ElementWise("mlp_add", T * d.hidden)>>

QwenDenseFfnOps(d, s) ==
  LET T == s.totalTokens
  IN  <<Norm("mlp_norm", T * d.hidden),
        GEMM("gate_up_proj", T, 2 * FfnPerRank(d), d.hidden),
        ElementWise("mlp_act", T * FfnPerRank(d)),
        GEMM("down_proj", T, d.hidden, FfnPerRank(d))>>
      \o QwenReduce("tp_down_proj_allreduce", d, s)
      \o <<ElementWise("mlp_add", T * d.hidden)>>

QwenSharedExpertOps(d, s) ==
  LET T == s.totalTokens
  IN  <<GEMM("shared_expert_up_gate", T, 2 * SharedPerRank(d), d.hidden),
        ElementWise("shared_expert_act", T * SharedPerRank(d)),
        GEMM("shared_expert_down", T, d.hidden, SharedPerRank(d))>>
      \o QwenReduce("shared_expert_allreduce", d, s)

QwenMoeFfnOps(d, s, layer) ==
  LET T == s.totalTokens
  IN  <<Norm("mlp_norm", T * d.hidden),
        Router(T, d.experts, d.hidden),
        ElementWise("moe_topk", T * d.experts),
        MoEDispatch(d, "moe_dispatch_pre", TRUE, T),
        MoE(d, T, SkewForLayer(d, layer)),
        MoEDispatch(d, "moe_dispatch_post", FALSE, T)>>
      \o (IF d.shared > 0 THEN QwenSharedExpertOps(d, s) ELSE <<>>)
      \o <<ElementWise("mlp_add", T * d.hidden)>>

(***************************************************************************)
(* deepseek.py                                                             *)
(***************************************************************************)
DeepSeekReduce(name, d, s) == TpAllReduce(name, d, s, "vllm_default")

MlaAttentionOps(d, s) ==
  LET T     == s.totalTokens
      heads == HeadsPerRank(d)
      qDim  == heads * QkHeadDim(d)
  IN  <<Norm("attn_norm", T * d.hidden)>>
      \o (IF d.qLora > 0 THEN <<GEMM("q_a_proj", T, d.qLora, d.hidden),
                                GEMM("q_b_proj", T, qDim, d.qLora)>>
                         ELSE <<GEMM("q_proj", T, qDim, d.hidden)>>)
      \o <<GEMM("kv_a_proj_with_mqa", T, KvLatentDim(d), d.hidden),
           GEMM("kv_b_proj", T, heads * (d.nope + d.vDim), d.kvLora),
           MLAAttention(d, heads, s),
           GEMM("o_proj", T, d.hidden, heads * d.vDim)>>
      \o DeepSeekReduce("attn_allreduce", d, s)
      \o <<ElementWise("attn_add", T * d.hidden)>>

DeepSeekDenseFfnOps(d, s) ==
  LET T   == s.totalTokens
      ffn == FfnPerRank(d)
  IN  <<Norm("mlp_norm", T * d.hidden), GEMM("gate_up_proj", T, 2 * ffn, d.hidden),
        ElementWise("mlp_act", T * ffn), GEMM("down_proj", T, d.hidden, ffn)>>
      \o DeepSeekReduce("mlp_allreduce", d, s)
      \o <<ElementWise("mlp_add", T * d.hidden)>>

DeepSeekSharedExpertOps(d, s) ==
  LET T      == s.totalTokens
      shared == SharedPerRank(d)
  IN  <<GEMM("shared_expert_up_gate", T, 2 * shared, d.hidden),
        ElementWise("shared_expert_act", T * shared),
        GEMM("shared_expert_down", T, d.hidden, shared)>>
      \o DeepSeekReduce("shared_expert_allreduce", d, s)

DeepSeekMoeFfnOps(d, s, layer) ==
  LET T == s.totalTokens
  IN  <<Norm("mlp_norm", T * d.hidden), Router(T, d.experts, d.hidden),
        ElementWise("moe_topk", T * d.experts), MoEDispatch(d, "moe_dispatch_pre", TRUE, T),
        MoE(d, T, SkewForLayer(d, layer)), MoEDispatch(d, "moe_dispatch_post", FALSE, T)>>
      \o (IF d.shared > 0 THEN DeepSeekSharedExpertOps(d, s) ELSE <<>>)
      \o <<ElementWise("mlp_add", T * d.hidden)>>

(***************************************************************************)
(* registry.py: which graph a profile gets; _build_ops: its plan.          *)
(***************************************************************************)
ArchOf(d) == IF d.kvLora > 0 THEN "deepseek"
             ELSE IF IsMoE(d) THEN "qwen3_moe" ELSE "qwen3"

AttentionOps(d, s) ==
  IF ArchOf(d) = "deepseek" THEN MlaAttentionOps(d, s) ELSE QwenAttentionOps(d, s)

FfnOps(d, s, layer) ==
  CASE ArchOf(d) = "deepseek" /\ ~IsMoeLayer(d, layer) -> DeepSeekDenseFfnOps(d, s)
    [] ArchOf(d) = "deepseek" /\ IsMoeLayer(d, layer)  -> DeepSeekMoeFfnOps(d, s, layer)
    [] ArchOf(d) # "deepseek" /\ ~IsMoeLayer(d, layer) -> QwenDenseFfnOps(d, s)
    [] ArchOf(d) # "deepseek" /\ IsMoeLayer(d, layer)  -> QwenMoeFfnOps(d, s, layer)

\* _build_mla_attention raises NotImplementedError on a step of both phases.
Builds(d, s) == ArchOf(d) = "deepseek" => s.phase # MIXED

\* Mutant: a bucket of layers is priced as one.
BucketNodesOnce(d, s, layers) ==
  IF layers = {} THEN <<>> ELSE Times(FfnOps(d, s, Min(layers)), 1)

\* The first layer of a bucket stands for all of them; an empty one is left out.
BucketNodes(d, s, layers) ==
  IF layers = {} THEN <<>> ELSE Times(FfnOps(d, s, Min(layers)), Cardinality(layers))

PlanOf(d, s) ==
  Times(EmbeddingOps(d, s), 1)
  \o Times(AttentionOps(d, s), d.layers)
  \o BucketNodes(d, s, DenseLayers(d))
  \o BucketNodes(d, s, MoeLayers(d))
  \o Times(LmHeadOps(d, s), 1)
=============================================================================
