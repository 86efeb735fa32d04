--------------------------- MODULE OperatorSchema ---------------------------
(***************************************************************************)
(* core/operator_schema/, core/operator_db/importers/collector_v2.py and   *)
(* collector/cases/: the signature under which a measured kernel is filed. *)
(* It is computed twice, from an operator of a model and from a case of    *)
(* the collector, and a measurement is found only where the two agree.     *)
(* Everything is bf16, the framework is vllm, collectives run on nccl; the *)
(* fields for these are left out.                                          *)
(***************************************************************************)
EXTENDS ModelGraph

CONSTANTS Points,       \* the lengths and counts the collector sweeps
          TpSizes,      \* tensor-parallel sizes it sweeps
          MoeParallel   \* pairs (moe_tp, moe_ep) it sweeps

ASSUME SweepOK == /\ Points \cup TpSizes \subseteq Nat \ {0}
                  /\ MoeParallel \subseteq (Nat \ {0}) \X (Nat \ {0})

\* block_size of every attention measurement.
MeasuredBlockSize == 16

Signature(kind, sub, shape, parallel, runtime) ==
  [kind |-> kind, sub |-> sub, shape |-> shape, parallel |-> parallel, runtime |-> runtime]

Runtime(version, mode, source) == [version |-> version, mode |-> mode, source |-> source]

AttentionRuntime(version, mode, source, backend, blockSize) ==
  [version |-> version, mode |-> mode, source |-> source, backend |-> backend,
   block_size |-> blockSize]

AttentionShape(seqs, qLen, kvLen, heads, kvHeads, headDim) ==
  [num_tokens |-> seqs * qLen, num_seqs |-> seqs, q_len |-> qLen, kv_len |-> kvLen,
   num_q_heads |-> heads, num_kv_heads |-> kvHeads, head_dim |-> headDim]

(***************************************************************************)
(* The side of the model: signature(op_runtime) of each operator.          *)
(***************************************************************************)
\* A version is a release of vLLM and a local build of it.
OpRuntime(d, op) == Runtime(d.version, d.mode, op.source)

FlashSignature(d, op) ==
  LET a     == op.shape
      p     == a.parts[1]
      shape == IF a.subtype = MIXED
                 THEN [parts |-> a.parts, num_q_heads |-> a.num_q_heads,
                       num_kv_heads |-> a.num_kv_heads, head_dim |-> a.head_dim]
                 ELSE AttentionShape(p.num_seqs, p.q_len, p.kv_len, a.num_q_heads,
                                     a.num_kv_heads, a.head_dim)
  IN  Signature("attention", a.subtype, shape, [tp |-> d.tp],
                AttentionRuntime(d.version, d.mode, op.source, "flash_attn", d.blockSize))

MLASignature(d, op) ==
  LET a == op.shape
  IN  Signature("attention", a.subtype,
                AttentionShape(a.num_seqs, a.q_len, a.kv_len, a.num_q_heads,
                               a.num_kv_heads, a.head_dim),
                [tp |-> d.tp],
                AttentionRuntime(d.version, d.mode, op.source,
                                 IF a.subtype = PREFILL THEN "flash_attn_mla" ELSE "flashmla",
                                 d.blockSize))

\* Mutant: experts under EP are signed with the tensor-parallel size.
MoeKernelParallelGlobal(tp, ep) == [tp |-> tp, ep |-> ep]

\* _moe_kernel_parallel: under EP an expert is not split by TP.
MoeKernelParallel(tp, ep) == [tp |-> IF ep = 1 THEN tp ELSE 1, ep |-> ep]

MoeSignature(d, op) ==
  LET m == op.shape
  IN  Signature("moe", "fused_moe",
                [num_tokens |-> m.num_tokens, hidden |-> m.hidden,
                 moe_intermediate |-> m.moe_intermediate, topk |-> m.topk,
                 num_experts |-> m.num_experts, distribution |-> d.distribution],
                MoeKernelParallel(d.tp, d.ep), OpRuntime(d, op))

CollectiveRuntime(version, mode, source, topology) ==
  [version |-> version, mode |-> mode, source |-> source, topology |-> topology]

\* Qwen's all-reduces carry the placement hint, DeepSeek's carry none.
CollectiveSignature(d, op) ==
  Signature("collective", "allreduce", [message_bytes |-> op.shape.message_bytes],
            [world_size |-> op.shape.world_size],
            IF ArchOf(d) = "deepseek" THEN OpRuntime(d, op)
            ELSE CollectiveRuntime(d.version, d.mode, op.source, d.hint))

\* The operators OperatorDBBackend.estimate looks up.
HasSignature(op) == op.kind \in {"gemm", "attention", "mla", "moe", "collective"}

OpSignature(d, op) ==
  CASE op.kind = "gemm"       -> Signature("gemm", op.name, op.shape, [tp |-> d.tp],
                                           OpRuntime(d, op))
    [] op.kind = "attention"  -> FlashSignature(d, op)
    [] op.kind = "mla"        -> MLASignature(d, op)
    [] op.kind = "moe"        -> MoeSignature(d, op)
    [] op.kind = "collective" -> CollectiveSignature(d, op)

(***************************************************************************)
(* The side of the collector: the cases of a model's profile, and what     *)
(* raw_record_to_signature makes of a record of one.                       *)
(***************************************************************************)
Modes == {"eager", "cudagraph"}

GemmCases(d) ==
  LET Case(sub, mode, tp, m, n, k) ==
        [kind |-> "gemm", sub |-> sub, mode |-> mode, tp |-> tp,
         shape |-> [m |-> m, n |-> n, k |-> k]]
      qDim == d.heads * d.headDim
      Projections(mode, tp, m) ==
        {Case("qkv_proj", mode, tp, m, (qDim + 2 * d.kvHeads * d.headDim) \div tp, d.hidden),
         Case("o_proj", mode, tp, m, d.hidden, qDim \div tp),
         Case("lm_head", mode, 1, m, d.vocab, d.hidden)}
      Mlp(mode, tp, m) ==
        {Case("gate_up_proj", mode, tp, m, (2 * d.ffn) \div tp, d.hidden),
         Case("down_proj", mode, tp, m, d.hidden, d.ffn \div tp)}
  IN  UNION {Projections(c[1], c[2], c[3])
               \cup (IF ~IsMoE(d) /\ d.ffn > 0 THEN Mlp(c[1], c[2], c[3]) ELSE {})
             : c \in Modes \X TpSizes \X Points}

\* Prefills one request at a time; keys and values are replicated where
\* there are fewer heads than ranks.
AttentionCases(d) ==
  LET Case(phase, mode, tp, seqs, len) ==
        [kind |-> "attention", phase |-> phase, mode |-> mode, tp |-> tp, seqs |-> seqs,
         len |-> len, num_heads |-> d.heads \div tp,
         num_kv_heads |-> Larger(1, d.kvHeads \div tp), head_dim |-> d.headDim]
      tps == {tp \in TpSizes : d.heads % tp = 0}
  IN  {Case(PREFILL, c[1], c[2], 1, c[3]) : c \in Modes \X tps \X Points}
        \cup {Case(DECODE, c[1], c[2], c[3], c[4]) : c \in Modes \X tps \X Points \X Points}

MoeCases(d) ==
  IF ~IsMoE(d) THEN {}
  ELSE {[kind |-> "moe", mode |-> "cudagraph", parallel |-> c[1], distribution |-> c[2],
         num_tokens |-> c[3], hidden |-> d.hidden, inter |-> d.expertDim, topk |-> d.topk,
         experts |-> d.experts]
        : c \in {p \in MoeParallel : p[2] <= d.experts /\ ~(p[1] > 1 /\ p[2] > 1)}
                \X {"balanced", "power_law"} \X Points}

\* Every profile reduces; one with experts also exchanges tokens among them.
CollectiveCases(d) ==
  {[kind |-> "collective", sub |-> c[1], mode |-> c[2], num_gpus |-> c[3],
    bytes |-> c[4] * d.hidden, topology |-> c[5]]
   : c \in {p \in {"allreduce", "alltoall"} \X Modes \X (TpSizes \ {1}) \X Points
                    \X {"concentrated", "balanced"} :
              p[1] = "alltoall" => IsMoE(d) /\ p[3] <= d.experts}}

CasesOf(d) == GemmCases(d) \cup AttentionCases(d) \cup MoeCases(d) \cup CollectiveCases(d)

GemmCaseSignature(c, version) ==
  Signature("gemm", c.sub, c.shape, [tp |-> c.tp],
            Runtime(version, c.mode, "vllm_row_parallel_linear"))

AttentionCaseSignature(c, version) ==
  Signature("attention", c.phase,
            AttentionShape(c.seqs, IF c.phase = PREFILL THEN c.len ELSE 1, c.len,
                           c.num_heads, c.num_kv_heads, c.head_dim),
            [tp |-> c.tp],
            AttentionRuntime(version, c.mode, "vllm_flash_attn", "flash_attn",
                             MeasuredBlockSize))

MoeCaseSignature(c, version) ==
  Signature("moe", "fused_moe",
            [num_tokens |-> c.num_tokens, hidden |-> c.hidden, moe_intermediate |-> c.inter,
             topk |-> c.topk, num_experts |-> c.experts, distribution |-> c.distribution],
            [tp |-> c.parallel[1], ep |-> c.parallel[2]],
            Runtime(version, c.mode, "vllm_fused_moe"))

\* _KERNEL_SOURCE_BY_OP of run_collective.py.
CollectiveSource(sub) == IF sub = "allreduce" THEN "vllm_tensor_model_parallel_all_reduce"
                                              ELSE "torch_dist_nccl"

\* A collective is filed with the topology it ran in.
CollectiveCaseSignature(c, version) ==
  Signature("collective", c.sub, [message_bytes |-> c.bytes], [world_size |-> c.num_gpus],
            CollectiveRuntime(version, c.mode, CollectiveSource(c.sub), c.topology))

CaseSignature(c, version) ==
  CASE c.kind = "gemm"       -> GemmCaseSignature(c, version)
    [] c.kind = "attention"  -> AttentionCaseSignature(c, version)
    [] c.kind = "moe"        -> MoeCaseSignature(c, version)
    [] c.kind = "collective" -> CollectiveCaseSignature(c, version)
=============================================================================
