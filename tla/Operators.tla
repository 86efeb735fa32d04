------------------------------ MODULE Operators ------------------------------
(***************************************************************************)
(* core/operators/: the operators of a model, bound to a step (what        *)
(* forward() returns), and the work roofline_spec() finds in them.         *)
(*                                                                         *)
(* A deployment d is a record: the dimensions of the model, how it is      *)
(* sharded (tp, ep), its hardware, and what else prices depend on.  An operator is a record   *)
(* [name, kind, shape, source]; name also stands for op_subtype, source is *)
(* the kernel_source a measurement is filed under.  An element has one     *)
(* byte and a step costs whole units of time, so that all work is exact.   *)
(***************************************************************************)
EXTENDS StepShape, Communication

Smaller(a, b) == IF a < b THEN a ELSE b

QkHeadDim(d)   == d.nope + d.rope
KvLatentDim(d) == d.kvLora + d.rope

(***************************************************************************)
(* Constructors.                                                           *)
(***************************************************************************)
Embedding(tokens, vocab, hidden) ==
  [name |-> "embedding", kind |-> "embedding", source |-> "",
   shape |-> [tokens |-> tokens, vocab |-> vocab, hidden |-> hidden]]

Norm(name, elements) ==
  [name |-> name, kind |-> "norm", source |-> "", shape |-> [elements |-> elements]]

ElementWise(name, elements) ==
  [name |-> name, kind |-> "elementwise", source |-> "", shape |-> [elements |-> elements]]

GEMM(name, m, n, k) ==
  [name |-> name, kind |-> "gemm", source |-> "vllm_row_parallel_linear",
   shape |-> [m |-> m, n |-> n, k |-> k]]

Router(m, n, k) == [GEMM("moe_gate", m, n, k) EXCEPT !.source = "vllm_moe_gate"]

\* Attention.forward: one operator whose regime the step decides; none for
\* a step without work.
FlashAttention(heads, kvHeads, headDim, s) ==
  LET prefill == [num_seqs |-> Larger(s.prefillRequests, 1), q_len |-> s.maxPrefill,
                  kv_len |-> s.maxPrefill]
      decode  == [num_seqs |-> s.decodeRequests, q_len |-> 1, kv_len |-> s.avgContext]
      Regime(subtype, parts) ==
        [name |-> "attention", kind |-> "attention", source |-> "vllm_flash_attn",
         shape |-> [subtype |-> subtype, parts |-> parts, num_q_heads |-> heads,
                    num_kv_heads |-> kvHeads, head_dim |-> headDim]]
  IN  CASE s.prefillTokens > 0 /\ s.decodeRequests > 0 ->
             <<Regime(MIXED, <<[prefill EXCEPT !.kv_len = s.maxContext], decode>>)>>
        [] s.prefillTokens = 0 /\ s.decodeRequests > 0 -> <<Regime(DECODE, <<decode>>)>>
        [] s.prefillTokens > 0 /\ s.decodeRequests = 0 -> <<Regime(PREFILL, <<prefill>>)>>
        [] OTHER -> <<>>

\* MLAAttention.mla_prefill, mla_decode and forward.  DeepSeek builds one for
\* a step of one phase only.
MLAAttention(d, heads, s) ==
  LET Regime(subtype, seqs, qLen, kvLen, source) ==
        [name |-> "mla_attention", kind |-> "mla", source |-> source,
         shape |-> [subtype |-> subtype, num_seqs |-> seqs, q_len |-> qLen, kv_len |-> kvLen,
                    num_q_heads |-> heads, num_kv_heads |-> 1,
                    head_dim |-> KvLatentDim(d)]]
  IN  IF s.phase = DECODE
        THEN Regime(DECODE, s.decodeRequests, 1, s.avgContext, "vllm_flashmla")
        ELSE Regime(PREFILL, Larger(s.prefillRequests, 1), s.maxPrefill, s.maxContext,
                    "vllm_mla_prefill")

MoE(d, tokens, skew) ==
  [name |-> "routed_experts", kind |-> "moe", source |-> "vllm_fused_moe", skew |-> skew,
   shape |-> [num_tokens |-> tokens, hidden |-> d.hidden, moe_intermediate |-> d.expertDim,
              topk |-> d.topk, num_experts |-> d.experts]]

\* Mutant: the partial sums of experts are reduced over the tensor-parallel ranks.
DispatchWorldTp(d, preDispatch) == IF preDispatch THEN 1 ELSE d.tp

\* _moe_dispatch_comm: what is dispatched is local, what comes back is reduced.
DispatchWorld(d, preDispatch) == IF preDispatch THEN 1 ELSE Larger(d.tp, d.ep)

MoEDispatch(d, name, preDispatch, tokens) ==
  LET world == DispatchWorld(d, preDispatch)
  IN  [name |-> name, kind |-> "moe_dispatch", source |-> "vllm_fused_moe",
       shape |-> [message_bytes |-> IF world > 1 THEN tokens * d.hidden ELSE 0,
                  world_size |-> world]]

\* Collective.forward returns None for a single rank; DeepSeek builds none.
AllReduce(name, bytes, world, source) ==
  IF world <= 1 THEN <<>>
  ELSE <<[name |-> name, kind |-> "collective", source |-> source,
          shape |-> [message_bytes |-> bytes, world_size |-> world]]>>

(***************************************************************************)
(* Work: flops and bytes of one rank.                                      *)
(***************************************************************************)
Work(flops, bytes) == [flops |-> flops, bytes |-> bytes]

Plus(v, w) == Work(v.flops + w.flops, v.bytes + w.bytes)

ElementWiseWork(op) ==
  LET e == op.shape.elements
  IN  CASE op.name = "rope"                                          -> Work(3 * e, 2 * e)
        [] op.name \in {"mlp_act", "shared_expert_act"}              -> Work(5 * e, 3 * e)
        [] op.name = "moe_topk"                                      -> Work(5 * e, 2 * e)
        [] op.name \in {"attn_add", "mlp_add"}                       -> Work(e, 2 * e)

GEMMWork(g) == Work(2 * g.m * g.n * g.k, g.k * g.n + g.m * g.k + g.m * g.n)

\* Query rows whose keys and values stay on chip together.
BlockRows(d, headDim) == Smaller(CeilDiv(d.hardware.memory.onchip, 4 * headDim), headDim)

\* Mutant: the diagonal of the causal mask is left out.
CausalPairsStrict(seqlen) == (seqlen * (seqlen - 1)) \div 2

\* seqlen^2 * causal_factor: the query-key pairs under the causal mask.
CausalPairs(seqlen) == (seqlen * (seqlen + 1)) \div 2

FlashPrefillWork(d, a, part) ==
  LET rows == part.q_len * part.num_seqs * a.head_dim
  IN  Work(CausalPairs(part.q_len) * (4 * a.head_dim + 5) * a.num_q_heads * part.num_seqs,
           3 * rows * a.num_q_heads
             + rows * a.num_kv_heads * (CeilDiv(part.q_len, BlockRows(d, a.head_dim)) + 1))

FlashDecodeWork(a, part) ==
  Work(part.kv_len * (4 * a.head_dim + 5) * a.num_q_heads * part.num_seqs,
       3 * a.head_dim * part.num_seqs * a.num_q_heads
         + 2 * part.kv_len * a.head_dim * part.num_seqs * a.num_kv_heads)

\* A mixed step is one kernel that does the work of both parts.
AttentionWork(d, a) ==
  CASE a.subtype = PREFILL -> FlashPrefillWork(d, a, a.parts[1])
    [] a.subtype = DECODE  -> FlashDecodeWork(a, a.parts[1])
    [] a.subtype = MIXED   -> Plus(FlashPrefillWork(d, a, a.parts[1]),
                                   FlashDecodeWork(a, a.parts[2]))

MLAPrefillWork(d, a) ==
  LET heads   == a.num_q_heads * a.num_seqs
      blocks  == CeilDiv(a.q_len, BlockRows(d, QkHeadDim(d)))
      staging == (a.q_len * (QkHeadDim(d) + d.vDim) * heads * (blocks + 1)) \div 2
  IN  Work(CausalPairs(a.q_len) * (2 * QkHeadDim(d) + 2 * d.vDim + 5) * heads,
           a.q_len * QkHeadDim(d) * heads + staging + 2 * a.q_len * d.vDim * heads
             + Larger(0, a.kv_len - a.q_len) * KvLatentDim(d) * a.num_seqs)

MLADecodeWork(d, a) ==
  LET heads == a.num_q_heads * a.num_seqs
  IN  Work(a.kv_len * (2 * KvLatentDim(d) + 2 * d.kvLora + 5) * heads,
           KvLatentDim(d) * heads + 2 * d.kvLora * heads
             + a.kv_len * KvLatentDim(d) * a.num_seqs)

\* x to the power of n.
Power(x, n) == LET power[i \in 0..n] == IF i = 0 THEN 1 ELSE x * power[i - 1] IN power[n]

\* estimate_distinct_experts without skew, N * (1 - (1 - k/N)^T), as a fraction.
DistinctExperts(d, tokens) ==
  [over |-> d.experts * (Power(d.experts, tokens) - Power(d.experts - d.topk, tokens)),
   under |-> Power(d.experts, tokens)]

\* Experts are split by their inner dimension or, under EP, by number.
ExpertDimPerDevice(d) == IF d.ep = 1 THEN d.expertDim \div d.tp ELSE d.expertDim

TokensPerDevice(d, tokens) == IF d.ep = 1 THEN tokens ELSE (tokens * d.topk) \div d.ep

\* Skew is 0 (balanced) or 1 (all tokens hit the same topk experts).
RoutedExpertsWork(d, op) ==
  LET tokens   == op.shape.num_tokens
      distinct == IF op.skew = 1 THEN [over |-> d.topk, under |-> 1]
                                 ELSE DistinctExperts(d, tokens)
      dim      == ExpertDimPerDevice(d)
  IN  Work((tokens * d.topk * 6 * d.hidden * dim) \div d.ep,
           (distinct.over * 3 * d.hidden * dim) \div (distinct.under * d.ep)
             + 2 * TokensPerDevice(d, tokens) * d.hidden)

WorkOf(d, op) ==
  CASE op.kind = "embedding"   -> Work(0, (op.shape.vocab + op.shape.tokens) * op.shape.hidden)
    [] op.kind = "norm"        -> Work(4 * op.shape.elements, 2 * op.shape.elements)
    [] op.kind = "elementwise" -> ElementWiseWork(op)
    [] op.kind = "gemm"        -> GEMMWork(op.shape)
    [] op.kind = "attention"   -> AttentionWork(d, op.shape)
    [] op.kind = "mla"         -> IF op.shape.subtype = PREFILL THEN MLAPrefillWork(d, op.shape)
                                                                ELSE MLADecodeWork(d, op.shape)
    [] op.kind = "moe"         -> RoutedExpertsWork(d, op)
    [] OTHER                   -> Work(0, 0)

(***************************************************************************)
(* core/cost/roofline_analyzer.py and backends/roofline.py: the price of   *)
(* an operator on one rank.                                                *)
(***************************************************************************)
\* _select_peak
FlopTime(d, op) ==
  EffectivePeak(d.hardware, IF op.kind \in {"norm", "elementwise"} \/ op.name = "moe_gate"
                              THEN "vector" ELSE "fp16")

\* An operator without flops is free, however much memory it moves.
ComputeTime(d, op, work) ==
  IF work.flops = 0 THEN 0
  ELSE Larger(work.flops * FlopTime(d, op), work.bytes * EffectiveMemory(d.hardware))

\* The collective an operator asks for; the hint is that of the environment,
\* which Qwen's all-reduces take when the graph is built and the others when
\* they are priced.
CollectiveOf(d, op) ==
  [type |-> "allreduce", bytes |-> op.shape.message_bytes, world |-> op.shape.world_size,
   mode |-> d.mode, topology |-> "", algo |-> "auto"]

RooflinePrice(d, op) ==
  Calibrated(d.calibration, op.kind, op.name,
             IF op.kind \in {"collective", "moe_dispatch"}
               THEN CollectivePrice(d.hardware, CollectiveOf(d, op), d.hint).time
               ELSE ComputeTime(d, op, WorkOf(d, op)))
=============================================================================
