------------------------------ MODULE MCStartup ------------------------------
(* Small models on three machines, under a few files and environments.     *)
EXTENDS Startup

NoReq == {}
NoLen == << >>

Nccl == [llAlpha |-> 1, llMax |-> 12, llScale |-> 3, ll128Alpha |-> 2, ll128Max |-> 24,
         ll128Scale |-> 2, ringAlpha |-> 2, ringScale |-> 1, treeAlpha |-> 1, treeScale |-> 1,
         bias |-> << >>]

Card == [fp16 |-> 4, bf16 |-> 0, int8 |-> 0, fp8 |-> 0, fp4 |-> 0, hasFp4 |-> FALSE, vector |-> 8,
         memByte |-> 12, capacity |-> 4000, onchip |-> 16, link |-> 1, nodeSize |-> 4,
         topology |-> "nvlink_full", protocol |-> 2, gpusPerRoot |-> 2, numRoots |-> 1,
         gpuToRoot |-> << >>, stepLatency |-> 1, sharp |-> TRUE, nvlsModel |-> FALSE,
         interLink |-> 4, interLatency |-> 5, communication |-> << >>, floor |-> << >>,
         overhead |-> << >>, bias |-> << >>]

\* A PCIe card with two roots that do not hold consecutive devices, and tuned
\* parameters of its collectives.
Pcie == [Card EXCEPT !.topology = "pcie_shared_root", !.numRoots = 2, !.sharp = FALSE,
                     !.gpuToRoot = [g \in 0..3 |-> g % 2], !.interLink = 0, !.capacity = 2000,
                     !.communication = [nccl |-> [allreduce |-> Nccl,
                                          alltoall |-> [alpha |-> 1, scale |-> 2,
                                                        contention |-> 2]]]]

MCPresets == [H100 |-> Card, RTX_4090 |-> Pcie,
              Ascend |-> [Card EXCEPT !.topology = "pcie_shared_root", !.numRoots = 3,
                                      !.floor = [default |-> 3]]]
MCAliases == [rtx4090 |-> "RTX_4090"]
MCDefaultOverhead == [allreduce |-> 7]
MCConnectors == [P2pNcclConnector |-> <<25, 5>>]
MCSizes == {12, 24, 48}

HF == [model_type |-> "qwen3", architecture |-> "Qwen3ForCausalLM", num_attention_heads |-> 4,
       num_key_value_heads |-> 2, hidden_size |-> 4, head_dim |-> 2, intermediate_size |-> 8,
       ffn_dim |-> 0, num_hidden_layers |-> 2, vocab_size |-> 8, n_routed_experts |-> 0,
       num_experts |-> 0, num_experts_per_tok |-> 0, moe_intermediate_size |-> 0,
       n_shared_experts |-> 0, shared_expert_intermediate_size |-> 0,
       first_k_dense_replace |-> 0, mlp_only_layers |-> {}, kv_lora_rank |-> 0,
       qk_rope_head_dim |-> 0, qk_nope_head_dim |-> 0, v_head_dim |-> 0, q_lora_rank |-> 0,
       sliding_window |-> 0, o_groups |-> 0, quantization |-> [method |-> "", activation |-> ""]]

QwenMoe == [HF EXCEPT !.model_type = "qwen3_moe", !.architecture = "Qwen3MoeForCausalLM",
                      !.intermediate_size = 0, !.num_experts = 4, !.num_experts_per_tok = 2,
                      !.moe_intermediate_size = 4, !.shared_expert_intermediate_size = 4,
                      !.mlp_only_layers = {0}, !.quantization.method = "fp8"]

DeepSeek == [HF EXCEPT !.model_type = "deepseek_v3", !.architecture = "DeepseekV3ForCausalLM",
                       !.num_key_value_heads = 0, !.n_routed_experts = 4,
                       !.num_experts_per_tok = 2, !.moe_intermediate_size = 4,
                       !.n_shared_experts = 1, !.first_k_dense_replace = 1,
                       !.kv_lora_rank = 2, !.qk_rope_head_dim = 1, !.qk_nope_head_dim = 1,
                       !.head_dim = 0, !.hidden_size = 8, !.q_lora_rank = 2,
                       !.quantization = [method |-> "fp8", activation |-> "dynamic"]]

Config == [hf |-> HF, tp |-> 1, dp |-> 1, expertParallel |-> FALSE, features |-> {},
           kvTransfer |-> NONE, backend |-> NONE, enforceEager |-> FALSE, cacheDtype |-> "auto",
           dtypeWidth |-> 4, blockSize |-> 4, maxBatched |-> 4, utilization |-> 90,
           asyncScheduling |-> TRUE, version |-> "0.19"]

Env == [virtualBackend |-> TRUE, hw |-> NONE, memEff |-> NONE, hint |-> NONE, pd |-> NONE,
        timeMode |-> NONE, allowUnknown |-> FALSE]

EnvPD == [NoPD EXCEPT !.role = "kv_both", !.connector = "P2pNcclConnector"]

Transfer(role, connector) == [role |-> role, connector |-> connector]

Two == [Config EXCEPT !.tp = 2]

In(config0, env0) == [config |-> config0, env |-> env0]

MCInputs ==
  {In(Two, Env),
   In(Two, [Env EXCEPT !.hw = "rtx4090", !.memEff = 2, !.hint = "balanced"]),
   In([Two EXCEPT !.hf = QwenMoe, !.expertParallel = TRUE,
                  !.kvTransfer = Transfer("kv_producer", "P2pNcclConnector")],
      [Env EXCEPT !.pd = EnvPD, !.timeMode = "instant"]),
   In([Two EXCEPT !.hf = DeepSeek, !.cacheDtype = "int8", !.enforceEager = TRUE,
                  !.backend = "FLASHMLA"], Env),
   In([Two EXCEPT !.hf = [DeepSeek EXCEPT !.q_lora_rank = 8]], Env),
   In([Config EXCEPT !.hf = DeepSeek, !.maxBatched = 400, !.kvTransfer = Transfer(NONE, NONE)],
      [Env EXCEPT !.hw = "Ascend"]),
   In([Config EXCEPT !.hf.model_type = "opt", !.hf.ffn_dim = 8, !.hf.architecture = "OPTForCausalLM"], Env),
   In([Config EXCEPT !.hf.model_type = "deepseek_v4", !.hf.sliding_window = 1,
                     !.hf.o_groups = 1], Env),
   In([Config EXCEPT !.hf.model_type = "llama", !.cacheDtype = "fp8"], Env),
   In([Config EXCEPT !.cacheDtype = "fp8"], Env),
   In([Config EXCEPT !.hf = [QwenMoe EXCEPT !.moe_intermediate_size = 0]], Env),
   In(Config, [Env EXCEPT !.virtualBackend = FALSE]),
   In([Config EXCEPT !.features = {"lora"}], Env),
   In([Config EXCEPT !.backend = "ROCM_ATTN"], Env),
   In([Config EXCEPT !.backend = "NEW_ATTN"], Env),
   In([Config EXCEPT !.kvTransfer = Transfer("kv_sender", "P2pNcclConnector")], Env),
   In([Config EXCEPT !.kvTransfer = Transfer("kv_consumer", "Unknown")], Env),
   In([Config EXCEPT !.kvTransfer = Transfer("kv_consumer", "Unknown")],
      [Env EXCEPT !.allowUnknown = TRUE])}

Str(v)  == [kind |-> "string", v |-> v]
Num(v)  == [kind |-> "number", v |-> v]
Int1    == [kind |-> "integer", v |-> 1]
Bool(v) == [kind |-> "bool", v |-> v]
Null    == [kind |-> "null", v |-> 0]

MCFiles ==
  {NONE,
   << >>,
   [hardware    |-> [name |-> Str("RTX_4090"), topology_hint |-> Str("balanced"),
                     comm_efficiency |-> Num(2), mem_efficiency |-> Null],
    calibration |-> [enabled |-> Bool(TRUE)], runtime |-> NONE],
   [hardware     |-> [comm_efficiency |-> Num(0), compute_efficiency |-> Int1],
    quantization |-> [w_byte |-> Num(2), a_byte |-> Str("auto"), kv_byte |-> Null],
    runtime      |-> [time_mode |-> Str("instant")]],
   [pd_disagg    |-> [role |-> Str("kv_producer"), kv_parallel_size |-> Bool(TRUE),
                      connector_name |-> Str("NixlConnector"),
                      connector_bandwidth_gbps |-> Int1]],
   [hardware     |-> [name |-> Str("H200")]],
   [hardware     |-> [mem_efficiency |-> Bool(TRUE)]],
   [hardwares    |-> NONE]}
=============================================================================
