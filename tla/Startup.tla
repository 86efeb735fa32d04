------------------------------- MODULE Startup -------------------------------
(***************************************************************************)
(* How an engine on the virtual platform starts: the feature gate of       *)
(* adapters/vllm/virtual_platform.py, the optional configs/config.yaml of  *)
(* sim_overlay.py, the scenario profile_extractor.py makes of them and of  *)
(* vLLM's configuration, and the sizing of the KV cache by the workers.    *)
(* Each worker is a process that reads the file for itself, while a user   *)
(* may edit it.  Widths are in half bytes, sizes in bytes.                 *)
(***************************************************************************)
EXTENDS ModelGraph

CONSTANTS Inputs,      \* pairs of a VllmConfig and an environment
          Files,       \* contents of config.yaml; NONE: there is no file
          Connectors,  \* PD_CONNECTOR_PRESETS
          MaxEdits,    \* bound: edits of the file while the engine starts
          Sizes        \* bound: the sizes of the messages whose times are compared

ASSUME BoundsOK ==
  /\ MaxEdits \in Nat /\ Sizes \subseteq Nat \ {0}
  /\ \A name \in DOMAIN Presets, bytes \in Sizes :
       \A n \in 2..Presets[name].nodeSize : bytes % n = 0

\* What a worker may die of.
Errors == {"ValueError", "UnsupportedModelError", "AttributeError", "NotImplementedError",
           "KeyError", "UnsupportedBackend", "late"}

ASSUME InputsOK ==
  /\ NONE \notin Errors
  /\ \A input \in Inputs : {"features", "kvTransfer", "backend"} \subseteq DOMAIN input.config

\* What a configuration says of the model's size.
Dimensions ==
  {"hidden_size", "num_attention_heads", "num_key_value_heads", "head_dim", "intermediate_size",
   "ffn_dim", "num_hidden_layers", "vocab_size", "n_routed_experts", "num_experts",
   "num_experts_per_tok", "moe_intermediate_size", "n_shared_experts",
   "shared_expert_intermediate_size", "kv_lora_rank", "qk_rope_head_dim", "qk_nope_head_dim",
   "v_head_dim", "q_lora_rank"}

\* vLLM has checked its configuration: ranks, heads and widths are some.
Checked(cfg) ==
  /\ {"hf", "tp", "dp", "expertParallel", "cacheDtype", "dtypeWidth", "blockSize", "maxBatched",
      "utilization"} \subseteq DOMAIN cfg
  /\ {cfg.tp, cfg.dp, cfg.blockSize, cfg.hf.num_attention_heads, cfg.hf.num_hidden_layers}
       \subseteq Nat \ {0}
  /\ {cfg.maxBatched, cfg.utilization} \subseteq Nat
  /\ cfg.dtypeWidth \in Nat /\ cfg.dtypeWidth > 1
  /\ \A dim \in Dimensions : cfg.hf[dim] \in Nat

ASSUME InputsChecked == \A input \in Inputs : Checked(input.config)

\* Every machine has memory.
ASSUME CapacityOK ==
  \A name \in DOMAIN Presets : "capacity" \in DOMAIN Presets[name] /\ Presets[name].capacity \in Nat

VARIABLES config,      \* vLLM's configuration
          env,         \* the environment; fixed
          file,        \* configs/config.yaml
          edits,       \* how often it was edited
          gate,        \* of the engine: "waiting", "inactive", "refused", "passed", "ready"
          worker,      \* rank -> its process
          numBlocks    \* blocks of the KV cache, the same for all ranks

vars == <<config, env, file, edits, gate, worker, numBlocks>>

Or(given, default) == IF given = NONE THEN default ELSE given

-----------------------------------------------------------------------------
(* sim_overlay.py.  A value is [kind, v].                                  *)

SectionParsers ==
  [hardware     |-> [name |-> "string", topology_hint |-> "string",
                     compute_efficiency |-> "number", mem_efficiency |-> "number",
                     comm_efficiency |-> "number"],
   calibration  |-> [enabled |-> "bool"],
   quantization |-> [w_byte |-> "auto", a_byte |-> "auto", kv_byte |-> "auto"],
   pd_disagg    |-> [role |-> "string", connector_name |-> "string",
                     kv_parallel_size |-> "integer", connector_bandwidth_gbps |-> "number",
                     connector_latency_us |-> "number"],
   runtime      |-> [time_mode |-> "string", dump_ops |-> "integer",
                     dump_requests |-> "integer"]]

\* _as_str, _as_float, _as_int, _as_bool, _as_float_or_auto: a truth value
\* passes for an integer, and not for a number.
Accepts(parser, value) ==
  \/ value.kind = "null"
  \/ value.kind = parser
  \/ parser = "number" /\ value.kind = "integer"
  \/ parser = "integer" /\ value.kind = "bool"
  \/ parser = "auto" /\ (value.kind \in {"number", "integer"}
                           \/ value = [kind |-> "string", v |-> "auto"])

Parsed(parser, value) ==
  CASE value.kind = "null" \/ (parser = "auto" /\ value.kind = "string") -> NONE
    [] parser = "integer" /\ value.kind = "bool" -> IF value.v THEN 1 ELSE 0
    [] OTHER -> value.v

\* A section that is null counts as one that is not there.
Mapped(raw, section) == section \in DOMAIN raw /\ raw[section] # NONE

\* _parse_overlay accepts no section and no key it does not know.
WellFormed(raw) ==
  /\ DOMAIN raw \subseteq DOMAIN SectionParsers
  /\ \A section \in DOMAIN raw : Mapped(raw, section) =>
       /\ DOMAIN raw[section] \subseteq DOMAIN SectionParsers[section]
       /\ \A key \in DOMAIN raw[section] :
            Accepts(SectionParsers[section][key], raw[section][key])

SimOverlay(raw) ==
  [section \in DOMAIN SectionParsers |->
     [key \in DOMAIN SectionParsers[section] |->
        IF Mapped(raw, section) /\ key \in DOMAIN raw[section]
          THEN Parsed(SectionParsers[section][key], raw[section][key]) ELSE NONE]]

NoFile == [section \in {} |-> NONE]

\* Mutant: nothing is remembered.
OverlayAgain(cache) == IF file = NONE THEN SimOverlay(NoFile) ELSE
                       IF WellFormed(file) THEN SimOverlay(file) ELSE NONE

\* load_sim_overlay of a process with this cache; NONE: ValueError, which is
\* not remembered.
Overlay(cache) ==
  CASE cache # NONE                                    -> cache
    [] cache = NONE /\ file = NONE                     -> SimOverlay(NoFile)
    [] cache = NONE /\ file # NONE /\ WellFormed(file) -> SimOverlay(file)
    [] OTHER                                           -> NONE

\* No file gives a width or an efficiency below zero.
ASSUME NumbersOK ==
  \A raw \in Files \ {NONE} : WellFormed(raw) =>
    LET given == SimOverlay(raw)
    IN  {given.quantization.w_byte, given.quantization.a_byte, given.hardware.comm_efficiency}
          \subseteq Nat \cup {NONE}

-----------------------------------------------------------------------------
(* _extract_model_config, the adapters of core/models/adapters and the     *)
(* facade of ModelProfile.  An attribute a configuration lacks is 0.       *)

Adapters == [opt |-> "opt", qwen2 |-> "qwen", qwen2_moe |-> "qwen", qwen3 |-> "qwen",
             qwen3_moe |-> "qwen", deepseek_v3 |-> "v3", deepseek_v4 |-> "v4"]

FirstOf(a, b) == IF a # 0 THEN a ELSE b

KvHeads(hf, family) ==
  IF family = "opt" THEN hf.num_attention_heads
                    ELSE FirstOf(hf.num_key_value_heads, hf.num_attention_heads)

\* get_intermediate_size; NONE: AttributeError.
FfnDim(hf, family) ==
  CASE family = "opt"         -> hf.ffn_dim
    [] family \in {"v3", "v4"} -> hf.intermediate_size
    [] family = "qwen" /\ hf.intermediate_size # 0 -> hf.intermediate_size
    [] family = "qwen" /\ hf.intermediate_size = 0 ->
         IF hf.moe_intermediate_size = 0 \/ hf.num_experts_per_tok = 0 THEN NONE
         ELSE hf.shared_expert_intermediate_size
                + hf.moe_intermediate_size * hf.num_experts_per_tok

SharedExperts(hf) ==
  CASE hf.n_shared_experts # 0 -> hf.n_shared_experts
    [] hf.n_shared_experts = 0 /\ hf.moe_intermediate_size > 0
         -> hf.shared_expert_intermediate_size \div hf.moe_intermediate_size
    [] OTHER -> 0

\* Qwen lists its dense layers, which are taken to come first.
FirstMoeLayer(hf) ==
  FirstOf(hf.first_k_dense_replace,
          IF hf.mlp_only_layers = {} THEN 0 ELSE Max(hf.mlp_only_layers) + 1)

\* What only a model with experts, or with latent attention, has reads 0 in others.
ModelOf(hf) ==
  LET family  == Adapters[hf.model_type]
      experts == FirstOf(hf.n_routed_experts, hf.num_experts)
      OfMoe(x) == IF experts > 0 THEN x ELSE 0
      OfMla(x) == IF hf.kv_lora_rank > 0 THEN x ELSE 0
  IN  [hidden    |-> hf.hidden_size,
       heads     |-> hf.num_attention_heads,
       kvHeads   |-> KvHeads(hf, family),
       headDim   |-> FirstOf(hf.head_dim, hf.hidden_size \div hf.num_attention_heads),
       ffn       |-> FfnDim(hf, family),
       layers    |-> hf.num_hidden_layers,
       vocab     |-> hf.vocab_size,
       experts   |-> experts,
       topk      |-> OfMoe(hf.num_experts_per_tok),
       expertDim |-> OfMoe(hf.moe_intermediate_size),
       shared    |-> OfMoe(SharedExperts(hf)),
       moeFreq   |-> 1,
       firstMoe  |-> OfMoe(FirstMoeLayer(hf)),
       kvLora    |-> hf.kv_lora_rank,
       rope      |-> OfMla(hf.qk_rope_head_dim),
       nope      |-> OfMla(hf.qk_nope_head_dim),
       vDim      |-> OfMla(FirstOf(hf.v_head_dim, hf.qk_nope_head_dim)),
       qLora     |-> OfMla(hf.q_lora_rank)]

\* get_model: graphs are registered by architecture.
Architectures == {"Qwen3ForCausalLM", "Qwen3MoeForCausalLM", "DeepseekV3ForCausalLM"}

HasGraph(hf) == hf.architecture \in Architectures \cup {""}

-----------------------------------------------------------------------------
(* profile_extractor.py                                                    *)

\* Widths of weights, activations and the KV cache: what vLLM's
\* configuration says, unless config.yaml gives one.
Quantization(cfg, overlay) ==
  LET q     == cfg.hf.quantization
      w     == CASE q.method = "fp4" -> 1 [] q.method = "fp8" -> 2 [] OTHER -> 4
      a     == CASE q.method = "fp4"                                                -> 1
                 [] q.method = "fp8" /\ q.activation \in {"dynamic", "static"}      -> 2
                 [] OTHER                                                           -> 4
      kv    == CASE cfg.cacheDtype \in {"fp8", "int8"} -> 2
                 [] cfg.cacheDtype = "fp4"             -> 1
                 [] OTHER                              -> 4
      given == overlay.quantization
  IN  [w |-> Or(given.w_byte, w), a |-> Or(given.a_byte, a), kv |-> Or(given.kv_byte, kv)]

HardwareName(overlay) == Or(env.hw, Or(overlay.hardware.name, "H100"))

HardwareOf(overlay) ==
  WithEfficiencies(HardwareConfig(HardwareName(overlay)),
                   [computeEff |-> overlay.hardware.compute_efficiency,
                    memEff     |-> Or(env.memEff, overlay.hardware.mem_efficiency),
                    commEff    |-> overlay.hardware.comm_efficiency])

\* get_calibration_profile: one card has a calibration, and it is neutral.
Calibration(overlay) ==
  IF Or(overlay.calibration.enabled, TRUE) /\ Canonical(HardwareName(overlay)) = "RTX_4090"
    THEN [topk |-> 0, dispatch |-> 0, gemm |-> 1] ELSE NONE

MappedBackends == {"FLASH_ATTN", "FLASHINFER", "TRITON_ATTN", "FLEX_ATTENTION", "FLASH_ATTN_MLA",
                   "FLASHMLA", "FLASHINFER_MLA", "TRITON_MLA"}
UnsupportedBackends == {"ROCM_ATTN", "CPU_ATTN", "TORCH_SDPA", "NO_ATTENTION", "CUSTOM"}

BackendRaises(backend) ==
  /\ backend # NONE
  /\ backend \in UnsupportedBackends \/ backend \notin MappedBackends

\* _infer_topology_hint
TopologyOfScenario(overlay) ==
  Or(env.hint, Or(overlay.hardware.topology_hint, "concentrated"))

Roles == {"kv_producer", "kv_consumer", "kv_both"}

NoPD == [role |-> NONE, connector |-> NONE, parallel |-> 1, bandwidth |-> NONE, latency |-> NONE]

\* Mutant: the environment overrides field by field.
PDConfigMerged(cfg, overlay) ==
  LET yaml == overlay.pd_disagg
  IN  [(IF env.pd # NONE THEN env.pd ELSE NoPD)
         EXCEPT !.connector = Or(yaml.connector_name, @)]

\* _extract_pd_config: the file changes fields, the environment replaces all.
PDConfig(cfg, overlay) ==
  LET base == IF cfg.kvTransfer = NONE \/ cfg.kvTransfer.role = NONE THEN NoPD
              ELSE [NoPD EXCEPT !.role      = cfg.kvTransfer.role,
                                !.connector = cfg.kvTransfer.connector]
      yaml == overlay.pd_disagg
  IN  IF env.pd # NONE /\ env.pd.role \in Roles THEN env.pd
      ELSE [role      |-> Or(yaml.role, base.role),
            connector |-> Or(yaml.connector_name, base.connector),
            parallel  |-> Or(yaml.kv_parallel_size, base.parallel),
            bandwidth |-> Or(yaml.connector_bandwidth_gbps, base.bandwidth),
            latency   |-> Or(yaml.connector_latency_us, base.latency)]

\* time_mode of VirtualModelRunner.__init__
TimeMode(overlay) == Or(env.timeMode, Or(overlay.runtime.time_mode, "realtime"))

\* Expert parallelism spans the ranks of all replicas.
ExpertRanks(cfg) == IF cfg.expertParallel THEN cfg.tp * cfg.dp ELSE 1

\* What _parse_profile_parts raises; NONE if nothing.
ExtractError(cfg, overlay) ==
  LET hf == cfg.hf
  IN  IF hf.model_type \notin DOMAIN Adapters THEN "UnsupportedModelError"
      ELSE IF FfnDim(hf, Adapters[hf.model_type]) = NONE THEN "AttributeError"
      ELSE IF hf.sliding_window > 0 /\ hf.o_groups > 0 THEN "NotImplementedError"
      ELSE IF ~ Known(HardwareName(overlay)) THEN "KeyError"
      ELSE IF BackendRaises(cfg.backend) THEN "UnsupportedBackend"
      ELSE NONE

\* extract_scenario
Scenario(cfg, overlay) ==
  [model       |-> ModelOf(cfg.hf),
   quant       |-> Quantization(cfg, overlay),
   tp          |-> cfg.tp,
   ep          |-> ExpertRanks(cfg),
   blockSize   |-> cfg.blockSize,
   pd          |-> PDConfig(cfg, overlay),
   hardware    |-> HardwareProfile(HardwareOf(overlay)),
   calibration |-> Calibration(overlay),
   hint        |-> TopologyOfScenario(overlay),
   mode        |-> IF cfg.enforceEager THEN "eager" ELSE "cudagraph",
   version     |-> cfg.version]

-----------------------------------------------------------------------------
(* core/models/sizing.py                                                   *)

\* int(params * width // ways)
Share(params, width, ways) == (params * width) \div (2 * ways)

AttentionParams(m) ==
  2 * m.hidden * m.heads * m.headDim + 2 * m.hidden * m.kvHeads * m.headDim

\* Mutant: the gate is forgotten.
DenseFfnParamsUngated(m) == 2 * m.hidden * m.ffn
DenseFfnParams(m)        == 3 * m.hidden * m.ffn

GateParams(m)   == m.hidden * m.experts
RoutedParams(m) == 3 * m.experts * m.hidden * m.expertDim + GateParams(m)
SharedParams(m) == 3 * m.shared * m.hidden * m.expertDim

\* per_rank_param_bytes; norms, embedding and head have the width of the rest.
PerRankParamBytes(m, w, tp, ep) ==
  LET LayerBytes(i) ==
        Share(AttentionParams(m), w, tp) + Share(2 * m.hidden, w, tp)
          + (IF IsMoeLayer(m, i)
               THEN Share(RoutedParams(m), w, Larger(tp, ep)) + Share(SharedParams(m), w, tp)
               ELSE Share(DenseFfnParams(m), w, tp))
  IN  SumFunction([i \in LayersOf(m) |-> LayerBytes(i)])
        + Share(2 * m.vocab * m.hidden + m.hidden, w, tp)

\* estimate_activation_bytes, with a fudge of 4
ActivationBytes(m, batched, a) == 2 * batched * m.hidden * a

\* compute_block_bytes: a block of all layers, as the block ledger counts it.
BlockBytes(m, blockSize, kv) ==
  (blockSize * m.layers * kv
     * (IF m.kvLora > 0 THEN m.kvLora + m.rope ELSE 2 * m.kvHeads * m.headDim)) \div 2

-----------------------------------------------------------------------------
(* virtual_worker.py                                                       *)

Ranks == DOMAIN worker

\* dtype of get_kv_cache_spec: torch has no attribute fp8, fp16 or fp4.
KvWidth(cfg) ==
  CASE cfg.cacheDtype = "auto" -> cfg.dtypeWidth
    [] cfg.cacheDtype = "int8" -> 2
    [] OTHER                   -> 4

\* The page of a block in a layer of one rank, as vLLM computes it.
PageBytes(cfg) ==
  LET m == ModelOf(cfg.hf)
  IN  (cfg.blockSize * KvWidth(cfg)
         * (IF m.kvLora > 0 THEN m.kvLora + m.rope
            ELSE 2 * Larger(1, m.kvHeads \div cfg.tp) * m.headDim)) \div 2

\* A token of the cache takes some memory.
ASSUME PagesOK ==
  \A input \in Inputs : input.config.hf.model_type \in DOMAIN Adapters
                          => PageBytes(input.config) > 0

Budget(s) == (s.hardware.memory.capacity * config.utilization) \div 100

\* Mutant: the activations are left out.
UsedWeightsOnly(s) == PerRankParamBytes(s.model, s.quant.w, s.tp, s.ep)

\* What is in memory before the KV cache.
Used(s) ==
  PerRankParamBytes(s.model, s.quant.w, s.tp, s.ep)
    + ActivationBytes(s.model, config.maxBatched, s.quant.a)

\* A tenth of the memory when nothing is left of the budget.
AvailableMemory(s) ==
  IF Budget(s) > Used(s) THEN Budget(s) - Used(s)
                         ELSE Larger(s.hardware.memory.capacity \div 10, 1)

-----------------------------------------------------------------------------

NewProcess == [phase |-> "new", cache |-> NONE, scenario |-> NONE, timeMode |-> NONE,
               sizedFor |-> NONE, available |-> 0, error |-> NONE]

Init ==
  /\ \E input \in Inputs : config = input.config /\ env = input.env
  /\ file \in Files
  /\ edits = 0
  /\ gate = "waiting"
  /\ worker = [r \in 0 .. config.tp - 1 |-> NewProcess]
  /\ numBlocks = 0

\* A user saves another config.yaml, or removes it.
Edit ==
  /\ edits < MaxEdits
  /\ edits' = edits + 1
  /\ file' \in Files \ {file}
  /\ UNCHANGED <<config, env, gate, worker, numBlocks>>

\* _check_unsupported_features; features: LoRA, speculative decoding,
\* multi-modality, guided decoding, logprobs.
Refuses(cfg) ==
  \/ cfg.features # {}
  \/ /\ cfg.kvTransfer # NONE
     /\ cfg.kvTransfer.role # NONE
     /\ \/ cfg.kvTransfer.role \notin Roles
        \/ cfg.kvTransfer.connector \notin DOMAIN Connectors /\ ~ env.allowUnknown
  \/ BackendRaises(cfg.backend)

\* virtual_platform_plugin and check_and_update_config, in the engine's process.
CheckAndUpdateConfig ==
  /\ gate = "waiting"
  /\ IF ~ env.virtualBackend
       THEN gate' = "inactive" /\ UNCHANGED config
       ELSE /\ gate' = IF Refuses(config) THEN "refused" ELSE "passed"
            /\ config' = [config EXCEPT !.asyncScheduling = FALSE]
  /\ UNCHANGED <<env, file, edits, worker, numBlocks>>

\* VirtualWorker.load_model and VirtualModelRunner.__init__: the scenario, the
\* graph of the model, the file's settings of the runtime.
LoadModel(r) ==
  /\ gate = "passed"
  /\ worker[r].phase = "new"
  /\ LET overlay == Overlay(worker[r].cache)
         error   == IF overlay = NONE THEN "ValueError"
                    ELSE IF ExtractError(config, overlay) # NONE THEN ExtractError(config, overlay)
                    ELSE IF ~ HasGraph(config.hf) THEN "ValueError" ELSE NONE
     IN  worker' = [worker EXCEPT ![r] =
           IF error # NONE THEN [@ EXCEPT !.phase = "failed", !.error = error]
           ELSE [@ EXCEPT !.phase = "loaded", !.cache = overlay,
                          !.scenario = Scenario(config, overlay),
                          !.timeMode = TimeMode(overlay)]]
  /\ UNCHANGED <<config, env, file, edits, gate, numBlocks>>

\* determine_available_memory extracts the scenario again.
DetermineAvailableMemory(r) ==
  /\ gate = "passed"
  /\ \A q \in Ranks : worker[q].phase \in {"loaded", "sized"}
  /\ worker[r].phase = "loaded"
  /\ LET overlay  == Overlay(worker[r].cache)
         raised   == overlay = NONE \/ ExtractError(config, overlay) # NONE
         scenario == Scenario(config, overlay)
     IN  worker' = [worker EXCEPT ![r] =
           IF raised THEN [@ EXCEPT !.phase = "failed", !.error = "late"]
           ELSE [@ EXCEPT !.phase = "sized", !.sizedFor = scenario,
                          !.available = AvailableMemory(scenario)]]
  /\ UNCHANGED <<config, env, file, edits, gate, numBlocks>>

\* vLLM lays out as many blocks as fit the rank with the least room;
\* get_kv_cache_spec gave it the pages, initialize_from_config takes the number.
InitializeFromConfig ==
  /\ gate = "passed"
  /\ \A r \in Ranks : worker[r].phase = "sized"
  /\ gate' = "ready"
  /\ numBlocks' = Min({worker[r].available : r \in Ranks})
                    \div (PageBytes(config) * config.hf.num_hidden_layers)
  /\ UNCHANGED <<config, env, file, edits, worker>>

Next == \/ Edit
        \/ CheckAndUpdateConfig
        \/ InitializeFromConfig
        \/ \E r \in Ranks : LoadModel(r) \/ DetermineAvailableMemory(r)

Spec == Init /\ [][Next]_vars

-----------------------------------------------------------------------------
(* Properties.                                                             *)

Running == {r \in Ranks : worker[r].scenario # NONE}

\* The deployment a rank prices steps of (build_roofline_engine_from_scenario).
\* The placement hint is read from the environment once more.
DeploymentOf(s) ==
  LET own == [tp |-> s.tp, ep |-> s.ep, hardware |-> s.hardware, calibration |-> s.calibration,
              hint |-> Or(env.hint, "concentrated"), mode |-> s.mode, version |-> s.version,
              blockSize |-> s.blockSize, distribution |-> "balanced", skew |-> 0,
              layerSkews |-> << >>]
  IN  [f \in DOMAIN s.model \cup DOMAIN own |-> IF f \in DOMAIN own THEN own[f] ELSE s.model[f]]

TypeOK ==
  /\ edits \in 0..MaxEdits
  /\ gate \in {"waiting", "inactive", "refused", "passed", "ready"}
  /\ {"features", "kvTransfer", "backend"} \subseteq DOMAIN config
  /\ \A r \in Ranks : /\ DOMAIN worker[r] = DOMAIN NewProcess
                      /\ worker[r].phase \in {"new", "loaded", "sized", "failed"}

\* The memory of a rank is sized for the scenario it prices steps with, though
\* the two are extracted at different times and config.yaml may change between
\* them (sim_overlay._CACHE).
OneScenarioPerProcess ==
  \A r \in Ranks : /\ worker[r].phase = "sized" => worker[r].sizedFor = worker[r].scenario
                   /\ worker[r].error # "late"

\* No worker dies of a feature that the gate has let through: the gate and the
\* extractor look at attention backends separately.
RefusedAtTheGate == \A r \in Ranks : worker[r].error # "UnsupportedBackend"

\* A rank that has loaded remembers the file it loaded from, which is the one
\* there was before any edit, and its scenario is what vLLM's configuration
\* makes of it.
Remembers ==
  \A r \in Ranks :
    LET overlay == worker[r].cache
    IN  IF worker[r].phase \in {"loaded", "sized"}
        THEN /\ overlay # NONE
             /\ edits = 0 => overlay = Overlay(NONE)
             /\ ExtractError(config, overlay) = NONE
             /\ worker[r].scenario = Scenario(config, overlay)
             /\ worker[r].timeMode = TimeMode(overlay)
        ELSE overlay = NONE /\ worker[r].scenario = NONE

\* No rank starts before the gate has let the configuration pass.
GateFirst ==
  /\ gate \in {"passed", "ready"} => ~ Refuses(config)
  /\ \A r \in Ranks : worker[r].phase # "new" => gate \in {"passed", "ready"}

\* What a rank prices with and what it was sized for come from one reading of
\* the file, and no refused feature reaches a rank.
ReadOnce == TypeOK /\ GateFirst /\ Remembers /\ OneScenarioPerProcess /\ RefusedAtTheGate

\* What a rank remembers is a file that was there and was well formed, or that
\* there was none.
FilesRead ==
  /\ file \in Files
  /\ \A r \in Ranks :
       \/ worker[r].cache \in {NONE, SimOverlay(NoFile)}
       \/ \E raw \in Files \ {NONE} : WellFormed(raw) /\ worker[r].cache = SimOverlay(raw)

\* The gate keeps what vLLM has checked; a sized rank has the room its scenario
\* leaves, and the pool is what fits the rank with the least.
PoolCounted ==
  /\ Checked(config)
  /\ config.hf.model_type \in DOMAIN Adapters => PageBytes(config) > 0
  /\ Ranks = 0 .. config.tp - 1
  /\ \A r \in Ranks :
       worker[r].phase = "sized" => worker[r].available = AvailableMemory(worker[r].scenario)
  /\ gate = "ready" =>
       /\ \A r \in Ranks : worker[r].phase = "sized"
       /\ numBlocks = Min({worker[r].available : r \in Ranks})
                        \div (PageBytes(config) * config.hf.num_hidden_layers)

\* The inductive invariant.
IInv == ReadOnce /\ FilesRead /\ PoolCounted

\* Ranks that read different files differ only in what the environment leaves
\* open; ranks that read the same one do not differ.
RanksDifferOnlyByTheFile ==
  \A r, q \in Running :
    LET s == worker[r].scenario
        t == worker[q].scenario
    IN  /\ edits = 0 => s = t /\ worker[r].timeMode = worker[q].timeMode
        /\ <<s.model, s.tp, s.ep, s.mode>> = <<t.model, t.tp, t.ep, t.mode>>
        /\ env.hw # NONE => s.hardware.name = t.hardware.name
        /\ env.memEff # NONE => s.hardware.memEff = t.hardware.memEff
        /\ env.hint # NONE => s.hint = t.hint
        /\ env.pd # NONE /\ env.pd.role \in Roles => s.pd = t.pd
        /\ env.timeMode # NONE => worker[r].timeMode = worker[q].timeMode

OneDecode == [phase |-> DECODE, totalTokens |-> 1, prefillTokens |-> 0, prefillRequests |-> 0,
              decodeRequests |-> 1, maxContext |-> 1, avgContext |-> 1, maxPrefill |-> 0]

\* Parameters of the matrices that the operators of a node multiply with; a
\* rank holds its share of the experts.
MatrixParams(d, node) ==
  node.count *
    (CASE node.op.kind = "gemm" /\ node.op.name # "moe_gate" -> node.op.shape.n * node.op.shape.k
       [] node.op.kind = "moe" -> 3 * (d.experts \div d.ep) * d.hidden * ExpertDimPerDevice(d)
       [] OTHER -> 0)

Multiplied(d, plan) == SumFunction([i \in DOMAIN plan |-> MatrixParams(d, plan[i])])

GraphParams(d) == Multiplied(d, PlanOf(d, OneDecode))

AttentionInGraph(d) == Multiplied(d, Times(AttentionOps(d, OneDecode), d.layers))

\* Parameters that are sized and not multiplied with: norms, embedding, gates.
OtherParams(d) ==
  (2 * d.layers * d.hidden + d.hidden + d.vocab * d.hidden) \div d.tp
    + Cardinality({i \in LayersOf(d) : IsMoeLayer(d, i)}) * (GateParams(d) \div Larger(d.tp, d.ep))

\* A model of which every rank holds as much: the ranks divide what is split
\* over them, and a rank's part of a hidden vector is a number of bytes.
ShardsEvenly(s) ==
  LET m == s.model
  IN  /\ \A x \in {m.hidden, m.heads, m.kvHeads, m.ffn, m.vocab, m.expertDim * m.shared} :
           x % s.tp = 0
      /\ ((m.hidden \div s.tp) * s.quant.w) % 2 = 0
      /\ IF s.ep = 1 THEN m.expertDim % s.tp = 0 ELSE m.experts % s.ep = 0

\* What is sized for attention, and what its matrices take.
AttentionSized(s) ==
  s.model.layers * Share(AttentionParams(s.model), s.quant.w, s.tp)
AttentionUsed(s)  == Share(AttentionInGraph(DeploymentOf(s)), s.quant.w, 1)

\* The memory set aside for weights is that of the matrices the model's
\* operators multiply with, which are sharded in another part of the code
\* (core/models/sizing.py:98, core/models/qwen3.py, deepseek.py).  Latent
\* attention alone is sized as something else, namely as plain attention, and
\* its matrices that every rank holds whole are divided by the ranks.
SizingMatchesTheGraph ==
  \A r \in Running :
    LET s     == worker[r].scenario
        d     == DeploymentOf(s)
        sized == PerRankParamBytes(s.model, s.quant.w, s.tp, s.ep)
        used  == Share(GraphParams(d) + OtherParams(d), s.quant.w, 1)
    IN  ShardsEvenly(s) =>
          /\ sized - AttentionSized(s) = used - AttentionUsed(s)
          /\ ArchOf(d) # "deepseek" => sized = used

\* The blocks vLLM is told of fit the memory of every rank beside what its
\* operators hold, whatever files the ranks have read; a model that does not
\* fit at all gets a tenth of the memory.  Latent attention must take no more
\* than is sized for it (virtual_worker.py:198).
PoolFitsEveryRank ==
  gate = "ready" =>
    LET pool == numBlocks * PageBytes(config) * config.hf.num_hidden_layers
    IN  \A r \in Ranks :
          LET s     == worker[r].scenario
              holds == Share(GraphParams(DeploymentOf(s)), s.quant.w, 1)
                         + (config.maxBatched * s.model.hidden * s.quant.a) \div 2
          IN  ShardsEvenly(s) /\ AttentionUsed(s) <= AttentionSized(s) =>
                \/ pool + holds <= Budget(s)
                \/ /\ PerRankParamBytes(s.model, s.quant.w, s.tp, s.ep)
                         + ActivationBytes(s.model, config.maxBatched, s.quant.a) >= Budget(s)
                   /\ pool <= Larger(s.hardware.memory.capacity \div 10, 1)

-----------------------------------------------------------------------------
(* Collectives of a running rank, priced with the hardware its files gave. *)

Message(type, n, bytes) ==
  [type |-> type, bytes |-> bytes, world |-> n, mode |-> "cudagraph", topology |-> "",
   algo |-> "auto"]

\* What a rank sends, n times; a ring or an exchange can do with no less.
Crossing(type, n, bytes) ==
  CASE type = "allgather"                         -> n * (n - 1) * bytes
    [] type \in {"reducescatter", "alltoall"}     -> (n - 1) * bytes
    [] type = "allreduce"                         -> 2 * (n - 1) * bytes
    [] type \in {"broadcast", "p2p"}              -> n * bytes

\* Within a node no collective takes less time than its bytes need on the
\* link, and none has a time over a link without bandwidth: config.yaml may set
\* an efficiency of 0.  Reduction inside a switch is not on the link.
NoneBeatsTheWire(s) ==
  LET hw   == s.hardware
      hint == DeploymentOf(s).hint
  IN  ~ hw.topology.nvlsModel =>
        \A type \in Collectives, n \in 2 .. hw.topology.nodeSize, bytes \in Sizes :
          LET price == CollectivePrice(hw, Message(type, n, bytes), hint)
              byte  == FabricByte(hw, IF type = "p2p" THEN 1 ELSE n,
                                  [hint |-> hint, visible |-> <<>>])
          IN  price.outcome = "priced" =>
                byte > 0 /\ n * price.time >= Crossing(type, n, bytes) * byte

\* A longer message never takes less time, though another algorithm or
\* protocol may be chosen for it, within a node and across nodes.
MoreBytesNeverCheaper(s) ==
  LET Price(type, n, bytes) ==
        CollectivePrice(s.hardware, Message(type, n, bytes), DeploymentOf(s).hint)
  IN  \A type \in Collectives, n \in 2 .. s.hardware.topology.nodeSize + 1, a, b \in Sizes :
        a < b => \/ Price(type, n, a).outcome # "priced"
                 \/ Price(type, n, a).time <= Price(type, n, b).time

\* The time of every collective respects the bytes it moves: it is never less
\* than the link needs for them, and never less than for fewer
\* (core/cost/roofline/communication.py).
TimeRespectsBytes ==
  \A s \in {worker[r].scenario : r \in Running} : NoneBeatsTheWire(s) /\ MoreBytesNeverCheaper(s)

\* Wherever the ranks are on the roots of a machine, they contend for the
\* busiest root no less than "balanced" and no more than "concentrated" says.
HintsBracketPlacements ==
  \A r \in Running :
    LET t       == worker[r].scenario.hardware.topology
        Under(hint, visible, n) == Contention(t, n, [hint |-> hint, visible |-> visible])
    IN  \A used \in SUBSET Devices(t) :
          LET n    == Cardinality(used)
              real == Under("concentrated", SetToSeq(used), n)
          IN  n > 1 => /\ Under("balanced", <<>>, n) <= real
                       /\ real <= Under("concentrated", <<>>, n)

\* A scenario is the only complete input (core/scenario.py:1): what prices and
\* the KV cache use of the settings it holds is what it says.  It is not: the
\* placement hint is read from the environment again, which loses the hint of
\* config.yaml, and the pages vLLM lays out have a width of their own, not that
\* of the blocks the ledger counts.
ScenarioIsTheInput ==
  \A r \in Running :
    LET s == worker[r].scenario
    IN  /\ DeploymentOf(s).hint = s.hint
        /\ config.tp = 1 => PageBytes(config) * s.model.layers
                              = BlockBytes(s.model, s.blockSize, s.quant.kv)
=============================================================================
