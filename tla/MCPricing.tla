------------------------------ MODULE MCPricing ------------------------------
(* Steps of two requests on small models.                                  *)
EXTENDS Pricing

CONSTANTS r1, r2

MCReq       == {r1, r2}
MCPromptLen == [r \in MCReq |-> IF r = r1 THEN 4 ELSE 2]
MCMaxTokens == [r \in MCReq |-> 4]

\* An NVLink machine and a card on PCIe roots, with round numbers.
Nccl == [llAlpha |-> 1, llMax |-> 8, llScale |-> 3, ll128Alpha |-> 2, ll128Max |-> 16,
         ll128Scale |-> 2, ringAlpha |-> 2, ringScale |-> 1, treeAlpha |-> 2, treeScale |-> 1,
         bias |-> <<>>]

Card == [fp16 |-> 4, bf16 |-> 0, int8 |-> 0, fp8 |-> 0, fp4 |-> 0, hasFp4 |-> FALSE, vector |-> 8,
         memByte |-> 12, capacity |-> 1000, onchip |-> 16, link |-> 1, nodeSize |-> 8,
         topology |-> "nvlink_full", protocol |-> 2, gpusPerRoot |-> 8, numRoots |-> 1,
         gpuToRoot |-> <<>>, stepLatency |-> 1, sharp |-> TRUE, nvlsModel |-> FALSE,
         interLink |-> 4, interLatency |-> 5, communication |-> <<>>, floor |-> <<>>,
         overhead |-> <<>>, bias |-> <<>>]

MCPresets == [NVLink |-> Card,
              PCIe   |-> [Card EXCEPT !.onchip = 8, !.topology = "pcie_shared_root",
                                      !.gpusPerRoot = 2, !.numRoots = 2, !.sharp = FALSE,
                                      !.interLink = 0]]
MCAliases == [pcie |-> "PCIe"]
MCDefaultOverhead == [allreduce |-> 7]

Machine(name) == HardwareProfile(HardwareConfig(name))

Step(new, cached) ==
  [new      |-> [r \in DOMAIN new |-> new[r][1]],
   cached   |-> [r \in DOMAIN cached |->
                   [computed |-> cached[r][1],
                    outputs  |-> Larger(cached[r][1] - MCPromptLen[r], 0)]],
   ntok     |-> [r \in DOMAIN new |-> new[r][2]] @@ [r \in DOMAIN cached |-> cached[r][2]],
   finished |-> {}]

\* Requests are given as <<computed, scheduled>>.
MCSteps ==
  {Step(r1 :> <<1, 3>> @@ r2 :> <<0, 2>>, << >>),        \* two prompts, one with a prefix hit
   Step(<< >>, r1 :> <<2, 2>>),                          \* a last chunk
   Step(r2 :> <<0, 2>>, r1 :> <<3, 1>>),                 \* a prompt, and a chunk of one token
   Step(<< >>, r1 :> <<4, 1>>),                          \* one decode
   Step(<< >>, r1 :> <<5, 1>> @@ r2 :> <<2, 1>>),        \* two decodes, odd sum of contexts
   Step(<< >>, r2 :> <<1, 1>>)}                          \* a context the collector sweeps

MCPoints      == {1, 2, 4}
MCTpSizes     == {1, 2}
MCMoeParallel == {<<2, 1>>, <<1, 2>>}

Version(release, build) == [release |-> release, build |-> build]
MCDbVersion == Version("0.19", "")

Dense ==
  [layers |-> 3, firstMoe |-> 0, moeFreq |-> 1, hidden |-> 4, heads |-> 4, kvHeads |-> 2,
   headDim |-> 2, ffn |-> 4, vocab |-> 8, experts |-> 0, topk |-> 0, expertDim |-> 0,
   shared |-> 0, qLora |-> 0, kvLora |-> 0, nope |-> 0, rope |-> 0, vDim |-> 0, tp |-> 1,
   ep |-> 1, hardware |-> Machine("NVLink"), hint |-> "concentrated",
   calibration |-> NONE, distribution |-> "balanced", skew |-> 0, layerSkews |-> << >>,
   mode |-> "cudagraph", version |-> MCDbVersion, blockSize |-> 16]

Experts(d) == [d EXCEPT !.experts = 4, !.topk = 2, !.expertDim = 4, !.shared = 1]

DeepSeek == [Experts(Dense) EXCEPT !.qLora = 2, !.kvLora = 2, !.nope = 2, !.rope = 2,
                                   !.vDim = 2, !.firstMoe = 1]

MCDeployments ==
  {Dense,
   [Dense EXCEPT !.tp = 2, !.hardware = Machine("pcie"), !.version = UNKNOWN],
   [Dense EXCEPT !.tp = 2, !.kvHeads = 1, !.mode = "eager",
                 !.hardware = Machine("pcie"), !.hint = "balanced"],
   [Experts(Dense) EXCEPT !.tp = 2, !.version.build = "cu128"],
   [Experts(Dense) EXCEPT !.ep = 2, !.moeFreq = 2,
                          !.calibration = [topk |-> 1, dispatch |-> 2, gemm |-> 2]],
   [Experts(Dense) EXCEPT !.topk = 1, !.distribution = "power_law", !.skew = 1, !.layerSkews = <<1, 1>>,
                          !.version.release = "0.20"],
   DeepSeek,
   [DeepSeek EXCEPT !.tp = 2, !.ep = 2, !.qLora = 0]}

Policy(mode, db, fallback) == [mode |-> mode, db |-> db, fallback |-> fallback]
MCPolicies ==
  {Policy("roofline_only", TRUE, TRUE), Policy("operator_db_first", TRUE, TRUE),
   Policy("operator_db_first", TRUE, FALSE),
   Policy("require_operator_db", FALSE, TRUE)}

MCPrices == {1, 2}

\* One measurement of each kind the deployment looks up.
MCMeasured(d, case) ==
  /\ case.mode = "cudagraph"
  /\ \/ case.kind = "gemm" /\ case.sub = "qkv_proj" /\ case.shape.m = 2 /\ case.tp = d.tp
     \/ case.kind = "attention" /\ case.phase = PREFILL /\ case.len = 2 /\ case.tp = d.tp
     \/ /\ case.kind = "moe" /\ case.num_tokens = 2 /\ case.distribution = "balanced"
        /\ case.parallel = <<IF d.ep = 1 THEN d.tp ELSE 1, d.ep>>
=============================================================================
