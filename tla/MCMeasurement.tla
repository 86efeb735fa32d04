---------------------------- MODULE MCMeasurement ----------------------------
(* Two operators with routes of their own on a machine with two cards, two *)
(* releases of vLLM, or none installed.                                     *)
EXTENDS Measurement

R(text, parts) == [text |-> text, parts |-> parts]

MCReleases == {R("0.19.1", <<0, 19, 1>>), R("0.20.0.dev", <<0, 20, 0, NONE>>), R("", << >>)}

MCRoutes == [gemm |-> {[min |-> R("0.19.0", <<0, 19, 0>>), runner |-> "gemm_v19"],
                       [min |-> R("0.20", <<0, 20>>), runner |-> "gemm_v20"]},
             attention |-> {[min |-> R("0.20.1", <<0, 20, 1>>), runner |-> "attention_v20"]},
             moe |-> {}]

MCGpus == << [name |-> "NVIDIA GeForce RTX 4090", mentions |-> {"4090"}],
             [name |-> "NVIDIA H100", mentions |-> {"h100"}] >>

Gemm == [op |-> "gemm", params |-> [mode |-> NONE, narrow |-> TRUE]]

Attention(phase, seqs, len, mode) ==
  [op |-> "attention", params |-> [phase |-> phase, seqs |-> seqs, len |-> len,
                                   mode |-> mode, narrow |-> TRUE]]

Moe(tokens, experts, topk, ep, distribution) ==
  [op |-> "moe", params |-> [tokens |-> tokens, experts |-> experts, topk |-> topk, inter |-> 4,
                             tp |-> 1, ep |-> ep, distribution |-> distribution,
                             mode |-> "cudagraph", narrow |-> TRUE]]

MCCaseTable == << Gemm,
                  [Gemm EXCEPT !.params.narrow = FALSE],
                  Attention("prefill", 1, 3, "eager"),
                  Attention("decode", 2, 3, "cudagraph"),
                  Moe(3, 8, 2, 4, "balanced"),
                  Moe(2, 12, 3, 6, "balanced"),
                  Moe(6, 8, 2, 4, "balanced"),
                  Moe(1, 4, 2, 2, "power_law") >>

Call == [frameworks |-> <<"vllm">>, ops |-> {"attention", "collective", "moe"},
         unknownProfile |-> FALSE, hardware |-> NONE, dryRun |-> FALSE, retryFailed |-> TRUE,
         limit |-> 8, device |-> 1]

MCCalls == {Call,
            [Call EXCEPT !.ops = {"gemm", "moe"}, !.retryFailed = FALSE, !.device = 2],
            [Call EXCEPT !.frameworks = <<"sglang", "vllm">>, !.ops = {}, !.limit = 1],
            [Call EXCEPT !.hardware = "lab", !.dryRun = TRUE],
            [Call EXCEPT !.frameworks = <<"sglang">>],
            [Call EXCEPT !.unknownProfile = TRUE]}
=============================================================================
