# Verification of LLMInferSim

TLA+ modules, TLC configurations and TLAPS proofs for this repository: a
simulator that runs inside vLLM as a virtual hardware platform
(`llm_infer_sim/`) and the collector that measures operators on real GPUs for it
(`collector/`).

Run a check with `tlc -config X.cfg M`, a proof with `tlapm M.tla`.
`PROJECT.json` names every run, what each definition stands for in the source,
the hazards behind the properties, and for every property a mutation of the code
that it catches.  Paths below leave out `src/`.

## 1. The system

Two programs share a directory of JSONL files.

**The collector** measures operators case by case and appends one JSON line per
case; it is meant to be interrupted and resumed.

| component | state | operations | interacts with |
|---|---|---|---|
| scheduler (`collector/scheduler.py`) | `RunSummary`, the ledger in memory, the list left to run | `run_op`, `run_all`, `_run_one_case` | runners (call), checkpoint, writer |
| checkpoint (`collector/checkpoint.py`) | `checkpoints/<op>.json` and its `.tmp` | `load`, `save`, `mark_done`, `mark_failed`, `filter_cases` | called by both collectors |
| writer (`collector/writer.py`) | `<op>.jsonl`, `errors/<op>.jsonl`, `progress.jsonl` | `append_*` under `flock`, `read_*` | read by the operator database |
| distributed collector (`collector/distributed/run_collective.py`) | one process per GPU: its case, its place in the loop; rank 0: ledger and files | `main`, `_bench_collective` | barriers and collectives among ranks |
| command line (`collector/cli.py`, `env_check.py`, `paths.py`) | frameworks, operators and cases to go, failures counted, exit code; a directory per card, framework and release with its `manifest.yaml` | `main` | finds the release installed and the cards present, calls the scheduler |
| registry, version resolution (`registry.py`, `_bootstrap.py`, `version_resolver.py`) | the entries, routes per release | lookups, `resolve_runner` | command line |
| runners, harness (`runners/`, `harness.py`) | the CUDA context, a captured graph, a paged cache, a routing | `run_case`, `measure` | scheduler (call), vLLM's kernels |
| case lists, profiles (`collector/cases/`, `profiles/`) | tables | `get_cases`, `_dedup` | scheduler |

**The simulator** replaces vLLM's worker.  At each step vLLM's engine hands it a
`SchedulerOutput`; it prices the step, keeps its books and returns fake tokens.

| component | state | operations | interacts with |
|---|---|---|---|
| virtual platform (`adapters/vllm/virtual_platform.py`) | the configuration it rewrites | `check_and_update_config` and its gate | vLLM calls it once, before there are workers |
| overlay, scenario (`sim_overlay.py`, `profile_extractor.py`) | per process: the parsed `configs/config.yaml` | `load_sim_overlay`, `extract_scenario` | worker, runner; the file belongs to the user |
| virtual worker (`adapters/vllm/virtual_worker.py`), sizing (`core/models/sizing.py`) | step counter, runner, number of blocks | `load_model`, `determine_available_memory`, `initialize_from_config`, `execute_model`, `execute_dummy_batch` | engine calls it; vLLM takes the smallest pool of all ranks |
| virtual model runner (`adapters/vllm/virtual_model_runner.py`) | `_request_states`, PD books | `execute_step` and its helpers | all of the following |
| step extractor (`adapters/vllm/step_extractor.py`) | none | `extract` | reads runner's request states |
| KV block ledger (`core/simulation/kv_block_allocator.py`) | blocks per request, cumulative counters | `step` | read by PD charges and reports |
| PD transfer (`core/deployment/pd_disagg.py`, runner) | handled requests, totals | `_compute_pd_transfer_cost` | reads the ledger |
| metrics (`core/metrics/collector.py`) | simulated time, life of each request | `record_step` | fed by the runner |
| fake tokens, time emulation (`core/simulation/`) | none | `next_token`, `simulate` | |
| DP synchronisation (`_sync_dp_latency`) | the warning flag; gloo's group | one `all_reduce(MAX)` per step | other ranks |
| model graphs (`core/models/`) | layers and dimensions | `forward`: the plan of a step | built of operators |
| operators (`core/operators/`) | none | `forward`, `roofline_spec`, `signature` | router (call) |
| operator schema (`core/operator_schema/`), importer | none | `stable_hash`, `raw_record_to_signature` | models' side and collector's side must agree |
| cost engine, router, backends (`core/cost/`) | none per step | `estimate` | operator database, roofline |
| operator database (`core/operator_db/`) | records by signature | `load_jsonl`, `load_partition`, `add`, `lookup` | the collector's files |
| hardware (`core/hardware/`), calibration | presets, tuned parameters | construction at start | scenario, collectives |
| collectives (`core/cost/roofline/communication.py`) | none | candidates, selection, time | roofline backend |

**What is hard about it.**  The collector may die between any two system calls,
in the middle of a write, several times, under different flags; its promise
relates four files to each other.  The distributed collector is a set of
processes that meet by counting calls.  The simulator's books are kept from
*increments*: each component infers the state of a request (prefill, first
token, blocks, sent) from what the engine happens to schedule, while requests
are chunked, hit the prefix cache, arrive prefilled, are preempted, recomputed
and aborted; and the books are read by other books in the same step.  Data
parallel ranks are matched by the number of their calls, whatever each rank has
to do.  A price is the end of a chain (aggregates of a step, a graph written by
hand for each model, closed formulas, a signature computed by two programs, files
another process is writing) in which an error raises nothing: the step is only
a little too cheap.  A launch of the collector files what it times under the
machine and the release it believes it ran on, beside what earlier launches
left there.  And a deployment starts as several processes, each of which makes
its own scenario from three sources, one of them a file the user may save at
any moment, while the pool of blocks has to be one for all.

**What makes each component correct.**

- *Campaign*: a mark in the checkpoint is backed by a readable line; marks
  survive crashes; a done case is not measured again; a crash costs at most one
  repeated measurement; a resumed campaign ends.
- *Distributed collector*: ranks that meet in a call are at the same case; runs
  end; the checkpoint is backed whatever one rank does.
- *Ledger*: covers what requests have computed; its counters account for it;
  a finished request holds nothing.
- *PD charges*: each prompt is charged at most once and in full, in the step that
  completes it, on the side that did the work.
- *Metrics*: arrival, first token and completion are in order and mean what
  their names say; token counts agree with the engine.
- *Fake tokens*: equal prompts repeat each other whatever the schedule.
- *DP*: a step lasts as long as the slowest rank's step of the same iteration,
  and always ends.
- *Pricing*: every layer is priced once, by the graph of its kind; the ranks'
  work adds up to the model's and partial sums are reduced once; formulas count
  what the kernels do; a measurement is found where the collector's sweep covers
  the graph and never under another version; nothing is left out in silence.
- *Launches*: what is in a file was timed as it says, in one mode, by one runner,
  under one release; the kernel that was timed did the case's work on the data of
  its own sequence; exit code 0 means there is nothing left.
- *Start*: a rank is sized for the scenario it prices with; ranks differ only
  where they have read different files; what is refused is refused at the gate;
  the blocks fit beside the weights the graph multiplies with.
- *Collectives*: no time is below what the link needs, and none drops as bytes
  are added; the placement hints bracket every placement.
- *Operator database*: a load that returns took every record, the last of each
  signature; one that cannot raises.

## 2. Modules

```
CollectorCampaign   abstract promise        SchedulerOutput   what the engine hands over
      ^ implements                             |        \
Checkpoint <- Collector                  StepExtractor   KVBlockAllocator
      ^                                    |   |              |
      +---- DistCollective                 | MetricsCollector  PDTransfer
      +---- Measurement                    |        \          /
                                           |   VirtualModelRunner   VllmEngine (external)
DPSync                                     |            \          /
                                           |              Serving
                                           |
   Hardware <- Communication <-+           |
                               Operators --> StepShape
                                  ^
                              ModelGraph <- OperatorSchema <- OperatorStore <- Pricing
                                  ^
                               Startup
```

`MC*` modules give the constants of these modules values for TLC; `*Proofs`
modules hold theorems.  Definitions marked "Mutant" are faulty versions of the
definition that follows them and are used by no specification.

**Checkpoint** is `checkpoint.py` as pure operators: ledgers, files that are
absent, damaged or whole, `Load`, `FilterCases`, the two marks.

**Collector** is `run_op`.  `pc` is the place in the loop and every step is what
lies between two effects on the disk: `Launch` (load, filter, limit), `RunCase`
(pick and measure; `_run_one_case` never raises), `AppendRecord`/`AppendError`,
`MarkDone`/`MarkFailed` (ledger in memory, temporary file truncated), `FillTmp`
(written, fsynced), `ReplaceCheckpoint` (renamed), `Finish` (progress line).
Around it: `Crash` at any point, `CrashInAppend` (a fragment without newline,
also what a full disk leaves), `Corrupt` (damage between runs).  A JSONL file is
the bag of its lines with the count of unreadable ones and whether it ends in a
fragment; the next append is glued to a fragment.  `--dry-run` changes nothing
and is no action.

**CollectorCampaign** is what the collector promises with no process in it:
`Publish`, `LogError`, `Complete` (only of published cases), `GiveUp` (only of
logged ones), `LoseLedger`.

**DistCollective** is `run_collective.py` under torchrun: every rank's place in
the loop, barriers and the measured collective matched by number (`Meet`), cases
that are refused before or after the barrier (`outcome`), an error one rank
meets alone (`RaiseAlone`), a write of rank 0 that raises in the try or in the
except clause (`WriteFault`), the group's death (`Crash`).

**SchedulerOutput, StepExtractor, KVBlockAllocator, PDTransfer,
MetricsCollector, VirtualModelRunner** are the components of a step.  Each
declares its own variables and an operator that is its update
(`AllocStep`, `PDStep`, `RecordStep`, `UpdateRequestStates`); `BusyStep` composes
them in the order of `execute_step`, where the PD charge reads the ledger *after*
the step's bookings and the extractor reads the request states *after* their
update.  `EmptyStep` is the early return for a step with no tokens.  The role of
the node under disaggregation is a variable chosen once in `Init`.

**VllmEngine** is external: arrivals, token budget, chunks, prefix hits, prompts
computed elsewhere (admitted only on a node that receives KV), preemption,
aborts, and finished requests reported with the *next* step.
**Serving** closes the loop and keeps the history the properties need.  One
engine iteration is one action: `virtual_platform.py:85-86` turns asynchronous
scheduling off.

**DPSync** is `_sync_dp_latency` over several ranks: the n-th `all_reduce` a rank
enters is matched with the n-th of the others; a rank without work enters none
(`execute_dummy_batch` returns); gloo may give up on a reduce some rank has not
entered, and the group is broken from then on.

**StepShape** is what remains of a step's requests for the cost engine: phase,
token counts, longest prefill, average and longest context.

**Operators** are the classes of `core/operators/`: a constructor is the operator
bound to a step (`forward`), `WorkOf` its `roofline_spec`, `RooflinePrice` the
roofline's answer.  A deployment is a record `d` of the model's dimensions, its
sharding and what prices depend on.  An element has one byte and times are
whole units, so that formulas with halves and expectations are compared exactly
(`DistinctExperts` is a fraction).  `RooflinePrice` of a collective is the one
`Communication` computes on the deployment's machine.

**Hardware** is `core/hardware/`: presets and their other names, the peaks that
follow from each other, the two devices and links of a profile, and how many
ranks share a root complex under each placement hint.  A rate is given by the
time of a byte or a flop, and an efficiency of 1/e by e, so that what the code
divides is multiplied here and 0 stands for a rate the device does not have.

**Communication** is `communication.py` with the collectives of the roofline
backend: the candidates of an all-reduce (NCCL's protocols, ring, tree,
hierarchical, in the switch), which are tried at which size and which is taken
first among the cheapest, the closed formulas of the other collectives with
their hierarchical forms, parameters tuned for a card, floors, and the
overhead of a call that is not captured.

**ModelGraph** is `qwen3.py`, `qwen3_moe.py` and `deepseek.py`: the plan of a step
as a sequence of operators with layer counts, `MoeLayers` and `DenseLayers` the
buckets of alike layers, `BucketNodes` the nodes of one, `Builds` the steps
DeepSeek refuses.

**OperatorSchema** computes the signature of a kernel twice, as the code does:
`OpSignature` from an operator of a model, `CaseSignature` from a record of the
collector's cases (`GemmCases`, `AttentionCases`, `MoeCases`, `CollectiveCases`).

**OperatorStore** is one partition of the database: lines on disk, the store in
memory, what the last load raised.  `LoadPartition` is a whole load (a reader
holds no lock and reads what is there, so a load is one step; what a writer has
half written is a `TORN` line).  What was added before a line raised stays.

**Startup** is how a deployment comes up.  `CheckAndUpdateConfig` is the gate, in
the engine's process.  Then every rank, a process of its own, builds its runner
(`LoadModel`: the overlay, the scenario, the graph of the model, each with the
errors it may raise) and is asked for memory (`DetermineAvailableMemory`, which
makes the scenario again); `InitializeFromConfig` lays out the smallest pool.
`Edit` is the user who saves another `config.yaml` at any moment: a process that
has parsed the file remembers it, one that failed to does not.  The precedence
of every setting (environment, file, vLLM) is in `Scenario`, the placement hint
read for a second time in `DeploymentOf`, parameter counts and memory in
`PerRankParamBytes`, `AvailableMemory` and `PageBytes`.

**Measurement** is `python -m collector` over several launches: `Launch` and its
refusals, the loops over frameworks (`NextFramework`, `EndFramework`) and
operators (`BeginOp`, `ImportFails`, `EndOp`), the cases (`Measure`, `Fail`), the
exit code (`Exit`), and `Upgrade` of vLLM between launches.  A case may fail for
any reason, a graph may not be capturable, and a device error takes the
context and with it all later cases.  A record carries *what was timed*: the
cells of the cache an attention kernel reads through the shuffled block table,
the load of each rank under a routing.  `Collector` shows what a single launch of
one operator survives; here appends and marks are one step.

**Pricing** composes them: `Estimate` prices any of the steps under any policy,
`Collect` lets the collector write, tear or mix lines in, `Load` loads again,
into the same store.

## 3. Runs

| run | question | bounds |
|---|---|---|
| `MCCollector` | do the files and the checkpoint agree, whatever is launched and dies; does a resumed campaign end, and implement `CollectorCampaign` until a line is torn? | 2 cases, 2 crashes (1 tearing a line), 1 damaged checkpoint, limits 0, 1 and none, any subset requested |
| `MCCollectorTorn` | is a done case's data safe? **violated** | 1 crash, tearing |
| `MCDistCollective` | is the checkpoint backed whatever one rank meets; do ranks that meet the same errors stay together, end and account for all? | 3 ranks, 2 cases, 1 error of one rank, 1 failed write, 1 teardown |
| `MCMeasurement` | is what is filed what was timed, and does exit code 0 forget nothing? | 8 cases of 3 operators, 3 releases (one not installed, one a development build), 2 cards, 6 command lines, 2 launches |
| `MCStartup` | do ranks agree with their own sizing, with each other and with the graph; do collectives respect the wire? | 18 configurations with environments, 8 files, 1 edit, 3 machines, up to 2 ranks, messages of 12, 24 and 48 bytes |
| `MCStartupInput` | is the scenario the only input? **violated** | as `MCStartup` |
| `MCServing` | ledger, metrics, tokens, transfers on nodes of all four roles | 2 requests: prompt 4 with 4 tokens, prompt 3 with 1; blocks of 2; budget 3; 7 steps |
| `MCServingClaims` | does any of five statements of the repository about a node of both roles hold throughout? **violated** | as `MCServing`, `kv_both`, 6 steps |
| `MCDPSync` | is a rank never faster than its work, do clocks agree while all have work, does every step end? | 3 ranks that may idle, 2 iterations, costs 0..2 |
| `MCDPSyncIdle` | the same iteration with idle ranks: **violated** | 2 ranks |
| `MCPricing` | does a step's price add up over requests, layers and ranks, and come from where it should? | 6 steps of 2 requests, 8 deployments, 4 policies, 2 lines on disk, prices 1 and 2 |
| `MCPricingTorn` | does a load survive a half-written line? **violated** | as `MCPricing` |

Why the bounds are enough.  Two cases are the least at which one case is
unaffected while the other is under way, and a limit splits the list; two
crashes let the second one meet the residue of the first (an unmarked record, a
left-over temporary file, a fragment).  Three ranks make "two have met" differ
from "all have met".  In `MCMeasurement` one launch leaves what the second finds,
with an upgrade before either; the cases are a GEMM that is refused and one that
is not, a prefill and a decode whose last block is not full, balanced routings
with fewer and with as many tokens as a stride, and one without balance; the
command lines resume with and without retries, cut the list, name no operators,
another framework or an unknown profile.  In `MCStartup` the inputs are one of
every model family and quantization, a latent attention that takes less than is
sized for it and one that takes more, every feature the gate or the extractor
refuses and each error a worker may die of; the files set, override, mistype and
unset values of every section; the machines are a switch, a pair of roots whose
devices are not consecutive, with tuned parameters, and an odd number of roots;
two ranks are the least that can read two files, and one edit gives them two.  Two requests share a budget of 3, so steps mix a prefill
with a decode; a prompt of 4 ends at a block boundary and one of 3 inside a
block; one request decodes over a block boundary, the other finishes with its
first token; `NumBlocks` 2 is exceeded.  `MaxSteps` cuts runs off: 7 steps let
the longer request be computed, preempted, computed again and finish.

In `MCPricing` the steps are two prompts (one with a prefix hit), the last chunk
of a prompt, a prompt with a chunk of one token (mixed), one decode, two decodes
whose contexts have an odd sum, and a context the sweep covers.  The
deployments are the three models on one rank and on two, with expert
parallelism, with every second layer expert, with fewer key heads than ranks,
with two on-chip sizes (a last block that is and is not full), with fully skewed
routing, under the database's version, a build of it, another release and an
unknown one.  Two lines are the least for "the later line wins", "a fragment and
what is glued to it" and "a good file before a bad one"; one case of each kind
the deployment looks up is measured.  An estimate reads and changes nothing else,
so one between two changes of the store is enough.

Deadlock is checked in the collector runs, in `MCMeasurement` and in `MCPricing`,
where there is always a next step.  In `MCDistCollective` ranks that met different errors may
wait for each other once the teardowns are used up, which is what the code does;
the serving and DP runs end when all requests or iterations are used up, and a
start ends when the engine is ready, refused or has lost a worker.

Fairness.  `Collector` assumes that a process that can step does (`WF(Work)`) and
that the operator keeps resuming the whole list (`SF(Resume)`): that is the
documented way to use it, and without it no campaign ends.  `DistCollective`
assumes only that processes that can step do.  `DPSync` assumes that an
`all_reduce` ends, complete or by gloo's timeout (`WF(Synced \/ FallBack)` per
rank).  No fairness is assumed of crashes, faults, launches or costs.

## 4. What the violated runs show, and other surprises

Each violated run quotes a text of the repository (see `findings` in
`PROJECT.json`).

- `MCCollectorTorn`: an append onto a torn line loses a record whose case is
  marked done.  `LossBoundedByTears` shows that this is the only way.
- `MCStartupInput`: the scenario is said to be the only complete input, but the
  placement hint of `config.yaml` ends in it and prices read the environment
  again, and a cache of type `fp8`, which the scenario counts with one byte, gets
  pages two bytes wide.
- `MCServingClaims`: five statements about the serving loop, each a definition of
  its own in `Serving` and quoted there, all false at the end of one behaviour of
  eight states.  The run checks their disjunction, `SomeClaimHolds`: refuting it
  refutes each of them, in one behaviour that a single node can go through.
  - `ReleasedWhenReported`: `execute_step` returns early for the very step that
    reports the last finished requests; blocks, handled marks and request states
    stay.  `ReleasedUnlessDrained` shows that this is the only way.
  - `FirstTokenMeansPrefilled`: a chunk that leaves part of the prompt yields a
    token from the runner like any other step, and the engine appends it.  The
    second chunk then finds a token generated, and the metrics date the first
    token at its end, which is early if there is a third chunk.  `MetricsFollowEngine` shows
    that a prompt computed in one or two steps is never dated early.
  - `OutputTokensProduced`: outputs are counted from what was generated before a
    step, so the last token of a completed request is missing;
    `MetricsFollowEngine` shows that no more than one is.
  - `SentWhenPrefilled`: a last chunk of one token is taken for a decode, and its
    prompt is not charged as sent (unless it is preempted and recomputed later in a
    larger chunk).  `ChargedWhenDue` covers the prompts that are computed in one
    step or end with a larger chunk.
  - `ReceivedWhenPrefilled`: a `kv_both` node charges a prompt that was prefilled
    elsewhere as a send.  `ChargedWhenDue` shows it charged, once, in its first
    step, and as received where the node only consumes.
- `MCDPSyncIdle`: an idle rank joins no `all_reduce`.
- `MCPricingTorn`: a torn line, or one glued to it, makes a whole load raise, with
  the records before it already in the store, although the comment in
  `jsonl.py:43-44` means partial files to load: the line is parsed outside the try.
  `LoadsEveryRecord` shows what a load that returns has done.

Passing properties state other places where the code is not what one might
expect.

- The barrier in the except clause of the distributed collector is met only by
  the ranks that raised: after an error of one rank, or a failed write of rank 0,
  the ranks are one call apart.  `LockStepTogether` shows lock step as long as
  every error is common (`Together`), `RunEnds` promises an end only then.
- A flash-attention prefill is charged for the tokens of its chunk only.  What a
  chunk after the first, or after a prefix hit, attends to in its context is
  recorded in a mixed step (`kv_prefill`, `attention.py:173`), not in a pure one,
  and left out of the work of both (`attention.py:204-213`); DeepSeek's attention
  charges for that context the bytes of its latent cache and no flops
  (`mla.py:42-43`).  `WorkAccounted` states
  how much is missing: with `EarlierPairs` and `EarlierReads`, the attention of the
  step's tokens to what earlier steps hold, the charge is no less than what the
  kernel does, and exactly that for prompts of one length (others are padded to
  the longest).  It is an underestimate in every chunked or prefix-hit prefill.
  The signature of a pure prefill has the length of the chunk for its context
  (`attention.py:184-185`), so such a step finds the measurement of a fresh prompt
  of that length.
- The output head of a mixed step counts its decodes only (`RowsCoverStep`).
- A launch that does not retry failures exits with 0 while failures of earlier
  launches remain: `ExitZeroMeansMeasured` needs `--retry-failed`.  Where vLLM is
  not installed, importing the attention runner ends the launch; an operator
  imported later fails its cases one by one.
- The directory is named after the first card `nvidia-smi` lists, whatever card
  `--device` times (`Dir`).
- Balanced routing is balanced on the timed rank only where `topk` divides the
  number of experts (`BusiestRankTimed`).
- The hierarchical all-gather and all-to-all have no floor, and the role of
  `pd_disagg` in `config.yaml` is not validated, as that of vLLM's is by the gate.
- Latent attention is sized as plain attention (`sizing.py:31-32` calls that a
  slight over-estimate) and divided by the ranks, while each rank of the graph
  holds the projections into the latent space whole.  On one rank the sizing is
  generous; on several it may be short.  With DeepSeek-V3's dimensions (and heads
  of the hidden size over their number) and 8 ranks, a layer's attention is sized
  for 25.7 million parameters and multiplies with 36.6 million.
  `SizingMatchesTheGraph` states equality of all but latent attention, and
  `PoolFitsEveryRank` supposes that latent attention takes no more than is sized.
- Norms, the embedding and router gates are sized divided by the ranks, although
  a rank holds norms and gates in full; `OtherParams` has them as they are sized.

What `ContractKept` leaves out (`InContract`) is as telling as what it covers:
outside the sweep, and so always priced by the roofline, are all collectives
(the kernel they are filed under differs, and DeepSeek's carry no topology, while
Qwen's all-reduces carry the hint as the collector's cases do), router gates, shared experts, DeepSeek's projections and attention, a
sharded output head, key heads replicated over ranks, prefills of several
requests in one step, mixed steps, and blocks of another size than 16.  A
projection is found only where the ranks divide what they share: elsewhere the
model rounds the heads of a rank and multiplies, the collector multiplies and
rounds.

## 5. Proofs

Every theorem is proved for all values of the constants, from the `ASSUME`s named
in the modules and nothing else.  Each proof has one lemma per action, and the
last step joins them with the temporal rules.  None of the properties is
inductive by itself; what was added is the argument.

**`SumLemmas`** has the mathematics the other modules share: induction over the
subsets of a finite set (`FromSmaller`, from the library's theorem that the
strict subsets of a finite set are well founded), and from it what a sum over a
finite set does when an index is added, removed or renamed, when two sums are
added, when every term is scaled (`SumScaled`), and when every term is bounded;
that a finite set of numbers has its extremes (`MaxIn`, `MinIn`); and what
concatenations of sequences of any values do, and a sum over one (`Joined`,
`SumJoined`); and how pairs, choices of k elements and functions are counted
(`CountedTwice`, `MissedShare`, `OneMoreChoice`).
The community modules define sums by folds and state no facts about them.

**`CollectorProofs`** (`NumCasesOK`, `ConstantsOK`): `TypeCorrect`, `InvCorrect`
(`IInv`), `LedgerBackedAlways`, `NeverDoneAndFailedAlways`, `NeverRemeasuredAlways`,
`DoneKeptAlways`, `LossBoundedByTearsAlways`, and `CampaignRefined`: until
a line is torn the collector implements `CollectorCampaign`
(`CampaignUntilTorn`).  That the checkpoint on disk is backed says
nothing about the ledger in memory that will replace it.  `IInv` adds `InSync`
(memory and disk differ by at most the case of the iteration, and what is about
to be renamed is what is in memory), `Fresh` (nothing left to run is done, so the
launch's filter stays valid) and `Backed` (before the first tear, memory *and*
disk are backed by readable lines, and so is the mark about to be made).  After a tear `Backed` says
nothing; `LossCounted` then carries the bound: each tear is a fragment still at
the end of the file or has swallowed one record.

**`DistCollectiveProofs`** (`NumCasesOK`, `DistOK`): `InvCorrect` (`IInv`) and
`LedgerBackedAlways` for any ranks and faults, without assuming that the ranks
stay together; `AllAccountedAlways`, from `Accounted` (rank 0 is to count the
cases of its list and the one in hand, and what it counted is saved but for an
error's case; no other rank matters); and `LockStepTogetherAlways`.  For that one
`Aligned` is carried along: until one rank meets an error of its own, there is a list `T` such that
either every rank is past the entry barrier of one case, and its parameters
alone decide whether it is before the collective or in the except clause
(`InCase`), or every rank still has `T` before it or has taken the least case of
`T` (`BetweenCases`).  A meeting takes one form to the other.

**`MeasurementProofs`** (`NumCasesOK`, `TableOK`, `ReleasesOK`): `InvCorrect`,
`FiledAsTimedAlways`, `ExitZeroMeansMeasuredAlways`, `ReadsItsOwnContextAlways`,
`BusiestRankTimedAlways`.  `Inv` says where the process
is (`Place`), that a manifest and the name of its directory agree on the release
and each record with both (`Filed`), that what is marked done is recorded
(`Backed`), and, for the exit code, that as long as nothing has failed every
operator behind the process is complete (`Behind`).  `ReadsItsOwnContext` is a
fact about one batch, carried from the step that times it to every later state:
the blocks of the sequences follow each other, so a block and a place in it are
one token's (`TokensApart`); the shuffle is a permutation, so slots are apart too
(`SlotsApart`), the copy into each is made by one token alone (`CopiedAlone`),
and what a sequence reads through its block table is what it wrote.
`BusiestRankTimed` counts the choices of balanced routing.  `Before` is a closed
form for how many choices fall on the experts before a given one: full rounds of
the stride and the tokens left over (`ManyBefore`) where there are as many tokens
as the stride, a quotient rounded up (`FewBefore`) where there are fewer.  Both
grow by one expert's tokens (`BeforeStep`), and both are sub-additive, so the
experts of rank 0, being the first, have no fewer choices than those of any other
rank.  The bound of the fewer tokens was first stated without its condition; the
proof failed where tokens outnumber the stride, and a case of that kind is now
among those of the run.

**`StartupProofs`** (`BoundsOK`, `InputsOK`, `InputsChecked`, `CapacityOK`,
`NumbersOK`, `PagesOK`, `PresetsOK`, `RootsOK`, `LinksOK`): `InvCorrect` (`IInv`),
`RanksDifferOnlyByTheFileAlways`, `HintsBracketPlacementsAlways`,
`SizingMatchesTheGraphAlways`, `PoolFitsEveryRankAlways` and
`TimeRespectsBytesAlways`.  The assumptions say
what vLLM has validated before a worker exists (positive ranks, heads, layers and
block sizes, natural dimensions), that machines have memory, that no file gives a
negative width (the loader does not check it), and that a token of the cache takes
some memory.
`IInv` has three parts.  `ReadOnce` is about the readings of the file: `Remembers`
makes a rank's scenario a function of the overlay it keeps, which before any edit
is that of the file; `OneScenarioPerProcess` and `RefusedAtTheGate` follow from it
and `GateFirst`.  `FilesRead` says that what is kept came from a well-formed file,
or from none, so its values are typed.  `PoolCounted` says that a sized rank has
the room its scenario leaves and that the pool is what fits the rank with the
least; without it nothing links the number of blocks to what the ranks hold.
For ranks that read different files, every setting the environment fixes, and
every one only vLLM has, comes out of `Scenario` the same for any two overlays.
The hints need `RootsOK`: a machine has the roots its preset counts, with at most so many
devices each, and an explicit map of devices to roots keeps to both
(`device.py:71-75`; `registry.py:222-226` is the one that has a map).
`BusiestRoot` says what is counted of a list of devices, the most of them on one
root; `SpreadOverRoots` is the pigeonhole, by induction over the roots, that it
is no less than their number over that of the roots, rounded up; and it is no
more than a root holds.  `ProfileKeepsMachine` carries the assumption from the
preset to the profile that is asked.
The sizes are compared kind by kind.  `Weigh` says what the operators of a list
multiply with; it is proved for each operator and follows the plan through its
concatenations (`WeighJoined`, `WeighTimes`), so `GraphWeighs` gives the parameters
of the whole graph as numbers of dense and expert layers times theirs, and
`SizedByKind` gives the bytes sized in the same form.  Sizing rounds each share
down by itself.  That loses nothing where the ranks divide what they share:
every matrix has one side of the hidden size, so the share of each is exact
(`HiddenShared`, `EvenWeights`, `EvenExperts`, `EvenOthers`).  `SizesMatch` joins
the two.  For the pool, `PoolInRoom` is the minimum over the
ranks and one division, and `RoomTyped` what a rank has left; the blocks fit
beside its weights because these are what was sized.
The times of collectives need `LinksOK`: an algorithm gets a share of the link and
no more (`core/hardware/communication.py:44-108`, scales up to 1), contention makes
nothing faster, and no algorithm is preferred to a faster one, since no preset sets
a bias: with one, a longer message may be switched to a faster algorithm and cost
less.  `LinksOfRank` carries this from the preset, and the efficiency from
`config.yaml`, to the profile a rank prices with; an efficiency of 0 is among them.
Each formula then grows with the bytes and covers what crosses the link
(`HopsGrow`, `PartsGrow`, `TreeGrows`, `RingGrows`, `HierarchiesGrow`).  The
all-reduce is not one formula: `ListedCandidates` says what is offered for a size,
a longer message is offered nothing a shorter one is not, and `FastestSelected`
that the least is taken, so a switch between algorithms cannot lower the time.
That the sizes divide among the ranks (`BoundsOK`) makes the link's part exact;
without it a quotient may round down below what the link needs, in the model
only, since the code's times are not integers.

**`ServingProofs`** (`RequestsOK`, `NumBlocksOK`, `RolesOK`, `CostsOK`, `EngineOK`,
`MaxStepsOK`): `InvCorrect`, `BlocksCoverComputedAlways`,
`ReleasedUnlessDrainedAlways`, `TokensFollowPromptAlways`, `OneTransferAlways`,
`ChargedWhenDueAlways`, `LedgerBalancesAlways`, `MetricsFollowEngineAlways`.  The four invariants need each other and `Follows`, which
relates what the runner keeps of a request to its place in the engine: nothing of
one that has not run (`Untouched`), the states and the prompt's blocks of one that
may run again, and a handled mark exactly where something was charged (`Kept`).
Arithmetic enters through `CeilDivCovers`: rounding up to blocks covers.
`LedgerBalances` goes through a booking (`BookedBalances`): what one request adds
to its blocks is what is counted as allocated or hit, the hits being no more
than the prompt's blocks.  `MetricsFollowEngine` needs `MetricsInv`: which
requests a step in hand has sampled for, what the last report will show, and
that no time is later than the clock; its `Prompted` says that a request with a
token has completed its prompt or left it incomplete at least once.  It needs every step to take time
(`CostsOK`), which it does: every step with tokens embeds them and moves bytes.

**`DPSyncProofs`** (`DPOK`): `InvCorrect` (`IInv`), `NeverFasterAlways`,
`ClocksAgreeAlways`.  `IInv` adds that a waiting rank has an entry with its own
cost in the reduce it waits in (`EntriesMatch`), that in a whole group no rank is
more than one reduce ahead, and clocks that have ended as many reduces agree, one
ahead by what its last reduce took (`ClocksFollowReduces`), and that without idle
ranks the n-th reduce is the n-th step (`StepsAreReduces`).

**`PricingProofs`** (`StoreOK`, `DeploymentsOK`, `StepsOK`, `RooflineOK`):
`InvCorrect`, `LoadsEveryRecordAlways`, `PartialSumsReducedAlways`,
`VersionIsolatedAlways`, `NoSilentFallbackAlways`, `RowsCoverStepAlways`,
`StepCostsItsLayersAlways`, `ContractKeptAlways`, `PrefillsAccountedAlways`,
`ExpertsExactAlways`, `WorkAccountedAlways`, `RanksShareTheWorkAlways`, for any models, shardings, steps, sweeps and files.  The
assumptions are what the code relies on: sizes of parallel groups, heads and on-chip
memories are positive and dimensions natural (`ModelProfile`, `ParallelConfig`,
`HardwareSpec`), an expert-parallel group is whole tensor-parallel ones or is not
used (`profile_extractor.py:62-63`), a scheduled request has a token to compute, and
a price is a number of time units.
`IInv` says that the estimate is the one of some step under some policy since the
store last changed (`EstimateOK`) and that every line on disk is a record of a
case, a torn or glued piece, or foreign (`FilesOK`); the store then holds prices
under signatures of the database's version only.
A load is a fold of folds, over the kinds and the lines of each file.
`FoldExists` shows that the function the community modules define a fold by
exists, up to any length (`UpToBound` is the induction), and `FoldedImports` what
a prefix of the lines leaves in the store (`LeftBy`): each signature at the price
of its last line, and the rest as it was.
A plan is a concatenation of lists of operators, and three arguments follow it
through `Joined`: `AllReduced` (an operator that leaves a partial sum is not last,
and the next one reduces it), `CountsAre` with the sums of `PlanCosts` (a bucket
of alike layers costs its number times the first), and `AllSound` (an operator in
the sweep is filed, a prefill is
charged its own tokens' work and routed experts exactly theirs).  For the first half of the
last one, `DividesExactly` is the arithmetic of the dimensions, and `GemmFiled`,
`AttentionFiled` and `MoeFiled` name the case whose signature it is; for the
second, `PairsCounted` counts the pairs under the causal mask row by row, those
with the context among them, `KeysOfChunk` sums what the blocks read, `ReadCovers`
compares it with the closed form, and `PrefillsSummed` adds the requests of the
step, each no longer than the one they are padded to.  For the experts, hits are counted twice: the experts each choice
takes, summed over the choices, are the choices that take an expert, summed over
the experts (`CountedTwice`).  A token's choices that miss an expert are as many
for each (`AsManyMiss` exchanges two experts), hence 1 - k/N of all
(`MissedShare`, counted twice again); one choice more multiplies
(`OneMoreChoice`, `ChoicesCounted`), so that T tokens all miss it in
(1 - k/N)^T of them (`NeverTaken`).  `ExpertsCounted` is the sum.  The run
enumerates the choices of at most three tokens; the theorem is for any number.
`Power` is a recursive function, since the provers know nothing of `^`
(`PowerIs`).
`NoSilentFallback` needs only that every plan starts with an embedding, which has
no signature.  `RowsCoverStep` is sums over the requests
(`PaddedPrefills`, `AveragedContexts`).
`RanksShareTheWork` compares two plans of different lengths, since one rank has no
collectives: their local operators are matched by place.  `PartsCounted` and
`PlaceJoined` count places in a concatenation, so that what holds of two pairs of
lists holds of their concatenations (`SharesJoined`, `OpsJoined`); a collective
matches nothing or another one (`ReduceShared`, `CollectiveShared`).  What is left
is arithmetic, an operator at a time: `GemmDivided`, `ElementsDivided`,
`FlashDivided`, `MlaDivided`, and `ExpertsDivided`, where the flops of experts are
rounded down as one product.  It supposes that what is sharded divides
(`Divides`): the code neither asks for it nor is exact without it.

*Only model-checked*: liveness (`EventuallyAccounted`, `RunEnds`,
`EveryStepEnds`), which is out of the prover's reach.  Every invariant and every
action property of the passing runs has a theorem.

## 6. Not modelled

Reports, scripts and examples.  Of the collector: the kernels, percentiles and
the flush of the cache between samples, the process group and the metadata
classes in `_vllm_dist.py` and `_vllm_attn.py`, deduplication and ids of cases,
parsing of arguments.  Of the simulator: the breakdown of a price by compute,
memory and communication and the gap to the roofline, loading of tuned
communication parameters from YAML, detection of the topology, legacy
constructors of operators and quantized types in `Pricing` (in `Startup` widths
are), summaries of metrics.  In the serving modules a step's latency is any value
of a set; `Startup` and `Pricing` are not composed with them, so what a price is
and when it is charged are checked apart.

Two collector processes on one operator at once are not modelled (the temporary
file name is shared; listed as a hazard): the launch scripts start one, and no
text promises more.  Which card a directory is named after is modelled as it is
and not a property, for the same reason.

Formatting of records and of logs is left out; a line is its case, or its
signature and price.  Time is in abstract units, bytes in blocks or elements;
floating point rounding is left out.  Presets are small machines of the shape of
the real ones: the numbers of a card are data, not behaviour.

## 7. Plan

1. *Done*: collector and its abstract campaign; distributed collector; serving
   loop; DP synchronisation; pricing with the operator database; collectives and
   hardware; launches of the collector with their runners; start of a
   deployment with overlay, scenario and sizing; proofs of collector, distributed
   collector, launches, start, serving, DP synchronisation and pricing.
2. *Cases*: deduplication and identity of cases against the sweep they come from.
3. *Communication files*: the YAML that tunes a card's collectives, its
   validation, and topology detection, in front of `Hardware`.
4. *Concurrent collectors*: two processes on one operator, shared temporary file.
5. *Composition*: prices of `Pricing` as the latencies of `Serving`, and the ranks
   of `Startup` as those of `DPSync`.
