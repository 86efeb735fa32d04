---------------------------- MODULE Measurement -----------------------------
(***************************************************************************)
(* python -m collector on one machine: the command line (cli.py), the      *)
(* environment it finds (env_check.py), the directory it files under       *)
(* (paths.py), the runner of each operator (registry.py, _bootstrap.py,    *)
(* version_resolver.py), and what the runners really time (runners/,       *)
(* harness.py).  Launches follow each other; between two of them another   *)
(* release of vLLM may be installed.  How one launch survives a crash is   *)
(* module Collector; here a launch runs to its end or to an exception      *)
(* nobody catches.  A latency is left out: what counts is what was timed.  *)
(***************************************************************************)
EXTENDS Checkpoint, FiniteSetsExt, SequencesExt

CONSTANTS NONE,
          CaseTable,     \* case -> [op, params], as the get_cases of all operators return them
          Routes,        \* op -> its VersionRoutes, pairs [min, runner]; _bootstrap has none
          Releases,      \* releases of vLLM: [text, parts]; the empty text: not installed
          Gpus,          \* the names nvidia-smi lists: [name, mentions]
          Calls,         \* command lines
          BlockSize,     \* tokens of a block of the KV cache (16)
          MaxLaunches    \* bound: launches

ASSUME TableOK == /\ DOMAIN CaseTable = Case
                  /\ \A c \in Case : CaseTable[c].op = "attention" =>
                       /\ CaseTable[c].params.seqs \in Nat
                       /\ CaseTable[c].params.len \in Nat \ {0}
                  /\ \A c \in Case : CaseTable[c].op = "moe" =>
                       /\ CaseTable[c].params.tokens \in Nat \ {0}
                       /\ CaseTable[c].params.experts \in Nat \ {0}
                       /\ CaseTable[c].params.topk \in Nat \ {0}
                       /\ CaseTable[c].params.ep \in Nat \ {0}
                  /\ Gpus # << >>
                  /\ BlockSize \in Nat \ {0}
                  /\ MaxLaunches \in Nat

\* A release is known by its text; NONE is no exit code; some command line is given.
ASSUME ReleasesOK == /\ \A a, b \in Releases : a.text = b.text => a = b
                     /\ NONE \notin {0, 1, 2}
                     /\ Calls # {}
                     /\ \A c \in Calls : /\ c.frameworks \in Seq({"vllm", "sglang"})
                                        /\ c.limit \in Nat

VARIABLES installed,  \* the release of vLLM on the machine
          launches,   \* how often the collector was started
          pc,         \* "idle", or the loop the process is in: "framework", "op", "case"
          call,       \* its command line
          snap,       \* its EnvSnapshot: the release
          frameworks, \* frameworks to go
          ops,        \* operators to go of the current framework: places in Entries
          todo,       \* cases to go of the current operator
          gpu,        \* its CUDA context: "usable", or "lost" after a device error
          failed,     \* overall_failed
          exit,       \* exit code of the last launch
          ledgers,    \* the checkpoints: directory and operator -> ledger
          records,    \* all lines of all JSONL files
          manifests   \* directory -> the environment its manifest.yaml names

proc == <<pc, call, snap, frameworks, ops, todo, gpu, failed>>
disk == <<ledgers, records, manifests>>
vars == <<installed, launches, proc, exit, disk>>

-----------------------------------------------------------------------------
(* _bootstrap.register_defaults, in the order of REGISTRY.all_entries      *)

Entries == << [op |-> "attention", framework |-> "vllm", multiGpu |-> FALSE],
              [op |-> "collective", framework |-> "vllm", multiGpu |-> TRUE],
              [op |-> "gemm", framework |-> "vllm", multiGpu |-> FALSE],
              [op |-> "moe", framework |-> "vllm", multiGpu |-> FALSE] >>

\* _select_entries; no --ops: all of them.
Selected(c, framework) ==
  {i \in DOMAIN Entries : /\ Entries[i].framework = framework
                          /\ c.ops = {} \/ Entries[i].op \in c.ops}

NoEntries(c) == \A f \in ToSet(c.frameworks) : Selected(c, f) = {}

\* parse_version: the numbers before the first part that does not start with one.
ParseVersion(v) ==
  LET words == {i \in DOMAIN v.parts : v.parts[i] = NONE}
  IN  IF words = {} THEN v.parts ELSE SubSeq(v.parts, 1, Min(words) - 1)

\* The order of tuples.
NotAfter(a, b) ==
  \/ IsPrefix(a, b)
  \/ \E i \in DOMAIN a \cap DOMAIN b : a[i] < b[i] /\ \A j \in 1..(i - 1) : a[j] = b[j]

\* resolve_runner: the newest route that is not newer than the release.
ResolveRunner(op, release) ==
  LET fits == {r \in Routes[op] : NotAfter(ParseVersion(r.min), ParseVersion(release))}
  IN  IF fits = {} THEN op
      ELSE (CHOOSE r \in fits : \A q \in fits : NotAfter(ParseVersion(q.min),
                                                         ParseVersion(r.min))).runner

\* The attention runner imports vLLM with the module, the others inside run_case.
Imports(op, release) == op = "attention" => release.text # ""

-----------------------------------------------------------------------------
(* env_check.py, paths.py                                                  *)

HardwareIds == << <<"4090", "RTX_4090">>, <<"h100", "H100">>, <<"h200", "H200">>,
                  <<"h800", "H800">>, <<"a100", "A100">>, <<"a6000", "A6000">>,
                  <<"b100", "B100">>, <<"b200", "B200">> >>

\* auto_hardware_id of the first GPU listed, which need not be the one timed.
AutoHardwareId ==
  LET hits == {i \in DOMAIN HardwareIds : HardwareIds[i][1] \in Gpus[1].mentions}
  IN  CASE hits # {} -> HardwareIds[Min(hits)][2]
        [] hits = {} /\ Gpus[1].name = "" -> "unknown"
        [] OTHER -> Gpus[1].name

\* _get_framework_version: the empty string of what is not installed.
FrameworkVersion(framework, release) == IF framework = "vllm" THEN release.text ELSE ""

\* DataPaths.from_args
DataPaths(c, framework, release) ==
  [hw |-> IF c.hardware = NONE THEN AutoHardwareId ELSE c.hardware,
   framework |-> framework, version |-> FrameworkVersion(framework, release)]

Dir   == DataPaths(call, Head(frameworks), snap)
Entry == Entries[Min(ops)]
Op    == Entry.op

Put(f, key, value) == [k \in DOMAIN f \cup {key} |-> IF k = key THEN value ELSE f[k]]

LedgerOf(dir, op) == IF <<dir, op>> \in DOMAIN ledgers THEN ledgers[<<dir, op>>] ELSE Empty

-----------------------------------------------------------------------------
(* harness.measure under the BenchConfig of the runners                    *)

\* The mode of a case that names none is cudagraph.
Mode(p) == IF p.mode = NONE THEN "cudagraph" ELSE p.mode

\* Mutant: the default of allow_graph_fail is kept.
BenchConfigDefault(p) == [useGraph |-> Mode(p) = "cudagraph", allowFail |-> TRUE]

\* A graph that cannot be captured fails the case.
BenchConfig(p) == [useGraph |-> Mode(p) = "cudagraph", allowFail |-> Mode(p) # "cudagraph"]

\* measure: whether it raises, and what it times.
MeasureRaises(cfg, captured) == cfg.useGraph /\ ~captured /\ ~cfg.allowFail
UsedGraph(cfg, captured)     == cfg.useGraph /\ captured

-----------------------------------------------------------------------------
(* vllm_attention.py and _vllm_attn.py: the paged cache the kernel reads.  *)
(* A block is as long as BlockSize slots; block 0 is never used.           *)

\* _build_batch_spec: per sequence, all tokens and the new ones.
BatchSpec(p) ==
  [i \in 1..p.seqs |-> [len |-> p.len, new |-> IF p.phase = "prefill" THEN p.len ELSE 1]]

Blocks(spec, i) == (spec[i].len + BlockSize - 1) \div BlockSize

\* start_block_idx of sequence i, and blocks_end for i = batch size + 1.
FirstBlock(spec, i) ==
  1 + SumFunctionOnSet([j \in DOMAIN spec |-> Blocks(spec, j)], 1..(i - 1))

Cells(spec) == UNION {{i} \X (0..(spec[i].len - 1)) : i \in DOMAIN spec}

Context(spec, i) == 0..(spec[i].len - spec[i].new - 1)

\* The contexts copied one sequence after the other.
Prepopulated(spec) ==
  [s \in 0..(FirstBlock(spec, Len(spec) + 1) * BlockSize - 1) |->
     LET at == {cell \in Cells(spec) : /\ cell[2] \in Context(spec, cell[1])
                                     /\ s = FirstBlock(spec, cell[1]) * BlockSize + cell[2]}
     IN  IF at = {} THEN NONE ELSE CHOOSE cell \in at : TRUE]

\* kv_cache[:, 1:blocks_end] = kv_cache[:, perm]
Shuffled(cache, perm) ==
  [s \in DOMAIN cache |->
     IF s < BlockSize THEN cache[s]
     ELSE cache[(perm[s \div BlockSize] * BlockSize) + (s % BlockSize)]]

\* Mutant: the permutation is not inverted.
InvPermSame(perm) == perm

\* argsort(perm): where the block went.
InvPerm(perm) == [b \in DOMAIN perm |-> CHOOSE j \in DOMAIN perm : perm[j] = b]

\* block_table and, for the new tokens, slot_mapping.
Slot(spec, perm, i, q) ==
  (InvPerm(perm)[FirstBlock(spec, i) + (q \div BlockSize)] * BlockSize) + (q % BlockSize)

\* impl.forward (external) writes the new tokens to their slots and reads
\* each sequence through its block table.
Forward(spec, perm) ==
  LET new     == {cell \in Cells(spec) : cell[2] \notin Context(spec, cell[1])}
      old     == Shuffled(Prepopulated(spec), perm)
      written == [s \in DOMAIN old |->
                    LET at == {cell \in new : Slot(spec, perm, cell[1], cell[2]) = s}
                    IN  IF at = {} THEN old[s] ELSE CHOOSE cell \in at : TRUE]
  IN  [i \in DOMAIN spec |-> [q \in 0..(spec[i].len - 1) |-> written[Slot(spec, perm, i, q)]]]

Permutations1(n) == {f \in [1..n -> 1..n] : \A a, b \in 1..n : f[a] = f[b] => a = b}

-----------------------------------------------------------------------------
(* vllm_moe.py: which experts the tokens go to, and which are on this GPU  *)

\* Mutant: consecutive experts.
BalancedExpertBunched(p, t, j) == (t + j) % p.experts

\* _balanced_logits: the j-th expert of token t.
BalancedExpert(p, t, j) ==
  LET stride == (p.experts + p.topk - 1) \div p.topk
      spread == IF p.tokens >= stride THEN t ELSE (t * stride) \div p.tokens
  IN  (spread + j * stride) % p.experts

Logit(p, t, e) == Cardinality({j \in 0..(p.topk - 1) : BalancedExpert(p, t, j) = e})

\* _build_routing: topk of the logits, ties as they fall.  A power law may
\* send a token anywhere.
ExpertChoices(p, t) ==
  {S \in kSubset(p.topk, 0..(p.experts - 1)) :
     p.distribution = "balanced" =>
       \A e \in S, f \in 0..(p.experts - 1) \ S : Logit(p, t, e) >= Logit(p, t, f)}

Routings(p) ==
  LET chosen == [t \in 0..(p.tokens - 1) |-> ExpertChoices(p, t)]
  IN  {r \in [DOMAIN chosen -> UNION Range(chosen)] : \A t \in DOMAIN r : r[t] \in chosen[t]}

\* The experts of a rank (determine_expert_map, external: in sequence).
ExpertsOf(p, rank) == {e \in 0..(p.experts - 1) : e \div (p.experts \div p.ep) = rank}

RankLoad(p, routing, rank) ==
  SumFunctionOnSet([t \in DOMAIN routing |-> Cardinality(routing[t] \cap ExpertsOf(p, rank))],
                   DOMAIN routing)

-----------------------------------------------------------------------------
(* run_case of the three runners                                           *)

\* What a runner refuses before it measures.
Supported(op, p) ==
  /\ p.narrow
  /\ Mode(p) \in {"eager", "cudagraph"}
  /\ op = "attention" => p.phase \in {"prefill", "decode"}
  /\ op = "moe" => /\ ~(p.tp > 1 /\ p.ep > 1)
                   /\ p.inter % p.tp = 0
                   /\ p.experts % p.ep = 0
                   /\ p.distribution \in {"balanced", "power_law"}

\* What was timed: the cells the attention read; the choices that fell on
\* this GPU and on each rank; a GEMM is timed in its own shape.
Timed(op, p) ==
  CASE op = "attention" ->
         LET spec == BatchSpec(p)
         IN  {Forward(spec, perm) : perm \in Permutations1(FirstBlock(spec, p.seqs + 1) - 1)}
    [] op = "moe" -> {[load |-> RankLoad(p, r, 0),
                       others |-> [rank \in 0..(p.ep - 1) |-> RankLoad(p, r, rank)]]
                        : r \in Routings(p)}
    [] OTHER -> {NONE}

Timings == [c \in Case |-> IF Supported(CaseTable[c].op, CaseTable[c].params)
                             THEN Timed(CaseTable[c].op, CaseTable[c].params) ELSE {}]

BuildRecord(c, graph, timed) ==
  [case |-> c, dir |-> Dir, op |-> Op, version |-> snap.text,
   runner |-> ResolveRunner(Op, snap), device |-> Gpus[call.device].name,
   mode |-> IF graph THEN "cudagraph" ELSE "eager", timed |-> timed]

-----------------------------------------------------------------------------
Init ==
  /\ installed \in Releases
  /\ launches = 0
  /\ pc = "idle"
  /\ call = CHOOSE c \in Calls : TRUE
  /\ snap = installed
  /\ frameworks = << >>
  /\ ops = {}
  /\ todo = {}
  /\ gpu = "usable"
  /\ failed = 0
  /\ exit = NONE
  /\ ledgers = << >>
  /\ records = {}
  /\ manifests = << >>

\* pip, between two launches.
Upgrade ==
  /\ pc = "idle"
  /\ installed' \in Releases \ {installed}
  /\ UNCHANGED <<launches, proc, exit, disk>>

\* main up to its loop over the frameworks.  (The information commands
\* change nothing.)
Launch ==
  /\ pc = "idle"
  /\ launches < MaxLaunches
  /\ launches' = launches + 1
  /\ call' \in Calls
  /\ snap' = installed
  /\ IF NoEntries(call') \/ call'.unknownProfile
       THEN pc' = "idle" /\ frameworks' = << >> /\ exit' = 2
       ELSE pc' = "framework" /\ frameworks' = call'.frameworks /\ exit' = NONE
  /\ ops' = {}
  /\ todo' = {}
  /\ gpu' = "usable"
  /\ failed' = 0
  /\ UNCHANGED <<installed, disk>>

\* The next framework: its directory, its manifest, its operators.
NextFramework ==
  /\ pc = "framework"
  /\ frameworks # << >>
  /\ manifests' = IF call.dryRun THEN manifests ELSE Put(manifests, Dir, snap)
  /\ ops' = Selected(call, Head(frameworks))
  /\ IF ops' = {} THEN pc' = pc /\ frameworks' = Tail(frameworks)
                     ELSE pc' = "op" /\ UNCHANGED frameworks
  /\ UNCHANGED <<installed, launches, call, snap, todo, gpu, failed, exit, ledgers, records>>

\* run_op up to its loop; multi-GPU operators are left to distributed/.
BeginOp ==
  /\ pc = "op"
  /\ ops # {}
  /\ Entry.multiGpu \/ Imports(Op, snap)
  /\ todo' = IF Entry.multiGpu \/ call.dryRun THEN {}
             ELSE FirstN(FilterCases(LedgerOf(Dir, Op), {c \in Case : CaseTable[c].op = Op},
                                     call.retryFailed), call.limit)
  /\ pc' = "case"
  /\ UNCHANGED <<installed, launches, call, snap, frameworks, ops, gpu, failed, exit, disk>>

\* The exception of an import leaves main: the interpreter exits with 1.
ImportFails ==
  /\ pc = "op"
  /\ ops # {}
  /\ ~Entry.multiGpu
  /\ ~Imports(Op, snap)
  /\ pc' = "idle"
  /\ exit' = 1
  /\ UNCHANGED <<installed, launches, call, snap, frameworks, ops, todo, gpu, failed, disk>>

First == Min(todo)

\* _run_one_case of a case that can be timed, append_record and mark_done.
Measure ==
  /\ pc = "case"
  /\ todo # {}
  /\ LET c == First
         p == CaseTable[c].params
     IN  /\ gpu # "lost"
         /\ snap.text # ""
         /\ \E captured \in BOOLEAN, timed \in Timings[c] :
              /\ ~MeasureRaises(BenchConfig(p), captured)
              /\ records' = records \cup
                              {BuildRecord(c, UsedGraph(BenchConfig(p), captured), timed)}
         /\ ledgers' = Put(ledgers, <<Dir, Op>>, WithDone(LedgerOf(Dir, Op), c))
         /\ todo' = todo \ {c}
  /\ UNCHANGED <<installed, launches, pc, call, snap, frameworks, ops, gpu, failed, exit,
                 manifests>>

\* ... and of one that raises: refused, out of memory, a graph that cannot
\* be captured, a port in use when ensure_initialized forms the process group.
\* An error of the device fails all cases that follow in this process.
Fail ==
  /\ pc = "case"
  /\ todo # {}
  /\ gpu' \in {gpu, "lost"}
  /\ ledgers' = Put(ledgers, <<Dir, Op>>, WithFailed(LedgerOf(Dir, Op), First))
  /\ todo' = todo \ {First}
  /\ failed' = failed + 1
  /\ UNCHANGED <<installed, launches, pc, call, snap, frameworks, ops, exit, records, manifests>>

EndOp ==
  /\ pc = "case"
  /\ todo = {}
  /\ ops' = ops \ {Min(ops)}
  /\ pc' = "op"
  /\ UNCHANGED <<installed, launches, call, snap, frameworks, todo, gpu, failed, exit, disk>>

\* Mutant: each framework starts counting anew.
EndFrameworkForgets ==
  /\ pc = "op"
  /\ ops = {}
  /\ frameworks' = Tail(frameworks)
  /\ pc' = "framework"
  /\ failed' = 0
  /\ UNCHANGED <<installed, launches, call, snap, ops, todo, gpu, exit, disk>>

EndFramework ==
  /\ pc = "op"
  /\ ops = {}
  /\ frameworks' = Tail(frameworks)
  /\ pc' = "framework"
  /\ UNCHANGED <<installed, launches, call, snap, ops, todo, gpu, failed, exit, disk>>

Exit ==
  /\ pc = "framework"
  /\ frameworks = << >>
  /\ exit' = IF failed = 0 THEN 0 ELSE 1
  /\ pc' = "idle"
  /\ UNCHANGED <<installed, launches, call, snap, frameworks, ops, todo, gpu, failed, disk>>

Next == \/ Upgrade \/ Launch \/ NextFramework \/ BeginOp \/ ImportFails
        \/ Measure \/ Fail \/ EndOp \/ EndFramework \/ Exit

Spec == Init /\ [][Next]_vars

-----------------------------------------------------------------------------
(* Properties                                                              *)

\* A record says how it was timed, and the lines of one file can be compared:
\* whatever was upgraded between launches, and whether or not graphs could be
\* captured, they come from the mode their case asks for, from one runner
\* (version_resolver.py:46-64) and from one release of vLLM, the one the
\* manifest of the directory names however often it was rewritten (paths.py:28).
FiledAsTimed ==
  \A r \in records :
    /\ r.mode = Mode(CaseTable[r.case].params)
    /\ manifests[r.dir].text = r.version
    /\ \A q \in records : q.dir = r.dir /\ q.op = r.op
                            => q.version = r.version /\ q.runner = r.runner

\* Through the shuffled blocks every sequence reads its own context and its
\* own new tokens, each at its position (_vllm_attn.py:223-253).
ReadsItsOwnContext ==
  \A r \in records : r.op = "attention" =>
    LET spec == BatchSpec(CaseTable[r.case].params)
    IN  r.timed = [i \in DOMAIN spec |-> [q \in 0..(spec[i].len - 1) |-> <<i, q>>]]

\* The busiest rank decides the time of a step (cases/moe.py:13).  Under
\* balanced routing the one rank that is timed has no less work than any other.
\* An expert gets about the mean of the choices (cases/moe.py:7): the rank has
\* at most the mean rounded up for each of its experts, and with fewer choices
\* than experts no more than its share of all choices rounded up.
BusiestRankTimed ==
  \A r \in records :
    LET p       == CaseTable[r.case].params
        choices == p.tokens * p.topk
    IN  r.op = "moe" /\ p.distribution = "balanced" /\ p.experts % p.topk = 0 =>
          /\ \A rank \in DOMAIN r.timed.others : r.timed.load >= r.timed.others[rank]
          /\ r.timed.load <= (p.experts \div p.ep) * ((choices + p.experts - 1) \div p.experts)
          /\ choices < p.experts => r.timed.load <= (choices + p.ep - 1) \div p.ep

\* When a launch with --retry-failed and no --limit exits with 0, nothing it
\* was asked for is left: whatever failed in this or an earlier launch, every
\* case of its operators is done and has its record.
ExitZeroMeansMeasured ==
  pc = "idle" /\ exit = 0 /\ call.retryFailed /\ ~call.dryRun /\ call.limit = NumCases =>
    \A f \in ToSet(call.frameworks) : \A i \in Selected(call, f) : ~Entries[i].multiGpu =>
      \A c \in Case : CaseTable[c].op = Entries[i].op =>
        /\ c \in LedgerOf(DataPaths(call, f, snap), Entries[i].op).done
        /\ \E r \in records : r.case = c /\ r.dir = DataPaths(call, f, snap)
=============================================================================
