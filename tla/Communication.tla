---------------------------- MODULE Communication ----------------------------
(***************************************************************************)
(* core/cost/roofline/communication.py and the collectives of              *)
(* core/cost/backends/roofline.py: the time of a collective over n ranks.  *)
(*                                                                         *)
(* A message has a number of bytes that every division below divides, so   *)
(* that times are exact.  A table that is not given is the empty function. *)
(***************************************************************************)
EXTENDS Hardware

CONSTANTS DefaultNccl,     \* DEFAULT_NCCL_ALLREDUCE_PARAMS
          DefaultOverhead  \* DEFAULT_FRAMEWORK_CALL_OVERHEAD

\* Parameters as a backend's are written down (hardware/communication.py): an
\* algorithm gets a share of the link, so a byte takes it no less time, and no
\* algorithm is preferred to a faster one.
Tuned(p) ==
  /\ {p.llAlpha, p.llMax, p.ll128Alpha, p.ll128Max, p.ringAlpha, p.treeAlpha} \subseteq Nat
  /\ {p.llScale, p.ll128Scale, p.ringScale, p.treeScale} \subseteq Nat \ {0}
  /\ p.bias = <<>>

Collectives == {"allreduce", "allgather", "reducescatter", "alltoall", "broadcast", "p2p"}

\* The same of the machines: what they tell of their links and collectives.
ASSUME LinksOK ==
  /\ Tuned(DefaultNccl)
  /\ \A name \in DOMAIN Presets :
       LET hw == Presets[name]
       IN  /\ {"link", "nodeSize", "protocol", "stepLatency", "sharp", "nvlsModel", "interLink",
               "interLatency", "communication", "floor", "bias"} \subseteq DOMAIN hw
           /\ {hw.stepLatency, hw.interLink, hw.interLatency} \subseteq Nat
           /\ hw.bias = <<>>
           /\ \A entry \in DOMAIN hw.floor : hw.floor[entry] \in Nat
           /\ "nccl" \in DOMAIN hw.communication =>
                LET p == hw.communication["nccl"].alltoall
                IN  /\ Tuned(hw.communication["nccl"].allreduce)
                    /\ p.alpha \in Nat /\ {p.scale, p.contention} \subseteq Nat \ {0}

Takes(time)    == [outcome |-> "priced", time |-> time]
Infinite       == [outcome |-> "infinite", time |-> 0]
Raised(error)  == [outcome |-> error, time |-> 0]

\* What a table says of a collective, or its default entry, or 0.
EntryOf(table, collective) ==
  CASE collective \in DOMAIN table                                    -> table[collective]
    [] collective \notin DOMAIN table /\ "default" \in DOMAIN table   -> table["default"]
    [] OTHER                                                          -> 0

\* _framework_overhead: a captured graph has none.
FrameworkOverhead(hw, collective, mode) ==
  CASE mode = "cudagraph"                        -> 0
    [] mode # "cudagraph" /\ hw.overhead = <<>>  -> EntryOf(DefaultOverhead, collective)
    [] OTHER                                     -> EntryOf(hw.overhead, collective)

Floor(hw, collective) == EntryOf(hw.floor, collective)

Charged(hw, collective, mode, term) ==
  Takes(Floor(hw, collective) + term + FrameworkOverhead(hw, collective, mode))

AlgoBias(hw, collective, algo) ==
  IF collective \in DOMAIN hw.bias /\ algo \in DOMAIN hw.bias[collective]
    THEN hw.bias[collective][algo] ELSE 1

IsCrossNode(n, hw) == n > hw.topology.nodeSize /\ InterByte(hw) > 0

\* math.ceil(math.log2(n)): the doublings of one rank that are still short of n.
Depth(n) == Cardinality({k \in 0 .. n - 1 : 2^k < n})

AtLeast1(k) == IF k < 1 THEN 1 ELSE k

-----------------------------------------------------------------------------
(* AllReduce: candidates in the order they are tried, the first of the     *)
(* cheapest is taken.                                                      *)

NcclParams(hw) ==
  IF "nccl" \in DOMAIN hw.communication THEN hw.communication["nccl"].allreduce
                                        ELSE DefaultNccl

\* 1 / _fabric_bw_no_protocol: what the protocol efficiency took is put back.
FabricByte(hw, n, place) ==
  hw.topology.link * hw.commEff * Contention(hw.topology, n, place)

Candidate(algo, time) == [algo |-> algo, time |-> time]

\* _allreduce_candidates_nccl
AllReduceCandidates(hw, n, bytes, place, protocolHint) ==
  LET p     == NcclParams(hw)
      byte  == FabricByte(hw, n, place)
      depth == AtLeast1(Depth(n))
      Tree(alpha, scale) == 2 * depth * alpha + 2 * bytes * byte * scale
      When(guard, list) == IF guard THEN list ELSE <<>>
      Protocol(name) == protocolHint \in {NONE, name}
  IN  IF byte = 0 THEN <<>>
      ELSE When(bytes <= p.llMax /\ Protocol("ll"),
                <<Candidate("ll_tree", Tree(p.llAlpha, p.llScale))>>)
        \o When(bytes <= p.ll128Max /\ Protocol("ll128"),
                <<Candidate("ll128_tree", Tree(p.ll128Alpha, p.ll128Scale))>>)
        \o When(Protocol("simple"),
                <<Candidate("simple_ring",
                            2 * (n - 1) * p.ringAlpha
                              + (2 * (n - 1) * bytes * byte * p.ringScale) \div n),
                  Candidate("simple_tree", Tree(p.treeAlpha, p.treeScale))>>)
        \o When(hw.topology.sharp /\ hw.topology.nvlsModel,
                <<Candidate("nvls", 2 * p.ringAlpha + (bytes * byte) \div n)>>)

\* Mutant: the slowest candidate is taken.
SelectedSlowest(candidates, bias, algo) ==
  CHOOSE c \in {candidates[i] : i \in DOMAIN candidates} :
    \A i \in DOMAIN candidates : candidates[i].time <= c.time

\* _select_with_bias: a bias decides which candidate is taken, not its time.
Selected(candidates, bias, algo) ==
  LET forced == {i \in DOMAIN candidates : candidates[i].algo = algo}
      Biased(i) == candidates[i].time * (IF candidates[i].algo \in DOMAIN bias
                                           THEN bias[candidates[i].algo] ELSE 1)
  IN  candidates[IF forced # {} THEN CHOOSE i \in forced : TRUE
                 ELSE CHOOSE i \in DOMAIN candidates :
                        \A j \in DOMAIN candidates :
                          Biased(i) < Biased(j) \/ (Biased(i) = Biased(j) /\ i <= j)]

AllReduceTime(hw, n, bytes, mode, place, algo, protocolHint) ==
  LET candidates == AllReduceCandidates(hw, n, bytes, place, protocolHint)
  IN  CASE n <= 1 \/ bytes <= 0                        -> Takes(0)
        [] n > 1 /\ bytes > 0 /\ candidates = <<>>     -> Raised("ValueError")
        [] OTHER -> Charged(hw, "allreduce", mode,
                            Selected(candidates, NcclParams(hw).bias, algo).time)

-----------------------------------------------------------------------------
(* The other collectives: closed formulas.                                 *)

\* _broadcast_ring, _broadcast_tree, _allgather_ring: every hop carries the
\* whole message.
Hops(hops, bytes, alpha, byte) == hops * (alpha + bytes * byte)

\* _reducescatter_ring, _alltoall_pairwise: every round carries one of n parts.
Parts(n, bytes, alpha, byte) == (n - 1) * alpha + ((n - 1) * bytes * byte) \div n

\* _select_min_candidate returns the biased time of the candidate it takes.
SelectMinCandidate(hw, collective, candidates) ==
  LET Biased(c) == c.time * AlgoBias(hw, collective, c.algo)
  IN  Biased(CHOOSE c \in candidates : \A d \in candidates : Biased(c) <= Biased(d))

BroadcastTime(hw, n, bytes, mode, place) ==
  LET byte  == IntraByte(hw, n, place)
      alpha == hw.topology.stepLatency
      ring  == Candidate("ring", Hops(n - 1, bytes, alpha, byte))
      tree  == Candidate("tree", Hops(Depth(n), bytes, alpha, byte))
  IN  CASE n <= 1 \/ bytes <= 0               -> Takes(0)
        [] n > 1 /\ bytes > 0 /\ byte = 0     -> Infinite
        [] OTHER -> Charged(hw, "broadcast", mode,
                            SelectMinCandidate(hw, "broadcast", {ring, tree}))

Nodes(hw, n) == (n + hw.topology.nodeSize - 1) \div hw.topology.nodeSize

Anywhere == [hint |-> "concentrated", visible |-> <<>>]

\* _hierarchical_allgather
HierarchicalAllGather(hw, n, bytes) ==
  LET t  == hw.topology
      n1 == t.nodeSize
      n2 == Nodes(hw, n)
  IN  (n1 - 1) * (t.stepLatency + (bytes * IntraByte(hw, n1, Anywhere)) \div (n1 * n2))
        + (n2 - 1) * (t.interLatency + (bytes * InterByte(hw)) \div n2)

\* _hierarchical_alltoall
HierarchicalAllToAll(hw, n, bytes) ==
  LET t  == hw.topology
      n1 == t.nodeSize
      n2 == Nodes(hw, n)
  IN  (n1 - 1) * (t.stepLatency + (bytes * IntraByte(hw, n1, Anywhere)) \div (n1 * n1))
        + (n2 - 1) * (t.interLatency + (bytes * n1 * InterByte(hw)) \div (n * n))

\* Ring; over several nodes the floor is left out.
AllGatherTime(hw, n, bytes, mode, place) ==
  LET byte == IntraByte(hw, n, place)
  IN  CASE n <= 1 \/ bytes <= 0 -> Takes(0)
        [] n > 1 /\ bytes > 0 /\ IsCrossNode(n, hw)
             -> Takes(HierarchicalAllGather(hw, n, bytes)
                         + FrameworkOverhead(hw, "allgather", mode))
        [] n > 1 /\ bytes > 0 /\ ~ IsCrossNode(n, hw) /\ byte = 0 -> Infinite
        [] OTHER -> Charged(hw, "allgather", mode,
                            Hops(n - 1, bytes, hw.topology.stepLatency, byte))

ReduceScatterTime(hw, n, bytes, mode, place) ==
  LET byte == IntraByte(hw, n, place)
  IN  CASE n <= 1 \/ bytes <= 0               -> Takes(0)
        [] n > 1 /\ bytes > 0 /\ byte = 0     -> Infinite
        [] OTHER -> Charged(hw, "reducescatter", mode,
                            Parts(n, bytes, hw.topology.stepLatency, byte))

\* _alltoall_candidates_v2: more than four ranks contend.
PairwiseV2(hw, n, bytes, place) ==
  LET p == hw.communication["nccl"].alltoall
  IN  Parts(n, bytes, p.alpha, FabricByte(hw, n, place) * p.scale)
        * (IF n > 4 THEN p.contention ELSE 1)

AllToAllTime(hw, n, bytes, mode, place) ==
  LET byte == IntraByte(hw, n, place)
      v2   == "nccl" \in DOMAIN hw.communication /\ FabricByte(hw, n, place) > 0
  IN  IF n <= 1 \/ bytes <= 0 THEN Takes(0)
      ELSE IF IsCrossNode(n, hw)
        THEN Takes(HierarchicalAllToAll(hw, n, bytes)
                      + FrameworkOverhead(hw, "alltoall", mode))
      ELSE IF v2 THEN Charged(hw, "alltoall", mode, PairwiseV2(hw, n, bytes, place))
      ELSE IF byte = 0 THEN Infinite
      ELSE Charged(hw, "alltoall", mode, Parts(n, bytes, hw.topology.stepLatency, byte))

\* One sender shares its root with nobody.
P2PTime(hw, bytes, mode, place) ==
  LET byte == IntraByte(hw, 1, place)
  IN  CASE bytes <= 0                -> Takes(0)
        [] bytes > 0 /\ byte = 0     -> Infinite
        [] OTHER -> Charged(hw, "p2p", mode, hw.topology.stepLatency + bytes * byte)

-----------------------------------------------------------------------------
(* RooflineBackend._estimate_collective                                    *)

\* _dispatch_collective, of ranks that are placed as given.
TimeAt(hw, c, place) ==
  CASE c.type = "allreduce"     -> AllReduceTime(hw, c.world, c.bytes, c.mode, place, c.algo, NONE)
    [] c.type = "allgather"     -> AllGatherTime(hw, c.world, c.bytes, c.mode, place)
    [] c.type = "reducescatter" -> ReduceScatterTime(hw, c.world, c.bytes, c.mode, place)
    [] c.type = "alltoall"      -> AllToAllTime(hw, c.world, c.bytes, c.mode, place)
    [] c.type = "broadcast"     -> BroadcastTime(hw, c.world, c.bytes, c.mode, place)
    [] c.type = "p2p"           -> P2PTime(hw, c.bytes, c.mode, place)

\* _topology_hint: the operator's, or what the environment says.
TopologyHint(c, env) == IF c.topology \in Hints THEN c.topology ELSE env

\* The backend does not know the devices of a collective.  The protocol of an
\* operator is filed under another name than the one that is read here, so
\* that no collective has a protocol hint.
CollectivePrice(hw, c, env) ==
  IF c.type \in Collectives /\ c.bytes > 0 /\ c.world > 1
    THEN TimeAt(hw, c, [hint |-> TopologyHint(c, env), visible |-> <<>>])
    ELSE Takes(0)

\* _apply_moe_calibration; a calibration is [topk, dispatch, gemm], gemm = 1/efficiency.
Calibrated(calibration, kind, name, time) ==
  IF calibration = NONE THEN time
  ELSE CASE kind = "elementwise" /\ name = "moe_topk" -> time + calibration.topk
         [] kind = "moe_dispatch"                     -> time + calibration.dispatch
         [] kind = "moe" -> time * (IF calibration.gemm = 0 THEN 1 ELSE calibration.gemm)
         [] OTHER        -> time
=============================================================================
