------------------------------ MODULE Hardware ------------------------------
(***************************************************************************)
(* core/hardware/: the presets of registry.py and the rates device.py      *)
(* derives from them.                                                      *)
(*                                                                         *)
(* A rate is given by its reciprocal: the time of a byte or of a flop, a   *)
(* natural number, with 0 for a rate the device does not have.  An         *)
(* efficiency of 1/e divides a rate by e, so it multiplies a time; e = 0   *)
(* is an efficiency of 0, which leaves no rate.                            *)
(***************************************************************************)
EXTENDS Naturals, FiniteSets, Sequences, TLC

CONSTANTS Presets,  \* KNOWN_PROFILES: canonical name -> fields of a HardwareConfig
          Aliases,  \* PROFILE_ALIASES: other name -> canonical name
          NONE      \* what is not given; not a number

\* Every preset has the rates that others are derived from.
ASSUME PresetsOK ==
  \A name \in DOMAIN Presets :
    LET hw == Presets[name]
    IN  /\ {hw.fp16, hw.memByte, hw.link, hw.protocol, hw.nodeSize} \subseteq Nat \ {0}
        /\ hw.fp16 % 4 = 0

Max2(a, b) == IF a > b THEN a ELSE b
Min2(a, b) == IF a < b THEN a ELSE b
Ceiling(a, b) == (a + b - 1) \div b

\* HardwareConfig.__post_init__: peaks that are not given follow from others.
\* A peak twice as high has half the time of a flop.
WithPeaks(hw) ==
  LET Or(given, derived) == IF given = 0 THEN derived ELSE given
      int8 == Or(hw.int8, hw.fp16 \div 2)
  IN  [hw EXCEPT !.bf16   = Or(hw.bf16, hw.fp16),
                 !.int8   = int8,
                 !.fp8    = Or(hw.fp8, int8),
                 !.fp4    = Or(hw.fp4, IF hw.hasFp4 THEN hw.fp16 \div 4 ELSE 0),
                 !.vector = Or(hw.vector, hw.fp16)]

Canonical(name) == IF name \in DOMAIN Aliases THEN Aliases[name] ELSE name

Known(name) == Canonical(name) \in DOMAIN Presets

\* get_hardware_config, of a known name: the config keeps the name it was
\* asked for, and no preset carries efficiencies.
HardwareConfig(name) ==
  LET preset == Presets[Canonical(name)]
      own    == [name |-> name, computeEff |-> 1, memEff |-> 1, commEff |-> 1]
  IN  WithPeaks([f \in DOMAIN own \cup DOMAIN preset |->
                   IF f \in DOMAIN own THEN own[f] ELSE preset[f]])

\* dataclasses.replace with the efficiencies that are given.
WithEfficiencies(hw, given) ==
  LET Given(field) == IF given[field] = NONE THEN hw[field] ELSE given[field]
  IN  WithPeaks([hw EXCEPT !.computeEff = Given("computeEff"), !.memEff = Given("memEff"),
                           !.commEff = Given("commEff")])

\* HardwareProfile.from_legacy; what is read of it is read from these parts.
HardwareProfile(hw) ==
  LET Part(fields) == [f \in fields |-> hw[f]]
  IN  [name          |-> hw.name,
       compute       |-> Part({"fp16", "bf16", "int8", "fp8", "fp4", "hasFp4", "vector"}),
       memory        |-> Part({"memByte", "capacity", "onchip"}),
       topology      |-> Part({"link", "nodeSize", "topology", "protocol", "gpusPerRoot",
                               "numRoots", "gpuToRoot", "stepLatency", "sharp", "nvlsModel",
                               "interLink", "interLatency"}),
       communication |-> hw.communication,
       computeEff    |-> hw.computeEff,
       memEff        |-> hw.memEff,
       commEff       |-> hw.commEff,
       floor         |-> hw.floor,
       overhead      |-> hw.overhead,
       bias          |-> hw.bias]

\* effective_peak_*, effective_vector_flops, effective_mem_bandwidth.
EffectivePeak(hw, precision) == hw.compute[precision] * hw.computeEff
EffectiveMemory(hw)          == hw.memory.memByte * hw.memEff

-----------------------------------------------------------------------------
(* Links.  A placement is [hint, visible]: where the ranks of a collective *)
(* are assumed to be, and the devices they are known to be on (<<>> when   *)
(* they are not known).                                                    *)

Hints == {"concentrated", "balanced"}

RootOf(t, gpu) ==
  IF gpu \in DOMAIN t.gpuToRoot THEN t.gpuToRoot[gpu] ELSE gpu \div Max2(t.gpusPerRoot, 1)

\* The devices of a machine, as device.py counts them: so many roots, with at
\* most so many devices each.  A preset that maps devices to roots keeps to it.
Devices(t) == 0 .. t.gpusPerRoot * t.numRoots - 1

ASSUME RootsOK ==
  \A name \in DOMAIN Presets :
    LET hw == Presets[name]
        On(root) == {gpu \in Devices(hw) : RootOf(hw, gpu) = root}
    IN  /\ {"topology", "gpusPerRoot", "numRoots", "gpuToRoot"} \subseteq DOMAIN hw
        /\ {hw.gpusPerRoot, hw.numRoots} \subseteq Nat \ {0}
        /\ DOMAIN hw.gpuToRoot # {} =>
             /\ \A gpu \in Devices(hw) : RootOf(hw, gpu) \in 0 .. hw.numRoots - 1
             /\ \A root \in 0 .. hw.numRoots - 1 : Cardinality(On(root)) <= hw.gpusPerRoot

\* Mutant: ranks are spread over the roots as many as fit.
RanksPerRootFloor(t, n, place) ==
  IF place.visible # <<>> THEN n
  ELSE IF place.hint = "balanced" THEN n \div Max2(t.numRoots, 1) ELSE Min2(n, t.gpusPerRoot)

\* _estimate_n_per_root: the ranks that share the busiest root.  A hint that
\* is not known counts as "concentrated".
RanksPerRoot(t, n, place) ==
  IF place.visible # <<>>
    THEN LET gpus == SubSeq(place.visible, 1, Min2(n, Len(place.visible)))
             On(r) == Cardinality({i \in DOMAIN gpus : RootOf(t, gpus[i]) = r})
         IN  CHOOSE most \in 1..Len(gpus) :
               /\ \E i \in DOMAIN gpus : On(RootOf(t, gpus[i])) = most
               /\ \A i \in DOMAIN gpus : On(RootOf(t, gpus[i])) <= most
    ELSE IF place.hint = "balanced" THEN Ceiling(n, Max2(t.numRoots, 1))
                                    ELSE Min2(n, t.gpusPerRoot)

Contention(t, n, place) ==
  IF t.topology = "pcie_shared_root" THEN Max2(RanksPerRoot(t, n, place), 1) ELSE 1

\* 1 / effective_intra_bw
IntraByte(hw, n, place) ==
  hw.topology.link * hw.commEff * hw.topology.protocol * Contention(hw.topology, n, place)

\* 1 / effective_inter_bw
InterByte(hw) == hw.topology.interLink * hw.commEff
=============================================================================
