---------------------------- MODULE StartupProofs -----------------------------
(***************************************************************************)
(* What is proved of Startup, for every configuration, environment, set of *)
(* files, preset table and number of ranks and edits: a rank is sized for  *)
(* the scenario it prices with, no refused feature reaches a rank, ranks   *)
(* that have read different files differ in nothing the environment or     *)
(* vLLM's configuration decides, and the hints of where ranks are placed   *)
(* bracket every placement.  And for every model: the weights sized for a  *)
(* rank are those its operators multiply with, but for latent attention,   *)
(* and the blocks of the KV cache fit every rank beside them.  And for     *)
(* every machine: no collective takes less time than its bytes need on the *)
(* link, and none takes less for more of them.                             *)
(***************************************************************************)
EXTENDS Startup, SumLemmas, SequenceTheorems

-----------------------------------------------------------------------------
\* load_sim_overlay of a process that remembers a file returns it
\* (sim_overlay.py:181-197).
LEMMA OverlayRemembered ==
  ASSUME NEW cache, cache # NONE
  PROVE  Overlay(cache) = cache
BY DEF Overlay

\* Every error of the extractor but one is no refused backend, and none is
\* the one a late failure is called by.
LEMMA ErrorsOfExtract ==
  ASSUME NEW overlay
  PROVE  /\ ExtractError(config, overlay) # "late"
         /\ ~ BackendRaises(config.backend) => ExtractError(config, overlay) # "UnsupportedBackend"
BY InputsOK DEF Errors, ExtractError

\* One reading of the file: initially, and after every step.
LEMMA ReadOnceInit == Init => ReadOnce
<1> SUFFICES ASSUME Init PROVE ReadOnce
  OBVIOUS
<1>1. PICK input \in Inputs : config = input.config /\ env = input.env
  BY DEF Init
<1>2. \A r \in Ranks : worker[r] = NewProcess
  BY DEF Init, Ranks
<1>3. /\ NewProcess.phase = "new" /\ NewProcess.scenario = NONE /\ NewProcess.cache = NONE
      /\ NewProcess.error = NONE
  BY DEF NewProcess
<1>4. TypeOK
  <2>1. {"features", "kvTransfer", "backend"} \subseteq DOMAIN config
    BY <1>1, InputsOK
  <2>2. edits \in 0..MaxEdits /\ gate = "waiting"
    BY BoundsOK DEF Init
  <2> QED
    BY <1>2, <1>3, <2>1, <2>2 DEF TypeOK
<1>5. GateFirst /\ Remembers
  BY <1>2, <1>3 DEF Init, GateFirst, Remembers
<1>6. OneScenarioPerProcess /\ RefusedAtTheGate
  BY <1>2, <1>3, InputsOK DEF Errors, OneScenarioPerProcess, RefusedAtTheGate
<1> QED
  BY <1>4, <1>5, <1>6 DEF ReadOnce

LEMMA EditInv ==
  ASSUME ReadOnce, Edit
  PROVE  ReadOnce'
<1>1. /\ edits' = edits + 1 /\ edits < MaxEdits /\ edits \in 0..MaxEdits
      /\ UNCHANGED <<config, env, gate, worker>>
  BY DEF Edit, ReadOnce, TypeOK
<1>2. edits' \in 0..MaxEdits /\ edits' # 0
  BY <1>1, BoundsOK
<1>3. Ranks' = Ranks
  BY <1>1 DEF Ranks
<1>4. TypeOK'
  BY <1>1, <1>2, <1>3 DEF ReadOnce, TypeOK
<1>5. GateFirst'
  BY <1>1, <1>3 DEF ReadOnce, GateFirst, Refuses
<1>6. Remembers'
  <2>1. ASSUME NEW overlay
        PROVE  /\ Scenario(config, overlay)' = Scenario(config, overlay)
               /\ ExtractError(config, overlay)' = ExtractError(config, overlay)
               /\ TimeMode(overlay)' = TimeMode(overlay)
    BY <1>1 DEF Scenario, ExtractError, TimeMode, HardwareName, HardwareOf, Calibration, PDConfig,
       TopologyOfScenario
  <2> QED
    BY <1>1, <1>2, <1>3, <2>1 DEF ReadOnce, Remembers
<1>7. OneScenarioPerProcess' /\ RefusedAtTheGate'
  BY <1>1, <1>3 DEF ReadOnce, OneScenarioPerProcess, RefusedAtTheGate
<1> QED
  BY <1>4, <1>5, <1>6, <1>7 DEF ReadOnce

LEMMA GateInv ==
  ASSUME ReadOnce, CheckAndUpdateConfig
  PROVE  ReadOnce'
<1>1. /\ gate = "waiting" /\ UNCHANGED <<env, edits, worker>> /\ Ranks' = Ranks
      /\ gate' \in {"inactive", "refused", "passed"}
      /\ gate' = "passed" => /\ ~ Refuses(config)
                             /\ config' = [config EXCEPT !.asyncScheduling = FALSE]
      /\ config' = config \/ config' = [config EXCEPT !.asyncScheduling = FALSE]
  BY DEF CheckAndUpdateConfig, Ranks
<1>2. \A r \in Ranks : worker[r].phase = "new"
  BY <1>1 DEF ReadOnce, GateFirst
<1>3. /\ DOMAIN config' = DOMAIN config /\ config'.features = config.features
      /\ config'.kvTransfer = config.kvTransfer /\ config'.backend = config.backend
  BY <1>1 DEF ReadOnce, TypeOK
<1>4. TypeOK'
  BY <1>1, <1>3 DEF ReadOnce, TypeOK
<1>5. GateFirst'
  BY <1>1, <1>2, <1>3 DEF GateFirst, Refuses
<1>6. Remembers'
  BY <1>1, <1>2 DEF ReadOnce, Remembers
<1>7. OneScenarioPerProcess' /\ RefusedAtTheGate'
  BY <1>1 DEF ReadOnce, OneScenarioPerProcess, RefusedAtTheGate
<1> QED
  BY <1>4, <1>5, <1>6, <1>7 DEF ReadOnce

\* A worker is replaced by one that keeps the invariant.
LEMMA WorkerInv ==
  ASSUME ReadOnce, NEW r \in Ranks, gate = "passed", NEW p,
         worker' = [worker EXCEPT ![r] = p],
         UNCHANGED <<config, env, file, edits, gate>>,
         DOMAIN p = DOMAIN NewProcess,
         \/ /\ p.phase = "failed" /\ p.cache = NONE /\ p.scenario = NONE
         \/ /\ p.phase \in {"loaded", "sized"} /\ p.cache # NONE
            /\ edits = 0 => p.cache = Overlay(NONE)
            /\ ExtractError(config, p.cache) = NONE
            /\ p.scenario = Scenario(config, p.cache)
            /\ p.timeMode = TimeMode(p.cache),
         p.phase = "sized" => p.sizedFor = p.scenario,
         p.error \notin {"late", "UnsupportedBackend"}
  PROVE  ReadOnce'
<1>1. /\ Ranks' = Ranks /\ worker'[r] = p
      /\ \A q \in Ranks \ {r} : worker'[q] = worker[q]
  BY DEF Ranks
<1>2. p.phase \in {"failed", "loaded", "sized"}
  OBVIOUS
<1>3. TypeOK'
  BY <1>1, <1>2 DEF ReadOnce, TypeOK
<1>4. GateFirst'
  BY <1>1 DEF ReadOnce, GateFirst, Refuses
<1>5. Remembers'
  <2>1. ASSUME NEW overlay
        PROVE  /\ Scenario(config, overlay)' = Scenario(config, overlay)
               /\ ExtractError(config, overlay)' = ExtractError(config, overlay)
               /\ TimeMode(overlay)' = TimeMode(overlay)
               /\ Overlay(overlay)' = Overlay(overlay)
    BY DEF Scenario, ExtractError, TimeMode, HardwareName, HardwareOf, Calibration, PDConfig,
       TopologyOfScenario, Overlay
  <2> QED
    BY <1>1, <2>1 DEF ReadOnce, Remembers
<1>6. OneScenarioPerProcess' /\ RefusedAtTheGate'
  BY <1>1 DEF ReadOnce, OneScenarioPerProcess, RefusedAtTheGate
<1> QED
  BY <1>3, <1>4, <1>5, <1>6 DEF ReadOnce

LEMMA LoadInv ==
  ASSUME ReadOnce, NEW r \in Ranks, LoadModel(r)
  PROVE  ReadOnce'
<1> DEFINE overlay == Overlay(worker[r].cache)
           error   == IF overlay = NONE THEN "ValueError"
                      ELSE IF ExtractError(config, overlay) # NONE
                             THEN ExtractError(config, overlay)
                      ELSE IF ~ HasGraph(config.hf) THEN "ValueError" ELSE NONE
           p       == IF error # NONE
                        THEN [worker[r] EXCEPT !.phase = "failed", !.error = error]
                        ELSE [worker[r] EXCEPT !.phase = "loaded", !.cache = overlay,
                                               !.scenario = Scenario(config, overlay),
                                               !.timeMode = TimeMode(overlay)]
<1>1. /\ gate = "passed" /\ worker[r].phase = "new"
      /\ worker' = [worker EXCEPT ![r] = p]
      /\ UNCHANGED <<config, env, file, edits, gate>>
  BY DEF LoadModel
<1>2. /\ DOMAIN worker[r] = DOMAIN NewProcess
      /\ worker[r].cache = NONE /\ worker[r].scenario = NONE
      /\ worker[r].error # "late" /\ worker[r].error # "UnsupportedBackend"
  BY <1>1 DEF ReadOnce, TypeOK, Remembers, OneScenarioPerProcess, RefusedAtTheGate
<1>3. DOMAIN NewProcess = {"phase", "cache", "scenario", "timeMode", "sizedFor", "available",
                           "error"}
  BY DEF NewProcess
<1>4. ~ BackendRaises(config.backend)
  BY <1>1 DEF ReadOnce, GateFirst, Refuses
<1>5. error \notin {"late", "UnsupportedBackend"}
  BY <1>4, InputsOK, ErrorsOfExtract DEF Errors
<1>6. error = NONE => overlay # NONE /\ ExtractError(config, overlay) = NONE
  BY InputsOK DEF Errors
<1> HIDE DEF overlay, error
<1>7. CASE error # NONE
  <2>1. p = [worker[r] EXCEPT !.phase = "failed", !.error = error]
    BY <1>7
  <2>2. /\ DOMAIN p = DOMAIN NewProcess /\ p.phase = "failed" /\ p.error = error
        /\ p.cache = NONE /\ p.scenario = NONE
    BY <1>2, <1>3, <2>1
  <2> HIDE DEF p
  <2> QED
    BY <1>1, <1>5, <2>2, WorkerInv
<1>8. CASE error = NONE
  <2>1. p = [worker[r] EXCEPT !.phase = "loaded", !.cache = overlay,
                              !.scenario = Scenario(config, overlay),
                              !.timeMode = TimeMode(overlay)]
    BY <1>8
  <2>2. /\ DOMAIN p = DOMAIN NewProcess /\ p.phase = "loaded" /\ p.cache = overlay
        /\ p.scenario = Scenario(config, overlay) /\ p.timeMode = TimeMode(overlay)
        /\ p.error = worker[r].error
    BY <1>2, <1>3, <2>1
  <2>3. overlay = Overlay(NONE)
    BY <1>2 DEF overlay
  <2> HIDE DEF p
  <2> QED
    BY <1>1, <1>2, <1>6, <1>8, <2>2, <2>3, WorkerInv
<1> QED
  BY <1>7, <1>8

LEMMA DetermineInv ==
  ASSUME ReadOnce, NEW r \in Ranks, DetermineAvailableMemory(r)
  PROVE  ReadOnce'
<1> DEFINE overlay == worker[r].cache
           scenario == Scenario(config, overlay)
           p == [worker[r] EXCEPT !.phase = "sized", !.sizedFor = scenario,
                                  !.available = AvailableMemory(scenario)]
<1>1. /\ gate = "passed" /\ worker[r].phase = "loaded"
      /\ UNCHANGED <<config, env, file, edits, gate>>
  BY DEF DetermineAvailableMemory
<1>2. /\ overlay # NONE
      /\ edits = 0 => overlay = Overlay(NONE)
      /\ ExtractError(config, overlay) = NONE
      /\ worker[r].scenario = scenario /\ worker[r].timeMode = TimeMode(overlay)
      /\ worker[r].error # "late" /\ worker[r].error # "UnsupportedBackend"
  BY <1>1 DEF ReadOnce, Remembers, OneScenarioPerProcess, RefusedAtTheGate
<1>3. Overlay(worker[r].cache) = overlay
  BY <1>2, OverlayRemembered
<1>4. worker' = [worker EXCEPT ![r] = p]
  BY <1>2, <1>3 DEF DetermineAvailableMemory
<1>5. DOMAIN worker[r] = {"phase", "cache", "scenario", "timeMode", "sizedFor", "available",
                          "error"}
  BY DEF ReadOnce, TypeOK, NewProcess
<1> HIDE DEF scenario
<1>6. /\ DOMAIN p = DOMAIN worker[r] /\ p.phase = "sized" /\ p.sizedFor = scenario
      /\ p.cache = overlay /\ p.scenario = worker[r].scenario
      /\ p.timeMode = worker[r].timeMode /\ p.error = worker[r].error
  BY <1>5
<1>7. DOMAIN p = DOMAIN NewProcess
  BY <1>6 DEF ReadOnce, TypeOK
<1>8. p.scenario = Scenario(config, p.cache)
  BY <1>2, <1>6 DEF scenario
<1> HIDE DEF p
<1> QED
  BY <1>1, <1>2, <1>4, <1>6, <1>7, <1>8, WorkerInv

LEMMA PoolInv ==
  ASSUME ReadOnce, InitializeFromConfig
  PROVE  ReadOnce'
<1>1. /\ gate = "passed" /\ gate' = "ready" /\ UNCHANGED <<config, env, file, edits, worker>>
      /\ Ranks' = Ranks
  BY DEF InitializeFromConfig, Ranks
<1>2. TypeOK' /\ GateFirst'
  BY <1>1 DEF ReadOnce, TypeOK, GateFirst, Refuses
<1>3. Remembers'
  <2>1. ASSUME NEW overlay
        PROVE  /\ Scenario(config, overlay)' = Scenario(config, overlay)
               /\ ExtractError(config, overlay)' = ExtractError(config, overlay)
               /\ TimeMode(overlay)' = TimeMode(overlay)
               /\ Overlay(overlay)' = Overlay(overlay)
    BY <1>1 DEF Scenario, ExtractError, TimeMode, HardwareName, HardwareOf, Calibration, PDConfig,
       TopologyOfScenario, Overlay
  <2> QED
    BY <1>1, <2>1 DEF ReadOnce, Remembers
<1>4. OneScenarioPerProcess' /\ RefusedAtTheGate'
  BY <1>1 DEF ReadOnce, OneScenarioPerProcess, RefusedAtTheGate
<1> QED
  BY <1>2, <1>3, <1>4 DEF ReadOnce

LEMMA ReadOnceNext == ReadOnce /\ [Next]_vars => ReadOnce'
<1> SUFFICES ASSUME ReadOnce, [Next]_vars PROVE ReadOnce'
  OBVIOUS
<1>1. CASE Next
  BY <1>1, EditInv, GateInv, LoadInv, DetermineInv, PoolInv DEF Next
<1>2. CASE UNCHANGED vars
  <2>1. ASSUME NEW overlay
        PROVE  /\ Scenario(config, overlay)' = Scenario(config, overlay)
               /\ ExtractError(config, overlay)' = ExtractError(config, overlay)
               /\ TimeMode(overlay)' = TimeMode(overlay)
               /\ Overlay(overlay)' = Overlay(overlay)
    BY <1>2 DEF vars, Scenario, ExtractError, TimeMode, HardwareName, HardwareOf, Calibration,
       PDConfig, TopologyOfScenario, Overlay
  <2>2. TypeOK' /\ GateFirst' /\ OneScenarioPerProcess' /\ RefusedAtTheGate'
    BY <1>2 DEF vars, ReadOnce, TypeOK, GateFirst, Refuses, OneScenarioPerProcess, RefusedAtTheGate,
       Ranks
  <2>3. Remembers'
    BY <1>2, <2>1 DEF vars, ReadOnce, Remembers, Ranks
  <2> QED
    BY <2>2, <2>3 DEF ReadOnce
<1> QED
  BY <1>1, <1>2

\* The files that were there, and what was made of them, stay known.
LEMMA FilesReadNext ==
  ASSUME ReadOnce, FilesRead, [Next]_vars
  PROVE  FilesRead'
<1> DEFINE Read(cache) == \/ cache \in {NONE, SimOverlay(NoFile)}
                          \/ \E raw \in Files \ {NONE} : WellFormed(raw) /\ cache = SimOverlay(raw)
<1>1. file \in Files /\ \A r \in Ranks : Read(worker[r].cache)
  BY DEF FilesRead
<1>2. \A cache : Read(cache) => Read(Overlay(cache))
  BY <1>1, Zenon DEF Overlay
<1>4. \A r \in Ranks : {"phase", "cache", "available", "scenario"} \subseteq DOMAIN worker[r]
  BY DEF ReadOnce, TypeOK, NewProcess
<1> HIDE DEF Read
<1> DEFINE Kept == file' \in Files /\ Ranks' = Ranks /\ \A r \in Ranks : Read(worker'[r].cache)
<1>3. Kept
  <2>1. CASE Edit
    BY <1>1, <2>1 DEF Edit, Ranks
  <2>2. CASE CheckAndUpdateConfig
    BY <1>1, <2>2 DEF CheckAndUpdateConfig, Ranks
  <2>3. CASE InitializeFromConfig
    BY <1>1, <2>3 DEF InitializeFromConfig, Ranks
  <2>4. ASSUME NEW r \in Ranks, LoadModel(r) PROVE Kept
    <3> DEFINE overlay == Overlay(worker[r].cache)
    <3>1. /\ UNCHANGED file /\ Ranks' = Ranks
          /\ worker'[r].cache \in {worker[r].cache, overlay}
          /\ \A q \in Ranks \ {r} : worker'[q] = worker[q]
      <4>1. PICK p : /\ worker' = [worker EXCEPT ![r] = p]
                     /\ \/ \E error : p = [worker[r] EXCEPT !.phase = "failed", !.error = error]
                        \/ p = [worker[r] EXCEPT !.phase = "loaded", !.cache = overlay,
                                                 !.scenario = Scenario(config, overlay),
                                                 !.timeMode = TimeMode(overlay)]
        BY <2>4 DEF LoadModel
      <4>2. p.cache \in {worker[r].cache, overlay}
        <5> HIDE DEF overlay
        <5> QED
          BY <4>1, <1>4
      <4> QED
        BY <2>4, <4>1, <4>2 DEF LoadModel, Ranks
    <3>2. Read(overlay)
      BY <1>1, <1>2
    <3> QED
      BY <1>1, <3>1, <3>2
  <2>5. ASSUME NEW r \in Ranks, DetermineAvailableMemory(r) PROVE Kept
    <3>1. /\ UNCHANGED file /\ Ranks' = Ranks
          /\ worker'[r].cache = worker[r].cache
          /\ \A q \in Ranks \ {r} : worker'[q] = worker[q]
      <4>1. PICK p : /\ worker' = [worker EXCEPT ![r] = p]
                     /\ \/ p = [worker[r] EXCEPT !.phase = "failed", !.error = "late"]
                        \/ \E s, room : p = [worker[r] EXCEPT !.phase = "sized", !.sizedFor = s,
                                                              !.available = room]
        BY <2>5 DEF DetermineAvailableMemory
      <4>2. p.cache = worker[r].cache
        BY <4>1, <1>4
      <4> QED
        BY <2>5, <4>1, <4>2 DEF DetermineAvailableMemory, Ranks
    <3> QED
      BY <1>1, <3>1
  <2>6. CASE UNCHANGED vars
    BY <1>1, <2>6 DEF vars, Ranks
  <2> QED
    BY <2>1, <2>2, <2>3, <2>4, <2>5, <2>6 DEF Next
<1> QED
  BY <1>3 DEF FilesRead, Read

\* What vLLM has checked stays checked, and decides the pages.
LEMMA ConfigKept ==
  ASSUME Checked(config), NEW cfg, cfg = config \/ cfg = [config EXCEPT !.asyncScheduling = FALSE]
  PROVE  /\ Checked(cfg) /\ PageBytes(cfg) = PageBytes(config) /\ cfg.hf = config.hf
         /\ cfg.tp = config.tp
<1>1. DOMAIN cfg = DOMAIN config
  OBVIOUS
<1>2. /\ cfg.hf = config.hf /\ cfg.tp = config.tp /\ cfg.dp = config.dp
      /\ cfg.blockSize = config.blockSize /\ cfg.maxBatched = config.maxBatched
      /\ cfg.utilization = config.utilization /\ cfg.dtypeWidth = config.dtypeWidth
      /\ cfg.cacheDtype = config.cacheDtype
  BY DEF Checked
<1>3. Checked(cfg)
  BY <1>1, <1>2 DEF Checked
<1>4. PageBytes(cfg) = PageBytes(config)
  BY <1>2 DEF PageBytes, KvWidth
<1> QED
  BY <1>2, <1>3, <1>4

\* The room of a sized rank and the number of blocks are counted once.
LEMMA PoolCountedNext ==
  ASSUME ReadOnce, PoolCounted, [Next]_vars
  PROVE  PoolCounted'
<1> DEFINE Pages == config.hf.model_type \in DOMAIN Adapters => PageBytes(config) > 0
           Room  == \A r \in Ranks : worker[r].phase = "sized"
                                       => worker[r].available = AvailableMemory(worker[r].scenario)
           Pool  == numBlocks = Min({worker[r].available : r \in Ranks})
                                  \div (PageBytes(config) * config.hf.num_hidden_layers)
<1>1. Checked(config) /\ Pages /\ Ranks = 0 .. config.tp - 1 /\ Room
      /\ (gate = "ready" => (\A r \in Ranks : worker[r].phase = "sized") /\ Pool)
  BY DEF PoolCounted
<1>2. \A r \in Ranks : {"phase", "cache", "available", "scenario"} \subseteq DOMAIN worker[r]
  BY DEF ReadOnce, TypeOK, NewProcess
<1>3. ASSUME UNCHANGED config, NEW s PROVE AvailableMemory(s)' = AvailableMemory(s)
  BY <1>3 DEF AvailableMemory, Budget, Used
<1>4. ASSUME UNCHANGED <<config, gate, worker, numBlocks>> PROVE PoolCounted'
  <2>1. Ranks' = Ranks /\ UNCHANGED config
    BY <1>4 DEF Ranks
  <2>2. Room'
    BY <1>1, <1>3, <1>4, <2>1
  <2> QED
    BY <1>1, <1>4, <2>1, <2>2 DEF PoolCounted, Checked, PageBytes, KvWidth
<1>5. CASE CheckAndUpdateConfig
  <2>1. /\ gate = "waiting" /\ gate' # "ready" /\ UNCHANGED <<worker, numBlocks>> /\ Ranks' = Ranks
        /\ config' = config \/ config' = [config EXCEPT !.asyncScheduling = FALSE]
    BY <1>5 DEF CheckAndUpdateConfig, Ranks
  <2>2. \A r \in Ranks : worker[r].phase = "new"
    BY <2>1 DEF ReadOnce, GateFirst
  <2>3. /\ Checked(config') /\ PageBytes(config') = PageBytes(config) /\ config'.hf = config.hf
        /\ config'.tp = config.tp
    BY <1>1, <2>1, ConfigKept
  <2> QED
    BY <1>1, <2>1, <2>2, <2>3 DEF PoolCounted
<1>6. ASSUME NEW r \in Ranks, NEW p, gate = "passed", worker' = [worker EXCEPT ![r] = p],
             UNCHANGED <<config, gate, numBlocks>>,
             p.phase = "sized" => p.available = AvailableMemory(p.scenario)
      PROVE  PoolCounted'
  <2>1. Ranks' = Ranks /\ worker'[r] = p /\ \A q \in Ranks \ {r} : worker'[q] = worker[q]
    BY <1>6 DEF Ranks
  <2>2. Room'
    BY <1>1, <1>3, <1>6, <2>1
  <2> QED
    BY <1>1, <1>6, <2>1, <2>2 DEF PoolCounted
<1>7. ASSUME NEW r \in Ranks, LoadModel(r) PROVE PoolCounted'
  <2>1. PICK p : /\ worker' = [worker EXCEPT ![r] = p]
                 /\ \/ \E error : p = [worker[r] EXCEPT !.phase = "failed", !.error = error]
                    \/ \E overlay : p = [worker[r] EXCEPT !.phase = "loaded", !.cache = overlay,
                                               !.scenario = Scenario(config, overlay),
                                               !.timeMode = TimeMode(overlay)]
    BY <1>7 DEF LoadModel
  <2>2. p.phase # "sized"
    BY <1>2, <2>1
  <2> QED
    BY <1>6, <1>7, <2>1, <2>2 DEF LoadModel
<1>8. ASSUME NEW r \in Ranks, DetermineAvailableMemory(r) PROVE PoolCounted'
  <2> DEFINE scenario == Scenario(config, worker[r].cache)
             p == [worker[r] EXCEPT !.phase = "sized", !.sizedFor = scenario,
                                    !.available = AvailableMemory(scenario)]
  <2>1. /\ worker[r].cache # NONE /\ ExtractError(config, worker[r].cache) = NONE
        /\ worker[r].scenario = scenario
    BY <1>8 DEF DetermineAvailableMemory, ReadOnce, Remembers
  <2>2. worker' = [worker EXCEPT ![r] = p]
    BY <1>8, <2>1, OverlayRemembered DEF DetermineAvailableMemory
  <2> HIDE DEF scenario
  <2>3. p.available = AvailableMemory(p.scenario)
    BY <1>2, <2>1
  <2> HIDE DEF p
  <2> QED
    BY <1>6, <1>8, <2>2, <2>3 DEF DetermineAvailableMemory
<1>9. CASE InitializeFromConfig
  <2>1. /\ UNCHANGED <<config, worker>> /\ Ranks' = Ranks
        /\ \A r \in Ranks : worker[r].phase = "sized"
        /\ numBlocks' = Min({worker[r].available : r \in Ranks})
                          \div (PageBytes(config) * config.hf.num_hidden_layers)
    BY <1>9 DEF InitializeFromConfig, Ranks
  <2>2. Room'
    BY <1>1, <1>3, <2>1
  <2>3. Pool'
    BY <2>1 DEF PageBytes, KvWidth
  <2> QED
    BY <1>1, <2>1, <2>2, <2>3 DEF PoolCounted, Checked, PageBytes, KvWidth
<1> QED
  BY <1>4, <1>5, <1>7, <1>8, <1>9 DEF Next, vars, Edit

\* The inductive invariant, initially and after every step.
LEMMA InvInit == Init => IInv
<1> SUFFICES ASSUME Init PROVE IInv
  OBVIOUS
<1>1. PICK input \in Inputs : config = input.config /\ env = input.env
  BY DEF Init
<1>2. /\ Ranks = 0 .. config.tp - 1 /\ (\A r \in Ranks : worker[r] = NewProcess)
      /\ gate = "waiting" /\ file \in Files
  BY DEF Init, Ranks
<1>3. NewProcess.phase = "new" /\ NewProcess.cache = NONE
  BY DEF NewProcess
<1>4. FilesRead
  BY <1>2, <1>3 DEF FilesRead
<1>5. PoolCounted
  BY <1>1, <1>2, <1>3, InputsChecked, PagesOK DEF PoolCounted
<1> QED
  BY <1>4, <1>5, ReadOnceInit DEF IInv

LEMMA InvNext == IInv /\ [Next]_vars => IInv'
BY ReadOnceNext, FilesReadNext, PoolCountedNext DEF IInv

-----------------------------------------------------------------------------
\* The inductive invariant holds in every reachable state: a rank is sized for
\* what it prices with, no refused feature reaches a rank, what a rank has read
\* was well formed, and the pool is counted from what the ranks were sized for.
THEOREM InvCorrect == Spec => []IInv
BY InvInit, InvNext, PTL DEF Spec

-----------------------------------------------------------------------------
(* What two ranks may differ in                                            *)

\* Whatever efficiencies the file gives, a profile has the name it was asked
\* for, and the memory efficiency it was given (profile_extractor.py:130-149).
LEMMA ProfileKeeps ==
  ASSUME NEW name, NEW given
  PROVE  LET hw == HardwareProfile(WithEfficiencies(HardwareConfig(name), given))
         IN  /\ hw.name = name
             /\ given["memEff"] # NONE => hw.memEff = given["memEff"]
<1> DEFINE own   == [name |-> name, computeEff |-> 1, memEff |-> 1, commEff |-> 1]
           base  == [f \in DOMAIN own \cup DOMAIN Presets[Canonical(name)] |->
                       IF f \in DOMAIN own THEN own[f] ELSE Presets[Canonical(name)][f]]
           asked == HardwareConfig(name)
           Given(field) == IF given[field] = NONE THEN asked[field] ELSE given[field]
           eff   == [asked EXCEPT !.computeEff = Given("computeEff"), !.memEff = Given("memEff"),
                                  !.commEff = Given("commEff")]
           full  == WithEfficiencies(asked, given)
<1>1. {"name", "memEff"} \subseteq DOMAIN base /\ base["name"] = name
  <2>1. {"name", "memEff"} \subseteq DOMAIN own /\ own["name"] = name
    OBVIOUS
  <2> HIDE DEF own
  <2> QED
    BY <2>1
<1>2. asked = WithPeaks(base)
  BY DEF HardwareConfig
<1>3. DOMAIN asked = DOMAIN base /\ asked["name"] = base["name"]
  <2> HIDE DEF base
  <2> QED
    BY <1>1, <1>2 DEF WithPeaks
<1> HIDE DEF asked
<1>4. /\ DOMAIN eff = DOMAIN asked /\ eff["name"] = asked["name"]
      /\ eff["memEff"] = Given("memEff")
  BY <1>1, <1>3
<1>5. full = WithPeaks(eff)
  BY DEF WithEfficiencies
<1>6. full["name"] = eff["name"] /\ full["memEff"] = eff["memEff"]
  <2> HIDE DEF eff
  <2> QED
    BY <1>1, <1>3, <1>4, <1>5 DEF WithPeaks
<1> HIDE DEF full, eff
<1>7. HardwareProfile(full).name = full["name"] /\ HardwareProfile(full).memEff = full["memEff"]
  BY DEF HardwareProfile
<1> QED
  BY <1>1, <1>3, <1>4, <1>6, <1>7 DEF full, asked

\* What a scenario has in common with every other one of the same engine.
LEMMA ScenarioKeeps ==
  ASSUME NEW a, NEW b
  PROVE  LET s == Scenario(config, a)
             t == Scenario(config, b)
         IN  /\ s.model = t.model /\ s.tp = t.tp /\ s.ep = t.ep /\ s.mode = t.mode
             /\ env.hw # NONE => s.hardware.name = t.hardware.name
             /\ env.memEff # NONE => s.hardware.memEff = t.hardware.memEff
             /\ env.hint # NONE => s.hint = t.hint
             /\ env.pd # NONE /\ env.pd.role \in Roles => s.pd = t.pd
             /\ env.timeMode # NONE => TimeMode(a) = TimeMode(b)
<1> DEFINE s == Scenario(config, a)
           t == Scenario(config, b)
<1>1. /\ s.model = ModelOf(config.hf) /\ t.model = ModelOf(config.hf)
      /\ s.tp = config.tp /\ t.tp = config.tp /\ s.ep = t.ep /\ s.mode = t.mode
      /\ s.hint = TopologyOfScenario(a) /\ t.hint = TopologyOfScenario(b)
      /\ s.pd = PDConfig(config, a) /\ t.pd = PDConfig(config, b)
      /\ s.hardware = HardwareProfile(HardwareOf(a)) /\ t.hardware = HardwareProfile(HardwareOf(b))
  BY DEF Scenario
<1> HIDE DEF s, t
<1>2. ASSUME NEW overlay
      PROVE  /\ HardwareProfile(HardwareOf(overlay)).name = HardwareName(overlay)
             /\ env.memEff # NONE => HardwareProfile(HardwareOf(overlay)).memEff = env.memEff
  <2> DEFINE given == [computeEff |-> overlay.hardware.compute_efficiency,
                       memEff     |-> Or(env.memEff, overlay.hardware.mem_efficiency),
                       commEff    |-> overlay.hardware.comm_efficiency]
  <2>1. HardwareOf(overlay) = WithEfficiencies(HardwareConfig(HardwareName(overlay)), given)
    BY DEF HardwareOf
  <2>2. env.memEff # NONE => given["memEff"] = env.memEff
    BY DEF Or
  <2> HIDE DEF given
  <2> QED
    BY <2>1, <2>2, ProfileKeeps
<1>3. env.hw # NONE => HardwareName(a) = HardwareName(b)
  BY DEF HardwareName, Or
<1>4. env.hint # NONE => TopologyOfScenario(a) = TopologyOfScenario(b)
  BY DEF TopologyOfScenario, Or
<1>5. env.pd # NONE /\ env.pd.role \in Roles => PDConfig(config, a) = PDConfig(config, b)
  BY DEF PDConfig
<1>6. env.timeMode # NONE => TimeMode(a) = TimeMode(b)
  BY DEF TimeMode, Or
<1> QED
  BY <1>1, <1>2, <1>3, <1>4, <1>5, <1>6 DEF s, t

\* Ranks that read different files differ only in what the environment leaves
\* open, and ranks that read the same one do not differ
\* (sim_overlay.py:181-197, profile_extractor.py:36-205).
THEOREM RanksDifferOnlyByTheFileAlways == Spec => []RanksDifferOnlyByTheFile
<1>1. ASSUME IInv PROVE RanksDifferOnlyByTheFile
  <2> SUFFICES ASSUME NEW r \in Running, NEW q \in Running
               PROVE  LET s == worker[r].scenario
                          t == worker[q].scenario
                      IN  /\ edits = 0 => s = t /\ worker[r].timeMode = worker[q].timeMode
                          /\ <<s.model, s.tp, s.ep, s.mode>> = <<t.model, t.tp, t.ep, t.mode>>
                          /\ env.hw # NONE => s.hardware.name = t.hardware.name
                          /\ env.memEff # NONE => s.hardware.memEff = t.hardware.memEff
                          /\ env.hint # NONE => s.hint = t.hint
                          /\ env.pd # NONE /\ env.pd.role \in Roles => s.pd = t.pd
                          /\ env.timeMode # NONE => worker[r].timeMode = worker[q].timeMode
    BY DEF RanksDifferOnlyByTheFile
  <2>1. \A p \in Running : /\ edits = 0 => worker[p].cache = Overlay(NONE)
                           /\ worker[p].scenario = Scenario(config, worker[p].cache)
                           /\ worker[p].timeMode = TimeMode(worker[p].cache)
    BY <1>1 DEF IInv, ReadOnce, Remembers, Running
  <2> QED
    BY <2>1, ScenarioKeeps
<1> QED
  BY <1>1, InvCorrect, PTL

-----------------------------------------------------------------------------
(* Placements on the roots of a machine.                                   *)

\* As many ranks as roots hold, each of them no more than the busiest one.
LEMMA SpreadOverRoots ==
  ASSUME NEW n \in Nat, NEW roots \in Nat, NEW most \in Nat, NEW root,
         \A i \in 1..n : root[i] \in 0 .. roots - 1,
         \A k \in 0 .. roots - 1 : Cardinality({i \in 1..n : root[i] = k}) <= most
  PROVE  n <= roots * most
<1> DEFINE S        == 1..n
           Below(j) == {i \in S : root[i] < j}
           On(j)    == {i \in S : root[i] = j}
           Good     == {j \in 0..roots : Cardinality(Below(j)) <= j * most}
<1>1. IsFiniteSet(S) /\ Cardinality(S) = n
  BY FS_Interval
<1>2. \A i \in S : root[i] \in Int /\ root[i] >= 0 /\ root[i] < roots
  OBVIOUS
<1>3. \A k \in 0 .. roots - 1 : Cardinality(On(k)) <= most
  OBVIOUS
<1> HIDE DEF S
<1>4. \A T \in SUBSET S : IsFiniteSet(T) /\ Cardinality(T) \in Nat
  BY <1>1, FS_Subset, FS_CardinalityType
<1>5. 0 \in Good
  <2>1. Below(0) = {}
    BY <1>2
  <2> QED
    BY <2>1, FS_EmptySet
<1>6. ASSUME NEW j \in 0..roots, j < roots, j \in Good
      PROVE  j + 1 \in Good
  <2>1. Below(j + 1) = Below(j) \cup On(j) /\ Below(j) \cap On(j) = {}
    BY <1>2
  <2>2. Below(j) \in SUBSET S /\ On(j) \in SUBSET S
    OBVIOUS
  <2>3. Cardinality(Below(j)) <= j * most /\ Cardinality(On(j)) <= most
    BY <1>3, <1>6
  <2> HIDE DEF Below, On
  <2>4. Cardinality(Below(j) \cup On(j))
          = Cardinality(Below(j)) + Cardinality(On(j)) - Cardinality(Below(j) \cap On(j))
    BY <1>4, <2>2, FS_Union
  <2>5. Cardinality(Below(j) \cap On(j)) = 0
    BY <2>1, FS_EmptySet
  <2>6. (j + 1) * most = j * most + most /\ j * most \in Int
    BY <1>6
  <2>7. Cardinality(Below(j + 1)) <= (j + 1) * most
    <3>1. Cardinality(Below(j)) \in Nat /\ Cardinality(On(j)) \in Nat
      BY <1>4, <2>2
    <3>2. Cardinality(Below(j + 1)) = Cardinality(Below(j)) + Cardinality(On(j))
      BY <2>1, <2>4, <2>5, <3>1
    <3> DEFINE b == Cardinality(Below(j))
               c == Cardinality(On(j))
               x == j * most
    <3>3. b \in Nat /\ c \in Nat /\ x \in Int /\ b <= x /\ c <= most
      BY <2>3, <2>6, <3>1
    <3> HIDE DEF b, c, x
    <3>4. b + c <= x + most
      BY <3>3
    <3> QED
      BY <2>6, <3>2, <3>4 DEF b, c, x
  <2> QED
    BY <1>6, <2>7
<1>7. roots \in Good
  <2> HIDE DEF Good
  <2>1. \A j \in 0..roots : j < roots /\ j \in Good => j + 1 \in Good
    BY <1>6
  <2>2. 0..roots \subseteq Good
    BY <1>5, <2>1, UpToBound
  <2> QED
    BY <2>2
<1>8. Below(roots) = S
  BY <1>2
<1> QED
  BY <1>1, <1>7, <1>8

\* The devices a set of ranks runs on, one by one.
LEMMA DevicesListed ==
  ASSUME NEW used, IsFiniteSet(used)
  PROVE  LET n    == Cardinality(used)
             gpus == SubSeq(SetToSeq(used), 1, Min2(n, Len(SetToSeq(used))))
         IN  /\ n \in Nat /\ Len(gpus) = n /\ DOMAIN gpus = 1..n
             /\ \A i \in 1..n : gpus[i] \in used
             /\ \A i, j \in 1..n : gpus[i] = gpus[j] => i = j
             /\ n > 0 => SetToSeq(used) # <<>>
<1> DEFINE n    == Cardinality(used)
           list == SetToSeq(used)
           gpus == SubSeq(list, 1, n)
<1>1. n \in Nat /\ ExistsBijection(1..n, used)
  BY FS_CardinalityType
<1> HIDE DEF n
<1>2. \E f \in [1..n -> used] : IsInjective(f)
  BY <1>1 DEF ExistsBijection, Bijection, Injection
<1>3. list \in [1..n -> used] /\ IsInjective(list)
  BY <1>2 DEF SetToSeq, n
<1> HIDE DEF list
<1>4. list \in Seq(used) /\ Len(list) = n
  BY <1>1, <1>3
<1>5. Min2(n, Len(list)) = n
  BY <1>1, <1>4 DEF Min2
<1>6. /\ gpus \in Seq(used) /\ Len(gpus) = n
      /\ \A i \in 1..n : gpus[i] = list[i]
  BY <1>1, <1>3, SubSeqProperties
<1>7. DOMAIN gpus = 1..n
  BY <1>6
<1>8. \A i, j \in 1..n : list[i] = list[j] => i = j
  BY <1>3 DEF IsInjective
<1>9. n > 0 => list # <<>>
  BY <1>1, <1>4
<1> HIDE DEF gpus
<1>10. /\ \A i \in 1..n : gpus[i] \in used
       /\ \A i, j \in 1..n : gpus[i] = gpus[j] => i = j
  BY <1>3, <1>6, <1>8
<1> QED
  BY <1>1, <1>5, <1>6, <1>7, <1>9, <1>10 DEF gpus, list, n

\* The ranks that share the busiest root are those of one of the roots, and no
\* root has more (device.py:196-217).
LEMMA BusiestRoot ==
  ASSUME NEW t, NEW used, IsFiniteSet(used), used # {}, NEW hint
  PROVE  LET n     == Cardinality(used)
             place == [hint |-> hint, visible |-> SetToSeq(used)]
             gpus  == SubSeq(place.visible, 1, Min2(n, Len(place.visible)))
             On(r) == Cardinality({i \in DOMAIN gpus : RootOf(t, gpus[i]) = r})
             most  == RanksPerRoot(t, n, place)
         IN  /\ most \in 1..n
             /\ \E i \in DOMAIN gpus : On(RootOf(t, gpus[i])) = most
             /\ \A i \in DOMAIN gpus : On(RootOf(t, gpus[i])) <= most
<1> DEFINE n     == Cardinality(used)
           list  == SetToSeq(used)
           place == [hint |-> hint, visible |-> list]
           gpus  == SubSeq(place.visible, 1, Min2(n, Len(place.visible)))
           I     == DOMAIN gpus
           On(r) == Cardinality({i \in I : RootOf(t, gpus[i]) = r})
           most  == RanksPerRoot(t, n, place)
           f     == [i \in I |-> On(RootOf(t, gpus[i]))]
           M     == {f[i] : i \in I}
<1>1. n \in Nat /\ n # 0 /\ place.visible # <<>> /\ Len(gpus) = n /\ I = 1..n
  <2> DEFINE same == SubSeq(list, 1, Min2(n, Len(list)))
  <2>1. n # 0
    BY FS_EmptySet
  <2>2. /\ n \in Nat /\ Len(same) = n /\ DOMAIN same = 1..n
        /\ n > 0 => list # <<>>
    BY DevicesListed
  <2>3. place.visible = list
    OBVIOUS
  <2> HIDE DEF n, list, place
  <2>4. gpus = same
    BY <2>3
  <2> HIDE DEF gpus, same
  <2>5. list # <<>>
    BY <2>1, <2>2
  <2> QED
    BY <2>1, <2>2, <2>3, <2>4, <2>5
<1>2. IsFiniteSet(I) /\ Cardinality(I) = n
  <2> HIDE DEF n, I
  <2>1. IsFiniteSet(1..n) /\ Cardinality(1..n) = n
    BY <1>1, FS_Interval
  <2> QED
    BY <1>1, <2>1
<1>3. most = CHOOSE m \in 1..Len(gpus) : /\ \E i \in I : On(RootOf(t, gpus[i])) = m
                                         /\ \A i \in I : On(RootOf(t, gpus[i])) <= m
  <2> HIDE DEF place, n
  <2> QED
    BY <1>1 DEF RanksPerRoot
<1> HIDE DEF n, gpus, list, I, place
<1>4. ASSUME NEW i \in I PROVE f[i] \in 1..n
  <2> DEFINE P == {j \in I : RootOf(t, gpus[j]) = RootOf(t, gpus[i])}
  <2>1. P \in SUBSET I /\ i \in P
    OBVIOUS
  <2>2. f[i] = Cardinality(P)
    OBVIOUS
  <2> HIDE DEF P, f
  <2>3. IsFiniteSet(P) /\ Cardinality(P) <= n
    BY <1>2, <2>1, FS_Subset
  <2>4. Cardinality(P) \in Nat
    BY <2>3, FS_CardinalityType
  <2>5. Cardinality(P) # 0
    BY <2>1, <2>3, FS_EmptySet
  <2> QED
    BY <1>1, <2>2, <2>3, <2>4, <2>5
<1>5. \A i \in I : f[i] = On(RootOf(t, gpus[i]))
  OBVIOUS
<1> HIDE DEF f, On
<1>6. Max(M) \in M /\ \A x \in M : x <= Max(M)
  <2>1. IsFiniteSet(M)
    BY <1>2, FiniteImage
  <2>2. M # {} /\ \A x \in M : x \in Int
    BY <1>1, <1>4
  <2> HIDE DEF M
  <2> QED
    BY <2>1, <2>2, MaxIn
<1>7. \E m \in 1..n : /\ \E i \in I : On(RootOf(t, gpus[i])) = m
                      /\ \A i \in I : On(RootOf(t, gpus[i])) <= m
  <2>1. \A i \in I : f[i] \in M
    OBVIOUS
  <2>2. PICK k \in I : f[k] = Max(M)
    BY <1>6
  <2> QED
    BY <1>4, <1>5, <1>6, <2>1, <2>2
<1>8. /\ most \in 1..n
      /\ \E i \in I : On(RootOf(t, gpus[i])) = most
      /\ \A i \in I : On(RootOf(t, gpus[i])) <= most
  <2> HIDE DEF most
  <2> QED
    BY <1>1, <1>3, <1>7
<1> QED
  BY <1>8 DEF On, most, gpus, list, n, I, place

\* Without a map of its own, a machine has as many devices on a root as it
\* says, in order.
LEMMA RootsInOrder ==
  ASSUME NEW t, DOMAIN t.gpuToRoot = {},
         t.gpusPerRoot \in Nat \ {0}, t.numRoots \in Nat \ {0}
  PROVE  /\ \A gpu \in Devices(t) : RootOf(t, gpu) \in 0 .. t.numRoots - 1
         /\ \A root \in 0 .. t.numRoots - 1 :
              LET On == {gpu \in Devices(t) : RootOf(t, gpu) = root}
              IN  IsFiniteSet(On) /\ Cardinality(On) <= t.gpusPerRoot
<1> DEFINE g == t.gpusPerRoot
           k == t.numRoots
           D == Devices(t)
<1>1. g \in Nat /\ g # 0 /\ k \in Nat /\ k # 0
  OBVIOUS
<1>2. D = 0 .. g * k - 1
  BY DEF Devices
<1>3. \A gpu : RootOf(t, gpu) = gpu \div g
  BY <1>1 DEF RootOf, Max2
<1> HIDE DEF g, k, D
<1>4. g * k \in Nat
  BY <1>1
<1>5. ASSUME NEW gpu \in D
      PROVE  /\ gpu \div g \in 0 .. k - 1
             /\ (gpu \div g) * g <= gpu /\ gpu <= (gpu \div g) * g + (g - 1)
  <2> DEFINE q == gpu \div g
  <2>1. gpu \in Nat /\ gpu < g * k
    BY <1>2, <1>4
  <2>2. q \in Nat /\ g * q <= gpu /\ gpu < g * q + g
    BY <1>1, <2>1
  <2> HIDE DEF q
  <2>3. q < k
    <3>1. SUFFICES ASSUME q >= k PROVE FALSE
      BY <1>1, <2>2
    <3>2. g * q >= g * k
      BY <1>1, <2>2, <3>1
    <3> DEFINE x == g * q
               y == g * k
    <3>3. x <= gpu /\ gpu < y /\ x >= y /\ x \in Int /\ y \in Int /\ gpu \in Int
      BY <1>1, <1>4, <2>1, <2>2, <3>2
    <3> HIDE DEF x, y
    <3> QED
      BY <3>3
  <2>4. g * q = q * g /\ q * g \in Int
    BY <1>1, <2>2
  <2>5. q \in 0 .. k - 1 /\ q * g <= gpu /\ gpu <= q * g + (g - 1)
    BY <1>1, <2>1, <2>2, <2>3, <2>4
  <2> QED
    BY <2>5 DEF q
<1>6. ASSUME NEW root \in 0 .. k - 1
      PROVE  LET On == {gpu \in D : RootOf(t, gpu) = root}
             IN  IsFiniteSet(On) /\ Cardinality(On) <= g
  <2> DEFINE On == {gpu \in D : RootOf(t, gpu) = root}
             a  == root * g
             b  == a + (g - 1)
  <2>1. a \in Int /\ b \in Int /\ b - a + 1 = g /\ ~ (a > b)
    BY <1>1
  <2>2. D \subseteq Int
    BY <1>2
  <2>3. On \in SUBSET (a..b)
    <3> SUFFICES ASSUME NEW gpu \in D, RootOf(t, gpu) = root PROVE gpu \in a..b
      OBVIOUS
    <3>1. gpu \div g = root
      BY <1>3
    <3>2. (gpu \div g) * g <= gpu /\ gpu <= (gpu \div g) * g + (g - 1)
      BY <1>5
    <3>3. a <= gpu /\ gpu <= b
      BY <3>1, <3>2
    <3> QED
      BY <2>1, <2>2, <3>3
  <2> HIDE DEF a, b, On
  <2>4. IsFiniteSet(a..b) /\ Cardinality(a..b) = g
    BY <2>1, FS_Interval
  <2>5. IsFiniteSet(On) /\ Cardinality(On) <= g
    BY <2>3, <2>4, FS_Subset
  <2> QED
    BY <2>5 DEF On
<1> QED
  BY <1>3, <1>5, <1>6 DEF g, k, D

\* Either way, the roots of a preset's machine.
LEMMA RootsOfMachine ==
  ASSUME NEW t, NEW name \in DOMAIN Presets,
         t.gpusPerRoot = Presets[name].gpusPerRoot, t.numRoots = Presets[name].numRoots,
         t.gpuToRoot = Presets[name].gpuToRoot
  PROVE  /\ t.gpusPerRoot \in Nat \ {0} /\ t.numRoots \in Nat \ {0} /\ IsFiniteSet(Devices(t))
         /\ \A gpu \in Devices(t) : RootOf(t, gpu) \in 0 .. t.numRoots - 1
         /\ \A root \in 0 .. t.numRoots - 1 :
              Cardinality({gpu \in Devices(t) : RootOf(t, gpu) = root}) <= t.gpusPerRoot
<1> DEFINE hw == Presets[name]
<1>1. t.gpusPerRoot \in Nat \ {0} /\ t.numRoots \in Nat \ {0}
  BY RootsOK
<1>2. Devices(t) = Devices(hw) /\ \A gpu : RootOf(t, gpu) = RootOf(hw, gpu)
  BY DEF Devices, RootOf
<1>3. IsFiniteSet(Devices(t))
  <2> DEFINE m == t.gpusPerRoot * t.numRoots - 1
  <2>1. m \in Int
    BY <1>1
  <2>2. Devices(t) = 0..m
    BY DEF Devices
  <2> HIDE DEF m
  <2> QED
    BY <2>1, <2>2, FS_Interval
<1>4. CASE DOMAIN t.gpuToRoot = {}
  BY <1>1, <1>3, <1>4, RootsInOrder
<1>5. CASE DOMAIN t.gpuToRoot # {}
  <2>1. /\ \A gpu \in Devices(hw) : RootOf(hw, gpu) \in 0 .. hw.numRoots - 1
        /\ \A root \in 0 .. hw.numRoots - 1 :
             Cardinality({gpu \in Devices(hw) : RootOf(hw, gpu) = root}) <= hw.gpusPerRoot
    BY <1>5, RootsOK
  <2> QED
    BY <1>1, <1>2, <1>3, <2>1
<1> QED
  BY <1>4, <1>5

\* A hint never says more contention than the ranks of some placement have, nor
\* less than those of any.
LEMMA PlacementBracketed ==
  ASSUME NEW t, NEW name \in DOMAIN Presets,
         t.gpusPerRoot = Presets[name].gpusPerRoot, t.numRoots = Presets[name].numRoots,
         t.gpuToRoot = Presets[name].gpuToRoot,
         NEW used \in SUBSET Devices(t), Cardinality(used) > 1
  PROVE  LET n    == Cardinality(used)
             most == RanksPerRoot(t, n, [hint |-> "concentrated", visible |-> SetToSeq(used)])
         IN  /\ n \in Nat /\ most \in Nat
             /\ most <= Min2(n, t.gpusPerRoot)
             /\ Ceiling(n, Max2(t.numRoots, 1)) <= most
<1> DEFINE n     == Cardinality(used)
           g     == t.gpusPerRoot
           k     == t.numRoots
           place == [hint |-> "concentrated", visible |-> SetToSeq(used)]
           gpus  == SubSeq(place.visible, 1, Min2(n, Len(place.visible)))
           I     == DOMAIN gpus
           On(r) == {i \in I : RootOf(t, gpus[i]) = r}
           Of(r) == {gpu \in Devices(t) : RootOf(t, gpu) = r}
           most  == RanksPerRoot(t, n, place)
<1>1. /\ g \in Nat /\ g # 0 /\ k \in Nat /\ k # 0 /\ IsFiniteSet(Devices(t))
      /\ \A gpu \in Devices(t) : RootOf(t, gpu) \in 0 .. k - 1
      /\ \A r \in 0 .. k - 1 : Cardinality(Of(r)) <= g
  BY RootsOfMachine
<1>2. IsFiniteSet(used) /\ used # {} /\ n \in Nat
  BY <1>1, FS_Subset, FS_EmptySet, FS_CardinalityType
<1>3. /\ I = 1..n
      /\ \A i \in I : gpus[i] \in used
      /\ \A i, j \in I : gpus[i] = gpus[j] => i = j
  <2> DEFINE list == SetToSeq(used)
             same == SubSeq(list, 1, Min2(n, Len(list)))
  <2>1. /\ DOMAIN same = 1..n
        /\ \A i \in 1..n : same[i] \in used
        /\ \A i, j \in 1..n : same[i] = same[j] => i = j
    BY <1>2, DevicesListed
  <2>2. place.visible = list
    OBVIOUS
  <2> HIDE DEF n, list, place
  <2>3. gpus = same
    BY <2>2
  <2> HIDE DEF gpus, same
  <2> QED
    BY <2>1, <2>3
<1>4. /\ most \in 1..n
      /\ \E i \in I : Cardinality(On(RootOf(t, gpus[i]))) = most
      /\ \A i \in I : Cardinality(On(RootOf(t, gpus[i]))) <= most
  BY <1>2, BusiestRoot
<1> HIDE DEF n, g, k, place, gpus, I, most
<1>5. ASSUME NEW r \in 0 .. k - 1 PROVE Cardinality(On(r)) <= g
  <2> DEFINE h == [i \in On(r) |-> gpus[i]]
  <2>1. \A i \in On(r) : gpus[i] \in Of(r)
    BY <1>3
  <2>2. \A i, j \in On(r) : gpus[i] = gpus[j] => i = j
    BY <1>3
  <2>3. Of(r) \in SUBSET Devices(t)
    OBVIOUS
  <2> HIDE DEF On, Of
  <2>4. h \in [On(r) -> Of(r)] /\ IsInjective(h)
    BY <2>1, <2>2 DEF IsInjective
  <2>5. h \in Injection(On(r), Of(r))
    BY <2>4 DEF Injection
  <2>6. IsFiniteSet(Of(r)) /\ Cardinality(Of(r)) \in Nat
    BY <1>1, <2>3, FS_Subset, FS_CardinalityType
  <2> HIDE DEF h
  <2>7. IsFiniteSet(On(r)) /\ Cardinality(On(r)) <= Cardinality(Of(r))
    BY <2>5, <2>6, FS_Injection
  <2>8. Cardinality(On(r)) \in Nat
    BY <2>7, FS_CardinalityType
  <2> QED
    BY <1>1, <2>6, <2>7, <2>8 DEF Of
<1>6. most <= g
  <2>1. PICK i \in I : Cardinality(On(RootOf(t, gpus[i]))) = most
    BY <1>4
  <2>2. RootOf(t, gpus[i]) \in 0 .. k - 1
    BY <1>1, <1>3
  <2> QED
    BY <1>5, <2>1, <2>2
<1>7. n <= k * most
  <2> DEFINE root == [i \in I |-> RootOf(t, gpus[i])]
  <2>1. \A i \in 1..n : root[i] \in 0 .. k - 1
    BY <1>1, <1>3
  <2>2. ASSUME NEW r \in 0 .. k - 1
        PROVE  Cardinality({i \in 1..n : root[i] = r}) <= most
    <3>1. {i \in 1..n : root[i] = r} = On(r)
      BY <1>3
    <3>2. CASE On(r) = {}
      <4>1. Cardinality(On(r)) = 0
        BY <3>2, FS_EmptySet
      <4>2. 0 <= most
        BY <1>2, <1>4
      <4> QED
        BY <3>1, <4>1, <4>2
    <3>3. CASE On(r) # {}
      <4>1. PICK i \in I : RootOf(t, gpus[i]) = r
        BY <3>3
      <4> HIDE DEF On
      <4>2. Cardinality(On(r)) <= most
        BY <1>4, <4>1
      <4> HIDE DEF root
      <4> QED
        BY <3>1, <4>2
    <3> QED
      BY <3>2, <3>3
  <2>3. most \in Nat
    BY <1>4
  <2> HIDE DEF root
  <2> QED
    BY <1>1, <1>2, <2>1, <2>2, <2>3, SpreadOverRoots
<1>8. most \in Nat /\ most <= n /\ most >= 1
  BY <1>2, <1>4
<1>9. most <= Min2(n, g)
  BY <1>6, <1>8 DEF Min2
<1>10. Max2(k, 1) = k
  BY <1>1 DEF Max2
<1>11. Ceiling(n, k) <= most
  <2>1. Ceiling(n, k) = (n + k - 1) \div k
    BY DEF Ceiling
  <2> DEFINE q == (n + k - 1) \div k
  <2>2. q \in Int /\ k * q <= n + k - 1
    BY <1>1, <1>2
  <2> HIDE DEF q
  <2>3. SUFFICES ASSUME q >= most + 1 PROVE FALSE
    BY <1>8, <2>1, <2>2 DEF q
  <2>4. k * q >= k * (most + 1)
    BY <1>1, <1>8, <2>2, <2>3
  <2>5. k * (most + 1) = k * most + k
    BY <1>1, <1>8
  <2> DEFINE x == k * most
             y == k * q
  <2>6. x \in Int /\ y \in Int /\ y >= x + k /\ y <= n + k - 1 /\ n <= x
    BY <1>1, <1>7, <1>8, <2>2, <2>4, <2>5
  <2> HIDE DEF x, y
  <2> QED
    BY <1>1, <1>2, <2>6
<1> QED
  BY <1>2, <1>8, <1>9, <1>10, <1>11 DEF n, g, k, place, most

\* What a preset says of links and collectives.
LinkFields == {"link", "nodeSize", "protocol", "stepLatency", "sharp", "nvlsModel", "interLink",
               "interLatency", "communication", "floor", "bias"}

\* Efficiencies and peaks change nothing else of a preset.
LEMMA PresetKept ==
  ASSUME NEW name, NEW given,
         NEW field \in {"topology", "gpusPerRoot", "numRoots", "gpuToRoot", "capacity"}
                           \cup LinkFields,
         field \in DOMAIN Presets[Canonical(name)]
  PROVE  WithEfficiencies(HardwareConfig(name), given)[field] = Presets[Canonical(name)][field]
<1> DEFINE own    == [name |-> name, computeEff |-> 1, memEff |-> 1, commEff |-> 1]
           preset == Presets[Canonical(name)]
           base   == [f \in DOMAIN own \cup DOMAIN preset |->
                        IF f \in DOMAIN own THEN own[f] ELSE preset[f]]
           asked  == HardwareConfig(name)
           Given(f) == IF given[f] = NONE THEN asked[f] ELSE given[f]
           eff    == [asked EXCEPT !.computeEff = Given("computeEff"), !.memEff = Given("memEff"),
                                   !.commEff = Given("commEff")]
           full   == WithEfficiencies(asked, given)
<1>1. field \in DOMAIN preset
  OBVIOUS
<1>0. field \notin {"name", "computeEff", "memEff", "commEff", "fp16", "bf16", "int8", "fp8", "fp4",
                    "hasFp4", "vector"}
  BY DEF LinkFields
<1>2. field \in DOMAIN base /\ base[field] = preset[field]
  <2>1. field \notin DOMAIN own
    BY <1>0
  <2> HIDE DEF own, preset
  <2> QED
    BY <1>1, <2>1
<1>3. asked = WithPeaks(base)
  BY DEF HardwareConfig
<1>4. DOMAIN asked = DOMAIN base /\ asked[field] = base[field]
  <2> HIDE DEF base
  <2> QED
    BY <1>2, <1>3, <1>0 DEF WithPeaks
<1> HIDE DEF asked
<1>5. DOMAIN eff = DOMAIN asked /\ eff[field] = asked[field]
  <2> HIDE DEF base, preset
  <2> QED
    BY <1>2, <1>4, <1>0
<1>6. full = WithPeaks(eff)
  BY DEF WithEfficiencies
<1>7. full[field] = eff[field]
  <2> HIDE DEF eff, base, preset
  <2> QED
    BY <1>2, <1>4, <1>5, <1>6, <1>0 DEF WithPeaks
<1> HIDE DEF full, eff
<1> QED
  BY <1>2, <1>4, <1>5, <1>7 DEF full, asked

\* What a profile says of the roots and of memory is what its preset says
\* (HardwareProfile.from_legacy).
LEMMA ProfileKeepsMachine ==
  ASSUME NEW name, Canonical(name) \in DOMAIN Presets, NEW given
  PROVE  LET hw     == HardwareProfile(WithEfficiencies(HardwareConfig(name), given))
             preset == Presets[Canonical(name)]
         IN  /\ \A field \in {"topology", "gpusPerRoot", "numRoots", "gpuToRoot"} :
                  hw.topology[field] = preset[field]
             /\ hw.memory.capacity = preset.capacity
<1> DEFINE full   == WithEfficiencies(HardwareConfig(name), given)
           preset == Presets[Canonical(name)]
<1>1. {"topology", "gpusPerRoot", "numRoots", "gpuToRoot", "capacity"} \subseteq DOMAIN preset
  BY RootsOK, CapacityOK
<1>2. \A field \in {"topology", "gpusPerRoot", "numRoots", "gpuToRoot", "capacity"} :
        full[field] = preset[field]
  BY <1>1, PresetKept
<1> HIDE DEF full, preset
<1>3. /\ \A field \in {"topology", "gpusPerRoot", "numRoots", "gpuToRoot"} :
           HardwareProfile(full).topology[field] = full[field]
      /\ HardwareProfile(full).memory["capacity"] = full["capacity"]
  BY DEF HardwareProfile
<1> QED
  BY <1>2, <1>3 DEF full, preset

\* Whatever the machine, as long as its roots hold the devices its preset says:
\* the hints bracket the contention of every placement (device.py:165-217).
THEOREM HintsBracketPlacementsAlways == Spec => []HintsBracketPlacements
<1>1. ASSUME IInv PROVE HintsBracketPlacements
  <2> SUFFICES ASSUME NEW r \in Running,
                      NEW used \in SUBSET Devices(worker[r].scenario.hardware.topology),
                      Cardinality(used) > 1
               PROVE  LET t == worker[r].scenario.hardware.topology
                          Under(hint, visible, n) ==
                            Contention(t, n, [hint |-> hint, visible |-> visible])
                          n    == Cardinality(used)
                          real == Under("concentrated", SetToSeq(used), n)
                      IN  /\ Under("balanced", <<>>, n) <= real
                          /\ real <= Under("concentrated", <<>>, n)
    BY DEF HintsBracketPlacements
  <2> DEFINE t      == worker[r].scenario.hardware.topology
             cache  == worker[r].cache
             asked  == HardwareName(cache)
             preset == Presets[Canonical(asked)]
             n      == Cardinality(used)
             Place(hint, visible) == [hint |-> hint, visible |-> visible]
             real   == Contention(t, n, Place("concentrated", SetToSeq(used)))
             low    == Contention(t, n, Place("balanced", <<>>))
             high   == Contention(t, n, Place("concentrated", <<>>))
             most   == RanksPerRoot(t, n, Place("concentrated", SetToSeq(used)))
  <2>1. worker[r].scenario = Scenario(config, cache) /\ ExtractError(config, cache) = NONE
    BY <1>1 DEF IInv, ReadOnce, Remembers, Running
  <2>2. Canonical(asked) \in DOMAIN Presets
    BY <2>1, InputsOK DEF ExtractError, Known, Errors
  <2>3. \A field \in {"topology", "gpusPerRoot", "numRoots", "gpuToRoot"} :
          t[field] = preset[field]
    BY <2>1, <2>2, ProfileKeepsMachine DEF Scenario, HardwareOf
  <2>4. t.gpusPerRoot = preset.gpusPerRoot /\ t.numRoots = preset.numRoots
        /\ t.gpuToRoot = preset.gpuToRoot
    BY <2>3
  <2> HIDE DEF t
  <2>5. /\ n \in Nat /\ most \in Nat /\ most <= Min2(n, t.gpusPerRoot)
        /\ Ceiling(n, Max2(t.numRoots, 1)) <= most
    BY <2>2, <2>4, PlacementBracketed DEF t
  <2>6. t.gpusPerRoot \in Nat /\ t.numRoots \in Nat /\ t.numRoots # 0
    BY <2>2, <2>4, RootsOK
  <2>7. /\ RanksPerRoot(t, n, Place("balanced", <<>>)) = Ceiling(n, Max2(t.numRoots, 1))
        /\ RanksPerRoot(t, n, Place("concentrated", <<>>)) = Min2(n, t.gpusPerRoot)
    BY DEF RanksPerRoot
  <2>8. low <= real /\ real <= high
    <3>1. CASE t.topology # "pcie_shared_root"
      BY <3>1 DEF Contention
    <3>2. CASE t.topology = "pcie_shared_root"
      <4> DEFINE a == Ceiling(n, Max2(t.numRoots, 1))
                 b == Min2(n, t.gpusPerRoot)
      <4>1. low = Max2(a, 1) /\ high = Max2(b, 1) /\ real = Max2(most, 1)
        BY <2>7, <3>2 DEF Contention
      <4>2. a \in Int /\ b \in Int /\ most \in Int /\ a <= most /\ most <= b
        BY <2>5, <2>6 DEF Ceiling, Max2, Min2
      <4> HIDE DEF a, b, most, low, high, real
      <4> QED
        BY <4>1, <4>2 DEF Max2
    <3> QED
      BY <3>1, <3>2
  <2> QED
    BY <2>8 DEF t
<1> QED
  BY <1>1, InvCorrect, PTL

-----------------------------------------------------------------------------
(* The size of a model                                                     *)

\* What a scenario says of its model.
ModelFields == {"hidden", "heads", "kvHeads", "headDim", "ffn", "layers", "vocab", "experts",
                "topk", "expertDim", "shared", "moeFreq", "firstMoe", "kvLora", "rope", "nope",
                "vDim", "qLora"}

\* A deployment has the model of its scenario, and its ranks.
LEMMA DeploymentKeeps ==
  ASSUME NEW s, DOMAIN s.model = ModelFields
  PROVE  LET d == DeploymentOf(s)
         IN  /\ \A f \in ModelFields : d[f] = s.model[f]
             /\ d.tp = s.tp /\ d.ep = s.ep
<1> DEFINE own == [tp |-> s.tp, ep |-> s.ep, hardware |-> s.hardware, calibration |-> s.calibration,
                   hint |-> Or(env.hint, "concentrated"), mode |-> s.mode, version |-> s.version,
                   blockSize |-> s.blockSize, distribution |-> "balanced", skew |-> 0,
                   layerSkews |-> << >>]
           d == DeploymentOf(s)
<1>1. d = [f \in DOMAIN s.model \cup DOMAIN own |-> IF f \in DOMAIN own THEN own[f] ELSE s.model[f]]
  BY DEF DeploymentOf
<1>2. /\ own["tp"] = s.tp /\ own["ep"] = s.ep /\ "tp" \in DOMAIN own /\ "ep" \in DOMAIN own
      /\ \A f \in ModelFields : f \notin DOMAIN own
  BY DEF ModelFields
<1> HIDE DEF own
<1>3. /\ \A f \in ModelFields : d[f] = s.model[f]
      /\ d["tp"] = s.tp /\ d["ep"] = s.ep
  <2> HIDE DEF d
  <2> QED
    BY <1>1, <1>2
<1> QED
  BY <1>3

-----------------------------------------------------------------------------
(* Sizes of numbers                                                        *)

\* The adapters there are.
LEMMA AdapterOf ==
  ASSUME NEW hf, hf.model_type \in DOMAIN Adapters
  PROVE  Adapters[hf.model_type] \in {"opt", "qwen", "v3", "v4"}
BY DEF Adapters

\* What of it is a number.
Sized == {"hidden", "heads", "kvHeads", "headDim", "ffn", "layers", "vocab", "experts",
          "expertDim", "shared", "kvLora", "rope", "nope", "vDim", "qLora"}

\* The model of a checked configuration has dimensions.
LEMMA ModelTyped ==
  ASSUME NEW hf, hf.model_type \in DOMAIN Adapters,
         FfnDim(hf, Adapters[hf.model_type]) # NONE,
         \A dim \in Dimensions : hf[dim] \in Nat, hf.num_attention_heads # 0,
         hf.num_hidden_layers # 0
  PROVE  /\ DOMAIN ModelOf(hf) = ModelFields
         /\ \A f \in Sized : ModelOf(hf)[f] \in Nat
         /\ ModelOf(hf).layers = hf.num_hidden_layers
<1> DEFINE family == Adapters[hf.model_type]
           m == ModelOf(hf)
<1>1. family \in {"opt", "qwen", "v3", "v4"}
  BY AdapterOf
<1>2. /\ hf.hidden_size \in Nat /\ hf.num_attention_heads \in Nat /\ hf.num_key_value_heads \in Nat
      /\ hf.head_dim \in Nat /\ hf.intermediate_size \in Nat /\ hf.ffn_dim \in Nat
      /\ hf.num_hidden_layers \in Nat /\ hf.vocab_size \in Nat /\ hf.n_routed_experts \in Nat
      /\ hf.num_experts \in Nat /\ hf.num_experts_per_tok \in Nat
      /\ hf.moe_intermediate_size \in Nat /\ hf.n_shared_experts \in Nat
      /\ hf.shared_expert_intermediate_size \in Nat /\ hf.kv_lora_rank \in Nat
      /\ hf.qk_rope_head_dim \in Nat /\ hf.qk_nope_head_dim \in Nat /\ hf.v_head_dim \in Nat
      /\ hf.q_lora_rank \in Nat
  BY DEF Dimensions
<1>3. KvHeads(hf, family) \in Nat
  BY <1>2 DEF KvHeads, FirstOf
<1>4. FfnDim(hf, family) \in Nat
  <2> DEFINE active == hf.moe_intermediate_size * hf.num_experts_per_tok
  <2>1. active \in Nat
    BY <1>2
  <2> HIDE DEF active
  <2>2. hf.shared_expert_intermediate_size + active \in Nat
    BY <1>2, <2>1
  <2> QED
    BY <1>1, <1>2, <2>2 DEF FfnDim, active
<1>5. SharedExperts(hf) \in Nat
  <2>1. CASE hf.n_shared_experts # 0
    BY <1>2, <2>1 DEF SharedExperts
  <2>2. CASE hf.n_shared_experts = 0 /\ hf.moe_intermediate_size > 0
    <3>1. hf.shared_expert_intermediate_size \div hf.moe_intermediate_size \in Nat
      BY <1>2, <2>2
    <3> QED
      BY <2>2, <3>1 DEF SharedExperts
  <2>3. CASE hf.n_shared_experts = 0 /\ ~ hf.moe_intermediate_size > 0
    BY <2>3 DEF SharedExperts
  <2> QED
    BY <2>1, <2>2, <2>3
<1>6. hf.hidden_size \div hf.num_attention_heads \in Nat
  BY <1>2
<1>7. FirstOf(hf.head_dim, hf.hidden_size \div hf.num_attention_heads) \in Nat
  BY <1>2, <1>6 DEF FirstOf
<1>8. /\ FirstOf(hf.n_routed_experts, hf.num_experts) \in Nat
      /\ FirstOf(hf.v_head_dim, hf.qk_nope_head_dim) \in Nat
  BY <1>2 DEF FirstOf
<1>9. /\ DOMAIN m = ModelFields
      /\ m.hidden \in Nat /\ m.heads \in Nat /\ m.kvHeads \in Nat /\ m.headDim \in Nat
      /\ m.ffn \in Nat /\ m.layers = hf.num_hidden_layers /\ m.layers \in Nat /\ m.vocab \in Nat
  BY <1>2, <1>3, <1>4, <1>7 DEF ModelOf, ModelFields
<1>10. /\ m.experts \in Nat /\ m.expertDim \in Nat /\ m.shared \in Nat /\ m.kvLora \in Nat
       /\ m.rope \in Nat /\ m.nope \in Nat /\ m.vDim \in Nat /\ m.qLora \in Nat
  BY <1>2, <1>5, <1>8 DEF ModelOf
<1> QED
  BY <1>9, <1>10 DEF Sized

-----------------------------------------------------------------------------
(* What a sequence of operators multiplies with                            *)

\* The parameters an operator multiplies with, once.
ParamsOf(d, op) ==
  CASE op.kind = "gemm" /\ op.name # "moe_gate" -> op.shape.n * op.shape.k
    [] op.kind = "moe" -> 3 * (d.experts \div d.ep) * d.hidden * ExpertDimPerDevice(d)
    [] OTHER -> 0

\* These operators multiply with this many parameters, however often each is there.
Weigh(d, ops, params) ==
  /\ IsSeq(ops) /\ params \in Int
  /\ \A i \in DOMAIN ops : ParamsOf(d, ops[i]) \in Int
  /\ SumFunctionOnSet([i \in DOMAIN ops |-> ParamsOf(d, ops[i])], DOMAIN ops) = params

\* Sequences of operators, built up: none, one, two joined.
LEMMA WeighNone == ASSUME NEW d PROVE Weigh(d, << >>, 0)
<1>1. IsSeq(<< >>) /\ DOMAIN << >> = {}
  BY DEF IsSeq
<1> QED
  BY <1>1, SumEmpty DEF Weigh

LEMMA WeighOne ==
  ASSUME NEW d, NEW op, NEW params \in Int, ParamsOf(d, op) = params
  PROVE  Weigh(d, <<op>>, params)
<1> DEFINE f == [i \in DOMAIN <<op>> |-> ParamsOf(d, <<op>>[i])]
           S == {1}
<1>1. IsSeq(<<op>>) /\ DOMAIN <<op>> = S /\ <<op>>[1] = op
  BY SeqOf1
<1>2. \A i \in S : f[i] = params
  BY <1>1
<1>3. IsFiniteSet(S) /\ Cardinality(S) = 1
  BY FS_Singleton
<1> HIDE DEF f, S
<1>4. SumFunctionOnSet(f, S) = params * 1
  BY <1>2, <1>3, SumConstant
<1>5. SumFunctionOnSet(f, S) = params
  BY <1>4
<1>6. \A i \in DOMAIN <<op>> : ParamsOf(d, <<op>>[i]) \in Int
  BY <1>1 DEF S
<1> QED
  BY <1>1, <1>5, <1>6 DEF Weigh, f

LEMMA WeighJoined ==
  ASSUME NEW d, NEW a, NEW b, NEW j, NEW k, Weigh(d, a, j), Weigh(d, b, k)
  PROVE  Weigh(d, a \o b, j + k)
<1> DEFINE c == a \o b
           m == Len(a)
           n == Len(b)
           f == [i \in DOMAIN a |-> ParamsOf(d, a[i])]
           g == [i \in DOMAIN b |-> ParamsOf(d, b[i])]
           h == [i \in DOMAIN c |-> ParamsOf(d, c[i])]
<1>1. /\ IsSeq(c) /\ m \in Nat /\ n \in Nat
      /\ DOMAIN c = 1..(m + n) /\ DOMAIN a = 1..m /\ DOMAIN b = 1..n
      /\ \A i \in 1..m : c[i] = a[i]
      /\ \A i \in 1..n : c[m + i] = b[i]
  BY Joined DEF Weigh
<1>2. /\ j \in Int /\ k \in Int
      /\ \A i \in DOMAIN a : ParamsOf(d, a[i]) \in Int
      /\ \A i \in DOMAIN b : ParamsOf(d, b[i]) \in Int
      /\ SumFunctionOnSet(f, DOMAIN a) = j /\ SumFunctionOnSet(g, DOMAIN b) = k
  BY DEF Weigh
<1> HIDE DEF c, m, n
<1>3. /\ \A i \in DOMAIN a : f[i] = ParamsOf(d, a[i])
      /\ \A i \in DOMAIN b : g[i] = ParamsOf(d, b[i])
      /\ \A i \in DOMAIN c : h[i] = ParamsOf(d, c[i])
  OBVIOUS
<1>4. (\A i \in 1..m : i \in 1..(m + n)) /\ \A i \in 1..n : m + i \in 1..(m + n)
  BY <1>1
<1> HIDE DEF f, g, h
<1>5. \A i \in 1..m : f[i] \in Int /\ h[i] = f[i]
  BY <1>1, <1>2, <1>3, <1>4
<1>6. \A i \in 1..n : g[i] \in Int /\ h[m + i] = g[i]
  BY <1>1, <1>2, <1>3, <1>4
<1>7. \A i \in DOMAIN c : ParamsOf(d, c[i]) \in Int
  <2> SUFFICES ASSUME NEW i \in 1..(m + n) PROVE ParamsOf(d, c[i]) \in Int
    BY <1>1
  <2>1. CASE i \in 1..m
    BY <1>1, <1>2, <2>1
  <2>2. CASE i \notin 1..m
    <3>1. i - m \in 1..n /\ m + (i - m) = i
      BY <1>1, <2>2
    <3>2. c[m + (i - m)] = b[i - m]
      BY <1>1, <3>1
    <3> QED
      BY <1>1, <1>2, <3>1, <3>2
  <2> QED
    BY <2>1, <2>2
<1>8. SumFunctionOnSet(h, 1..(m + n)) = SumFunctionOnSet(f, 1..m) + SumFunctionOnSet(g, 1..n)
  <2>1. m \in Nat /\ n \in Nat
    BY <1>1
  <2> QED
    BY ONLY <2>1, <1>5, <1>6, SumJoined
<1>9. SumFunctionOnSet(h, DOMAIN c) = j + k
  BY <1>1, <1>2, <1>8
<1>10. SumFunctionOnSet([i \in DOMAIN c |-> ParamsOf(d, c[i])], DOMAIN c) = j + k
  BY <1>9 DEF h
<1>11. IsSeq(c) /\ j + k \in Int
  BY <1>1, <1>2
<1>12. Weigh(d, c, j + k)
  BY <1>7, <1>10, <1>11, Zenon DEF Weigh
<1> QED
  BY <1>12 DEF c

\* A layer that is there so often multiplies with as many times its parameters.
LEMMA WeighTimes ==
  ASSUME NEW d, NEW ops, NEW params, Weigh(d, ops, params), NEW count \in Int
  PROVE  /\ IsSeq(Times(ops, count))
         /\ \A i \in DOMAIN Times(ops, count) : MatrixParams(d, Times(ops, count)[i]) \in Int
         /\ Multiplied(d, Times(ops, count)) = count * params
<1> DEFINE u == Times(ops, count)
           D == DOMAIN ops
           f == [i \in D |-> ParamsOf(d, ops[i])]
           g == [i \in DOMAIN u |-> MatrixParams(d, u[i])]
<1>1. /\ IsSeq(ops) /\ params \in Int /\ \A i \in D : ParamsOf(d, ops[i]) \in Int
      /\ SumFunctionOnSet(f, D) = params
  BY DEF Weigh
<1>2. Len(ops) \in Nat /\ D = 1..Len(ops)
  BY <1>1 DEF IsSeq
<1>3. /\ u = [i \in D |-> [op |-> ops[i], count |-> count]] /\ DOMAIN u = D
  BY DEF Times
<1>4. IsSeq(u)
  <2> DEFINE S == {[op |-> ops[i], count |-> count] : i \in D}
  <2>1. \A i \in D : u[i] \in S
    BY <1>3
  <2> HIDE DEF S
  <2>2. u \in Seq(S)
    BY <1>2, <1>3, <2>1
  <2> QED
    BY <2>2, SeqOfAll
<1>5. \A i \in D : MatrixParams(d, u[i]) = count * ParamsOf(d, ops[i])
  <2> SUFFICES ASSUME NEW i \in D PROVE MatrixParams(d, u[i]) = count * ParamsOf(d, ops[i])
    OBVIOUS
  <2> DEFINE node == u[i]
             op == ops[i]
  <2>1. node.op = op /\ node.count = count
    BY <1>3
  <2> HIDE DEF node, op, u
  <2>2. MatrixParams(d, node) = count * ParamsOf(d, op)
    BY <2>1, Zenon DEF MatrixParams, ParamsOf
  <2> QED
    BY <2>2 DEF node, op
<1>6. \A i \in D : f[i] \in Int /\ g[i] = f[i] * count
  BY <1>1, <1>3, <1>5
<1>7. \A i \in DOMAIN u : MatrixParams(d, u[i]) \in Int
  BY <1>1, <1>3, <1>5
<1>8. IsFiniteSet(D) /\ DOMAIN g = D
  BY <1>2, <1>3, FS_Interval
<1>9. Multiplied(d, u) = SumFunctionOnSet(g, DOMAIN g)
  BY DEF Multiplied, SumFunction
<1> HIDE DEF u, D, f, g
<1>10. SumFunctionOnSet(g, D) = SumFunctionOnSet(f, D) * count
  BY <1>6, <1>8, SumScaled
<1> QED
  BY <1>1, <1>4, <1>7, <1>8, <1>9, <1>10 DEF u

\* A part of a plan.
Part(d, plan, params) ==
  /\ IsSeq(plan) /\ params \in Int
  /\ \A i \in DOMAIN plan : MatrixParams(d, plan[i]) \in Int
  /\ Multiplied(d, plan) = params

\* The same of parts of a plan.
LEMMA PartJoined ==
  ASSUME NEW d, NEW a, NEW b, NEW j, NEW k, Part(d, a, j), Part(d, b, k)
  PROVE  Part(d, a \o b, j + k)
<1> DEFINE c == a \o b
           m == Len(a)
           n == Len(b)
           f == [i \in DOMAIN a |-> MatrixParams(d, a[i])]
           g == [i \in DOMAIN b |-> MatrixParams(d, b[i])]
           h == [i \in DOMAIN c |-> MatrixParams(d, c[i])]
<1>1. /\ IsSeq(c) /\ m \in Nat /\ n \in Nat
      /\ DOMAIN c = 1..(m + n) /\ DOMAIN a = 1..m /\ DOMAIN b = 1..n
      /\ \A i \in 1..m : c[i] = a[i]
      /\ \A i \in 1..n : c[m + i] = b[i]
  BY Joined DEF Part
<1>2. /\ j \in Int /\ k \in Int
      /\ \A i \in DOMAIN a : MatrixParams(d, a[i]) \in Int
      /\ \A i \in DOMAIN b : MatrixParams(d, b[i]) \in Int
      /\ SumFunctionOnSet(f, DOMAIN a) = j /\ SumFunctionOnSet(g, DOMAIN b) = k
  BY DEF Part, Multiplied, SumFunction
<1> HIDE DEF c, m, n
<1>3. /\ \A i \in DOMAIN a : f[i] = MatrixParams(d, a[i])
      /\ \A i \in DOMAIN b : g[i] = MatrixParams(d, b[i])
      /\ \A i \in DOMAIN c : h[i] = MatrixParams(d, c[i])
  OBVIOUS
<1>4. (\A i \in 1..m : i \in 1..(m + n)) /\ \A i \in 1..n : m + i \in 1..(m + n)
  BY <1>1
<1> HIDE DEF f, g, h
<1>5. \A i \in 1..m : f[i] \in Int /\ h[i] = f[i]
  BY <1>1, <1>2, <1>3, <1>4
<1>6. \A i \in 1..n : g[i] \in Int /\ h[m + i] = g[i]
  BY <1>1, <1>2, <1>3, <1>4
<1>7. \A i \in DOMAIN c : MatrixParams(d, c[i]) \in Int
  <2> SUFFICES ASSUME NEW i \in 1..(m + n) PROVE MatrixParams(d, c[i]) \in Int
    BY <1>1
  <2>1. CASE i \in 1..m
    BY <1>1, <1>2, <2>1
  <2>2. CASE i \notin 1..m
    <3>1. i - m \in 1..n /\ m + (i - m) = i
      BY <1>1, <2>2
    <3>2. c[m + (i - m)] = b[i - m]
      BY <1>1, <3>1
    <3> QED
      BY <1>1, <1>2, <3>1, <3>2
  <2> QED
    BY <2>1, <2>2
<1>8. Multiplied(d, c) = SumFunctionOnSet(h, DOMAIN c)
  BY DEF Multiplied, SumFunction, h
<1>9. SumFunctionOnSet(h, 1..(m + n)) = SumFunctionOnSet(f, 1..m) + SumFunctionOnSet(g, 1..n)
  <2>1. m \in Nat /\ n \in Nat
    BY <1>1
  <2> QED
    BY ONLY <2>1, <1>5, <1>6, SumJoined
<1> QED
  BY <1>1, <1>2, <1>7, <1>8, <1>9 DEF Part, c

-----------------------------------------------------------------------------
(* Layers                                                                  *)

\* Norms, gates, attention cores and collectives have no matrices.
LEMMA NothingToWeigh ==
  ASSUME NEW d, NEW op, op.kind \notin {"gemm", "moe"} \/ (op.kind = "gemm" /\ op.name = "moe_gate")
  PROVE  ParamsOf(d, op) = 0
BY Zenon DEF ParamsOf

LEMMA WeighNothing ==
  ASSUME NEW d, NEW op, op.kind \notin {"gemm", "moe"} \/ (op.kind = "gemm" /\ op.name = "moe_gate")
  PROVE  Weigh(d, <<op>>, 0)
BY NothingToWeigh, WeighOne

\* A matrix product has one.
LEMMA WeighGemm ==
  ASSUME NEW d, NEW name, name # "moe_gate", NEW m, NEW n \in Int, NEW k \in Int
  PROVE  Weigh(d, <<GEMM(name, m, n, k)>>, n * k)
<1> DEFINE op == GEMM(name, m, n, k)
<1>1. op.kind = "gemm" /\ op.name = name /\ op.shape.n = n /\ op.shape.k = k
  BY DEF GEMM
<1> HIDE DEF op
<1>2. ParamsOf(d, op) = n * k
  BY <1>1 DEF ParamsOf
<1>3. n * k \in Int
  OBVIOUS
<1>4. Weigh(d, <<op>>, n * k)
  BY <1>2, <1>3, WeighOne
<1> QED
  BY <1>4 DEF op

\* Sequences of two, three and four.
LEMMA Weigh2 ==
  ASSUME NEW d, NEW a, NEW b, NEW i, NEW j, Weigh(d, <<a>>, i), Weigh(d, <<b>>, j)
  PROVE  Weigh(d, <<a, b>>, i + j)
BY WeighJoined, LastOf2

LEMMA Weigh3 ==
  ASSUME NEW d, NEW a, NEW b, NEW c, NEW i, NEW j, NEW k,
         Weigh(d, <<a>>, i), Weigh(d, <<b>>, j), Weigh(d, <<c>>, k)
  PROVE  Weigh(d, <<a, b, c>>, i + j + k)
<1>1. Weigh(d, <<a, b>> \o <<c>>, (i + j) + k)
  BY Weigh2, WeighJoined
<1>2. <<a, b, c>> = <<a, b>> \o <<c>>
  BY LastOf3
<1> QED
  BY <1>1, <1>2, Zenon

LEMMA Weigh4 ==
  ASSUME NEW d, NEW a, NEW b, NEW c, NEW e, NEW i, NEW j, NEW k, NEW l,
         Weigh(d, <<a>>, i), Weigh(d, <<b>>, j), Weigh(d, <<c>>, k), Weigh(d, <<e>>, l)
  PROVE  Weigh(d, <<a, b, c, e>>, i + j + k + l)
<1>1. Weigh(d, <<a, b, c>> \o <<e>>, (i + j + k) + l)
  BY Weigh3, WeighJoined
<1>2. <<a, b, c, e>> = <<a, b, c>> \o <<e>>
  BY LastOf4
<1> QED
  BY <1>1, <1>2, Zenon

\* The collective behind a sharded product.
LEMMA WeighReduce ==
  ASSUME NEW d, NEW name, NEW s
  PROVE  Weigh(d, QwenReduce(name, d, s), 0) /\ Weigh(d, DeepSeekReduce(name, d, s), 0)
<1>1. ASSUME NEW bytes, NEW world, NEW source
      PROVE  Weigh(d, AllReduce(name, bytes, world, source), 0)
  <2>1. CASE world <= 1
    BY <2>1, WeighNone DEF AllReduce
  <2>2. CASE ~ (world <= 1)
    <3> DEFINE op == [name |-> name, kind |-> "collective", source |-> source,
                      shape |-> [message_bytes |-> bytes, world_size |-> world]]
    <3>1. AllReduce(name, bytes, world, source) = <<op>> /\ op.kind = "collective"
      BY <2>2 DEF AllReduce
    <3> HIDE DEF op
    <3>2. Weigh(d, <<op>>, 0)
      BY <3>1, WeighNothing
    <3> QED
      BY <3>1, <3>2
  <2> QED
    BY <2>1, <2>2
<1> QED
  BY <1>1 DEF QwenReduce, DeepSeekReduce, TpAllReduce

\* The constructors of operators without matrices.
LEMMA OpsWithoutParams ==
  ASSUME NEW d, NEW name, NEW n, NEW m, NEW k, NEW s, NEW b
  PROVE  /\ Weigh(d, <<Norm(name, n)>>, 0) /\ Weigh(d, <<ElementWise(name, n)>>, 0)
         /\ Weigh(d, <<Embedding(n, m, k)>>, 0) /\ Weigh(d, <<Router(n, m, k)>>, 0)
         /\ Weigh(d, <<MoEDispatch(d, name, b, n)>>, 0) /\ Weigh(d, <<MLAAttention(d, n, s)>>, 0)
<1>1. /\ Norm(name, n).kind = "norm" /\ ElementWise(name, n).kind = "elementwise"
      /\ Embedding(n, m, k).kind = "embedding"
      /\ MoEDispatch(d, name, b, n).kind = "moe_dispatch"
  BY DEF Norm, ElementWise, Embedding, MoEDispatch
<1>2. MLAAttention(d, n, s).kind = "mla"
  BY DEF MLAAttention
<1>3. Router(n, m, k).kind = "gemm" /\ Router(n, m, k).name = "moe_gate"
  BY DEF Router, GEMM
<1> QED
  BY <1>1, <1>2, <1>3, WeighNothing

LEMMA WeighFlash ==
  ASSUME NEW d, NEW heads, NEW kvHeads, NEW headDim
  PROVE  Weigh(d, FlashAttention(heads, kvHeads, headDim, OneDecode), 0)
<1> DEFINE decode == [num_seqs |-> OneDecode.decodeRequests, q_len |-> 1,
                      kv_len |-> OneDecode.avgContext]
           op == [name |-> "attention", kind |-> "attention", source |-> "vllm_flash_attn",
                  shape |-> [subtype |-> DECODE, parts |-> <<decode>>, num_q_heads |-> heads,
                             num_kv_heads |-> kvHeads, head_dim |-> headDim]]
<1>1. OneDecode.prefillTokens = 0 /\ OneDecode.decodeRequests = 1
  BY DEF OneDecode
<1>2. /\ ~ (OneDecode.prefillTokens > 0 /\ OneDecode.decodeRequests > 0)
      /\ OneDecode.prefillTokens = 0 /\ OneDecode.decodeRequests > 0
      /\ ~ (OneDecode.prefillTokens > 0 /\ OneDecode.decodeRequests = 0)
  BY <1>1
<1>3. FlashAttention(heads, kvHeads, headDim, OneDecode) = <<op>>
  BY <1>2, Zenon DEF FlashAttention
<1>4. op.kind = "attention"
  OBVIOUS
<1> HIDE DEF op
<1>5. Weigh(d, <<op>>, 0)
  BY <1>4, WeighNothing
<1> QED
  BY <1>3, <1>5

\* The numbers of a deployment.
Typed(d) ==
  /\ \A f \in Sized : d[f] \in Nat
  /\ d.tp \in Nat /\ d.tp # 0 /\ d.ep \in Nat /\ d.ep # 0

LEMMA TypedIs ==
  ASSUME NEW d, Typed(d)
  PROVE  /\ d.hidden \in Nat /\ d.heads \in Nat /\ d.kvHeads \in Nat /\ d.headDim \in Nat
         /\ d.ffn \in Nat /\ d.layers \in Nat /\ d.vocab \in Nat /\ d.experts \in Nat
         /\ d.expertDim \in Nat /\ d.shared \in Nat /\ d.kvLora \in Nat /\ d.rope \in Nat
         /\ d.nope \in Nat /\ d.vDim \in Nat /\ d.qLora \in Nat
         /\ d.tp \in Nat /\ d.tp # 0 /\ d.ep \in Nat /\ d.ep # 0
BY DEF Typed, Sized

\* A rank's share of heads and widths is a number.
LEMMA PerRankTyped ==
  ASSUME NEW d, Typed(d)
  PROVE  /\ HeadsPerRank(d) \in Nat /\ KvHeadsPerRank(d) \in Nat /\ FfnPerRank(d) \in Nat
         /\ SharedPerRank(d) \in Nat /\ d.experts \div d.ep \in Nat /\ ExpertDimPerDevice(d) \in Nat
<1>1. \A x \in Nat : x \div d.tp \in Nat /\ x \div d.ep \in Nat
  BY TypedIs
<1>2. d.expertDim * d.shared \in Nat
  BY TypedIs
<1> QED
  BY <1>1, <1>2, TypedIs
     DEF HeadsPerRank, KvHeadsPerRank, FfnPerRank, SharedPerRank, ExpertDimPerDevice

\* The parameters of the matrices of one layer on one rank.
AttentionWeight(d) ==
  (HeadsPerRank(d) + 2 * KvHeadsPerRank(d)) * d.headDim * d.hidden
    + d.hidden * (HeadsPerRank(d) * d.headDim)

DenseWeight(d)  == (2 * FfnPerRank(d)) * d.hidden + d.hidden * FfnPerRank(d)
SharedWeight(d) == (2 * SharedPerRank(d)) * d.hidden + d.hidden * SharedPerRank(d)
RoutedWeight(d) == 3 * (d.experts \div d.ep) * d.hidden * ExpertDimPerDevice(d)

\* The operators of attention (qwen3.py) multiply with these.
LEMMA WeighAttention ==
  ASSUME NEW d, Typed(d)
  PROVE  Weigh(d, QwenAttentionOps(d, OneDecode), AttentionWeight(d))
<1> DEFINE s  == OneDecode
           T  == s.totalTokens
           nq == HeadsPerRank(d)
           nk == KvHeadsPerRank(d)
           x  == (nq + 2 * nk) * d.headDim
           y  == nq * d.headDim
           a  == Norm("attn_norm", T * d.hidden)
           b  == GEMM("qkv_proj", T, x, d.hidden)
           c  == ElementWise("rope", T * (nq + nk) * d.headDim)
           f  == FlashAttention(nq, nk, d.headDim, s)
           o  == GEMM("o_proj", T, d.hidden, y)
           r  == QwenReduce("tp_o_proj_allreduce", d, s)
           e  == ElementWise("attn_add", T * d.hidden)
<1>1. QwenAttentionOps(d, s) = <<a, b, c>> \o f \o <<o>> \o r \o <<e>>
  BY DEF QwenAttentionOps
<1>2. x \in Int /\ y \in Int /\ d.hidden \in Int
  BY TypedIs, PerRankTyped
<1>3. AttentionWeight(d) = x * d.hidden + d.hidden * y
  BY DEF AttentionWeight
<1> HIDE DEF x, y, nq, nk, T
<1>4. Weigh(d, <<b>>, x * d.hidden) /\ Weigh(d, <<o>>, d.hidden * y)
  BY <1>2, WeighGemm
<1>5. Weigh(d, <<a>>, 0) /\ Weigh(d, <<c>>, 0) /\ Weigh(d, <<e>>, 0)
  BY OpsWithoutParams
<1>6. Weigh(d, f, 0) /\ Weigh(d, r, 0)
  BY WeighFlash, WeighReduce
<1> HIDE DEF a, b, c, f, o, r, e
<1>7. Weigh(d, <<a, b, c>>, 0 + x * d.hidden + 0)
  BY <1>4, <1>5, Weigh3
<1>8. Weigh(d, <<a, b, c>> \o f, (0 + x * d.hidden + 0) + 0)
  BY <1>6, <1>7, WeighJoined
<1>9. Weigh(d, <<a, b, c>> \o f \o <<o>>, ((0 + x * d.hidden + 0) + 0) + d.hidden * y)
  BY <1>4, <1>8, WeighJoined
<1>10. Weigh(d, <<a, b, c>> \o f \o <<o>> \o r, (((0 + x * d.hidden + 0) + 0) + d.hidden * y) + 0)
  BY <1>6, <1>9, WeighJoined
<1>11. Weigh(d, <<a, b, c>> \o f \o <<o>> \o r \o <<e>>,
             ((((0 + x * d.hidden + 0) + 0) + d.hidden * y) + 0) + 0)
  BY <1>5, <1>10, WeighJoined
<1>12. ((((0 + x * d.hidden + 0) + 0) + d.hidden * y) + 0) + 0 = AttentionWeight(d)
  <2> DEFINE p == x * d.hidden
             q == d.hidden * y
  <2>1. p \in Int /\ q \in Int
    BY <1>2
  <2>2. AttentionWeight(d) = p + q
    BY <1>3
  <2> HIDE DEF p, q
  <2>3. ((((0 + p + 0) + 0) + q) + 0) + 0 = AttentionWeight(d)
    BY <2>1, <2>2
  <2> QED
    BY <2>3 DEF p, q
<1> QED
  BY <1>1, <1>11, <1>12, Zenon

\* Those of latent attention (deepseek.py) multiply with some number.
LEMMA WeighMla ==
  ASSUME NEW d, Typed(d)
  PROVE  \E k : Weigh(d, MlaAttentionOps(d, OneDecode), k)
<1> DEFINE s     == OneDecode
           T     == s.totalTokens
           heads == HeadsPerRank(d)
           qDim  == heads * QkHeadDim(d)
           lDim  == KvLatentDim(d)
           bDim  == heads * (d.nope + d.vDim)
           vDim  == heads * d.vDim
           q1    == GEMM("q_a_proj", T, d.qLora, d.hidden)
           q2    == GEMM("q_b_proj", T, qDim, d.qLora)
           q3    == GEMM("q_proj", T, qDim, d.hidden)
           k1    == GEMM("kv_a_proj_with_mqa", T, lDim, d.hidden)
           k2    == GEMM("kv_b_proj", T, bDim, d.kvLora)
           m     == MLAAttention(d, heads, s)
           o     == GEMM("o_proj", T, d.hidden, vDim)
           a     == Norm("attn_norm", T * d.hidden)
           r     == DeepSeekReduce("attn_allreduce", d, s)
           e     == ElementWise("attn_add", T * d.hidden)
           q     == IF d.qLora > 0 THEN <<q1, q2>> ELSE <<q3>>
<1>1. MlaAttentionOps(d, s) = <<a>> \o q \o <<k1, k2, m, o>> \o r \o <<e>>
  BY Zenon DEF MlaAttentionOps
<1>2. /\ qDim \in Int /\ lDim \in Int /\ bDim \in Int /\ vDim \in Int
      /\ d.hidden \in Int /\ d.qLora \in Int /\ d.kvLora \in Int
  BY TypedIs, PerRankTyped DEF QkHeadDim, KvLatentDim
<1> HIDE DEF qDim, lDim, bDim, vDim, T, heads
<1>3. /\ Weigh(d, <<q1>>, d.qLora * d.hidden) /\ Weigh(d, <<q2>>, qDim * d.qLora)
      /\ Weigh(d, <<q3>>, qDim * d.hidden) /\ Weigh(d, <<k1>>, lDim * d.hidden)
      /\ Weigh(d, <<k2>>, bDim * d.kvLora) /\ Weigh(d, <<o>>, d.hidden * vDim)
  BY <1>2, WeighGemm
<1>4. Weigh(d, <<a>>, 0) /\ Weigh(d, <<m>>, 0) /\ Weigh(d, <<e>>, 0) /\ Weigh(d, r, 0)
  BY OpsWithoutParams, WeighReduce
<1> HIDE DEF a, q1, q2, q3, k1, k2, m, o, r, e
<1>5. \E k : Weigh(d, q, k)
  <2>1. Weigh(d, <<q1, q2>>, d.qLora * d.hidden + qDim * d.qLora)
    BY <1>3, Weigh2
  <2>2. CASE d.qLora > 0
    <3>1. q = <<q1, q2>>
      BY <2>2
    <3> QED
      BY <2>1, <3>1, Zenon
  <2>3. CASE ~ (d.qLora > 0)
    <3>1. q = <<q3>>
      BY <2>3
    <3> QED
      BY <1>3, <3>1, Zenon
  <2> QED
    BY <2>2, <2>3
<1> HIDE DEF q
<1>6. \E k : Weigh(d, <<k1, k2, m, o>>, k)
  <2>1. Weigh(d, <<k1, k2, m, o>>, lDim * d.hidden + bDim * d.kvLora + 0 + d.hidden * vDim)
    BY <1>3, <1>4, Weigh4
  <2> QED
    BY <2>1, Zenon
<1>7. PICK i, j : Weigh(d, q, i) /\ Weigh(d, <<k1, k2, m, o>>, j)
  BY <1>5, <1>6
<1>8. Weigh(d, <<a>> \o q, 0 + i)
  BY <1>4, <1>7, WeighJoined
<1>9. Weigh(d, <<a>> \o q \o <<k1, k2, m, o>>, (0 + i) + j)
  BY <1>7, <1>8, WeighJoined
<1>10. Weigh(d, <<a>> \o q \o <<k1, k2, m, o>> \o r, ((0 + i) + j) + 0)
  BY <1>4, <1>9, WeighJoined
<1>11. Weigh(d, <<a>> \o q \o <<k1, k2, m, o>> \o r \o <<e>>, (((0 + i) + j) + 0) + 0)
  BY <1>4, <1>10, WeighJoined
<1> QED
  BY <1>1, <1>11, Zenon

\* Two matrices into an inner dimension and one out of it, as of a dense
\* layer and of shared experts.
LEMMA WeighFfn ==
  ASSUME NEW d, NEW f \in Nat, NEW h \in Nat, NEW T, NEW up, NEW act, NEW down,
         up # "moe_gate", down # "moe_gate", NEW n
  PROVE  /\ Weigh(d, <<GEMM(up, T, 2 * f, h), ElementWise(act, T * f), GEMM(down, T, h, f)>>,
                  (2 * f) * h + h * f)
         /\ Weigh(d, <<Norm(n, T * h), GEMM(up, T, 2 * f, h), ElementWise(act, T * f),
                       GEMM(down, T, h, f)>>,
                  (2 * f) * h + h * f)
<1> DEFINE x == 2 * f
           a == Norm(n, T * h)
           b == GEMM(up, T, x, h)
           c == ElementWise(act, T * f)
           e == GEMM(down, T, h, f)
           p == x * h
           q == h * f
<1>1. x \in Int /\ f \in Int /\ h \in Int /\ p \in Int /\ q \in Int
  OBVIOUS
<1> HIDE DEF x
<1>2. Weigh(d, <<b>>, p) /\ Weigh(d, <<e>>, q)
  BY <1>1, WeighGemm
<1>3. Weigh(d, <<a>>, 0) /\ Weigh(d, <<c>>, 0)
  BY OpsWithoutParams
<1> HIDE DEF a, b, c, e, p, q
<1>4. Weigh(d, <<b, c, e>>, p + 0 + q) /\ Weigh(d, <<a, b, c, e>>, 0 + p + 0 + q)
  BY <1>2, <1>3, Weigh3, Weigh4
<1>5. p + 0 + q = p + q /\ 0 + p + 0 + q = p + q
  BY <1>1
<1>6. Weigh(d, <<b, c, e>>, p + q) /\ Weigh(d, <<a, b, c, e>>, p + q)
  BY <1>4, <1>5
<1> QED
  BY <1>6 DEF a, b, c, e, p, q, x

\* Dense layers, of either graph.
LEMMA WeighDense ==
  ASSUME NEW d, Typed(d), NEW s
  PROVE  /\ Weigh(d, QwenDenseFfnOps(d, s), DenseWeight(d))
         /\ Weigh(d, DeepSeekDenseFfnOps(d, s), DenseWeight(d))
<1> DEFINE T == s.totalTokens
           f == FfnPerRank(d)
           a == <<Norm("mlp_norm", T * d.hidden), GEMM("gate_up_proj", T, 2 * f, d.hidden),
                  ElementWise("mlp_act", T * f), GEMM("down_proj", T, d.hidden, f)>>
           r == QwenReduce("tp_down_proj_allreduce", d, s)
           u == DeepSeekReduce("mlp_allreduce", d, s)
           e == <<ElementWise("mlp_add", T * d.hidden)>>
           w == DenseWeight(d)
<1>1. QwenDenseFfnOps(d, s) = a \o r \o e /\ DeepSeekDenseFfnOps(d, s) = a \o u \o e
  BY DEF QwenDenseFfnOps, DeepSeekDenseFfnOps
<1>2. f \in Nat /\ d.hidden \in Nat
  BY TypedIs, PerRankTyped
<1>3. w = (2 * f) * d.hidden + d.hidden * f /\ w \in Int
  BY <1>2 DEF DenseWeight
<1> HIDE DEF f, w
<1>4. Weigh(d, a, w)
  BY <1>2, <1>3, WeighFfn
<1>5. Weigh(d, r, 0) /\ Weigh(d, u, 0) /\ Weigh(d, e, 0)
  BY OpsWithoutParams, WeighReduce
<1> HIDE DEF a, r, u, e
<1>6. Weigh(d, a \o r \o e, (w + 0) + 0) /\ Weigh(d, a \o u \o e, (w + 0) + 0)
  BY <1>4, <1>5, WeighJoined
<1>7. (w + 0) + 0 = w
  BY <1>3
<1> QED
  BY <1>1, <1>6, <1>7, Zenon DEF w

\* Shared experts, of either graph.
LEMMA WeighShared ==
  ASSUME NEW d, Typed(d), NEW s
  PROVE  /\ Weigh(d, QwenSharedExpertOps(d, s), SharedWeight(d))
         /\ Weigh(d, DeepSeekSharedExpertOps(d, s), SharedWeight(d))
<1> DEFINE T == s.totalTokens
           f == SharedPerRank(d)
           a == <<GEMM("shared_expert_up_gate", T, 2 * f, d.hidden),
                  ElementWise("shared_expert_act", T * f),
                  GEMM("shared_expert_down", T, d.hidden, f)>>
           r == QwenReduce("shared_expert_allreduce", d, s)
           u == DeepSeekReduce("shared_expert_allreduce", d, s)
           w == SharedWeight(d)
<1>1. QwenSharedExpertOps(d, s) = a \o r /\ DeepSeekSharedExpertOps(d, s) = a \o u
  BY DEF QwenSharedExpertOps, DeepSeekSharedExpertOps
<1>2. f \in Nat /\ d.hidden \in Nat
  BY TypedIs, PerRankTyped
<1>3. w = (2 * f) * d.hidden + d.hidden * f /\ w \in Int
  BY <1>2 DEF SharedWeight
<1> HIDE DEF f, w
<1>4. Weigh(d, a, w)
  BY <1>2, <1>3, WeighFfn
<1>5. Weigh(d, r, 0) /\ Weigh(d, u, 0)
  BY WeighReduce
<1> HIDE DEF a, r, u
<1>6. Weigh(d, a \o r, w + 0) /\ Weigh(d, a \o u, w + 0)
  BY <1>4, <1>5, WeighJoined
<1>7. w + 0 = w
  BY <1>3
<1> QED
  BY <1>1, <1>6, <1>7, Zenon DEF w

\* Layers with experts: the gate is no part of what is multiplied with.
LEMMA WeighMoe ==
  ASSUME NEW d, Typed(d), NEW s, NEW layer
  PROVE  LET w == RoutedWeight(d) + (IF d.shared > 0 THEN SharedWeight(d) ELSE 0)
         IN  /\ Weigh(d, QwenMoeFfnOps(d, s, layer), w)
             /\ Weigh(d, DeepSeekMoeFfnOps(d, s, layer), w)
<1> DEFINE T == s.totalTokens
           a == Norm("mlp_norm", T * d.hidden)
           b == Router(T, d.experts, d.hidden)
           c == ElementWise("moe_topk", T * d.experts)
           i == MoEDispatch(d, "moe_dispatch_pre", TRUE, T)
           m == MoE(d, T, SkewForLayer(d, layer))
           o == MoEDispatch(d, "moe_dispatch_post", FALSE, T)
           x == IF d.shared > 0 THEN QwenSharedExpertOps(d, s) ELSE << >>
           y == IF d.shared > 0 THEN DeepSeekSharedExpertOps(d, s) ELSE << >>
           e == <<ElementWise("mlp_add", T * d.hidden)>>
           R == RoutedWeight(d)
           S == IF d.shared > 0 THEN SharedWeight(d) ELSE 0
<1>1. /\ QwenMoeFfnOps(d, s, layer) = <<a, b, c, i, m, o>> \o x \o e
      /\ DeepSeekMoeFfnOps(d, s, layer) = <<a, b, c, i, m, o>> \o y \o e
  BY Zenon DEF QwenMoeFfnOps, DeepSeekMoeFfnOps
<1>2. R \in Int
  <2> DEFINE k == d.experts \div d.ep
             l == ExpertDimPerDevice(d)
  <2>1. k \in Nat /\ l \in Nat /\ d.hidden \in Nat
    BY TypedIs, PerRankTyped
  <2> HIDE DEF k, l
  <2>2. 3 * k * d.hidden * l \in Int
    BY <2>1
  <2> QED
    BY <2>2 DEF RoutedWeight, k, l
<1>3. S \in Int
  BY TypedIs, PerRankTyped DEF SharedWeight
<1>4. Weigh(d, <<m>>, R)
  <2>1. m.kind = "moe"
    BY DEF MoE
  <2> HIDE DEF m
  <2>2. ParamsOf(d, m) = R
    BY <2>1 DEF ParamsOf, RoutedWeight
  <2> HIDE DEF R
  <2> QED
    BY <1>2, <2>2, WeighOne
<1>5. Weigh(d, x, S) /\ Weigh(d, y, S)
  BY WeighShared, WeighNone
<1>6. /\ Weigh(d, <<a>>, 0) /\ Weigh(d, <<b>>, 0) /\ Weigh(d, <<c>>, 0) /\ Weigh(d, <<i>>, 0)
      /\ Weigh(d, <<o>>, 0) /\ Weigh(d, e, 0)
  BY OpsWithoutParams
<1> HIDE DEF a, b, c, i, m, o, x, y, e, R, S
<1>7. Weigh(d, <<a, b, c, i>> \o <<m>> \o <<o>>, ((0 + 0 + 0 + 0) + R) + 0)
  <2>1. Weigh(d, <<a, b, c, i>>, 0 + 0 + 0 + 0)
    BY <1>6, Weigh4
  <2>2. Weigh(d, <<a, b, c, i>> \o <<m>>, (0 + 0 + 0 + 0) + R)
    BY <1>4, <2>1, WeighJoined
  <2> QED
    BY <1>6, <2>2, WeighJoined
<1>8. <<a, b, c, i, m, o>> = <<a, b, c, i>> \o <<m>> \o <<o>>
  <2>1. <<a, b, c, i, m>> = <<a, b, c, i>> \o <<m>>
    OBVIOUS
  <2>2. <<a, b, c, i, m, o>> = <<a, b, c, i, m>> \o <<o>>
    OBVIOUS
  <2> QED
    BY <2>1, <2>2, Zenon
<1>9. Weigh(d, <<a, b, c, i, m, o>>, R)
  <2>1. ((0 + 0 + 0 + 0) + R) + 0 = R
    BY <1>2
  <2> QED
    BY <1>7, <1>8, <2>1, Zenon
<1>10. /\ Weigh(d, <<a, b, c, i, m, o>> \o x \o e, (R + S) + 0)
       /\ Weigh(d, <<a, b, c, i, m, o>> \o y \o e, (R + S) + 0)
  BY <1>5, <1>6, <1>9, WeighJoined
<1>11. (R + S) + 0 = R + S
  BY <1>2, <1>3
<1>12. /\ Weigh(d, QwenMoeFfnOps(d, s, layer), R + S)
       /\ Weigh(d, DeepSeekMoeFfnOps(d, s, layer), R + S)
  BY <1>1, <1>10, <1>11, Zenon
<1> QED
  BY <1>12 DEF R, S

-----------------------------------------------------------------------------
(* The plan of a model                                                     *)

\* The operators of a layer, as often as there are layers.
LEMMA PartTimes ==
  ASSUME NEW d, NEW ops, NEW params, Weigh(d, ops, params), NEW count \in Int
  PROVE  Part(d, Times(ops, count), count * params)
<1>1. params \in Int
  BY DEF Weigh
<1>2. count * params \in Int
  BY <1>1
<1> QED
  BY <1>2, WeighTimes DEF Part

\* Every layer is of one kind.
LEMMA LayersCounted ==
  ASSUME NEW d, d.layers \in Nat
  PROVE  /\ IsFiniteSet(LayersOf(d)) /\ Cardinality(LayersOf(d)) = d.layers
         /\ \A i \in LayersOf(d) : i \in Int
         /\ IsFiniteSet(MoeLayers(d)) /\ IsFiniteSet(DenseLayers(d))
         /\ Cardinality(MoeLayers(d)) \in Nat /\ Cardinality(DenseLayers(d)) \in Nat
         /\ MoeLayers(d) \cup DenseLayers(d) = LayersOf(d)
         /\ MoeLayers(d) \cap DenseLayers(d) = {}
         /\ Cardinality(MoeLayers(d)) + Cardinality(DenseLayers(d)) = d.layers
<1> DEFINE L == LayersOf(d)
           M == MoeLayers(d)
           D == DenseLayers(d)
           top == d.layers - 1
<1>1. 0 \in Int /\ top \in Int
  OBVIOUS
<1>2. L = 0..top
  BY DEF LayersOf
<1>3. IsFiniteSet(L) /\ Cardinality(L) = d.layers /\ \A i \in L : i \in Int
  <2>1. top + 1 = d.layers /\ (0 > top => d.layers = 0)
    OBVIOUS
  <2> HIDE DEF top
  <2>2. IsFiniteSet(0..top) /\ Cardinality(0..top) = IF 0 > top THEN 0 ELSE top - 0 + 1
    BY <1>1, FS_Interval
  <2>3. top - 0 + 1 = top + 1
    BY <1>1
  <2>4. \A i \in 0..top : i \in Int
    BY <1>1
  <2> QED
    BY <1>2, <2>1, <2>2, <2>3, <2>4
<1>4. M \subseteq L /\ D = L \ M
  BY DEF MoeLayers, DenseLayers
<1>5. M \cup D = L /\ M \cap D = {}
  BY <1>4
<1>6. IsFiniteSet(M) /\ IsFiniteSet(D)
  BY <1>3, <1>4, FS_Subset
<1>7. Cardinality(M) \in Nat /\ Cardinality(D) \in Nat
  BY <1>6, FS_CardinalityType
<1>8. Cardinality(L) = Cardinality(M) + Cardinality(D) - Cardinality(M \cap D)
  BY <1>5, <1>6, FS_Union
<1>9. Cardinality(M \cap D) = 0
  BY <1>5, FS_EmptySet
<1> QED
  BY <1>3, <1>5, <1>6, <1>7, <1>8, <1>9

\* A part without operators.
LEMMA PartNone == ASSUME NEW d PROVE Part(d, << >>, 0)
<1>1. IsSeq(<< >>) /\ DOMAIN << >> = {}
  BY DEF IsSeq
<1>2. DOMAIN [i \in DOMAIN << >> |-> MatrixParams(d, << >>[i])] = {}
  BY <1>1
<1>3. Multiplied(d, << >>) = 0
  BY <1>2, SumEmpty DEF Multiplied, SumFunction
<1> QED
  BY <1>1, <1>3 DEF Part

\* A bucket of layers weighs as many times as it has layers.
LEMMA PartBucket ==
  ASSUME NEW d, NEW s, NEW layers, IsFiniteSet(layers), \A i \in layers : i \in Int, NEW w \in Int,
         \A i \in layers : Weigh(d, FfnOps(d, s, i), w)
  PROVE  Part(d, BucketNodes(d, s, layers), Cardinality(layers) * w)
<1>1. CASE layers = {}
  <2>1. Cardinality(layers) = 0
    BY <1>1, FS_EmptySet
  <2>2. Cardinality(layers) * w = 0
    BY <2>1
  <2> QED
    BY <1>1, <2>2, PartNone DEF BucketNodes
<1>2. CASE layers # {}
  <2>1. Min(layers) \in layers
    BY <1>2, MinIn
  <2>2. Weigh(d, FfnOps(d, s, Min(layers)), w)
    BY <2>1
  <2>3. Cardinality(layers) \in Int
    BY FS_CardinalityType
  <2>4. Part(d, Times(FfnOps(d, s, Min(layers)), Cardinality(layers)), Cardinality(layers) * w)
    BY <2>2, <2>3, PartTimes
  <2> QED
    BY <1>2, <2>4 DEF BucketNodes
<1> QED
  BY <1>1, <1>2

\* What a layer with experts multiplies with.
MoeWeight(d) == RoutedWeight(d) + (IF d.shared > 0 THEN SharedWeight(d) ELSE 0)

\* These are numbers.
LEMMA WeightsTyped ==
  ASSUME NEW d, Typed(d)
  PROVE  AttentionWeight(d) \in Int /\ DenseWeight(d) \in Int /\ MoeWeight(d) \in Int
<1>1. SharedWeight(d) \in Int /\ DenseWeight(d) \in Int /\ AttentionWeight(d) \in Int
  <2> DEFINE nq == HeadsPerRank(d)
             nk == KvHeadsPerRank(d)
  <2>1. nq \in Nat /\ nk \in Nat /\ d.headDim \in Nat /\ d.hidden \in Nat
    BY TypedIs, PerRankTyped
  <2>2. SharedWeight(d) \in Int /\ DenseWeight(d) \in Int
    BY TypedIs, PerRankTyped DEF SharedWeight, DenseWeight
  <2> HIDE DEF nq, nk
  <2>3. (nq + 2 * nk) * d.headDim \in Int /\ nq * d.headDim \in Int
    BY <2>1
  <2>4. (nq + 2 * nk) * d.headDim * d.hidden + d.hidden * (nq * d.headDim) \in Int
    BY <2>1, <2>3
  <2> QED
    BY <2>2, <2>4 DEF AttentionWeight, nq, nk
<1>2. RoutedWeight(d) \in Int
  <2> DEFINE k == d.experts \div d.ep
             l == ExpertDimPerDevice(d)
  <2>1. k \in Nat /\ l \in Nat /\ d.hidden \in Nat
    BY TypedIs, PerRankTyped
  <2> HIDE DEF k, l
  <2>2. 3 * k * d.hidden * l \in Int
    BY <2>1
  <2> QED
    BY <2>2 DEF RoutedWeight, k, l
<1> QED
  BY <1>1, <1>2 DEF MoeWeight

\* What the operators of a model multiply with.
LEMMA GraphWeighs ==
  ASSUME NEW d, Typed(d)
  PROVE  /\ AttentionInGraph(d) \in Int
         /\ ArchOf(d) # "deepseek" => AttentionInGraph(d) = d.layers * AttentionWeight(d)
         /\ GraphParams(d) = AttentionInGraph(d)
                               + Cardinality(DenseLayers(d)) * DenseWeight(d)
                               + Cardinality(MoeLayers(d)) * MoeWeight(d)
                               + (d.vocab \div d.tp) * d.hidden
<1> DEFINE s == OneDecode
           A == AttentionInGraph(d)
           D == DenseLayers(d)
           M == MoeLayers(d)
           wD == DenseWeight(d)
           wM == MoeWeight(d)
           v == d.vocab \div d.tp
           p1 == Times(EmbeddingOps(d, s), 1)
           p2 == Times(AttentionOps(d, s), d.layers)
           p3 == BucketNodes(d, s, D)
           p4 == BucketNodes(d, s, M)
           p5 == Times(LmHeadOps(d, s), 1)
<1>1. /\ d.layers \in Int /\ d.hidden \in Int /\ v \in Int
      /\ d.layers \in Nat
  BY TypedIs
<1>2. wD \in Int /\ wM \in Int /\ AttentionWeight(d) \in Int
  BY WeightsTyped
<1>3. Part(d, p1, 1 * 0)
  <2>1. Weigh(d, EmbeddingOps(d, s), 0)
    BY OpsWithoutParams DEF EmbeddingOps
  <2> QED
    BY <2>1, PartTimes
<1>4. /\ Part(d, p2, A)
      /\ ArchOf(d) # "deepseek" => A = d.layers * AttentionWeight(d)
  <2>1. \E k : Weigh(d, AttentionOps(d, s), k) /\ (ArchOf(d) # "deepseek" => k = AttentionWeight(d))
    BY WeighAttention, WeighMla DEF AttentionOps
  <2>2. PICK k : Weigh(d, AttentionOps(d, s), k)
                   /\ (ArchOf(d) # "deepseek" => k = AttentionWeight(d))
    BY <2>1
  <2>3. Part(d, p2, d.layers * k)
    BY <1>1, <2>2, PartTimes
  <2>4. A = d.layers * k
    BY <2>3 DEF Part, AttentionInGraph
  <2> QED
    BY <2>2, <2>3, <2>4
<1>5. Part(d, p3, Cardinality(D) * wD)
  <2>1. IsFiniteSet(D) /\ \A i \in D : i \in Int
    BY <1>1, LayersCounted
  <2>2. \A i \in D : ~ IsMoeLayer(d, i)
    BY DEF DenseLayers, MoeLayers
  <2>3. \A i \in D : Weigh(d, FfnOps(d, s, i), wD)
    <3> SUFFICES ASSUME NEW i \in D PROVE Weigh(d, FfnOps(d, s, i), wD)
      OBVIOUS
    <3>1. ~ IsMoeLayer(d, i)
      BY <2>2
    <3>2. CASE ArchOf(d) = "deepseek"
      BY <3>1, <3>2, WeighDense, Zenon DEF FfnOps
    <3>3. CASE ArchOf(d) # "deepseek"
      BY <3>1, <3>3, WeighDense, Zenon DEF FfnOps
    <3> QED
      BY <3>2, <3>3
  <2> HIDE DEF D, wD
  <2> QED
    BY <1>2, <2>1, <2>3, PartBucket
<1>6. Part(d, p4, Cardinality(M) * wM)
  <2>1. IsFiniteSet(M) /\ \A i \in M : i \in Int
    BY <1>1, LayersCounted
  <2>2. \A i \in M : IsMoeLayer(d, i)
    BY DEF MoeLayers
  <2>3. \A i \in M : Weigh(d, FfnOps(d, s, i), wM)
    <3> SUFFICES ASSUME NEW i \in M PROVE Weigh(d, FfnOps(d, s, i), wM)
      OBVIOUS
    <3>1. IsMoeLayer(d, i)
      BY <2>2
    <3>2. CASE ArchOf(d) = "deepseek"
      BY <3>1, <3>2, WeighMoe, Zenon DEF FfnOps, MoeWeight
    <3>3. CASE ArchOf(d) # "deepseek"
      BY <3>1, <3>3, WeighMoe, Zenon DEF FfnOps, MoeWeight
    <3> QED
      BY <3>2, <3>3
  <2> HIDE DEF M, wM
  <2> QED
    BY <1>2, <2>1, <2>3, PartBucket
<1>7. Part(d, p5, 1 * (v * d.hidden))
  <2> HIDE DEF v
  <2>1. Weigh(d, <<GEMM("lm_head", LmHeadRows(s), v, d.hidden)>>, v * d.hidden)
    BY <1>1, WeighGemm
  <2> QED
    BY <2>1, PartTimes DEF LmHeadOps, v
<1>8. PlanOf(d, s) = p1 \o p2 \o p3 \o p4 \o p5
  BY DEF PlanOf
<1> HIDE DEF A, D, M, wD, wM, v, p1, p2, p3, p4, p5
<1>9. Part(d, p1 \o p2 \o p3 \o p4 \o p5,
           1 * 0 + A + Cardinality(D) * wD + Cardinality(M) * wM + 1 * (v * d.hidden))
  <2>1. Part(d, p1 \o p2, 1 * 0 + A)
    BY <1>3, <1>4, PartJoined
  <2>2. Part(d, p1 \o p2 \o p3, 1 * 0 + A + Cardinality(D) * wD)
    BY <1>5, <2>1, PartJoined
  <2>3. Part(d, p1 \o p2 \o p3 \o p4, 1 * 0 + A + Cardinality(D) * wD + Cardinality(M) * wM)
    BY <1>6, <2>2, PartJoined
  <2> QED
    BY <1>7, <2>3, PartJoined
<1>10. /\ A \in Int /\ Cardinality(D) * wD \in Int /\ Cardinality(M) * wM \in Int
       /\ v * d.hidden \in Int
  BY <1>1, <1>4, <1>5, <1>6 DEF Part
<1>11. GraphParams(d) = 1 * 0 + A + Cardinality(D) * wD + Cardinality(M) * wM + 1 * (v * d.hidden)
  BY <1>8, <1>9, Zenon DEF GraphParams, Part
<1>12. GraphParams(d) = A + Cardinality(D) * wD + Cardinality(M) * wM + v * d.hidden
  <2> DEFINE x == Cardinality(D) * wD
             y == Cardinality(M) * wM
             z == v * d.hidden
  <2>1. GraphParams(d) = 1 * 0 + A + x + y + 1 * z /\ x \in Int /\ y \in Int /\ z \in Int
    BY <1>10, <1>11
  <2> HIDE DEF x, y, z
  <2>2. GraphParams(d) = A + x + y + z
    BY <1>10, <2>1
  <2> QED
    BY <2>2 DEF x, y, z
<1> QED
  BY <1>4, <1>10, <1>12 DEF A, D, M, wD, wM, v

-----------------------------------------------------------------------------
(* Shares of weights                                                       *)

\* Quotients without a remainder.
LEMMA QuotientOf ==
  ASSUME NEW n \in Nat, n # 0, NEW k \in Nat
  PROVE  (n * k) \div n = k
<1> DEFINE x == n * k
           q == x \div n
           r == x % n
<1>1. x \in Nat /\ q \in Int /\ r \in Int /\ x = n * q + r /\ 0 <= r /\ r < n
  BY DEF x
<1>2. CASE q > k
  <2>1. n * (q - k) >= n
    BY <1>1, <1>2
  <2>2. n * (q - k) = n * q - n * k
    BY <1>1
  <2> QED
    BY <1>1, <2>1, <2>2
<1>3. CASE q < k
  <2>1. n * (k - q) >= n
    BY <1>1, <1>3
  <2>2. n * (k - q) = n * k - n * q
    BY <1>1
  <2> QED
    BY <1>1, <2>1, <2>2
<1> QED
  BY <1>1, <1>2, <1>3

LEMMA ExactQuotient ==
  ASSUME NEW n \in Nat, n # 0, NEW x \in Nat, x % n = 0
  PROVE  x = n * (x \div n) /\ x \div n \in Nat
OBVIOUS

\* A vector of h values of w half bytes is z bytes on each of n ranks.
Split(h, w, n, z) == h * w = 2 * n * z

\* It is y values on each rank.
Slices(h, w, n, y, z) == h = n * y /\ y * w = 2 * z

\* What has a hidden vector per unit is shared exactly, if the vector is.
LEMMA HiddenShared ==
  ASSUME NEW c \in Nat, NEW h \in Nat, NEW w \in Nat, NEW z \in Nat, NEW n \in Nat, n # 0,
         Split(h, w, n, z), NEW p, p = h * c
  PROVE  Share(p, w, n) = c * z
<1> DEFINE k == c * z
           m == 2 * n
<1>1. k \in Nat /\ m \in Nat /\ m # 0
  OBVIOUS
<1>2. (h * c) * w = m * k
  <2>1. (h * c) * w = (h * w) * c
    OBVIOUS
  <2>2. (m * z) * c = m * (c * z)
    BY <1>1
  <2>3. h * w = m * z
    BY DEF Split
  <2> QED
    BY <2>1, <2>2, <2>3
<1>3. Share(p, w, n) = (m * k) \div m
  BY <1>2 DEF Share
<1> HIDE DEF k, m
<1>4. (m * k) \div m = k
  BY <1>1, QuotientOf
<1> QED
  BY <1>3, <1>4 DEF k

\* And is worth as much, counted a rank at a time.
LEMMA HiddenWeighed ==
  ASSUME NEW h \in Nat, NEW w \in Nat, NEW z \in Nat, NEW n \in Nat, Split(h, w, n, z)
  PROVE  \A g \in Nat : (h * g) * w = 2 * ((n * g) * z)
<1> SUFFICES ASSUME NEW g \in Nat PROVE (h * g) * w = 2 * ((n * g) * z)
  OBVIOUS
<1>1. (h * g) * w = (h * w) * g
  OBVIOUS
<1>2. (2 * n * z) * g = 2 * ((n * g) * z)
  OBVIOUS
<1> QED
  BY <1>1, <1>2 DEF Split

\* A share is a number.
LEMMA ShareTyped ==
  ASSUME NEW p \in Nat, NEW w \in Nat, NEW n \in Nat, n # 0
  PROVE  Share(p, w, n) \in Nat
<1> DEFINE x == p * w
           m == 2 * n
<1>1. x \in Nat /\ m \in Nat /\ m # 0
  OBVIOUS
<1> HIDE DEF x, m
<1>2. x \div m \in Nat
  BY <1>1
<1> QED
  BY <1>2 DEF Share, x, m

\* What is sized, by kinds of layers.
LEMMA SizedByKind ==
  ASSUME NEW m, m.layers \in Nat, NEW w, NEW tp, NEW ep,
         Share(AttentionParams(m), w, tp) \in Int, Share(2 * m.hidden, w, tp) \in Int,
         Share(RoutedParams(m), w, Larger(tp, ep)) \in Int, Share(SharedParams(m), w, tp) \in Int,
         Share(DenseFfnParams(m), w, tp) \in Int
  PROVE  PerRankParamBytes(m, w, tp, ep)
           = m.layers * (Share(AttentionParams(m), w, tp) + Share(2 * m.hidden, w, tp))
               + Cardinality(MoeLayers(m))
                   * (Share(RoutedParams(m), w, Larger(tp, ep)) + Share(SharedParams(m), w, tp))
               + Cardinality(DenseLayers(m)) * Share(DenseFfnParams(m), w, tp)
               + Share(2 * m.vocab * m.hidden + m.hidden, w, tp)
<1> DEFINE LayerBytes(i) == Share(AttentionParams(m), w, tp) + Share(2 * m.hidden, w, tp)
             + (IF IsMoeLayer(m, i)
                  THEN Share(RoutedParams(m), w, Larger(tp, ep)) + Share(SharedParams(m), w, tp)
                  ELSE Share(DenseFfnParams(m), w, tp))
           A  == Share(AttentionParams(m), w, tp)
           N  == Share(2 * m.hidden, w, tp)
           R  == Share(RoutedParams(m), w, Larger(tp, ep))
           S  == Share(SharedParams(m), w, tp)
           D  == Share(DenseFfnParams(m), w, tp)
           L  == LayersOf(m)
           f  == [i \in L |-> LayerBytes(i)]
           M  == MoeLayers(m)
           U  == DenseLayers(m)
           nM == Cardinality(M)
           nU == Cardinality(U)
           cM == A + N + (R + S)
           cU == A + N + D
<1>1. A \in Int /\ N \in Int /\ R \in Int /\ S \in Int /\ D \in Int
  OBVIOUS
<1>2. \A i : LayerBytes(i) = A + N + (IF IsMoeLayer(m, i) THEN R + S ELSE D)
  OBVIOUS
<1> HIDE DEF A, N, R, S, D, LayerBytes
<1>3. /\ IsFiniteSet(L) /\ IsFiniteSet(M) /\ IsFiniteSet(U) /\ nM \in Nat /\ nU \in Nat
      /\ M \cup U = L /\ M \cap U = {} /\ nM + nU = m.layers
  BY LayersCounted
<1>4. PerRankParamBytes(m, w, tp, ep)
        = SumFunctionOnSet(f, L) + Share(2 * m.vocab * m.hidden + m.hidden, w, tp)
  BY DEF PerRankParamBytes, SumFunction, LayerBytes
<1>5. (\A i \in M : IsMoeLayer(m, i)) /\ \A i \in U : ~ IsMoeLayer(m, i)
  BY DEF MoeLayers, DenseLayers
<1>6. cM \in Int /\ cU \in Int
  BY <1>1
<1>7. \A i \in L : f[i] = IF IsMoeLayer(m, i) THEN cM ELSE cU
  <2> SUFFICES ASSUME NEW i \in L PROVE f[i] = IF IsMoeLayer(m, i) THEN cM ELSE cU
    OBVIOUS
  <2>1. f[i] = LayerBytes(i)
    OBVIOUS
  <2>2. LayerBytes(i) = A + N + (IF IsMoeLayer(m, i) THEN R + S ELSE D)
    BY <1>2
  <2> HIDE DEF f
  <2>3. CASE IsMoeLayer(m, i)
    BY <2>1, <2>2, <2>3
  <2>4. CASE ~ IsMoeLayer(m, i)
    BY <2>1, <2>2, <2>4
  <2> QED
    BY <2>3, <2>4
<1> HIDE DEF f, L, M, U, cM, cU
<1>8. (\A i \in M : f[i] = cM) /\ (\A i \in U : f[i] = cU) /\ \A i \in M \cup U : f[i] \in Int
  BY <1>3, <1>5, <1>6, <1>7
<1>9. SumFunctionOnSet(f, M) = cM * nM /\ SumFunctionOnSet(f, U) = cU * nU
  BY <1>3, <1>6, <1>8, SumConstant
<1>10. SumFunctionOnSet(f, L) = SumFunctionOnSet(f, M) + SumFunctionOnSet(f, U)
  <2>1. SumFunctionOnSet(f, M \cup U) = SumFunctionOnSet(f, M) + SumFunctionOnSet(f, U)
    BY <1>3, <1>8, SumUnion
  <2> QED
    BY <1>3, <2>1
<1> HIDE DEF nM, nU
<1>11. cM * nM + cU * nU = m.layers * (A + N) + nM * (R + S) + nU * D
  <2> DEFINE B == A + N
             C == R + S
  <2>1. B \in Int /\ C \in Int
    BY <1>1
  <2>2. cM = B + C /\ cU = B + D
    BY DEF cM, cU
  <2> HIDE DEF B, C
  <2>3. (B + C) * nM + (B + D) * nU = (nM + nU) * B + nM * C + nU * D
    BY <1>1, <1>3, <2>1
  <2> QED
    BY <1>3, <2>2, <2>3 DEF B, C
<1> QED
  BY <1>4, <1>9, <1>10, <1>11 DEF nM, nU, M, U, A, N, R, S, D

\* Weights of a layer in terms of what is shared: the parts that have a hidden
\* vector per unit, for z half vectors a rank.
LEMMA EvenWeights ==
  ASSUME NEW d, Typed(d), NEW w \in Nat, NEW y \in Nat, NEW z \in Nat,
         Slices(d.hidden, w, d.tp, y, z),
         d.heads % d.tp = 0, d.kvHeads % d.tp = 0, d.ffn % d.tp = 0, d.vocab % d.tp = 0,
         (d.expertDim * d.shared) % d.tp = 0
  PROVE  LET cA == 2 * d.heads * d.headDim + 2 * d.kvHeads * d.headDim
         IN  /\ AttentionWeight(d) * w = 2 * (cA * z)
             /\ Share(AttentionParams(d), w, d.tp) = cA * z
             /\ DenseWeight(d) * w = 2 * ((3 * d.ffn) * z)
             /\ Share(DenseFfnParams(d), w, d.tp) = (3 * d.ffn) * z
             /\ SharedWeight(d) * w = 2 * ((3 * (d.expertDim * d.shared)) * z)
             /\ Share(SharedParams(d), w, d.tp) = (3 * (d.expertDim * d.shared)) * z
             /\ ((d.vocab \div d.tp) * d.hidden) * w = 2 * (d.vocab * z)
             /\ Share(2 * d.hidden, w, d.tp) = 2 * z
             /\ Share(2 * d.vocab * d.hidden + d.hidden, w, d.tp) = (2 * d.vocab + 1) * z
             /\ Split(d.hidden, w, d.tp, z)
<1> DEFINE h  == d.hidden
           t  == d.tp
           hd == d.headDim
           H  == d.heads
           K  == d.kvHeads
           a  == HeadsPerRank(d)
           b  == KvHeadsPerRank(d)
           f  == FfnPerRank(d)
           v  == d.vocab \div d.tp
           X  == d.expertDim * d.shared
           e  == SharedPerRank(d)
           cA == 2 * H * hd + 2 * K * hd
<1>1. /\ h \in Nat /\ t \in Nat /\ t # 0 /\ hd \in Nat /\ H \in Nat /\ K \in Nat
      /\ d.ffn \in Nat /\ d.vocab \in Nat /\ d.expertDim \in Nat /\ d.shared \in Nat /\ X \in Nat
  BY TypedIs
<1>2. /\ H = t * a /\ a \in Nat /\ K = t * b /\ b \in Nat /\ d.ffn = t * f /\ f \in Nat
      /\ d.vocab = t * v /\ v \in Nat /\ X = t * e /\ e \in Nat
  <2> HIDE DEF X, t, H, K
  <2> QED
    BY <1>1, ExactQuotient DEF HeadsPerRank, KvHeadsPerRank, FfnPerRank, SharedPerRank, X, t, H, K
<1>3. Split(h, w, t, z)
  <2>1. h * w = (t * y) * w
    BY DEF Slices
  <2>2. (t * y) * w = t * (y * w)
    BY <1>1
  <2>3. t * (2 * z) = 2 * t * z /\ y * w = 2 * z
    BY <1>1 DEF Slices
  <2> HIDE DEF h, t
  <2> QED
    BY <2>1, <2>2, <2>3 DEF h, t, Split
<1>4. /\ AttentionParams(d) = 2 * h * H * hd + 2 * h * K * hd
      /\ AttentionWeight(d) = (a + 2 * b) * hd * h + h * (a * hd)
      /\ DenseFfnParams(d) = 3 * h * d.ffn /\ DenseWeight(d) = (2 * f) * h + h * f
      /\ SharedParams(d) = 3 * d.shared * h * d.expertDim
      /\ SharedWeight(d) = (2 * e) * h + h * e
  BY DEF AttentionParams, AttentionWeight, DenseFfnParams, DenseWeight, SharedParams, SharedWeight
<1> DEFINE F == d.ffn
           V == d.vocab
           E == d.expertDim
           Y == d.shared
<1>5. /\ F \in Nat /\ V \in Nat /\ E \in Nat /\ Y \in Nat /\ X = E * Y /\ F = t * f /\ V = t * v
      /\ DenseFfnParams(d) = 3 * h * F /\ SharedParams(d) = 3 * Y * h * E
  BY <1>1, <1>2, <1>4
<1>6. h \in Nat /\ t \in Nat /\ t # 0 /\ w \in Nat /\ z \in Nat
  BY <1>1
<1> HIDE DEF h, t, hd, H, K, a, b, f, v, X, e, F, V, E, Y, cA
<1>7. /\ cA \in Nat /\ 3 * F \in Nat /\ 3 * X \in Nat /\ 2 * V + 1 \in Nat
  <2>1. H * hd \in Nat /\ K * hd \in Nat
    BY <1>1
  <2> QED
    BY <1>1, <1>5, <2>1 DEF cA
<1>8. AttentionParams(d) = h * cA
  <2>1. 2 * h * H * hd = h * (2 * H * hd) /\ 2 * h * K * hd = h * (2 * K * hd)
    BY <1>1
  <2>2. h * (2 * H * hd + 2 * K * hd) = h * (2 * H * hd) + h * (2 * K * hd)
    BY <1>1
  <2> QED
    BY <1>4, <2>1, <2>2 DEF cA
<1>9. DenseFfnParams(d) = h * (3 * F) /\ SharedParams(d) = h * (3 * X)
  <2>1. 3 * h * F = h * (3 * F)
    BY <1>1, <1>5
  <2>2. 3 * Y * h * E = h * (3 * (E * Y))
    BY <1>1, <1>5
  <2> QED
    BY <1>5, <2>1, <2>2
<1>10. /\ Share(AttentionParams(d), w, t) = cA * z
      /\ Share(DenseFfnParams(d), w, t) = (3 * F) * z
      /\ Share(SharedParams(d), w, t) = (3 * X) * z
  <2> DEFINE F3 == 3 * F
             X3 == 3 * X
  <2>1. F3 \in Nat /\ X3 \in Nat
    BY <1>7
  <2>2. DenseFfnParams(d) = h * F3 /\ SharedParams(d) = h * X3
    BY <1>9
  <2> HIDE DEF F3, X3
  <2>3. Share(AttentionParams(d), w, t) = cA * z
    BY ONLY <1>6, <1>3, <1>7, <1>8, HiddenShared
  <2>4. Share(DenseFfnParams(d), w, t) = F3 * z
    BY ONLY <1>6, <1>3, <2>1, <2>2, HiddenShared
  <2>5. Share(SharedParams(d), w, t) = X3 * z
    BY ONLY <1>6, <1>3, <2>1, <2>2, HiddenShared
  <2> QED
    BY <2>3, <2>4, <2>5 DEF F3, X3
<1>11. /\ Share(2 * h, w, t) = 2 * z
       /\ Share(2 * V * h + h, w, t) = (2 * V + 1) * z
  <2> DEFINE two == 2
             V2  == 2 * V + 1
             p   == 2 * h
             q   == 2 * V * h + h
  <2>1. two \in Nat /\ V2 \in Nat
    BY <1>7
  <2>2. p = h * two /\ q = h * V2
    BY <1>1, <1>5
  <2> HIDE DEF two, V2, p, q
  <2>3. Share(p, w, t) = two * z
    BY ONLY <1>6, <1>3, <2>1, <2>2, HiddenShared
  <2>4. Share(q, w, t) = V2 * z
    BY ONLY <1>6, <1>3, <2>1, <2>2, HiddenShared
  <2> QED
    BY <2>3, <2>4 DEF two, V2, p, q
<1>12. \A g \in Nat : (h * g) * w = 2 * ((t * g) * z)
  BY ONLY <1>6, <1>3, HiddenWeighed
<1>13. AttentionWeight(d) * w = 2 * (cA * z)
  <2> DEFINE g == (2 * a + 2 * b) * hd
  <2>1. AttentionWeight(d) = h * g
    <3>1. (a + 2 * b) * hd * h = h * ((a + 2 * b) * hd)
      BY <1>1, <1>2
    <3>2. (a + 2 * b) * hd + a * hd = g
      BY <1>1, <1>2
    <3>3. h * ((a + 2 * b) * hd) + h * (a * hd) = h * ((a + 2 * b) * hd + a * hd)
      BY <1>1, <1>2
    <3> QED
      BY <1>4, <3>1, <3>2, <3>3
  <2>2. t * g = cA /\ g \in Nat
    <3>1. t * g = 2 * (t * a) * hd + 2 * (t * b) * hd
      BY <1>1, <1>2
    <3>2. g \in Nat
      BY <1>1, <1>2
    <3> QED
      BY <1>2, <3>1, <3>2 DEF cA
  <2> HIDE DEF g
  <2> QED
    BY ONLY <1>12, <2>1, <2>2
<1>14. DenseWeight(d) * w = 2 * ((3 * F) * z)
  <2> DEFINE g == 3 * f
             c == 3 * F
  <2>1. DenseWeight(d) = h * g
    BY <1>1, <1>2, <1>4
  <2>2. t * g = c /\ g \in Nat /\ c \in Nat
    BY <1>1, <1>2, <1>5
  <2> HIDE DEF g, c
  <2>3. DenseWeight(d) * w = 2 * (c * z)
    BY ONLY <1>12, <2>1, <2>2
  <2> QED
    BY <2>3 DEF c
<1>15. SharedWeight(d) * w = 2 * ((3 * X) * z)
  <2> DEFINE g == 3 * e
             c == 3 * X
  <2>1. SharedWeight(d) = h * g
    BY <1>1, <1>2, <1>4
  <2>2. t * g = c /\ g \in Nat /\ c \in Nat
    BY <1>1, <1>2, <1>5
  <2> HIDE DEF g, c
  <2>3. SharedWeight(d) * w = 2 * (c * z)
    BY ONLY <1>12, <2>1, <2>2
  <2> QED
    BY <2>3 DEF c
<1>16. (v * h) * w = 2 * (V * z)
  <2> DEFINE p == v * h
  <2>1. p = h * v
    BY <1>1, <1>2
  <2>2. t * v = V /\ v \in Nat /\ V \in Nat
    BY <1>2, <1>5
  <2> HIDE DEF p
  <2>3. p * w = 2 * (V * z)
    BY ONLY <1>12, <2>1, <2>2
  <2> QED
    BY <2>3 DEF p
<1> QED
  BY <1>3, <1>10, <1>11, <1>13, <1>14, <1>15, <1>16 DEF h, t, hd, H, K, v, X, F, V, cA

\* The same of routed experts and their gates, which are divided by the ranks
\* that share the experts.
LEMMA EvenExperts ==
  ASSUME NEW d, Typed(d), NEW w \in Nat, NEW y \in Nat, NEW z \in Nat,
         Slices(d.hidden, w, d.tp, y, z), Split(d.hidden, w, d.tp, z),
         d.ep = 1 \/ d.tp <= d.ep,
         IF d.ep = 1 THEN d.expertDim % d.tp = 0 ELSE d.experts % d.ep = 0
  PROVE  LET gates == GateParams(d) \div Larger(d.tp, d.ep)
             sized == Share(RoutedParams(d), w, Larger(d.tp, d.ep))
         IN  /\ RoutedWeight(d) \in Nat /\ gates \in Nat /\ sized \in Nat
             /\ (RoutedWeight(d) + gates) * w = 2 * sized
<1> DEFINE h == d.hidden
           t == d.tp
           p == d.ep
           n == d.experts
           x == d.expertDim
           W == Larger(t, p)
           gates == GateParams(d) \div W
           sized == Share(RoutedParams(d), w, W)
           R == RoutedWeight(d)
<1>1. /\ h \in Nat /\ t \in Nat /\ t # 0 /\ p \in Nat /\ p # 0 /\ n \in Nat /\ x \in Nat
  BY TypedIs
<1>2. /\ R = 3 * (n \div p) * h * (IF p = 1 THEN x \div t ELSE x)
      /\ GateParams(d) = h * n /\ RoutedParams(d) = 3 * n * h * x + h * n
      /\ h = t * y /\ y * w = 2 * z /\ Split(h, w, t, z) /\ W = Larger(t, p)
      /\ (p = 1 \/ t <= p) /\ IF p = 1 THEN x % t = 0 ELSE n % p = 0
  BY DEF RoutedWeight, ExpertDimPerDevice, GateParams, RoutedParams, Slices
<1> HIDE DEF h, t, p, n, x, W, R
<1>3. h \in Nat /\ t \in Nat /\ t # 0 /\ w \in Nat /\ z \in Nat /\ Split(h, w, t, z)
  BY <1>1, <1>2
<1>4. CASE p = 1
  <2> DEFINE c == x \div t
             k == 3 * n * x + n
  <2>1. W = t
    BY <1>1, <1>2, <1>4 DEF Larger
  <2>2. x = t * c /\ c \in Nat /\ n \div 1 = n
    BY <1>1, <1>2, <1>4
  <2>3. R = 3 * n * h * c
    BY <1>2, <1>4, <2>2
  <2> HIDE DEF c
  <2>4. gates = y * n
    <3> DEFINE q == y * n
    <3>1. h * n = t * (y * n) /\ q \in Nat
      BY <1>1, <1>2
    <3> HIDE DEF q
    <3>2. (t * q) \div t = q
      BY <1>1, <3>1, QuotientOf
    <3>3. h * n = t * q
      BY <3>1 DEF q
    <3>4. gates = (t * q) \div t
      BY <1>2, <2>1, <3>3
    <3> QED
      BY <3>2, <3>4 DEF q
  <2>5. k \in Nat /\ RoutedParams(d) = h * k
    <3>1. n * x \in Nat
      BY <1>1
    <3>2. 3 * n * h * x = h * (3 * n * x)
      BY <1>1
    <3>3. h * (3 * n * x) + h * n = h * (3 * n * x + n)
      BY <1>1
    <3> QED
      BY <1>1, <1>2, <3>1, <3>2, <3>3
  <2> HIDE DEF k
  <2>6. sized = k * z
    <3>1. Share(RoutedParams(d), w, t) = k * z
      BY ONLY <1>3, <2>5, HiddenShared
    <3> QED
      BY <2>1, <3>1
  <2>7. R \in Nat /\ gates \in Nat /\ sized \in Nat
    <3>1. n * h \in Nat
      BY <1>1
    <3>2. 3 * n * h * c \in Nat
      BY <2>2, <1>1, <3>1
    <3> QED
      BY <1>1, <2>3, <2>4, <2>5, <2>6, <3>2
  <2>8. R * w = 2 * ((3 * n * x) * z)
    <3> DEFINE g == 3 * n * c
               l == 3 * n * x
    <3>1. R = h * g /\ g \in Nat
      BY <1>1, <2>2, <2>3
    <3>2. t * g = 3 * n * (t * c)
      BY <1>1, <2>2
    <3>3. t * g = l /\ l \in Nat
      BY <1>1, <2>2, <3>2
    <3> HIDE DEF g, l
    <3>4. \A u \in Nat : (h * u) * w = 2 * ((t * u) * z)
      BY ONLY <1>3, HiddenWeighed
    <3>5. R * w = 2 * (l * z)
      BY ONLY <3>1, <3>3, <3>4
    <3> QED
      BY <3>5 DEF l
  <2>9. gates * w = 2 * (n * z)
    <3>1. (y * n) * w = n * (y * w)
      BY <1>1
    <3>2. n * (2 * z) = 2 * (n * z)
      BY <1>1
    <3> QED
      BY <1>2, <2>4, <3>1, <3>2
  <2>10. (R + gates) * w = R * w + gates * w
    BY <2>7
  <2>11. 2 * ((3 * n * x) * z) + 2 * (n * z) = 2 * (k * z)
    <3> DEFINE l == 3 * n * x
    <3>1. l \in Nat /\ k = l + n
      BY <1>1 DEF k
    <3> HIDE DEF l
    <3>2. 2 * (l * z) + 2 * (n * z) = 2 * ((l + n) * z)
      BY <1>1, <3>1
    <3> QED
      BY <3>1, <3>2 DEF l
  <2> HIDE DEF gates, sized
  <2>12. (R + gates) * w = 2 * sized
    BY <2>6, <2>8, <2>9, <2>10, <2>11
  <2> QED
    BY <2>7, <2>12 DEF h, t, p, n, x, W, R, gates, sized
<1>5. CASE p # 1
  <2> DEFINE q == n \div p
             k == q * (3 * x + 1)
             Z == t * z
  <2>1. W = p
    BY <1>1, <1>2, <1>5 DEF Larger
  <2>2. n = p * q /\ q \in Nat
    BY <1>1, <1>2, <1>5, ExactQuotient
  <2>3. R = 3 * q * h * x
    BY <1>2, <1>5
  <2> HIDE DEF q
  <2>4. gates = h * q
    <3> DEFINE g == h * q
    <3>1. h * n = p * (h * q) /\ g \in Nat
      BY <1>1, <2>2
    <3> HIDE DEF g
    <3>2. (p * g) \div p = g
      BY <1>1, <3>1, QuotientOf
    <3>3. h * n = p * g
      BY <3>1 DEF g
    <3>4. gates = (p * g) \div p
      BY <1>2, <2>1, <3>3
    <3> QED
      BY <3>2, <3>4 DEF g
  <2>5. k \in Nat /\ Z \in Nat /\ RoutedParams(d) = (h * p) * k
    <3>1. 3 * n * h * x + h * n = (h * n) * (3 * x + 1)
      BY <1>1
    <3>2. (h * n) * (3 * x + 1) = (h * (p * q)) * (3 * x + 1)
      BY <2>2
    <3>3. (h * (p * q)) * (3 * x + 1) = (h * p) * (q * (3 * x + 1))
      BY <1>1, <2>2
    <3>4. k \in Nat /\ Z \in Nat
      BY <1>1, <2>2
    <3> QED
      BY <1>2, <3>1, <3>2, <3>3, <3>4
  <2> HIDE DEF k, Z
  <2>6. h * p \in Nat /\ (h * p) * w = 2 * p * Z /\ h * w = 2 * Z
    <3>1. h * p \in Nat
      BY <1>1
    <3>2. (h * p) * w = p * (h * w)
      BY <1>1
    <3>3. h * w = 2 * Z
      BY <1>1, <1>2 DEF Z, Split
    <3>4. p * (2 * Z) = 2 * p * Z
      BY <1>1, <2>5
    <3> QED
      BY <3>1, <3>2, <3>3, <3>4
  <2>7. sized = k * Z
    <3> DEFINE j == h * p
    <3>1. j \in Nat /\ Split(j, w, p, Z)
      BY <2>6 DEF Split
    <3> HIDE DEF j
    <3>2. p \in Nat /\ p # 0 /\ w \in Nat
      BY <1>1
    <3>3. RoutedParams(d) = j * k
      BY <2>5 DEF j
    <3>4. k \in Nat /\ Z \in Nat
      BY <2>5
    <3>5. Share(RoutedParams(d), w, p) = k * Z
      BY ONLY <3>1, <3>2, <3>3, <3>4, HiddenShared
    <3> QED
      BY <2>1, <3>5
  <2>8. R = h * (3 * q * x) /\ R + gates = h * k /\ R \in Nat /\ gates \in Nat
    <3>1. 3 * q * h * x = h * (3 * q * x) /\ h * (3 * q * x) \in Nat
      BY <1>1, <2>2
    <3>2. h * (3 * q * x) + h * q = h * (q * (3 * x + 1))
      BY <1>1, <2>2
    <3>3. h * q \in Nat
      BY <1>1, <2>2
    <3> QED
      BY <2>3, <2>4, <3>1, <3>2, <3>3 DEF k
  <2> HIDE DEF gates, sized
  <2>9. (R + gates) * w = 2 * sized /\ sized \in Nat
    <3>1. (h * k) * w = (h * w) * k
      BY <1>1, <2>5
    <3>2. (2 * Z) * k = 2 * (k * Z) /\ k * Z \in Nat
      BY <2>5
    <3> QED
      BY <2>6, <2>7, <2>8, <3>1, <3>2
  <2> QED
    BY <2>8, <2>9 DEF h, t, p, n, x, W, R, gates, sized
<1> QED
  BY <1>4, <1>5

\* What every layer shares, and what stands before and after the layers.
LEMMA EvenOthers ==
  ASSUME NEW d, Typed(d), NEW w \in Nat, NEW y \in Nat, NEW z \in Nat,
         Slices(d.hidden, w, d.tp, y, z)
  PROVE  LET others == (2 * d.layers * d.hidden + d.hidden + d.vocab * d.hidden) \div d.tp
             k      == 2 * d.layers + 1 + d.vocab
         IN  others \in Nat /\ others * w = 2 * (k * z)
<1> DEFINE h == d.hidden
           t == d.tp
           L == d.layers
           V == d.vocab
           k == 2 * L + 1 + V
           q == k * y
<1>1. h \in Nat /\ t \in Nat /\ t # 0 /\ L \in Nat /\ V \in Nat /\ h = t * y /\ k \in Nat
      /\ y * w = 2 * z
  BY TypedIs DEF Slices
<1> HIDE DEF h, t, L, V
<1>2. 2 * L * h + h + V * h = k * h
  BY <1>1
<1> HIDE DEF k
<1>3. k * (t * y) = t * (k * y) /\ q \in Nat
  BY <1>1
<1>4. q * w = 2 * (k * z)
  <2>1. (k * y) * w = k * (y * w)
    BY <1>1
  <2>2. k * (2 * z) = 2 * (k * z)
    BY <1>1
  <2> QED
    BY <1>1, <2>1, <2>2
<1>5. 2 * L * h + h + V * h = t * q
  BY <1>1, <1>2, <1>3
<1> HIDE DEF q
<1>6. (t * q) \div t = q
  BY <1>1, <1>3, QuotientOf
<1>7. (2 * L * h + h + V * h) \div t = q
  BY <1>5, <1>6
<1> QED
  BY <1>3, <1>4, <1>7 DEF h, t, L, V, k

\* Numbers of parameters are numbers.
LEMMA ParamsTyped ==
  ASSUME NEW m, \A f \in Sized : m[f] \in Nat
  PROVE  /\ AttentionParams(m) \in Nat /\ 2 * m.hidden \in Nat /\ RoutedParams(m) \in Nat
         /\ SharedParams(m) \in Nat /\ DenseFfnParams(m) \in Nat
         /\ 2 * m.vocab * m.hidden + m.hidden \in Nat
<1> DEFINE h  == m.hidden
           ph == h * m.heads
           pk == h * m.kvHeads
           ps == m.shared * h
           pe == m.experts * h
           pv == m.vocab * h
<1>1. /\ h \in Nat /\ m.heads \in Nat /\ m.kvHeads \in Nat /\ m.headDim \in Nat /\ m.ffn \in Nat
      /\ m.shared \in Nat /\ m.experts \in Nat /\ m.expertDim \in Nat /\ m.vocab \in Nat
  BY DEF Sized
<1>2. /\ ph \in Nat /\ pk \in Nat /\ ps \in Nat /\ pe \in Nat /\ pv \in Nat /\ h * m.ffn \in Nat
  <2> HIDE DEF h
  <2> QED
    BY <1>1
<1>3. /\ AttentionParams(m) = 2 * (ph * m.headDim) + 2 * (pk * m.headDim)
      /\ SharedParams(m) = 3 * (ps * m.expertDim) /\ DenseFfnParams(m) = 3 * (h * m.ffn)
      /\ RoutedParams(m) = 3 * (pe * m.expertDim) + pe
      /\ 2 * m.vocab * m.hidden + m.hidden = 2 * pv + h
  BY <1>1 DEF AttentionParams, SharedParams, DenseFfnParams, RoutedParams, GateParams
<1> HIDE DEF ph, pk, ps, pe, pv, h
<1>4. /\ ph * m.headDim \in Nat /\ pk * m.headDim \in Nat /\ ps * m.expertDim \in Nat
      /\ pe * m.expertDim \in Nat
  BY <1>1, <1>2
<1>5. 2 * h \in Nat /\ 2 * pv + h \in Nat
  BY <1>1, <1>2
<1> QED
  BY <1>2, <1>3, <1>4, <1>5 DEF h

\* What is sized for a rank is a number.
LEMMA SizedTyped ==
  ASSUME NEW m, \A f \in Sized : m[f] \in Nat, NEW w \in Nat, NEW tp \in Nat, tp # 0,
         NEW ep \in Nat, ep # 0
  PROVE  PerRankParamBytes(m, w, tp, ep) \in Nat
<1> DEFINE A == Share(AttentionParams(m), w, tp)
           N == Share(2 * m.hidden, w, tp)
           R == Share(RoutedParams(m), w, Larger(tp, ep))
           S == Share(SharedParams(m), w, tp)
           D == Share(DenseFfnParams(m), w, tp)
           T == Share(2 * m.vocab * m.hidden + m.hidden, w, tp)
           nM == Cardinality(MoeLayers(m))
           nD == Cardinality(DenseLayers(m))
<1>1. /\ AttentionParams(m) \in Nat /\ 2 * m.hidden \in Nat /\ RoutedParams(m) \in Nat
      /\ SharedParams(m) \in Nat /\ DenseFfnParams(m) \in Nat
      /\ 2 * m.vocab * m.hidden + m.hidden \in Nat
  BY ParamsTyped
<1>2. Larger(tp, ep) \in Nat /\ Larger(tp, ep) # 0
  BY DEF Larger
<1>3. A \in Nat /\ N \in Nat /\ R \in Nat /\ S \in Nat /\ D \in Nat /\ T \in Nat
  BY <1>1, <1>2, ShareTyped
<1>4. m.layers \in Nat /\ nM \in Nat /\ nD \in Nat
  BY LayersCounted DEF Sized
<1>5. PerRankParamBytes(m, w, tp, ep) = m.layers * (A + N) + nM * (R + S) + nD * D + T
  BY <1>3, <1>4, SizedByKind
<1> HIDE DEF A, N, R, S, D, T, nM, nD
<1>6. m.layers * (A + N) \in Nat /\ nM * (R + S) \in Nat /\ nD * D \in Nat
  BY <1>3, <1>4
<1> QED
  BY <1>3, <1>5, <1>6

\* A model that has what a scenario's model has is sized alike.
LEMMA SameParams ==
  ASSUME NEW s, DOMAIN s.model = ModelFields
  PROVE  LET m == s.model
             d == DeploymentOf(s)
         IN  /\ AttentionParams(m) = AttentionParams(d) /\ RoutedParams(m) = RoutedParams(d)
             /\ SharedParams(m) = SharedParams(d) /\ DenseFfnParams(m) = DenseFfnParams(d)
             /\ MoeLayers(m) = MoeLayers(d) /\ DenseLayers(m) = DenseLayers(d)
<1> DEFINE m == s.model
           d == DeploymentOf(s)
<1>1. \A f \in ModelFields : d[f] = m[f]
  BY DeploymentKeeps
<1> HIDE DEF m, d
<1>2. /\ d.hidden = m.hidden /\ d.heads = m.heads /\ d.kvHeads = m.kvHeads
      /\ d.headDim = m.headDim /\ d.ffn = m.ffn /\ d.layers = m.layers /\ d.experts = m.experts
      /\ d.expertDim = m.expertDim /\ d.shared = m.shared /\ d.moeFreq = m.moeFreq
      /\ d.firstMoe = m.firstMoe
  BY <1>1 DEF ModelFields
<1>3. AttentionParams(m) = AttentionParams(d) /\ RoutedParams(m) = RoutedParams(d)
  BY <1>2 DEF AttentionParams, RoutedParams, GateParams
<1>4. SharedParams(m) = SharedParams(d) /\ DenseFfnParams(m) = DenseFfnParams(d)
  BY <1>2 DEF SharedParams, DenseFfnParams
<1>5. LayersOf(m) = LayersOf(d) /\ \A i : IsMoeLayer(m, i) = IsMoeLayer(d, i)
  BY <1>2 DEF LayersOf, IsMoeLayer, IsMoE
<1> QED
  BY <1>3, <1>4, <1>5 DEF MoeLayers, DenseLayers, m, d

\* The two ways of counting a rank's weights agree but for the attention.
LEMMA SizesMatch ==
  ASSUME NEW s, DOMAIN s.model = ModelFields, \A f \in Sized : s.model[f] \in Nat,
         s.tp \in Nat, s.tp # 0, s.ep \in Nat, s.ep # 0, s.ep = 1 \/ s.tp <= s.ep,
         s.quant.w \in Nat, ShardsEvenly(s)
  PROVE  LET d     == DeploymentOf(s)
             sized == PerRankParamBytes(s.model, s.quant.w, s.tp, s.ep)
             used  == Share(GraphParams(d) + OtherParams(d), s.quant.w, 1)
         IN  /\ GraphParams(d) \in Int /\ OtherParams(d) \in Nat
             /\ sized \in Int /\ used \in Int
             /\ AttentionSized(s) \in Int /\ AttentionUsed(s) \in Int
             /\ sized - AttentionSized(s) = used - AttentionUsed(s)
             /\ ArchOf(d) # "deepseek" => sized = used
<1> DEFINE m  == s.model
           d  == DeploymentOf(s)
           w  == s.quant.w
           y  == d.hidden \div d.tp
           z  == (y * w) \div 2
           L  == d.layers
           nD == Cardinality(DenseLayers(d))
           nM == Cardinality(MoeLayers(d))
           W  == Larger(d.tp, d.ep)
           gates == GateParams(d) \div W
           g  == AttentionInGraph(d)
           VH == (d.vocab \div d.tp) * d.hidden
           O  == (2 * d.layers * d.hidden + d.hidden + d.vocab * d.hidden) \div d.tp
           a  == Share(AttentionParams(d), w, d.tp)
           n  == Share(2 * d.hidden, w, d.tp)
           r  == Share(RoutedParams(d), w, W)
           h  == Share(SharedParams(d), w, d.tp)
           f  == Share(DenseFfnParams(d), w, d.tp)
           v  == d.vocab * z
           k  == 2 * d.layers + 1 + d.vocab
           o  == k * z
           AW == AttentionWeight(d)
           DW == DenseWeight(d)
           RW == RoutedWeight(d)
           SW == IF d.shared > 0 THEN SharedWeight(d) ELSE 0
           sized == PerRankParamBytes(m, w, s.tp, s.ep)
<1>1. /\ Typed(d) /\ d.tp = s.tp /\ d.ep = s.ep
      /\ \A x \in {d.hidden, d.heads, d.kvHeads, d.ffn, d.vocab, d.expertDim * d.shared} :
           x % d.tp = 0
      /\ ((d.hidden \div d.tp) * w) % 2 = 0
      /\ IF d.ep = 1 THEN d.expertDim % d.tp = 0 ELSE d.experts % d.ep = 0
      /\ m.layers = d.layers /\ m.hidden = d.hidden /\ m.vocab = d.vocab
  <2>1. (\A x \in ModelFields : d[x] = m[x]) /\ d.tp = s.tp /\ d.ep = s.ep
    BY DeploymentKeeps
  <2>2. Sized \subseteq ModelFields
    BY DEF Sized, ModelFields
  <2> HIDE DEF d
  <2>3. Typed(d)
    BY <2>1, <2>2 DEF Typed
  <2>4. /\ d.hidden = m.hidden /\ d.heads = m.heads /\ d.kvHeads = m.kvHeads
        /\ d.ffn = m.ffn /\ d.vocab = m.vocab /\ d.experts = m.experts
        /\ d.expertDim = m.expertDim /\ d.shared = m.shared /\ d.layers = m.layers
    BY <2>1 DEF ModelFields
  <2> QED
    BY <2>1, <2>3, <2>4 DEF ShardsEvenly
<1>2. /\ AttentionParams(m) = AttentionParams(d) /\ RoutedParams(m) = RoutedParams(d)
      /\ SharedParams(m) = SharedParams(d) /\ DenseFfnParams(m) = DenseFfnParams(d)
      /\ MoeLayers(m) = MoeLayers(d) /\ DenseLayers(m) = DenseLayers(d)
  BY SameParams
<1>3. AttentionSized(s) = L * a /\ AttentionUsed(s) = Share(g, w, 1)
  BY <1>1, <1>2 DEF AttentionSized, AttentionUsed
<1> HIDE DEF d
<1>4. d.hidden \in Nat /\ d.tp \in Nat /\ d.tp # 0 /\ w \in Nat /\ d.ep \in Nat /\ d.ep # 0
      /\ d.vocab \in Nat /\ d.layers \in Nat /\ d.shared \in Nat
  BY <1>1, TypedIs
<1>5. y \in Nat /\ d.hidden = d.tp * y
  BY <1>1, <1>4, ExactQuotient
<1>6. z \in Nat /\ y * w = 2 * z
  <2> DEFINE p == y * w
  <2>1. p \in Nat /\ p % 2 = 0
    BY <1>1, <1>4, <1>5
  <2> HIDE DEF p
  <2>2. p = 2 * (p \div 2) /\ p \div 2 \in Nat
    BY <2>1
  <2> QED
    BY <2>2 DEF p
<1> HIDE DEF y, z
<1>7. LET cA == 2 * d.heads * d.headDim + 2 * d.kvHeads * d.headDim
      IN  /\ AW * w = 2 * (cA * z) /\ a = cA * z
          /\ DW * w = 2 * ((3 * d.ffn) * z) /\ f = (3 * d.ffn) * z
          /\ SharedWeight(d) * w = 2 * ((3 * (d.expertDim * d.shared)) * z)
          /\ h = (3 * (d.expertDim * d.shared)) * z
          /\ VH * w = 2 * (d.vocab * z) /\ n = 2 * z
          /\ Share(2 * d.vocab * d.hidden + d.hidden, w, d.tp) = (2 * d.vocab + 1) * z
          /\ Split(d.hidden, w, d.tp, z)
  <2>1. /\ Typed(d) /\ w \in Nat /\ y \in Nat /\ z \in Nat /\ Slices(d.hidden, w, d.tp, y, z)
        /\ d.heads % d.tp = 0 /\ d.kvHeads % d.tp = 0 /\ d.ffn % d.tp = 0 /\ d.vocab % d.tp = 0
        /\ (d.expertDim * d.shared) % d.tp = 0
    BY <1>1, <1>4, <1>5, <1>6 DEF Slices
  <2> QED
    BY ONLY <2>1, EvenWeights
<1>8. /\ a \in Nat /\ n \in Nat /\ h \in Nat /\ f \in Nat /\ v \in Nat /\ k \in Nat /\ o \in Nat
  <2>1. /\ AttentionParams(d) \in Nat /\ 2 * d.hidden \in Nat /\ SharedParams(d) \in Nat
        /\ DenseFfnParams(d) \in Nat
    BY <1>1, ParamsTyped DEF Typed
  <2>2. v \in Nat /\ k \in Nat
    BY <1>4, <1>6
  <2>3. o \in Nat
    BY <1>6, <2>2
  <2>4. a \in Nat /\ n \in Nat /\ h \in Nat /\ f \in Nat
    BY <1>4, <2>1, ShareTyped
  <2> QED
    BY <2>2, <2>3, <2>4
<1>9. RW \in Nat /\ gates \in Nat /\ r \in Nat /\ (RW + gates) * w = 2 * r
  <2>1. /\ Typed(d) /\ w \in Nat /\ y \in Nat /\ z \in Nat /\ Slices(d.hidden, w, d.tp, y, z)
        /\ Split(d.hidden, w, d.tp, z) /\ (d.ep = 1 \/ d.tp <= d.ep)
        /\ IF d.ep = 1 THEN d.expertDim % d.tp = 0 ELSE d.experts % d.ep = 0
    BY <1>1, <1>4, <1>5, <1>6, <1>7 DEF Slices
  <2> QED
    BY ONLY <2>1, EvenExperts
<1>10. O \in Nat /\ O * w = 2 * o
  <2>1. Typed(d) /\ w \in Nat /\ y \in Nat /\ z \in Nat /\ Slices(d.hidden, w, d.tp, y, z)
    BY <1>1, <1>4, <1>5, <1>6 DEF Slices
  <2> QED
    BY ONLY <2>1, EvenOthers
<1>11. AW * w = 2 * a /\ DW * w = 2 * f /\ VH * w = 2 * v
  BY <1>7
<1>12. SW \in Int /\ SW * w = 2 * h
  <2>1. SharedWeight(d) * w = 2 * h
    BY <1>7
  <2>2. SharedPerRank(d) \in Nat
    BY <1>1, PerRankTyped
  <2>3. SharedWeight(d) \in Int
    BY <1>4, <2>2 DEF SharedWeight
  <2>4. CASE d.shared > 0
    BY <2>1, <2>3, <2>4
  <2>5. CASE ~ d.shared > 0
    <3>1. d.shared = 0 /\ d.expertDim \in Nat
      BY <1>1, <1>4, <2>5, TypedIs
    <3>2. d.expertDim * d.shared = 0
      BY <3>1
    <3>3. h = (3 * (d.expertDim * d.shared)) * z
      BY <1>7
    <3>4. h = 0
      <4> HIDE DEF h
      <4> QED
        BY <1>6, <3>2, <3>3
    <3>5. SW = 0
      BY <2>5
    <3> HIDE DEF SW, h
    <3> QED
      BY <1>4, <3>4, <3>5
  <2> QED
    BY <2>4, <2>5
<1>13. /\ g \in Int /\ nD \in Nat /\ nM \in Nat /\ nM + nD = L
       /\ GraphParams(d) = g + nD * DW + nM * (RW + SW) + VH
       /\ ArchOf(d) # "deepseek" => g = L * AW
       /\ AW \in Int /\ DW \in Int
  BY <1>1, <1>4, GraphWeighs, LayersCounted, WeightsTyped DEF MoeWeight
<1>14. OtherParams(d) = O + nM * gates
  BY DEF OtherParams, MoeLayers
<1>15. sized = L * (a + n) + nM * (r + h) + nD * f
                 + Share(2 * d.vocab * d.hidden + d.hidden, w, d.tp)
  <2>1. m.layers \in Nat
    BY <1>1, <1>4
  <2>2. /\ a = Share(AttentionParams(m), w, s.tp) /\ n = Share(2 * m.hidden, w, s.tp)
        /\ r = Share(RoutedParams(m), w, Larger(s.tp, s.ep)) /\ h = Share(SharedParams(m), w, s.tp)
        /\ f = Share(DenseFfnParams(m), w, s.tp)
    BY <1>1, <1>2
  <2>3. a \in Int /\ n \in Int /\ r \in Int /\ h \in Int /\ f \in Int
    BY <1>8, <1>9
  <2>4. /\ Share(AttentionParams(m), w, s.tp) \in Int /\ Share(2 * m.hidden, w, s.tp) \in Int
        /\ Share(RoutedParams(m), w, Larger(s.tp, s.ep)) \in Int
        /\ Share(SharedParams(m), w, s.tp) \in Int /\ Share(DenseFfnParams(m), w, s.tp) \in Int
    BY <2>2, <2>3
  <2>5. PerRankParamBytes(m, w, s.tp, s.ep)
           = m.layers * (Share(AttentionParams(m), w, s.tp) + Share(2 * m.hidden, w, s.tp))
               + Cardinality(MoeLayers(m))
                   * (Share(RoutedParams(m), w, Larger(s.tp, s.ep))
                        + Share(SharedParams(m), w, s.tp))
               + Cardinality(DenseLayers(m)) * Share(DenseFfnParams(m), w, s.tp)
               + Share(2 * m.vocab * m.hidden + m.hidden, w, s.tp)
    <3> HIDE DEF m, w
    <3> QED
      BY ONLY <2>1, <2>4, SizedByKind
  <2> HIDE DEF m, w, a, n, r, h, f
  <2>6. PerRankParamBytes(m, w, s.tp, s.ep)
           = m.layers * (a + n) + Cardinality(MoeLayers(m)) * (r + h)
               + Cardinality(DenseLayers(m)) * f
               + Share(2 * m.vocab * m.hidden + m.hidden, w, s.tp)
    BY <2>2, <2>5
  <2> QED
    BY <1>1, <1>2, <2>6
<1>16. VH \in Int
  <2>1. d.vocab \div d.tp \in Nat
    BY <1>4
  <2> DEFINE q == d.vocab \div d.tp
  <2> HIDE DEF q
  <2>2. q * d.hidden \in Int
    BY <1>4, <2>1 DEF q
  <2> QED
    BY <2>2 DEF q
<1> DEFINE K == nD * f + nM * (r + h) + v + o
<1>17. K \in Int /\ L * a \in Int
  <2> HIDE DEF nD, nM, f, r, h, v, o, a, L
  <2>1. L \in Nat
    BY <1>4 DEF L
  <2>2. nD * f \in Int /\ nM * (r + h) \in Int
    BY <1>8, <1>9, <1>13
  <2> QED
    BY <1>8, <2>1, <2>2
<1>18. sized = L * a + K
  <2>1. n = 2 * z /\ o = (2 * L + 1 + d.vocab) * z /\ v = d.vocab * z
    BY <1>7
  <2>2. Share(2 * d.vocab * d.hidden + d.hidden, w, d.tp) = (2 * d.vocab + 1) * z
    BY <1>7
  <2> DEFINE V == d.vocab
             x == nD * f
             u == nM * (r + h)
  <2>3. L \in Nat /\ V \in Nat
    BY <1>4
  <2> HIDE DEF nD, nM, f, r, h, v, o, a, L, n, V, sized
  <2>4. x \in Int /\ u \in Int
    BY <1>8, <1>9, <1>13
  <2>5. sized = L * (a + n) + u + x + (2 * V + 1) * z
    BY <1>15, <2>2 DEF V
  <2> HIDE DEF x, u
  <2>6. L * (a + n) = L * a + 2 * (L * z)
    BY <1>8, <1>6, <2>1, <2>3
  <2>7. v + o = 2 * (L * z) + (2 * V + 1) * z
    BY <1>6, <2>1, <2>3 DEF V
  <2>8. K = x + u + v + o
    BY DEF x, u
  <2> HIDE DEF K
  <2> QED
    BY <1>8, <1>17, <2>3, <2>4, <2>5, <2>6, <2>7, <2>8, <1>6
<1>19. (GraphParams(d) + OtherParams(d)) * w = g * w + 2 * K
  <2> HIDE DEF nD, nM, f, r, h, v, o, DW, RW, SW, gates, g, VH, O, w
  <2>1. ((g + nD * DW + nM * (RW + SW) + VH) + (O + nM * gates)) * w
          = g * w + 2 * (nD * f + nM * (r + h) + v + o)
    <3> DEFINE X == nD * DW
               Y == nM * (RW + SW)
               Z == nM * gates
               p == nD * f
               q == nM * (r + h)
    <3>1. /\ g \in Int /\ w \in Int /\ nD \in Int /\ DW \in Int /\ f \in Int /\ DW * w = 2 * f
          /\ nM \in Int /\ RW \in Int /\ r \in Int /\ gates \in Int /\ SW \in Int /\ h \in Int
          /\ (RW + gates) * w = 2 * r /\ SW * w = 2 * h
          /\ VH \in Int /\ v \in Int /\ VH * w = 2 * v /\ O \in Int /\ o \in Int /\ O * w = 2 * o
      BY <1>4, <1>8, <1>9, <1>10, <1>11, <1>12, <1>13, <1>16
    <3>2. X \in Int /\ Y \in Int /\ Z \in Int /\ p \in Int /\ q \in Int
      BY <3>1
    <3>3. X * w = 2 * p
      <4>1. X * w = nD * (DW * w) /\ nD * (2 * f) = 2 * p
        BY <3>1
      <4> QED
        BY <3>1, <4>1
    <3>4. (Y + Z) * w = 2 * q
      <4>1. Y + Z = nM * ((RW + gates) + SW)
        BY <3>1
      <4>2. (nM * ((RW + gates) + SW)) * w = nM * (((RW + gates) * w) + SW * w)
        BY <3>1
      <4>3. nM * (2 * r + 2 * h) = 2 * q
        BY <3>1
      <4> HIDE DEF Y, Z, q
      <4> QED
        BY <3>1, <4>1, <4>2, <4>3
    <3> HIDE DEF X, Y, Z, p, q
    <3>5. ((g + X + Y + VH) + (O + Z)) * w = g * w + X * w + (Y + Z) * w + VH * w + O * w
      BY <3>1, <3>2
    <3>6. ((g + X + Y + VH) + (O + Z)) * w = g * w + 2 * (p + q + v + o)
      BY <3>1, <3>2, <3>3, <3>4, <3>5
    <3> QED
      BY <3>6 DEF X, Y, Z, p, q
  <2> QED
    BY <1>13, <1>14, <2>1
<1>20. g * w \in Int
  BY <1>4, <1>13
<1>21. /\ Share(GraphParams(d) + OtherParams(d), w, 1) = (g * w + 2 * K) \div 2
       /\ Share(g, w, 1) = (g * w) \div 2
  BY <1>19 DEF Share
<1> DEFINE G == g * w
           q == G \div 2
           used == Share(GraphParams(d) + OtherParams(d), w, 1)
<1>22. used = K + q /\ Share(g, w, 1) = q /\ q \in Int
  <2>1. (G + 2 * K) \div 2 = K + G \div 2 /\ G \in Int /\ K \in Int /\ G \div 2 \in Int
    <3>1. G \in Int /\ K \in Int
      BY <1>17, <1>20
    <3> HIDE DEF K, G
    <3> QED
      BY <3>1
  <2> QED
    BY <1>21, <2>1
<1>23. ArchOf(d) # "deepseek" => q = L * a
  <2> SUFFICES ASSUME ArchOf(d) # "deepseek" PROVE q = L * a
    OBVIOUS
  <2>1. g = L * AW
    BY <1>13
  <2> DEFINE b == L * a
  <2>2. (L * AW) * w = 2 * (L * a)
    <3>1. L \in Nat
      BY <1>4
    <3> HIDE DEF L, AW, w, a
    <3>2. (L * AW) * w = L * (AW * w)
      BY <1>4, <1>13, <3>1 DEF w
    <3>3. L * (2 * a) = 2 * (L * a)
      BY <1>8, <3>1
    <3> QED
      BY <1>11, <3>2, <3>3
  <2>3. G = 2 * b /\ b \in Int
    BY <1>17, <2>1, <2>2
  <2> HIDE DEF b, G
  <2>4. G \div 2 = b
    BY <2>3
  <2> QED
    BY <2>4 DEF b, G
<1>24. GraphParams(d) \in Int /\ OtherParams(d) \in Nat
  <2> HIDE DEF nD, nM, DW, RW, SW, VH, O, gates, g
  <2>1. nD * DW \in Int /\ nM * (RW + SW) \in Int /\ nM * gates \in Nat
    BY <1>9, <1>12, <1>13
  <2> QED
    BY <1>10, <1>13, <1>14, <1>16, <2>1
<1> HIDE DEF sized, used, K, q, L, a, g, w
<1>25. /\ sized \in Int /\ used \in Int /\ AttentionSized(s) \in Int /\ AttentionUsed(s) \in Int
       /\ sized - AttentionSized(s) = used - AttentionUsed(s)
       /\ ArchOf(d) # "deepseek" => sized = used
  <2> DEFINE La == L * a
  <2>1. sized = La + K /\ La \in Int /\ K \in Int /\ q \in Int /\ used = K + q
        /\ AttentionSized(s) = La /\ AttentionUsed(s) = q
    BY <1>3, <1>17, <1>18, <1>22
  <2>2. ArchOf(d) # "deepseek" => q = La
    BY <1>23
  <2> HIDE DEF La
  <2> QED
    BY <2>1, <2>2
<1> QED
  BY <1>25, <1>24 DEF sized, used, d, w, m

-----------------------------------------------------------------------------
(* What a rank that has loaded was given                                   *)

\* The ranks that have loaded.
Loaded == {r \in Ranks : worker[r].phase \in {"loaded", "sized"}}

\* Every reading of config.yaml gives widths, or none.
LEMMA WidthsTyped ==
  ASSUME IInv, NEW r \in Loaded
  PROVE  LET q == Quantization(config, worker[r].cache)
         IN  q.w \in Nat /\ q.a \in Nat
<1> DEFINE cache == worker[r].cache
           given == cache.quantization
<1>1. r \in Ranks /\ cache # NONE
  BY DEF IInv, ReadOnce, Remembers, Loaded
<1>2. given.w_byte \in Nat \cup {NONE} /\ given.a_byte \in Nat \cup {NONE}
  <2>1. CASE cache = SimOverlay(NoFile)
    <3>1. DOMAIN NoFile = {}
      BY DEF NoFile
    <3>2. \A section : ~ Mapped(NoFile, section)
      BY <3>1 DEF Mapped
    <3>3. given.w_byte = NONE /\ given.a_byte = NONE
      BY <2>1, <3>2 DEF SimOverlay, SectionParsers
    <3> QED
      BY <3>3
  <2>2. ASSUME NEW raw \in Files \ {NONE}, WellFormed(raw), cache = SimOverlay(raw)
        PROVE  given.w_byte \in Nat \cup {NONE} /\ given.a_byte \in Nat \cup {NONE}
    BY <2>2, NumbersOK
  <2> QED
    BY <1>1, <2>1, <2>2 DEF IInv, FilesRead
<1> HIDE DEF cache, given
<1> DEFINE q == Quantization(config, cache)
<1>3. /\ q.w = Or(given.w_byte, CASE config.hf.quantization.method = "fp4" -> 1
                                  [] config.hf.quantization.method = "fp8" -> 2
                                  [] OTHER -> 4)
      /\ \E x \in {1, 2, 4} : q.a = Or(given.a_byte, x)
  BY DEF Quantization, given
<1>4. q.w \in Nat /\ q.a \in Nat
  BY <1>2, <1>3 DEF Or
<1> QED
  BY <1>4 DEF cache

\* Its scenario is one of a checked configuration.
LEMMA ScenarioTyped ==
  ASSUME IInv, NEW r \in Loaded
  PROVE  LET s == worker[r].scenario
         IN  /\ r \in Ranks /\ config.hf.model_type \in DOMAIN Adapters
             /\ DOMAIN s.model = ModelFields /\ \A f \in Sized : s.model[f] \in Nat
             /\ s.model.layers = config.hf.num_hidden_layers
             /\ s.tp \in Nat /\ s.tp # 0 /\ s.ep \in Nat /\ s.ep # 0 /\ (s.ep = 1 \/ s.tp <= s.ep)
             /\ s.quant.w \in Nat /\ s.quant.a \in Nat
             /\ s.hardware.memory.capacity \in Nat
<1> DEFINE s     == worker[r].scenario
           cache == worker[r].cache
           hf    == config.hf
<1>1. /\ r \in Ranks /\ s = Scenario(config, cache) /\ ExtractError(config, cache) = NONE
      /\ Checked(config)
  BY DEF IInv, ReadOnce, Remembers, Loaded, PoolCounted
<1>2. /\ hf.model_type \in DOMAIN Adapters /\ FfnDim(hf, Adapters[hf.model_type]) # NONE
      /\ Known(HardwareName(cache))
  BY <1>1, InputsOK DEF ExtractError, Errors
<1>3. /\ s.model = ModelOf(hf) /\ s.tp = config.tp /\ s.ep = ExpertRanks(config)
      /\ s.quant = Quantization(config, cache) /\ s.hardware = HardwareProfile(HardwareOf(cache))
  BY <1>1 DEF Scenario
<1>4. /\ config.tp \in Nat /\ config.tp # 0 /\ config.dp \in Nat /\ config.dp # 0
      /\ hf.num_attention_heads # 0 /\ hf.num_hidden_layers # 0
      /\ \A dim \in Dimensions : hf[dim] \in Nat
  BY <1>1 DEF Checked
<1>5. /\ DOMAIN ModelOf(hf) = ModelFields /\ \A f \in Sized : ModelOf(hf)[f] \in Nat
      /\ ModelOf(hf).layers = hf.num_hidden_layers
  BY <1>2, <1>4, ModelTyped
<1>6. /\ ExpertRanks(config) \in Nat /\ ExpertRanks(config) # 0
      /\ ExpertRanks(config) = 1 \/ config.tp <= ExpertRanks(config)
  <2> DEFINE t == config.tp
             n == config.dp
  <2>1. t \in Nat /\ t # 0 /\ n \in Nat /\ n # 0
    BY <1>4
  <2>2. ExpertRanks(config) \in {1, t * n}
    BY DEF ExpertRanks
  <2> HIDE DEF t, n
  <2>3. t * n \in Nat /\ t <= t * n
    BY <2>1
  <2> QED
    BY <2>1, <2>2, <2>3 DEF t
<1>7. s.hardware.memory.capacity \in Nat
  <2>1. Canonical(HardwareName(cache)) \in DOMAIN Presets
    BY <1>2 DEF Known
  <2>2. s.hardware.memory.capacity = Presets[Canonical(HardwareName(cache))].capacity
    BY <1>3, <2>1, ProfileKeepsMachine DEF HardwareOf
  <2> QED
    BY <2>1, <2>2, CapacityOK
<1> QED
  BY <1>1, <1>2, <1>3, <1>4, <1>5, <1>6, <1>7, WidthsTyped

-----------------------------------------------------------------------------
\* Whatever the model, as long as its ranks hold as much each: what is sized
\* for a rank is what its operators multiply with, but for latent attention
\* (core/models/sizing.py:98, core/models/qwen3.py, deepseek.py).
THEOREM SizingMatchesTheGraphAlways == Spec => []SizingMatchesTheGraph
<1>1. ASSUME IInv PROVE SizingMatchesTheGraph
  <2>1. Running \subseteq Loaded
    BY <1>1 DEF IInv, ReadOnce, Remembers, Running, Loaded
  <2> QED
    BY <1>1, <2>1, ScenarioTyped, SizesMatch DEF SizingMatchesTheGraph
<1> QED
  BY <1>1, InvCorrect, PTL

\* A page takes some memory, and so does a block of all layers.
LEMMA PageTyped ==
  ASSUME IInv, NEW r \in Loaded
  PROVE  PageBytes(config) \in Nat /\ PageBytes(config) * config.hf.num_hidden_layers \in Nat \ {0}
<1> DEFINE m == ModelOf(config.hf)
<1>1. /\ PageBytes(config) > 0 /\ Checked(config)
      /\ config.hf.model_type \in DOMAIN Adapters /\ \A f \in Sized : m[f] \in Nat
  <2>1. worker[r].scenario.model = m
    <3>1. worker[r].scenario = Scenario(config, worker[r].cache)
      BY DEF IInv, ReadOnce, Remembers, Loaded
    <3> QED
      BY <3>1 DEF Scenario
  <2> QED
    BY <2>1, ScenarioTyped DEF IInv, PoolCounted
<1>2. /\ config.blockSize \in Nat /\ config.tp \in Nat /\ config.tp # 0
      /\ config.hf.num_hidden_layers \in Nat /\ config.hf.num_hidden_layers # 0
      /\ KvWidth(config) \in Nat /\ m.kvLora \in Nat /\ m.rope \in Nat /\ m.kvHeads \in Nat
      /\ m.headDim \in Nat
  BY <1>1 DEF Checked, KvWidth, Sized
<1> DEFINE x == config.blockSize * KvWidth(config)
           h == Larger(1, m.kvHeads \div config.tp)
           y == IF m.kvLora > 0 THEN m.kvLora + m.rope ELSE 2 * h * m.headDim
<1>3. x \in Nat /\ y \in Nat
  <2>1. h \in Nat
    BY <1>2 DEF Larger
  <2> HIDE DEF h, m
  <2>2. 2 * h * m.headDim \in Nat
    BY <1>2, <2>1
  <2> QED
    BY <1>2, <2>2
<1>4. PageBytes(config) = (x * y) \div 2
  BY DEF PageBytes
<1> HIDE DEF x, y
<1>5. PageBytes(config) \in Nat
  <2> DEFINE p == x * y
  <2>1. p \in Nat
    BY <1>3
  <2> HIDE DEF p
  <2>2. p \div 2 \in Nat
    BY <2>1
  <2> QED
    BY <1>4, <2>2 DEF p
<1> DEFINE b == PageBytes(config)
           l == config.hf.num_hidden_layers
<1>6. b \in Nat /\ b # 0 /\ l \in Nat /\ l # 0
  BY <1>1, <1>2, <1>5
<1> HIDE DEF b, l
<1>7. b * l \in Nat /\ b * l # 0
  BY <1>6
<1> QED
  BY <1>5, <1>7 DEF b, l

\* A quotient of a number that is no larger is no larger.
LEMMA QuotientGrows ==
  ASSUME NEW x \in Int, NEW y \in Int, x <= y
  PROVE  x \div 2 <= y \div 2
OBVIOUS

\* What a rank holds, and what it has room for.
LEMMA RoomTyped ==
  ASSUME IInv, NEW r \in Loaded
  PROVE  LET s   == worker[r].scenario
             x   == config.maxBatched * s.model.hidden * s.quant.a
             act == ActivationBytes(s.model, config.maxBatched, s.quant.a)
         IN  /\ x \in Nat /\ act = 2 * x
             /\ PerRankParamBytes(s.model, s.quant.w, s.tp, s.ep) \in Nat
             /\ Used(s) = PerRankParamBytes(s.model, s.quant.w, s.tp, s.ep) + act
             /\ Used(s) \in Nat /\ Budget(s) \in Nat /\ AvailableMemory(s) \in Nat
<1> DEFINE s   == worker[r].scenario
           x   == config.maxBatched * s.model.hidden * s.quant.a
           act == ActivationBytes(s.model, config.maxBatched, s.quant.a)
           p   == PerRankParamBytes(s.model, s.quant.w, s.tp, s.ep)
           u   == config.maxBatched
           v   == s.model.hidden
           z   == s.quant.a
           c   == s.hardware.memory.capacity
           b   == config.utilization
           o   == c * b
<1>1. /\ u \in Nat /\ v \in Nat /\ z \in Nat /\ c \in Nat /\ b \in Nat
  <2>1. "hidden" \in Sized
    BY DEF Sized
  <2>2. u \in Nat /\ b \in Nat
    BY DEF IInv, PoolCounted, Checked
  <2> QED
    BY <2>1, <2>2, ScenarioTyped
<1>2. p \in Nat
  BY ScenarioTyped, SizedTyped
<1>3. x = u * v * z /\ act = 2 * u * v * z /\ Used(s) = p + act
  BY DEF ActivationBytes, Used
<1>4. /\ Budget(s) = o \div 100
      /\ AvailableMemory(s) = IF Budget(s) > Used(s) THEN Budget(s) - Used(s)
                                                     ELSE Larger(c \div 10, 1)
  BY DEF Budget, AvailableMemory
<1> HIDE DEF s, u, v, z, x, act, p, c, b
<1>5. x \in Nat /\ act = 2 * x
  <2>1. u * v \in Nat
    BY <1>1
  <2>2. u * v * z \in Nat /\ 2 * u * v * z = 2 * (u * v * z)
    BY <1>1, <2>1
  <2> QED
    BY <1>3, <2>2
<1>6. o \in Nat /\ c \div 10 \in Nat
  BY <1>1
<1> HIDE DEF o
<1>7. Budget(s) \in Nat /\ Used(s) \in Nat /\ Larger(c \div 10, 1) \in Nat
  BY <1>2, <1>3, <1>4, <1>5, <1>6 DEF Larger
<1>8. AvailableMemory(s) \in Nat
  BY <1>4, <1>7
<1> QED
  BY <1>2, <1>3, <1>5, <1>7, <1>8 DEF s, x, act, p

\* Blocks are laid out in what the rank with the least room has.
LEMMA PoolInRoom ==
  ASSUME IInv, gate = "ready", NEW r \in Ranks
  PROVE  LET pool == numBlocks * PageBytes(config) * config.hf.num_hidden_layers
         IN  pool \in Int /\ pool <= AvailableMemory(worker[r].scenario)
<1> DEFINE B == PageBytes(config)
           l == config.hf.num_hidden_layers
           S == {worker[q].available : q \in Ranks}
           m == Min(S)
           k == B * l
<1>1. /\ \A q \in Ranks : /\ q \in Loaded
                          /\ worker[q].available = AvailableMemory(worker[q].scenario)
      /\ numBlocks = m \div k /\ Ranks = 0 .. config.tp - 1 /\ config.tp \in Nat
  BY DEF IInv, PoolCounted, Loaded, Checked
<1>2. \A q \in Ranks : worker[q].available \in Nat
  BY <1>1, RoomTyped
<1>3. IsFiniteSet(S) /\ S # {} /\ \A x \in S : x \in Nat
  <2> DEFINE f == [q \in Ranks |-> worker[q].available]
             top == config.tp - 1
  <2>1. 0 \in Int /\ top \in Int
    BY <1>1
  <2> HIDE DEF top
  <2>2. IsFiniteSet(0..top)
    BY <2>1, FS_Interval
  <2>3. IsFiniteSet(Ranks)
    BY <1>1, <2>2 DEF top
  <2>4. IsFiniteSet({f[q] : q \in Ranks})
    <3> HIDE DEF f
    <3> QED
      BY <2>3, FiniteImage
  <2>5. {f[q] : q \in Ranks} = S
    OBVIOUS
  <2> QED
    BY <1>2, <2>4, <2>5
<1>4. m \in Nat /\ m <= worker[r].available
  <2>1. worker[r].available \in S
    OBVIOUS
  <2> HIDE DEF S
  <2>2. \A x \in S : x \in Int
    BY <1>3
  <2> QED
    BY <1>3, <2>1, <2>2, MinIn
<1>5. B \in Nat /\ k \in Nat /\ k # 0 /\ l \in Nat
  <2>1. r \in Loaded
    BY <1>1
  <2> QED
    BY <2>1, PageTyped DEF IInv, PoolCounted, Checked
<1> DEFINE n == m \div k
<1> HIDE DEF m, B, l
<1>6. n \in Nat /\ n * k <= m /\ n * k \in Int
  <2> HIDE DEF k
  <2> QED
    BY <1>4, <1>5
<1> HIDE DEF n
<1>7. n * B * l = n * k
  BY <1>5, <1>6
<1>8. numBlocks = n
  BY <1>1 DEF n
<1>9. numBlocks * B * l \in Int /\ numBlocks * B * l <= worker[r].available
  BY <1>4, <1>2, <1>6, <1>7, <1>8
<1> QED
  BY <1>1, <1>9 DEF B, l

\* Whatever files the ranks have read: the blocks vLLM is told of fit every
\* rank beside what its operators hold, or take a tenth of a memory the model
\* does not fit (virtual_worker.py:165-214).
THEOREM PoolFitsEveryRankAlways == Spec => []PoolFitsEveryRank
<1>1. ASSUME IInv PROVE PoolFitsEveryRank
  <2> SUFFICES ASSUME gate = "ready", NEW r \in Ranks,
                      ShardsEvenly(worker[r].scenario),
                      AttentionUsed(worker[r].scenario) <= AttentionSized(worker[r].scenario)
               PROVE  LET s     == worker[r].scenario
                          pool  == numBlocks * PageBytes(config) * config.hf.num_hidden_layers
                          holds == Share(GraphParams(DeploymentOf(s)), s.quant.w, 1)
                                     + (config.maxBatched * s.model.hidden * s.quant.a) \div 2
                      IN  \/ pool + holds <= Budget(s)
                          \/ /\ PerRankParamBytes(s.model, s.quant.w, s.tp, s.ep)
                                  + ActivationBytes(s.model, config.maxBatched, s.quant.a)
                                  >= Budget(s)
                             /\ pool <= Larger(s.hardware.memory.capacity \div 10, 1)
    BY DEF PoolFitsEveryRank
  <2> DEFINE s     == worker[r].scenario
             d     == DeploymentOf(s)
             w     == s.quant.w
             pool  == numBlocks * PageBytes(config) * config.hf.num_hidden_layers
             graph == Share(GraphParams(d), w, 1)
             used  == Share(GraphParams(d) + OtherParams(d), w, 1)
             sized == PerRankParamBytes(s.model, w, s.tp, s.ep)
             x     == config.maxBatched * s.model.hidden * s.quant.a
             act   == ActivationBytes(s.model, config.maxBatched, s.quant.a)
  <2>1. r \in Loaded
    BY <1>1 DEF IInv, PoolCounted, Loaded
  <2>2. /\ GraphParams(d) \in Int /\ OtherParams(d) \in Nat /\ w \in Nat
        /\ sized \in Int /\ used \in Int /\ used <= sized
    <3>1. /\ sized \in Int /\ used \in Int /\ GraphParams(d) \in Int /\ OtherParams(d) \in Nat
          /\ AttentionSized(s) \in Int /\ AttentionUsed(s) \in Int
          /\ sized - AttentionSized(s) = used - AttentionUsed(s) /\ w \in Nat
      BY <1>1, <2>1, ScenarioTyped, SizesMatch
    <3>2. AttentionUsed(s) <= AttentionSized(s)
      OBVIOUS
    <3> HIDE DEF sized, used, s, d, w
    <3> QED
      BY <3>1, <3>2
  <2>3. /\ x \in Nat /\ act = 2 * x /\ Used(s) = sized + act /\ Used(s) \in Nat
        /\ Budget(s) \in Nat /\ AvailableMemory(s) \in Nat
    BY <1>1, <2>1, RoomTyped
  <2>4. graph <= used /\ graph \in Int
    <3> DEFINE p == GraphParams(d)
               q == OtherParams(d)
               a == p * w
               b == (p + q) * w
    <3>1. p \in Int /\ q \in Nat /\ w \in Nat
      BY <2>2
    <3>2. graph = a \div 2 /\ used = b \div 2
      BY DEF Share
    <3> HIDE DEF p, q, w, graph, used
    <3>3. a \in Int /\ b \in Int /\ a <= b
      <4>1. q * w \in Nat /\ (p + q) * w = p * w + q * w /\ p * w \in Int
        BY <3>1
      <4> QED
        BY <4>1
    <3> HIDE DEF a, b
    <3> QED
      BY <3>2, <3>3, QuotientGrows
  <2>5. pool \in Int /\ pool <= AvailableMemory(s)
    BY <1>1, PoolInRoom
  <2>6. AvailableMemory(s) = IF Budget(s) > Used(s) THEN Budget(s) - Used(s)
                             ELSE Larger(s.hardware.memory.capacity \div 10, 1)
    BY DEF AvailableMemory
  <2>7. \/ pool + (graph + x \div 2) <= Budget(s)
        \/ sized + act >= Budget(s) /\ pool <= Larger(s.hardware.memory.capacity \div 10, 1)
    <3> HIDE DEF s, d, w, pool, graph, used, sized, x, act
    <3>1. x \div 2 <= act /\ x \div 2 \in Int
      BY <2>3
    <3>2. graph + x \div 2 <= Used(s)
      BY <2>2, <2>3, <2>4, <3>1
    <3>3. CASE Budget(s) > Used(s)
      BY <2>3, <2>4, <2>5, <2>6, <3>1, <3>2, <3>3
    <3>4. CASE ~ Budget(s) > Used(s)
      BY <2>3, <2>5, <2>6, <3>4
    <3> QED
      BY <3>3, <3>4
  <2> QED
    BY <2>7
<1> QED
  BY <1>1, InvCorrect, PTL

-----------------------------------------------------------------------------
(* The time of a collective                                                *)

\* A quotient grows with what is divided.
LEMMA QuotientRises ==
  ASSUME NEW n \in Nat, n # 0, NEW x \in Nat, NEW y \in Nat, x <= y
  PROVE  x \div n \in Nat /\ y \div n \in Nat /\ x \div n <= y \div n
<1> DEFINE p == x \div n
           q == y \div n
<1>1. p \in Nat /\ q \in Nat /\ n * p <= x /\ y < n * q + n
  OBVIOUS
<1> HIDE DEF p, q
<1>2. SUFFICES ASSUME p >= q + 1 PROVE FALSE
  BY <1>1 DEF p, q
<1>3. n * p >= n * (q + 1) /\ n * (q + 1) = n * q + n
  BY <1>1, <1>2
<1> QED
  BY <1>1, <1>3

\* A product grows with its factors.
LEMMA ProductRises ==
  ASSUME NEW a \in Nat, NEW b \in Nat, a <= b, NEW x \in Nat, NEW y \in Nat, x <= y
  PROVE  a * x \in Nat /\ b * y \in Nat /\ a * x <= b * y
<1>1. a * x <= a * y
  OBVIOUS
<1>2. a * y <= b * y
  OBVIOUS
<1> QED
  BY <1>1, <1>2

\* What is multiplied with some is no less.
LEMMA ProductCovers ==
  ASSUME NEW x \in Nat, NEW k \in Nat, k # 0
  PROVE  x * k \in Nat /\ k * x \in Nat /\ x <= x * k /\ x <= k * x
OBVIOUS

\* A tree over more than one rank has a level.
LEMMA DepthTyped ==
  ASSUME NEW n \in Nat, n > 1
  PROVE  Depth(n) \in Nat /\ Depth(n) >= 1
<1> DEFINE K == {k \in 0 .. n - 1 : 2^k < n}
<1>1. 2^0 = 1
  <2>1. Cardinality({}) = 0 /\ IsFiniteSet({})
    BY FS_EmptySet
  <2>2. Cardinality(SUBSET {}) = 2^0
    BY <2>1, FS_SUBSET
  <2>3. SUBSET {} = {{}}
    OBVIOUS
  <2> QED
    BY <2>2, <2>3, FS_Singleton
<1>2. 0 \in K
  BY <1>1
<1>3. IsFiniteSet(K)
  <2>1. IsFiniteSet(0 .. n - 1) /\ K \subseteq 0 .. n - 1
    BY FS_Interval
  <2> HIDE DEF K
  <2> QED
    BY <2>1, FS_Subset
<1> HIDE DEF K
<1>4. Cardinality(K) \in Nat /\ Cardinality(K) # 0
  BY <1>2, <1>3, FS_CardinalityType, FS_EmptySet
<1> QED
  BY <1>4 DEF Depth, K

\* What the price of a collective is made of.
LinksTyped(hw) ==
  LET t == hw.topology
  IN  /\ {t.link, t.protocol, t.nodeSize, t.gpusPerRoot, t.numRoots} \subseteq Nat \ {0}
      /\ {t.stepLatency, t.interLink, t.interLatency, hw.commEff} \subseteq Nat
      /\ hw.bias = <<>>
      /\ \A entry \in DOMAIN hw.floor : hw.floor[entry] \in Nat
      /\ Tuned(NcclParams(hw))
      /\ "nccl" \in DOMAIN hw.communication =>
           LET p == hw.communication["nccl"].alltoall
           IN  p.alpha \in Nat /\ {p.scale, p.contention} \subseteq Nat \ {0}

At(hint) == [hint |-> hint, visible |-> <<>>]

\* Ranks share a link, so that a byte takes as many times longer; a protocol

\* takes its part.
LEMMA LinksShared ==
  ASSUME NEW hw, LinksTyped(hw), NEW n \in Nat, NEW hint
  PROVE  /\ FabricByte(hw, n, At(hint)) \in Nat /\ IntraByte(hw, n, At(hint)) \in Nat
         /\ FabricByte(hw, n, At(hint)) <= IntraByte(hw, n, At(hint))
         /\ FabricByte(hw, n, At(hint)) = 0 => IntraByte(hw, n, At(hint)) = 0
<1> DEFINE t == hw.topology
           c == Contention(t, n, At(hint))
           l == t.link
           e == hw.commEff
           p == t.protocol
<1>1. l \in Nat /\ e \in Nat /\ p \in Nat /\ p # 0 /\ t.gpusPerRoot \in Nat /\ t.numRoots \in Nat
      /\ t.numRoots # 0
  BY DEF LinksTyped
<1>2. c \in Nat
  <2>1. At(hint).visible = <<>>
    BY DEF At
  <2>2. RanksPerRoot(t, n, At(hint)) \in Int
    <3>1. Ceiling(n, Max2(t.numRoots, 1)) \in Int /\ Min2(n, t.gpusPerRoot) \in Int
      BY <1>1 DEF Ceiling, Max2, Min2
    <3> QED
      BY <2>1, <3>1 DEF RanksPerRoot
  <2> QED
    BY <2>2 DEF Contention, Max2
<1>3. FabricByte(hw, n, At(hint)) = l * e * c /\ IntraByte(hw, n, At(hint)) = l * e * p * c
  BY DEF FabricByte, IntraByte
<1> HIDE DEF t, c, l, e, p
<1>4. l * e * c \in Nat /\ l * e * p * c = (l * e * c) * p
  BY <1>1, <1>2
<1> DEFINE f == l * e * c
<1>5. l * e * p * c = f * p /\ f \in Nat
  BY <1>4
<1> HIDE DEF f
<1>6. f * p \in Nat /\ f <= f * p /\ (f = 0 => f * p = 0)
  BY <1>1, <1>5, ProductCovers
<1> QED
  BY <1>3, <1>5, <1>6 DEF f

\* A floor is a time.
LEMMA FloorTyped ==
  ASSUME NEW hw, LinksTyped(hw), NEW type
  PROVE  Floor(hw, type) \in Nat
BY DEF LinksTyped, Floor, EntryOf

\* What is charged of a captured graph is the floor and the term.
LEMMA ChargedIs ==
  ASSUME NEW hw, NEW type, NEW term \in Nat, LinksTyped(hw)
  PROVE  LET price == Charged(hw, type, "cudagraph", term)
         IN  /\ price.outcome = "priced" /\ price.time \in Nat /\ term <= price.time
             /\ price.time = Floor(hw, type) + term
<1>1. FrameworkOverhead(hw, type, "cudagraph") = 0
  BY DEF FrameworkOverhead
<1> QED
  BY <1>1, FloorTyped DEF Charged, Takes

\* A hop carries the message, and takes longer for a longer one.
LEMMA HopsGrow ==
  ASSUME NEW hops \in Nat, NEW alpha \in Nat, NEW byte \in Nat, NEW a \in Nat, NEW b \in Nat,
         a <= b
  PROVE  /\ Hops(hops, a, alpha, byte) \in Nat /\ Hops(hops, b, alpha, byte) \in Nat
         /\ Hops(hops, a, alpha, byte) <= Hops(hops, b, alpha, byte)
         /\ hops * (a * byte) \in Nat /\ hops * (a * byte) <= Hops(hops, a, alpha, byte)
<1> DEFINE x == a * byte
           y == b * byte
<1>1. x \in Nat /\ y \in Nat /\ x <= y
  BY ProductRises
<1>2. Hops(hops, a, alpha, byte) = hops * (alpha + x) /\ Hops(hops, b, alpha, byte) = hops * (alpha + y)
  BY DEF Hops
<1> HIDE DEF x, y
<1>3. hops * (alpha + x) \in Nat /\ hops * (alpha + y) \in Nat
      /\ hops * (alpha + x) <= hops * (alpha + y)
  BY <1>1, ProductRises
<1>4. hops * x \in Nat /\ hops * x <= hops * (alpha + x)
  BY <1>1, ProductRises
<1> QED
  BY <1>2, <1>3, <1>4 DEF x

\* Every round carries one of n parts: n times as long, all but one of them.
LEMMA PartsGrow ==
  ASSUME NEW n \in Nat, n > 1, NEW alpha \in Nat, NEW byte \in Nat, NEW a \in Nat, NEW b \in Nat,
         a <= b
  PROVE  /\ Parts(n, a, alpha, byte) \in Nat /\ Parts(n, b, alpha, byte) \in Nat
         /\ Parts(n, a, alpha, byte) <= Parts(n, b, alpha, byte)
         /\ (n - 1) * a * byte \in Nat
         /\ a % n = 0 => n * Parts(n, a, alpha, byte) >= (n - 1) * a * byte
<1> DEFINE m == n - 1
           x == m * a * byte
           y == m * b * byte
           s == m * alpha
<1>1. m \in Nat /\ s \in Nat
  OBVIOUS
<1>2. x \in Nat /\ y \in Nat /\ x <= y
  <2> HIDE DEF m
  <2>1. m * a \in Nat /\ m * b \in Nat /\ m * a <= m * b
    BY <1>1, ProductRises
  <2> DEFINE p == m * a
             q == m * b
  <2>2. p * byte \in Nat /\ q * byte \in Nat /\ p * byte <= q * byte
    <3>1. p \in Nat /\ q \in Nat /\ p <= q
      BY <2>1
    <3> HIDE DEF p, q
    <3> QED
      BY <3>1, ProductRises
  <2> QED
    BY <2>2
<1>3. Parts(n, a, alpha, byte) = s + x \div n /\ Parts(n, b, alpha, byte) = s + y \div n
  BY DEF Parts
<1>4. ASSUME a % n = 0 PROVE n * (s + x \div n) >= x
  <2> DEFINE k == a \div n
             z == m * k * byte
  <2>1. a = n * k /\ k \in Nat
    BY <1>4, ExactQuotient
  <2> HIDE DEF m, k
  <2>2. z \in Nat
    BY <1>1, <2>1
  <2>3. m * (n * k) * byte = n * (m * k * byte)
    BY <1>1, <2>1
  <2>4. x = n * z
    BY <2>1, <2>3
  <2> HIDE DEF x, z, s
  <2>5. x \div n = z
    BY <2>2, <2>4, QuotientOf
  <2>6. n * z \in Nat /\ n * z <= n * (s + z)
    BY <1>1, <2>2, ProductRises
  <2> QED
    BY <2>4, <2>5, <2>6
<1> HIDE DEF m, x, y, s
<1>5. x \div n \in Nat /\ y \div n \in Nat /\ x \div n <= y \div n
  BY <1>2, QuotientRises
<1> QED
  BY <1>1, <1>2, <1>3, <1>4, <1>5 DEF x, m

\* What a collective of a captured graph costs.
Price(hw, type, n, bytes, hint) == CollectivePrice(hw, Message(type, n, bytes), hint)

\* The bytes it moves cross the link in its time.
Crosses(hw, type, n, bytes, hint) ==
  LET price == Price(hw, type, n, bytes, hint)
      byte  == FabricByte(hw, IF type = "p2p" THEN 1 ELSE n, At(hint))
  IN  price.outcome = "priced" => byte > 0 /\ n * price.time >= Crossing(type, n, bytes) * byte

\* It takes no longer for fewer.
Grows(hw, type, n, a, b, hint) ==
  \/ Price(hw, type, n, a, hint).outcome # "priced"
  \/ Price(hw, type, n, a, hint).time <= Price(hw, type, n, b, hint).time

\* A collective that moves something among several ranks is priced by its type.
LEMMA PriceIs ==
  ASSUME NEW hw, NEW type \in Collectives, NEW n \in Nat, n > 1, NEW bytes \in Nat, bytes # 0,
         NEW hint
  PROVE  Price(hw, type, n, bytes, hint) = TimeAt(hw, Message(type, n, bytes), At(hint))
<1> DEFINE c == Message(type, n, bytes)
<1>1. c.type = type /\ c.world = n /\ c.bytes = bytes /\ c.topology = ""
  BY DEF Message
<1>2. TopologyHint(c, hint) = hint
  BY <1>1 DEF TopologyHint, Hints
<1> HIDE DEF c
<1>3. CollectivePrice(hw, c, hint) = TimeAt(hw, c, [hint |-> hint, visible |-> <<>>])
  <2>1. bytes > 0 /\ n > 1
    OBVIOUS
  <2> QED
    BY <1>1, <1>2, <2>1, Zenon DEF CollectivePrice
<1> QED
  BY <1>3 DEF Price, At, c

\* What is charged over a link, if there is one, by a term for each size.
LEMMA ChargedGrows ==
  ASSUME NEW hw, LinksTyped(hw), NEW type, NEW n, NEW a, NEW b, NEW hint, NEW byte,
         NEW x \in Nat, NEW y \in Nat, x <= y,
         Price(hw, type, n, a, hint) = IF byte = 0 THEN Infinite ELSE Charged(hw, type, "cudagraph", x),
         Price(hw, type, n, b, hint) = IF byte = 0 THEN Infinite ELSE Charged(hw, type, "cudagraph", y)
  PROVE  Grows(hw, type, n, a, b, hint)
<1>1. CASE byte = 0
  BY <1>1 DEF Grows, Infinite
<1>2. CASE byte # 0
  BY <1>2, ChargedIs, FloorTyped DEF Grows
<1> QED
  BY <1>1, <1>2

\* Such a term is enough if its bytes take no longer on the link.
LEMMA ChargedCrosses ==
  ASSUME NEW hw, LinksTyped(hw), NEW type, NEW n \in Nat, NEW bytes, NEW hint, NEW byte,
         NEW x \in Nat, NEW fabric \in Nat,
         fabric = FabricByte(hw, IF type = "p2p" THEN 1 ELSE n, At(hint)),
         fabric = 0 => byte = 0,
         Crossing(type, n, bytes) * fabric \in Nat,
         byte # 0 => n * x >= Crossing(type, n, bytes) * fabric,
         Price(hw, type, n, bytes, hint)
           = IF byte = 0 THEN Infinite ELSE Charged(hw, type, "cudagraph", x)
  PROVE  Crosses(hw, type, n, bytes, hint)
<1> DEFINE price == Price(hw, type, n, bytes, hint)
           need  == Crossing(type, n, bytes) * fabric
<1>1. CASE byte = 0
  BY <1>1 DEF Crosses, Infinite
<1>2. CASE byte # 0
  <2>1. price.time \in Nat /\ x <= price.time
    BY <1>2, ChargedIs
  <2>2. fabric > 0 /\ need \in Nat /\ n * x >= need
    BY <1>2
  <2> HIDE DEF price, need
  <2>3. n * x \in Nat /\ n * price.time \in Nat /\ n * x <= n * price.time
    BY <2>1, ProductRises
  <2>4. n * price.time >= need
    BY <2>2, <2>3
  <2> QED
    BY <2>2, <2>4 DEF Crosses, price, need
<1> QED
  BY <1>1, <1>2

\* A message between two ranks.
LEMMA P2PRespects ==
  ASSUME NEW hw, LinksTyped(hw), NEW n \in Nat, n > 1, NEW a \in Nat, a # 0, NEW b \in Nat, a <= b,
         NEW hint
  PROVE  Grows(hw, "p2p", n, a, b, hint) /\ Crosses(hw, "p2p", n, a, hint)
<1> DEFINE byte   == IntraByte(hw, 1, At(hint))
           fabric == FabricByte(hw, 1, At(hint))
           alpha  == hw.topology.stepLatency
           x      == alpha + a * byte
           y      == alpha + b * byte
<1>1. /\ fabric \in Nat /\ byte \in Nat /\ fabric <= byte /\ (fabric = 0 => byte = 0)
      /\ alpha \in Nat /\ b # 0
  BY LinksShared DEF LinksTyped
<1>2. \A c \in Nat : c # 0 =>
        Price(hw, "p2p", n, c, hint)
          = IF byte = 0 THEN Infinite ELSE Charged(hw, "p2p", "cudagraph", alpha + c * byte)
  <2> SUFFICES ASSUME NEW c \in Nat, c # 0
               PROVE  Price(hw, "p2p", n, c, hint)
                        = IF byte = 0 THEN Infinite
                          ELSE Charged(hw, "p2p", "cudagraph", alpha + c * byte)
    OBVIOUS
  <2>1. Price(hw, "p2p", n, c, hint) = TimeAt(hw, Message("p2p", n, c), At(hint))
    BY PriceIs DEF Collectives
  <2>2. TimeAt(hw, Message("p2p", n, c), At(hint)) = P2PTime(hw, c, "cudagraph", At(hint))
    BY DEF TimeAt, Message
  <2>3. c > 0 /\ ~ c <= 0
    OBVIOUS
  <2> QED
    BY <2>1, <2>2, <2>3, Zenon DEF P2PTime
<1>3. Price(hw, "p2p", n, a, hint) = IF byte = 0 THEN Infinite ELSE Charged(hw, "p2p", "cudagraph", x)
  BY <1>2
<1>4. Price(hw, "p2p", n, b, hint) = IF byte = 0 THEN Infinite ELSE Charged(hw, "p2p", "cudagraph", y)
  BY <1>1, <1>2
<1>5. x \in Nat /\ y \in Nat /\ x <= y
  <2>1. a * byte \in Nat /\ b * byte \in Nat /\ a * byte <= b * byte
    BY <1>1, ProductRises
  <2> QED
    BY <1>1, <2>1
<1>6. Crossing("p2p", n, a) = n * a
  BY DEF Crossing
<1>7. (n * a) * fabric \in Nat /\ n * x >= (n * a) * fabric
  <2>1. a * fabric \in Nat /\ a * byte \in Nat /\ a * fabric <= a * byte
    BY <1>1, ProductRises
  <2> DEFINE u == a * fabric
             v == a * byte
  <2>2. u \in Nat /\ v \in Nat /\ u <= v /\ x = alpha + v /\ (n * a) * fabric = n * u
    BY <1>1, <2>1
  <2> HIDE DEF u, v, x, fabric, byte, alpha
  <2>3. n * u \in Nat /\ n * u <= n * x
    BY <1>1, <1>5, <2>2, ProductRises
  <2> QED
    BY <2>2, <2>3
<1> HIDE DEF x, y, byte
<1>8. Grows(hw, "p2p", n, a, b, hint)
  BY <1>3, <1>4, <1>5, ChargedGrows
<1>9. Crosses(hw, "p2p", n, a, hint)
  <2>1. fabric = FabricByte(hw, IF "p2p" = "p2p" THEN 1 ELSE n, At(hint))
    OBVIOUS
  <2> HIDE DEF fabric
  <2> QED
    BY <1>1, <1>3, <1>5, <1>6, <1>7, <2>1, ChargedCrosses
<1> QED
  BY <1>8, <1>9

\* A ring or an exchange of parts.
LEMMA ReduceScatterRespects ==
  ASSUME NEW hw, LinksTyped(hw), NEW n \in Nat, n > 1, NEW a \in Nat, a # 0, NEW b \in Nat, a <= b,
         NEW hint
  PROVE  /\ Grows(hw, "reducescatter", n, a, b, hint)
         /\ a % n = 0 => Crosses(hw, "reducescatter", n, a, hint)
<1> DEFINE byte   == IntraByte(hw, n, At(hint))
           fabric == FabricByte(hw, n, At(hint))
           alpha  == hw.topology.stepLatency
           x      == Parts(n, a, alpha, byte)
           y      == Parts(n, b, alpha, byte)
<1>1. /\ fabric \in Nat /\ byte \in Nat /\ fabric <= byte /\ (fabric = 0 => byte = 0)
      /\ alpha \in Nat /\ b # 0
  BY LinksShared DEF LinksTyped
<1>2. \A c \in Nat : c # 0 =>
        Price(hw, "reducescatter", n, c, hint)
          = IF byte = 0 THEN Infinite
            ELSE Charged(hw, "reducescatter", "cudagraph", Parts(n, c, alpha, byte))
  <2> SUFFICES ASSUME NEW c \in Nat, c # 0
               PROVE  Price(hw, "reducescatter", n, c, hint)
                        = IF byte = 0 THEN Infinite
                          ELSE Charged(hw, "reducescatter", "cudagraph", Parts(n, c, alpha, byte))
    OBVIOUS
  <2>1. Price(hw, "reducescatter", n, c, hint)
          = TimeAt(hw, Message("reducescatter", n, c), At(hint))
    BY PriceIs DEF Collectives
  <2>2. TimeAt(hw, Message("reducescatter", n, c), At(hint))
          = ReduceScatterTime(hw, n, c, "cudagraph", At(hint))
    BY DEF TimeAt, Message
  <2>3. c > 0 /\ ~ c <= 0 /\ ~ n <= 1
    OBVIOUS
  <2> QED
    BY <2>1, <2>2, <2>3, Zenon DEF ReduceScatterTime
<1>3. Price(hw, "reducescatter", n, a, hint)
        = IF byte = 0 THEN Infinite ELSE Charged(hw, "reducescatter", "cudagraph", x)
  BY <1>2
<1>4. Price(hw, "reducescatter", n, b, hint)
        = IF byte = 0 THEN Infinite ELSE Charged(hw, "reducescatter", "cudagraph", y)
  BY <1>1, <1>2
<1>5. /\ x \in Nat /\ y \in Nat /\ x <= y
      /\ a % n = 0 => n * x >= (n - 1) * a * byte
  BY <1>1, PartsGrow
<1>6. Crossing("reducescatter", n, a) = (n - 1) * a
  BY DEF Crossing
<1>7. (n - 1) * a * fabric \in Nat /\ (n - 1) * a * byte \in Nat
      /\ (n - 1) * a * fabric <= (n - 1) * a * byte
  <2> DEFINE m == (n - 1) * a
  <2>1. m \in Nat
    OBVIOUS
  <2> HIDE DEF m, fabric, byte
  <2> QED
    BY <1>1, <2>1, ProductRises DEF m
<1> HIDE DEF x, y, byte
<1>8. Grows(hw, "reducescatter", n, a, b, hint)
  BY <1>3, <1>4, <1>5, ChargedGrows
<1>9. ASSUME a % n = 0 PROVE Crosses(hw, "reducescatter", n, a, hint)
  <2>1. fabric = FabricByte(hw, IF "reducescatter" = "p2p" THEN 1 ELSE n, At(hint))
    OBVIOUS
  <2> HIDE DEF fabric
  <2>2. n * x >= (n - 1) * a * fabric
    BY <1>1, <1>5, <1>7, <1>9
  <2> QED
    BY <1>1, <1>3, <1>5, <1>6, <1>7, <2>1, <2>2, ChargedCrosses
<1> QED
  BY <1>8, <1>9

\* Of two algorithms without a bias the faster one is taken.
LEMMA FasterTaken ==
  ASSUME NEW hw, hw.bias = <<>>, NEW type, NEW f, NEW g, NEW p \in Nat, NEW q \in Nat
  PROVE  LET time == SelectMinCandidate(hw, type, {Candidate(f, p), Candidate(g, q)})
         IN  time \in {p, q} /\ time <= p /\ time <= q
<1> DEFINE c  == Candidate(f, p)
           d  == Candidate(g, q)
           Biased(e) == e.time * AlgoBias(hw, type, e.algo)
           least == CHOOSE e \in {c, d} : \A h \in {c, d} : Biased(e) <= Biased(h)
<1>1. \A algo : AlgoBias(hw, type, algo) = 1
  <2>1. DOMAIN hw.bias = {}
    OBVIOUS
  <2> QED
    BY <2>1 DEF AlgoBias
<1>2. Biased(c) = p /\ Biased(d) = q
  BY <1>1 DEF Candidate
<1> HIDE DEF Biased, c, d
<1>3. \E e \in {c, d} : \A h \in {c, d} : Biased(e) <= Biased(h)
  <2>1. CASE p <= q
    BY <1>2, <2>1
  <2>2. CASE ~ p <= q
    BY <1>2, <2>2
  <2> QED
    BY <2>1, <2>2
<1>4. least \in {c, d} /\ \A h \in {c, d} : Biased(least) <= Biased(h)
  BY <1>3
<1> HIDE DEF least
<1>5. Biased(least) \in {p, q} /\ Biased(least) <= p /\ Biased(least) <= q
  BY <1>2, <1>4
<1>6. SelectMinCandidate(hw, type, {c, d}) = Biased(least)
  BY Zenon DEF SelectMinCandidate, least, Biased
<1> QED
  BY <1>5, <1>6 DEF c, d

\* A ring or a tree, whichever is faster.
LEMMA BroadcastRespects ==
  ASSUME NEW hw, LinksTyped(hw), NEW n \in Nat, n > 1, NEW a \in Nat, a # 0, NEW b \in Nat, a <= b,
         NEW hint
  PROVE  Grows(hw, "broadcast", n, a, b, hint) /\ Crosses(hw, "broadcast", n, a, hint)
<1> DEFINE byte   == IntraByte(hw, n, At(hint))
           fabric == FabricByte(hw, n, At(hint))
           alpha  == hw.topology.stepLatency
           m      == n - 1
           k      == Depth(n)
           Ring(c) == Hops(m, c, alpha, byte)
           Tree(c) == Hops(k, c, alpha, byte)
           T(c)    == SelectMinCandidate(hw, "broadcast",
                                         {Candidate("ring", Ring(c)), Candidate("tree", Tree(c))})
           x      == T(a)
           y      == T(b)
<1>1. /\ fabric \in Nat /\ byte \in Nat /\ fabric <= byte /\ (fabric = 0 => byte = 0)
      /\ alpha \in Nat /\ b # 0 /\ m \in Nat /\ m # 0 /\ k \in Nat /\ k # 0
  <2>1. fabric \in Nat /\ byte \in Nat /\ fabric <= byte /\ (fabric = 0 => byte = 0)
    BY LinksShared
  <2>2. alpha \in Nat
    BY DEF LinksTyped
  <2>3. k \in Nat /\ k >= 1
    BY DepthTyped
  <2>4. b # 0 /\ m \in Nat /\ m # 0
    OBVIOUS
  <2> HIDE DEF fabric, byte, alpha, m, k
  <2> QED
    BY <2>1, <2>2, <2>3, <2>4
<1>2. \A c \in Nat : c # 0 =>
        Price(hw, "broadcast", n, c, hint)
          = IF byte = 0 THEN Infinite ELSE Charged(hw, "broadcast", "cudagraph", T(c))
  <2> SUFFICES ASSUME NEW c \in Nat, c # 0
               PROVE  Price(hw, "broadcast", n, c, hint)
                        = IF byte = 0 THEN Infinite
                          ELSE Charged(hw, "broadcast", "cudagraph", T(c))
    OBVIOUS
  <2>1. Price(hw, "broadcast", n, c, hint) = TimeAt(hw, Message("broadcast", n, c), At(hint))
    BY PriceIs DEF Collectives
  <2>2. TimeAt(hw, Message("broadcast", n, c), At(hint))
          = BroadcastTime(hw, n, c, "cudagraph", At(hint))
    BY DEF TimeAt, Message
  <2>3. c > 0 /\ ~ c <= 0 /\ ~ n <= 1
    OBVIOUS
  <2> QED
    BY <2>1, <2>2, <2>3, Zenon DEF BroadcastTime
<1>3. Price(hw, "broadcast", n, a, hint)
        = IF byte = 0 THEN Infinite ELSE Charged(hw, "broadcast", "cudagraph", x)
  BY <1>2
<1>4. Price(hw, "broadcast", n, b, hint)
        = IF byte = 0 THEN Infinite ELSE Charged(hw, "broadcast", "cudagraph", y)
  BY <1>1, <1>2
<1>5. /\ Ring(a) \in Nat /\ Ring(b) \in Nat /\ Ring(a) <= Ring(b)
      /\ Tree(a) \in Nat /\ Tree(b) \in Nat /\ Tree(a) <= Tree(b)
      /\ a * byte \in Nat /\ a * byte <= Ring(a) /\ a * byte <= Tree(a)
  <2> HIDE DEF byte, alpha, m, k
  <2>1. /\ Ring(a) \in Nat /\ Ring(b) \in Nat /\ Ring(a) <= Ring(b)
        /\ m * (a * byte) \in Nat /\ m * (a * byte) <= Ring(a)
    BY <1>1, HopsGrow
  <2>2. /\ Tree(a) \in Nat /\ Tree(b) \in Nat /\ Tree(a) <= Tree(b)
        /\ k * (a * byte) \in Nat /\ k * (a * byte) <= Tree(a)
    BY <1>1, HopsGrow
  <2>3. a * byte \in Nat
    BY <1>1
  <2> DEFINE v == a * byte
  <2>4. v <= m * v /\ v <= k * v
    <3> HIDE DEF v
    <3> QED
      BY <1>1, <2>3, ProductCovers DEF v
  <2> QED
    BY <2>1, <2>2, <2>3, <2>4
<1>6. /\ x \in Nat /\ y \in Nat /\ x <= y /\ a * byte <= x
  <2> DEFINE ra == Ring(a)
             rb == Ring(b)
             ta == Tree(a)
             tb == Tree(b)
             v  == a * byte
  <2>1. hw.bias = <<>>
    BY DEF LinksTyped
  <2>2. x \in {ra, ta} /\ x <= ra /\ x <= ta
    BY <1>5, <2>1, FasterTaken
  <2>3. y \in {rb, tb} /\ y <= rb /\ y <= tb
    BY <1>5, <2>1, FasterTaken
  <2> HIDE DEF x, y, T
  <2>4. ra \in Nat /\ rb \in Nat /\ ta \in Nat /\ tb \in Nat /\ ra <= rb /\ ta <= tb
        /\ v \in Nat /\ v <= ra /\ v <= ta
    BY <1>5
  <2> HIDE DEF ra, rb, ta, tb, v
  <2>5. x \in Nat /\ y \in Nat /\ x <= y /\ v <= x
    BY <2>2, <2>3, <2>4
  <2> QED
    BY <2>5 DEF v
<1> HIDE DEF x, y, T, Ring, Tree
<1>7. Crossing("broadcast", n, a) = n * a
  BY DEF Crossing
<1>8. (n * a) * fabric \in Nat /\ n * x >= (n * a) * fabric
  <2>1. a * fabric \in Nat /\ a * byte \in Nat /\ a * fabric <= a * byte
    BY <1>1, ProductRises
  <2> DEFINE u == a * fabric
  <2>2. u \in Nat /\ u <= x /\ (n * a) * fabric = n * u
    BY <1>1, <1>6, <2>1
  <2> HIDE DEF u, fabric, byte, alpha
  <2>3. n * u \in Nat /\ n * u <= n * x
    BY <1>1, <1>6, <2>2, ProductRises
  <2> QED
    BY <2>2, <2>3
<1> HIDE DEF byte
<1>9. Grows(hw, "broadcast", n, a, b, hint)
  BY <1>3, <1>4, <1>6, ChargedGrows
<1>10. Crosses(hw, "broadcast", n, a, hint)
  <2>1. fabric = FabricByte(hw, IF "broadcast" = "p2p" THEN 1 ELSE n, At(hint))
    OBVIOUS
  <2> HIDE DEF fabric
  <2>2. Crossing("broadcast", n, a) * fabric \in Nat
        /\ n * x >= Crossing("broadcast", n, a) * fabric
    BY <1>7, <1>8
  <2> QED
    BY <1>1, <1>3, <1>6, <2>1, <2>2, ChargedCrosses
<1> QED
  BY <1>9, <1>10

\* A stage of rounds, each of which carries a part.
LEMMA StageGrows ==
  ASSUME NEW m \in Nat, NEW alpha \in Nat, NEW d \in Nat, d # 0, NEW x \in Nat, NEW y \in Nat,
         x <= y
  PROVE  /\ m * (alpha + x \div d) \in Nat /\ m * (alpha + y \div d) \in Nat
         /\ m * (alpha + x \div d) <= m * (alpha + y \div d)
<1> DEFINE p == x \div d
           q == y \div d
<1>1. p \in Nat /\ q \in Nat /\ p <= q
  BY QuotientRises
<1> HIDE DEF p, q
<1>2. m * (alpha + p) \in Nat /\ m * (alpha + q) \in Nat /\ m * (alpha + p) <= m * (alpha + q)
  BY <1>1, ProductRises
<1> QED
  BY <1>2 DEF p, q

\* The stages within and between nodes, for an exchange of any kind.
LEMMA HierarchiesGrow ==
  ASSUME NEW hw, LinksTyped(hw), NEW n \in Nat, n > 1, NEW a \in Nat, NEW b \in Nat, a <= b
  PROVE  /\ HierarchicalAllGather(hw, n, a) \in Nat /\ HierarchicalAllGather(hw, n, b) \in Nat
         /\ HierarchicalAllGather(hw, n, a) <= HierarchicalAllGather(hw, n, b)
         /\ HierarchicalAllToAll(hw, n, a) \in Nat /\ HierarchicalAllToAll(hw, n, b) \in Nat
         /\ HierarchicalAllToAll(hw, n, a) <= HierarchicalAllToAll(hw, n, b)
<1> DEFINE t     == hw.topology
           n1    == t.nodeSize
           n2    == Nodes(hw, n)
           intra == IntraByte(hw, n1, Anywhere)
           inter == InterByte(hw)
           near  == t.stepLatency
           far   == t.interLatency
           m1    == n1 - 1
           m2    == n2 - 1
<1>1. n1 \in Nat /\ n1 # 0 /\ near \in Nat /\ far \in Nat /\ t.interLink \in Nat /\ hw.commEff \in Nat
  BY DEF LinksTyped
<1>2. n2 \in Nat /\ n2 # 0
  <2>1. n2 = (n + n1 - 1) \div n1
    BY DEF Nodes
  <2> HIDE DEF n1, n2
  <2>2. (n + n1 - 1) \div n1 \in Nat /\ n1 * ((n + n1 - 1) \div n1) > n - 1
    BY <1>1
  <2> QED
    BY <1>1, <2>1, <2>2
<1>3. intra \in Nat
  <2>1. Anywhere = At("concentrated")
    BY DEF Anywhere, At
  <2> HIDE DEF n1
  <2> QED
    BY <1>1, <2>1, LinksShared
<1>4. inter \in Nat
  <2>1. inter = t.interLink * hw.commEff
    BY DEF InterByte
  <2> QED
    BY <1>1, <2>1
<1>5. \A c : /\ HierarchicalAllGather(hw, n, c)
               = m1 * (near + (c * intra) \div (n1 * n2)) + m2 * (far + (c * inter) \div n2)
            /\ HierarchicalAllToAll(hw, n, c)
               = m1 * (near + (c * intra) \div (n1 * n1))
                   + m2 * (far + (c * n1 * inter) \div (n * n))
  BY DEF HierarchicalAllGather, HierarchicalAllToAll
<1>6. m1 \in Nat /\ m2 \in Nat
  BY <1>1, <1>2
<1> HIDE DEF t, n1, n2, intra, inter, near, far, m1, m2
<1>7. /\ a * intra \in Nat /\ b * intra \in Nat /\ a * intra <= b * intra
      /\ a * inter \in Nat /\ b * inter \in Nat /\ a * inter <= b * inter
      /\ a * n1 \in Nat /\ b * n1 \in Nat /\ a * n1 <= b * n1
  BY <1>1, <1>3, <1>4, ProductRises
<1>8. a * n1 * inter \in Nat /\ b * n1 * inter \in Nat /\ a * n1 * inter <= b * n1 * inter
  BY <1>4, <1>7, ProductRises
<1>9. /\ n1 * n2 \in Nat /\ n1 * n2 # 0 /\ n1 * n1 \in Nat /\ n1 * n1 # 0
      /\ n * n \in Nat /\ n * n # 0
  BY <1>1, <1>2
<1> DEFINE Near(x, d) == m1 * (near + x \div d)
           Far(x, d)  == m2 * (far + x \div d)
<1>10. /\ \A d \in {n1 * n2, n1 * n1} :
            /\ Near(a * intra, d) \in Nat /\ Near(b * intra, d) \in Nat
            /\ Near(a * intra, d) <= Near(b * intra, d)
  BY <1>1, <1>6, <1>7, <1>9, StageGrows
<1>11. /\ Far(a * inter, n2) \in Nat /\ Far(b * inter, n2) \in Nat
       /\ Far(a * inter, n2) <= Far(b * inter, n2)
  BY <1>1, <1>2, <1>6, <1>7, StageGrows
<1>12. /\ Far(a * n1 * inter, n * n) \in Nat /\ Far(b * n1 * inter, n * n) \in Nat
       /\ Far(a * n1 * inter, n * n) <= Far(b * n1 * inter, n * n)
  BY <1>1, <1>6, <1>8, <1>9, StageGrows
<1>13. \A c : /\ HierarchicalAllGather(hw, n, c) = Near(c * intra, n1 * n2) + Far(c * inter, n2)
             /\ HierarchicalAllToAll(hw, n, c)
                  = Near(c * intra, n1 * n1) + Far(c * n1 * inter, n * n)
  BY <1>5
<1> HIDE DEF Near, Far
<1> QED
  BY <1>10, <1>11, <1>12, <1>13

\* What takes a time over several nodes.
LEMMA TakesGrows ==
  ASSUME NEW hw, NEW type, NEW n, NEW a, NEW b, NEW hint, NEW x, NEW y, x <= y,
         Price(hw, type, n, a, hint) = Takes(x), Price(hw, type, n, b, hint) = Takes(y)
  PROVE  Grows(hw, type, n, a, b, hint)
<1>1. Takes(x).time = x /\ Takes(y).time = y
  BY DEF Takes
<1> QED
  BY <1>1 DEF Grows

\* A ring within a node, two stages over several.
LEMMA AllGatherRespects ==
  ASSUME NEW hw, LinksTyped(hw), NEW n \in Nat, n > 1, NEW a \in Nat, a # 0, NEW b \in Nat, a <= b,
         NEW hint
  PROVE  /\ Grows(hw, "allgather", n, a, b, hint)
         /\ n <= hw.topology.nodeSize => Crosses(hw, "allgather", n, a, hint)
<1> DEFINE byte   == IntraByte(hw, n, At(hint))
           fabric == FabricByte(hw, n, At(hint))
           alpha  == hw.topology.stepLatency
           m      == n - 1
           x      == Hops(m, a, alpha, byte)
           y      == Hops(m, b, alpha, byte)
<1>1. /\ fabric \in Nat /\ byte \in Nat /\ fabric <= byte /\ (fabric = 0 => byte = 0)
      /\ alpha \in Nat /\ b # 0 /\ m \in Nat
  <2>1. fabric \in Nat /\ byte \in Nat /\ fabric <= byte /\ (fabric = 0 => byte = 0)
    BY LinksShared
  <2>2. alpha \in Nat
    BY DEF LinksTyped
  <2>3. b # 0 /\ m \in Nat
    OBVIOUS
  <2> QED
    BY <2>1, <2>2, <2>3
<1>2. \A c \in Nat : c # 0 =>
        Price(hw, "allgather", n, c, hint)
          = IF IsCrossNode(n, hw) THEN Takes(HierarchicalAllGather(hw, n, c) + 0)
            ELSE IF byte = 0 THEN Infinite
            ELSE Charged(hw, "allgather", "cudagraph", Hops(m, c, alpha, byte))
  <2> SUFFICES ASSUME NEW c \in Nat, c # 0
               PROVE  Price(hw, "allgather", n, c, hint)
                        = IF IsCrossNode(n, hw) THEN Takes(HierarchicalAllGather(hw, n, c) + 0)
                          ELSE IF byte = 0 THEN Infinite
                          ELSE Charged(hw, "allgather", "cudagraph", Hops(m, c, alpha, byte))
    OBVIOUS
  <2>1. Price(hw, "allgather", n, c, hint) = TimeAt(hw, Message("allgather", n, c), At(hint))
    BY PriceIs DEF Collectives
  <2>2. TimeAt(hw, Message("allgather", n, c), At(hint))
          = AllGatherTime(hw, n, c, "cudagraph", At(hint))
    BY DEF TimeAt, Message
  <2>3. c > 0 /\ ~ c <= 0 /\ ~ n <= 1
    OBVIOUS
  <2>4. FrameworkOverhead(hw, "allgather", "cudagraph") = 0
    BY DEF FrameworkOverhead
  <2> QED
    BY <2>1, <2>2, <2>3, <2>4, Zenon DEF AllGatherTime
<1>3. /\ x \in Nat /\ y \in Nat /\ x <= y /\ m * (a * byte) <= x
  <2> HIDE DEF byte, alpha, m
  <2> QED
    BY <1>1, HopsGrow
<1> HIDE DEF x, y
<1>4. Grows(hw, "allgather", n, a, b, hint)
  <2>1. CASE IsCrossNode(n, hw)
    <3> DEFINE u == HierarchicalAllGather(hw, n, a)
               v == HierarchicalAllGather(hw, n, b)
    <3>1. u \in Nat /\ v \in Nat /\ u <= v
      BY HierarchiesGrow
    <3>2. /\ Price(hw, "allgather", n, a, hint) = Takes(u + 0)
          /\ Price(hw, "allgather", n, b, hint) = Takes(v + 0)
      BY <1>1, <1>2, <2>1
    <3> HIDE DEF u, v
    <3>3. u + 0 <= v + 0
      BY <3>1
    <3> QED
      BY <3>2, <3>3, TakesGrows
  <2>2. CASE ~ IsCrossNode(n, hw)
    <3>1. /\ Price(hw, "allgather", n, a, hint)
               = IF byte = 0 THEN Infinite ELSE Charged(hw, "allgather", "cudagraph", x)
          /\ Price(hw, "allgather", n, b, hint)
               = IF byte = 0 THEN Infinite ELSE Charged(hw, "allgather", "cudagraph", y)
      BY <1>1, <1>2, <2>2 DEF x, y
    <3> HIDE DEF byte
    <3> QED
      BY <1>3, <3>1, ChargedGrows
  <2> QED
    BY <2>1, <2>2
<1>5. ASSUME n <= hw.topology.nodeSize PROVE Crosses(hw, "allgather", n, a, hint)
  <2>1. ~ IsCrossNode(n, hw)
    <3>1. hw.topology.nodeSize \in Nat
      BY DEF LinksTyped
    <3> QED
      BY <1>5, <3>1 DEF IsCrossNode
  <2>2. Price(hw, "allgather", n, a, hint)
          = IF byte = 0 THEN Infinite ELSE Charged(hw, "allgather", "cudagraph", x)
    BY <1>2, <2>1 DEF x
  <2>3. Crossing("allgather", n, a) = n * (n - 1) * a
    BY DEF Crossing
  <2>4. n * (n - 1) * a * fabric \in Nat /\ n * x >= n * (n - 1) * a * fabric
    <3>1. a * fabric \in Nat /\ a * byte \in Nat /\ a * fabric <= a * byte
      BY <1>1, ProductRises
    <3> DEFINE u == a * fabric
               v == a * byte
               w == m * u
    <3>2. n * (n - 1) * a * fabric = n * w
      <4>1. n * (n - 1) * a * fabric = n * ((n - 1) * (a * fabric))
        BY <1>1
      <4> QED
        BY <4>1
    <3>3. w \in Nat /\ w <= x
      <4> HIDE DEF m, u, v
      <4>1. w \in Nat /\ m * v \in Nat /\ w <= m * v
        BY <1>1, <3>1, ProductRises DEF u, v
      <4>2. m * v <= x
        BY <1>3 DEF v
      <4> QED
        BY <1>3, <4>1, <4>2
    <3> HIDE DEF w
    <3>4. n * w \in Nat /\ n * w <= n * x
      BY <1>3, <3>3, ProductRises
    <3> QED
      BY <3>2, <3>4
  <2>5. fabric = FabricByte(hw, IF "allgather" = "p2p" THEN 1 ELSE n, At(hint))
    OBVIOUS
  <2> HIDE DEF fabric, byte
  <2> QED
    BY <1>1, <1>3, <2>2, <2>3, <2>4, <2>5, ChargedCrosses
<1> QED
  BY <1>4, <1>5

\* Every pair of ranks exchanges a part, within a node or in two stages.
LEMMA AllToAllRespects ==
  ASSUME NEW hw, LinksTyped(hw), NEW n \in Nat, n > 1, NEW a \in Nat, a # 0, NEW b \in Nat, a <= b,
         NEW hint
  PROVE  /\ Grows(hw, "alltoall", n, a, b, hint)
         /\ n <= hw.topology.nodeSize /\ a % n = 0 => Crosses(hw, "alltoall", n, a, hint)
<1> DEFINE byte   == IntraByte(hw, n, At(hint))
           fabric == FabricByte(hw, n, At(hint))
           alpha  == hw.topology.stepLatency
           nccl   == "nccl" \in DOMAIN hw.communication
           v2     == nccl /\ fabric > 0
           p      == hw.communication["nccl"].alltoall
           k      == IF n > 4 THEN p.contention ELSE 1
           F(c)   == Parts(n, c, p.alpha, fabric * p.scale)
           Pair(c) == F(c) * k
           G(c)   == Parts(n, c, alpha, byte)
           H(c)   == HierarchicalAllToAll(hw, n, c)
           cross  == IsCrossNode(n, hw)
<1>1. /\ fabric \in Nat /\ byte \in Nat /\ fabric <= byte /\ (fabric = 0 => byte = 0)
      /\ alpha \in Nat /\ b # 0
  <2>1. fabric \in Nat /\ byte \in Nat /\ fabric <= byte /\ (fabric = 0 => byte = 0)
    BY LinksShared
  <2>2. alpha \in Nat
    BY DEF LinksTyped
  <2>3. b # 0
    OBVIOUS
  <2> QED
    BY <2>1, <2>2, <2>3
<1>2. \A c \in Nat : c # 0 =>
        Price(hw, "alltoall", n, c, hint)
          = IF cross THEN Takes(H(c) + 0)
            ELSE IF v2 THEN Charged(hw, "alltoall", "cudagraph", Pair(c))
            ELSE IF byte = 0 THEN Infinite
            ELSE Charged(hw, "alltoall", "cudagraph", G(c))
  <2> SUFFICES ASSUME NEW c \in Nat, c # 0
               PROVE  Price(hw, "alltoall", n, c, hint)
                        = IF cross THEN Takes(H(c) + 0)
                          ELSE IF v2 THEN Charged(hw, "alltoall", "cudagraph", Pair(c))
                          ELSE IF byte = 0 THEN Infinite
                          ELSE Charged(hw, "alltoall", "cudagraph", G(c))
    OBVIOUS
  <2>1. Price(hw, "alltoall", n, c, hint) = TimeAt(hw, Message("alltoall", n, c), At(hint))
    BY PriceIs DEF Collectives
  <2>2. TimeAt(hw, Message("alltoall", n, c), At(hint))
          = AllToAllTime(hw, n, c, "cudagraph", At(hint))
    BY DEF TimeAt, Message
  <2>3. c > 0 /\ ~ c <= 0 /\ ~ n <= 1
    OBVIOUS
  <2>4. FrameworkOverhead(hw, "alltoall", "cudagraph") = 0
    BY DEF FrameworkOverhead
  <2>5. PairwiseV2(hw, n, c, At(hint)) = Pair(c)
    BY DEF PairwiseV2
  <2>6. AllToAllTime(hw, n, c, "cudagraph", At(hint))
          = IF cross THEN Takes(H(c) + FrameworkOverhead(hw, "alltoall", "cudagraph"))
            ELSE IF v2 THEN Charged(hw, "alltoall", "cudagraph", PairwiseV2(hw, n, c, At(hint)))
            ELSE IF byte = 0 THEN Infinite
            ELSE Charged(hw, "alltoall", "cudagraph", G(c))
    <3> HIDE DEF Pair, F
    <3> QED
      BY <2>3, Zenon DEF AllToAllTime
  <2> QED
    BY <2>1, <2>2, <2>4, <2>5, <2>6
<1>3. ASSUME nccl, fabric > 0
      PROVE  /\ Pair(a) \in Nat /\ Pair(b) \in Nat /\ Pair(a) <= Pair(b)
             /\ a % n = 0 => n * Pair(a) >= (n - 1) * a * fabric /\ (n - 1) * a * fabric \in Nat
  <2> DEFINE s == fabric * p.scale
  <2>1. p.alpha \in Nat /\ p.scale \in Nat /\ p.scale # 0 /\ k \in Nat /\ k # 0
    BY <1>3 DEF LinksTyped
  <2>2. s \in Nat /\ fabric <= s
    <3> HIDE DEF fabric, p
    <3> QED
      BY <1>1, <2>1, ProductCovers
  <2>3. /\ F(a) \in Nat /\ F(b) \in Nat /\ F(a) <= F(b)
        /\ a % n = 0 => n * F(a) >= (n - 1) * a * s
    <3> HIDE DEF s, p
    <3>1. /\ Parts(n, a, p.alpha, s) \in Nat /\ Parts(n, b, p.alpha, s) \in Nat
          /\ Parts(n, a, p.alpha, s) <= Parts(n, b, p.alpha, s)
          /\ a % n = 0 => n * Parts(n, a, p.alpha, s) >= (n - 1) * a * s
      BY <2>1, <2>2, PartsGrow
    <3> QED
      BY <3>1 DEF s
  <2> DEFINE x == F(a)
             y == F(b)
             m == (n - 1) * a
  <2>4. m \in Nat
    OBVIOUS
  <2>5. m * fabric \in Nat /\ m * s \in Nat /\ m * fabric <= m * s
    <3> HIDE DEF m, s, fabric
    <3> QED
      BY <1>1, <2>2, <2>4, ProductRises
  <2> HIDE DEF s, fabric, k, F
  <2>6. x \in Nat /\ y \in Nat /\ x <= y
    BY <2>3
  <2> HIDE DEF x, y
  <2>7. x * k \in Nat /\ y * k \in Nat /\ x * k <= y * k /\ x <= x * k
    BY <2>1, <2>6, ProductCovers, ProductRises
  <2>8. Pair(a) = x * k /\ Pair(b) = y * k
    BY DEF x, y
  <2>9. ASSUME a % n = 0 PROVE n * (x * k) >= m * fabric
    <3>1. n * x >= m * s /\ n * x \in Nat
      BY <2>3, <2>6, <2>9 DEF x, m
    <3>2. n * x <= n * (x * k) /\ n * (x * k) \in Nat
      BY <2>6, <2>7, ProductRises
    <3> HIDE DEF m
    <3> QED
      BY <2>5, <3>1, <3>2
  <2> HIDE DEF Pair
  <2> QED
    BY <2>5, <2>7, <2>8, <2>9
<1>4. /\ G(a) \in Nat /\ G(b) \in Nat /\ G(a) <= G(b)
      /\ a % n = 0 => n * G(a) >= (n - 1) * a * byte
  <2> HIDE DEF byte, alpha
  <2> QED
    BY <1>1, PartsGrow
<1>5. (n - 1) * a * fabric \in Nat /\ (n - 1) * a * byte \in Nat
      /\ (n - 1) * a * fabric <= (n - 1) * a * byte
  <2> DEFINE m == (n - 1) * a
  <2>1. m \in Nat
    OBVIOUS
  <2> HIDE DEF m, fabric, byte
  <2>2. m * fabric \in Nat /\ m * byte \in Nat /\ m * fabric <= m * byte
    BY <1>1, <2>1, ProductRises
  <2> QED
    BY <2>2 DEF m
<1>6. /\ HierarchicalAllToAll(hw, n, a) \in Nat /\ HierarchicalAllToAll(hw, n, b) \in Nat
      /\ HierarchicalAllToAll(hw, n, a) <= HierarchicalAllToAll(hw, n, b)
  BY HierarchiesGrow
<1> DEFINE pa == Price(hw, "alltoall", n, a, hint)
           pb == Price(hw, "alltoall", n, b, hint)
<1>7. /\ pa = IF cross THEN Takes(H(a) + 0)
              ELSE IF v2 THEN Charged(hw, "alltoall", "cudagraph", Pair(a))
              ELSE IF byte = 0 THEN Infinite
              ELSE Charged(hw, "alltoall", "cudagraph", G(a))
      /\ pb = IF cross THEN Takes(H(b) + 0)
              ELSE IF v2 THEN Charged(hw, "alltoall", "cudagraph", Pair(b))
              ELSE IF byte = 0 THEN Infinite
              ELSE Charged(hw, "alltoall", "cudagraph", G(b))
  <2> HIDE DEF Pair, G, H, byte, v2, cross
  <2> QED
    BY <1>1, <1>2
<1> HIDE DEF Pair, G, byte
<1>8. Grows(hw, "alltoall", n, a, b, hint)
  <2>1. CASE cross
    <3> DEFINE u == H(a)
               v == H(b)
    <3>1. u \in Nat /\ v \in Nat /\ u <= v
      BY <1>6
    <3>2. pa = Takes(u + 0) /\ pb = Takes(v + 0)
      BY <1>7, <2>1
    <3> HIDE DEF u, v, H
    <3>3. u + 0 <= v + 0
      BY <3>1
    <3> QED
      BY <3>2, <3>3, TakesGrows
  <2> HIDE DEF cross, H
  <2>2. CASE ~ cross /\ v2
    <3>1. fabric # 0 /\ nccl /\ fabric > 0
      BY <2>2
    <3>2. pa = Charged(hw, "alltoall", "cudagraph", Pair(a))
          /\ pb = Charged(hw, "alltoall", "cudagraph", Pair(b))
      BY <1>7, <2>2
    <3> HIDE DEF fabric
    <3>3. /\ pa = IF fabric = 0 THEN Infinite ELSE Charged(hw, "alltoall", "cudagraph", Pair(a))
          /\ pb = IF fabric = 0 THEN Infinite ELSE Charged(hw, "alltoall", "cudagraph", Pair(b))
      BY <3>1, <3>2
    <3> QED
      BY <1>3, <3>1, <3>3, ChargedGrows
  <2>3. CASE ~ cross /\ ~ v2
    <3>1. /\ pa = IF byte = 0 THEN Infinite ELSE Charged(hw, "alltoall", "cudagraph", G(a))
          /\ pb = IF byte = 0 THEN Infinite ELSE Charged(hw, "alltoall", "cudagraph", G(b))
      BY <1>7, <2>3
    <3> QED
      BY <1>4, <3>1, ChargedGrows
  <2> QED
    BY <2>1, <2>2, <2>3
<1>9. ASSUME n <= hw.topology.nodeSize, a % n = 0 PROVE Crosses(hw, "alltoall", n, a, hint)
  <2>1. ~ cross
    <3>1. hw.topology.nodeSize \in Nat
      BY DEF LinksTyped
    <3> QED
      BY <1>9, <3>1 DEF IsCrossNode
  <2>2. Crossing("alltoall", n, a) = (n - 1) * a
    BY DEF Crossing
  <2>3. fabric = FabricByte(hw, IF "alltoall" = "p2p" THEN 1 ELSE n, At(hint))
    OBVIOUS
  <2> HIDE DEF cross, H
  <2>4. CASE v2
    <3>1. fabric # 0 /\ nccl /\ fabric > 0
      BY <2>4
    <3>2. pa = Charged(hw, "alltoall", "cudagraph", Pair(a))
      BY <1>7, <2>1, <2>4
    <3> HIDE DEF fabric
    <3>3. pa = IF fabric = 0 THEN Infinite ELSE Charged(hw, "alltoall", "cudagraph", Pair(a))
      BY <3>1, <3>2
    <3>4. n * Pair(a) >= Crossing("alltoall", n, a) * fabric
          /\ Crossing("alltoall", n, a) * fabric \in Nat
      BY <1>3, <1>5, <1>9, <2>2, <3>1
    <3> QED
      BY <1>1, <1>3, <2>3, <3>1, <3>3, <3>4, ChargedCrosses
  <2>5. CASE ~ v2
    <3>1. pa = IF byte = 0 THEN Infinite ELSE Charged(hw, "alltoall", "cudagraph", G(a))
      BY <1>7, <2>1, <2>5
    <3> HIDE DEF fabric
    <3>2. n * G(a) >= Crossing("alltoall", n, a) * fabric
          /\ Crossing("alltoall", n, a) * fabric \in Nat
      <4>1. n * G(a) >= (n - 1) * a * byte /\ n * G(a) \in Nat
        BY <1>4, <1>9
      <4> DEFINE u == (n - 1) * a * fabric
                 v == (n - 1) * a * byte
                 w == n * G(a)
      <4>2. w >= u /\ u \in Nat
        <5>1. u \in Nat /\ v \in Nat /\ u <= v /\ w >= v /\ w \in Nat
          BY <1>5, <4>1
        <5> HIDE DEF u, v, w
        <5> QED
          BY <5>1
      <4> QED
        BY <2>2, <4>2
    <3> QED
      BY <1>1, <1>4, <2>3, <3>1, <3>2, ChargedCrosses
  <2> QED
    BY <2>4, <2>5
<1> QED
  BY <1>8, <1>9

\* The candidates of a list.
Among(list) == {list[i] : i \in DOMAIN list}

\* Joined lists offer what either does.
LEMMA AmongJoined ==
  ASSUME NEW s, NEW t, IsSeq(s), IsSeq(t)
  PROVE  IsSeq(s \o t) /\ Among(s \o t) = Among(s) \cup Among(t)
<1>1. /\ IsSeq(s \o t) /\ Len(s) \in Nat /\ Len(t) \in Nat
      /\ DOMAIN (s \o t) = 1..(Len(s) + Len(t))
      /\ DOMAIN s = 1..Len(s) /\ DOMAIN t = 1..Len(t)
      /\ \A i \in 1..Len(s) : (s \o t)[i] = s[i]
      /\ \A i \in 1..Len(t) : (s \o t)[Len(s) + i] = t[i]
  BY Joined
<1> DEFINE st == s \o t
           k  == Len(s)
           l  == Len(t)
<1>2. /\ k \in Nat /\ l \in Nat /\ DOMAIN st = 1..(k + l) /\ DOMAIN s = 1..k /\ DOMAIN t = 1..l
      /\ \A i \in 1..k : st[i] = s[i]
      /\ \A i \in 1..l : st[k + i] = t[i]
  BY <1>1
<1> HIDE DEF st, k, l
<1>3. ASSUME NEW i \in DOMAIN st PROVE st[i] \in Among(s) \cup Among(t)
  <2>1. CASE i <= k
    BY <1>2, <2>1 DEF Among
  <2>2. CASE ~ i <= k
    <3>1. i - k \in 1..l /\ k + (i - k) = i
      BY <1>2, <2>2
    <3>2. st[i] = t[i - k] /\ i - k \in DOMAIN t
      BY <1>2, <3>1
    <3> QED
      BY <3>2 DEF Among
  <2> QED
    BY <2>1, <2>2
<1>4. ASSUME NEW i \in DOMAIN s PROVE s[i] \in Among(st)
  <2>1. i \in DOMAIN st /\ st[i] = s[i]
    BY <1>2
  <2> QED
    BY <2>1 DEF Among
<1>5. ASSUME NEW i \in DOMAIN t PROVE t[i] \in Among(st)
  <2>1. k + i \in DOMAIN st /\ st[k + i] = t[i]
    BY <1>2
  <2> QED
    BY <2>1 DEF Among
<1>6. Among(st) = Among(s) \cup Among(t)
  BY <1>3, <1>4, <1>5 DEF Among
<1> QED
  BY <1>1, <1>6 DEF st

\* Without a bias, a candidate is selected that takes no longer than another.
LEMMA FastestSelected ==
  ASSUME NEW list, IsSeq(list), list # <<>>,
         \A e \in Among(list) : e.time \in Nat /\ e.algo # "auto"
  PROVE  LET taken == Selected(list, <<>>, "auto")
         IN  taken \in Among(list) /\ \A e \in Among(list) : taken.time <= e.time
<1> DEFINE D == DOMAIN list
           t == [i \in D |-> list[i].time]
           T == {t[i] : i \in D}
           Best(i) == \A j \in D : t[i] < t[j] \/ (t[i] = t[j] /\ i <= j)
           first   == CHOOSE i \in D : Best(i)
<1>1. IsFiniteSet(D) /\ D # {} /\ D \subseteq Nat
  <2>1. list \in Seq(Among(list))
    BY DEF IsSeq, Among
  <2>2. Len(list) \in Nat /\ D = 1..Len(list) /\ Len(list) # 0
    BY <2>1
  <2>3. IsFiniteSet(D)
    BY <2>2, FS_Interval
  <2> HIDE DEF D
  <2>4. 1 \in D /\ D \subseteq Nat
    BY <2>2
  <2> QED
    BY <2>3, <2>4
<1>2. \A i \in D : t[i] \in Nat /\ list[i].algo # "auto" /\ list[i] \in Among(list)
  BY DEF Among
<1> HIDE DEF t
<1>3. \E i \in D : Best(i)
  <2>1. IsFiniteSet(T)
    <3> HIDE DEF D
    <3> QED
      BY <1>1, FiniteImage
  <2>2. T # {} /\ T \subseteq Int
    BY <1>1, <1>2
  <2>3. Min(T) \in T /\ \A x \in T : Min(T) <= x
    <3> HIDE DEF T
    <3> QED
      BY <2>1, <2>2, MinIn
  <2> DEFINE I == {i \in D : t[i] = Min(T)}
  <2>4. I \subseteq D /\ I # {}
    BY <2>3
  <2>5. IsFiniteSet(I) /\ I \subseteq Int
    <3> HIDE DEF I
    <3> QED
      BY <1>1, <2>4, FS_Subset
  <2>6. Min(I) \in I /\ \A x \in I : Min(I) <= x
    <3> HIDE DEF I
    <3> QED
      BY <2>4, <2>5, MinIn
  <2> DEFINE i == Min(I)
  <2>7. i \in D /\ t[i] = Min(T)
    BY <2>6
  <2>8. ASSUME NEW j \in D PROVE t[i] < t[j] \/ (t[i] = t[j] /\ i <= j)
    <3>1. t[i] <= t[j] /\ t[i] \in Nat /\ t[j] \in Nat
      BY <1>2, <2>3, <2>7
    <3>2. CASE t[i] = t[j]
      BY <2>6, <2>7, <3>2
    <3>3. CASE t[i] # t[j]
      <4> HIDE DEF i
      <4> QED
        BY <3>1, <3>3
    <3> QED
      BY <3>2, <3>3
  <2> HIDE DEF i
  <2> QED
    BY <2>7, <2>8
<1>4. first \in D /\ Best(first)
  BY <1>3
<1>5. Selected(list, <<>>, "auto") = list[first]
  <2> DEFINE forced == {i \in DOMAIN list : list[i].algo = "auto"}
             Biased(i) == list[i].time * (IF list[i].algo \in DOMAIN <<>>
                                            THEN <<>>[list[i].algo] ELSE 1)
             Least(i) == \A j \in DOMAIN list :
                           Biased(i) < Biased(j) \/ (Biased(i) = Biased(j) /\ i <= j)
  <2>1. forced = {}
    BY <1>2
  <2>2. \A i \in D : Biased(i) = t[i]
    <3>1. DOMAIN <<>> = {}
      OBVIOUS
    <3>2. \A i \in D : t[i] = list[i].time
      BY DEF t
    <3> QED
      BY <1>2, <3>1, <3>2
  <2>3. Selected(list, <<>>, "auto")
          = list[IF forced # {} THEN CHOOSE i \in forced : TRUE
                 ELSE CHOOSE i \in DOMAIN list : Least(i)]
    BY Zenon DEF Selected
  <2> HIDE DEF Biased, forced
  <2>4. \A i \in D : Least(i) <=> Best(i)
    BY <2>2
  <2> HIDE DEF Least, Best
  <2>5. (CHOOSE i \in D : Least(i)) = (CHOOSE i \in D : Best(i))
    BY <2>4
  <2> QED
    BY <2>1, <2>3, <2>5
<1> HIDE DEF first
<1>6. \A j \in D : t[first] <= t[j]
  BY <1>2, <1>4
<1>7. \A e \in Among(list) : list[first].time <= e.time
  <2>1. \A j \in D : t[j] = list[j].time
    BY DEF t
  <2> QED
    BY <1>4, <1>6, <2>1 DEF Among
<1> QED
  BY <1>2, <1>4, <1>5, <1>7

\* What reduces in a tree, in a ring or inside the switch takes.
TreeTime(n, bytes, alpha, byte, scale) ==
  2 * AtLeast1(Depth(n)) * alpha + 2 * bytes * byte * scale
RingTime(n, bytes, alpha, byte, scale) ==
  2 * (n - 1) * alpha + (2 * (n - 1) * bytes * byte * scale) \div n
SwitchTime(n, bytes, alpha, byte) == 2 * alpha + (bytes * byte) \div n

\* A tree carries every byte up and down.
LEMMA TreeGrows ==
  ASSUME NEW n \in Nat, n > 1, NEW alpha \in Nat, NEW byte \in Nat, NEW scale \in Nat, scale # 0,
         NEW a \in Nat, NEW b \in Nat, a <= b
  PROVE  /\ TreeTime(n, a, alpha, byte, scale) \in Nat /\ TreeTime(n, b, alpha, byte, scale) \in Nat
         /\ TreeTime(n, a, alpha, byte, scale) <= TreeTime(n, b, alpha, byte, scale)
         /\ 2 * (n - 1) * a * byte \in Nat
         /\ n * TreeTime(n, a, alpha, byte, scale) >= 2 * (n - 1) * a * byte
<1> DEFINE s == 2 * AtLeast1(Depth(n)) * alpha
           x == a * byte
           y == b * byte
<1>1. s \in Nat
  <2>1. AtLeast1(Depth(n)) \in Nat
    BY DepthTyped DEF AtLeast1
  <2> DEFINE d == AtLeast1(Depth(n))
  <2> HIDE DEF d
  <2>2. 2 * d * alpha \in Nat
    BY <2>1 DEF d
  <2> QED
    BY <2>2 DEF d
<1>2. x \in Nat /\ y \in Nat /\ x <= y
  BY ProductRises
<1>3. TreeTime(n, a, alpha, byte, scale) = s + 2 * a * byte * scale
      /\ TreeTime(n, b, alpha, byte, scale) = s + 2 * b * byte * scale
  BY DEF TreeTime
<1>4. 2 * a * byte * scale = 2 * (x * scale) /\ 2 * b * byte * scale = 2 * (y * scale)
      /\ 2 * (n - 1) * a * byte = 2 * (n - 1) * x
  OBVIOUS
<1> HIDE DEF s, x, y
<1>5. x * scale \in Nat /\ y * scale \in Nat /\ x * scale <= y * scale /\ x <= x * scale
  BY <1>2, ProductRises, ProductCovers
<1> DEFINE p == x * scale
           q == y * scale
<1>6. p \in Nat /\ q \in Nat /\ p <= q /\ x <= p
  BY <1>5
<1>7. TreeTime(n, a, alpha, byte, scale) = s + 2 * p
      /\ TreeTime(n, b, alpha, byte, scale) = s + 2 * q
  BY <1>3, <1>4
<1> HIDE DEF p, q
<1>8. 2 * (n - 1) * x \in Nat /\ 2 * (n - 1) * x <= n * (s + 2 * p)
  <2>1. 2 * (n - 1) * x = (2 * n) * x - 2 * x /\ n * (2 * x) = (2 * n) * x
    BY <1>2
  <2>2. n * (2 * x) \in Nat /\ n * (2 * x) <= n * (s + 2 * p)
    <3>1. 2 * x \in Nat /\ s + 2 * p \in Nat /\ 2 * x <= s + 2 * p
      BY <1>1, <1>2, <1>6
    <3> QED
      BY <3>1, ProductRises
  <2>3. 2 * (n - 1) * x \in Nat
    BY <1>2
  <2>4. n * (s + 2 * p) \in Nat
    BY <1>1, <1>6
  <2> QED
    BY <1>2, <2>1, <2>2, <2>3, <2>4
<1>9. s + 2 * p \in Nat /\ s + 2 * q \in Nat /\ s + 2 * p <= s + 2 * q
  BY <1>1, <1>6
<1> QED
  BY <1>4, <1>7, <1>8, <1>9

\* A ring carries all but one of n parts twice.
LEMMA RingGrows ==
  ASSUME NEW n \in Nat, n > 1, NEW alpha \in Nat, NEW byte \in Nat, NEW scale \in Nat, scale # 0,
         NEW a \in Nat, NEW b \in Nat, a <= b
  PROVE  /\ RingTime(n, a, alpha, byte, scale) \in Nat /\ RingTime(n, b, alpha, byte, scale) \in Nat
         /\ RingTime(n, a, alpha, byte, scale) <= RingTime(n, b, alpha, byte, scale)
         /\ a % n = 0 => n * RingTime(n, a, alpha, byte, scale) >= 2 * (n - 1) * a * byte
<1> DEFINE double == 2 * byte * scale
<1>1. double \in Nat /\ 2 * alpha \in Nat
  OBVIOUS
<1>2. \A c \in Nat : RingTime(n, c, alpha, byte, scale) = Parts(n, c, 2 * alpha, double)
  <2> SUFFICES ASSUME NEW c \in Nat
               PROVE  RingTime(n, c, alpha, byte, scale) = Parts(n, c, 2 * alpha, double)
    OBVIOUS
  <2> DEFINE m == n - 1
  <2>1. m \in Nat
    OBVIOUS
  <2> HIDE DEF m
  <2>2. 2 * m * alpha = m * (2 * alpha) /\ 2 * m * c * byte * scale = m * c * (2 * byte * scale)
    BY <2>1
  <2> QED
    BY <2>2 DEF RingTime, Parts, m
<1> HIDE DEF double
<1> DEFINE x == Parts(n, a, 2 * alpha, double)
           y == Parts(n, b, 2 * alpha, double)
<1>3. /\ x \in Nat /\ y \in Nat /\ x <= y
      /\ a % n = 0 => n * x >= (n - 1) * a * double
  BY <1>1, PartsGrow
<1>4. 2 * (n - 1) * a * byte \in Nat /\ 2 * (n - 1) * a * byte <= (n - 1) * a * double
      /\ (n - 1) * a * double \in Nat
  <2> DEFINE m == n - 1
             u == 2 * m * a * byte
  <2>1. m \in Nat
    OBVIOUS
  <2> HIDE DEF m
  <2>2. u \in Nat /\ m * a * (2 * byte * scale) = u * scale
    BY <2>1
  <2> HIDE DEF u
  <2>3. u <= u * scale /\ u * scale \in Nat
    BY <2>2, ProductCovers
  <2> QED
    BY <2>2, <2>3 DEF u, m, double
<1> DEFINE need == 2 * (n - 1) * a * byte
           v    == (n - 1) * a * double
<1>5. need \in Nat /\ v \in Nat /\ need <= v /\ (a % n = 0 => n * x >= v)
  BY <1>3, <1>4
<1> HIDE DEF x, y, need, v
<1>6. n * x \in Nat /\ (a % n = 0 => n * x >= need)
  BY <1>3, <1>5
<1> QED
  BY <1>2, <1>3, <1>6 DEF x, y, need

\* A switch takes no less time for more bytes.
LEMMA SwitchGrows ==
  ASSUME NEW n \in Nat, n > 1, NEW alpha \in Nat, NEW byte \in Nat,
         NEW a \in Nat, NEW b \in Nat, a <= b
  PROVE  /\ SwitchTime(n, a, alpha, byte) \in Nat /\ SwitchTime(n, b, alpha, byte) \in Nat
         /\ SwitchTime(n, a, alpha, byte) <= SwitchTime(n, b, alpha, byte)
<1> DEFINE x == a * byte
           y == b * byte
<1>1. x \in Nat /\ y \in Nat /\ x <= y
  BY ProductRises
<1>2. SwitchTime(n, a, alpha, byte) = 2 * alpha + x \div n
      /\ SwitchTime(n, b, alpha, byte) = 2 * alpha + y \div n
  BY DEF SwitchTime
<1> HIDE DEF x, y
<1>3. x \div n \in Nat /\ y \div n \in Nat /\ x \div n <= y \div n
  BY <1>1, QuotientRises
<1> QED
  BY <1>2, <1>3

\* The candidates among which the time of an all-reduce is the least.
AllReduceList(hw, n, c, hint) == AllReduceCandidates(hw, n, c, At(hint), NONE)

Offered(guard, e) == IF guard THEN {e} ELSE {}

\* What there is to choose from, by the size of the message.
LEMMA ListedCandidates ==
  ASSUME NEW hw, NEW n \in Nat, NEW c \in Nat, NEW hint,
         FabricByte(hw, n, At(hint)) # 0
  PROVE  LET p    == NcclParams(hw)
             byte == FabricByte(hw, n, At(hint))
             list == AllReduceList(hw, n, c, hint)
         IN  /\ IsSeq(list)
             /\ Among(list) =
                  Offered(c <= p.llMax, Candidate("ll_tree", TreeTime(n, c, p.llAlpha, byte, p.llScale)))
                  \cup Offered(c <= p.ll128Max,
                               Candidate("ll128_tree", TreeTime(n, c, p.ll128Alpha, byte, p.ll128Scale)))
                  \cup {Candidate("simple_ring", RingTime(n, c, p.ringAlpha, byte, p.ringScale)),
                        Candidate("simple_tree", TreeTime(n, c, p.treeAlpha, byte, p.treeScale))}
                  \cup Offered(hw.topology.sharp /\ hw.topology.nvlsModel,
                               Candidate("nvls", SwitchTime(n, c, p.ringAlpha, byte)))
<1> DEFINE p    == NcclParams(hw)
           byte == FabricByte(hw, n, At(hint))
           list == AllReduceList(hw, n, c, hint)
           ll   == Candidate("ll_tree", TreeTime(n, c, p.llAlpha, byte, p.llScale))
           ll128 == Candidate("ll128_tree", TreeTime(n, c, p.ll128Alpha, byte, p.ll128Scale))
           ring == Candidate("simple_ring", RingTime(n, c, p.ringAlpha, byte, p.ringScale))
           tree == Candidate("simple_tree", TreeTime(n, c, p.treeAlpha, byte, p.treeScale))
           nvls == Candidate("nvls", SwitchTime(n, c, p.ringAlpha, byte))
           g1   == c <= p.llMax
           g2   == c <= p.ll128Max
           g4   == hw.topology.sharp /\ hw.topology.nvlsModel
           When(guard, l) == IF guard THEN l ELSE <<>>
           l1   == When(g1, <<ll>>)
           l2   == When(g2, <<ll128>>)
           l3   == <<ring, tree>>
           l4   == When(g4, <<nvls>>)
<1>1. list = l1 \o l2 \o l3 \o l4
  <2>1. byte # 0 /\ \A name : NONE \in {NONE, name}
    OBVIOUS
  <2> QED
    BY <2>1 DEF AllReduceList, AllReduceCandidates, TreeTime, RingTime, SwitchTime
<1> HIDE DEF list, g1, g2, g4, ll, ll128, ring, tree, nvls
<1>2. IsSeq(<<>>) /\ Among(<<>>) = {}
  BY DEF IsSeq, Among
<1>3. \A e : IsSeq(<<e>>) /\ Among(<<e>>) = {e}
  <2>1. \A e : DOMAIN <<e>> = {1} /\ <<e>>[1] = e
    OBVIOUS
  <2> QED
    BY <2>1, SeqOf1 DEF Among
<1>4. IsSeq(l3) /\ Among(l3) = {ring, tree}
  <2>1. DOMAIN l3 = {1, 2} /\ l3[1] = ring /\ l3[2] = tree
    OBVIOUS
  <2>2. IsSeq(l3)
    BY SeqOf2
  <2> HIDE DEF l3
  <2> QED
    BY <2>1, <2>2 DEF Among
<1>5. /\ IsSeq(l1) /\ Among(l1) = Offered(g1, ll)
      /\ IsSeq(l2) /\ Among(l2) = Offered(g2, ll128)
      /\ IsSeq(l4) /\ Among(l4) = Offered(g4, nvls)
  BY <1>2, <1>3 DEF Offered
<1> HIDE DEF l1, l2, l3, l4
<1>6. IsSeq(l1 \o l2) /\ Among(l1 \o l2) = Offered(g1, ll) \cup Offered(g2, ll128)
  BY <1>5, AmongJoined
<1> DEFINE l12 == l1 \o l2
<1>7. IsSeq(l12 \o l3)
      /\ Among(l12 \o l3) = Offered(g1, ll) \cup Offered(g2, ll128) \cup {ring, tree}
  <2> HIDE DEF l12
  <2> QED
    BY <1>4, <1>6, AmongJoined DEF l12
<1> DEFINE l123 == l12 \o l3
<1>8. IsSeq(l123 \o l4)
      /\ Among(l123 \o l4)
           = Offered(g1, ll) \cup Offered(g2, ll128) \cup {ring, tree} \cup Offered(g4, nvls)
  <2> HIDE DEF l123
  <2> QED
    BY <1>5, <1>7, AmongJoined DEF l123
<1> QED
  BY <1>1, <1>8 DEF list, g1, g2, g4, ll, ll128, ring, tree, nvls

\* The least of the candidates: a longer message has no candidate that a shorter
\* one has not, and each takes as long.
LEMMA AllReduceRespects ==
  ASSUME NEW hw, LinksTyped(hw), NEW n \in Nat, n > 1, NEW a \in Nat, a # 0, NEW b \in Nat, a <= b,
         NEW hint
  PROVE  /\ Grows(hw, "allreduce", n, a, b, hint)
         /\ ~ hw.topology.nvlsModel /\ a % n = 0 => Crosses(hw, "allreduce", n, a, hint)
<1> DEFINE fabric  == FabricByte(hw, n, At(hint))
           p       == NcclParams(hw)
           L1(c)   == TreeTime(n, c, p.llAlpha, fabric, p.llScale)
           L2(c)   == TreeTime(n, c, p.ll128Alpha, fabric, p.ll128Scale)
           R(c)    == RingTime(n, c, p.ringAlpha, fabric, p.ringScale)
           T(c)    == TreeTime(n, c, p.treeAlpha, fabric, p.treeScale)
           W(c)    == SwitchTime(n, c, p.ringAlpha, fabric)
           g4      == hw.topology.sharp /\ hw.topology.nvlsModel
           List(c) == AllReduceList(hw, n, c, hint)
           Among2(c) == Offered(c <= p.llMax, Candidate("ll_tree", L1(c)))
                        \cup Offered(c <= p.ll128Max, Candidate("ll128_tree", L2(c)))
                        \cup {Candidate("simple_ring", R(c)), Candidate("simple_tree", T(c))}
                        \cup Offered(g4, Candidate("nvls", W(c)))
           Taken(c) == Selected(List(c), <<>>, "auto")
           need    == 2 * (n - 1) * a * fabric
<1>1. fabric \in Nat /\ b # 0
  <2>1. fabric \in Nat
    BY LinksShared
  <2> QED
    BY <2>1
<1>2. /\ {p.llAlpha, p.llMax, p.ll128Alpha, p.ll128Max, p.ringAlpha, p.treeAlpha} \subseteq Nat
      /\ {p.llScale, p.ll128Scale, p.ringScale, p.treeScale} \subseteq Nat \ {0}
      /\ p.bias = <<>>
  BY DEF LinksTyped, Tuned
<1>3. \A c \in Nat : c # 0 =>
        Price(hw, "allreduce", n, c, hint)
          = IF List(c) = <<>> THEN Raised("ValueError")
            ELSE Charged(hw, "allreduce", "cudagraph", Taken(c).time)
  <2> SUFFICES ASSUME NEW c \in Nat, c # 0
               PROVE  Price(hw, "allreduce", n, c, hint)
                        = IF List(c) = <<>> THEN Raised("ValueError")
                          ELSE Charged(hw, "allreduce", "cudagraph", Taken(c).time)
    OBVIOUS
  <2>1. Price(hw, "allreduce", n, c, hint) = TimeAt(hw, Message("allreduce", n, c), At(hint))
    BY PriceIs DEF Collectives
  <2>2. TimeAt(hw, Message("allreduce", n, c), At(hint))
          = AllReduceTime(hw, n, c, "cudagraph", At(hint), "auto", NONE)
    BY DEF TimeAt, Message
  <2>3. c > 0 /\ n > 1 /\ ~ c <= 0 /\ ~ n <= 1
    OBVIOUS
  <2>4. p.bias = <<>> /\ List(c) = AllReduceCandidates(hw, n, c, At(hint), NONE)
    BY <1>2 DEF AllReduceList
  <2> QED
    BY <2>1, <2>2, <2>3, <2>4, Zenon DEF AllReduceTime
<1> HIDE DEF p
<1>4. /\ L1(a) \in Nat /\ L1(b) \in Nat /\ L1(a) <= L1(b) /\ n * L1(a) >= need
      /\ L2(a) \in Nat /\ L2(b) \in Nat /\ L2(a) <= L2(b) /\ n * L2(a) >= need
      /\ T(a) \in Nat /\ T(b) \in Nat /\ T(a) <= T(b) /\ n * T(a) >= need
      /\ need \in Nat
  <2> HIDE DEF fabric
  <2>1. /\ L1(a) \in Nat /\ L1(b) \in Nat /\ L1(a) <= L1(b) /\ n * L1(a) >= need /\ need \in Nat
    BY <1>1, <1>2, TreeGrows
  <2>2. /\ L2(a) \in Nat /\ L2(b) \in Nat /\ L2(a) <= L2(b) /\ n * L2(a) >= need
    BY <1>1, <1>2, TreeGrows
  <2>3. /\ T(a) \in Nat /\ T(b) \in Nat /\ T(a) <= T(b) /\ n * T(a) >= need
    BY <1>1, <1>2, TreeGrows
  <2> QED
    BY <2>1, <2>2, <2>3
<1>5. R(a) \in Nat /\ R(b) \in Nat /\ R(a) <= R(b) /\ (a % n = 0 => n * R(a) >= need)
  <2> HIDE DEF fabric
  <2> QED
    BY <1>1, <1>2, RingGrows
<1>6. W(a) \in Nat /\ W(b) \in Nat /\ W(a) <= W(b)
  <2> HIDE DEF fabric
  <2> QED
    BY <1>1, <1>2, SwitchGrows
<1> HIDE DEF L1, L2, R, T, W, need, g4
<1>7. ASSUME NEW c \in {a, b}, fabric # 0
      PROVE  /\ List(c) # <<>> /\ Taken(c) \in Among2(c)
             /\ \A e \in Among2(c) : Taken(c).time <= e.time
  <2>1. IsSeq(List(c)) /\ Among(List(c)) = Among2(c)
    <3>1. c \in Nat
      OBVIOUS
    <3> QED
      BY <1>7, <3>1, ListedCandidates DEF p, L1, L2, R, T, W, g4
  <2>2. \A e \in Among2(c) : e.time \in Nat /\ e.algo # "auto"
    <3>1. L1(c) \in Nat /\ L2(c) \in Nat /\ R(c) \in Nat /\ T(c) \in Nat /\ W(c) \in Nat
      BY <1>4, <1>5, <1>6
    <3>2. \A algo, time : Candidate(algo, time).time = time /\ Candidate(algo, time).algo = algo
      BY DEF Candidate
    <3> QED
      BY <3>1, <3>2 DEF Offered
  <2>3. Among2(c) # {}
    OBVIOUS
  <2> HIDE DEF Among2, List
  <2>4. List(c) # <<>>
    <3>1. Among(<<>>) = {}
      BY DEF Among
    <3> QED
      BY <2>1, <2>3, <3>1
  <2> QED
    BY <2>1, <2>2, <2>4, FastestSelected
<1>8. \A algo, time : Candidate(algo, time).time = time
  BY DEF Candidate
<1> DEFINE x == Taken(a).time
           y == Taken(b).time
<1>9. ASSUME fabric # 0
      PROVE  /\ x \in {L1(a), L2(a), R(a), T(a)} \cup (IF g4 THEN {W(a)} ELSE {})
             /\ a <= p.llMax => x <= L1(a)
             /\ a <= p.ll128Max => x <= L2(a)
             /\ x <= R(a) /\ x <= T(a)
             /\ g4 => x <= W(a)
  <2> HIDE DEF List, Taken
  <2> QED
    BY <1>7, <1>8, <1>9 DEF Offered
<1>10. ASSUME fabric # 0
       PROVE  \/ b <= p.llMax /\ y = L1(b)
              \/ b <= p.ll128Max /\ y = L2(b)
              \/ y = R(b)
              \/ y = T(b)
              \/ g4 /\ y = W(b)
  <2> HIDE DEF List, Taken
  <2> QED
    BY <1>7, <1>8, <1>10 DEF Offered
<1>11. ASSUME fabric # 0
       PROVE  /\ Price(hw, "allreduce", n, a, hint) = Charged(hw, "allreduce", "cudagraph", x)
              /\ Price(hw, "allreduce", n, b, hint) = Charged(hw, "allreduce", "cudagraph", y)
  BY <1>1, <1>3, <1>7, <1>11
<1>12. ASSUME fabric = 0
       PROVE  Price(hw, "allreduce", n, a, hint) = Raised("ValueError")
  <2>1. List(a) = <<>>
    BY <1>12 DEF AllReduceList, AllReduceCandidates
  <2> HIDE DEF List, Taken
  <2> QED
    BY <1>3, <2>1
<1> HIDE DEF List, Taken, Among2, x, y
<1>13. ASSUME fabric # 0 PROVE x \in Nat /\ y \in Nat /\ x <= y
  <2>1. x \in Nat
    BY <1>4, <1>5, <1>6, <1>9, <1>13
  <2>2. p.llMax \in Nat /\ p.ll128Max \in Nat
    BY <1>2
  <2>3. (b <= p.llMax => a <= p.llMax) /\ (b <= p.ll128Max => a <= p.ll128Max)
    BY <2>2
  <2> HIDE DEF fabric
  <2> QED
    BY <1>4, <1>5, <1>6, <1>9, <1>10, <1>13, <2>1, <2>3
<1>14. Grows(hw, "allreduce", n, a, b, hint)
  <2>1. CASE fabric = 0
    BY <1>12, <2>1 DEF Grows, Raised
  <2>2. CASE fabric # 0
    <3> HIDE DEF fabric
    <3> QED
      BY <1>11, <1>13, <2>2, ChargedGrows
  <2> QED
    BY <2>1, <2>2
<1>15. ASSUME ~ hw.topology.nvlsModel, a % n = 0 PROVE Crosses(hw, "allreduce", n, a, hint)
  <2>1. CASE fabric = 0
    BY <1>12, <2>1 DEF Crosses, Raised
  <2>2. CASE fabric # 0
    <3>1. Crossing("allreduce", n, a) = 2 * (n - 1) * a
      BY DEF Crossing
    <3>2. fabric = FabricByte(hw, IF "allreduce" = "p2p" THEN 1 ELSE n, At(hint))
      OBVIOUS
    <3>3. n * x >= need
      <4>1. x \in {L1(a), L2(a), R(a), T(a)}
        BY <1>9, <1>15, <2>2 DEF g4
      <4> QED
        BY <1>4, <1>5, <1>15, <4>1
    <3>4. Crossing("allreduce", n, a) * fabric = need
      BY <3>1 DEF need
    <3> HIDE DEF fabric
    <3> QED
      BY <1>1, <1>4, <1>11, <1>13, <2>2, <3>2, <3>3, <3>4, ChargedCrosses
  <2> QED
    BY <2>1, <2>2
<1> QED
  BY <1>14, <1>15

\* The efficiency of links is the one that is given, or all of it.
LEMMA EfficiencyGiven ==
  ASSUME NEW name, NEW given
  PROVE  HardwareProfile(WithEfficiencies(HardwareConfig(name), given)).commEff
           = IF given.commEff = NONE THEN 1 ELSE given.commEff
<1> DEFINE own    == [name |-> name, computeEff |-> 1, memEff |-> 1, commEff |-> 1]
           preset == Presets[Canonical(name)]
           base   == [f \in DOMAIN own \cup DOMAIN preset |->
                        IF f \in DOMAIN own THEN own[f] ELSE preset[f]]
           asked  == HardwareConfig(name)
           Given(f) == IF given[f] = NONE THEN asked[f] ELSE given[f]
           eff    == [asked EXCEPT !.computeEff = Given("computeEff"), !.memEff = Given("memEff"),
                                   !.commEff = Given("commEff")]
           full   == WithEfficiencies(asked, given)
<1>1. "commEff" \in DOMAIN base /\ base["commEff"] = 1
  <2>1. "commEff" \in DOMAIN own /\ own["commEff"] = 1
    OBVIOUS
  <2> HIDE DEF own, preset
  <2> QED
    BY <2>1
<1>2. asked = WithPeaks(base)
  BY DEF HardwareConfig
<1>3. DOMAIN asked = DOMAIN base /\ asked["commEff"] = base["commEff"]
  <2> HIDE DEF base
  <2> QED
    BY <1>1, <1>2 DEF WithPeaks
<1> HIDE DEF asked
<1>4. "commEff" \in DOMAIN eff /\ eff["commEff"] = Given("commEff")
  <2> HIDE DEF base, preset
  <2> QED
    BY <1>1, <1>3
<1>5. full = WithPeaks(eff)
  BY DEF WithEfficiencies
<1>6. full["commEff"] = eff["commEff"]
  <2> HIDE DEF eff, base, preset
  <2> QED
    BY <1>4, <1>5 DEF WithPeaks
<1> HIDE DEF full, eff
<1>7. HardwareProfile(full).commEff = full["commEff"]
  BY DEF HardwareProfile
<1> QED
  BY <1>1, <1>3, <1>4, <1>6, <1>7 DEF full, asked

\* What a profile says of links is what its preset says.
LEMMA ProfileKeepsLinks ==
  ASSUME NEW name, Canonical(name) \in DOMAIN Presets, NEW given
  PROVE  LET hw     == HardwareProfile(WithEfficiencies(HardwareConfig(name), given))
             preset == Presets[Canonical(name)]
         IN  /\ \A field \in LinkFields \ {"communication", "floor", "bias"} :
                  hw.topology[field] = preset[field]
             /\ hw.communication = preset.communication
             /\ hw.floor = preset.floor
             /\ hw.bias = preset.bias
<1> DEFINE full   == WithEfficiencies(HardwareConfig(name), given)
           preset == Presets[Canonical(name)]
<1>1. LinkFields \subseteq DOMAIN preset
  BY LinksOK DEF LinkFields
<1>2. \A field \in LinkFields : full[field] = preset[field]
  BY <1>1, PresetKept
<1> HIDE DEF full, preset
<1>3. /\ \A field \in LinkFields \ {"communication", "floor", "bias"} :
           HardwareProfile(full).topology[field] = full[field]
      /\ HardwareProfile(full).communication = full["communication"]
      /\ HardwareProfile(full).floor = full["floor"]
      /\ HardwareProfile(full).bias = full["bias"]
  BY DEF HardwareProfile, LinkFields
<1> QED
  BY <1>2, <1>3 DEF full, preset, LinkFields

\* The links of a rank that has loaded are those of its machine, and every size

\* can be divided among the ranks of a node.
LEMMA LinksOfRank ==
  ASSUME IInv, NEW r \in Loaded
  PROVE  LET hw == worker[r].scenario.hardware
         IN  /\ LinksTyped(hw)
             /\ \A bytes \in Sizes : \A n \in 2 .. hw.topology.nodeSize : bytes % n = 0
<1> DEFINE cache  == worker[r].cache
           hw     == worker[r].scenario.hardware
           asked  == HardwareName(cache)
           preset == Presets[Canonical(asked)]
           given  == [computeEff |-> cache.hardware.compute_efficiency,
                      memEff     |-> Or(env.memEff, cache.hardware.mem_efficiency),
                      commEff    |-> cache.hardware.comm_efficiency]
<1>1. /\ r \in Ranks /\ cache # NONE
      /\ worker[r].scenario = Scenario(config, cache) /\ ExtractError(config, cache) = NONE
  BY DEF IInv, ReadOnce, Remembers, Loaded
<1>2. Canonical(asked) \in DOMAIN Presets
  BY <1>1, InputsOK DEF ExtractError, Known, Errors
<1>3. hw = HardwareProfile(WithEfficiencies(HardwareConfig(asked), given))
  <2>1. hw = HardwareProfile(HardwareOf(cache))
    BY <1>1 DEF Scenario
  <2> QED
    BY <2>1 DEF HardwareOf
<1>4. cache.hardware.comm_efficiency \in Nat \cup {NONE}
  <2>1. CASE cache = SimOverlay(NoFile)
    <3>1. DOMAIN NoFile = {}
      BY DEF NoFile
    <3>2. \A section : ~ Mapped(NoFile, section)
      BY <3>1 DEF Mapped
    <3>3. cache.hardware.comm_efficiency = NONE
      BY <2>1, <3>2 DEF SimOverlay, SectionParsers
    <3> QED
      BY <3>3
  <2>2. ASSUME NEW raw \in Files \ {NONE}, WellFormed(raw), cache = SimOverlay(raw)
        PROVE  cache.hardware.comm_efficiency \in Nat \cup {NONE}
    BY <2>2, NumbersOK
  <2> QED
    BY <1>1, <2>1, <2>2 DEF IInv, FilesRead
<1> HIDE DEF cache
<1>5. hw.commEff \in Nat
  <2>1. given.commEff = cache.hardware.comm_efficiency
    OBVIOUS
  <2> HIDE DEF given, hw
  <2> QED
    BY <1>3, <1>4, <2>1, EfficiencyGiven
<1> HIDE DEF given, hw, asked
<1>6. /\ \A field \in LinkFields \ {"communication", "floor", "bias"} :
           hw.topology[field] = preset[field]
      /\ hw.communication = preset.communication /\ hw.floor = preset.floor /\ hw.bias = preset.bias
  BY <1>2, <1>3, ProfileKeepsLinks
<1>7. hw.topology["gpusPerRoot"] = preset["gpusPerRoot"] /\ hw.topology["numRoots"] = preset["numRoots"]
  BY <1>2, <1>3, ProfileKeepsMachine
<1>8. /\ hw.topology.link = preset.link /\ hw.topology.protocol = preset.protocol
      /\ hw.topology.nodeSize = preset.nodeSize /\ hw.topology.stepLatency = preset.stepLatency
      /\ hw.topology.interLink = preset.interLink /\ hw.topology.interLatency = preset.interLatency
      /\ hw.topology.gpusPerRoot = preset.gpusPerRoot /\ hw.topology.numRoots = preset.numRoots
  <2> HIDE DEF preset
  <2> QED
    BY <1>6, <1>7 DEF LinkFields
<1>9. /\ {preset.link, preset.protocol, preset.nodeSize, preset.gpusPerRoot, preset.numRoots}
           \subseteq Nat \ {0}
      /\ {preset.stepLatency, preset.interLink, preset.interLatency} \subseteq Nat
      /\ preset.bias = <<>>
      /\ \A entry \in DOMAIN preset.floor : preset.floor[entry] \in Nat
  BY <1>2, PresetsOK, RootsOK, LinksOK
<1>10. /\ Tuned(DefaultNccl)
       /\ "nccl" \in DOMAIN preset.communication =>
            LET p == preset.communication["nccl"].alltoall
            IN  /\ Tuned(preset.communication["nccl"].allreduce)
                /\ p.alpha \in Nat /\ {p.scale, p.contention} \subseteq Nat \ {0}
  BY <1>2, LinksOK
<1>11. \A bytes \in Sizes : \A n \in 2 .. preset.nodeSize : bytes % n = 0
  BY <1>2, BoundsOK
<1> HIDE DEF preset
<1>12. Tuned(NcclParams(hw))
  BY <1>6, <1>10 DEF NcclParams
<1>13. LinksTyped(hw)
  BY <1>5, <1>6, <1>8, <1>9, <1>10, <1>12 DEF LinksTyped
<1> QED
  BY <1>8, <1>11, <1>13 DEF hw

\* Whatever the collective, its ranks, its place and its size.
LEMMA CollectivesRespect ==
  ASSUME NEW hw, LinksTyped(hw), NEW type \in Collectives, NEW n \in Nat, n > 1,
         NEW a \in Nat, a # 0, NEW b \in Nat, a <= b, NEW hint
  PROVE  /\ Grows(hw, type, n, a, b, hint)
         /\ ~ hw.topology.nvlsModel /\ n <= hw.topology.nodeSize /\ a % n = 0
              => Crosses(hw, type, n, a, hint)
<1>1. CASE type = "allreduce"
  BY <1>1, AllReduceRespects
<1>2. CASE type = "allgather"
  BY <1>2, AllGatherRespects
<1>3. CASE type = "reducescatter"
  BY <1>3, ReduceScatterRespects
<1>4. CASE type = "alltoall"
  BY <1>4, AllToAllRespects
<1>5. CASE type = "broadcast"
  BY <1>5, BroadcastRespects
<1>6. CASE type = "p2p"
  BY <1>6, P2PRespects
<1> QED
  BY <1>1, <1>2, <1>3, <1>4, <1>5, <1>6 DEF Collectives

\* Whatever the machine and the efficiency config.yaml gives its links: no
\* collective is faster than its bytes, and none the faster for more of them
\* (core/cost/roofline/communication.py).
THEOREM TimeRespectsBytesAlways == Spec => []TimeRespectsBytes
<1>1. ASSUME IInv PROVE TimeRespectsBytes
  <2> SUFFICES ASSUME NEW r \in Running
               PROVE  /\ NoneBeatsTheWire(worker[r].scenario)
                      /\ MoreBytesNeverCheaper(worker[r].scenario)
    BY DEF TimeRespectsBytes
  <2> DEFINE s    == worker[r].scenario
             hw   == s.hardware
             hint == DeploymentOf(s).hint
             size == hw.topology.nodeSize
  <2>1. r \in Loaded
    BY <1>1 DEF IInv, ReadOnce, Remembers, Running, Loaded
  <2>2. LinksTyped(hw) /\ \A bytes \in Sizes : \A n \in 2 .. size : bytes % n = 0
    BY <1>1, <2>1, LinksOfRank
  <2>3. Sizes \subseteq Nat \ {0} /\ size \in Nat
    BY <2>2, BoundsOK DEF LinksTyped
  <2> HIDE DEF s
  <2>4. NoneBeatsTheWire(s)
    <3> SUFFICES ASSUME ~ hw.topology.nvlsModel, NEW type \in Collectives, NEW n \in 2 .. size,
                        NEW bytes \in Sizes
                 PROVE  Crosses(hw, type, n, bytes, hint)
      BY DEF NoneBeatsTheWire, Crosses, Price, At
    <3>1. bytes % n = 0
      BY <2>2
    <3> HIDE DEF hint, size
    <3>2. n \in Nat /\ n > 1 /\ n <= size /\ bytes \in Nat /\ bytes # 0 /\ bytes <= bytes
      BY <2>3
    <3> USE DEF size
    <3> HIDE DEF hw
    <3> QED
      BY <2>2, <3>1, <3>2, CollectivesRespect DEF size
  <2>5. MoreBytesNeverCheaper(s)
    <3> SUFFICES ASSUME NEW type \in Collectives, NEW n \in 2 .. size + 1,
                        NEW a \in Sizes, NEW b \in Sizes, a < b
                 PROVE  Grows(hw, type, n, a, b, hint)
      BY DEF MoreBytesNeverCheaper, Grows, Price
    <3>1. n \in Nat /\ n > 1 /\ a \in Nat /\ a # 0 /\ b \in Nat /\ a <= b
      BY <2>3
    <3> HIDE DEF hint, size
    <3> QED
      BY <2>2, <3>1, CollectivesRespect
  <2> QED
    BY <2>4, <2>5 DEF s
<1> QED
  BY <1>1, InvCorrect, PTL
=============================================================================
