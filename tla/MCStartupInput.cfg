CONSTANTS
  Req <- NoReq
  PromptLen <- NoLen
  MaxTokens <- NoLen
  BlockSize = 16
  Presets <- MCPresets
  Aliases <- MCAliases
  NONE = NONE
  DefaultNccl <- Nccl
  DefaultOverhead <- MCDefaultOverhead
  Inputs <- MCInputs
  Files <- MCFiles
  Connectors <- MCConnectors
  MaxEdits = 1
  Sizes <- MCSizes
SPECIFICATION Spec
INVARIANTS
  ScenarioIsTheInput
CHECK_DEADLOCK FALSE
