CONSTANTS
  r1 = r1
  r2 = r2
  Req <- MCReq
  PromptLen <- MCPromptLen
  MaxTokens <- MCMaxTokens
  BlockSize = 16
  Presets <- MCPresets
  Aliases <- MCAliases
  NONE = NONE
  DefaultNccl <- Nccl
  DefaultOverhead <- MCDefaultOverhead
  Points <- MCPoints
  TpSizes <- MCTpSizes
  MoeParallel <- MCMoeParallel
  DbVersion <- MCDbVersion
  Prices <- MCPrices
  MaxLines = 2
  Deployments <- MCDeployments
  Steps <- MCSteps
  Policies <- MCPolicies
  Measured <- MCMeasured
SPECIFICATION Spec
INVARIANTS
  WorkAccounted
  RowsCoverStep
  StepCostsItsLayers
  RanksShareTheWork
  PartialSumsReduced
  ContractKept
  VersionIsolated
  NoSilentFallback
PROPERTIES
  LoadsEveryRecord
