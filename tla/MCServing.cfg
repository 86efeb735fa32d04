\* Nodes of every role, with chunked prefill, prefix hits, preemption, aborts.
CONSTANTS
  r1 = r1
  r2 = r2
  Req <- MCReq
  PromptLen <- MCPromptLen
  MaxTokens <- MCMaxTokens
  BlockSize = 2
  NumBlocks = 2
  Roles <- MCRoles
  Latencies <- MCLatencies
  PrefillOverhead = 1
  Budget = 3
  Chunked = TRUE
  PrefixHits <- MCPrefixHits
  MaxSteps = 7
SPECIFICATION Spec
CHECK_DEADLOCK FALSE
INVARIANTS
  BlocksCoverComputed
  LedgerBalances
  ReleasedUnlessDrained
  TokensFollowPrompt
  MetricsFollowEngine
  OneTransfer
PROPERTIES
  ChargedWhenDue
