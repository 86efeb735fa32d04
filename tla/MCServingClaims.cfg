\* A node that produces and consumes, until its engine is drained.
CONSTANTS
  r1 = r1
  r2 = r2
  Req <- MCReq
  PromptLen <- MCPromptLen
  MaxTokens <- MCMaxTokens
  BlockSize = 2
  NumBlocks = 2
  Roles <- MCBothRoles
  Latencies <- MCLatencies
  PrefillOverhead = 1
  Budget = 3
  Chunked = TRUE
  PrefixHits <- MCPrefixHits
  MaxSteps = 6
SPECIFICATION Spec
CHECK_DEADLOCK FALSE
INVARIANTS
  SomeClaimHolds
