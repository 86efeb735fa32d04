CONSTANTS
  NONE = NONE
  NumCases = 8
  CaseTable <- MCCaseTable
  Routes <- MCRoutes
  Releases <- MCReleases
  Gpus <- MCGpus
  Calls <- MCCalls
  BlockSize = 2
  MaxLaunches = 2
SPECIFICATION Spec
INVARIANTS
  FiledAsTimed
  ReadsItsOwnContext
  BusiestRankTimed
  ExitZeroMeansMeasured
