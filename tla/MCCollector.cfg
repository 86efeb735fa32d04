\* Two cases, two crashes, one of which may tear a line, one damaged ledger.
CONSTANTS
  NumCases = 2
  Limits <- MCLimits
  MaxCrashes = 2
  MaxTears = 1
  MaxCorruptions = 1
SPECIFICATION FairSpec
INVARIANTS
  IInv
  LedgerBacked
  LossBoundedByTears
  NeverRemeasured
PROPERTIES
  DoneKept
  EventuallyAccounted
  CampaignUntilTorn
