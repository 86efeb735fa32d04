CONSTANTS
  NumCases = 2
  Limits <- MCLimits
  MaxCrashes = 1
  MaxTears = 1
  MaxCorruptions = 0
SPECIFICATION Spec
INVARIANT DoneNeverLosesData
