\* Three ranks; one may raise alone, a write of rank 0 may fail, the group may die.
CONSTANTS
  p0 = p0
  p1 = p1
  p2 = p2
  Root = p0
  Others <- MCTwo
  NumCases = 2
  Limits <- MCLimits
  MaxAlone = 1
  MaxWriteFaults = 1
  MaxCrashes = 1
SPECIFICATION FairSpec
CHECK_DEADLOCK FALSE
INVARIANTS
  IInv
  LockStepTogether
PROPERTIES
  RunEnds
  AllAccounted
