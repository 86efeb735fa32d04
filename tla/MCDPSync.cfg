\* Three ranks.
CONSTANTS
  d1 = d1
  d2 = d2
  d3 = d3
  Rank <- MCThree
  Costs <- MCCosts
  MaxSteps = 2
SPECIFICATION FairSpec
CHECK_DEADLOCK FALSE
INVARIANTS
  IInv
  ClocksAgree
PROPERTIES
  EveryStepEnds
