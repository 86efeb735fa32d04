\* Two ranks, one of which may run a dummy batch.
CONSTANTS
  d1 = d1
  d2 = d2
  d3 = d3
  Rank <- MCTwo
  Costs <- MCCosts
  MaxSteps = 2
SPECIFICATION Spec
CHECK_DEADLOCK FALSE
INVARIANT LockStep
