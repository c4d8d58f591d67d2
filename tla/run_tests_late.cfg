\* The alarm arrives at any statement.
SPECIFICATION Spec
CHECK_DEADLOCK FALSE
CONSTANTS
  NumTraces = 3
  MaxHanging = 1
  weights <- MCWeights
  ops = 10000
  Utils = {50}
  RefThroughputs = {0, 300}
  Costs = {1, 3}
  Readings = {100}
  min_time = 10
  min_reps = 2
  kbest = 1
  maxsamples = 1
  percent = 1
INVARIANTS
  FreedOnce
