\* The alarm arrives during an evaluation; three of at most five samples must
\* agree, and a reading may show no advance.
SPECIFICATION TimelySpec
CHECK_DEADLOCK FALSE
CONSTANTS
  NumTraces = 3
  MaxHanging = 2
  weights <- MCWeights
  ops = 10000
  Utils = {50}
  RefThroughputs = {0, 300}
  Costs = {1, 3}
  Readings = {0, 100, 102, 103}
  min_time = 10
  min_reps = 2
  kbest = 3
  maxsamples = 5
  percent = 1
INVARIANTS
  TypeOK
  CleanStart
  FreedOnce
  ScoreHonest
  BestKept
PROPERTIES
  ResultJustified
  Finishes
