SPECIFICATION RunSpec
CONSTANTS
  Lambda = 2
  Value = {0, 1, 2}
  NaN = NaN
  StopFitness = 0
  StopMaxFunEvals = 5
  StopMaxIter = 9
  MaxDraws = 6
  MaxEval = 7
INVARIANTS StatsFaithful ReportTrue TargetEnds
PROPERTIES ThreadRefined
CHECK_DEADLOCK FALSE
