SPECIFICATION Spec
CONSTANTS
  Lambda = 3
  Value = {1, 2}
  NaN = NaN
  StopFitness = 1
  StopMaxFunEvals = 4
  StopMaxIter = 2
  MaxDraws = 7
  MaxEval = 7
INVARIANTS RecentXIsBest
