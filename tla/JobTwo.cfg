SPECIFICATION Spec
CONSTANTS
  Job = {j1, j2}
  JobName = {n1, n2}
  Client = {c1, c2}
  NoJob = NoJob
  NoClient = NoClient
  NoParams = NoParams
  NoName = NoName
  Params <- ShortForms
  DefaultLambda = 2
  MaxRestarts = 0
  MaxPages = 4
  MaxQueue = 2
SYMMETRY FullSymmetry
INVARIANTS DataContextInv HistoryInv
PROPERTIES CompleteStays BoardRefined
CHECK_DEADLOCK FALSE
