SPECIFICATION Spec
CONSTANTS
  Job = {j1}
  JobName = {n1}
  Client = {c1, c2}
  NoJob = NoJob
  NoClient = NoClient
  NoParams = NoParams
  NoName = NoName
  Params <- LongForms
  DefaultLambda = 2
  MaxRestarts = 1
  MaxPages = 5
  MaxQueue = 2
SYMMETRY Symmetry
INVARIANTS TypeOK CompleteMeansDone CompleteIsWhole
PROPERTIES StatsNeverRegress DetailsStoresFinal
CHECK_DEADLOCK FALSE
