SPECIFICATION FairSpec
CONSTANTS
  Job = {j1}
  JobName = {n1}
  Client = {c1, c2}
  NoJob = NoJob
  NoClient = NoClient
  NoParams = NoParams
  NoName = NoName
  Params <- AllForms
  DefaultLambda = 2
  MaxRestarts = 1
  MaxPages = 3
  MaxQueue = 2
PROPERTIES RequestsReturn JobsEnd
CHECK_DEADLOCK FALSE
