CONSTANTS
  Namespaces = {a}
  NoName = NoName
  MaxEvents = 3
  ChanCap = 1
  WorkerCap = 1
  IdleLimit = 1
  CallLimit = 0
  Prompt = TRUE
SPECIFICATION FairSpec
PROPERTY StopReturns
