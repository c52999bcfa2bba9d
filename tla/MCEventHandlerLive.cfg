CONSTANTS
  Namespaces = {a, b}
  NoName = NoName
  MaxEvents = 3
  ChanCap = 1
  WorkerCap = 1
  IdleLimit = 0
  CallLimit = 0
  Prompt = FALSE
SPECIFICATION FairSpec
PROPERTIES
  BacklogDrains
  WorkersStop
  ReturnsUnlessStuck
