CONSTANTS
  Namespaces = {a}
  NoName = NoName
  MaxEvents = 4
  ChanCap = 2
  WorkerCap = 3
  IdleLimit = 2
  CallLimit = 1
  Prompt = TRUE
SPECIFICATION Spec
PROPERTY RetiresOnlyIdleWorkers
