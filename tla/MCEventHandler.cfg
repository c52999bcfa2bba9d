CONSTANTS
  Namespaces = {a, b}
  NoName = NoName
  MaxEvents = 4
  ChanCap = 1
  WorkerCap = 2
  IdleLimit = 1
  CallLimit = 1
  Prompt = FALSE
SPECIFICATION Spec
SYMMETRY Symmetry
INVARIANTS
  TypeOK
  OneLiveWorker
  ReturnsAfterRegisteredWorkers
PROPERTIES
  ServedInOrder
  LostOnlyByRetirementOrStop
  DeliverySpec
