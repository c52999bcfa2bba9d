CONSTANTS
  Services = {s}
  Addresses = {p, q}
  Absent = Absent
  AnnotationSets <- OneSet
  ServiceAnnotations <- AnyPrefixAllowed
  WatchNamespacesByDefault = TRUE
  ChanCap = 1
  MaxChanges = 2
  MaxFaults = 1
  Troubles = {"grow", "enable", "dying", "remove", "overlap", "names", "restart"}
SPECIFICATION Spec
SYMMETRY Symmetry
INVARIANTS
  RestartRestores
  ExposesOnlyAllowed
PROPERTY WorkDiminishes
