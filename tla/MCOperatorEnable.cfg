CONSTANTS
  Services = {s}
  Addresses = {p, q}
  Absent = Absent
  AnnotationSets <- OneSet
  ServiceAnnotations <- SomeAllowed
  WatchNamespacesByDefault = FALSE
  ChanCap = 1
  MaxChanges = 1
  MaxFaults = 0
  Troubles = {"enable"}
SPECIFICATION Spec
INVARIANT ReflectsCluster
