CONSTANTS
  Services = {s, t}
  Addresses = {p, q}
  Absent = Absent
  AnnotationSets <- TwoSets
  ServiceAnnotations <- SomeAllowed
  WatchNamespacesByDefault = FALSE
  ChanCap = 1
  MaxChanges = 2
  MaxFaults = 0
  Troubles = {"grow", "enable"}
SPECIFICATION Spec
SYMMETRY Symmetry
INVARIANTS
  TypeOK
  NothingLeft
  
  ReflectsWhenWhole
