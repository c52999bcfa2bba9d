CONSTANTS
  Namespace = ns
  s1 = s1
  e1 = e1
  e2 = e2
  Services = {s1}
  Endpoints = {e1, e2}
  ServiceOf <- TwoOfOne
  Absent = Absent
  MaxLate = 1
SPECIFICATION Spec
PROPERTY SkipsWhatOthersCreated
