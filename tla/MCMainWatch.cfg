CONSTANTS
  Unset = Unset
  Hosts = {"h"}
  Ports = {4001}
  MaxEndpoints = 1
  Defaults = {TRUE, FALSE}
SPECIFICATION Spec
INVARIANT WatchesAsSet
