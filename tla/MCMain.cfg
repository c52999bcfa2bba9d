CONSTANTS
  Unset = Unset
  Hosts = {"h"}
  Ports = {4001}
  MaxEndpoints = 3
  Defaults = {TRUE}
SPECIFICATION FairSpec
INVARIANTS
  TypeOK
  EndsAfterWatcher
  ClosesOnceWhileServing
  
  KeepsEtcdServers
  MetadataNamesNetworks
PROPERTY SignalEndsRun
