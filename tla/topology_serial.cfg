CONSTANTS
  ClusterIds = {c1, c2}
  NodeIds = {1, 2}
  DeviceIds = {11, 12}
  VolumeIds = {}
  BrickIds = {}
  HostKeys = {"h1", "h2"}
  HostnameSets <- MCAnyHosts
  DeviceNames = {sda}
  DeviceSize = 2
  Slots = {s1}
  Requests <- MCOnline
  None = None
SPECIFICATION FairSpec
INVARIANTS NoOrphanDevice NamesHeld RingMatchesDb
PROPERTIES ImplementsInventory HostsLostOnlyByCrash 
CHECK_DEADLOCK FALSE
