CONSTANTS
  ClusterIds = {c1}
  NodeIds = {1, 2}
  DeviceIds = {11, 12}
  VolumeIds = {}
  BrickIds = {}
  HostKeys = {"h1", "h2"}
  HostnameSets <- MCHostnameSets
  DeviceNames = {sda}
  DeviceSize = 2
  Slots = {s1, s2}
  Requests <- MCAll
  None = None
SPECIFICATION Spec
INVARIANTS TypeOK ReferentialIntegrity
PROPERTIES FailedIsFinal NamesLostOnlyByCrash
CHECK_DEADLOCK FALSE
SYMMETRY MCSymmetry
