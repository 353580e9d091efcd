CONSTANTS
  ClusterIds = {c1}
  NodeIds = {1}
  DeviceIds = {11}
  VolumeIds = {v1}
  BrickIds = {101, 102, 103, 104}
  HostKeys = {"h1", "h2"}
  HostnameSets <- MCHostnameSets
  DeviceNames = {sda, sdb}
  DeviceSize = 38
  Slots = {s1, s2}
  Requests = {"DeviceDelete", "NodeDelete", "ClusterDelete", "DeviceSetState", "NodeSetState", "Restart"}
  None = None
  Home <- MCHome
  VolumeNames = {x}
  VolumeSizes = {6}
  BricksInSet = 1
  Data = 1
  SetsPerCommand = 1
  BrickMinSize = 4
  BrickMaxSize = 8
  BrickMaxNum = 8
  Width = 5
  GB = 2
  ExtentSize = 2
  MetadataShare = 2
  MaxPoolMetadata = 4
  FactorUnit = 2
  SnapFactors = {2}
  Workers = {w1, w2}
  VolumeRequests = {"VolumeCreate", "VolumeDelete"}
SYMMETRY MCSymmetry
SPECIFICATION VolumesSpec
INVARIANT VolumesTypeOK
 
CHECK_DEADLOCK FALSE
