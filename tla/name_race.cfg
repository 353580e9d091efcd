CONSTANTS
  ClusterIds = {c1}
  NodeIds = {1, 2}
  DeviceIds = {11, 21}
  VolumeIds = {v1, v2}
  BrickIds = {101, 102, 103, 104, 105, 106}
  HostKeys = {"h1", "h2"}
  HostnameSets <- MCHostnameSets
  DeviceNames = {sda, sdb}
  DeviceSize = 10
  Slots = {s1}
  Requests = {}
  None = None
  Home <- MCHome
  VolumeNames = {x, y}
  VolumeSizes = {2}
  BricksInSet = 1
  Data = 1
  SetsPerCommand = 1
  BrickMinSize = 2
  BrickMaxSize = 8
  BrickMaxNum = 8
  Width = 5
  GB = 2
  ExtentSize = 2
  MetadataShare = 2
  MaxPoolMetadata = 2
  FactorUnit = 2
  SnapFactors = {2}
  Workers = {w1, w2}
  VolumeRequests = {"VolumeCreate"}
SYMMETRY MCSymmetry
SPECIFICATION VolumesSpec
INVARIANT VolumeServed
CHECK_DEADLOCK FALSE
