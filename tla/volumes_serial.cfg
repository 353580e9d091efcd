CONSTANTS
  ClusterIds = {c1}
  NodeIds = {1, 2}
  DeviceIds = {11, 12, 21}
  VolumeIds = {v1, v2}
  BrickIds = {101, 102, 103, 104, 105, 106, 107, 108}
  HostKeys = {"h1", "h2"}
  HostnameSets <- MCHostnameSets
  DeviceNames = {sda, sdb, sdc}
  DeviceSize = 22
  Slots = {s1}
  Requests = {}
  None = None
  Home <- MCHome
  VolumeNames = {x}
  VolumeSizes = {3, 18}
  BricksInSet = 2
  Data = 1
  SetsPerCommand = 1
  BrickMinSize = 2
  BrickMaxSize = 8
  BrickMaxNum = 8
  Width = 5
  GB = 2
  ExtentSize = 2
  MetadataShare = 2
  MaxPoolMetadata = 2
  FactorUnit = 2
  SnapFactors = {2, 3}
  Workers = {w1}
  VolumeRequests = {"VolumeCreate", "VolumeExpand", "VolumeDelete"}
SYMMETRY MCSymmetry
SPECIFICATION VolumesSpec
INVARIANTS SpaceAccounted VolumeServed SetsSpread PoolsFit
 
CHECK_DEADLOCK FALSE
