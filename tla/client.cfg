CONSTANTS
  ClusterIds = {1, 2, 3}
  NodeIds = {11, 12, 13, 14}
  DeviceIds = {21, 22, 23}
  VolumeIds = {31}
  None = None
  File <- MCFile
  MaxChanges = 2
  MaxFaults = 1
SPECIFICATION ClientSpec
INVARIANTS LoadAccount  InfoFailure
CHECK_DEADLOCK FALSE
