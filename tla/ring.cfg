CONSTANTS
  ZoneIds = {z1, z2}
  NodeIds = {n1, n2, n3}
  DeviceIds = {d1, d2, d3, d4}
  MaxSlice = 3
  Nil = Nil
SPECIFICATION Spec
INVARIANTS OfferedIsRing RemoveClosedForm SpreadWhenEven
SYMMETRY MCSymmetry
