SPECIFICATION Spec
CONSTANTS
  r1 = r1 r2 = r2 n1 = n1
  i1 = i1 i2 = i2 i3 = i3
  p1 = p1 p2 = p2
  v1 = v1 v2 = v2
  io1 = io1 io2 = io2 po1 = po1 po2 = po2
  Absent = Absent
  Reader = {r1, r2}
  Inserter = {n1}
  Item = {i1, i2, i3}
  Page = {p1, p2}
  PageOf <- MCPageOf
  ItemObj = {io1, io2}
  PageObj = {po1, po2}
  Value = {v1, v2}
  MaxPages = 1
  MaxCloses = 2
SYMMETRY Symmetric
INVARIANTS TypeOK OneObjectEach Accounted
PROPERTIES WrittenUnused IsMemory
CHECK_DEADLOCK FALSE
