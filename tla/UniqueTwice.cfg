\* The same instance: two live rows with one value.
CONSTANTS
  Xid = {x1, x2, x3}
  NoXid = NoXid
  Val = {v1, v2}
  NoVal = NoVal
  MaxRows = 3
  MaxStatements = 4
SYMMETRY Symmetric
SPECIFICATION Spec
INVARIANTS UniqueValues
CHECK_DEADLOCK FALSE
