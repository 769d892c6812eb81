\* Three transactions, two values, three row versions and four statements.
CONSTANTS
  Xid = {x1, x2, x3}
  NoXid = NoXid
  Val = {v1, v2}
  NoVal = NoVal
  MaxRows = 3
  MaxStatements = 4
SYMMETRY Symmetric
SPECIFICATION Spec
INVARIANTS
  TypeOK
  InsertsExclude
  ExactIndex
CHECK_DEADLOCK FALSE
