SPECIFICATION FairSpec
CONSTANTS
  MaxXid = 3
  MaxPage = 1
  MaxSlot = 2
  MaxLog = 4
  MaxCrash = 2
INVARIANTS TypeOK Durable WriteAhead NoneLeftActive
PROPERTIES FateIsFinal ComesUp
CHECK_DEADLOCK FALSE
