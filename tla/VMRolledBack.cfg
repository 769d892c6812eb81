CONSTANTS
  S1 = S1
  S2 = S2
  T1 = T1
  T2 = T2
  U1 = U1
  U2 = U2
  Session <- MCSession
  Thread <- MCThread
  Carrier <- MCCarrier
  MaxXid = 2
  LateXid <- AnyLate
  Uid <- TwoRows
  NoRow = NoRow
  FirstRows <- OneRow
  Level <- AllLevels
  Implicit <- MCSession
  Checker = Checker
  NoThread = NoThread
  NoXid = NoXid
  MaxWaiters = 2
SPECIFICATION Spec
CHECK_DEADLOCK FALSE
PROPERTY
  CommitsAreActive
