\* Three transactions run by two threads over two rows.
CONSTANTS
  T1 = T1
  T2 = T2
  X1 = X1
  X2 = X2
  X3 = X3
  U1 = U1
  U2 = U2
  Thread <- MCThread
  Xid <- MCXid
  Uid <- MCUid
  Checker = Checker
  NoThread = NoThread
  NoXid = NoXid
  MaxWaiters = 2
SPECIFICATION Spec
SYMMETRY Symmetric
INVARIANTS
  TypeOK
  HoldingsExclusive
  RollbackOwnsRows
  NoLostWakeup
  NoDeadlockAmongHolders
  SearchFindsCycles
PROPERTY
  OnlyOwnersCallReleases
