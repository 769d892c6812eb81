SPECIFICATION FairSpec
CONSTANTS
  Row <- MCRow
  KeyOf <- MCKeyOf
  Search = {100}
  Before <- MCBefore
  Bounds <- MCBounds
  BalanceNumber = 2
  MaxKey = 100
INVARIANTS TypeOK LeavesAreSorted NeverTooFarRight SearchComplete
PROPERTIES EveryCallReturns
CHECK_DEADLOCK FALSE
