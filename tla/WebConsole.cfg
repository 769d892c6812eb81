\* A terminal page and another client of the same user, two commands each.
CONSTANTS
  s1 = s1
  s2 = s2
  user = user
  Session = {s1, s2}
  User = {user}
  UserOf <- MCUserOf
  Page = {s1}
  InitCmd = init
  SqlCmd = sql
  Lines = 1
  MaxTyped = 1
  MaxSends <- MCMaxSends
  MaxExpiries = 1
SPECIFICATION Spec
INVARIANTS
  TypeOK
  PromptReturns
  AnswersInOrder
  InitsShareDatabase
CHECK_DEADLOCK FALSE
