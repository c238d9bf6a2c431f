SPECIFICATION Spec
CONSTANTS
  t1 = t1
  t2 = t2
  c1 = c1
  v1 = v1
  v2 = v2
  k1 = k1
  f1 = f1
  f2 = f2
  Tasks = {t1}
  Calls = {c1}
  Converts = {v1, v2}
  Topups = {k1}
  Closers = {f1}
  Amount <- MCAmount
  MonthlyGrant = 5
  RollPercent = 50
  RollCap = 2
  Contributed = 5
  MaxMonth = 2
  MaxUsage = 5
INVARIANTS
  TypeOK
  Solvent
  BooksBalance
  SettledIsPaid
PROPERTIES
  GrantSpentFirst
CHECK_DEADLOCK FALSE
