SPECIFICATION Spec
CONSTANTS
  t1 = t1
  e1 = e1
  w1 = w1
  w2 = w2
  Tasks = {t1, e1}
  Emails = {e1}
  Workers = {w1, w2}
  RetryCount = 3
  MaxFaults = 2
INVARIANTS TypeOK RetriesBounded RunsBounded GivesUpOnlyAtLimit
PROPERTY AllSettle
CHECK_DEADLOCK FALSE
