SPECIFICATION Spec
CONSTANTS
  u1 = u1
  i1 = i1
  i2 = i2
  w1 = w1
  w2 = w2
  Users = {u1}
  Investments = {i1, i2}
  Owner <- MCOwner
  Workers = {w1}
  None = None
  Bonuses = {0, 2}
  LastDay = 2
  MaxJobs = 3
  MaxCrashes = 1
INVARIANTS TypeOK StatementAdds BooksBalance
PROPERTY CreditsDaily
