SPECIFICATION Spec
CONSTANTS
  b1 = b1
  b2 = b2
  b3 = b3
  m = m
  a = a
  f1 = f1
  f2 = f2
  Browsers = {b1, b2}
  Members = {m}
  Admins = {}
  Fingerprints = {f1, f2}
  Fp <- MCFp
  None = None
  Enrollers = {}
  MaxLogins = 3
INVARIANT RefusedStaysOut
