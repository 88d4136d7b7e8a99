SPECIFICATION Spec
CONSTANTS
  Requests = {r1, r2}
  Browsers = {b1, b2, b3}
  Names = {ann}
  Numbers = {m1}
  Codes = {c1, c2}
  Given = {empty}
  Null = null
  Empty = empty
  MaxForm = 1
  MaxLoad = 15
  MaxSecrets = 2
SYMMETRY Symmetry
INVARIANTS TypeOK UniqueWhereLooked NoOrphans GoneAccountedFor FlagHasSecret EnabledIsOn
CHECK_DEADLOCK FALSE
