SPECIFICATION FairSpec
CONSTANTS
  e1 = e1  c1 = c1  c2 = c2  s1 = s1  s2 = s2  d1 = d1
  NoHandle = NoHandle
  Env = {e1}
  Dbc = {c1, c2}
  Stmt = {s1, s2}
  Desc = {}
  RecordNumber = {}
  DescCount = {}
  FreedImplicit = {}
  MaxDiag = 1
INVARIANTS TreeIntegrity NothingUndefined
PROPERTIES DiesByItsOwnFree TeardownCompletes
CHECK_DEADLOCK FALSE
