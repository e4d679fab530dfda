SPECIFICATION Spec
CONSTANTS
  t1 = t1  t2 = t2  s1 = s1  s2 = s2  Nothing = Nothing
  Thread = {t1, t2}
  Stmt = {s1, s2}
  Uses <- Workload
  MaxRow = 2
  Period = 2
  Exclusive <- Discipline
INVARIANTS NoDataRace FetchReadsARow EachRowFetchedOnce
PROPERTIES LockIsReleased CallsAreAtomic
