SPECIFICATION Spec
CONSTANTS
  s1 = s1  s2 = s2  c1 = c1  c2 = c2
  query = query  update = update  invalid = invalid  none = none
  Stmt = {s1}
  Conn = {c1}
  ConnOf <- OneStmt
  Sql = {query}
  Query = {query}
  Invalid = {}
  CatalogFn = {"SQLTables"}
  PrivilegeFn = {}
  ReportFn = {}
  Attribute = {"CURSOR_TYPE"}
  NoSource = none
  MaxRows = 2
  MaxSets = 1
  MaxMoves = 0
  MaxDiag = 1
  ErrorCount = 2
INVARIANTS TypeOK ResultIsConsistent NoSqlResultWhenClosed PositionWasFetched
PROPERTIES FailureKeepsResult ImplementsCursor
