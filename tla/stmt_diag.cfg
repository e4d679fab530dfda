SPECIFICATION Spec
CONSTANTS
  s1 = s1  s2 = s2  c1 = c1  c2 = c2
  query = query  update = update  invalid = invalid  none = none
  Stmt = {s1}
  Conn = {c1, c2}
  ConnOf <- OneStmt
  Sql = {query, invalid}
  Query = {query}
  Invalid = {invalid}
  CatalogFn = {}
  PrivilegeFn = {"SQLTablePrivileges"}
  ReportFn = {"SQLDescribeCol", "SQLDescribeParam"}
  Attribute = {}
  NoSource = none
  MaxRows = 1
  MaxSets = 1
  MaxMoves = 0
  MaxDiag = 2
  ErrorCount = 2
INVARIANTS DiagnosticsMatchCode
PROPERTIES OthersKeepResult
