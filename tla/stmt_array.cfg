SPECIFICATION Spec
CONSTANTS
  s1 = s1  s2 = s2  c1 = c1  c2 = c2
  query = query  update = update  invalid = invalid  none = none
  Stmt = {s1}
  Conn = {c1}
  ConnOf <- OneStmt
  Sql = {update}
  Query = {}
  Invalid = {}
  CatalogFn = {}
  PrivilegeFn = {}
  ReportFn = {}
  Attribute = {"PARAMSET_SIZE", "PARAM_STATUS_PTR", "PARAMS_PROCESSED_PTR"}
  NoSource = none
  MaxRows = 0
  MaxSets = 2
  MaxMoves = 0
  MaxDiag = 1
  ErrorCount = 2
INVARIANTS ArrayOutcome
