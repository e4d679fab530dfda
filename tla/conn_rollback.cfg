SPECIFICATION Spec
CONSTANTS
  c1 = c1  c2 = c2  static = static  user = user
  r1 = r1  r2 = r2  nobody = nobody
  Conn = {c1}
  Table = {static, user}
  Preset = {static}
  Row = {r1, r2}
  Config <- Configs
  Default <- Plain
  Attribute = {"AUTOCOMMIT"}
  Nobody = nobody
PROPERTIES RollbackKeepsCommitted
