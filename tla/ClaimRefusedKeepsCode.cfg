SPECIFICATION Spec
CHECK_DEADLOCK FALSE
CONSTANTS
  s1 = s1
  s2 = s2
  c1 = c1
  c2 = c2
  Sessions = {s1, s2}
  Codes = {c1, c2}
  Names = {"media", "nas"}
  Scans = {}
  Connections = {s1, s2}
  NoToken = NoToken
  NoTxn = NoTxn
  NoConn = NoConn
  NoRow = NoRow
  NoAsk = NoAsk
SYMMETRY MCSymmetry
INVARIANTS
  RefusedKeepsCode
