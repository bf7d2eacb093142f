CONSTANTS
  r1 = r1
  r2 = r2
  c1 = c1
  None = None
  Req = {r1, r2}
  Session <- Two
  Counter = {c1}
  Float = {1}
  Cash = {0, 3}
  Tolerance = 1
  MaxRecounts = 1
  ReceiptRequired = FALSE
  Hands = {}
  MaxBills <- FirstBills
  MaxCounts = 2
  MaxGrants <- FirstBills
SPECIFICATION Spec
SYMMETRY Requests
INVARIANT OneDrawer
CHECK_DEADLOCK FALSE
