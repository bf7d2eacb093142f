CONSTANTS
  o1 = o1
  o2 = o2
  b1 = b1
  b2 = b2
  b3 = b3
  r1 = r1
  r2 = r2
  None = None
  Req = {r1, r2}
  Order = {o1, o2}
  Line = {1, 2}
  Item = {1}
  Bill = {b1}
  OrderOf <- LineEach
  ItemOf <- SameItem
  Want <- TwoAndOne
  Stock <- Two
  Draft <- PartBill
  Rebill = {}
  Edit = {1, 3}
  AllowOver = FALSE
  Offered <- Edited
  MaxRevision = 1
SPECIFICATION Spec
SYMMETRY Requests
INVARIANTS
  ReservedIsOpen
