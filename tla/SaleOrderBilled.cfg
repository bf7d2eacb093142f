CONSTANTS
  o1 = o1
  o2 = o2
  b1 = b1
  b2 = b2
  b3 = b3
  r1 = r1
  r2 = r2
  None = None
  Req = {r1, r2}
  Order = {o1, o2}
  Line = {1, 2, 3}
  Item = {1, 2}
  Bill = {b1, b2, b3}
  OrderOf <- TwoOrders
  ItemOf <- CrossedItems
  Want <- Wanted
  Stock <- Shelf
  Draft <- ThreeBills
  Rebill <- Rebilled
  Edit = {2}
  AllowOver = FALSE
  Offered <- BilledOnly
  MaxRevision = 1
SPECIFICATION Spec
SYMMETRY Requests
INVARIANTS
  TypeOK
  ReservedIsOpen
  DeliveredIsBilled
  HeaderTellsLines
  HeldWithinNeed
