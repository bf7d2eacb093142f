CONSTANTS
  c1 = c1
  c2 = c2
  m1 = m1
  r1 = r1
  r2 = r2
  None = None
  Req = {r1, r2}
  Sheet <- Sheets
  Move <- OneMove
  Qty <- Sold
  Inside <- AllInside
  Counted = {2}
  Opening = 1
  MaxClock = 2
  Freeze = {TRUE, FALSE}
SPECIFICATION Spec
SYMMETRY Requests
INVARIANTS
  TypeOK
  BookIsSum
PROPERTIES
  CountLands
