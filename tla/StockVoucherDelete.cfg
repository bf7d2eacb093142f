CONSTANTS
  d1 = d1
  d2 = d2
  d3 = d3
  r1 = r1
  r2 = r2
  None = None
  Req = {r1, r2}
  Perpetual = TRUE
  Doc <- RaceDocs
  KindOf <- RaceKind
  Item <- OneItem
  Policy <- OneBlocked
  Sheet <- OneItemSheets
SPECIFICATION Spec
INVARIANTS
  NoPostedDeleted
