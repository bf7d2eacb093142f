CONSTANTS
  b1 = b1
  b2 = b2
  m1 = m1
  m2 = m2
  m3 = m3
  r1 = r1
  r2 = r2
  r3 = r3
  None = None
  Req = {r1, r2, r3}
  Move <- PairMoves
  Qty <- PairQty
SPECIFICATION Spec
CONSTANTS
  Branch <- TwoBranches
  At <- PairAt
  Scope <- Scopes
  Held <- TwoBranches
  Opening <- PairOpening
SYMMETRY Requests
INVARIANTS
  TypeOK
  StatusFollowsTotal
PROPERTIES
  FullRebuildRepairs
