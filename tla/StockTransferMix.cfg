CONSTANTS
  b1 = b1
  b2 = b2
  g1 = g1
  g2 = g2
  g3 = g3
  o1 = o1
  o2 = o2
  o3 = o3
  n1 = n1
  n2 = n2
  la = la
  lb = lb
  r1 = r1
  r2 = r2
  None = None
  Req = {r1, r2}
  Branch <- TwoBranches
  Site <- Sites
  BranchOf <- Branches
  Lot <- OneLot
  Out <- ThreeOuts
  In = {n1}
  From <- MixFrom
  To <- MixTo
  Load <- MixLoad
  Claim <- OneLotClaims
  Opening <- MixOpening
SPECIFICATION FairSpec
INVARIANTS
  TypeOK
  TransitInIsOpenRows
  NothingLost
  NeverNegative
PROPERTIES
  RequestsEnd
