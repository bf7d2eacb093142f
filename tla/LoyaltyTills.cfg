CONSTANTS
  r1 = r1
  r2 = r2
  None = None
  Req = {r1, r2}
  Bill <- TwoBills
  Earn <- OneEach
  Cooling = {2}
  Spend <- SecondSpends
  Give <- GiveOrTake
  Op = {"post", "cancel", "amend", "retender", "return", "unreturn", "adjust", "close", "reopen"}
  MaxWork = 4
  MaxAdjs = 1
SPECIFICATION Spec
SYMMETRY Requests
INVARIANTS
  TypeOK
  SpentWithinEarned
  CancelledSpentNothing
PROPERTIES
  DrawLeavesExact
