\* Two users, two orders, two deposit requests; amounts that round to nothing,
\* to a kopeck, and from one and a half kopecks.
CONSTANTS
  Users = {u1, u2}
  Orders = {o1, o2}
  Requests = {r1, r2}
  Amounts = {4, 10, 15}
  MaxBalance = 4
  ConfiguredFee = 50
  MinWithdrawal = 15
SPECIFICATION Spec
SYMMETRY Symmetry
INVARIANTS
  FrozenIsBacked
  AvailableIsExplained
  HeldIsCovered
  EscrowPaysFromHolds
PROPERTY EscrowLivesOnce
CHECK_DEADLOCK FALSE
