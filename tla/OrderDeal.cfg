CONSTANTS
  f1 = f1
  f2 = f2
  r1 = r1
  r2 = r2
  Freelancers = {f1, f2}
  Requests = {r1, r2}
  NoOne = NoOne
SPECIFICATION Spec
SYMMETRY Symmetry
CHECK_DEADLOCK FALSE
INVARIANTS
  AcceptedIsFunded
  AtMostOneAccepted
  AssignedIsFunded
  InProgressIsAssigned
  ConversationHasProposal
