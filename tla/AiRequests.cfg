\* One request of any operation, by either side or by nobody, about the order
\* or about none; an order's edit runs beside it.  Three pieces, the second a
\* blank line: a text may be below and above both thresholds.
CONSTANTS
  cl = cl  fr = fr  c1 = c1  c2 = c2  o1 = o1  none = none
  Calls = {c1}
  Users = {cl, fr}
  Role <- MCRole
  Things = {o1}
  Client <- MCClient
  Freelancer <- MCFreelancer
  Nothing = none
  Starts <- MCStarts
  Pieces = 3
  Breaks = {2}
  Size <- MCSize
  FlushAt = 2
  MaxDelta = 3
SPECIFICATION AiSpec
INVARIANTS EndIsHonest SummaryIsAnAnswer
PROPERTY EveryRequestEnds
