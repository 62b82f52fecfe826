\* Two tabs of one browser, which are alike.  Two tokens: a sign-in and a
\* refresh that the other tab races, or two sign-ins.
CONSTANTS
  b1 = b1  t1 = t1  t2 = t2  client = client  freelancer = freelancer
  Browsers = {b1}
  Tabs = {t1, t2}
  Home <- HomeOf
  Roles = {client, freelancer}
  MaxTokens = 2
SYMMETRY TabsAlike
SPECIFICATION Spec
INVARIANTS StaysIn AccountKept
PROPERTY OverIsOver
