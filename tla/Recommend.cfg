\* Two orders, of which a negative number, none, one or two are asked for: the
\* AI may name fewer, as many or more.  One request at a time meets the market and an invalidation.
CONSTANTS
  c1 = c1  o1 = o1  o2 = o2  foreign = foreign  f1 = f1
  Calls = {c1}
  Orders = {o1, o2}
  Matching = {o1}
  Freelancers = {f1}
  Foreign = foreign
  Limits <- MCLimits
  Most = 2
  Factor = 1
  Page = 1
  Scores = {9, 65, 900}
SPECIFICATION Spec
INVARIANTS OfferIsNew NeverEmpty InvalidationTakes
