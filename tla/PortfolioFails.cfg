\* Two photos of one work: the first is answered, the second one fails.
SPECIFICATION PortfolioSpec
CONSTANTS
  Photos = {p1, p2}
  Texts = {t1}
  Saves = {}
  MaxEntries = 1
PROPERTIES
  ImageIdRemains
