\* A history of three events of which the newest is replayed by default, and
\* queues of two: four events overflow each of them.
\*
\* One tab and two requests, its own or from elsewhere, so that counts overtake
\* each other; two notifications on pages of one, so that not every unread one
\* is on the first.  The names x1 and x2 serve both modules.
CONSTANTS
  Events = {x1, x2, x3, x4}
  HistoryLimit = 3
  Recent = 1
  QueueLimit = 2
  ChannelLimit = 2
  None = None
  Tabs = {t1}
  Calls = {x1, x2}
  Nobody = nobody
  Page = 1
  MaxNotes = 2
  MaxUnsent = 1
  MaxQueue = 1
SPECIFICATION BrowserSpec
SYMMETRY Symmetry
INVARIANTS
  NoHole
  OnlyMine
  LastWasSeen
  BadgeSettles
  ListSettles
CHECK_DEADLOCK FALSE
