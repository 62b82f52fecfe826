\* Two proposals are the least for a recommendation, two slots the least for
\* runs that overlap; two edits, two visits and one fault leave every order of
\* them possible, and a run may start any number of others.
\*
\* Two works are enough for one to be removed before the other, whose photo and
\* text come late; two photos for the later one of a work to fail, and for one
\* to be shown and another deleted; three saves for a new item and two that
\* change it at once.  The names x1, x2, y1 and y2 serve both modules.
CONSTANTS
  Proposals = {x1, x2}
  None = none
  Foreign = foreign
  Slots = {y1, y2}
  MaxEdits = 2
  MaxVisits = 2
  MaxFaults = 1
  Photos = {x1, x2}
  Texts = {t1}
  Saves = {y1, y2, y3}
  MaxEntries = 2
SPECIFICATION OffersSpec
SYMMETRY Symmetry
INVARIANTS
  AnalysisIsCurrent
  AloneSettles
  WorkIsKept
  ItemIsWhole
