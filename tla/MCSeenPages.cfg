SPECIFICATION SeenSpec
CONSTANTS
  Proc = {p1, p2}
  Page <- MCPage
  Part = {"ls", "git", "log", "file", "spec"}
  MaxPages = 4
  MaxRuns = 3
INVARIANTS
  OnlyViewedPages
  DamageDoesNotSpread
PROPERTIES
  SaveIsReadBack
CHECK_DEADLOCK FALSE
