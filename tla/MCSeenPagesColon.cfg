SPECIFICATION SeenSpec
CONSTANTS
  Proc = {p1, p2}
  Page <- ColonPage
  Part = {"ls", "git", "log", "file", "spec"}
  MaxPages = 3
  MaxRuns = 3
PROPERTIES
  SaveIsReadBack
CHECK_DEADLOCK FALSE
