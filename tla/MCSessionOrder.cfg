SPECIFICATION Spec
CONSTANTS
  Char <- MCChar
  AsciiUpper <- MCUpper
  Node <- MCNode
  NoNode = "none"
  Children <- MCChildren
  Parent <- MCParent
  NameUpper <- MCName
  Cli <- TtyCli
  Readable = {"r1", "r2"}
  Installed <- MCInstalled
  Line <- MCLine
  ManPage <- MCManPage
  BigTopic = {"aaa", "b"}
  MaxShown = 2
INVARIANTS
  ShownBeforePrompt
CHECK_DEADLOCK FALSE
