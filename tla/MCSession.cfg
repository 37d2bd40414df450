SPECIFICATION Spec
CONSTANTS
  Char <- MCChar
  AsciiUpper <- MCUpper
  Node <- MCNode
  NoNode = "none"
  Children <- MCChildren
  Parent <- MCParent
  NameUpper <- MCName
  Cli <- MCCli
  Readable = {"r1", "r2"}
  Installed <- MCInstalled
  Line <- MCLine
  ManPage <- MCManPage
  BigTopic = {"aaa", "b"}
  MaxShown = 2
INVARIANTS
  TypeOK
  PathLeadsToCurrent
  EverythingArrives
  ExitTellsWhatHappened
  PagesOnlyWithoutTopic
PROPERTIES
  SessionIsCursor
CHECK_DEADLOCK FALSE
