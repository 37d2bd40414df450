SPECIFICATION Spec
CONSTANTS
  Name <- MCName
  TooLong = {"long"}
  ToUpper <- MCUpper
  Text = {"text", ""}
  Empty = ""
  MaxLevel = 3
  MaxLines = 5
  MaxFiles = 2
INVARIANTS
  TypeOK
  StackIsALineOfDescent
  TreesAreTheOutline
  BodiesAreTheText
  RefusedAtFirstBadHeader
  LastDefinitionWins
PROPERTIES
  AssemblyEnds
CHECK_DEADLOCK FALSE
