SPECIFICATION Spec
CONSTANTS
  Build = {b1, b2}
  Reader = {r1}
  Source <- MCSource
  Output = {"x.hlib", "y.hlib"}
  Topic <- MCTopic
  Name <- MCName
  Parsed <- MCParsed
  Unreadable = Unreadable
  Old <- MCOld
  Command <- MCCommand
INVARIANTS
  TypeOK
  SuccessMeansWhole
  ReadersGetOneLibrary
  ReadersKeepTheirLibrary
PROPERTIES
  LibraryComesBack
CHECK_DEADLOCK FALSE
