SPECIFICATION SetSpec
CONSTANTS
  Char <- MCChar
  AsciiUpper <- MCUpper
  Node <- MCNode
  NoNode = "none"
  Children <- MCChildren
  Parent <- MCParent
  NameUpper <- MCName
  Library <- MCLibrary
  Path <- MCPath
  MaxLibs = 3
INVARIANTS
  FirstWordOnMergedTree
  DepthIsOfFirstFailure
  FoundTopicsAreAddressable
PROPERTIES
  EarlierLibrariesKeepTheirNames
