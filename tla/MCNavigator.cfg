SPECIFICATION Spec
CONSTANTS
  Char <- MCChar
  AsciiUpper <- MCUpper
  Node <- MCNode
  NoNode = "none"
  Children <- MCChildren
  Parent <- MCParent
  NameUpper <- MCName
  Root = "r"
  Own <- MCNode
  Offset <- MCOffset
  Line <- MCLine
  Handed <- MCNode
INVARIANTS
  TypeOK
  StackIsPath
  RepliesAreAboutHere
PROPERTIES
  GoUpThenNameReturns
  NavigatorIsCursor
