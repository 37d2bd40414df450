SPECIFICATION Spec
CONSTANTS
  Char <- MCChar
  AsciiUpper <- MCAsciiUpper
  CodePoint <- Code
  Width <- MCWidth
  Upper <- MCUpper
  White <- MCWhite
  Blank = {" "}
  Digit <- MCDigit
  Nul = "NUL"
  MAX_NAME_LENGTH = 4
  NAME_FIELD_SIZE = 5
  Node <- MCNode
  NoNode <- MCNoNode
  Children <- MCChildren
  Parent <- MCParent
  NameUpper <- MCNameUpper
  Name <- MCName
  Root <- MCRoot
  HeaderLine <- MCHeaderLine
  LibObj = {l1, l2}
  NavObj = {n1, n2}
  Line <- MCLine
  Path <- MCPath
SYMMETRY Symmetry
INVARIANTS
  TypeOK
  NavigatorsKeepTheirLibrary
  NamesAsWritten
  OfferedNamesLeadOn
