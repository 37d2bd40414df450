SPECIFICATION Spec
CONSTANTS
  Char <- MCChar
  AsciiUpper <- MCUpper
  Node <- MCNode
  NoNode = "none"
  Children <- MCChildren
  Parent <- MCParent
  NameUpper <- MCName
  Thread = {t1, t2}
  Lib = {l1, l2}
  Nav = {n1}
  Buffer = {b1}
  File = {f1, f2}
  Built = {"r1", "r2"}
  Path <- MCPath
  Line <- MCLine
  MaxIndex = 1
SYMMETRY Symmetry
INVARIANTS
  ErrorIsOfLastCall
  NavigatorsStayInTheirLibrary
  NamesReadBack
