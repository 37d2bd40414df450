------------------------------ MODULE MCPython ------------------------------
(***************************************************************************)
(* Characters of one, two and three bytes ("e'" is the letter with an      *)
(* accent, "'n" the one that becomes two characters of together three      *)
(* bytes in capitals, "FF" the form feed), and fields of four bytes and    *)
(* a terminator.  Among the lines are names that just fit and that just do *)
(* not, whose capitals are cut at and inside a character, an empty one, a  *)
(* pattern, a question mark, one with a blank and one with a NUL inside.   *)
(***************************************************************************)
EXTENDS Python, TLC

Symmetry == Permutations(LibObj) \cup Permutations(NavObj)

Code ==
  [c \in {"a", "b", "A", "B", "N", "1", "2", "?", " ", Star, "FF", "NUL", "e'", "E'",
          "'n", "'"} |->
     CASE c = "NUL" -> 0  [] c = "FF" -> 12 [] c = " " -> 32  [] c = Star -> 42
       [] c = "1" -> 49   [] c = "2" -> 50  [] c = "?" -> 63  [] c = "A" -> 65
       [] c = "B" -> 66   [] c = "N" -> 78  [] c = "a" -> 97  [] c = "b" -> 98
       [] c = "E'" -> 201 [] c = "e'" -> 233 [] c = "'n" -> 329 [] c = "'" -> 700]
MCChar == DOMAIN Code
MCWidth == [c \in MCChar |-> IF Code[c] < 128 THEN 1 ELSE 2]
MCAsciiUpper == [c \in MCChar |-> CASE c = "a" -> "A" [] c = "b" -> "B" [] OTHER -> c]
MCUpper ==
  [c \in MCChar |-> CASE c = "e'" -> <<"E'">> [] c = "'n" -> <<"'", "N">>
                      [] OTHER -> <<MCAsciiUpper[c]>>]
MCDigit == [c \in {"1", "2"} |-> IF c = "1" THEN 1 ELSE 2]
MCWhite == {" ", "FF"}

\* The header lines of three source files: 1 to 17, 31 to 33, and 41
MCHeaderLine ==
  [n \in (0..17) \cup (30..33) \cup (40..41) |->
     CASE n = 1  -> <<"1", " ", "a">>
       [] n = 2  -> <<"2", " ", "a">>
       [] n = 3  -> <<"2", " ", " ", "a", " ", "b">>
       [] n = 4  -> <<"1", " ", "a", "B", " ">>
       [] n = 5  -> <<"1", " ", "a", "b", "a", "b">>
       [] n = 6  -> <<"1", " ", "b", "NUL", "a">>
       [] n = 7  -> <<"1", " ", "e'">>
       [] n = 8  -> <<"1", " ", "e'", "a">>
       [] n = 9  -> <<"1", " ", "'n">>
       [] n = 10 -> <<"1", " ", "'n", "'n">>
       [] n = 11 -> <<"1", " ", "a", "'n", "a">>
       [] n = 12 -> <<"1", " ", "a", "'n">>
       [] n = 13 -> <<"1", " ", "a", Star>>
       [] n = 14 -> <<"1", " ", "?">>
       [] n = 15 -> <<"1", " ", "FF", "a">>
       [] n = 16 -> <<"1", " ", "FF">>
       [] n = 17 -> <<"2", " ", "b">>
       [] n = 31 -> <<"1", " ", "B">>
       [] n = 32 -> <<"2", " ", "e'">>
       [] n = 33 -> <<"2", " ", "E'">>
       [] n = 41 -> <<"1", " ", "b", "b", "b", "b", "b">>
       [] OTHER  -> <<>>]

\* The files have their roots at 0, 30 and 40.
MCRoot == {0, 30, 40}
MCNode == DOMAIN MCHeaderLine
MCNoNode == 99

MCChildren ==
  [n \in MCNode |->
     CASE n = 0  -> <<16, 15, 14, 1, 13, 4, 5, 12, 11, 6, 7, 8, 9, 10>>
       [] n = 1  -> <<2, 3>>
       [] n = 16 -> <<17>>
       [] n = 30 -> <<31>>
       [] n = 31 -> <<32, 33>>
       [] n = 40 -> <<41>>
       [] OTHER  -> <<>>]
MCParent ==
  [n \in MCNode |->
     CASE n \in MCRoot   -> MCNoNode
       [] n \in {2, 3}   -> 1
       [] n = 17         -> 16
       [] n = 31         -> 30
       [] n \in {32, 33} -> 31
       [] n = 41         -> 40
       [] OTHER          -> 0]

\* What PythonAssumption says the fields hold of these names
MCName ==
  [n \in MCNode |->
     CASE n \in {1, 2}   -> <<"a">>
       [] n = 3          -> <<"a", " ", "b">>
       [] n = 4          -> <<"a", "B">>
       [] n = 5          -> <<"a", "b", "a", "b">>
       [] n \in {6, 17}  -> <<"b">>
       [] n \in {7, 32}  -> <<"e'">>
       [] n = 8          -> <<"e'", "a">>
       [] n = 9          -> <<"'n">>
       [] n = 10         -> <<"'n", "'n">>
       [] n = 11         -> <<"a", "'n", "a">>
       [] n = 12         -> <<"a", "'n">>
       [] n = 13         -> <<"a", Star>>
       [] n = 14         -> <<"?">>
       [] n = 15         -> <<"FF", "a">>
       [] n = 31         -> <<"B">>
       [] n = 41         -> <<"b", "b", "b", "b">>
       [] n = 33         -> <<"E'">>
       [] OTHER          -> <<>>]
MCNameUpper ==
  [n \in MCNode |->
     CASE n \in {1, 2}       -> <<"A">>
       [] n = 3              -> <<"A", " ", "B">>
       [] n = 4              -> <<"A", "B">>
       [] n = 5              -> <<"A", "B", "A", "B">>
       [] n \in {6, 17, 31}  -> <<"B">>
       [] n \in {7, 32, 33}  -> <<"E'">>
       [] n = 8              -> <<"E'", "A">>
       [] n = 9              -> <<"'", "N">>
       [] n \in {11, 12}     -> <<"A", "'", "N">>
       [] n = 13             -> <<"A", Star>>
       [] n = 14             -> <<"?">>
       [] n = 15             -> <<"FF", "A">>
       [] n = 41             -> <<"B", "B", "B", "B">>
       [] OTHER              -> <<>>]

MCLine == {<<>>, <<"?">>, <<" ", "a">>, <<"A", "b">>, <<"a", Star>>, <<"b">>, <<"FF">>,
           <<"e'">>, <<"E'">>, <<"a", "b", "a">>}
MCPath == {<<>>, <<<<"a">>>>, <<<<"B">>, <<"E'">>>>, <<<<"b">>>>, <<<<"A", "B">>>>}
=============================================================================
