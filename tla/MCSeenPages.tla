----------------------------- MODULE MCSeenPages ----------------------------
(***************************************************************************)
(* Two runs at a time and names of one part and of two, so that a file can *)
(* be cut inside a name and one save can end inside a line of another.     *)
(***************************************************************************)
EXTENDS SeenPages

Short == <<"ls">>
Long == <<"git", "log">>
MCPage == {Short, Long}
\* A page of a Perl module or of a C++ class
ColonPage == {Short, <<"file", Colon, Colon, "spec">>}
=============================================================================
