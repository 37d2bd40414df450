----------------------------- MODULE TopicNames -----------------------------
(***************************************************************************)
(* What becomes of a topic name between the line of a source file that     *)
(* gives it and the reader who types it: parse_header_line() of            *)
(* dec-hlp/src/source.rs, the name fields of a node record in builder.rs   *)
(* and library.rs, and trim() before a typed line is looked up.            *)
(***************************************************************************)
EXTENDS Matching, FiniteSets, FiniteSetsExt

CONSTANTS CodePoint,       \* the number of each character
          Width,           \* the bytes of it in UTF-8
          Upper,           \* Upper[c]: what str::to_uppercase makes of c
          White,           \* the characters str::trim takes off
          Blank,           \* space and tab
          Digit,           \* the digits "1" to "9" and the levels they stand for
          Nul,             \* the character U+0000
          MAX_NAME_LENGTH, \* the longest name parse() takes, in bytes (31)
          NAME_FIELD_SIZE  \* the bytes of a name field (32)

ASSUME NamesAssumption ==
  /\ CodePoint \in [Char -> Nat]
  /\ Width \in [Char -> 1..4] /\ Upper \in [Char -> Seq(Char)]
  /\ \A c \in Char : Width[c] = 1 => Upper[c] = <<AsciiUpper[c]>>
  /\ \A c \in Char : Width[c] > 1 => AsciiUpper[c] = c
  /\ \A c \in Char : Width[AsciiUpper[c]] = Width[c]
  /\ Blank \subseteq White /\ White \subseteq Char
  /\ Digit \in [DOMAIN Digit -> 1..9] /\ DOMAIN Digit \subseteq Char
  /\ Nul \in Char \ White /\ Width[Nul] = 1
  /\ \A c \in Char : Nul \in ToSet(Upper[c]) <=> c = Nul
  /\ \A c \in Char \ {Nul} : CodePoint[Nul] < CodePoint[c]
  /\ MAX_NAME_LENGTH \in Nat /\ NAME_FIELD_SIZE \in Nat
  /\ MAX_NAME_LENGTH < NAME_FIELD_SIZE
-----------------------------------------------------------------------------
\* Text

TrimStart(s, S) ==
  SubSeq(s, Min({i \in DOMAIN s : s[i] \notin S} \cup {Len(s) + 1}), Len(s))
TrimEnd(s, S) ==
  SubSeq(s, 1, Max({i \in DOMAIN s : s[i] \notin S} \cup {0}))
Trim(s) == TrimEnd(TrimStart(s, White), White)

ToUppercase(s) == FlattenSeq([i \in DOMAIN s |-> Upper[s[i]]])

\* A byte is the k-th of a character.
Bytes(s) == FlattenSeq([i \in DOMAIN s |-> [k \in 1..Width[s[i]] |-> <<s[i], k>>]])
-----------------------------------------------------------------------------
\* Header lines

\* A digit, a blank, and something that is not blank.
IsHeader(line) ==
  /\ Len(line) >= 2
  /\ line[1] \in DOMAIN Digit /\ line[2] \in Blank
  /\ TrimStart(Tail(line), Blank) # <<>>

HeaderLevel(line) == Digit[line[1]]

\* What is not blank may still be white, and then the name is empty.
HeaderName(line) == TrimEnd(TrimStart(Tail(line), Blank), White)

\* Mutant: one byte more than the field keeps.
FitsField(line) == Len(Bytes(HeaderName(line))) <= NAME_FIELD_SIZE

\* parse() refuses the file when a name is longer: NameTooLong.
Accepted(line) == Len(Bytes(HeaderName(line))) <= MAX_NAME_LENGTH
-----------------------------------------------------------------------------
\* Name fields

\* make_name_field(): as many bytes as leave room for a terminator, wherever
\* that cuts, and zeros.
NameField(s) ==
  LET bytes == Bytes(s)
  IN  [i \in 1..NAME_FIELD_SIZE |->
         IF i <= Len(bytes) /\ i < NAME_FIELD_SIZE THEN bytes[i] ELSE <<Nul, 1>>]

\* from_utf8(): each first byte begins a character.
Chars(bytes) ==
  FlattenSeq([i \in DOMAIN bytes |-> IF bytes[i][2] = 1 THEN <<bytes[i][1]>> ELSE <<>>])

\* null_terminated_str(): nothing at all if the bytes end inside a character.
FromField(field) ==
  LET end == Min({i \in DOMAIN field : field[i][1] = Nul} \cup {Len(field) + 1})
      bytes == SubSeq(field, 1, end - 1)
  IN  IF bytes # <<>> /\ Last(bytes)[2] # Width[Last(bytes)[1]] THEN <<>>
      ELSE Chars(bytes)

\* NodeRef::name() and NodeRef::name_upper() of the topic a line begins
StoredName(line) == FromField(NameField(HeaderName(line)))

StoredUpper(line) == FromField(NameField(ToUppercase(HeaderName(line))))

\* The order of str, by which the builder sorts the topics of a table: it looks
\* at the whole upper-case names, before any is cut.
Before(s, t) ==
  \/ Len(s) < Len(t) /\ IsPrefix(s, t)
  \/ \E k \in DOMAIN s \cap DOMAIN t :
       /\ \A i \in 1..(k - 1) : s[i] = t[i]
       /\ CodePoint[s[k]] < CodePoint[t[k]]
SortedBefore(line, other) ==
  Before(ToUppercase(HeaderName(line)), ToUppercase(HeaderName(other)))
=============================================================================
