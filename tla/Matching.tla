------------------------------ MODULE Matching ------------------------------
(***************************************************************************)
(* How one word the user typed is compared with one topic name: the text   *)
(* predicates of dec-hlp/src/engine.rs.  A string is a sequence of         *)
(* characters, and a character is a value of Char.                         *)
(***************************************************************************)
EXTENDS Naturals, Sequences, SequencesExt

CONSTANTS Char,       \* the characters of topic names and of typed words
          AsciiUpper  \* what str::to_ascii_uppercase makes of each of them

Star == "*"      \* stands for any run of characters
Percent == "%"   \* stands for exactly one character

\* Folding is idempotent; it leaves the two wildcard characters alone, and makes
\* them of nothing else.
ASSUME CharAssumption ==
  /\ AsciiUpper \in [Char -> Char]
  /\ \A c \in Char : AsciiUpper[AsciiUpper[c]] = AsciiUpper[c]
  /\ \A c \in Char : {c, AsciiUpper[c]} \cap {Star, Percent} # {} => AsciiUpper[c] = c

ToAsciiUppercase(s) == [i \in DOMAIN s |-> AsciiUpper[s[i]]]

IsWildcard(s) == \E i \in DOMAIN s : s[i] \in {Star, Percent}

\* Mutant: only the character itself matches, as if % were an ordinary one.
OnlyItself(p, c) == p = c

CharMatches(p, c) == p \in {Percent, c}

\* at[i]: where in the candidate what is left of it has to begin, for the pattern
\* from its i-th character on to match it.  A Star tries every number of skipped
\* characters.
WildcardMatch(pat, cand) ==
  LET at[i \in 1..(Len(pat) + 1)] ==
        {j \in 1..(Len(cand) + 1) :
           IF i > Len(pat) THEN j > Len(cand)
           ELSE IF pat[i] = Star
                THEN \E skip \in 0..(Len(cand) + 1 - j) : j + skip \in at[i + 1]
                ELSE /\ j <= Len(cand)
                     /\ CharMatches(pat[i], cand[j])
                     /\ j + 1 \in at[i + 1]}
  IN  1 \in at[1]
=============================================================================
