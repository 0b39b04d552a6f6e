------------------------------ MODULE TextUtils ------------------------------
(***************************************************************************)
(* The searches of util/data/text_utils.cpp that the golden test runner    *)
(* uses.  A text is a sequence of characters, an iterator the position it  *)
(* stands at: 1 .. Len(input) + 1, where the last one is the end.          *)
(***************************************************************************)
EXTENDS Naturals, Sequences

AtEnd(input, position) == position > Len(input)

(* find_after() never goes back: after a mismatch it goes on BEHIND the    *)
(* character that did not match, so it never tries the positions inside a  *)
(* partial match.  at holds its three iterators: the start of the match,   *)
(* the current character, and what has matched of the substring.           *)
FindAfter(input, substring, from) ==
  LET positions == 1 .. Len(input) + 1
      Loop[at \in positions \X positions \X (0 .. Len(substring))] ==
        LET current == at[2]
            matched == at[3]
        IN  IF matched = Len(substring) THEN at[1]
            ELSE IF AtEnd(input, current) THEN current
            ELSE IF input[current] = substring[matched + 1]
                 THEN Loop[<<at[1], current + 1, matched + 1>>]
                 ELSE Loop[<<current + 1, current + 1, 0>>]
  IN  Loop[<<from, from, 0>>]

Find(input, substring) == FindAfter(input, substring, 1)

Substr(input, from, to) == SubSeq(input, from, to - 1)
HeadText(input, to) == Substr(input, 1, to)
TailText(input, from) == Substr(input, from, Len(input) + 1)

-----------------------------------------------------------------------------
(* What a search is for.                                                   *)

OccursAt(input, substring, i) ==
  /\ i + Len(substring) <= Len(input) + 1
  /\ Substr(input, i, i + Len(substring)) = substring

Occurrences(input, substring, from) ==
  {i \in from .. Len(input) : OccursAt(input, substring, i)}

Occurs(input, substring) == Occurrences(input, substring, 1) # {}
=============================================================================
