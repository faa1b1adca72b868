------------------------------ MODULE SeqWithout ------------------------------
(***************************************************************************)
(* A list with some of its members left out, written as SelectSeq is       *)
(* defined but with a set for the test, so that it can be reasoned about.  *)
(***************************************************************************)
EXTENDS Naturals, Sequences

Without(s, X) ==
  LET rest[i \in 0..Len(s)] ==
        IF i = 0 THEN <<>>
        ELSE IF s[i] \in X THEN rest[i - 1] ELSE Append(rest[i - 1], s[i])
  IN  rest[Len(s)]

===============================================================================
