-------------------------------- MODULE Lists --------------------------------
(***************************************************************************)
(* Operations on lists that the widgets share, in a form that can be       *)
(* reasoned about.                                                         *)
(***************************************************************************)
EXTENDS Naturals, Sequences

\* The list s without its elements that are in X, as a loop over it that
\* splices them out leaves it.
Without(s, X) ==
  LET kept[i \in 0..Len(s)] ==
        IF i = 0 THEN <<>>
        ELSE IF s[i] \in X THEN kept[i - 1] ELSE Append(kept[i - 1], s[i])
  IN kept[Len(s)]
=============================================================================
