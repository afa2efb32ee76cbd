------------------------------- MODULE Lists -------------------------------
(***************************************************************************)
(* What the library of Rust does to a list, where the operators of the     *)
(* Sequences module cannot be reasoned about.                              *)
(***************************************************************************)
EXTENDS Integers, Sequences

\* Iterator::filter and Vec::retain: the items of a list that are kept, in their order.
Filtered(s, keep) ==
    LET taken[k \in 0..Len(s)] ==
            IF k = 0 THEN <<>>
            ELSE IF s[k] \in keep THEN Append(taken[k - 1], s[k]) ELSE taken[k - 1]
    IN  taken[Len(s)]
=============================================================================
