---------------------------- MODULE Subsequence -----------------------------
(***************************************************************************)
(* A list comprehension with a condition, [x for x in s if x in keep]: the *)
(* elements of s that are in keep, in their order.  It is SelectSeq with a *)
(* set for its test, written as a recursive function so that it can be     *)
(* reasoned about: the provers know nothing of SelectSeq.                  *)
(***************************************************************************)
EXTENDS Integers, Sequences

Kept(s, keep) ==
    LET kept[n \in 0 .. Len(s)] ==
            IF n = 0 THEN << >>
            ELSE IF s[n] \in keep THEN Append(kept[n - 1], s[n])
            ELSE kept[n - 1]
    IN  kept[Len(s)]
=============================================================================
