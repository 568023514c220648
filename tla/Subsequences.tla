---------------------------- MODULE Subsequences ----------------------------
(***************************************************************************)
(* The subsequences that a loop over a slice leaves: `kept = append(kept,  *)
(* e)` for the elements that pass a test.  Keep is SelectSeq with the test *)
(* given as a set, written as a recursive function so that proofs can      *)
(* unfold it.                                                              *)
(***************************************************************************)
EXTENDS Integers, Sequences

(* The elements of s that are in S, in their order.                        *)
Keep(s, S) ==
    LET kept[n \in 0 .. Len(s)] ==
            IF n = 0 THEN << >>
            ELSE IF s[n] \in S THEN Append(kept[n - 1], s[n]) ELSE kept[n - 1]
    IN  kept[Len(s)]

(* s gives its elements in the order in which t has them.                  *)
InOrderOf(s, t) ==
    \A i, j \in DOMAIN s : i < j =>
        \E k, l \in DOMAIN t : k < l /\ t[k] = s[i] /\ t[l] = s[j]
=============================================================================
