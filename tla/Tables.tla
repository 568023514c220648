------------------------------- MODULE Tables -------------------------------
(***************************************************************************)
(* Go maps and counters kept in them, as functions whose domain grows.     *)
(* Joined and Total are `@@' of TLC and a sum over the domain, in forms    *)
(* that proofs can unfold: the total of a table of natural numbers is the  *)
(* number of pairs of a key and a number up to its value.                  *)
(***************************************************************************)
EXTENDS Integers, FiniteSets

(* The table with the entries of f, and those of g for the other keys.     *)
Joined(f, g) ==
    [x \in DOMAIN f \cup DOMAIN g |-> IF x \in DOMAIN f THEN f[x] ELSE g[x]]

(* The table f with the entry v under the key k.                           *)
WithEntry(f, k, v) == [x \in DOMAIN f \cup {k} |-> IF x = k THEN v ELSE f[x]]

(* The units a table counts, and how many they are.                        *)
UnitsOf(f) == UNION {{x} \X (1 .. f[x]) : x \in DOMAIN f}
Total(f) == Cardinality(UnitsOf(f))

(* The sum of a table of integers: what its positive entries add up to,    *)
(* less what its negative ones do.                                         *)
Rises(f) == [x \in DOMAIN f |-> IF f[x] > 0 THEN f[x] ELSE 0]
Falls(f) == [x \in DOMAIN f |-> IF f[x] < 0 THEN -f[x] ELSE 0]
Balance(f) == Total(Rises(f)) - Total(Falls(f))
=============================================================================
