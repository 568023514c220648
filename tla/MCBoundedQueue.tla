--------------------------- MODULE MCBoundedQueue ---------------------------
(***************************************************************************)
(* Small instances of BoundedQueue.  Producers, consumers and items are    *)
(* interchangeable model values.                                           *)
(***************************************************************************)
EXTENDS BoundedQueue, TLC

QueueSymmetry ==
    Permutations(Producers) \cup Permutations(Consumers) \cup Permutations(Items)
=============================================================================
