-------------------------- MODULE MCBatchProcessor --------------------------
(***************************************************************************)
(* Small instances of BatchProcessor: spans of two resources.              *)
(***************************************************************************)
EXTENDS BatchProcessor

CONSTANTS s1, s2, s3, s4, r1, r2
MCResourceOf == [s \in Spans |-> IF s \in {s1, s3} THEN r1 ELSE r2]
=============================================================================
