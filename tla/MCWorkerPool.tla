---------------------------- MODULE MCWorkerPool ----------------------------
(* Small instances of WorkerPool; the .cfg files give the constants.       *)
EXTENDS WorkerPool
=============================================================================
