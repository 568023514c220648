---------------------------- MODULE FifoDelivery ----------------------------
(***************************************************************************)
(* What a trace buffer of ginger promises its callers, whatever it is made *)
(* of: items are taken in one after another while the buffer is open, and  *)
(* handed on in that order, each of them once.  A buffer that was closed   *)
(* stays closed, and may call itself finished only when nothing it took in *)
(* is left; from then on nothing changes any more.                         *)
(*                                                                         *)
(* BoundedQueue, BatchProcessor and Pipeline are shown to implement it.    *)
(***************************************************************************)
EXTENDS Sequences, SequencesExt

VARIABLES
    open,       \* TRUE while items may still be taken in
    accepted,   \* the items taken in so far, oldest first
    done,       \* the items handed on so far, oldest first
    finished    \* TRUE once the owner was told that the buffer is drained

fifoVars == <<open, accepted, done, finished>>

FifoInit ==
    /\ open = TRUE
    /\ accepted = << >>
    /\ done = << >>
    /\ finished = FALSE

(* Items are only ever appended, and only to an open buffer.               *)
Accept ==
    /\ open
    /\ IsPrefix(accepted, accepted')
    /\ UNCHANGED <<open, done, finished>>

(* A batch of the oldest items leaves; none is skipped, none leaves twice. *)
Deliver ==
    /\ IsPrefix(done, done')
    /\ IsPrefix(done', accepted)
    /\ ~finished
    /\ UNCHANGED <<open, accepted, finished>>

Close ==
    /\ open
    /\ open' = FALSE
    /\ UNCHANGED <<accepted, done, finished>>

Finish ==
    /\ ~open
    /\ done = accepted
    /\ finished' = TRUE
    /\ UNCHANGED <<open, accepted, done>>

FifoNext == Accept \/ Deliver \/ Close \/ Finish

FifoSpec == FifoInit /\ [][FifoNext]_fifoVars
=============================================================================
