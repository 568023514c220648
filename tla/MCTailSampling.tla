--------------------------- MODULE MCTailSampling ---------------------------
(***************************************************************************)
(* Small instances of TailSampling: two spans of trace A (one fast, one    *)
(* that failed), a slow span of trace B and a span of trace C that was     *)
(* never ended (end = 0 < start).  Time stamps have 3 bits.                *)
(***************************************************************************)
EXTENDS TailSampling

CONSTANTS a1, a2, b1, c1, A, B, C

Info(trace, error, start, end) ==
    [trace |-> trace, error |-> error, start |-> start, end |-> end]

AllInfo == (a1 :> Info(A, FALSE, 1, 2)) @@ (a2 :> Info(A, TRUE, 2, 3))
           @@ (b1 :> Info(B, FALSE, 0, 3)) @@ (c1 :> Info(C, FALSE, 3, 0))
MCSpanInfo == [s \in Spans |-> AllInfo[s]]

(* Errors, or traces that are slow and have at least one span.             *)
MCPolicies ==
    {[kind |-> "error"],
     [kind |-> "and", subs |-> {[kind |-> "latency", min |-> 2],
                                [kind |-> "count", min |-> 1]}]}
=============================================================================
