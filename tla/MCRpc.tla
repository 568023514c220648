-------------------------------- MODULE MCRpc --------------------------------
(***************************************************************************)
(* Small instances of Rpc: over TLS two unary calls, one whose frame does  *)
(* not decode and a streaming one with an empty answer; one cleartext call.*)
(***************************************************************************)
EXTENDS Rpc

RpcCall(tls, method, frame, spans) ==
    [tls |-> tls, method |-> method, frame |-> frame, spans |-> spans]

MCRpcCalls ==
    {RpcCall(TRUE, "unary", "good", 1), RpcCall(TRUE, "unary", "good", 2),
     RpcCall(FALSE, "unary", "good", 1), RpcCall(TRUE, "unary", "malformed", 1),
     RpcCall(TRUE, "stream", "good", 0)}
=============================================================================
