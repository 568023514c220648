SPECIFICATION RpcSpec
CONSTANTS
    RpcCalls <- MCRpcCalls
    maxRetries = 1
    MaxAccepts = 2
    MaxCalls = 2
INVARIANT
    InvokeSuccessIsHandled
CHECK_DEADLOCK FALSE
