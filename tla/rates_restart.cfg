\* A llama-server first seen before it has finished a request, then restarted.
SPECIFICATION Spec
CONSTANTS
    SkipRequests = 1
    Kinds = {"LlamaCpp"}
    Latency <- MCLatency
    Bounds <- MCBounds
    MaxServed = 5
    MaxTokens = 4
    MaxLives = 2
CHECK_DEADLOCK FALSE
INVARIANT RestartIsNoticed
