\* An engine of each kind, scraped before it is busy again after a restart;
\* it may stop serving for good.
SPECIFICATION LiveSpec
CONSTANTS
    SkipRequests = 2
    Kinds = {"Vllm", "Sglang", "LlamaCpp"}
    Latency <- MCLatency
    Bounds <- MCBounds
    MaxServed = 5
    MaxTokens = 6
    MaxLives = 2
CHECK_DEADLOCK FALSE
INVARIANTS
    TypeOK
    RatesAreSound
    LiveCountIsHonest
    WarmupIsExcluded
    LatenciesAreMeasured
PROPERTIES
    WarmupEnds
