\* Liveness of one detectable endpoint that is also configured by hand.
SPECIFICATION LiveSpec
CONSTANTS
    e1 = e1
    e2 = e2
    Engines <- One
    Overrides <- One
    Detectable <- One
    Hinted <- None
    Dockerised <- None
    MaxIncarnation = 2
    GracePeriod = 1
    RetryCooldown = 1
    RefreshInterval = 2
    MetaAnswers <- MetaKeyed
CHECK_DEADLOCK TRUE
PROPERTIES
    LiveEngineIsShown
    DeadEngineIsDropped
    ModelCatchesUp
