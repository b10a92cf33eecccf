\* One endpoint, found by detection, its launch command naming a model.
SPECIFICATION Spec
CONSTANTS
    e1 = e1
    e2 = e2
    Engines <- One
    Overrides <- None
    Detectable <- One
    Hinted <- One
    Dockerised <- One
    MaxIncarnation = 2
    GracePeriod = 1
    RetryCooldown = 2
    RefreshInterval = 2
    MetaAnswers <- MetaAll
CHECK_DEADLOCK TRUE
INVARIANTS
    TypeOK
    OfflineShowsNothing
    PidsAreCurrent
PROPERTIES
    RemovalNeedsSilence
    RequestsAreSpaced
    TickIsComplete
