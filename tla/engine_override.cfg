\* A configured server no scan can find.
SPECIFICATION LiveSpec
CONSTANTS
    e1 = e1
    e2 = e2
    Engines <- One
    Overrides <- One
    Detectable <- None
    Hinted <- None
    Dockerised <- None
    MaxIncarnation = 2
    GracePeriod = 1
    RetryCooldown = 1
    RefreshInterval = 2
    MetaAnswers <- MetaNamed
CHECK_DEADLOCK TRUE
PROPERTIES
    ConfiguredEngineIsShown
