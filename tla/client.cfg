\* Two tabs over one server, two writes between them.
SPECIFICATION Spec
CONSTANTS
    t1 = t1
    t2 = t2
    Tabs <- TwoTabs
    Opened <- AtPage
    MaxWrites = 2
SYMMETRY Interchangeable
CHECK_DEADLOCK TRUE
INVARIANTS
    TypeOK
    ShownWasStored
PROPERTIES
    NothingIsReplacedUntold
    SessionOutlivesFailure
