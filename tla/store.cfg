\* Two requests at a time, through failures, restarts and power failures.
SPECIFICATION Spec
CONSTANTS
    c1 = c1
    c2 = c2
    d1 = d1
    d2 = d2
    NoDoc = NoDoc
    Torn = Torn
    Conns <- TwoConns
    Docs <- TwoDocs
    MaxStores = 2
SYMMETRY Interchangeable
INVARIANTS
    TypeOK
    DocumentIsWhole
    NoWriterHasTheDocument
PROPERTIES
    ImplementsAtomicDocument
