\* Two clients of one container that writes up to three lines, the last one
\* perhaps without its newline, stops and starts; the channel holds two.
SPECIFICATION LiveSpec
CONSTANTS
    c1 = c1
    s1 = s1
    s2 = s2
    Containers <- OneContainer
    Sockets <- TwoSockets
    Capacity = 2
    TailLines = 0
    MaxOutput = 5
    MaxStreams = 2
CHECK_DEADLOCK TRUE
INVARIANTS
    TypeOK
    RegistryIsExact
    LogIsReadInOrder
    FirstClientMissesNothing
PROPERTIES
    NobodyIsLeftHanging
