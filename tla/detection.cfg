\* Hosts with two or three processes of their own and one container, whose port
\* may have to be guessed; everything asked of Docker and of the servers may fail.
SPECIFICATION Spec
CONSTANTS
    Natives <- Families
    Scenes <- AnyScene
CHECK_DEADLOCK TRUE
INVARIANTS
    OneServerOneEngine
    ProcessHasOneEngine
    ChildIsNeverAnEngine
    EveryServerIsFound
