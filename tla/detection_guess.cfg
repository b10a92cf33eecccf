\* The same hosts: a container whose port had to be guessed.
SPECIFICATION Spec
CONSTANTS
    Natives <- Families
    Scenes <- AnyScene
CHECK_DEADLOCK TRUE
INVARIANT WrongGuessIsRejected
