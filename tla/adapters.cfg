CONSTANTS
    None = None
    Launches <- MCLaunches
    Hints <- MCHints
    Models = {"m"}
    MaxStarts = 2
    MaxLost = 1

SPECIFICATION Spec
CHECK_DEADLOCK FALSE

INVARIANT TypeOK
INVARIANT ModelIsOfThisServer
PROPERTY ReportCatchesUp
PROPERTY IdleServerSleeps
