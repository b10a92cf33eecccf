CONSTANTS
    None = None
    Hosts <- MCHosts
    MaxTicks = 4
    MaxCount = 3
    Capacity = 2
    Window = 1
    MaxBreaks = 2

SPECIFICATION Spec

INVARIANT TypeOK
INVARIANT SnapshotIsOfThisMachine
PROPERTY ShownNeverGoesBack
PROPERTY LiveViewIsLive
