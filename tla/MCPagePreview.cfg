SPECIFICATION Spec
CONSTANTS
    Zooms = {6, 15}
    MaxMoves = 2
    MaxRequests = 2
    MaxEdits = 1
    TileSources <- Sources
    NoSource = NoSource
    MaxSwitches = 3
    Online = {o1, o2}
    NoChoice = NoChoice
    MaxClicks = 2
    MaxComputations = 2
    MaxStops = 3
    MaxVias = 1
    MaxKeys = 3
INVARIANT PreviewIsWhatIsSaved
CHECK_DEADLOCK FALSE
