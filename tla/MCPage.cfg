SPECIFICATION Spec
CONSTANTS
    Zooms = {6, 15}
    MaxMoves = 2
    MaxRequests = 2
    MaxEdits = 2
    TileSources <- Sources
    NoSource = NoSource
    MaxSwitches = 3
    Online = {o1, o2}
    NoChoice = NoChoice
    MaxClicks = 2
    MaxComputations = 3
    MaxStops = 3
    MaxVias = 1
    MaxKeys = 3
INVARIANTS
    PageTypeOK
    OnlyWantedIsDrawn
    LayersFitTheMap
    NotReplacedUnasked
    BusyWhilePending
    StopNumbersDiffer
    NewestSuggestions
PROPERTIES
    NewestViewIsDrawn
    NewestSwitchWins
    BuildIsFollowed
    AbandonedIsNotDrawn
SYMMETRY Symmetry
CHECK_DEADLOCK FALSE
