SPECIFICATION FairOfflineMapSpec
CONSTANTS
    Builds = {1, 2, 3}
    Startup = Startup
    Backfill = Backfill
    Nothing = Nothing
    MaxCrashes = 1
    Imports = {i1}
    Openers = {o1}
    Queries = {q1}
    Closers = {c1, c2}
    NoEngine = NoEngine
    MaxProgress = 1
INVARIANTS
    OfflineMapTypeOK
    ServedPairMatches
    NoUseAfterClose
    EnginesAreOwned
    NoMissedWakeup
PROPERTIES
    ReadyServesTheBuild
    StatusFollowsTheBuild
    OwnersKeepTheirEngine
    CallsEnd
CHECK_DEADLOCK FALSE
