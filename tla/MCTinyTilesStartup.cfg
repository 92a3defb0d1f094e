SPECIFICATION Spec
CONSTANTS
    Builds = {b1, b2, b3}
    Startup = Startup
    Backfill = Backfill
    Nothing = Nothing
    MaxCrashes = 2
INVARIANTS
    OneBuildAtATime
CHECK_DEADLOCK FALSE
