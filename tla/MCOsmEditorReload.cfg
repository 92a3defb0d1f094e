SPECIFICATION Spec
CONSTANTS
    Osm <- OsmElements
    Worlds <- OneWayWorld
    Files <- Backups
    Places = {"p"}
    UserTags = {"t"}
    Nowhere = Nowhere
    MaxDrafts = 2
    MaxNodes = 4
    MaxMembers = 2
    UndoLimit = 1
    MaxLive = 0
    MaxLocal = 0
    MaxJobs = 1
    StorageFails = FALSE
INVARIANT DraftsSurviveReload
CHECK_DEADLOCK FALSE
