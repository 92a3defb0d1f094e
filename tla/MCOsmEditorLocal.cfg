SPECIFICATION Spec
CONSTANTS
    Osm <- OsmElements
    Worlds <- SecretWorld
    Files <- Backups
    Places = {"p", "q", "x"}
    UserTags = {"t"}
    Nowhere = Nowhere
    MaxDrafts = 4
    MaxNodes = 4
    MaxMembers = 2
    UndoLimit = 1
    MaxLive = 0
    MaxLocal = 1
    MaxJobs = 1
    StorageFails = FALSE
INVARIANT ConfidentialStaysLocal
CHECK_DEADLOCK FALSE
