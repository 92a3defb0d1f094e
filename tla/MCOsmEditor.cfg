SPECIFICATION Spec
CONSTANTS
    Osm <- OsmElements
    Worlds <- AllWorlds
    Files <- Backups
    Places = {"p"}
    UserTags = {"t"}
    Nowhere = Nowhere
    MaxDrafts = 3
    MaxNodes = 4
    MaxMembers = 2
    UndoLimit = 2
    MaxLive = 1
    MaxJobs = 2
    MaxLocal = 1
    StorageFails = FALSE
INVARIANTS
    EditorTypeOK
    WorkspacesAreSound
    ExportInOrder
PROPERTIES
    HistoryIsALine
    DraftsAreKept
CHECK_DEADLOCK FALSE
