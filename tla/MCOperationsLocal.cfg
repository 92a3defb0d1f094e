SPECIFICATION FairModesSpec
CONSTANTS
    Docs = {d1, d2}
    BadDocs = {}
    Ids = {e1, e2, e3}
    NoId = NoId
    Actors = {nobody}
    NoActor = nobody
    Clock = {1}
    Tabs = {t1}
    Modes = {"browser-local"}
    Legacy <- MCLegacy
    LegacyDocs = {}
    QueueLimit = 2
    LocalLimit = 1
    Network = 1
    Crashes = 1
    SaveErrors = 1
    Reloads = 1
    Offlines = 1
    MaxFaults <- MCMaxFaults
PROPERTIES
    QueuedIsTransferred
CHECK_DEADLOCK FALSE
