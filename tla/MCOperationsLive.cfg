SPECIFICATION FairModesSpec
CONSTANTS
    Docs = {d1, d2, d3}
    BadDocs = {d2}
    Ids = {e1, e2, e3}
    NoId = NoId
    Actors = {nobody}
    NoActor = nobody
    Clock = {1}
    Tabs = {t1}
    Modes = {"single-user"}
    Legacy <- MCLegacy
    LegacyDocs = {d2}
    QueueLimit = 2
    LocalLimit = 1
    Network = 1
    Crashes = 1
    SaveErrors = 1
    Reloads = 0
    Offlines = 1
    MaxFaults <- MCMaxFaults
INVARIANTS
    QueueIsBounded
PROPERTIES
    PromiseKept
CHECK_DEADLOCK FALSE
