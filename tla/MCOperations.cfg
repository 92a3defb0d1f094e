SPECIFICATION ModesSpec
CONSTANTS
    Docs = {d1, d2}
    BadDocs = {}
    Ids = {e1, e2, e3}
    NoId = NoId
    Actors = {nobody, alice}
    NoActor = nobody
    Clock = {1}
    Tabs = {t1, t2}
    Modes = {"single-user", "multi-user", "browser-local"}
    Legacy <- MCLegacy
    LegacyDocs = {d1}
    QueueLimit = 2
    LocalLimit = 2
    Network = 1
    Crashes = 1
    SaveErrors = 1
    Reloads = 1
    Offlines = 1
    MaxFaults <- MCMaxFaults
SYMMETRY Symmetry
INVARIANTS
    OperationsTypeOK
    SavedIsKept
    QueuedIsKept
PROPERTIES
    PromiseSafety
CHECK_DEADLOCK FALSE
