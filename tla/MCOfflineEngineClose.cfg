SPECIFICATION OfflineSpec
CONSTANTS
    Imports = {}
    Openers = {o1}
    Queries = {q1, q2}
    Closers = {c1, c2}
    NoEngine = NoEngine
    MaxProgress = 0
INVARIANTS
    CloseWaitsForWork
CHECK_DEADLOCK FALSE
