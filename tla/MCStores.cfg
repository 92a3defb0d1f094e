SPECIFICATION StoresSpec
CONSTANTS
    Ids = {e1, e2}
    NoId = NoId
    Docs = {d1, d2}
    Actors = {alice}
    Clock = {1, 2, 3}
    MaxRecords = 3
    Requests = {r1, r2, r3}
    Tiles = {t1}
    Sources = {s1, s2}
    Capacities = {1, 2}
    NoFlight = NoFlight
    Failed = Failed
    MaxUpdates = 1
    Importers = {m1, m2}
    Openings = {n1, n2, n3}
    Lockers = {m1, m2, n1, n2}
    Parties = {{m1, m2}, {m1, n1}, {n1, n2, n3}}
    Options = {everyday, firefighting}
    Contents = {1, 2}
    Absent = Absent
    Torn = Torn
    MaxCalls = 2
    MaxDeaths = 1
SYMMETRY Symmetry
INVARIANTS
    StoresTypeOK
    OneRecordPerEvent
    RestartInvisible
    ListingInOrder
    AnsweredIsDurable
    ServedFromItsSource
    SharedWhileWanted
PROPERTIES
    LogAppendOnly
    RegionAppearsWhole
CHECK_DEADLOCK FALSE
