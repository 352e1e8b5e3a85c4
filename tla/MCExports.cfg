CONSTANTS
    Records = {r1}
    Tables <- MCTables
    DaysPerYear = 3
    LastDay = 4
    MaxSchedules = 3
    Missing = Missing
    Kinds = 2
    MaxRecords = 3
    Objects = {d1, d2}
    Alerts = {a, b}
    ChunkSize = 1
    MaxVersion = 2
    NoFile = NoFile
    LastDate = 3
    MaxRows = 1
    MaxRounds = 2
    MaxReleases = 1
    None = None
    MaxTroubles <- MCTroubles

SPECIFICATION Spec
CHECK_DEADLOCK FALSE

INVARIANTS
    TypeOK
    ArchiveIsTimetable
    GlidesAreKept
    AlertsAreExported
    
    
