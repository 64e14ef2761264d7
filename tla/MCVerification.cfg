SPECIFICATION FairSpec
CONSTANTS
    NoEntry = NoEntry
    NoCode = NoCode
    Registries <- AllRegistries
    PathsIncluding <- SourceFiles
    Times = 3
    DailyLimit = 4
    MaxDiskFaults = 1
INVARIANTS
    TypeOK
    FilesAccounted
PROPERTIES
    NoCallGivenUpEarly
    VerificationEnds
CHECK_DEADLOCK FALSE
