SPECIFICATION AllSpec
CONSTANTS
    Tasks = {t1, t2}
    Users = {u1, u2}
    Names = {n1, n2}
    MaxActive = 1
    MaxCrashes = 1
    DumpEngines = {"postgresql", "mysql"}
    DumpChunks = 3
INVARIANTS
    FilesAreTrue
    ToolsAreTrue
    ImportIsTrue
PROPERTIES
    ExpiredGoesAway
    HeardCancelEnds
CHECK_DEADLOCK FALSE
