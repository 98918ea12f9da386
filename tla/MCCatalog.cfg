SPECIFICATION AllSpec
CONSTANTS
    Requests = {r1, r2}
    Connected = 1
    TTL = 1
    PageSize = 3
    MaxOthers = 1
    Engines = {"postgresql", "mysql"}
    Menu <- MCMenu
    Catalogs <- MCCatalog
    MaxTime = 1
    Offsets = {0}
    Parts = {"objects", "explorer", "view", "security", "restore", "connections", "databases", "users", "workspace"}
    Views = {"a", "b"}
    Principals = {"p", "q"}
    Privileges = {"x"}
    Artifacts = {"a", "b"}
    Invalid = {"b"}
    Servers = {1, 2}
    Capable = {1}
    Saved = {"c", "e"}
    Keeping = {"c"}
    Databases = {"db"}
    Pages = {1, 2}
    Acts <- MCActs
    Calls <- MCCalls
    MaxFails = 1
    MaxEvents = 1
INVARIANTS
    AnswersAreTrue
    ExplorerIsTrue
    OneOperationAtATime
    WorkspaceIsTrue
PROPERTIES
    OnlyNamedIsLost
SYMMETRY Symmetry
CHECK_DEADLOCK FALSE
