SPECIFICATION AllSpec
CONSTANTS
    Requests = {r1, r2}
    Connected = 1
    TTL = 1
    PageSize = 3
    MaxOthers = 1
    Engines = {"postgresql"}
    Menu <- MCGrants
    Catalogs <- MCCatalogs
    MaxTime = 0
    Offsets = {}
    Parts = {"objects"}
    Views = {"a", "b"}
    Principals = {"p", "q"}
    Privileges = {"x"}
    Artifacts = {"a", "b"}
    Invalid = {"b"}
    Servers = {1, 2}
    Capable = {1}
    Saved = {"c", "e"}
    Keeping = {"c"}
    Databases = {"db"}
    Pages = {1, 2}
    Acts <- MCActs
    Calls <- MCCalls
    MaxFails = 1
    MaxEvents = 1
INVARIANT ChangeSetIsAtomic
SYMMETRY Symmetry
CHECK_DEADLOCK FALSE
