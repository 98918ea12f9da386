SPECIFICATION AllSpec
CONSTANTS
    Parts = {"editor", "library", "browser", "grid", "tables", "designer"}
    Runs = {1, 2}
    Databases = {"d1", "d2"}
    Users = {"u1", "u2"}
    Conns = {"c1", "c2"}
    OwnerOf <- MCOwnerOf
    Limits = {1, 2}
    DefaultLimit = 3
    Reader = "u1"
    SavedNames = {"n"}
    RowKeys = {2, 3}
    Vals = {"w"}
    Absent = "absent"
    PageSize = 1
    Muts = {m1, m2}
    Filters = {{1, 2, 3}, {1, 3}}
    GridSize = 2
    Bounds <- MCBounds
INVARIANTS
    MutationsAreWhole
    ShownIsAsked
    DesignIsTrue
    DesignIsReached
PROPERTIES
    EndedStaysShown
    RetentionFollowsSetting
SYMMETRY Symmetry
CHECK_DEADLOCK FALSE
