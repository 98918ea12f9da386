SPECIFICATION AllSpec
CONSTANTS
    Parts = {"grid"}
    Runs = {1, 2}
    Databases = {"d1", "d2"}
    Users = {"u1", "u2"}
    Conns = {"c1", "c2"}
    OwnerOf <- MCOwnerOf
    Limits = {1, 2}
    DefaultLimit = 3
    Reader = "u1"
    SavedNames = {"n"}
    RowKeys = {2, 3}
    Vals = {"w"}
    Absent = "absent"
    PageSize = 1
    Muts = {m1, m2}
    Filters = {{1, 2, 3}, {1, 3}}
    GridSize = 2
    Bounds <- MCBounds
PROPERTY DeletesWhatWasTicked
CHECK_DEADLOCK FALSE
