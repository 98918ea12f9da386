SPECIFICATION AllSpec
CONSTANTS
    Users = {u1, u2}
    Passwords = {p1, p2}
    First = p1
    Calls = {c1, c2, c3}
    NoCall = nocall
    MaxTime = 3
    Idle = 2
    Absolute = 3
    Touch = 1
    Limit = 1
    Window = 1
    MaxBlock = 2
    Owners = {"ann", "root"}
    Admins = {"root"}
    Ids = {"c1", "c2"}
    Labels = {"a", "b"}
    Groups = {"g"}
    MaxActs = 3
INVARIANTS
    AccountsAreSafe
    AttemptsAreLimited
    ProfilesAreSound
PROPERTIES
    EndedStaysEnded
CHECK_DEADLOCK FALSE
SYMMETRY Symmetry
