SPECIFICATION AllSpec
CONSTANTS
    c1 = c1
    u1 = u1
    Conns = {c1}
    Users = {u1}
    Owner <- MCOwner
    Requests = {r1, r2, r3}
    Nobody = nobody
    AuditMayFail = TRUE
    Engines = {"postgresql", "mysql"}
    Clients = {1}
    Statements = {1, 2}
    Cancels = {1, 2}
    Transactions = 4
INVARIANTS
    RegistryIsTrue
    NothingRevives
    AdaptersAreTrue
PROPERTIES
    EveryRequestEnds
    CancelEndsStatement
CHECK_DEADLOCK FALSE
