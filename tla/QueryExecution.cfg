SPECIFICATION FairSpec
CONSTANTS
    MaxCalls = 2
    MaxStatements = 2
    Tabs = {t1}
    Dbs = {d1, d2}
INVARIANTS
    RunsAreTrue
    SessionsAreTrue
PROPERTIES
    StepsAreSafe
    EveryCallEnds
CHECK_DEADLOCK FALSE
