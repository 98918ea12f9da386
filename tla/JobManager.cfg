SPECIFICATION FairSpec
CONSTANTS
    MaxJobs = 3
    Concurrency = 2
    MaxProgress = 2
    Reporters = {1}
    Waiters = {w1}
INVARIANTS
    PoolIsSound
    EndsAreTrue
    ProgressIsTrue
PROPERTIES
    ImplementsService
    EveryWaiterServed
CHECK_DEADLOCK FALSE
