SPECIFICATION Spec
CONSTANTS
    MaxSockets = 2
    Channels = {job, status}
    MaxConnections = 1
    MaxSubscriptions = 1
    MaxLogins = 2
    MaxChanges = 2
    MaxFaults = 1
INVARIANTS OneSocket
PROPERTIES Resubscribed EndedIsCutOff
CHECK_DEADLOCK FALSE
