SPECIFICATION Spec
CONSTANTS
    Runs = {1, 2}
    Databases = {"d1", "d2"}
    MaxPolls = 2
    MaxEvents = 1
    MaxActs = 3
PROPERTIES
    TabNotStranded
CHECK_DEADLOCK FALSE
