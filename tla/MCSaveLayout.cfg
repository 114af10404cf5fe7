SPECIFICATION Spec
CONSTANTS
    Configs <- MCConfigs
    SaveNames <- MCNames
    Asked <- MCAsked
    Earlier <- MCEarlier
    Directories <- MCDirectories
    Home = "home"
    MaxChanges = 2
    MaxStarts = 2
    Failures = TRUE
INVARIANTS
    Saved
PROPERTIES
    Restored
    Ends
CHECK_DEADLOCK FALSE
