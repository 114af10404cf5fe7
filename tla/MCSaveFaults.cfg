\* Each is refuted: tlc -continue names them all.
SPECIFICATION Spec
CONSTANTS
    Configs <- MCConfigs
    SaveNames <- MCNames
    Asked = {}
    Earlier <- MCEarlier
    Directories <- MCDirectories
    Home = "home"
    MaxChanges = 1
    MaxStarts = 1
    Failures = FALSE
INVARIANTS
    EndJoinFree
    FullScreenSaved
    QuitKeepsLayout
CHECK_DEADLOCK FALSE
