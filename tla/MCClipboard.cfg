SPECIFICATION Spec
CONSTANTS
    MaxSelection = 2
    SystemSelections = {1}
    Identifiers = {1, 2}
    Empty = Empty
    Data = {Empty, a}
    Modes = {"System", "SystemWriteNoRead", "Local"}
    HasFeature = TRUE
    Timeout = 2
    MaxTime = 3
    MaxRequests = 3
PROPERTIES
    AnsweredOnce
    NoneOverdue
    RepliesCurrent
CHECK_DEADLOCK FALSE
