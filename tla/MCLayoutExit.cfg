SPECIFICATION FairSpec
CONSTANTS
    None = None
    Session = {s1}
    Tab = {t1}
    Pane = {p1, p2, p3}
    Sizes = {z1}
    PopupKinds = {"rename_tab", "other"}
    HardResetBound = TRUE
    PopupClicks = TRUE
    LateKeys = FALSE
    MaxEvents = 2
INVARIANTS
    PopupOK
PROPERTIES
    ExitedPaneRemoved
CHECK_DEADLOCK FALSE
