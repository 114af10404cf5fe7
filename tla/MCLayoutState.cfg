SPECIFICATION Spec
CONSTANTS
    None = None
    Session = {s1, s2}
    Tab = {t1, t2, t3}
    Pane = {p1, p2, p3}
    Sizes = {z1, z2}
    PopupKinds = {"find_tab", "find_session"}
    HardResetBound = FALSE
    PopupClicks = FALSE
    LateKeys = TRUE
    MaxEvents = 2
SYMMETRY AddressSymmetry
INVARIANTS
    OwnershipOK
    PanesOK
    FocusOK
    OnScreenOK
    EventsLive
PROPERTIES
    ExitKeepsFocus
CHECK_DEADLOCK FALSE
