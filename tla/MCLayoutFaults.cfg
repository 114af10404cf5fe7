\* Each is refuted: tlc -continue names them all.
SPECIFICATION Spec
CONSTANTS
    None = None
    Session = {s1}
    Tab = {t1, t2}
    Pane = {p1, p2, p3}
    Sizes = {z1}
    PopupKinds = {"find_session", "rename_tab", "other"}
    HardResetBound = TRUE
    PopupClicks = TRUE
    LateKeys = FALSE
    MaxEvents = 2
SYMMETRY AddressSymmetry
INVARIANTS
    PopupJoinFree
    RenameTargetAlive
    ReplaceHasLayoutPane
    ActiveInTree
CHECK_DEADLOCK FALSE
