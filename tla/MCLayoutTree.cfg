CONSTANTS
    p1 = p1  p2 = p2  p3 = p3  p4 = p4
    Panes = {p1, p2, p3, p4}
    NoPane = NoPane
    Sizes <- TwoSizes
    Precision = 100
    Amounts = {2}
    MaxChanges = 4
SPECIFICATION Spec
SYMMETRY Symmetry
INVARIANTS
    Tiled
    NavigateReaches
PROPERTIES
    OrderKept
    ResizeMoves
CHECK_DEADLOCK FALSE
