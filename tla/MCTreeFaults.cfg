CONSTANTS
    p1 = p1  p2 = p2  p3 = p3  p4 = p4
    Panes = {p1, p2, p3, p4}
    NoPane = NoPane
    Sizes <- TwoSizes
    Precision = 100
    Amounts = {2}
    MaxChanges = 2
SPECIFICATION Spec
SYMMETRY Symmetry
CHECK_DEADLOCK FALSE
INVARIANT ExactFitLaidOut
