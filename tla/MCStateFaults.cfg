\* Each is refuted: tlc -continue names them all.
SPECIFICATION Spec
CONSTANTS
  Sizes <- MCSizes
  PageRows = 2
  NarrowCols = 2
  WideCols = 4
  KeyFlags <- MCFlags
  MaxStack = 2
  Renditions = {"bold"}
  Styles = {0, 3}
  Modes = {3, 6, 9, 40, 1006, 1049, 7, 25, 2026, 2048}
  Params = {0, 1, 2}
  Avoid = {"pixels", "region", "reset"}
  MaxSteps = 1
INVARIANTS
    MarginsIdentical
    KeysIdentical
    StateIdentical
CHECK_DEADLOCK FALSE
