SPECIFICATION Spec
CONSTANTS
  Sizes <- MCSizes
  PageRows = 2
  NarrowCols = 2
  WideCols = 4
  KeyFlags <- MCFlags
  MaxStack = 2
  Renditions = {"bold"}
  Styles = {0, 3}
  Modes = {3, 6, 9, 40, 1006, 1049, 7, 25, 2026, 2048}
  Params = {0, 1, 2}
  Avoid = {"pixels", "region", "reset", "margins", "line", "keys", "decsc", "tabs", "allow", "hide", "pending", "outside", "stale"}
  MaxSteps = 4
INVARIANTS
    SizeTold
    Restored
PROPERTIES
    PrimaryKept
CHECK_DEADLOCK FALSE
