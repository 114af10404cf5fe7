SPECIFICATION Spec
CONSTANTS
  Bytes <- MCBytes
  Modes = {"application", "input"}
  Avoid = {"intermediate", "dcs", "cancel", "cut"}
  MaxLength = 2
INVARIANTS
    Resynchronised
PROPERTIES
    StringsWhole
CHECK_DEADLOCK FALSE
