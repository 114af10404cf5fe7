SPECIFICATION Spec
CONSTANTS
  Sizes <- MCSizes
  Chars = {"e", "W", "v"}
  Widths = {3}
  Renditions = {"bold"}
  MaxId = 1
  MaxText = 2
  Counts = {1}
  Regions <- MCRegions
  WrapModes = {TRUE, FALSE}
  Avoid = {"below", "edge", "region", "split", "cut"}
  MaxPrints = 3
INVARIANTS
    TextOK
    WideOK
    RefsOK
PROPERTIES
    DamageOK
