SPECIFICATION Spec
CONSTANTS
  Sizes <- MCSizes
  Chars = {"a", "W"}
  TargetCells = 3
  MaxCells = 6
  MaxGroups = 2
  Printed <- MCPrinted
  Apps = {""}
  Redraws = {TRUE, FALSE}
  Modes = {"word", "line"}
  MaxDepth = 2
  MaxCommands = 2
  Avoid = {"erased","full","gap","empty","groups","outer","row","silent","cut"}
  MaxSteps = 3
  MaxOutput = 2
  MaxMarks = 2
  MaxResizes = 2
  MaxMouse = 1
INVARIANTS
    InBounds
    CommandsOK
PROPERTIES
    TextKept
    PositionsFollow
