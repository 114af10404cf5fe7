SPECIFICATION Spec
CONSTANTS
    Cells <- MCCells
    Labels <- MCLabels
    FeatureSets <- MCFeatureSets
    Sizes <- MCSizes
    Bounds <- MCBounds
    Frames <- MCFrames
    MaxPuts = 3
PROPERTIES
    NoUpdatesDropped
