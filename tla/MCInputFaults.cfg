\* Each is refuted: tlc -continue names them all.
SPECIFICATION Spec
CONSTANTS
    a = a
    b = b
    Row <- TwoPanes
    Participants = {a, b}
    Inputs <- AllInputs
    MaxEvents = 2
INVARIANTS
    InputInOrder
PROPERTIES
    OfferedToIt
    EnterNavigates
CHECK_DEADLOCK FALSE
