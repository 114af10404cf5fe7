SPECIFICATION FairSpec
CONSTANTS
    a = a
    b = b
    Row <- TwoPanes
    Participants = {a, b}
    Inputs <- SomeInputs
    MaxEvents = 3
INVARIANTS
    AccountedOnce
PROPERTIES
    OfferedFirst
    Drained
CHECK_DEADLOCK FALSE
