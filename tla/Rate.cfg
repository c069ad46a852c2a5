CONSTANTS
    Addresses = {"a", "b"}
    Rpm <- Limits
    Window = 2
    MaxKeys = 1
    MaxPause = 1
    MaxTime = 3
SPECIFICATION Spec
CHECK_DEADLOCK FALSE
INVARIANTS
    TypeOK
    AtMostOneOver
    NoFalseRefusal
    NoGarbage
