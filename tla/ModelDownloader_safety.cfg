SPECIFICATION Spec
CONSTANTS
    Models = {m1}
    Callers = {c1, c2}
    MaxGen = 3
CHECK_DEADLOCK FALSE
INVARIANTS
    OneAtATime
    NothingLeft
    CompleteIsWhole
PROPERTIES
    KeepsSlots
    EndsAll
