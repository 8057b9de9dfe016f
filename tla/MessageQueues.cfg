SPECIFICATION EitherSpec
CONSTANTS
    t1 = t1
    t2 = t2
    Firsts = {f1, f2}
    Seconds = {s1}
    Killable = TRUE
    InputEnds = TRUE
    CreateFails = TRUE
    Capacity = 10
    MaxSent = 3
INVARIANTS InTurn
PROPERTIES BothEnd Heard
CHECK_DEADLOCK FALSE
