SPECIFICATION Spec
CONSTANTS
    Clients = {c1, c2, c3}
    Faults = {"loss", "duplication", "reordering"}
    Killable = TRUE
    ForkFails = {c1, c2, c3}
    InputEnds = TRUE
    MaxLines = 1
    Buffer = 1
    MaxFlight = 2
    MaxCopies = 1
    MaxStarts = 1
SYMMETRY Alike
INVARIANTS TypeOK ToldState NoGhost
CHECK_DEADLOCK FALSE
