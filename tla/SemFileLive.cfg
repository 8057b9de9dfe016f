SPECIFICATION LiveSpec
CONSTANTS
    Producers = {p1}
    Consumers = {c1, c2}
    Signalled = {p1, c2}
    Killable = {}
    OpenFails = {p1, c2}
    MaxStarts = 3
    MaxLine = 2
    MaxLines = 2
PROPERTIES EveryLineShown StopEnds
CHECK_DEADLOCK FALSE
