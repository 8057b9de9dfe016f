SPECIFICATION LiveSpec
CONSTANTS
    r1 = r1
    r2 = r2
    Runs = {r1, r2}
    Signalled <- None
    Killable <- FirstParent
    ForkFails = {}
    PosixRuns = {}
    MaxCount = 1
    Numbers = {0}
    MaxStarts = 2
    MaxSets = 2
PROPERTIES CycleRepeats
CHECK_DEADLOCK FALSE
