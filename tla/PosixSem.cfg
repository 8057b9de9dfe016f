SPECIFICATION LiveSpec
CONSTANTS
    r1 = r1
    r2 = r2
    Runs = {r1, r2}
    Killable <- Run1
    OpenFails <- Children
    ForkFails = {r2}
    MaxStarts = 2
    MaxLine = 2
    MaxLines = 1
INVARIANTS TypeOK MutexWhileGuarded ShownOnce NoOrphan
PROPERTIES AtomicWhileGuarded StopEnds
CHECK_DEADLOCK FALSE
