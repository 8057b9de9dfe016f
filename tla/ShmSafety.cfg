SPECIFICATION Spec
CONSTANTS
    r1 = r1
    r2 = r2
    Runs = {r1, r2}
    Signalled <- Everybody
    Killable <- FirstRun
    ForkFails = {r2}
    PosixRuns = {r2}
    MaxCount = 2
    Numbers = {0, 1}
    MaxStarts = 2
    MaxSets = 2
INVARIANTS TypeOK PrintedRight NoRace CountedOnce
CHECK_DEADLOCK FALSE
CONSTRAINT Unshared
