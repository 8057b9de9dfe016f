SPECIFICATION Spec
CONSTANTS
    Producers = {p1}
    Consumers = {c1, c2}
    Signalled = {p1, c1}
    Killable = {p1, c2}
    OpenFails = {p1, c1, c2}
    MaxStarts = 3
    MaxLine = 3
    MaxLines = 2
INVARIANTS TypeOK MutexWhileGuarded ShownOnce
PROPERTIES AtomicWhileGuarded
CHECK_DEADLOCK FALSE
