SPECIFICATION Spec
CONSTANTS
    NULL = NULL
    Free = Free
    NoContact = NoContact
    Node = {n1, n2, n3, n4}
    Procs = {x1, x2}
    Text = {a, b}
    MaxPriority = 1
    MaxCount = 2
    Surname = {1, 2, 3}
    Killable = TRUE
    Failures = {"open", "read", "write", "memory", "input"}
    InitialSize = 2
    MaxSize = 4
    MaxCommands = 3
    BookStarts = 3
    Faults = {"loss", "duplication", "reordering"}
    MaxLines = 3
    MaxFlight = 2
    MaxCopies = 1
    EchoStarts = 4
    MaxLength = 2
    MaxDeficit = 2
    MaxLoads = 2
INVARIANTS TypeOK ListIntact CountsFromOne ReadOnce HeldWhileOpen
PROPERTIES ListsImplement BookInOrder LoadsWhole
SYMMETRY Alike
CHECK_DEADLOCK FALSE
