SPECIFICATION Spec
CONSTANTS
    Terminals = {t1, t2}
    Arguments = {10, 20, 30, 40}
    Texts = {"", "a", "shutdown"}
    Killable = TRUE
    InputEnds = TRUE
    MaxClients = 3
    Capacity = 3
    MaxSent = 4
    MaxStarts = 4
SYMMETRY Alike
INVARIANTS InBounds InOrder
PROPERTY ImplementsChatRoom
CHECK_DEADLOCK FALSE
