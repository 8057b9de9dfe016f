SPECIFICATION AttentiveSpec
CONSTANTS
    Terminals = {t1, t2}
    Arguments = {20, 30}
    Texts = {"", "a"}
    Killable = FALSE
    InputEnds = FALSE
    MaxClients = 2
    Capacity = 2
    MaxSent = 6
    MaxStarts = 3
PROPERTY RelayFinished
CHECK_DEADLOCK FALSE
