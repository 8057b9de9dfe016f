SPECIFICATION Spec
CONSTANTS
    Values = {0, 7, 255}
    RESTORE_LEDS = 255
    SysfsFails = FALSE
    MaxLoads = 1
INVARIANT BlinksUntilUnloaded
CHECK_DEADLOCK FALSE
