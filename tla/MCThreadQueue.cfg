SPECIFICATION Spec
CONSTANTS
    c1 = c1
    c2 = c2
    Command <- MCCommand
    Null = Null
    Spurious = TRUE
    MaxPush = 4
INVARIANT
    NoSleepOnEntry
PROPERTIES
    AcceptedIsKept
    ImplementsCommandQueue
CHECK_DEADLOCK FALSE
