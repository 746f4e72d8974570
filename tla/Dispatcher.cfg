SPECIFICATION Spec
CONSTANTS
    MaxCommands = 4
    Times = {0, 1, 2}
    Window = 1
INVARIANTS
    QueueIsUnanswered
    NativePrecedes
PROPERTIES
    EveryoneAnswered

CHECK_DEADLOCK FALSE
