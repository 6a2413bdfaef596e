SPECIFICATION Spec
CONSTANTS
    MaxCommands = 2
    MaxWire = 1
    LIMIT = 1
    MaxEvents = 1
INVARIANT EndsWithItsTarget
CHECK_DEADLOCK FALSE
