SPECIFICATION DoorSpec
CONSTANTS
    MaxResets = 1
PROPERTIES
    ClosedWhenReported
CHECK_DEADLOCK FALSE
