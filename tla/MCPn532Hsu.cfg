SPECIFICATION HsuSpec
CONSTANTS
    Command = {134, 140}
    Unlimited = {140}
    Payload <- MCPayload
    BufferSize = 3
    CharMax = 2
    MaxCommands = 2
INVARIANTS
    HsuTypeOK
    ResponseIntact
PROPERTIES
    CallReturns
CHECK_DEADLOCK FALSE
