SPECIFICATION RedisSpec
CONSTANTS
    Value <- PlainValue
    Error = {}
    HeaderCut = TRUE
    MaxGets = 3
INVARIANTS
    GetIsValue
CHECK_DEADLOCK FALSE
