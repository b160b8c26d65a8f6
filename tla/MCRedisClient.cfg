SPECIFICATION RedisSpec
CONSTANTS
    Value <- MCValue
    Error <- MCError
    HeaderCut = FALSE
    MaxGets = 3
INVARIANTS
    RedisTypeOK
    GetAnswers
PROPERTIES
    GetReturns
CHECK_DEADLOCK FALSE
