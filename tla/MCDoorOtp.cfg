SPECIFICATION VerifierSpec
CONSTANTS
    EmployeeId = {id1}
    Secret = {s1}
    id1 = id1
    id2 = id2
    s1 = s1
    s2 = s2
    Holders <- MCHolders
    Empty = empty
    ErrorText = {}
    Junk = junk
    MaxSteps = 1
    MaxResets = 0
PROPERTIES
    OtpSingleUse
