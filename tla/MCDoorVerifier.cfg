SPECIFICATION VerifierSpec
CONSTANTS
    EmployeeId = {id1, id2}
    Secret = {s1, s2}
    id1 = id1
    id2 = id2
    s1 = s1
    s2 = s2
    Holders <- MCHolders
    Empty = empty
    ErrorText = {errorText}
    Junk = junk
    MaxSteps = 1
    MaxResets = 1
INVARIANTS
    VerifierTypeOK
    UnlockedForHolder
    ClosedWhenIdle
    UnlocksOwed
PROPERTIES
    PresentationAnswered
    MatchOpens
    ImplementsCycle
    RelocksEventually
