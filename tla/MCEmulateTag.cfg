SPECIFICATION NfcSpec
CONSTANTS
    Message <- MCMessage
    Piece = {4, 20}
    NoMessage = noMessage
    Junk = junk
    NDEF_MAX_LENGTH = 30
    UidLength = 2
    CodeLength = 1
    MaxCalls = 3
INVARIANTS
    NfcTypeOK
    DecodesInFile
    RoundTrip
    GoodIsWhole
    GoodIsFresh
CHECK_DEADLOCK FALSE
