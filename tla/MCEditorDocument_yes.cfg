CONSTANTS
    Name = {f1, f2}
    NoName = none
    Text <- MCText
    EmptyText = ""
    Bytes <- MCBytes
    Encode <- MCEncode
    Decode <- MCDecode
SPECIFICATION Spec

PROPERTIES SavedBeforeGivenUp
