CONSTANTS
    Char <- MCChar
    Keys = {"a"}
    Clips <- MCClips
    Scripts <- MCScripts
    Outputs <- MCOutputs
    Mouse = "click"
    HistoryCount = 1
    MaxLines = 4
    MaxLength = 3
SPECIFICATION Spec
INVARIANTS TypeOK
PROPERTIES TranscriptImmutable CommandIsInput OutputEndsAtPrompt
