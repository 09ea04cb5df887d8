CONSTANTS
    Char <- MCChar
    Keys = {"a"}
    Clips <- MCClips
    Scripts <- MCScripts
    Outputs <- MCOneOutput
    Mouse = "drag"
    HistoryCount = 1
    MaxLines = 2
    MaxLength = 3
SPECIFICATION Spec
CONSTRAINT MCFewRecords
PROPERTIES UntouchedLinesStay TypingStaysInInput
