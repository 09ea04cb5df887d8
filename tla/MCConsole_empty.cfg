CONSTANTS
    Char <- MCChar
    Keys = {"a"}
    Clips = {}
    Scripts <- MCScripts
    Outputs <- MCOneOutput
    Mouse = "click"
    HistoryCount = 1
    MaxLines = 4
    MaxLength = 3
SPECIFICATION Spec
PROPERTIES EmptyInputIsEmpty
