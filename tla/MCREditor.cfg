CONSTANTS
    Char <- MCChar
    Keys = {"a"}
    Clips = {}
    Scripts <- MCScripts
    Outputs <- MCOutputs
    Mouse = "none"
    HistoryCount = 2
    MaxLines = 4
    MaxLength = 3
    Verbose = TRUE
    MaxExprs = 1
    Message <- MCMessages
    NoMessage = none
    MaxBuffer = 1
SPECIFICATION EditorSpec
INVARIANTS HandlersAgree
PROPERTIES ConsoleContract CommandAnswered HandlersEnd
