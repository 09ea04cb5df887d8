CONSTANTS
    Char <- MCChar
    Keys = {"a"}
    Clips = {}
    Scripts <- MCScripts
    Outputs <- MCOneOutput
    Mouse = "none"
    HistoryCount = 2
    MaxLines = 6
    MaxLength = 3
SPECIFICATION Spec
INVARIANTS HistoryInRange IdlePromptIsDefault ContinuationMatches CrashNeedsScript
