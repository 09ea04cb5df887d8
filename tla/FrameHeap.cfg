CONSTANTS
    Columns = 2
    Rows = 1
    TextColumns = {1}
    MaxObjects = 12
SPECIFICATION FSpec
INVARIANTS FTypeOK ShieldsHold LossExplained ViewReadsLive
