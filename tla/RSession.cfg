CONSTANTS
    Verbose = TRUE
    MaxExprs = 2
    Message = {m1, m2}
    NoMessage = none
    MaxBuffer = 4
SPECIFICATION SSpec
INVARIANTS STypeOK ProtectBalanced OneReport NothingOfACommandWaits PlotOutputFirst
PROPERTIES ErrorsAreShown ServiceContract
