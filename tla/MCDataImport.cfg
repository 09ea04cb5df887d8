CONSTANTS
    Field <- MCField
    Blank = ""
    Zero = "0"
    True = "true"
    False = "false"
    Integers32 <- MCIntegers32
    Integers64 <- MCIntegers64
    Wrap <- MCWrap
    Fractions = {"2.5"}
    Headers = TRUE
    Inputs <- MCInputs
SPECIFICATION ISpec
INVARIANTS ITypeOK WholeRows ColumnsOfOneType ImportedAsFiled CrashNeedsNoRows
PROPERTIES ImportEnds
