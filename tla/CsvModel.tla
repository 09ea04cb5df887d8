------------------------------- MODULE CsvModel -------------------------------
(***************************************************************************)
(* CsvModel::load (src/RInside/csvmodel.cpp): a text file becomes a table. *)
(* The first line gives the column names, the first line that is not blank *)
(* the number of columns and their types; then the file is read from the   *)
(* same place again, a line a step, and every field is converted to the    *)
(* type of its column.                                                     *)
(*                                                                         *)
(* A line is the sequence of its fields, as split(delim) and simplified()  *)
(* leave them; a line of blanks is << Blank >>.  A field stands for what   *)
(* it is as a number, a truth value or a text.                             *)
(***************************************************************************)
EXTENDS Naturals, Sequences, FiniteSets

CONSTANTS
    Field,
    Blank, Zero, True, False,   \* the fields "", "0", "true", "false"
    Integers32,                 \* fields that toInt() takes
    Integers64,                 \* integers that only toLongLong() takes
    Wrap,                       \* int() of these
    Fractions,                  \* the other fields that toDouble() takes
    Headers                     \* the argument headers of load

ASSUME CsvAssumption ==
    /\ {Blank, Zero, True, False} \cup Integers32 \cup Integers64 \cup Fractions \subseteq Field
    /\ Zero \in Integers32
    /\ {Blank, True, False} \cap (Integers32 \cup Integers64 \cup Fractions) = {}
    /\ Integers32 \cap (Integers64 \cup Fractions) = {}
    /\ Integers64 \cap Fractions = {}
    /\ Wrap \in [Integers64 -> Integers32]
    /\ True # False
    /\ Headers \in BOOLEAN

Types == {"Int", "Double", "Bool", "QString"}
Lines == Seq(Field) \ {<<>>}

guessType(f) ==
    CASE f \in Integers32             -> "Int"
      [] f \in Integers64 \cup Fractions -> "Double"
      [] f \in {True, False}          -> "Bool"
      [] OTHER                        -> "QString"

emptyLine(line) == line = << Blank >>

\* The default-constructed value of a type, of QVariant(type, nullptr) and of a
\* failed conversion.
Default(t) == [type |-> t, value |-> CASE t \in {"Int", "Double"} -> Zero
                                       [] t = "Bool"              -> False
                                       [] t = "QString"           -> Blank]

\* QVariant::convert of a QString.  To an int it goes by way of a 64-bit integer.
Convert(t, f) ==
    LET as(v) == [type |-> t, value |-> v]
    IN  CASE t = "QString"                       -> as(f)
          [] t = "Bool"                          -> as(IF f \in {Blank, Zero, False} THEN False ELSE True)
          [] t = "Int" /\ f \in Integers32       -> as(f)
          [] t = "Int" /\ f \in Integers64       -> as(Wrap[f])
          [] t = "Double" /\ f \in Integers32 \cup Integers64 \cup Fractions -> as(f)
          [] OTHER                               -> Default(t)

RowOfInvalid(line, ts) ==                                                        \* mutant
    [c \in DOMAIN ts |-> IF c <= Len(line) THEN Convert(ts[c], line[c])
                         ELSE [type |-> "Invalid", value |-> Blank]]

RowOfGuessed(line, ts) ==                                                        \* mutant
    [c \in DOMAIN ts |-> IF c <= Len(line) THEN Convert(guessType(line[c]), line[c]) ELSE Default(ts[c])]

\* The values a line adds to m_data.
RowOf(line, ts) ==
    [c \in DOMAIN ts |-> IF c <= Len(line) THEN Convert(ts[c], line[c]) ELSE Default(ts[c])]
-------------------------------------------------------------------------------
VARIABLES
    file,           \* the lines of the device
    next,           \* in.pos(): the next line
    prevPos,        \* where the records begin
    columnNames, columnCount, types, data, rowCount,
    step            \* where load is: none, names, first, rows, loaded

table == <<columnNames, columnCount, types, data, rowCount>>
cvars == <<file, next, prevPos, table, step>>

\* A fresh model, as initR makes one for each file.
NewModel ==
    /\ columnNames = <<>> /\ columnCount = 0 /\ types = <<>>
    /\ data = <<>> /\ rowCount = 0

CInit == file = <<>> /\ next = 1 /\ prevPos = 1 /\ NewModel /\ step = "none"

Load(f) ==
    /\ file' = f /\ next' = 1 /\ prevPos' = 1
    /\ columnNames' = <<>> /\ columnCount' = 0 /\ types' = <<>>
    /\ data' = <<>> /\ rowCount' = 0
    /\ step' = "names"

ReadNames ==
    /\ step = "names"
    /\ IF Headers
       THEN /\ columnNames' = IF file = <<>> THEN << Blank >> ELSE file[1]
            /\ next' = next + 1
       ELSE UNCHANGED <<columnNames, next>>
    /\ prevPos' = next'
    /\ step' = "first"
    /\ UNCHANGED <<file, columnCount, types, data, rowCount>>

AtBlankLine == next <= Len(file) /\ emptyLine(file[next])

\* The search for the first line that is not blank.
SkipBlank ==
    /\ step = "first"
    /\ AtBlankLine
    /\ next' = next + 1
    /\ UNCHANGED <<file, prevPos, table, step>>

GuessWithoutSeek ==                                                              \* mutant
    /\ step = "first"
    /\ ~AtBlankLine
    /\ LET values == IF next <= Len(file) THEN file[next] ELSE << Blank >>
       IN  /\ columnCount' = Len(values)
           /\ types' = [c \in 1 .. Len(values) |-> guessType(values[c])]
    /\ next' = IF next <= Len(file) THEN next + 1 ELSE next
    /\ step' = "rows"
    /\ UNCHANGED <<file, prevPos, columnNames, data, rowCount>>

\* The line found, or the last one, gives the types; the stream goes back.
GuessTypes ==
    /\ step = "first"
    /\ ~AtBlankLine
    /\ LET values == IF next <= Len(file) THEN file[next] ELSE << Blank >>
       IN  /\ columnCount' = Len(values)
           /\ types' = [c \in 1 .. Len(values) |-> guessType(values[c])]
    /\ next' = prevPos
    /\ step' = "rows"
    /\ UNCHANGED <<file, prevPos, columnNames, data, rowCount>>

ReadLineUnpadded ==                                                              \* mutant
    /\ step = "rows" /\ next <= Len(file)
    /\ next' = next + 1
    /\ data' = IF emptyLine(file[next]) THEN data
               ELSE data \o [c \in DOMAIN types \cap DOMAIN file[next] |-> Convert(types[c], file[next][c])]
    /\ UNCHANGED <<file, prevPos, columnNames, columnCount, types, rowCount, step>>

ReadLineAgain ==                                                                 \* mutant
    /\ step = "rows" /\ next <= Len(file)
    /\ next' = IF emptyLine(file[next]) THEN next ELSE next + 1
    /\ data' = IF emptyLine(file[next]) THEN data ELSE data \o RowOf(file[next], types)
    /\ UNCHANGED <<file, prevPos, columnNames, columnCount, types, rowCount, step>>

ReadLine ==
    /\ step = "rows" /\ next <= Len(file)
    /\ next' = next + 1
    /\ data' = IF emptyLine(file[next]) THEN data ELSE data \o RowOf(file[next], types)
    /\ UNCHANGED <<file, prevPos, columnNames, columnCount, types, rowCount, step>>

EndOfFileLessHeader ==                                                           \* mutant
    /\ step = "rows" /\ next > Len(file)
    /\ rowCount' = IF data = <<>> THEN 0 ELSE (Len(data) - columnCount) \div columnCount
    /\ step' = "loaded"
    /\ UNCHANGED <<file, next, prevPos, columnNames, columnCount, types, data>>

EndOfFile ==
    /\ step = "rows" /\ next > Len(file)
    /\ rowCount' = Len(data) \div columnCount
    /\ step' = "loaded"
    /\ UNCHANGED <<file, next, prevPos, columnNames, columnCount, types, data>>

LoadStep == ReadNames \/ SkipBlank \/ GuessTypes \/ ReadLine \/ EndOfFile

\* data(index) of a cell that exists, and headerData(section); both from 1.
DataAt(r, c) == data[(r - 1) * columnCount + c]
HeaderData(c) == IF c <= Len(columnNames) THEN columnNames[c] ELSE Blank
-------------------------------------------------------------------------------
CTypeOK ==
    /\ file \in Seq(Lines)
    /\ next \in Nat \ {0} /\ prevPos \in Nat \ {0}
    /\ columnNames \in Seq(Field)
    /\ columnCount \in Nat
    /\ types \in Seq(Types)
    /\ data \in Seq([type : Types, value : Field])
    /\ rowCount \in Nat
    /\ step \in {"none", "names", "first", "rows", "loaded"}

\* The lines of f that hold a record, and which of the records line n is.
FirstRow == IF Headers THEN 2 ELSE 1
Records(f) == {i \in FirstRow .. Len(f) : ~emptyLine(f[i])}
RowOfRecord(f, n) == Cardinality({i \in Records(f) : i <= n})
RowsRead == Cardinality({i \in Records(file) : i < next})

(* The table is cut into rows by division only: m_data must hold whole rows *)
(* after every line, short, long or blank, one for each record so far.      *)
WholeRows == step \in {"rows", "loaded"} => Len(data) = columnCount * RowsRead
===============================================================================
