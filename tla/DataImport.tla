------------------------------ MODULE DataImport ------------------------------
(***************************************************************************)
(* The start of REditor, MainWindow::initR (src/REditor/MainWindow.cpp     *)
(* 63-84): the csv files of the directory inputs, in the order of their    *)
(* names, are loaded, turned into data frames by RObject::fromModel        *)
(* (src/RInside/robject.cpp 240-276), bound to In_1, In_2, ... in R's      *)
(* global environment, and shown in a widget each.                         *)
(***************************************************************************)
EXTENDS CsvModel

CONSTANT Inputs     \* what inputs/*.csv may be: a set of sequences of files

ASSUME InputsAssumption == Inputs \subseteq Seq(Seq(Lines))

VARIABLES
    inputs,         \* the files, in the order of entryList
    counter,        \* counter of initR
    frame,          \* the data frame that fromModel returned last
    globals,        \* counter -> the frame bound to In_counter
    widgets,        \* the variables shown, in the order of addVar
    ipc             \* where initR is: loop, load, bind, ready; crashed

ivars == <<inputs, counter, frame, globals, widgets, ipc>>
allivars == <<cvars, ivars>>

NoFrame == [names |-> <<>>, types |-> <<>>, rowNames |-> <<>>, cells |-> <<>>]

rType(t) ==
    CASE t = "Bool" -> "LGLSXP" [] t = "Int" -> "INTSXP"
      [] t = "Double" -> "REALSXP" [] t = "QString" -> "STRSXP"
RTypes == {"LGLSXP", "INTSXP", "REALSXP", "STRSXP"}
OtherRTypes == {"CPLXSXP", "RAWSXP", "NILSXP"}

IInit ==
    /\ CInit
    /\ inputs \in Inputs
    /\ counter = 0
    /\ frame = NoFrame
    /\ globals = <<>>
    /\ widgets = <<>>
    /\ ipc = "loop"

\* The next file; one that cannot be opened is counted and skipped.
NextInput ==
    /\ ipc = "loop" /\ counter < Len(inputs)
    /\ counter' = counter + 1
    /\ \/ ipc' = "load" /\ Load(inputs[counter'])
       \/ UNCHANGED <<cvars, ipc>>
    /\ UNCHANGED <<inputs, frame, globals, widgets>>

LoadInput == ipc = "load" /\ LoadStep /\ UNCHANGED ivars
-------------------------------------------------------------------------------
(* fromModel. *)

FrameOf(columnTypes) ==
    [names    |-> [c \in 1 .. columnCount |-> HeaderData(c)],
     types    |-> columnTypes,
     rowNames |-> [r \in 1 .. rowCount |-> r],
     cells    |-> [c \in 1 .. columnCount |-> [r \in 1 .. rowCount |-> DataAt(r, c).value]]]

\* The type of a column is that of its first cell.
FromModel ==
    /\ ipc = "load" /\ step = "loaded" /\ rowCount > 0
    /\ frame' = FrameOf([c \in 1 .. columnCount |-> rType(DataAt(1, c).type)])
    /\ ipc' = "bind"
    /\ UNCHANGED <<cvars, inputs, counter, globals, widgets>>

\* Without a first row index(0, i) is invalid and data() reads m_data at a
\* negative offset, which is undefined: the program stops, or the column gets
\* the type of whatever was read.
FromModelWithoutRows ==
    /\ ipc = "load" /\ step = "loaded" /\ rowCount = 0
    /\ \/ /\ ipc' = "bind"
          /\ \E ts \in [1 .. columnCount -> RTypes \cup OtherRTypes] : frame' = FrameOf(ts)
       \/ ipc' = "crashed" /\ UNCHANGED frame
    /\ UNCHANGED <<cvars, inputs, counter, globals, widgets>>

\* m_rconsole[inVarName] = ... and addVar(inVarName).
Bind ==
    /\ ipc = "bind"
    /\ globals' = [k \in DOMAIN globals \cup {counter} |-> IF k = counter THEN frame ELSE globals[k]]
    /\ widgets' = Append(widgets, counter)
    /\ ipc' = "loop"
    /\ UNCHANGED <<cvars, inputs, counter, frame>>

Ready ==
    /\ ipc = "loop" /\ counter = Len(inputs)
    /\ ipc' = "ready"
    /\ UNCHANGED <<cvars, inputs, counter, frame, globals, widgets>>

Stopped == ipc \in {"ready", "crashed"} /\ UNCHANGED allivars

InitRStep == NextInput \/ LoadInput \/ FromModel \/ FromModelWithoutRows \/ Bind \/ Ready
INext == InitRStep \/ Stopped

ISpec == IInit /\ [][INext]_allivars /\ WF_allivars(InitRStep)
-------------------------------------------------------------------------------
IsFrame(f) ==
    /\ f.names \in Seq(Field)
    /\ f.types \in Seq(RTypes \cup OtherRTypes)
    /\ f.cells \in Seq(Seq(Field))

ITypeOK ==
    /\ CTypeOK
    /\ counter \in 0 .. Len(inputs)
    /\ DOMAIN globals \subseteq 1 .. counter
    /\ widgets \in Seq(Nat)
    /\ IsFrame(frame)
    /\ \A k \in DOMAIN globals : IsFrame(globals[k])
    /\ ipc \in {"loop", "load", "bind", "ready", "crashed"}

\* What a file says, without reading it in steps: a frame that holds record n of
\* f in the row of n.
FieldAt(line, c) == IF c <= Len(line) THEN line[c] ELSE Blank
FirstRecord(f) == f[CHOOSE n \in Records(f) : \A i \in Records(f) : n <= i]
FramedAs(df, f) ==
    LET columns == DOMAIN FirstRecord(f)
        rows    == 1 .. Cardinality(Records(f))
        type(c) == guessType(FirstRecord(f)[c])
    IN  /\ df.names = [c \in columns |-> IF Headers THEN FieldAt(f[1], c) ELSE Blank]
        /\ df.types = [c \in columns |-> rType(type(c))]
        /\ df.rowNames = [r \in rows |-> r]
        /\ DOMAIN df.cells = columns /\ \A c \in columns : DOMAIN df.cells[c] = rows
        /\ \A n \in Records(f), c \in columns :
              df.cells[c][RowOfRecord(f, n)] = Convert(type(c), FieldAt(f[n], c)).value

(* A variable In_k is the k-th file, whatever is short, long, blank or      *)
(* malformed in it: a column for each field of its first record, named by   *)
(* the header as far as that goes, and a row for each record, in which a    *)
(* missing field counts as an empty one.  It is what the tests of           *)
(* CsvModel say of single files (tst_RInside.cpp 61-185).                   *)
ImportedAsFiled ==
    \A k \in DOMAIN globals : Records(inputs[k]) # {} => FramedAs(globals[k], inputs[k])

(* fromModel takes the R type of a column from its first cell and lets      *)
(* setPlain convert the others to it: all cells of a column have the type   *)
(* of the first, or that conversion would change their values unseen.       *)
ColumnsOfOneType ==
    step = "loaded" =>
        \A r \in 1 .. rowCount, c \in 1 .. columnCount : DataAt(r, c).type = DataAt(1, c).type

(* data() reads outside m_data (robject.cpp 256) only for a file without    *)
(* any record.                                                              *)
CrashNeedsNoRows ==
    ipc = "crashed" => \A i \in FirstRow .. Len(file) : emptyLine(file[i])

(* The constructor of the window comes to its end, with every file read or  *)
(* skipped: no blank line and no short file keeps load in its loop.         *)
ImportEnds == <>(ipc \in {"ready", "crashed"})
===============================================================================
