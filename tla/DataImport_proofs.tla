--------------------------- MODULE DataImport_proofs ---------------------------
(***************************************************************************)
(* What holds of the import for every file: the table load builds consists *)
(* of whole rows whose cells have the types of their columns, the frame    *)
(* bound in R is the file, only a file without a record makes fromModel    *)
(* read outside of the table, and each step brings initR nearer its end.   *)
(***************************************************************************)
EXTENDS DataImport, FiniteSetTheorems, WellFoundedInduction, TLAPS

(* Where the cells of n rows of k columns lie in m_data. *)
LEMMA CellIndex ==
    ASSUME NEW n \in Nat, NEW k \in Nat, NEW r \in 1 .. n, NEW c \in 1 .. k
    PROVE  (r - 1) * k + c \in 1 .. n * k
<1>1. (r - 1) * k = r * k - k /\ (n - r) * k = n * k - r * k
  OBVIOUS
<1>2. (r - 1) * k \in Nat /\ (n - r) * k \in Nat
  OBVIOUS
<1> QED
  BY <1>1, <1>2

LEMMA WholeQuotient ==
    ASSUME NEW n \in Nat, NEW k \in Nat \ {0}
    PROVE  (n * k) \div k = n
  OBVIOUS

(* A conversion gives a value of the type asked for, in whatever way it ends. *)
LEMMA ConvertTyped ==
    ASSUME NEW t \in Types, NEW f \in Field
    PROVE  /\ Convert(t, f) \in [type : Types, value : Field]
           /\ Convert(t, f).type = t
           /\ Default(t) \in [type : Types, value : Field]
           /\ Default(t).type = t
  BY CsvAssumption DEF Convert, Default, Types

LEMMA RowTyped ==
    ASSUME NEW line \in Lines, NEW ts \in Seq(Types)
    PROVE  /\ RowOf(line, ts) \in Seq([type : Types, value : Field])
           /\ Len(RowOf(line, ts)) = Len(ts)
           /\ \A c \in 1 .. Len(ts) : RowOf(line, ts)[c].type = ts[c]
<1> DEFINE row == RowOf(line, ts)
<1>1. row = [c \in 1 .. Len(ts) |-> IF c <= Len(line) THEN Convert(ts[c], line[c])
                                                    ELSE Default(ts[c])]
  BY DEF RowOf
<1>2. ASSUME NEW c \in 1 .. Len(ts)
      PROVE  row[c] \in [type : Types, value : Field] /\ row[c].type = ts[c]
  <2>1. ts[c] \in Types /\ (c <= Len(line) => line[c] \in Field)
    BY DEF Lines
  <2>2. CASE c <= Len(line)
    BY <1>1, <2>1, <2>2, ConvertTyped
  <2>3. CASE ~(c <= Len(line))
    BY <1>1, <2>1, <2>3, ConvertTyped, CsvAssumption
  <2> QED
    BY <2>2, <2>3
<1>3. Len(ts) \in Nat
  OBVIOUS
<1> HIDE DEF row
<1>4. row \in Seq([type : Types, value : Field]) /\ Len(row) = Len(ts)
  BY <1>1, <1>2, <1>3
<1> QED
  BY <1>2, <1>4 DEF row
-------------------------------------------------------------------------------
(* load.  While it reads, m_data is n whole rows; before that it is empty,  *)
(* and if it stays empty, so far all lines were blank.                      *)

Whole(n) ==
    /\ Len(data) = n * columnCount
    /\ \A r \in 1 .. n, c \in 1 .. columnCount : DataAt(r, c).type = types[c]

LoadInv ==
    /\ CTypeOK
    /\ step \in {"names", "first"} => data = <<>>
    /\ step = "names" => next = 1
    /\ step = "first" => prevPos = FirstRow /\ next >= FirstRow
    /\ step \in {"rows", "loaded"} =>
          /\ columnCount > 0 /\ Len(types) = columnCount
          /\ next >= FirstRow
          /\ \E n \in Nat : Whole(n)
          /\ data = <<>> => \A i \in FirstRow .. next - 1 : i \in DOMAIN file => emptyLine(file[i])
    /\ step = "loaded" => next > Len(file) /\ Whole(rowCount)

LEMMA LoadBegins ==
    ASSUME NEW f \in Seq(Lines), Load(f)
    PROVE  LoadInv' /\ step' = "names"
  BY DEF Load, LoadInv, CTypeOK

LEMMA ReadNamesStep == LoadInv /\ ReadNames => LoadInv'
<1> SUFFICES ASSUME LoadInv, ReadNames PROVE LoadInv'
  OBVIOUS
<1>1. columnNames' \in Seq(Field)
  <2>1. << Blank >> \in Seq(Field)
    BY CsvAssumption
  <2>2. file # <<>> => file[1] \in Seq(Field)
    BY DEF LoadInv, CTypeOK, Lines
  <2> QED
    BY <2>1, <2>2 DEF ReadNames, LoadInv, CTypeOK
<1> QED
  BY <1>1, CsvAssumption DEF ReadNames, LoadInv, CTypeOK, FirstRow

LEMMA GuessTypesStep == LoadInv /\ GuessTypes => LoadInv'
<1> SUFFICES ASSUME LoadInv, GuessTypes PROVE LoadInv'
  OBVIOUS
<1> DEFINE values == IF next <= Len(file) THEN file[next] ELSE << Blank >>
<1>1. values \in Seq(Field) /\ Len(values) > 0
  <2>1. << Blank >> \in Seq(Field) /\ Len(<< Blank >>) = 1
    BY CsvAssumption
  <2>2. next <= Len(file) => file[next] \in Lines
    BY DEF LoadInv, CTypeOK
  <2> QED
    BY <2>1, <2>2 DEF Lines
<1>2. /\ columnCount' = Len(values)
      /\ types' = [c \in 1 .. Len(values) |-> guessType(values[c])]
  BY DEF GuessTypes
<1>3. \A f \in Field : guessType(f) \in Types
  BY DEF guessType, Types
<1> HIDE DEF values
<1>4. types' \in Seq(Types) /\ Len(types') = columnCount' /\ columnCount' \in Nat \ {0}
  BY <1>1, <1>2, <1>3
<1>5. Whole(0)'
  BY <1>4 DEF Whole, GuessTypes, LoadInv
<1> QED
  BY <1>4, <1>5 DEF GuessTypes, LoadInv, CTypeOK

(* A record behind n rows becomes row n + 1 and leaves the others in place. *)
LEMMA ReadRecord ==
    ASSUME LoadInv, step = "rows", NEW line \in Lines, NEW n \in Nat, Whole(n),
           data' = data \o RowOf(line, types), UNCHANGED <<columnCount, types>>
    PROVE  Whole(n + 1)' /\ data' \in Seq([type : Types, value : Field]) /\ data' # <<>>
<1> DEFINE row   == RowOf(line, types)
           Cells == [type : Types, value : Field]
<1>1. /\ data \in Seq(Cells) /\ types \in Seq(Types)
      /\ columnCount \in Nat \ {0} /\ Len(types) = columnCount
  BY DEF LoadInv, CTypeOK
<1>2. /\ Len(data) = n * columnCount
      /\ \A r \in 1 .. n, c \in 1 .. columnCount :
            data[(r - 1) * columnCount + c].type = types[c]
  BY DEF Whole, DataAt
<1>3. /\ row \in Seq(Cells)
      /\ Len(row) = columnCount
      /\ \A c \in 1 .. columnCount : row[c].type = types[c]
  BY <1>1, RowTyped
<1>4. data' = data \o row
  OBVIOUS
<1> HIDE DEF row, Cells
<1>5. /\ data' \in Seq(Cells) /\ Len(data') = Len(data) + columnCount
      /\ \A i \in 1 .. Len(data) : data'[i] = data[i]
      /\ \A c \in 1 .. columnCount : data'[Len(data) + c] = row[c]
  <2>1. data \in Seq(Cells) /\ row \in Seq(Cells)
    BY <1>1, <1>3
  <2>2. data \o row \in Seq(Cells) /\ Len(data \o row) = Len(data) + Len(row)
    BY <2>1
  <2>3. \A i \in 1 .. Len(data) : (data \o row)[i] = data[i]
    BY <2>1
  <2>4. \A c \in 1 .. Len(row) : (data \o row)[Len(data) + c] = row[c]
    BY <2>1
  <2> QED
    BY <1>3, <1>4, <2>2, <2>3, <2>4
<1>6. n * columnCount \in Nat /\ (n + 1) * columnCount = n * columnCount + columnCount
  BY <1>1
<1>7. ASSUME NEW r \in 1 .. n + 1, NEW c \in 1 .. columnCount
      PROVE  data'[(r - 1) * columnCount + c].type = types[c]
  <2>1. CASE r \in 1 .. n
    <3>1. (r - 1) * columnCount + c \in 1 .. Len(data)
      BY <1>1, <1>2, <2>1, CellIndex
    <3> QED
      BY <1>2, <1>5, <2>1, <3>1
  <2>2. CASE r = n + 1
    <3>1. (r - 1) * columnCount + c = Len(data) + c
      BY <1>2, <2>2
    <3> QED
      BY <1>3, <1>5, <3>1
  <2>3. r \in 1 .. n \/ r = n + 1
    OBVIOUS
  <2> QED
    BY <2>1, <2>2, <2>3
<1>8. Len(data') = (n + 1) * columnCount /\ data' # <<>>
  BY <1>1, <1>2, <1>5, <1>6
<1> QED
  BY <1>5, <1>7, <1>8 DEF Whole, DataAt, Cells

LEMMA ReadLineStep == LoadInv /\ ReadLine => LoadInv'
<1> SUFFICES ASSUME LoadInv, ReadLine PROVE LoadInv'
  OBVIOUS
<1>1. file[next] \in Lines /\ next' = next + 1 /\ step = "rows" /\ next \in Nat
  BY DEF ReadLine, LoadInv, CTypeOK
<1>2. CASE emptyLine(file[next])
  <2>1. data' = data /\ \A n \in Nat : Whole(n) => Whole(n)'
    BY <1>2 DEF ReadLine, Whole, DataAt
  <2> QED
    BY <1>1, <1>2, <2>1 DEF ReadLine, LoadInv, CTypeOK, FirstRow
<1>3. CASE ~emptyLine(file[next])
  <2>1. PICK n \in Nat : Whole(n)
    BY <1>1 DEF LoadInv
  <2>2. Whole(n + 1)' /\ data' \in Seq([type : Types, value : Field]) /\ data' # <<>>
    BY <1>1, <1>3, <2>1, ReadRecord DEF ReadLine
  <2>3. n + 1 \in Nat
    OBVIOUS
  <2> QED
    BY <1>1, <2>2, <2>3 DEF ReadLine, LoadInv, CTypeOK, FirstRow
<1> QED
  BY <1>2, <1>3

LEMMA EndOfFileStep == LoadInv /\ EndOfFile => LoadInv'
<1> SUFFICES ASSUME LoadInv, EndOfFile PROVE LoadInv'
  OBVIOUS
<1>1. PICK n \in Nat : Whole(n)
  BY DEF LoadInv, EndOfFile
<1>2. columnCount \in Nat \ {0} /\ Len(data) = n * columnCount
  BY <1>1 DEF LoadInv, CTypeOK, EndOfFile, Whole
<1>3. rowCount' = n
  BY <1>2, WholeQuotient DEF EndOfFile
<1>4. Whole(n)'
  BY <1>1 DEF EndOfFile, Whole, DataAt
<1> QED
  BY <1>3, <1>4 DEF EndOfFile, LoadInv, CTypeOK

LEMMA LoadStepKeeps == LoadInv /\ LoadStep => LoadInv'
<1>1. LoadInv /\ SkipBlank => LoadInv'
  BY DEF SkipBlank, LoadInv, CTypeOK, table, FirstRow
<1> QED
  BY <1>1, ReadNamesStep, GuessTypesStep, ReadLineStep, EndOfFileStep DEF LoadStep

LEMMA LoadStutters == LoadInv /\ UNCHANGED cvars => LoadInv'
  BY DEF LoadInv, CTypeOK, cvars, table, Whole, DataAt
-------------------------------------------------------------------------------
(* initR. *)

ImportInv ==
    /\ LoadInv /\ ITypeOK
    /\ inputs \in Seq(Seq(Lines))
    /\ ipc \in {"load", "bind"} => step # "none" /\ counter > 0
    /\ ipc = "crashed" => step = "loaded" /\ rowCount = 0

(* Every cell fromModel asks for is in m_data. *)
LEMMA FrameTyped ==
    ASSUME ImportInv, step = "loaded",
           NEW ts \in [1 .. columnCount -> RTypes \cup OtherRTypes]
    PROVE  IsFrame(FrameOf(ts))
<1>1. /\ columnCount \in Nat /\ rowCount \in Nat
      /\ columnNames \in Seq(Field)
      /\ data \in Seq([type : Types, value : Field])
      /\ Len(data) = rowCount * columnCount
  BY DEF ImportInv, LoadInv, CTypeOK, Whole
<1>2. ASSUME NEW c \in 1 .. columnCount
      PROVE  HeaderData(c) \in Field
  BY <1>1, CsvAssumption DEF HeaderData
<1>3. ASSUME NEW c \in 1 .. columnCount, NEW r \in 1 .. rowCount
      PROVE  DataAt(r, c).value \in Field
  <2>1. (r - 1) * columnCount + c \in 1 .. Len(data)
    BY <1>1, CellIndex
  <2> DEFINE Cells == [type : Types, value : Field]
  <2>2. data \in Seq(Cells)
    BY <1>1
  <2>3. \A cell \in Cells : cell.value \in Field
    OBVIOUS
  <2> HIDE DEF Cells
  <2>4. data[(r - 1) * columnCount + c] \in Cells
    BY <2>1, <2>2
  <2> QED
    BY <2>3, <2>4 DEF DataAt
<1>4. [c \in 1 .. columnCount |-> HeaderData(c)] \in Seq(Field)
  BY <1>1, <1>2
<1>5. ASSUME NEW c \in 1 .. columnCount
      PROVE  [r \in 1 .. rowCount |-> DataAt(r, c).value] \in Seq(Field)
  BY <1>1, <1>3
<1>6. [c \in 1 .. columnCount |-> [r \in 1 .. rowCount |-> DataAt(r, c).value]]
         \in Seq(Seq(Field))
  BY <1>1, <1>5
<1>7. ts \in Seq(RTypes \cup OtherRTypes)
  BY <1>1
<1> QED
  BY <1>4, <1>6, <1>7 DEF IsFrame, FrameOf

LEMMA ImportInitial == IInit => ImportInv
  BY InputsAssumption
  DEF IInit, CInit, NewModel, ImportInv, LoadInv, ITypeOK, CTypeOK, IsFrame, NoFrame

LEMMA ImportStep == ImportInv /\ [INext]_allivars => ImportInv'
<1> SUFFICES ASSUME ImportInv, [INext]_allivars PROVE ImportInv'
  OBVIOUS
<1>0. LoadInv' => CTypeOK'
  BY DEF LoadInv
<1>1. CASE NextInput
  <2>1. CASE ipc' = "load" /\ Load(inputs[counter'])
    <3>1. inputs[counter'] \in Seq(Lines)
      BY <1>1 DEF NextInput, ImportInv, ITypeOK
    <3>2. LoadInv' /\ step' = "names"
      BY <2>1, <3>1, LoadBegins
    <3> QED
      BY <1>0, <1>1, <2>1, <3>2 DEF NextInput, ImportInv, ITypeOK, cvars, table
  <2>2. CASE UNCHANGED <<cvars, ipc>>
    <3>1. LoadInv'
      BY <2>2, LoadStutters DEF ImportInv
    <3> QED
      BY <1>0, <1>1, <2>2, <3>1 DEF NextInput, ImportInv, ITypeOK, cvars, table
  <2> QED
    BY <1>1, <2>1, <2>2 DEF NextInput
<1>2. CASE LoadInput
  <2>1. LoadInv' /\ step' # "none"
    <3>1. step' # "none"
      BY <1>2 DEF LoadInput, LoadStep, ReadNames, SkipBlank, GuessTypes, ReadLine, EndOfFile
    <3> QED
      BY <1>2, <3>1, LoadStepKeeps DEF LoadInput, ImportInv
  <2> QED
    BY <1>0, <1>2, <2>1 DEF LoadInput, ivars, ImportInv, ITypeOK, cvars, table
<1>3. CASE FromModel
  <2>1. LoadInv'
    BY <1>3, LoadStutters DEF FromModel, ImportInv
  <2>2. \A c \in 1 .. columnCount : rType(DataAt(1, c).type) \in RTypes
    <3>1. \A c \in 1 .. columnCount : DataAt(1, c).type \in Types
      BY <1>3 DEF FromModel, ImportInv, LoadInv, CTypeOK, Whole
    <3>2. \A t \in Types : rType(t) \in RTypes
      BY DEF rType, Types, RTypes
    <3> QED
      BY <3>1, <3>2
  <2>3. IsFrame(frame')
    BY <1>3, <2>2, FrameTyped DEF FromModel
  <2> QED
    BY <1>0, <1>3, <2>1, <2>3 DEF FromModel, ImportInv, ITypeOK, cvars, table
<1>4. CASE FromModelWithoutRows
  <2>1. LoadInv'
    BY <1>4, LoadStutters DEF FromModelWithoutRows, ImportInv
  <2>2. IsFrame(frame')
    BY <1>0, <1>4, FrameTyped DEF FromModelWithoutRows, ImportInv, ITypeOK, cvars, table
  <2> QED
    BY <1>0, <1>4, <2>1, <2>2 DEF FromModelWithoutRows, ImportInv, ITypeOK, cvars, table
<1>5. CASE Bind
  <2>1. LoadInv'
    BY <1>5, LoadStutters DEF Bind, ImportInv
  <2>2. /\ DOMAIN globals' = DOMAIN globals \cup {counter}
        /\ \A k \in DOMAIN globals' : globals'[k] = IF k = counter THEN frame ELSE globals[k]
    BY <1>5 DEF Bind
  <2>3. \A k \in DOMAIN globals' : IsFrame(globals'[k])
    BY <2>2 DEF ImportInv, ITypeOK
  <2> QED
    BY <1>0, <1>5, <2>1, <2>2, <2>3 DEF Bind, ImportInv, ITypeOK, cvars, table
<1>6. CASE Ready
  <2>1. LoadInv'
    BY <1>6, LoadStutters DEF Ready, ImportInv
  <2> QED
    BY <1>0, <1>6, <2>1 DEF Ready, ImportInv, ITypeOK, cvars, table
<1>7. CASE UNCHANGED allivars
  <2>1. LoadInv'
    BY <1>7, LoadStutters DEF allivars, ImportInv
  <2> QED
    BY <1>0, <1>7, <2>1 DEF allivars, ivars, ImportInv, ITypeOK, cvars, table
<1> QED
  BY <1>1, <1>2, <1>3, <1>4, <1>5, <1>6, <1>7 DEF INext, InitRStep, Stopped

THEOREM ImportInvariant == ISpec => []ImportInv
  BY ImportInitial, ImportStep, PTL DEF ISpec

(* Every variable of the import keeps its type; so every data frame bound   *)
(* in R is made of fields of the file, and no cell is read out of range.    *)
THEOREM ImportTyped == ISpec => []ITypeOK
<1>1. ImportInv => ITypeOK
  BY DEF ImportInv
<1> QED
  BY <1>1, ImportInvariant, PTL

(* The type fromModel takes from the first row is that of the whole column. *)
THEOREM ColumnsHaveOneType == ISpec => []ColumnsOfOneType
<1>1. ImportInv => ColumnsOfOneType
  <2> SUFFICES ASSUME ImportInv, step = "loaded",
                      NEW r \in 1 .. rowCount, NEW c \in 1 .. columnCount
               PROVE  DataAt(r, c).type = DataAt(1, c).type
    BY DEF ColumnsOfOneType
  <2>1. Whole(rowCount) /\ rowCount \in Nat
    BY DEF ImportInv, LoadInv, CTypeOK
  <2>2. 1 \in 1 .. rowCount
    BY <2>1
  <2> QED
    BY <2>1, <2>2 DEF Whole
<1> QED
  BY <1>1, ImportInvariant, PTL

(* Only a file without a record stops the program. *)
THEOREM OnlyEmptyTablesCrash == ISpec => []CrashNeedsNoRows
<1>1. ImportInv => CrashNeedsNoRows
  <2> SUFFICES ASSUME ImportInv, ipc = "crashed"
               PROVE  \A i \in FirstRow .. Len(file) : emptyLine(file[i])
    BY DEF CrashNeedsNoRows
  <2>1. step = "loaded" /\ Whole(0) /\ LoadInv
    BY DEF ImportInv, LoadInv
  <2>2. data = <<>>
    BY <2>1 DEF Whole, LoadInv, CTypeOK
  <2> QED
    BY <2>1, <2>2 DEF LoadInv, CTypeOK, FirstRow
<1> QED
  BY <1>1, ImportInvariant, PTL
-------------------------------------------------------------------------------
(* The contents.  Records are counted by the lines in front of them. *)
LEMMA RecordsFinite ==
    ASSUME NEW f \in Seq(Lines)
    PROVE  /\ IsFiniteSet(Records(f)) /\ Cardinality(Records(f)) \in Nat
           /\ \A i \in Records(f) : i \in 1 .. Len(f) /\ i \in Nat /\ i >= FirstRow
           /\ \A S \in SUBSET Records(f) :
                 /\ IsFiniteSet(S) /\ Cardinality(S) \in Nat
                 /\ Cardinality(S) <= Cardinality(Records(f))
<1>1. Len(f) \in Nat /\ FirstRow \in {1, 2}
  BY DEF FirstRow
<1>2. IsFiniteSet(FirstRow .. Len(f))
  BY <1>1, FS_Interval
<1>3. Records(f) \in SUBSET (FirstRow .. Len(f))
  BY DEF Records
<1>4. IsFiniteSet(Records(f)) /\ Cardinality(Records(f)) \in Nat
  BY <1>2, <1>3, FS_Subset, FS_CardinalityType
<1>5. \A i \in Records(f) : i \in 1 .. Len(f) /\ i \in Nat /\ i >= FirstRow
  BY <1>1, <1>3
<1>6. ASSUME NEW S \in SUBSET Records(f)
      PROVE  /\ IsFiniteSet(S) /\ Cardinality(S) \in Nat
             /\ Cardinality(S) <= Cardinality(Records(f))
  BY <1>4, FS_Subset, FS_CardinalityType
<1> QED BY <1>4, <1>5, <1>6

(* The row of a record that has been read lies in the table. *)
LEMMA RowInTable ==
    ASSUME NEW f \in Seq(Lines), NEW n \in Records(f), NEW m \in Nat, n < m
    PROVE  RowOfRecord(f, n) \in 1 .. Cardinality({i \in Records(f) : i < m})
<1> DEFINE S == {i \in Records(f) : i <= n}
           T == {i \in Records(f) : i < m}
<1>1. \A i \in Records(f) : i \in Nat
  BY RecordsFinite
<1>2. S \in SUBSET T /\ T \in SUBSET Records(f) /\ n \in S
  BY <1>1
<1> HIDE DEF S, T
<1>3. IsFiniteSet(T) /\ Cardinality(T) \in Nat
  BY <1>2, RecordsFinite
<1>4. IsFiniteSet(S) /\ Cardinality(S) \in Nat /\ Cardinality(S) <= Cardinality(T)
  BY <1>2, <1>3, FS_Subset, FS_CardinalityType
<1>5. Cardinality(S) # 0
  BY <1>2, <1>4, FS_EmptySet
<1>6. Cardinality(S) \in 1 .. Cardinality(T)
  BY <1>3, <1>4, <1>5
<1> QED BY <1>6 DEF RowOfRecord, S, T

(* Reading on by one line. *)
LEMMA OneLineOn ==
    ASSUME NEW f \in Seq(Lines), NEW n \in 1 .. Len(f), n >= FirstRow
    PROVE  LET before == {i \in Records(f) : i < n}
               after  == {i \in Records(f) : i < n + 1}
           IN  /\ n \notin Records(f) => after = before
               /\ n \in Records(f) => /\ Cardinality(after) = Cardinality(before) + 1
                                      /\ RowOfRecord(f, n) = Cardinality(before) + 1
<1> DEFINE before == {i \in Records(f) : i < n}
           after  == {i \in Records(f) : i < n + 1}
<1>1. n \in Nat /\ \A i \in Records(f) : i \in Nat
  BY RecordsFinite
<1>2. n \notin Records(f) => after = before
  BY <1>1
<1>3. ASSUME n \in Records(f)
      PROVE  Cardinality(after) = Cardinality(before) + 1 /\ RowOfRecord(f, n) = Cardinality(before) + 1
  <2>1. after = before \cup {n} /\ n \notin before /\ {i \in Records(f) : i <= n} = after
    <3>1. \A i \in Records(f) : /\ i < n + 1 <=> i < n \/ i = n
                                /\ i <= n <=> i < n + 1
      BY <1>1
    <3>2. ~ (n < n)
      BY <1>1
    <3> QED BY <1>3, <3>1, <3>2
  <2>2. before \in SUBSET Records(f)
    OBVIOUS
  <2> HIDE DEF before, after
  <2>3. IsFiniteSet(before)
    BY <2>2, RecordsFinite
  <2>4. Cardinality(before \cup {n}) = Cardinality(before) + 1
    BY <2>1, <2>3, FS_AddElement
  <2> QED BY <2>1, <2>4 DEF RowOfRecord
<1> QED BY <1>2, <1>3

(* What load has read so far is in the table as it stands in the file. *)
NamesOf(f) == IF Headers THEN IF f = <<>> THEN << Blank >> ELSE f[1] ELSE <<>>

Filed ==
    \A n \in Records(file), c \in 1 .. columnCount :
        n < next => DataAt(RowOfRecord(file, n), c) = RowOf(file[n], types)[c]

RowsInv ==
    /\ step \in {"first", "rows", "loaded"} => columnNames = NamesOf(file)
    /\ step = "names" => columnNames = <<>>
    /\ step = "first" => \A i \in Records(file) : next <= i
    /\ step \in {"rows", "loaded"} =>
          /\ Whole(RowsRead) /\ Filed
          /\ Records(file) # {} =>
                /\ FirstRecord(file) \in Lines /\ columnCount = Len(FirstRecord(file))
                /\ types = [c \in 1 .. columnCount |-> guessType(FirstRecord(file)[c])]

LEMMA FiledBegins ==
    ASSUME LoadInv, RowsInv, ReadNames
    PROVE  RowsInv'
<1>1. columnNames' = NamesOf(file') /\ step' = "first"
  BY DEF ReadNames, RowsInv, NamesOf
<1>2. next' = FirstRow /\ file' = file /\ file \in Seq(Lines)
  BY DEF ReadNames, LoadInv, FirstRow, CTypeOK
<1>3. \A i \in Records(file') : next' <= i
  BY <1>2, RecordsFinite
<1> QED BY <1>1, <1>3 DEF RowsInv

LEMMA FiledSkips ==
    ASSUME LoadInv, RowsInv, SkipBlank
    PROVE  RowsInv'
<1>1. /\ step = "first" /\ step' = "first" /\ next' = next + 1 /\ file' = file
      /\ columnNames' = columnNames /\ emptyLine(file[next]) /\ next \in Nat /\ file \in Seq(Lines)
  BY DEF SkipBlank, AtBlankLine, LoadInv, CTypeOK, table
<1>2. ASSUME NEW i \in Records(file) PROVE next + 1 <= i
  <2>1. i \in Nat /\ next <= i /\ i # next
    BY <1>1, <1>2, RecordsFinite DEF RowsInv, Records
  <2> QED BY <1>1, <2>1
<1> QED BY <1>1, <1>2 DEF RowsInv

LEMMA FiledGuesses ==
    ASSUME LoadInv, RowsInv, GuessTypes
    PROVE  RowsInv'
<1>1. /\ step = "first" /\ step' = "rows" /\ next' = FirstRow /\ file' = file /\ data' = data
      /\ columnNames' = columnNames /\ data = <<>> /\ next \in Nat /\ file \in Seq(Lines)
      /\ next >= FirstRow /\ \A i \in Records(file) : next <= i
      /\ ~AtBlankLine
  BY DEF GuessTypes, LoadInv, CTypeOK, RowsInv
<1>2. \A i \in Records(file) : i \in Nat /\ i >= FirstRow /\ i \in 1 .. Len(file)
  BY <1>1, RecordsFinite
<1>3. {i \in Records(file) : i < FirstRow} = {}
  BY <1>2 DEF FirstRow
<1>4. RowsRead' = 0
  BY <1>1, <1>3, FS_EmptySet DEF RowsRead
<1>5. Whole(0)'
  <2>1. LoadInv'
    BY GuessTypesStep
  <2>2. columnCount' \in Nat /\ Len(data') = 0
    BY <1>1, <2>1 DEF LoadInv, CTypeOK
  <2>3. \A k \in Nat : 0 * k = 0
    OBVIOUS
  <2>4. 0 * columnCount' = 0
    BY <2>2, <2>3
  <2>5. \A i \in 1 .. 0 : FALSE
    OBVIOUS
  <2> QED BY <2>2, <2>4, <2>5 DEF Whole
<1>6. Filed'
  BY <1>1, <1>2 DEF Filed, FirstRow
<1>7. ASSUME Records(file) # {}
      PROVE  /\ FirstRecord(file) \in Lines /\ columnCount' = Len(FirstRecord(file))
             /\ types' = [c \in 1 .. columnCount' |-> guessType(FirstRecord(file)[c])]
  <2>1. next <= Len(file) /\ next \in Records(file)
    BY <1>1, <1>2, <1>7 DEF AtBlankLine, Records
  <2>2. (CHOOSE n \in Records(file) : \A i \in Records(file) : n <= i) = next
    <3>1. \A n \in Records(file) : (\A i \in Records(file) : n <= i) => n = next
      BY <1>1, <1>2, <2>1
    <3> QED BY <1>1, <2>1, <3>1
  <2>3. FirstRecord(file) = file[next]
    BY <2>2 DEF FirstRecord
  <2>4. next \in 1 .. Len(file)
    BY <1>2, <2>1
  <2>5. file[next] \in Lines
    BY <1>1, <2>4
  <2> QED BY <2>1, <2>3, <2>5 DEF GuessTypes
<1> QED BY <1>1, <1>4, <1>5, <1>6, <1>7 DEF RowsInv

LEMMA FiledReads ==
    ASSUME LoadInv, RowsInv, ReadLine
    PROVE  RowsInv'
<1>1. /\ step = "rows" /\ step' = "rows" /\ next' = next + 1 /\ next \in 1 .. Len(file)
      /\ next >= FirstRow
      /\ UNCHANGED <<file, columnNames, columnCount, types>>
      /\ file \in Seq(Lines) /\ file[next] \in Lines /\ types \in Seq(Types)
      /\ columnCount \in Nat \ {0} /\ Len(types) = columnCount
      /\ Whole(RowsRead) /\ Filed
  BY DEF ReadLine, LoadInv, CTypeOK, RowsInv
<1>2. /\ next \notin Records(file) => RowsRead' = RowsRead
      /\ next \in Records(file) => RowsRead' = RowsRead + 1 /\ RowOfRecord(file, next) = RowsRead + 1
  BY <1>1, OneLineOn DEF RowsRead
<1>3. next \in Records(file) <=> ~emptyLine(file[next])
  BY <1>1 DEF Records, FirstRow
<1>4. \A i \in Records(file) : i \in Nat
  BY <1>1, RecordsFinite
<1>5. Whole(RowsRead)' /\ Filed'
  <2>1. CASE emptyLine(file[next])
    <3>1. data' = data /\ RowsRead' = RowsRead
      BY <1>2, <1>3, <2>1 DEF ReadLine
    <3>2. \A i \in Records(file) : i < next + 1 => i < next
      BY <1>1, <1>3, <1>4, <2>1
    <3>3. Whole(RowsRead)'
      BY <1>1, <3>1 DEF Whole, DataAt
    <3>4. Filed'
      BY <1>1, <3>1, <3>2 DEF Filed, DataAt
    <3> QED BY <3>3, <3>4
  <2>2. CASE ~emptyLine(file[next])
    <3> DEFINE row   == RowOf(file[next], types)
               Cells == [type : Types, value : Field]
    <3>1. data' = data \o row /\ RowsRead' = RowsRead + 1 /\ RowOfRecord(file, next) = RowsRead + 1
      BY <1>2, <1>3, <2>2 DEF ReadLine
    <3>2. data \in Seq(Cells) /\ row \in Seq(Cells) /\ Len(row) = columnCount
      BY <1>1, RowTyped DEF LoadInv, CTypeOK
    <3>3. RowsRead \in Nat /\ Len(data) = RowsRead * columnCount
      <4>1. {i \in Records(file) : i < next} \in SUBSET Records(file)
        OBVIOUS
      <4>2. RowsRead \in Nat
        BY <1>1, <4>1, RecordsFinite DEF RowsRead
      <4> QED BY <1>1, <4>2 DEF Whole
    <3>4. PICK k \in Nat : k = RowsRead
      BY <3>3
    <3>5. Whole(RowsRead)'
      <4>1. Whole(k + 1)'
        BY <1>1, <3>1, <3>4, ReadRecord
      <4> QED BY <3>1, <3>4, <4>1 DEF Whole
    <3> HIDE DEF row, Cells
    <3>6. /\ \A i \in 1 .. Len(data) : data'[i] = data[i]
          /\ \A c \in 1 .. columnCount : data'[Len(data) + c] = row[c]
      BY <3>1, <3>2
    <3>7. ASSUME NEW n \in Records(file), NEW c \in 1 .. columnCount, n < next + 1
          PROVE  data'[(RowOfRecord(file, n) - 1) * columnCount + c] = RowOf(file[n], types)[c]
      <4>1. CASE n < next
        <5>1. RowOfRecord(file, n) \in 1 .. RowsRead
          BY <1>1, <4>1, RowInTable DEF RowsRead
        <5>2. (RowOfRecord(file, n) - 1) * columnCount + c \in 1 .. Len(data)
          BY <1>1, <3>3, <5>1, CellIndex
        <5> QED BY <1>1, <3>6, <4>1, <5>2 DEF Filed, DataAt
      <4>2. CASE n = next
        <5>1. (RowOfRecord(file, n) - 1) * columnCount + c = Len(data) + c
          BY <3>1, <3>3, <4>2
        <5> QED BY <3>6, <4>2, <5>1 DEF row
      <4>3. n < next \/ n = next
        BY <1>1, <1>4, <3>7
      <4> QED BY <4>1, <4>2, <4>3
    <3>8. Filed'
      BY <1>1, <3>7 DEF Filed, DataAt
    <3> QED BY <3>5, <3>8
  <2> QED BY <2>1, <2>2
<1> QED BY <1>1, <1>5 DEF RowsInv

LEMMA FiledEnds ==
    ASSUME LoadInv, RowsInv, EndOfFile
    PROVE  RowsInv'
BY DEF EndOfFile, RowsInv, Whole, Filed, DataAt, RowsRead

LEMMA FiledStutters ==
    ASSUME RowsInv, UNCHANGED cvars
    PROVE  RowsInv'
BY DEF RowsInv, Whole, Filed, DataAt, RowsRead, cvars, table

(* When the file has been read, every record is in the table. *)
LEMMA AllRead ==
    ASSUME LoadInv, RowsInv, step = "loaded"
    PROVE  /\ RowsRead = Cardinality(Records(file)) /\ rowCount = RowsRead /\ RowsRead \in Nat
           /\ \A n \in Records(file) : n < next /\ RowOfRecord(file, n) \in 1 .. rowCount
<1>1. /\ file \in Seq(Lines) /\ next \in Nat /\ next > Len(file) /\ columnCount \in Nat \ {0}
      /\ rowCount \in Nat /\ Whole(rowCount) /\ Whole(RowsRead)
  BY DEF LoadInv, CTypeOK, RowsInv
<1>2. \A i \in Records(file) : i < next
  BY <1>1, RecordsFinite
<1>3. {i \in Records(file) : i < next} = Records(file)
  BY <1>2
<1>4. RowsRead = Cardinality(Records(file)) /\ RowsRead \in Nat
  BY <1>1, <1>3, RecordsFinite DEF RowsRead
<1>5. rowCount = RowsRead
  <2>1. rowCount * columnCount = RowsRead * columnCount
    BY <1>1 DEF Whole
  <2>2. (rowCount * columnCount) \div columnCount = rowCount
    BY <1>1, WholeQuotient
  <2>3. (RowsRead * columnCount) \div columnCount = RowsRead
    BY <1>1, <1>4, WholeQuotient
  <2> QED BY <2>1, <2>2, <2>3
<1>6. \A n \in Records(file) : RowOfRecord(file, n) \in 1 .. RowsRead
  BY <1>1, <1>2, RowInTable DEF RowsRead
<1> QED BY <1>2, <1>4, <1>5, <1>6

(* A missing field is read as an empty one. *)
LEMMA MissingIsBlank ==
    ASSUME NEW t \in Types
    PROVE  Convert(t, Blank).value = Default(t).value
  BY CsvAssumption DEF Convert, Default, Types

LEMMA CellRead ==
    ASSUME NEW line \in Lines, NEW ts \in Seq(Types), NEW c \in 1 .. Len(ts)
    PROVE  RowOf(line, ts)[c].value = Convert(ts[c], FieldAt(line, c)).value
<1>1. ts[c] \in Types /\ c \in DOMAIN ts
  OBVIOUS
<1>2. RowOf(line, ts)[c] = IF c <= Len(line) THEN Convert(ts[c], line[c]) ELSE Default(ts[c])
  BY <1>1 DEF RowOf
<1>3. CASE c <= Len(line)
  BY <1>2, <1>3 DEF FieldAt
<1>4. CASE ~(c <= Len(line))
  BY <1>1, <1>2, <1>4, MissingIsBlank DEF FieldAt
<1> QED BY <1>3, <1>4

(* The frame that fromModel makes of a file with a record. *)
LEMMA FrameIsFile ==
    ASSUME ImportInv, RowsInv, step = "loaded", Records(file) # {}
    PROVE  /\ rowCount > 0
           /\ FramedAs(FrameOf([c \in 1 .. columnCount |-> rType(DataAt(1, c).type)]), file)
<1> DEFINE first == FirstRecord(file)
           df    == FrameOf([c \in 1 .. columnCount |-> rType(DataAt(1, c).type)])
<1>1. /\ file \in Seq(Lines) /\ types \in Seq(Types) /\ Len(types) = columnCount
      /\ columnCount \in Nat \ {0} /\ Whole(rowCount) /\ Filed
      /\ columnNames = NamesOf(file) /\ columnCount = Len(first)
      /\ types = [c \in 1 .. columnCount |-> guessType(first[c])]
  BY DEF ImportInv, LoadInv, CTypeOK, RowsInv
<1>2. /\ rowCount = Cardinality(Records(file)) /\ rowCount \in Nat
      /\ \A n \in Records(file) : n < next /\ RowOfRecord(file, n) \in 1 .. rowCount
  BY AllRead DEF ImportInv
<1>3. rowCount > 0
  BY <1>2
<1>4. file # <<>> /\ first \in Lines /\ DOMAIN first = 1 .. columnCount
  <2>1. first \in Lines
    BY DEF RowsInv
  <2>2. file # <<>>
    BY <1>1, RecordsFinite
  <2> QED BY <1>1, <2>1, <2>2 DEF Lines
<1>5. \A c \in 1 .. columnCount :
          HeaderData(c) = IF Headers THEN FieldAt(file[1], c) ELSE Blank
  BY <1>1, <1>4 DEF HeaderData, NamesOf, FieldAt
<1>6. \A c \in 1 .. columnCount : DataAt(1, c).type = guessType(first[c])
  <2>1. 1 \in 1 .. rowCount
    BY <1>2, <1>3
  <2> QED BY <1>1, <2>1 DEF Whole
<1>7. ASSUME NEW n \in Records(file), NEW c \in 1 .. columnCount
      PROVE  df.cells[c][RowOfRecord(file, n)]
                = Convert(guessType(first[c]), FieldAt(file[n], c)).value
  <2>1. file[n] \in Lines
    BY <1>1, RecordsFinite
  <2>2. DataAt(RowOfRecord(file, n), c) = RowOf(file[n], types)[c]
    BY <1>1, <1>2 DEF Filed
  <2>3. df.cells[c][RowOfRecord(file, n)] = DataAt(RowOfRecord(file, n), c).value
    BY <1>2 DEF FrameOf
  <2>4. RowOf(file[n], types)[c].value = Convert(types[c], FieldAt(file[n], c)).value
    BY <1>1, <2>1, CellRead
  <2>5. types[c] = guessType(first[c])
    BY <1>1
  <2> QED BY <2>2, <2>3, <2>4, <2>5
<1>8. /\ df.names = [c \in 1 .. columnCount |-> IF Headers THEN FieldAt(file[1], c) ELSE Blank]
      /\ df.types = [c \in 1 .. columnCount |-> rType(guessType(first[c]))]
      /\ df.rowNames = [r \in 1 .. rowCount |-> r]
      /\ DOMAIN df.cells = 1 .. columnCount
      /\ \A c \in 1 .. columnCount : DOMAIN df.cells[c] = 1 .. rowCount
  BY <1>5, <1>6 DEF FrameOf
<1> HIDE DEF df
<1>9. FramedAs(df, file)
  BY <1>2, <1>4, <1>7, <1>8 DEF FramedAs
<1> QED BY <1>3, <1>9 DEF df

(* The frames in R are the files. *)
FiledInv ==
    /\ RowsInv
    /\ ipc \in {"load", "bind"} => file = inputs[counter]
    /\ ipc = "bind" /\ Records(file) # {} => FramedAs(frame, file)
    /\ ImportedAsFiled

LEMMA RowsLoadStep == LoadInv /\ RowsInv /\ LoadStep => RowsInv'
  BY FiledBegins, FiledSkips, FiledGuesses, FiledReads, FiledEnds DEF LoadStep

LEMMA FiledInitial == IInit => FiledInv
  BY DEF IInit, CInit, NewModel, FiledInv, RowsInv, ImportedAsFiled

LEMMA FiledStep == ImportInv /\ FiledInv /\ [INext]_allivars => FiledInv'
<1> SUFFICES ASSUME ImportInv, FiledInv, [INext]_allivars PROVE FiledInv'
  OBVIOUS
<1>0. UNCHANGED cvars => RowsInv' /\ file' = file
  BY FiledStutters DEF FiledInv, cvars
<1>1. CASE NextInput
  <2>1. CASE ipc' = "load" /\ Load(inputs[counter'])
    <3>1. RowsInv' /\ file' = inputs[counter']
      BY <2>1 DEF Load, RowsInv
    <3> QED BY <1>1, <2>1, <3>1 DEF NextInput, FiledInv, ImportedAsFiled
  <2>2. CASE UNCHANGED <<cvars, ipc>>
    BY <1>0, <1>1, <2>2 DEF NextInput, FiledInv, ImportedAsFiled
  <2> QED BY <1>1, <2>1, <2>2 DEF NextInput
<1>2. CASE LoadInput
  <2>1. RowsInv'
    BY <1>2, RowsLoadStep DEF LoadInput, ImportInv, FiledInv
  <2>2. file' = file
    BY <1>2 DEF LoadInput, LoadStep, ReadNames, SkipBlank, GuessTypes, ReadLine, EndOfFile
  <2> QED BY <1>2, <2>1, <2>2 DEF LoadInput, ivars, FiledInv, ImportedAsFiled
<1>3. CASE FromModel
  <2>1. Records(file) # {} => FramedAs(frame', file)
    BY <1>3, FrameIsFile DEF FromModel, FiledInv
  <2> QED BY <1>0, <1>3, <2>1 DEF FromModel, FiledInv, ImportedAsFiled
<1>4. CASE FromModelWithoutRows
  <2>1. Records(file) = {}
    BY <1>4, FrameIsFile DEF FromModelWithoutRows, FiledInv
  <2> QED BY <1>0, <1>4, <2>1 DEF FromModelWithoutRows, FiledInv, ImportedAsFiled
<1>5. CASE Bind
  <2>1. /\ DOMAIN globals' = DOMAIN globals \cup {counter}
        /\ \A k \in DOMAIN globals' : globals'[k] = IF k = counter THEN frame ELSE globals[k]
    BY <1>5 DEF Bind
  <2>2. ASSUME NEW k \in DOMAIN globals', Records(inputs[k]) # {}
        PROVE  FramedAs(globals'[k], inputs[k])
    <3>1. CASE k = counter
      BY <1>5, <2>1, <2>2, <3>1 DEF Bind, FiledInv
    <3>2. CASE k # counter
      BY <2>1, <2>2, <3>2 DEF FiledInv, ImportedAsFiled
    <3> QED BY <3>1, <3>2
  <2> QED BY <1>0, <1>5, <2>2 DEF Bind, FiledInv, ImportedAsFiled
<1>6. CASE Ready
  BY <1>0, <1>6 DEF Ready, FiledInv, ImportedAsFiled
<1>7. CASE UNCHANGED allivars
  BY <1>0, <1>7 DEF allivars, ivars, FiledInv, ImportedAsFiled
<1> QED
  BY <1>1, <1>2, <1>3, <1>4, <1>5, <1>6, <1>7 DEF INext, InitRStep, Stopped

THEOREM FiledInvariant == ISpec => [](ImportInv /\ FiledInv)
<1>1. IInit => ImportInv /\ FiledInv
  BY ImportInitial, FiledInitial
<1>2. ImportInv /\ FiledInv /\ [INext]_allivars => (ImportInv /\ FiledInv)'
  BY ImportStep, FiledStep
<1> QED BY <1>1, <1>2, PTL DEF ISpec

(* load adds a whole row for every line that is not blank and nothing for   *)
(* the others, so the division at the end gives the number of records.      *)
THEOREM RowsAreWhole == ISpec => []WholeRows
<1>1. ImportInv /\ FiledInv => WholeRows
  <2> SUFFICES ASSUME ImportInv, RowsInv, step \in {"rows", "loaded"}
               PROVE  Len(data) = columnCount * RowsRead
    BY DEF FiledInv, WholeRows
  <2>1. Whole(RowsRead) /\ columnCount \in Nat /\ file \in Seq(Lines)
    BY DEF ImportInv, LoadInv, CTypeOK, RowsInv
  <2>2. {i \in Records(file) : i < next} \in SUBSET Records(file)
    OBVIOUS
  <2>3. RowsRead \in Nat
    BY <2>1, <2>2, RecordsFinite DEF RowsRead
  <2>4. RowsRead * columnCount = columnCount * RowsRead
    BY <2>1, <2>3
  <2> QED BY <2>1, <2>4 DEF Whole
<1> QED BY <1>1, FiledInvariant, PTL

(* What initR binds in R is the file, a row for a record and a column for a *)
(* field of the first record, whatever the other lines are like.            *)
THEOREM FramesAreFiles == ISpec => []ImportedAsFiled
<1>1. ImportInv /\ FiledInv => ImportedAsFiled
  BY DEF FiledInv
<1> QED BY <1>1, FiledInvariant, PTL
-------------------------------------------------------------------------------
(* How far the import is from its end: the files left, then, for the file   *)
(* at work, the lines both passes of load have still to read and the steps  *)
(* around them.                                                             *)
LinesFrom(n) == IF n <= Len(file) THEN Len(file) - n + 1 ELSE 0

FileLeft ==
    CASE ipc = "load" /\ step = "names"  -> 2 * Len(file) + 7
      [] ipc = "load" /\ step = "first"  -> LinesFrom(next) + LinesFrom(prevPos) + 5
      [] ipc = "load" /\ step = "rows"   -> LinesFrom(next) + 4
      [] ipc = "load" /\ step = "loaded" -> 3
      [] ipc = "bind"                    -> 2
      [] ipc = "loop"                    -> 1
      [] OTHER                           -> 0

ImportLeft == << Len(inputs) - counter, FileLeft >>

\* The order of pairs by their first, then by their second component.
LessLeft == LexPairOrdering(OpToRel(<, Nat), OpToRel(<, Nat), Nat, Nat)

LEMMA LessLeftWellFounded == IsWellFoundedOn(LessLeft, Nat \X Nat)
BY NatLessThanWellFounded, WFLexPairOrdering DEF LessLeft

LEMMA LessLeftPairs ==
    ASSUME NEW a \in Nat, NEW b \in Nat, NEW c \in Nat, NEW d \in Nat, a < c \/ (a = c /\ b < d)
    PROVE  << << a, b >>, << c, d >> >> \in LessLeft
BY DEF LessLeft, LexPairOrdering, OpToRel

LEMMA ImportLeftTyped ==
    ImportInv => /\ ImportLeft \in Nat \X Nat
                 /\ FileLeft = 0 => ipc \in {"ready", "crashed"}
<1> SUFFICES ASSUME ImportInv
             PROVE  /\ ImportLeft \in Nat \X Nat
                    /\ FileLeft = 0 => ipc \in {"ready", "crashed"}
  OBVIOUS
<1>1. /\ Len(inputs) \in Nat /\ counter \in 0 .. Len(inputs)
      /\ Len(file) \in Nat /\ next \in Nat /\ prevPos \in Nat
      /\ ipc \in {"loop", "load", "bind", "ready", "crashed"}
      /\ ipc = "load" => step \in {"names", "first", "rows", "loaded"}
  BY DEF ImportInv, ITypeOK, CTypeOK
<1>2. LinesFrom(next) \in Nat /\ LinesFrom(prevPos) \in Nat
  BY <1>1 DEF LinesFrom
<1>3. FileLeft \in Nat /\ (FileLeft = 0 => ipc \in {"ready", "crashed"})
  BY <1>1, <1>2 DEF FileLeft
<1>4. Len(inputs) - counter \in Nat
  BY <1>1
<1> QED BY <1>3, <1>4 DEF ImportLeft

\* A step of load reads a line of a pass, or begins the next one.
LEMMA LoadLowers ==
    ImportInv /\ LoadInput => FileLeft' < FileLeft /\ UNCHANGED <<inputs, counter>>
<1> SUFFICES ASSUME ImportInv, LoadInput
             PROVE  FileLeft' < FileLeft /\ UNCHANGED <<inputs, counter>>
  OBVIOUS
<1>1. /\ Len(file) \in Nat /\ next \in Nat \ {0} /\ prevPos \in Nat \ {0}
      /\ ipc = "load" /\ ipc' = "load" /\ file' = file
      /\ step = "names" => next = 1
  <2>1. file' = file
    BY DEF LoadInput, LoadStep, ReadNames, SkipBlank, GuessTypes, ReadLine, EndOfFile
  <2> QED BY <2>1 DEF LoadInput, ivars, ImportInv, LoadInv, CTypeOK
<1>2. \A n \in Nat \ {0} : LinesFrom(n) \in 0 .. Len(file)
  BY <1>1 DEF LinesFrom
<1>3. \A n \in Nat \ {0} : LinesFrom(n)' = LinesFrom(n) /\ (n <= Len(file) => LinesFrom(n + 1) < LinesFrom(n))
  BY <1>1 DEF LinesFrom
<1>4. CASE ReadNames
  <2>1. step = "names" /\ step' = "first" /\ next' \in Nat \ {0} /\ prevPos' = next'
    BY <1>1, <1>4 DEF ReadNames
  <2>2. LinesFrom(next)' \in 0 .. Len(file) /\ LinesFrom(prevPos)' \in 0 .. Len(file)
    BY <1>1, <2>1 DEF LinesFrom
  <2>3. FileLeft = 2 * Len(file) + 7 /\ FileLeft' = LinesFrom(next)' + LinesFrom(prevPos)' + 5
    BY <1>1, <2>1 DEF FileLeft
  <2>4. FileLeft' < FileLeft
    BY <1>1, <2>2, <2>3
  <2> QED BY <2>4 DEF LoadInput, ivars
<1>5. CASE SkipBlank
  <2>1. step = "first" /\ step' = "first" /\ next' = next + 1 /\ prevPos' = prevPos /\ next <= Len(file)
    BY <1>5 DEF SkipBlank, AtBlankLine
  <2>2. LinesFrom(next)' < LinesFrom(next) /\ LinesFrom(prevPos)' = LinesFrom(prevPos)
    BY <1>1, <2>1 DEF LinesFrom
  <2>3. LinesFrom(next)' \in Int /\ LinesFrom(next) \in Int /\ LinesFrom(prevPos) \in Int
    BY <1>1, <2>1 DEF LinesFrom
  <2>4. /\ FileLeft = LinesFrom(next) + LinesFrom(prevPos) + 5
        /\ FileLeft' = LinesFrom(next)' + LinesFrom(prevPos)' + 5
    BY <1>1, <2>1 DEF FileLeft
  <2>5. FileLeft' < FileLeft
    BY <2>2, <2>3, <2>4
  <2> QED BY <2>5 DEF LoadInput, ivars
<1>6. CASE GuessTypes
  <2>1. step = "first" /\ step' = "rows" /\ next' = prevPos
    BY <1>6 DEF GuessTypes
  <2>2. LinesFrom(next)' = LinesFrom(prevPos) /\ LinesFrom(prevPos) \in Nat /\ LinesFrom(next) \in Nat
    BY <1>1, <2>1 DEF LinesFrom
  <2>3. FileLeft = LinesFrom(next) + LinesFrom(prevPos) + 5 /\ FileLeft' = LinesFrom(next)' + 4
    BY <1>1, <2>1 DEF FileLeft
  <2>4. FileLeft' < FileLeft
    BY <2>2, <2>3
  <2> QED BY <2>4 DEF LoadInput, ivars
<1>7. CASE ReadLine
  <2>1. step = "rows" /\ step' = "rows" /\ next' = next + 1 /\ next <= Len(file)
    BY <1>7 DEF ReadLine
  <2>2. LinesFrom(next)' < LinesFrom(next) /\ LinesFrom(next)' \in Int /\ LinesFrom(next) \in Int
    BY <1>1, <2>1 DEF LinesFrom
  <2>3. FileLeft = LinesFrom(next) + 4 /\ FileLeft' = LinesFrom(next)' + 4
    BY <1>1, <2>1 DEF FileLeft
  <2>4. FileLeft' < FileLeft
    BY <2>2, <2>3
  <2> QED BY <2>4 DEF LoadInput, ivars
<1>8. CASE EndOfFile
  <2>1. FileLeft = LinesFrom(next) + 4 /\ FileLeft' = 3 /\ LinesFrom(next) \in Nat
    BY <1>1, <1>2, <1>8 DEF EndOfFile, FileLeft
  <2>2. FileLeft' < FileLeft
    BY <2>1
  <2> QED BY <2>2 DEF LoadInput, ivars
<1> QED BY <1>4, <1>5, <1>6, <1>7, <1>8 DEF LoadInput, LoadStep

LEMMA ImportLowers == ImportInv /\ InitRStep => << ImportLeft', ImportLeft >> \in LessLeft
<1> SUFFICES ASSUME ImportInv, InitRStep PROVE << ImportLeft', ImportLeft >> \in LessLeft
  OBVIOUS
<1>1. ImportInv'
  BY ImportStep DEF INext
<1>2. /\ Len(inputs) - counter \in Nat /\ FileLeft \in Nat
      /\ (Len(inputs) - counter)' \in Nat /\ FileLeft' \in Nat
  <2>1. ImportLeft \in Nat \X Nat
    BY ImportLeftTyped
  <2>2. (ImportLeft \in Nat \X Nat)'
    BY <1>1, ImportLeftTyped, PTL
  <2> QED BY <2>1, <2>2 DEF ImportLeft
<1>3. counter \in Nat /\ Len(inputs) \in Nat
  BY DEF ImportInv, ITypeOK
<1> SUFFICES \/ (Len(inputs) - counter)' < Len(inputs) - counter
             \/ (Len(inputs) - counter)' = Len(inputs) - counter /\ FileLeft' < FileLeft
  BY <1>2, LessLeftPairs DEF ImportLeft
<1>4. CASE NextInput
  <2>1. counter' = counter + 1 /\ inputs' = inputs
    BY <1>4 DEF NextInput
  <2> QED BY <1>3, <2>1
<1>5. CASE LoadInput
  BY <1>5, LoadLowers
<1>6. CASE FromModel \/ FromModelWithoutRows
  <2>1. /\ ipc = "load" /\ step = "loaded" /\ ipc' \in {"bind", "crashed"}
        /\ UNCHANGED <<inputs, counter>>
    BY <1>6 DEF FromModel, FromModelWithoutRows
  <2> QED BY <2>1 DEF FileLeft
<1>7. CASE Bind \/ Ready
  BY <1>7 DEF Bind, Ready, FileLeft
<1> QED BY <1>4, <1>5, <1>6, <1>7 DEF InitRStep

(* The safety part of ImportEnds: each step of initR brings it nearer to    *)
(* its end, in an order in which nothing can come nearer for ever, and      *)
(* where no step is left, all is read or the program has stopped.           *)
THEOREM ImportRunsDown ==
    /\ IsWellFoundedOn(LessLeft, Nat \X Nat)
    /\ ISpec => /\ [](ImportLeft \in Nat \X Nat)
                /\ [](FileLeft = 0 => ipc \in {"ready", "crashed"})
                /\ [][InitRStep => << ImportLeft', ImportLeft >> \in LessLeft]_allivars
<1>1. IsWellFoundedOn(LessLeft, Nat \X Nat)
  BY LessLeftWellFounded
<1>2. ImportInv /\ [INext]_allivars =>
         [InitRStep => << ImportLeft', ImportLeft >> \in LessLeft]_allivars
  BY ImportLowers
<1>3. ISpec => /\ [](ImportLeft \in Nat \X Nat)
               /\ [](FileLeft = 0 => ipc \in {"ready", "crashed"})
               /\ [][InitRStep => << ImportLeft', ImportLeft >> \in LessLeft]_allivars
  BY <1>2, ImportLeftTyped, ImportInvariant, PTL DEF ISpec
<1> QED BY <1>1, <1>3
===============================================================================
