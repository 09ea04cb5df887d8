-------------------------------- MODULE RModel --------------------------------
(***************************************************************************)
(* RModel (src/RInside/rmodel.cpp): the table that shows an R object, and  *)
(* edits it in place; with what RObject tells it of the object             *)
(* (robject.cpp).  An object is a record of                                *)
(*    type    TYPEOF, as RObject names it, "Pairlist" or "Closure"         *)
(*    class   "data.frame", "factor" or "none"                             *)
(*    dim     the attribute dim, <<>> without it                           *)
(*    names   the length of the attribute names                            *)
(*    rows    the length of the attribute row.names                        *)
(*    levels  the object in the attribute levels                           *)
(*    data    its elements: values, or objects if it is "Generic"          *)
(* The heap h is a function from names of objects to objects, so that      *)
(* columns and levels may be shared.  Indices count from 0 as in the code. *)
(***************************************************************************)
EXTENDS Integers, Sequences, FiniteSetsExt

CONSTANT Beyond     \* the number that is found behind the end of a vector
ASSUME BeyondAssumption == Beyond \in Nat

NA == -1            \* stands for INT_MIN, R's missing integer and logical

\* QVariants.
Variant(type, v) == << type, v >>
NaN     == Variant("String", "NaN")
Invalid == << "Invalid" >>
Outside == << "Outside" >>      \* whatever the memory outside of a vector makes

Fields  == {"type", "class", "dim", "names", "rows", "levels", "data"}
Plain   == {"Bool", "Int", "String", "Byte"}
Vectors == Plain \cup {"Generic"}

evalStorage(o) ==
    IF o.class = "data.frame" THEN "Frame"
    ELSE IF o.type \in Vectors /\ Len(o.dim) = 2 THEN "Matrix"
    ELSE IF o.type \in {"Null", "Pairlist", "Generic"} THEN "List"
    ELSE IF o.type \in Vectors /\ o.dim # <<>> THEN "Array"
    ELSE IF o.type = "Int" /\ o.class = "factor" THEN "Factor"
    ELSE IF o.type \in Vectors THEN "Vector"
    ELSE "Other"

\* An array of more than three dimensions, one of those behind them being 0.
EmptyBehind(o) == \E i \in 4 .. Len(o.dim) : o.dim[i] = 0

\* data() takes for objects what lies behind the head of a cons cell, or numbers.
Wild(o) == evalStorage(o) \in {"Frame", "List"} /\ o.type \notin {"Null", "Generic"}

\* R keeps as many elements as the dims say, and a name for each element or none.
Shaped(o) ==
    /\ Len(o.data) \in Nat /\ o.data = [i \in 1 .. Len(o.data) |-> o.data[i]]
    /\ o.type = "Null" => o.data = <<>>
    /\ o.dim \in Seq(Nat) /\ o.rows \in Nat /\ o.names \in {0, Len(o.data)}
    /\ evalStorage(o) = "Matrix" => Len(o.data) = o.dim[1] * o.dim[2]
    /\ evalStorage(o) = "Array" /\ Len(o.dim) = 3 => Len(o.data) = o.dim[1] * o.dim[2] * o.dim[3]
    /\ evalStorage(o) = "Array" /\ Len(o.dim) > 3 =>
          IF EmptyBehind(o) THEN Len(o.data) = 0
          ELSE Len(o.data) >= o.dim[1] * o.dim[2] * o.dim[3]

Inside(o, i)  == i \in 0 .. Len(o.data) - 1
Element(o, i) == o.data[i + 1]
code(o, i)    == IF Inside(o, i) THEN Element(o, i) ELSE Beyond

\* A missing logical counts as true; the bytes of a raw vector as a pointer.
plain(o, i) ==
    IF o.type \notin Plain                   THEN Invalid
    ELSE IF o.type = "Byte" \/ ~Inside(o, i) THEN Outside
    ELSE Variant(o.type, IF o.type = "Bool" /\ Element(o, i) # 0 THEN 1 ELSE Element(o, i))

\* v comes from an editor of the type that the cell shows.
setPlain(h, x, i, v) == [h EXCEPT ![x]["data"][i + 1] = v[2]]
-------------------------------------------------------------------------------
dimsValue(o, i) == IF i < Len(o.dim) THEN o.dim[i + 1] ELSE Beyond

rowCount(h, x) ==
    LET o == h[x] IN
    CASE evalStorage(o) = "Frame"  -> o.rows
      [] evalStorage(o) = "Matrix" -> o.dim[1]
      [] evalStorage(o) = "List"   ->
            IF Wild(o) THEN Beyond ELSE Max({0} \cup {Len(h[o.data[i]].data) : i \in DOMAIN o.data})
      [] evalStorage(o) = "Array"  -> dimsValue(o, 0) * dimsValue(o, 2)
      [] evalStorage(o) \in {"Factor", "Vector"} -> Len(o.data)
      [] OTHER -> 1

columnCount(h, x) ==
    LET o == h[x] IN
    CASE evalStorage(o) = "Frame"  -> o.names
      [] evalStorage(o) = "Matrix" -> o.dim[2]
      [] evalStorage(o) = "List"   -> Len(o.data)
      [] evalStorage(o) = "Array"  -> dimsValue(o, 1)
      [] OTHER -> 1

Cells(h, x) == (0 .. rowCount(h, x) - 1) \X (0 .. columnCount(h, x) - 1)

\* The vector and the offset that the cell in row r and column c stands for.
PlaceByColumns(h, x, r, c) ==                                                    \* mutant
    CASE evalStorage(h[x]) \in {"Matrix", "Array"} -> << x, c * columnCount(h, x) + r >>
      [] Wild(h[x]) -> << x, -1 >>
      [] evalStorage(h[x]) \in {"Frame", "List"} /\ ~Wild(h[x]) -> << Element(h[x], c), r >>
      [] OTHER -> << x, r >>

Place(h, x, r, c) ==
    CASE evalStorage(h[x]) \in {"Matrix", "Array"} -> << x, c * rowCount(h, x) + r >>
      [] Wild(h[x]) -> << x, -1 >>
      [] evalStorage(h[x]) \in {"Frame", "List"} /\ ~Wild(h[x]) -> << Element(h[x], c), r >>
      [] OTHER -> << x, r >>

\* Does the cell show a level, and which code does it stand for?
IsLevel(h, x, r, c) ==
    evalStorage(h[x]) \in {"Frame", "Factor"} /\ evalStorage(h[Place(h, x, r, c)[1]]) = "Factor"

\* The vector and the offset that data and setData go to.
Target(h, x, r, c) ==
    LET p == Place(h, x, r, c)
    IN  IF IsLevel(h, x, r, c) THEN << h[p[1]].levels, code(h[p[1]], p[2]) - 1 >> ELSE p

data(h, x, r, c) ==
    LET t == Target(h, x, r, c)
        length == Len(h[t[1]].data)
    IN  CASE evalStorage(h[x]) = "Other" -> Invalid
          [] Wild(h[x]) -> Outside
          [] evalStorage(h[x]) = "List" /\ ~Wild(h[x]) /\ r >= length -> NaN
          [] evalStorage(h[x]) = "Factor" /\ (t[2] > length \/ t[2] < 0) -> NaN
          [] OTHER -> plain(h[t[1]], t[2])

\* flags: a cell of a list below the end of its column is not editable.
editable(h, x, r, c) ==
    evalStorage(h[x]) = "List" /\ ~Wild(h[x]) => Inside(h[Element(h[x], c)], r)

setDataFirstLevel(h, x, r, c, v) ==                                              \* mutant
    LET t == Target(h, x, r, c)
    IN  setPlain(h, t[1], IF IsLevel(h, x, r, c) THEN 0 ELSE t[2], v)

setDataMissing(h, x, r, c, v) ==                                                 \* mutant
    LET t == Target(h, x, r, c)
        p == Place(h, x, r, c)
    IN  IF IsLevel(h, x, r, c) THEN setPlain(h, p[1], p[2], Variant("Int", NA))
        ELSE setPlain(h, t[1], t[2], v)

setData(h, x, r, c, v) ==
    LET t == Target(h, x, r, c) IN setPlain(h, t[1], t[2], v)
-------------------------------------------------------------------------------
\* Every code of a factor has a level, and levels are texts.
Coded(h, f) ==
    /\ h[f.levels].type \in {"String", "Null"}
    /\ \A i \in DOMAIN f.data : f.data[i] \in 1 .. Len(h[f.levels].data)

\* What the code takes for granted of an object that it shows, and R does not.
WellFormed(h, x) ==
    LET o == h[x] IN
    CASE evalStorage(o) = "Frame" ->
            /\ ~Wild(o)
            /\ \A i \in DOMAIN o.data :
                  LET column == h[o.data[i]]
                  IN  /\ column.type \in Plain => Len(column.data) >= o.rows
                      /\ evalStorage(column) = "Factor" => Coded(h, column)
      [] evalStorage(o) = "List"   -> ~Wild(o)
      [] evalStorage(o) = "Array"  -> Len(o.dim) >= 3 /\ ~EmptyBehind(o)
      [] evalStorage(o) = "Factor" -> Coded(h, o)
      [] OTHER -> TRUE
================================================================================
