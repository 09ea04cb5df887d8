---------------------------- MODULE MCVariableViews ----------------------------
(* Two variables and one object of each kind, for TLC.                       *)
EXTENDS VariableViews

Vec(type, elements) ==
    [type |-> type, class |-> "none", dim |-> <<>>, names |-> 0, rows |-> 0, levels |-> Nil,
     data |-> elements]
WithDim(o, dim)    == [o EXCEPT !.dim = dim]
AsFrame(o, rows)   == [o EXCEPT !.class = "data.frame", !.names = Len(o.data), !.rows = rows]
Frame(columns, rows) == AsFrame(Vec("Generic", columns), rows)
FactorOf(codes)    == [Vec("Int", codes) EXCEPT !.class = "factor", !.levels = "levels"]

MCInitial ==
    [NULL    |-> Vec("Null", <<>>),
     levels  |-> Vec("String", << "a", "b" >>),
     texts   |-> Vec("String", << "a", "b", "a" >>),
     codes   |-> FactorOf(<< 2, 1, 2 >>),
     factor  |-> FactorOf(<< 1, NA, 2 >>),
     frame   |-> Frame(<< "texts", "codes", "texts" >>, 3),
     frameNA |-> Frame(<< "factor", "texts" >>, 3),
     vector  |-> Vec("Int", << 0, 1 >>),
     reshaped |-> WithDim(Vec("Int", << 0, 1 >>), << 1, 2 >>),
     list    |-> Vec("Generic", << "vector", "texts", "truth" >>),
     truth   |-> Vec("Bool", << NA >>),
     matrix  |-> WithDim(Vec("Int", << 0, 1, 2, 3, 4, 5 >>), << 2, 3 >>),
     array   |-> WithDim(Vec("Int", << 0, 1, 2, 3, 4, 5 >>), << 1, 3, 2 >>),
     array1  |-> WithDim(Vec("Int", << 0, 1 >>), << 2 >>),
     array4  |-> WithDim(Vec("Int", <<>>), << 1, 2, 1, 0 >>),
     two     |-> FactorOf(<< 2, 1 >>),
     bare    |-> [FactorOf(<< 2, 1 >>) EXCEPT !.levels = Nil],
     inner   |-> Frame(<< "vector" >>, 2),
     mixed   |-> Frame(<< "levels", "two", "matrix", "inner", "bare" >>, 2),
     bytes   |-> Vec("Byte", << 0 >>),
     closure |-> Vec("Closure", << 0 >>),
     formals |-> Vec("Pairlist", << 0, 0 >>),
     numbers |-> AsFrame(Vec("Int", << 0 >>), 1),
     short   |-> Frame(<< "truth", "two", "formals" >>, 3),
     nameless |-> [Frame(<< "texts" >>, 3) EXCEPT !.names = 0],
     held    |-> Vec("Generic", << "codes", "closure", "numbers" >>)]

MCVariables == << "In_1", "In_2" >>
MCObjects   == DOMAIN MCInitial
MCImported  == [n \in {"In_1", "In_2"} |-> "frame"]
MCBindable  == MCObjects \ {"NULL", "levels", "texts", "codes", "reshaped", "two", "inner", "bare"}
MCChanged   == [x \in MCObjects |-> IF x = "vector" THEN {MCInitial["reshaped"]} ELSE {}]
===============================================================================
