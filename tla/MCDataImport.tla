----------------------------- MODULE MCDataImport -----------------------------
(* Files of up to four lines, alone and before or after others, for TLC.     *)
EXTENDS DataImport

MCField == {"", "0", "true", "false", "7", "-1294967296", "3000000000", "2.5", "x"}
MCIntegers32 == {"0", "7", "-1294967296"}
MCIntegers64 == {"3000000000"}
MCWrap == [f \in MCIntegers64 |-> "-1294967296"]

MCLines == {<< "" >>, << "7" >>, << "3000000000", "x" >>, << "true", "", "2.5" >>}
MCFiles == UNION {[1 .. n -> MCLines] : n \in 0 .. 4}
Pair    == << << "x", "7" >>, << "7", "2.5" >> >>
MCInputs == {<<>>} \cup {<< f >> : f \in MCFiles}
               \cup {<< f, Pair >> : f \in MCFiles} \cup {<< Pair, <<>>, Pair >>}
===============================================================================
