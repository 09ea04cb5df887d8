------------------------------ MODULE MCConsole ------------------------------
(* Console with a keyboard of one or two keys, for TLC. *)
EXTENDS Console

MCChar    == {">", "+", " ", "a"}
MCScripts == {<< <<"a">> >>}
MCClips   == {<< <<"a">>, <<"a">> >>}
MCOutputs == {Empty, << <<"a">> >>}
MCOneOutput == {Empty}

\* The records do not matter to the lines of the document: only two are followed.
MCRecords    == {Empty, << <<"a">> >>}
MCFewRecords == partial.text \in MCRecords /\ \A i \in DOMAIN history : history[i] \in MCRecords
=============================================================================
