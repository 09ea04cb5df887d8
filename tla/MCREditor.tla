------------------------------- MODULE MCREditor -------------------------------
(* REditor with one key, one script and one message, for TLC. *)
EXTENDS REditor

MCChar     == {">", "+", " ", "a"}
MCScripts  == {<< <<"a">> >>}
MCMessages == {<< <<"a">>, <<>> >>}

\* What MaxBuffer + 2 messages can be printed as: only their texts count.
MCEntries == {e \in Entries : e.from = "command" /\ e.kind = "write"}
MCOutputs ==
    {Shown(b) : b \in UNION {[1 .. n -> MCEntries] : n \in 0 .. MaxBuffer + 2}}
================================================================================
