--------------------------- MODULE MCEditorDocument ---------------------------
(* Two files and three texts on a computer whose local code page is not      *)
(* UTF-8: a text of letters beyond ASCII comes back as replacement           *)
(* characters, and these are written as question marks.                      *)
EXTENDS EditorDocument

MCText  == {"", "ascii", "cyrillic", "junk"}
MCBytes == {"", "ascii", "cp1251", "???"}

MCEncode == [t \in MCText |-> CASE t = "cyrillic" -> "cp1251"
                                [] t = "junk"     -> "???"
                                [] OTHER          -> t]
MCDecode == [b \in MCBytes |-> CASE b \in {"cp1251", "???"} -> "junk" [] OTHER -> b]
================================================================================
