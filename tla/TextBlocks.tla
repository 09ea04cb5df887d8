------------------------------ MODULE TextBlocks ------------------------------
(***************************************************************************)
(* The text document behind Console, as Qt keeps it: a sequence of blocks  *)
(* (paragraphs), each a sequence of characters, and the widget's cursor,   *)
(* which has a position and the anchor of its selection.  QTextDocument    *)
(* and QTextCursor are not in the repository: the operators say what       *)
(* Console.cpp relies on when it calls them.                               *)
(*                                                                         *)
(* A text is a non-empty sequence of lines: the string "a\nb" is           *)
(* << <<"a">>, <<"b">> >>.  A position is a block number and an offset in  *)
(* that block, QTextCursor::positionInBlock().                             *)
(***************************************************************************)
EXTENDS Naturals, Sequences

Texts(Char) == Seq(Seq(Char)) \ {<<>>}

Empty   == << <<>> >>               \* the empty string
NewLine == << <<>>, <<>> >>         \* "\n"

LastLine(t) == t[Len(t)]

Positions(t) == UNION {{[b |-> b, c |-> c] : c \in 0 .. Len(t[b])} : b \in DOMAIN t}

Before(p, q) == p.b < q.b \/ (p.b = q.b /\ p.c <= q.c)

EndOf(t) == [b |-> Len(t), c |-> Len(LastLine(t))]

\* QString::append: the last line of s goes on with the first line of t.
Join(s, t) == SubSeq(s, 1, Len(s) - 1) \o << LastLine(s) \o Head(t) >> \o Tail(t)

TextUpTo(t, p) == SubSeq(t, 1, p.b - 1) \o << SubSeq(t[p.b], 1, p.c) >>
TextFrom(t, p) == << SubSeq(t[p.b], p.c + 1, Len(t[p.b])) >> \o SubSeq(t, p.b + 1, Len(t))

-------------------------------------------------------------------------------
(* A view is the document with the widget's cursor. *)

At(t, p) == [text |-> t, pos |-> p, anchor |-> p]

SelectionStart(v) == IF Before(v.pos, v.anchor) THEN v.pos ELSE v.anchor
SelectionEnd(v)   == IF Before(v.pos, v.anchor) THEN v.anchor ELSE v.pos

\* QTextCursor::insertText, insertBlock, removeSelectedText of the widget's
\* cursor: the selection goes, the text comes, the cursor stands behind it.
Replace(v, t) ==
    LET typed == Join(TextUpTo(v.text, SelectionStart(v)), t)
    IN  At(Join(typed, TextFrom(v.text, SelectionEnd(v))), EndOf(typed))

\* Removing the text of one block through another cursor: the widget's cursor
\* keeps its anchor when that is in a different block.
EraseBlock(v, b) ==
    LET moved(p) == IF p.b = b THEN [p EXCEPT !.c = 0] ELSE p
    IN  [text |-> [v.text EXCEPT ![b] = <<>>], pos |-> moved(v.pos), anchor |-> moved(v.anchor)]

\* QString::lastIndexOf(word), as the positions just behind each occurrence.
Occurrences(t, word) ==
    {p \in Positions(t) : /\ p.c >= Len(word)
                          /\ SubSeq(t[p.b], p.c - Len(word) + 1, p.c) = word}
===============================================================================
