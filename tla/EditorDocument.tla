----------------------------- MODULE EditorDocument -----------------------------
(***************************************************************************)
(* The document of the editor pane (src/REditor/MainWindow.cpp): its text, *)
(* the file it belongs to and the flag m_editorTextChanged, under typing,  *)
(* New, Open, Save, Save as and closing the window.  The message boxes and *)
(* the Save dialog are modal: the handler waits in them for one answer.    *)
(*                                                                         *)
(* The files are bytes.  onSave writes toLocal8Bit() of the text, onOpen   *)
(* reads them as QString(QByteArray), which is UTF-8; Encode and Decode    *)
(* are these conversions, and need not be inverse to each other.           *)
(***************************************************************************)

CONSTANTS
    Name,           \* file names the dialogs may return
    NoName,         \* the empty QString
    Text, EmptyText,
    Bytes,          \* contents of a file
    Encode, Decode

ASSUME DocumentAssumption ==
    /\ NoName \notin Name
    /\ EmptyText \in Text
    /\ Encode \in [Text -> Bytes]
    /\ Decode \in [Bytes -> Text]

VARIABLES
    text,           \* ui->editor
    changed,        \* m_editorTextChanged
    fileName,       \* m_fileName
    disk,           \* the contents of the files
    pc,             \* idle, or the dialog that is open: askNew, askClose, saveDialog; closed
    after,          \* what onSave returns to: its menu item, onNew or closeEvent
    io              \* history variable: how the last access to a file ended

dvars == <<text, changed, fileName, disk, pc, after, io>>

Init ==
    /\ text = EmptyText /\ changed = FALSE /\ fileName = NoName
    /\ disk \in [Name -> Bytes]
    /\ pc = "idle" /\ after = "menu" /\ io = "none"

\* textChanged: typing, pasting, cutting, undo.
Type(t) ==
    /\ pc = "idle"
    /\ text' = t /\ changed' = TRUE
    /\ UNCHANGED <<fileName, disk, pc, after, io>>

ClearEditor == text' = EmptyText /\ changed' = FALSE /\ fileName' = NoName

KeepDocument == UNCHANGED <<text, changed, fileName>>
-------------------------------------------------------------------------------
(* onSave(saveAs), called from caller. *)

\* The file of the document after writing: all of it, nothing of it (the file
\* cannot be opened), or a part.  The results of open and write are not tested.
WrittenAfterClearing(n, result, bytes) ==                                        \* mutant
    IF result = "ok" THEN [disk EXCEPT ![n] = Encode[EmptyText]] ELSE disk
Written(n, result, bytes) ==
    CASE result = "ok"     -> [disk EXCEPT ![n] = Encode[text]]
      [] result = "failed" -> disk
      [] result = "partly" -> [disk EXCEPT ![n] = bytes]

\* Back in the caller: onNew clears the editor, closeEvent accepts.
Return(caller) ==
    /\ pc' = IF caller = "close" THEN "closed" ELSE "idle"
    /\ after' = "menu"

WriteFile(n, caller) ==
    /\ \E result \in {"ok", "failed", "partly"}, bytes \in Bytes :
          /\ disk' = Written(n, result, bytes)
          /\ io' = result
    /\ IF caller = "new" THEN ClearEditor
                         ELSE changed' = FALSE /\ fileName' = n /\ UNCHANGED text
    /\ Return(caller)

OnSave(saveAs, caller) ==
    IF saveAs \/ fileName = NoName
    THEN pc' = "saveDialog" /\ after' = caller /\ KeepDocument /\ UNCHANGED <<disk, io>>
    ELSE WriteFile(fileName, caller)

SaveDialogAnswered(n) == pc = "saveDialog" /\ WriteFile(n, after)

SaveDialogCancelledAsSaved ==                                                    \* mutant
    /\ pc = "saveDialog" /\ Return(after)
    /\ changed' = FALSE /\ UNCHANGED <<text, fileName, disk, io>>

SaveDialogCancelled ==
    /\ pc = "saveDialog"
    /\ IF after = "new" THEN ClearEditor ELSE KeepDocument
    /\ Return(after)
    /\ UNCHANGED <<disk, io>>

Save   == pc = "idle" /\ OnSave(FALSE, "menu")
SaveAs == pc = "idle" /\ OnSave(TRUE, "menu")
-------------------------------------------------------------------------------
(* onNew has no effect on an unchanged document. *)

NewUnasked == pc = "idle" /\ changed /\ ClearEditor /\ UNCHANGED <<disk, pc, after, io>> \* mutant
New == pc = "idle" /\ changed /\ pc' = "askNew" /\ KeepDocument /\ UNCHANGED <<disk, after, io>>

NewYes    == pc = "askNew" /\ OnSave(FALSE, "new")
NewNo     == pc = "askNew" /\ pc' = "idle" /\ ClearEditor /\ UNCHANGED <<disk, after, io>>
NewCancel == pc = "askNew" /\ pc' = "idle" /\ KeepDocument /\ UNCHANGED <<disk, after, io>>

(* closeEvent. *)

Close ==
    /\ pc = "idle"
    /\ pc' = IF changed THEN "askClose" ELSE "closed"
    /\ KeepDocument /\ UNCHANGED <<disk, after, io>>

CloseYes    == pc = "askClose" /\ OnSave(FALSE, "close")
CloseNo     == pc = "askClose" /\ pc' = "closed" /\ KeepDocument /\ UNCHANGED <<disk, after, io>>
CloseCancel == pc = "askClose" /\ pc' = "idle" /\ KeepDocument /\ UNCHANGED <<disk, after, io>>

(* onOpen does not ask about an unsaved document. *)

OpenUndecoded(n) ==                                                              \* mutant
    /\ pc = "idle"
    /\ text' = disk[n] /\ io' = "ok" /\ changed' = FALSE /\ fileName' = n
    /\ UNCHANGED <<disk, pc, after>>

Open(n) ==
    /\ pc = "idle"
    /\ \/ text' = Decode[disk[n]] /\ io' = "ok"
       \/ text' = EmptyText /\ io' = "failed"         \* the file cannot be opened
    /\ changed' = FALSE /\ fileName' = n
    /\ UNCHANGED <<disk, pc, after>>
-------------------------------------------------------------------------------
Closed == pc = "closed" /\ UNCHANGED dvars

Next ==
    \/ \E t \in Text : Type(t)
    \/ \E n \in Name : SaveDialogAnswered(n) \/ Open(n)
    \/ SaveDialogCancelled \/ Save \/ SaveAs
    \/ New \/ NewYes \/ NewNo \/ NewCancel
    \/ Close \/ CloseYes \/ CloseNo \/ CloseCancel
    \/ Closed

Spec == Init /\ [][Next]_dvars
-------------------------------------------------------------------------------
TypeOK ==
    /\ text \in Text
    /\ changed \in BOOLEAN
    /\ fileName \in Name \cup {NoName}
    /\ disk \in [Name -> Bytes]
    /\ pc \in {"idle", "askNew", "askClose", "saveDialog", "closed"}
    /\ after \in {"menu", "new", "close"}
    /\ io \in {"none", "ok", "failed", "partly"}

(* A step that gives up the text: it is replaced other than by typing, or   *)
(* the window is gone.                                                      *)
Typing == \E t \in Text : Type(t)
GivesUp == \/ ~Typing /\ text' # text
           \/ pc # "closed" /\ pc' = "closed"

(* The user answers a dialog that is open because the text may be given up. *)
Asked == pc \in {"askNew", "askClose"} \/ (pc = "saveDialog" /\ after # "menu")

(* m_editorTextChanged is the only guard of the document.  While it is off, *)
(* the text is that of the document's file, or empty in a document without  *)
(* one, unless the last access to a file failed, whose result the program   *)
(* does not look at.                                                        *)
CleanIsSaved ==
    ~changed /\ io \notin {"failed", "partly"} =>
        IF fileName = NoName THEN text = EmptyText
        ELSE disk[fileName] = Encode[text] \/ text = Decode[disk[fileName]]

(* A changed text is given up only in a dialog that asks about it, or by    *)
(* opening another file.                                                    *)
GivenUpOnlyIfAsked ==
    [][changed /\ GivesUp => Asked \/ \E n \in Name : Open(n)]_dvars

(* If the user wants the document saved and a file is written, that file is *)
(* the one that holds the text before it is given up.                       *)
YesSavesTheText ==
    [][GivesUp /\ Asked /\ (NewYes \/ CloseYes \/ \E n \in Name : SaveDialogAnswered(n))
          /\ io' = "ok" => \E n \in Name : disk'[n] = Encode[text]]_dvars

(* The boxes of onNew and closeEvent ask "Save current document before      *)
(* create new?" (MainWindow.cpp 187) and "... before exit?" (280): after    *)
(* Yes the text is on the disk before it is given up, if the disk works.    *)
SavedBeforeGivenUp ==
    [][GivesUp /\ Asked /\ ~(NewNo \/ CloseNo) /\ io' \notin {"failed", "partly"} =>
          \E n \in Name : disk'[n] = Encode[text]]_dvars
================================================================================
