-------------------------------- MODULE Console --------------------------------
(***************************************************************************)
(* REditor's console widget (src/REditor/Console.cpp): a text editor that  *)
(* plays a terminal.  The user types behind a prompt on the last line,     *)
(* Return emits the signal command(text), and its receiver answers with    *)
(* extraInput() when the parser wants more text and with output(s) when    *)
(* the evaluation is over.  Everything runs in the GUI thread, so no key   *)
(* and no click comes between a command and its output.                    *)
(*                                                                         *)
(* The receiver is MainWindow::onCommand.  Here it may answer anything     *)
(* onCommand can: at most one extraInput(), then one output().             *)
(***************************************************************************)
EXTENDS TextBlocks

CONSTANTS
    Char,           \* the characters a text is made of
    Keys,           \* the ones the user types
    Clips,          \* texts the clipboard may hold
    Scripts,        \* texts of the editor that are not blank
    Outputs,        \* texts the receiver prints
    Mouse,          \* what the user does with it: "none", "click", or "drag" over text
    HistoryCount,   \* m_historyCount: commands the history keeps
    MaxLines,       \* bound: lines of the document
    MaxLength       \* bound: characters of a line

DefaultPrompt == <<">", " ">>
ExtraPrompt   == <<"+", " ">>

ASSUME ConsoleAssumption ==
    /\ Keys \subseteq Char
    /\ {">", "+", " "} \subseteq Char
    /\ Clips \subseteq Texts(Char)
    /\ Scripts \subseteq Texts(Char)
    /\ Outputs \subseteq Texts(Char)
    /\ Mouse \in {"none", "click", "drag"}
    /\ HistoryCount \in Nat \ {0}

VARIABLES
    view,           \* the document and the widget's cursor
    currentPrompt,  \* m_currentPromt
    isExtra,        \* m_isExtra: the parser asked for the rest of a command
    history,        \* m_history
    historyPos,     \* m_historyPos
    pc,             \* where control is: waiting for the user, or in the receiver
    pending,        \* the command the receiver is working on
    sender,         \* history variable: who emitted it
    partial         \* history variable: the command that was found incomplete last

vars == <<view, currentPrompt, isExtra, history, historyPos, pc, pending, sender, partial>>
historyVars == <<isExtra, history, historyPos>>
callVars    == <<pc, pending, sender, partial>>

Line(v) == v.text[v.pos.b]                     \* the cursor's block
PromptLength == Len(currentPrompt)

\* isCursorInLastBlock, and with it the TextEditable flag that
\* onCursorPositionChanged and setEditing keep equal to it.
InLastBlockIgnoringSelection(v) == v.pos.b = Len(v.text) /\ v.pos.c >= PromptLength   \* mutant
InLastBlock(v) ==
    /\ v.pos.b = Len(v.text) /\ v.pos.c >= PromptLength
    /\ SelectionStart(v).b = Len(v.text) /\ SelectionStart(v).c >= PromptLength

ClearBlockAbove(v) == IF v.pos.b = 1 THEN v ELSE EraseBlock(v, v.pos.b - 1)      \* mutant
ClearCurrentBlock(v) == EraseBlock(v, v.pos.b)
InsertPrompt(v, prompt) == Replace(v, << prompt >>)
NewPrompt(v, prompt) == InsertPrompt(Replace(v, NewLine), prompt)

\* Bounds: the user stops where a document or a command would outgrow them.
FitsText(t) == Len(t) <= MaxLines /\ \A i \in DOMAIN t : Len(t[i]) <= MaxLength
Show(v) == FitsText(v.text) /\ view' = v

HistoryAddOneMore(h, cmd) ==                                                     \* mutant
    IF Len(h) <= HistoryCount THEN Append(h, cmd) ELSE Append(Tail(h), cmd)
HistoryAdd(h, cmd) == IF Len(h) < HistoryCount THEN Append(h, cmd) ELSE Append(Tail(h), cmd)
LastRecord == history[Len(history)]
-------------------------------------------------------------------------------
NoRecord == [by |-> "nobody", text |-> Empty]

Init ==
    /\ view = At(<< DefaultPrompt >>, [b |-> 1, c |-> Len(DefaultPrompt)])
    /\ currentPrompt = DefaultPrompt
    /\ isExtra = FALSE
    /\ history = <<>> /\ historyPos = 0
    /\ pc = "idle" /\ pending = Empty /\ sender = "nobody"
    /\ partial = NoRecord

(* onEnter. *)

\* The cursor goes to the end of its line, unless it is there: then a selection stays.
ToLineEnd(v) ==
    IF v.pos.c = Len(Line(v)) THEN v
    ELSE At(v.text, [b |-> v.pos.b, c |-> Len(Line(v))])

\* toPlainText().mid(lastPromtPos + m_currentPromt.length()); lastIndexOf is -1
\* when the document holds no prompt.
TextAfterFirstPrompt(t) ==                                                       \* mutant
    LET ends == Occurrences(t, currentPrompt)
    IN  IF ends = {} THEN t
        ELSE TextFrom(t, CHOOSE p \in ends : \A q \in ends : Before(p, q))
SubmittedText(t) ==
    LET ends == Occurrences(t, currentPrompt)
        last == CHOOSE p \in ends : \A q \in ends : Before(q, p)
    IN  CASE ends # {}                -> TextFrom(t, last)
          [] ends = {} /\ t[1] # <<>> -> << Tail(t[1]) >> \o Tail(t)
          [] ends = {} /\ t = Empty   -> Empty
          [] OTHER                    -> Tail(t)

EnterEmpty ==
    /\ pc = "idle"
    /\ view.pos.c = PromptLength
    /\ Show(NewPrompt(view, currentPrompt))
    /\ UNCHANGED <<currentPrompt, historyVars, callVars>>

Emit(cmd, who) ==
    /\ FitsText(cmd)
    /\ pc' = "command" /\ pending' = cmd /\ sender' = who
    /\ UNCHANGED partial

EnterCommandUnrecorded ==                                                        \* mutant
    /\ pc = "idle" /\ view.pos.c # PromptLength /\ ~isExtra
    /\ Show(NewPrompt(ToLineEnd(view), currentPrompt))
    /\ Emit(SubmittedText(view.text), "console")
    /\ UNCHANGED <<currentPrompt, historyVars>>

EnterCommand ==
    /\ pc = "idle"
    /\ view.pos.c # PromptLength
    /\ ~isExtra
    /\ LET v   == ToLineEnd(view)
           cmd == SubmittedText(v.text)
       IN  /\ Show(NewPrompt(v, currentPrompt))
           /\ history' = HistoryAdd(history, cmd)
           /\ historyPos' = Len(history')
           /\ Emit(cmd, "console")
    /\ UNCHANGED <<currentPrompt, isExtra>>

EnterContinuationTwice ==                                                        \* mutant
    /\ pc = "idle" /\ view.pos.c # PromptLength /\ isExtra /\ history # <<>>
    /\ LET cmd == Join(LastRecord, SubmittedText(view.text))
       IN  /\ history' = [history EXCEPT ![Len(history)] = cmd]
           /\ Emit(cmd, "console")
    /\ Show(NewPrompt(ToLineEnd(view), currentPrompt))
    /\ UNCHANGED <<currentPrompt, isExtra, historyPos>>

\* The rest of an incomplete command is appended to the last history record.
EnterContinuation ==
    /\ pc = "idle"
    /\ view.pos.c # PromptLength
    /\ isExtra /\ history # <<>>
    /\ LET v   == ToLineEnd(view)
           cmd == Join(LastRecord, SubmittedText(v.text))
       IN  /\ Show(NewPrompt(v, currentPrompt))
           /\ history' = [history EXCEPT ![Len(history)] = cmd]
           /\ Emit(cmd, "console")
    /\ isExtra' = FALSE
    /\ UNCHANGED <<currentPrompt, historyPos>>

\* m_history->at(-1): undefined behaviour, the program stops.
EnterContinuationOfNothing ==
    /\ pc = "idle"
    /\ view.pos.c # PromptLength
    /\ isExtra /\ history = <<>>
    /\ Show(NewPrompt(ToLineEnd(view), currentPrompt))
    /\ isExtra' = FALSE
    /\ pc' = "crashed"
    /\ UNCHANGED <<currentPrompt, history, historyPos, pending, sender, partial>>

Crashed == pc = "crashed" /\ UNCHANGED vars

(* historyBack and historyForward: the keys Up and Down, in whatever block the cursor is. *)

HistoryBack ==
    /\ pc = "idle"
    /\ historyPos # 0
    /\ Show(Replace(ClearCurrentBlock(view), Join(<< currentPrompt >>, history[historyPos])))
    /\ historyPos' = historyPos - 1
    /\ UNCHANGED <<currentPrompt, isExtra, history, callVars>>

HistoryForward ==
    /\ pc = "idle"
    /\ historyPos # Len(history)
    /\ LET record == IF historyPos = Len(history) - 1 THEN Empty ELSE history[historyPos + 2]
       IN  Show(Replace(ClearCurrentBlock(view), Join(<< currentPrompt >>, record)))
    /\ historyPos' = historyPos + 1
    /\ UNCHANGED <<currentPrompt, isExtra, history, callVars>>
-------------------------------------------------------------------------------
(* The other keys go to QPlainTextEdit, which edits only while TextEditable is set. *)

Edit(v) ==
    /\ pc = "idle"
    /\ view' = v
    /\ UNCHANGED <<currentPrompt, historyVars, callVars>>

HasSelection == view.pos # view.anchor
LeftOf(p)  == [p EXCEPT !.c = @ - 1]
RightOfTooFar(p) ==                                                              \* mutant
    IF p.c <= Len(view.text[p.b]) THEN [p EXCEPT !.c = @ + 1] ELSE [b |-> p.b + 1, c |-> 0]
RightOf(p) == IF p.c < Len(view.text[p.b]) THEN [p EXCEPT !.c = @ + 1] ELSE [b |-> p.b + 1, c |-> 0]
Erase(p, q) == Replace([view EXCEPT !.pos = p, !.anchor = q], Empty)

Left  == view.pos.c > PromptLength /\ Edit(At(view.text, LeftOf(view.pos)))
Right == view.pos # EndOf(view.text) /\ Edit(At(view.text, RightOf(view.pos)))

Insert(t)  == InLastBlock(view) /\ Show(Replace(view, t)) /\ Edit(Replace(view, t))
TypeKey(k) == Insert(<< <<k>> >>)
Paste(t)   == Insert(t)

\* With Shift, Backspace is taken for a visible character and is not guarded.
Backspace(shift) ==
    /\ InLastBlock(view)
    /\ shift \/ view.pos.c > PromptLength
    /\ IF HasSelection THEN Edit(Replace(view, Empty))
                       ELSE Edit(Erase(LeftOf(view.pos), view.pos))

Delete ==
    /\ InLastBlock(view)
    /\ IF HasSelection THEN Edit(Replace(view, Empty))
       ELSE /\ view.pos # EndOf(view.text)
            /\ Edit(Erase(view.pos, RightOf(view.pos)))

\* Ctrl+C, in any block.
Copy == pc = "idle" /\ UNCHANGED vars

Click(p, q) ==
    /\ Mouse = "click" => p = q
    /\ Edit([view EXCEPT !.pos = p, !.anchor = q])
-------------------------------------------------------------------------------
(* What the receiver of command() and MainWindow::onExecute do. *)

\* execute(text, true) with a text that is not blank; a blank one has no effect.
Execute(t) ==
    /\ pc = "idle"
    /\ Show(view)
    /\ Emit(t, "script")
    /\ UNCHANGED <<currentPrompt, historyVars>>

ExtraInput ==
    /\ pc = "command"
    /\ isExtra' = TRUE
    /\ currentPrompt' = ExtraPrompt
    /\ view' = InsertPrompt(ClearCurrentBlock(view), ExtraPrompt)
    /\ pc' = "asked"
    /\ partial' = [by |-> sender, text |-> pending]
    /\ UNCHANGED <<history, historyPos, pending, sender>>

OutputInPromptLine(s) ==                                                         \* mutant
    /\ pc \in {"command", "asked"}
    /\ currentPrompt' = DefaultPrompt
    /\ view' = InsertPrompt(Replace(ClearCurrentBlock(view), s), DefaultPrompt)
    /\ pc' = "idle" /\ pending' = Empty /\ sender' = "nobody"
    /\ UNCHANGED <<historyVars, partial>>

OutputKeepingPrompt(s) ==                                                        \* mutant
    /\ pc \in {"command", "asked"}
    /\ view' = NewPrompt(Replace(ClearCurrentBlock(view), s), currentPrompt)
    /\ pc' = "idle" /\ pending' = Empty /\ sender' = "nobody"
    /\ UNCHANGED <<currentPrompt, historyVars, partial>>

Output(s) ==
    /\ pc \in {"command", "asked"}
    /\ currentPrompt' = DefaultPrompt
    /\ view' = NewPrompt(Replace(ClearCurrentBlock(view), s), DefaultPrompt)
    /\ pc' = "idle" /\ pending' = Empty /\ sender' = "nobody"
    /\ UNCHANGED <<historyVars, partial>>
-------------------------------------------------------------------------------
Enter == EnterEmpty \/ EnterCommand \/ EnterContinuation \/ EnterContinuationOfNothing

UserKey ==
    \/ Enter \/ HistoryBack \/ HistoryForward
    \/ Left \/ Right \/ Delete \/ Copy
    \/ \E k \in Keys : TypeKey(k)
    \/ \E t \in Clips : Paste(t)
    \/ \E shift \in BOOLEAN : Backspace(shift)

User ==
    \/ UserKey
    \/ Mouse # "none" /\ \E p, q \in Positions(view.text) : Click(p, q)

Receiver == ExtraInput \/ \E s \in Outputs : Output(s)

Next == User \/ (\E t \in Scripts : Execute(t)) \/ Receiver \/ Crashed

Spec == Init /\ [][Next]_vars
-------------------------------------------------------------------------------
TypeOK ==
    /\ view.text \in Texts(Char)
    /\ view.pos \in Positions(view.text) /\ view.anchor \in Positions(view.text)
    /\ currentPrompt \in {DefaultPrompt, ExtraPrompt}
    /\ isExtra \in BOOLEAN
    /\ history \in Seq(Texts(Char))
    /\ historyPos \in Nat
    /\ pc \in {"idle", "command", "asked", "crashed"}
    /\ pending \in Texts(Char)
    /\ sender \in {"nobody", "console", "script"}
    /\ partial \in [by : {"nobody", "console", "script"}, text : Texts(Char)]

(* The position the Up and Down keys move stays inside the history while    *)
(* old records fall out at the front: every m_history->at() of historyBack  *)
(* and historyForward (Console.cpp 207, 223) is in range.                   *)
HistoryInRange == historyPos <= Len(history) /\ Len(history) <= HistoryCount

(* extraInput() sets the continuation prompt "+ ", but the output() that    *)
(* onCommand sends after it resets it: the user is always asked with "> ",  *)
(* also while the next line will be appended to an incomplete command.      *)
IdlePromptIsDefault == pc \in {"idle", "crashed"} => currentPrompt = DefaultPrompt

(* onEnter continues the last history record (Console.cpp 124).  That is    *)
(* the command the parser found incomplete, provided it was typed in the    *)
(* console: no key, recall, command or overflow of the history in between   *)
(* may put another record there.  (A script of the editor is not recorded.) *)
ContinuationMatches ==
    isExtra /\ partial.by = "console" => history # <<>> /\ LastRecord = partial.text

(* The program only meets the missing record of Console.cpp 124 when the    *)
(* incomplete text came from the editor.                                    *)
CrashNeedsScript == pc = "crashed" => partial.by = "script" /\ historyPos = 0

(* While the cursor is in the input line, no key, click, command, answer or *)
(* output changes the transcript above it.                                  *)
TranscriptImmutable ==
    [][InLastBlock(view) =>
          /\ Len(view'.text) >= Len(view.text)
          /\ \A i \in 1 .. Len(view.text) - 1 : view'.text[i] = view.text[i]]_vars

(* Wherever the mouse has put the cursor and its selection, the lines that  *)
(* neither touches stay: whatever the step erases or inserts, those above   *)
(* keep their places and those below follow the new ones.                   *)
UntouchedLinesStay ==
    [][LET m == Len(view.text)  n == Len(view'.text)
       IN  /\ \A i \in 1 .. SelectionStart(view).b - 1 :
                 i <= n /\ view'.text[i] = view.text[i]
           /\ \A k \in 0 .. m - SelectionEnd(view).b - 1 :
                 k < n /\ view'.text[n - k] = view.text[m - k]]_vars

(* Typing, pasting and erasing change the last line only, even when the     *)
(* selection they would replace begins in the transcript.                   *)
ErasingOrTyping ==
    \/ Delete \/ \E shift \in BOOLEAN : Backspace(shift)
    \/ \E k \in Keys : TypeKey(k)
    \/ \E t \in Clips : Paste(t)
TypingStaysInInput ==
    [][ErasingOrTyping =>
          /\ Len(view'.text) >= Len(view.text)
          /\ \A i \in 1 .. Len(view.text) - 1 : view'.text[i] = view.text[i]]_vars

(* A command typed behind the prompt of the last line goes out as it stands *)
(* there (after the incomplete one it continues), wherever in the line the  *)
(* cursor was, if the line holds no second prompt.                          *)
CommandIsInput ==
    [][/\ pc = "idle" /\ pc' = "command" /\ sender' = "console"
       /\ InLastBlock(view)
       /\ {p \in Occurrences(view.text, currentPrompt) : p.b = Len(view.text)}
             = {[b |-> Len(view.text), c |-> PromptLength]}
       => LET input == << SubSeq(LastLine(view.text), PromptLength + 1, Len(LastLine(view.text))) >>
          IN  pending' = IF isExtra THEN Join(LastRecord, input) ELSE input]_vars

(* The output of a command sent from the input line ends in a fresh prompt  *)
(* with the cursor behind it, ready for the next command.                   *)
OutputEndsAtPrompt ==
    [][/\ pc \in {"command", "asked"} /\ pc' = "idle"
       /\ InLastBlock(view)
       => /\ LastLine(view'.text) = DefaultPrompt
          /\ view' = At(view'.text, EndOf(view'.text))]_vars

(* Console.cpp 24: "if the console is blocked, or the cursor is not in the  *)
(* last block, ignore key presses".                                         *)
KeysIgnoredOutsideLastBlock ==
    [][UserKey /\ view.pos.b # Len(view.text) => view'.text = view.text]_vars

(* Console.cpp 102: the branch for "input of an empty line" takes lines     *)
(* with nothing behind the prompt.                                          *)
EmptyInputIsEmpty ==
    [][EnterEmpty => Len(Line(view)) = PromptLength]_vars
===============================================================================
