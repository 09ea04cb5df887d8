# A verification project for VIP / REditor

VIP (Visiology Intelligence Platform) is a Qt program around an embedded R:
the application `REditor` (`src/src/REditor`) and the library `RInside`
(`src/src/RInside`). This directory models what they do in TLA+, checks the
models with TLC on small instances and proves the main results with TLAPS.
Nothing here is generated: every definition was written from the C++ code, and
`PROJECT.json` ("map") names the lines each one stands for.

Everything else in the repository (`dep/`: R's headers, boost, gtest, gmock) is
third-party code. Qt and R appear in the modules only as what this code relies
on, and are marked external in the map.

## 1. The system

| part | state | operations | talks to |
|---|---|---|---|
| `Console` (Console.cpp) | the text document and cursor, `m_currentPromt`, `m_isExtra`, `m_history`, `m_historyPos` | keys, mouse, `onEnter`, `historyBack/Forward`, `execute`, `output`, `extraInput` | emits `command(text)`; is answered by direct calls of `extraInput()` and `output()` |
| `MainWindow`, command session | `m_outputBuf`, `m_lastOutput`, the connections to `RConsole` | `onCommand`, `onRMessageOk/Error`, `onRParseIncomplete`, `printOutputBuf`, `updatePlot`, `onExecute` | runs `RConsole::execute`, hands the collected output to `Console` |
| `RConsole` (rconsole.cpp) | R's protect stack, the loop over the parsed expressions | `execute`, `WriteConsole`, `operator[]`, start and stop of R | signals `write`, `error`, `parseIncomplete` |
| `MainWindow`, editor document | `ui->editor`, `m_editorTextChanged`, `m_fileName`, the files | `onNew/Open/Save/SaveAs`, `closeEvent`, `clearEditor`, `setEditorFile` | dialogs, the file system |
| `CsvModel` (csvmodel.cpp) | column names, column count, `m_data`, row count | `load`, `data`, `headerData` | is read by `fromModel` |
| start-up import | counter, R's global environment, the list of variables | `initR`, `RObject::fromModel`, `RBind::operator=`, `addVar` | `CsvModel`, R |
| `RObject`, `Shield`, `RBind` | objects on R's heap, protected or not | attributes, data, values, conversion | R's allocator and collector |
| `RModel` (rmodel.cpp) | an R object | rows, columns, `data`, `setData`, `flags` | Qt's table view |
| variable views | an `RModel` per variable, with an R object it does not protect | `updateVar`, `updateVariables` | `RConsole::operator[]`, which may run R code |

**Threads.** There is one, Qt's GUI thread, and every signal is a direct call.
What can interleave is therefore the order of user events, of the signals R
sends out of an evaluation, of dialog answers, and of expressions that fail or
succeed; the hazards are state that survives from one handler to the next and
paths on which a handler is left half-way. Modal dialogs run an event loop of
their own but block the window, so that the only event there is the answer.
R on Windows handles window messages of the thread while it evaluates; whether
one reaches this window is decided inside R's library, and the modules assume
that R does not enter the program again before a call returns.

**What makes each part correct.**
The console: what stands above the input line is a record and never changes
under the user's hands, nor does a selection let a key or an answer reach more
than the lines it touches; what he typed is what is sent, with its continuation;
whatever happens, the prompt comes back. The session: output is neither lost,
nor duplicated, nor given to the wrong command, and errors are seen. `execute`:
R's protect stack and the count of reports balance on every exit. The document:
a text is not given up behind the user's back, and the modified flag can be
trusted. The import: a variable is its file. R's heap: what is reachable from a
view or a frame is alive. `RModel`: an index in the table is an index in the
object.

## 2. Modules

| module | models | lines |
|---|---|---|
| `TextBlocks` | QTextDocument, QTextCursor, QString as Console uses them (external) | operators |
| `Console` | the console widget, its receiver left open | Console.cpp |
| `RConsole` | `execute` | rconsole.cpp 113-159 |
| `RSession` | MainWindow between console and R; EXTENDS `RConsole` | MainWindow.cpp 100-112, 122-166, rbind.cpp 17-30 |
| `CommandService` | what `RSession` promises of R's messages (abstract) | |
| `REditor` | `Console` and `RSession` composed; implements both | MainWindow.cpp 100-166, 251-256 |
| `EditorDocument` | the editor document | MainWindow.cpp 168-249, 275-300 |
| `CsvModel` | `CsvModel::load` | csvmodel.cpp |
| `DataImport` | `initR` and `fromModel`; EXTENDS `CsvModel` | MainWindow.cpp 63-84, robject.cpp 240-276 |
| `RHeap` | R's heap: protect stack, generational collector, write barrier (external but for `Shield` and the raw store) | shield.cpp, robject.cpp 8-12 |
| `FrameHeap` | one imported variable on that heap; EXTENDS `RHeap` | robject.cpp 34-65, 98-105, 229-276, rbind.cpp 10-15, rvariablewidget.cpp 35-43 |
| `RModel` | the table of an R object (operators) | rmodel.cpp, robject.cpp 14-65, 299-320 |
| `VariableViews` | `updateVariables` and edits against commands; EXTENDS `RModel` | rvariablewidget.cpp, MainWindow.cpp 122-129, rbind.cpp 17-30 |
| `TextBlocks_proofs` | what the operators of `TextBlocks` do to a document (lemmas) | |
| `Console_proofs`, `RSession_proofs`, `REditor_proofs`, `EditorDocument_proofs`, `DataImport_proofs`, `FrameHeap_proofs`, `VariableViews_proofs` | theorems | |
| `MCConsole`, `MCREditor`, `MCEditorDocument`, `MCDataImport`, `MCVariableViews` | values of the constants for TLC | |

Operators marked `\* mutant` are wrong versions of the definition behind them.
No specification uses them; each is there to show that a property notices the
mistake (`PROJECT.json`, "mutants").

### Console

A text is a sequence of lines, a line a sequence of characters of a small set
with the characters of the two prompts among them. `view` is the document with
the cursor's position and anchor, so a selection is a state, not an event. One
action per way through `keyPressEvent` and `onEnter`:

* `InLastBlock` is `isCursorInLastBlock`; the flag TextEditable, which
  `onCursorPositionChanged` sets from it, is not kept separately. Keys that
  edit need it; Return, Up, Down, Left, Right and Ctrl+C do not, because the
  test at Console.cpp:25 only stops keys pressed with Ctrl.
* `EnterEmpty`, `EnterCommand`, `EnterContinuation` and
  `EnterContinuationOfNothing` are the exits of `onEnter`. The command is the
  text behind the last occurrence of the prompt in the whole document, as in
  line 115, so the model also cuts `a> b` there.
* `UserKey` leaves out Shift+Return (Console.cpp:72-74 hands it to
  QPlainTextEdit): Qt puts a line separator into the block, which only
  `toPlainText()` turns into a newline.
* `pc` says whether the console waits for the user or its receiver is at work.
  In `Console` alone the receiver may do what `onCommand` can: at most one
  `ExtraInput`, then one `Output`.
* `sender` and `partial` are history variables: who sent the command and which
  one was incomplete last. `m_history->at(-1)` is modelled as a stop.

Left out: `clear()` and `execute(text, false)`, which nothing calls; the signal
`commandStringChanged`, which nothing receives; colours and scrolling; the
middle mouse button's paste of X11, since the program is built for Windows.

### RConsole, RSession, REditor

`call` is where `execute` is, one action per return of a call into R: the parser
with any status, or with a jump out of it (`ParseFails`: `R_ParseVector` is called
outside of `R_tryEval`), an evaluation that fails or succeeds, `Rf_PrintValue` that
returns or jumps. `Return` is the code common to all exits. `protected` counts
the entries of this function on R's protect stack, `reports` the results the
caller has been told.

`RSession` adds the handlers. `outputBuf` keeps the appended messages apart,
each with the handler during which R wrote it; `REditor` joins them into the
text that `printOutputBuf` prints without its last newline. The slots become
connected with the first command and stay so, hence `connected`. After a command
and after an empty line `updateVariables` runs (`task` is "update"): a promise
that it forces may write, into the same buffer, or fail, outside of
`R_tryEval`, which stops the program.

`CommandService` says what this amounts to for R's messages, in terms of what R
said and what the console got, without slots, buffer and `m_lastOutput`. From the
first command on, `Say` puts every message R sends on the list `said`. `Deliver`,
the end of a command, hands over a batch that holds each message of `said` once
and in order, except an error whose text R wrote last before it, and begins a new
list. `ServiceContract` is this specification with `task` for the handler
(`stopped` once R has jumped out of a call); `said` and `printed` are history
variables of `RSession`, `said` set where R sends the signal and `printed` from
the buffer. A slot that drops, doubles or moves a message, or a buffer that is
not emptied, violates it at the next `Deliver`. What R says before the first
command reaches no slot, and the service says so: nothing is said before `begun`.

`REditor` synchronises: `AskForMore` is `Incomplete` of the session and
`ExtraInput` of the console in one step, because the slot is a direct call;
`PrintOutput` is `PrintOutputBuf` and `Output`. User events need both parts to
wait. `ConsoleContract` is the specification `Spec` of `Console`, with the
receiver open, and the run `editor` checks that the composition implements it: what
`onCommand` prints is among the outputs that Console allows for, asked for once
per command, and no handler writes to the console unasked. That the composition
also keeps to the session follows from how it is written (every action is one of
`RSession` in conjunction with one of `Console`, or leaves the session's variables
alone) and is a lemma of the proofs, not a property.

`UserEvent` runs `updateVariables` after an empty line; `BlankScript` is
`onExecute` with a blank text, with which the console does nothing.

### EditorDocument

The text and the files are values of sets, `Encode` and `Decode` functions
between them that need not be inverse: `onSave` writes `toLocal8Bit()`, `onOpen`
reads UTF-8. A write may succeed, fail, or leave any bytes; the code looks at
none of this, and `io` remembers it for the properties only. `onSave` called
from `onNew` or `closeEvent` returns into them: `after` is this return address
while the Save dialog is open.

### CsvModel and DataImport

A line is the sequence of its fields; a field stands for itself, and sets of
fields say which `toInt`, `toLongLong` and `toDouble` accept. `load` is modelled
read by read, with both passes over the file. A failed conversion gives the
default of the type, as `QVariant::convert` does, a 64-bit integer in an Int
column is wrapped. `DataImport` puts initR's loop around it: a file is opened or
skipped, loaded, turned into a frame (`FrameOf`), bound and shown. A file without
a record makes `data()` read outside of an empty vector: the program stops or
goes on with a column of any type (`FromModelWithoutRows`).

### RHeap and FrameHeap

R is not in the repository; `RHeap` is what its manual promises to C code. A
full collection traces all that the roots reach. A minor one keeps the old
objects and looks only into the young and into those old ones that a store of
R's own has remembered. Both may keep more than they must (`Collect` chooses),
and there are two generations where R has three. `missed` remembers that a minor
collection ran while an old object had an element it was not told of.

`FrameHeap` follows one variable: `createDataframe` and `fromModel` under their
Shields, the binding, a view, then any number of commands that rebind or remove
the variable and of edits of text cells. A call that allocates is two steps:
`Collection`, which may be left out, and the call. `plainData<SEXP>(x, i) = v` is
`RawStore`, which the collector does not see; `Rf_setAttrib` is `Store`. `temp`
is what R itself protects during a call. `unshielded` remembers a collection
between the end of `fromModel` and `Rf_defineVar`, when nothing holds the frame.
Left out: R's cache of strings (each `Rf_mkChar` is a new object), the integer
row names, and edits of columns that were lost, whose memory is anybody's.

### RModel and VariableViews

An object is a record of its type, class, dims, names, levels and elements; a heap
maps names to objects, so that two variables, or two columns, may share one.
`RModel` has the functions of rmodel.cpp as operators on it: `Place` is the vector
and the offset of a cell, `Target` the same after a factor's code has been followed
into the levels. `NA` is -1 and stands for INT_MIN: both are what makes
`factor - 1 < 0`. `Outside` is a read out of range, a write out of range stops the
program (`Writable`), and `Beyond` is what stands behind the end of a vector.
Integers stand for real and complex numbers, too, and headers are left out. A
frame's columns are counted by its names and its rows by its row names, as the code
does, and neither need agree with its elements.

The code takes more for granted of an object than R guarantees. `Wild` are the
objects whose elements it takes for objects and that are not: pairlists, for which
`Rf_isList` is true (robject.cpp:307), and vectors or pairlists with the class
"data.frame". Counting a pairlist's rows reads through these elements and may stop
the program at once (`Show`); painting the columns of the others stops it later
(`PaintWild`). `WellFormed` is what the code needs: no such object, columns
as long as the frame has rows, a level for each code of a factor, arrays of three
dimensions or more.

`VariableViews` lets commands bind, remove, delay (`delayedAssign`) and reshape
objects, then updates the views one `turn` after the other. Forcing a promise
runs code: it may rebind or remove another variable, in front of the loop or
behind it (`behind`), or fail. Between commands the user edits any cell with what
its editor can return. The history variable `sound` holds the objects that were
well formed when the last command ended, less those whose codes an edit has
overwritten since: the table of a list that holds a factor shows the bare codes
and writes them unchecked, and the factor's own table, and those of frames that
hold it, follow them.
Left out: active bindings, whose code `Rf_findVarInFrame` runs; a promise that
delays another variable; and objects that are the dim or names of another, which
an edit would change with them (they are values here).

## 3. Runs

| run | question | bounds and why they are enough |
|---|---|---|
| `console_edit` | does a key, a click, a command or an output ever spoil the transcript; is the command what was typed | one letter, four lines of three characters, clicks anywhere, one history record: a transcript above and below the cursor, prompts in the middle of lines, continuations, old lines recalled and overwritten |
| `console_select` | can a selection that reaches the transcript make a key, a paste or an answer change more than the user marked | any selection in documents of up to two lines of three characters (three when an answer has come), before every key, paste, script, request and output: from the middle of the transcript's line into the prompt and behind it, with a letter and a clip of two lines to replace it. `MCFewRecords` follows two commands only, since no record's text matters to the lines |
| `console_history` | positions, records and continuations | two records, six lines: overflow while a record is recalled, and a continuation after it |
| `console_keys`, `console_empty` | expected violations, see 5 | as above |
| `session` | `execute` and the buffer | two messages, two expressions, four entries: repeated and different messages, failure of the first and the second expression, left-over output of plot updates and promises in front |
| `editor` | the composition, and liveness | one message, one expression, four lines of three characters: every handler, with left-over output of a plot and an incomplete command |
| `document` | the flag and the dialogs | two files, four texts of which two are not stable under saving and loading |
| `document_yes` | expected violation, see 5 | as `document` |
| `heap` | is what the code holds, shows and edits alive; what can be lost | one text column and one of numbers, one row, objects up to 12: all of fromModel, then two rebindings or edits, a full or minor collection before each allocation |
| `views` | tables against variables, edits against tables, indices against vectors | two variables, 26 objects: every storage kind, a factor with and without NA and without levels, a frame that holds a column twice, one with its levels, a matrix and a frame for columns, one with short columns, one without names, one that is no list, a pairlist, a list with columns of different lengths and one that holds the factor of a frame, an array that is empty; three statements or edits, so that a list's table can overwrite codes, another be edited, and a third be looked at |
| `import` | the table against the file | all files of up to four lines over four kinds of lines (blank, short, long, with fields that cannot be converted), alone, in front of another file, and one between two others |

`MaxLines`, `MaxLength`, `MaxExprs`, `MaxBuffer`, `MaxObjects` and `MaxSteps` are the
bounds; they are guards on what the user types and on what R writes and
allocates for him, never on what a handler does with it. In `Console`, `Show` and `Emit` are the guarded places. An output is not
bounded: it may exceed `MaxLines`, after which the user can only move. Where
the program has stopped (`Crashed`, `SCrashed`, `EditorCrashed`, `Stopped`,
`Closed`) the action is a stutter, so that deadlock is checked everywhere else.

**Fairness.** The only assumptions are that a handler that has begun goes on
(`WF_svars(Progress)` in `REditor`, `WF_allivars(InitRStep)` in `DataImport`).
The code justifies them: one thread, direct calls, no waiting in between. It
includes that R's evaluations come to an end, which is the user's business; a
user who sends an endless loop is answered by nobody, in the program and here.
No fairness is assumed of the user and none of R's writing.

What the properties say is in the comment above each. The ones that carry most:
`TranscriptImmutable`, `UntouchedLinesStay`, `CommandIsInput`, `ContinuationMatches`
(Console);
`ErrorsAreShown`, `PlotOutputFirst`, `NothingOfACommandWaits`, `OneReport`,
`ProtectBalanced` (session); `ConsoleContract`, `CommandAnswered` (composition); `CleanIsSaved`, `GivenUpOnlyIfAsked`,
`YesSavesTheText` (document); `ImportedAsFiled`, `WholeRows` (import);
`ServiceContract` (session); `ShieldsHold`, `LossExplained`, `ViewReadsLive` (heap);
`ViewsFollowVariables`, `EditIsExact`, `CellsInside`, `EachElementOnce` (views).

## 4. Proofs

TLAPS proves, for all values of the constants that satisfy the named
assumptions (`RConsoleAssumption`, `RSessionAssumption`, `DocumentAssumption`,
`CsvAssumption`, `InputsAssumption`, `ConsoleAssumption`, `FrameHeapAssumption`,
`OutputsAreShown`, `VariableViewsAssumption`, `ObjectsAssumption`,
`BeyondAssumption`):

* **RSession_proofs.** The inductive invariant relates `task`, `call`,
  `protected`, `reports` and the buffer. It is needed because none of the
  properties is inductive: that a call reports once depends on where `execute`
  is, and that nothing of a command waits depends on the buffer being in order
  and on which handler runs. From it follow `STypeOK`, `ProtectBalanced`,
  `OneReport`, `NothingOfACommandWaits`, `PlotOutputFirst`. For
  `ErrorsAreShown` it says in addition that `m_lastOutput`, when it is not
  empty, is the text of an entry of the buffer: an error that repeats it is
  dropped, but is there. For `ServiceContract` it says that the buffer is at every
  moment the batch the service owes (`BufferIsOwed`), and that `m_lastOutput`, when
  it is not empty, is what R wrote last of `said` (`LastOutputIsLastWrite`): so the
  slot drops an error exactly where the service does. `BatchAppended` says how a
  batch grows with a message, which takes some counting (`Place`).
* **Console_proofs.** While the receiver works on a command of the console, that
  command is the last record (`PendingIsRecorded`); when it turns out
  incomplete it becomes `partial`, and no key, overflow or script changes the
  last record before the continuation. The prompt differs from the default
  only between `extraInput` and `output`. From this follow `HistoryInRange`,
  `IdlePromptIsDefault`, `ContinuationMatches` and `CrashNeedsScript`.
  The rest is about the document. TextBlocks_proofs says what typing
  (`ReplacedView`), erasing a line (`ErasedLine`) and appending (`AppendedAtEnd`)
  do, in terms of one relation, `Follows`: the new view is a text with the cursor
  in it, the lines that the selection did not touch are there as they were, above
  and below it, with the new cursor between them (`Around`), and if the selection
  was inside the last line, so are all lines above. It is transitive (`FollowsAll`,
  `AroundAll`), as handlers make several changes in turn. With it `TypeOK` is
  inductive (`DInv`), every step keeps the transcript when the cursor is in the
  input line (`TranscriptImmutable`) and what is not selected in any case
  (`UntouchedLinesStay`, `TypingStaysInInput`), and the last prompt of the document, when the last line
  holds one only, is that of the last line (`CommandIsInput`).
  `OutputIsShown` says where an answer goes: it takes the place of the input line,
  line by line, above a fresh prompt (`Answer`, from which `OutputEndsAtPrompt`
  follows). `AnswerComesBelow` closes the gap before it: a command sent from the
  input line leaves the cursor in the next one, because `onEnter` first goes to
  the end of the line (`LineEndSelected`), and `extraInput` does so too.
* **REditor_proofs.** `HandlersAgree` is inductive with the types of the controls.
  Every action of the composition is an action of the session or leaves its
  variables alone (the lemma `EditorRunsTheSession`), so the theorems of
  RSession_proofs are theorems about the program. `ConsoleContract` holds in the
  same way for those of Console_proofs. It needs that what `printOutputBuf` hands
  over is among the outputs that `Console` expects (`OutputsAreShown`), and for
  this that the buffer stays within `MaxBuffer` but for the errors of a plot update
  and of a command, one each (`BufferLimit`).
  `ProgramKeepsTheSession` and `ProgramKeepsTheConsole` state what follows of
  `EditorSpec` itself, and `AnswersAreShown` follows R's output to the screen: the
  messages of the buffer stand below the transcript and above the prompt.
  `HandlersRunDown` is the safety part of `CommandAnswered` and `HandlersEnd`. The
  variant `StepsLeft` counts the steps of `Progress` that are left at most: two for
  each expression, and those of the handler around it. It is at most
  `2 * MaxExprs + 5`; each step of `Progress` lowers it (`ProgressLowers`), whatever R
  writes and the user does leaves it (`NothingRaises`), and where it is 0 the user
  can go on or the program has stopped.
* **EditorDocument_proofs.** `TypeOK` and `CleanIsSaved` are inductive together
  with what is known in each dialog: one that asks is open only over a changed
  text. `GivenUpOnlyIfAsked` and `YesSavesTheText` are action properties, proved
  by cases over the handlers.
* **DataImport_proofs.** While `load` reads, `m_data` is n whole rows for some n
  and every cell has the type of its column (`Whole`); appending a row keeps
  this (`ReadRecord`, which rests on the arithmetic of `CellIndex`); the quotient
  at the end is n (`WholeQuotient`). So every index that `fromModel` forms is
  in range and `ITypeOK`, `ColumnsOfOneType` and `CrashNeedsNoRows` hold.
  For the contents the n is the number of records in front of the stream's
  position (`RowsRead`), and row `RowOfRecord(file, i)` holds line i (`Filed`):
  a blank line leaves both, a record makes both one more (`OneLineOn`). So
  `WholeRows` holds, at the end the quotient is the number of records (`AllRead`),
  and the frame is the file (`FrameIsFile`), which `FiledInv` carries through the
  binding to `ImportedAsFiled`.
  `ImportRunsDown` is the safety part of `ImportEnds`. Files have any length, so no
  number bounds the steps: the variant `ImportLeft` is a pair, of the files left and
  of the lines that both passes of `load` have still to read in the one at work. Each
  step of `initR` lowers it in the lexicographic order, which is well founded.
* **FrameHeap_proofs.** For any frame and whatever the collector chooses. The
  invariant says of the heap that attributes are alive and that an old object
  the next minor collection will not look into has old attributes only
  (`AttributesKept`): this is what the write barrier is for, and without it a
  minor collection would not preserve `LossExplained`. It says of the roots
  what holds at each place of the code (`RootsLive`): the frame is alive where it
  is shielded, and, where it is not, unless `unshielded`; and a view is the value
  of its variable when the user looks.
* **VariableViews_proofs.** The invariant of `ViewsFollowVariables` is the loop
  invariant of `updateVariables`: the views whose turn is over follow their
  variables or are `behind`. An edit keeps it because `setValue` changes
  elements only, so that an object's storage stays what it was (`EditKeepsStorage`).
  `EachElementOnce` rests on the arithmetic of `column * rows + row`.
  `CellsInside` and `EditIsExact` need more of the objects: `ObjectsAssumption`
  says that the elements of lists and the levels of factors are objects, and
  `WellMade` is its inductive form. Only bare vectors are written to
  (`EditedVector`), so that no edit moves a cell of the table to another element
  (`TargetsStay`), and two cells that lead to one element are of the same level, of
  a column that occurs twice, or of a level and of the vector of the levels
  (`OneTarget`).
  For `CellsInside` the invariant is `SoundInv`: the objects in `sound` are well
  formed, also in the middle of an update and after any number of edits. An edit
  changes the elements of one vector and not its length; if that is no factor,
  every code that was in range is (`WellFormedStays`), and if it is one, all that
  read its codes have left `sound`. In a well-formed object every cell that can be
  edited is inside (`CellInside`).

Only model-checked are the liveness properties `CommandAnswered`, `HandlersEnd`
and `ImportEnds`, and the three expected violations. That a variant goes down is
proved; that it goes on going down is the fairness of `Progress` and of `initR`'s
steps, and to conclude from it needs `ENABLED` and an induction over the variant,
which are both out of the prover's reach. The runs check the conclusion.

## 5. Findings

* Console.cpp:24 says that keys are ignored when the cursor is not in the last
  block. The test below it stops only Ctrl with keys other than C: Return, Up
  and Down change old lines (`console_keys`).
* Console.cpp:102 speaks of an empty line; line 103 looks at the cursor only.
  Return with the cursor right behind the prompt of a line with text splits
  the line and sends nothing (`console_empty`).
* New and Close ask "Save current document before ...?". Yes, followed by
  Cancel in the Save dialog, discards the text (`document_yes`;
  MainWindow.cpp:195 and 288).

Not disagreements with a text of the repository, but met while modelling and
excepted by name in the properties:

* Strings that `fromModel` and `setPlain` store through raw pointers can be lost
  in a minor collection (`LossExplained`); `SET_STRING_ELT` would not lose them.
* The frame is unprotected while `Rf_install` makes the variable's symbol
  (`ViewReadsLive`).
* `WellFormed` names what the tables take for granted and R does not, so that
  cells are read, and written, outside of a vector otherwise: a missing value in a
  factor column of a data frame, and an edit of any missing factor cell; an array
  of one dimension, whose number of columns is behind the end of its dim vector, or
  one of four with 0 for the last, which has cells and no elements; a pairlist, or
  anything but a list with the class of a data frame; a frame with more row names
  than a column has elements (`CellsInside`).
* The table of a list shows the codes of a factor in it and writes what the user
  enters, checked by nobody; the factor's own table reads out of range then
  (`CellsInside`, `sound`).
* A promise can rebind a variable whose view was updated before
  (`ViewsFollowVariables`), and its error leaves `updateVariables` half-way.
* rvariablewidget.cpp:34 suspects a memory leak in R: there is none, R frees the
  old value when a command rebinds the variable. The danger is the opposite one,
  a view that outlives its object, and `updateVariables` after every command is
  what averts it.

## 6. Plan

Done in this order: `TextBlocks`, `Console`, `RConsole`, `RSession`, `REditor`,
`EditorDocument`, `CsvModel`, `DataImport`, `RHeap`, `FrameHeap`, `RModel`,
`VariableViews`, `CommandService`; then the proofs: `RSession`, `EditorDocument`,
`DataImport`, `FrameHeap`, `VariableViews`, `Console`, `REditor`. What could still
be added is the text of the tables' headers, real and complex numbers, and a
composition of `VariableViews` with `REditor`, whose updates are there one step
for all views.

Not modelled:

* the picture and the layout of the docks, `main`, the build files and the test
  harness: nothing another part depends on, or no behaviour at all;
* the `png()` command of the constructor: it is emitted seven lines before
  the signal is connected (MainWindow.cpp:44 and 51), so nobody runs it. This is
  a fixed order of two statements, and what follows from it is a matter of
  R's graphics devices;
* headers of tables, real and complex numbers, raw vectors beyond the fact that
  reading them is undefined;
* third-party code under `dep/`, which is nearly all of the repository's lines;
  R and Qt appear as the operators and actions marked external.
