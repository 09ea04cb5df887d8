-------------------------------- MODULE REditor --------------------------------
(***************************************************************************)
(* The running program: the console widget, MainWindow's handlers and      *)
(* RConsole::execute in one GUI thread.  A key in the console or the       *)
(* Execute action of the editor emits command(), MainWindow::onCommand     *)
(* runs it in R and prints what R wrote; Update plot runs dev.off().  No   *)
(* event of the user is handled while one of these handlers runs.          *)
(* Each command, and each empty line, is followed by updateVariables.      *)
(*                                                                         *)
(* Console leaves open how its signal is answered, RSession what becomes   *)
(* of the output and when a command comes; here each is the other's        *)
(* environment, and both specifications are implemented.                   *)
(***************************************************************************)
EXTENDS Console, RSession

LOCAL INSTANCE SequencesExt

ASSUME MessagesAreTexts == Message \subseteq Texts(Char)

allvars == <<vars, svars>>

\* printOutputBuf: the appended messages, without a newline at the end.
Appended(buf) == FoldLeft(LAMBDA t, e : Join(t, e.text), Empty, buf)
Chop(t) == IF Len(t) > 1 /\ LastLine(t) = <<>> THEN SubSeq(t, 1, Len(t) - 1) ELSE t
Shown(buf) == Chop(Appended(buf))

\* What a buffer within the bound is printed as is an output of Console.
ASSUME OutputsAreShown ==
    \A n \in 0 .. MaxBuffer + 2 : \A buf \in [1 .. n -> Entries] : Shown(buf) \in Outputs
-------------------------------------------------------------------------------
EditorInit == Init /\ SInit

Waiting == pc = "idle" /\ task = "idle"

\* An empty line emits enterPressed() at once; a command waits for its answer.
UserEvent ==
    /\ Waiting
    /\ User \/ \E t \in Scripts : Execute(t)
    /\ IF EnterEmpty THEN UpdateVariables ELSE UNCHANGED svars

\* The console does nothing with a blank script, onExecute calls updateVariables.
BlankScript == Waiting /\ UpdateVariables /\ UNCHANGED vars

RunCommand == pc = "command" /\ OnCommand /\ UNCHANGED vars

Evaluate == (Quiet \/ \E m \in Message : Error(m)) /\ UNCHANGED vars

WriteOutput == (\E m \in Message : Write(m)) /\ UNCHANGED vars

AskForMore == Incomplete /\ ExtraInput

PrintUnchopped == PrintOutputBuf /\ Output(Appended(printed'))                   \* mutant
PrintNothing   == PrintOutputBuf /\ UNCHANGED vars                               \* mutant
PrintOutput == PrintOutputBuf /\ Output(Shown(printed'))

PlotAnytime == UpdatePlot /\ UNCHANGED vars                                      \* mutant
Plot     == Waiting /\ UpdatePlot /\ UNCHANGED vars
PlotAgain == task = "plot" /\ call = "none" /\ Call /\ UNCHANGED <<wvars, vars>> \* mutant
PlotDone == PlotShown /\ UNCHANGED vars

Views == (Updated \/ PromiseFails \/ \E m \in Message : PromiseWrites(m)) /\ UNCHANGED vars

EditorCrashed ==
    /\ pc = "crashed" \/ call = "crashed" \/ task = "stopped"
    /\ UNCHANGED allvars

Handle == RunCommand \/ Evaluate \/ AskForMore \/ PrintOutput \/ PlotDone

EditorNext == UserEvent \/ BlankScript \/ Plot \/ Handle \/ WriteOutput \/ Views \/ EditorCrashed

\* Handlers run on without the user, and R's evaluations come to an end.  These
\* are steps of the session, so that fairness is stated for its variables.
Progress ==
    \/ pc = "command" /\ OnCommand
    \/ Quiet \/ Incomplete \/ PrintOutputBuf \/ PlotShown \/ Updated
    \/ \E m \in Message : Error(m)

EditorSpec == EditorInit /\ [][EditorNext]_allvars /\ WF_svars(Progress)
-------------------------------------------------------------------------------
(* onCommand is a receiver as Console expects it: one output() for every    *)
(* command(), at most one extraInput() before it, and nothing unasked.      *)
ConsoleContract == Spec

(* The console waits for its receiver exactly while onCommand has the       *)
(* command; the console never takes keys in the middle of a plot update.    *)
HandlersAgree ==
    /\ pc = "asked" <=> task = "command" /\ asked
    /\ pc = "command" => task \in {"idle", "command"}
    /\ task = "command" => pc \in {"command", "asked"}
    /\ task \in {"plot", "update", "stopped"} => pc = "idle"

(* Every command is answered: the prompt comes back, or the program has     *)
(* stopped in the parser or in a print method.                              *)
CommandAnswered == pc = "command" ~> pc = "idle" \/ call = "crashed"

(* The other handlers, Update plot and updateVariables, come back to the    *)
(* user, too, unless an error stops the program.                            *)
HandlersEnd ==
    task \in {"plot", "update"} ~> task \in {"idle", "stopped"} \/ call = "crashed"
================================================================================
