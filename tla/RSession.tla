-------------------------------- MODULE RSession --------------------------------
(***************************************************************************)
(* MainWindow between the console and R (src/REditor/MainWindow.cpp):      *)
(* onCommand connects the slots, runs a command, collects what R writes in *)
(* m_outputBuf and hands it to the console; updatePlot runs dev.off() on   *)
(* its own.  The slots are connected by the first command and stay         *)
(* connected, so what dev.off() writes later is collected as well, and     *)
(* waits for the next command.  So does what a promise writes that         *)
(* updateVariables forces: it follows every command and every empty line.  *)
(*                                                                         *)
(* All calls are direct: a signal of RConsole and the slot it reaches are  *)
(* one step.                                                               *)
(***************************************************************************)
EXTENDS RConsole, Sequences

CONSTANTS
    Message,        \* the texts of write() and error()
    NoMessage,      \* the empty QString
    MaxBuffer       \* bound: messages R writes between two outputs to the console

ASSUME RSessionAssumption == NoMessage \notin Message /\ MaxBuffer \in Nat

VARIABLES
    task,           \* the handler that runs: idle, command (onCommand), plot (updatePlot),
                    \* update (updateVariables), or stopped, by the error of a promise
    connected,      \* are RConsole's signals connected to the slots?
    outputBuf,      \* m_outputBuf, as the messages it was appended from
    lastOutput,     \* m_lastOutput
    printed,        \* what the running handler has handed to the console's output()
    said,           \* history variable: the messages of R since the last output()
    asked           \* history variable: did the command call extraInput()?

wvars == <<task, connected, outputBuf, lastOutput, printed, said, asked>>
svars == <<rvars, wvars>>

\* A message, the signal it came with, and the handler that ran.
Entries == [from : {"command", "plot", "update"}, kind : {"write", "error"}, text : Message]
Entry(k, m) == [from |-> task, kind |-> k, text |-> m]

SInit ==
    /\ RInit
    /\ task = "idle"
    /\ connected = FALSE
    /\ outputBuf = <<>> /\ lastOutput = NoMessage
    /\ printed = <<>> /\ said = <<>>
    /\ asked = FALSE
-------------------------------------------------------------------------------
(* The slots.  R says a message whether a slot takes it up or not. *)

Says(k, m) == said' = Append(said, Entry(k, m))
MayWrite == Len(said) < MaxBuffer                                        \* the bound

PrependMessage(m) ==                                                             \* mutant
    /\ outputBuf' = << Entry("write", m) >> \o outputBuf
    /\ lastOutput' = m

AppendOnce(m) ==                                                                 \* mutant
    /\ outputBuf' = IF m = lastOutput THEN outputBuf ELSE Append(outputBuf, Entry("write", m))
    /\ lastOutput' = m

OnRMessageOk(m) ==
    /\ outputBuf' = Append(outputBuf, Entry("write", m))
    /\ lastOutput' = m

OnRMessageError(m) ==
    /\ outputBuf' = IF m = lastOutput THEN outputBuf ELSE Append(outputBuf, Entry("error", m))
    /\ UNCHANGED lastOutput

\* Before the first command no slot is connected.
Unheard == UNCHANGED <<outputBuf, lastOutput, said>>

Written(m) == IF connected THEN MayWrite /\ Says("write", m) /\ OnRMessageOk(m) ELSE Unheard

Write(m) ==
    /\ Writing
    /\ Written(m)
    /\ UNCHANGED <<rvars, task, connected, printed, asked>>

Error(m) ==
    /\ \/ task = "command" /\ ParseError
       \/ EvalError
    /\ IF connected THEN Says("error", m) /\ OnRMessageError(m) ELSE Unheard
    /\ UNCHANGED <<task, connected, printed, asked>>

\* onRParseIncomplete, which calls the console's extraInput().
Incomplete ==
    /\ task = "command"
    /\ ParseIncomplete
    /\ asked' = TRUE
    /\ UNCHANGED <<task, connected, outputBuf, lastOutput, printed, said>>

\* The steps of execute that send no signal.  dev.off() is one expression.
Quiet ==
    /\ \/ \E n \in 0 .. MaxExprs : ParseOK(n) /\ (task = "plot" => n = 1)
       \/ ParseFails \/ EvalOK \/ Printed \/ PrintFails \/ Done
    /\ UNCHANGED wvars
-------------------------------------------------------------------------------
(* The handlers. *)

\* onCommand: disconnect, connect, and the call of execute.
OnCommand ==
    /\ task = "idle"
    /\ task' = "command"
    /\ connected' = TRUE
    /\ asked' = FALSE
    /\ Call
    /\ UNCHANGED <<outputBuf, lastOutput, printed, said>>

PrintKeepingBuffer ==                                                            \* mutant
    /\ task = "command" /\ call = "none"
    /\ task' = "update" /\ lastOutput' = NoMessage
    /\ printed' = outputBuf /\ said' = <<>>
    /\ UNCHANGED <<rvars, connected, outputBuf, asked>>

PrintKeepingLastOutput ==                                                        \* mutant
    /\ task = "command" /\ call = "none"
    /\ task' = "update" /\ outputBuf' = <<>>
    /\ printed' = outputBuf /\ said' = <<>>
    /\ UNCHANGED <<rvars, connected, lastOutput, asked>>

\* execute has returned: printOutputBuf and m_lastOutput.clear(); what emitted
\* the command calls updateVariables next.
PrintOutputBuf ==
    /\ task = "command" /\ call = "none"
    /\ task' = "update"
    /\ printed' = outputBuf /\ said' = <<>>
    /\ outputBuf' = <<>>
    /\ lastOutput' = NoMessage
    /\ UNCHANGED <<rvars, connected, asked>>

UpdatePlot ==
    /\ task = "idle"
    /\ MayWrite
    /\ task' = "plot"
    /\ Call
    /\ UNCHANGED <<connected, outputBuf, lastOutput, printed, said, asked>>

\* A handler returns to the event loop.
HandlerEnds ==
    /\ task' = "idle" /\ printed' = <<>>
    /\ UNCHANGED <<rvars, connected, outputBuf, lastOutput, said, asked>>

\* dev.off() has returned, the picture is loaded and shown.
PlotShown == task = "plot" /\ call = "none" /\ HandlerEnds

\* An empty line of the console, or an empty script.
UpdateVariables ==
    /\ task = "idle" /\ task' = "update"
    /\ UNCHANGED <<rvars, connected, outputBuf, lastOutput, printed, said, asked>>

\* RBind evaluates a promise, outside of execute.
PromiseWrites(m) ==
    /\ task = "update"
    /\ Written(m)
    /\ UNCHANGED <<rvars, task, connected, printed, asked>>

PromiseFails ==
    /\ task = "update" /\ task' = "stopped"
    /\ UNCHANGED <<rvars, connected, outputBuf, lastOutput, printed, said, asked>>

Updated == task = "update" /\ HandlerEnds

SCrashed == (call = "crashed" \/ task = "stopped") /\ UNCHANGED svars

RStep == Quiet \/ Incomplete \/ \E m \in Message : Write(m) \/ Error(m)

Update == UpdateVariables \/ (\E m \in Message : PromiseWrites(m)) \/ PromiseFails \/ Updated

SNext == OnCommand \/ RStep \/ PrintOutputBuf \/ UpdatePlot \/ PlotShown \/ Update \/ SCrashed

SSpec == SInit /\ [][SNext]_svars
-------------------------------------------------------------------------------
STypeOK ==
    /\ RTypeOK
    /\ task \in {"idle", "command", "plot", "update", "stopped"}
    /\ connected \in BOOLEAN
    /\ {outputBuf, printed, said} \subseteq Seq(Entries)
    /\ lastOutput \in Message \cup {NoMessage}
    /\ asked \in BOOLEAN

(* While onCommand does not run, the buffer holds nothing of a command:     *)
(* what R wrote for one is on the console before the user can send the      *)
(* next.  All that can wait there is the output of plot updates and of      *)
(* promises.                                                                *)
NothingOfACommandWaits ==
    task # "command" => \A i \in DOMAIN outputBuf : outputBuf[i].from \in {"plot", "update"}

(* Such left-over output comes before the command's own: the buffer is in   *)
(* the order in which R wrote it.                                           *)
PlotOutputFirst ==
    \A i, j \in DOMAIN outputBuf :
        i < j /\ outputBuf[i].from = "command" => outputBuf[j].from = "command"

(* onRMessageError drops a message that repeats the last output, because R  *)
(* has written it already.  It never drops one the user will not see: the   *)
(* text of every error is in the buffer after the signal, also when         *)
(* updatePlot left m_lastOutput behind.                                     *)
ErrorsAreShown ==
    [][\A m \in Message : connected /\ Error(m) =>
          \E i \in DOMAIN outputBuf' : outputBuf'[i].text = m]_svars

(* The handlers and slots, with R in between, implement the service: with   *)
(* each command the console gets, once and in order, every message R said   *)
(* since the one before, except errors R has just written itself; only what *)
(* R says before the first command is lost, and no handler begins before    *)
(* the one before it has ended.                                             *)
Promised == INSTANCE CommandService WITH
    serving <- IF call = "crashed" THEN "stopped" ELSE task, begun <- connected

ServiceContract == Promised!Service
================================================================================
