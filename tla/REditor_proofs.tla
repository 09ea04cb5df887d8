---------------------------- MODULE REditor_proofs ----------------------------
(***************************************************************************)
(* The composition of Console and RSession: the handlers agree on whose    *)
(* turn it is, and console and session are used as their specifications    *)
(* say.  What is proved of either then holds of the program, and its       *)
(* handlers run down to the prompt.                                        *)
(***************************************************************************)
EXTENDS REditor, RSession_proofs, Console_proofs

(* The controls of the two components. *)
Controls ==
    /\ pc \in {"idle", "command", "asked", "crashed"}
    /\ task \in {"idle", "command", "plot", "update", "stopped"}
    /\ asked \in BOOLEAN

EInv == Controls /\ HandlersAgree

LEMMA EditorStart == EditorInit => EInv
BY DEF EditorInit, Init, SInit, EInv, Controls, HandlersAgree

(* No key or click makes the receiver ask for more, and an empty line       *)
(* leaves the console idle.                                                 *)
LEMMA UserKeeps ==
    /\ User \/ (\E t \in Scripts : Execute(t)) => pc = "idle" /\ pc' \in {"idle", "command", "crashed"}
    /\ EnterEmpty => pc' = pc
<1>1. ASSUME NEW v, Edit(v) PROVE pc = "idle" /\ pc' = "idle"
  BY <1>1 DEF Edit, callVars
<1>2. EnterEmpty => pc = "idle" /\ pc' = "idle"
  BY DEF EnterEmpty, callVars
<1>3. Enter \/ HistoryBack \/ HistoryForward \/ Copy => pc = "idle" /\ pc' \in {"idle", "command", "crashed"}
  BY <1>2 DEF Enter, EnterCommand, EnterContinuation, EnterContinuationOfNothing, Emit,
              HistoryBack, HistoryForward, Copy, vars, callVars
<1>4. UserKey => pc = "idle" /\ pc' \in {"idle", "command", "crashed"}
  BY <1>1, <1>3 DEF UserKey, Left, Right, Delete, TypeKey, Paste, Insert, Backspace
<1>5. User => pc = "idle" /\ pc' \in {"idle", "command", "crashed"}
  BY <1>1, <1>4 DEF User, Click
<1>6. ASSUME NEW t, Execute(t) PROVE pc = "idle" /\ pc' = "command"
  BY <1>6 DEF Execute, Emit
<1> QED BY <1>2, <1>5, <1>6

LEMMA EditorStep == EInv /\ [EditorNext]_allvars => EInv'
<1> SUFFICES ASSUME EInv, [EditorNext]_allvars PROVE EInv'
  OBVIOUS
<1> USE DEF EInv, Controls, HandlersAgree
<1>1. CASE UserEvent
  <2>1. task = "idle" /\ pc = "idle" /\ pc' \in {"idle", "command", "crashed"} /\ (EnterEmpty => pc' = pc)
    BY <1>1, UserKeeps DEF UserEvent, Waiting
  <2>2. CASE EnterEmpty
    BY <1>1, <2>1, <2>2 DEF UserEvent, UpdateVariables
  <2>3. CASE ~EnterEmpty
    BY <1>1, <2>1, <2>3 DEF UserEvent, svars, wvars
  <2> QED BY <2>2, <2>3
<1>2. CASE Plot \/ BlankScript
  BY <1>2 DEF Plot, BlankScript, Waiting, UpdatePlot, UpdateVariables, vars
<1>3. CASE RunCommand
  BY <1>3 DEF RunCommand, OnCommand, vars
<1>4. CASE Evaluate
  BY <1>4 DEF Evaluate, Quiet, Error, wvars, vars
<1>5. CASE AskForMore
  BY <1>5 DEF AskForMore, Incomplete, ExtraInput
<1>6. CASE PrintOutput
  BY <1>6 DEF PrintOutput, PrintOutputBuf, Output
<1>7. CASE PlotDone
  BY <1>7 DEF PlotDone, PlotShown, HandlerEnds, vars
<1>8. CASE WriteOutput
  BY <1>8 DEF WriteOutput, Write, vars
<1>9. CASE Views
  BY <1>9 DEF Views, Updated, HandlerEnds, PromiseFails, PromiseWrites, vars
<1>10. CASE UNCHANGED allvars
  BY <1>10 DEF allvars, vars, svars, wvars
<1> QED
  BY <1>1, <1>2, <1>3, <1>4, <1>5, <1>6, <1>7, <1>8, <1>9, <1>10 DEF EditorNext, Handle, EditorCrashed

(* The console waits for its receiver exactly while onCommand has the       *)
(* command, whatever the user does and R answers.                           *)
THEOREM HandlersTakeTurns == EditorSpec => []HandlersAgree
<1>1. EInv => HandlersAgree
  BY DEF EInv
<1> QED BY <1>1, EditorStart, EditorStep, PTL DEF EditorSpec

LEMMA EditorStepsInSession == [EditorNext]_allvars => [SNext]_svars
<1> SUFFICES ASSUME [EditorNext]_allvars PROVE SNext \/ UNCHANGED svars
  OBVIOUS
<1>1. CASE UserEvent
  BY <1>1 DEF UserEvent, SNext, Update
<1>2. CASE Plot \/ BlankScript \/ Views
  BY <1>2 DEF Plot, BlankScript, Views, SNext, Update
<1>3. CASE Handle \/ WriteOutput
  BY <1>3 DEF Handle, WriteOutput, RunCommand, Evaluate, AskForMore, PrintOutput, PlotDone, SNext, RStep
<1>4. CASE EditorCrashed \/ UNCHANGED allvars
  BY <1>4 DEF EditorCrashed, allvars
<1> QED BY <1>1, <1>2, <1>3, <1>4 DEF EditorNext

(* The program's steps are the session's together with those of the console *)
(* and of the user.                                                         *)
LEMMA EditorRunsTheSession == EditorSpec => SInit /\ [][SNext]_svars
<1>1. EditorInit => SInit
  BY DEF EditorInit
<1> QED BY <1>1, EditorStepsInSession, PTL DEF EditorSpec

-------------------------------------------------------------------------------
(* The bound of the buffer, for Console's outputs: R writes up to it, then  *)
(* the error of a plot update may exceed it, then that of a command.        *)
BufferLimit ==
    CASE task = "plot" /\ call # "none"    -> MaxBuffer
      [] task = "command" /\ call = "none" -> MaxBuffer + 2
      [] OTHER                             -> MaxBuffer + 1

BufferInLimit ==
    /\ {outputBuf, said} \subseteq Seq(Entries)
    /\ Len(outputBuf) <= Len(said) /\ Len(said) <= BufferLimit

LEMMA LimitStart == SInit => BufferInLimit
<1> SUFFICES ASSUME SInit PROVE BufferInLimit
  OBVIOUS
<1>1. MaxBuffer \in Nat /\ <<>> \in Seq(Entries) /\ Len(<<>>) = 0
  BY RSessionAssumption, EmptySeq
<1> QED BY <1>1 DEF SInit, RInit, BufferInLimit, BufferLimit

LEMMA LimitStep == SInv /\ BufferInLimit /\ [SNext]_svars => BufferInLimit'
<1> SUFFICES ASSUME SInv, BufferInLimit, [SNext]_svars PROVE BufferInLimit'
  OBVIOUS
<1>1. /\ MaxBuffer \in Nat /\ outputBuf \in Seq(Entries) /\ said \in Seq(Entries)
      /\ Len(outputBuf) \in Nat /\ Len(said) \in Nat
      /\ Len(outputBuf) <= Len(said) /\ Len(said) <= BufferLimit
      /\ task \notin {"command", "plot"} => call = "none"
      /\ task \in {"idle", "command", "plot", "update", "stopped"}
  BY RSessionAssumption, LenProperties DEF BufferInLimit, SInv, Resting, STypeOK
<1>2. ASSUME NEW m \in Message, NEW k \in {"write", "error"}, task \in {"command", "plot", "update"},
             said' = Append(said, Entry(k, m)), outputBuf' \in {outputBuf, Append(outputBuf, Entry(k, m))}
      PROVE  /\ {outputBuf', said'} \subseteq Seq(Entries)
             /\ Len(said') = Len(said) + 1 /\ Len(outputBuf') <= Len(said')
  <2>1. Entry(k, m) \in Entries
    BY <1>2 DEF Entry, Entries
  <2>2. said' \in Seq(Entries) /\ Len(said') = Len(said) + 1
    BY <1>1, <1>2, <2>1, AppendProperties
  <2>3. outputBuf' \in Seq(Entries) /\ Len(outputBuf') \in {Len(outputBuf), Len(outputBuf) + 1}
    <3>1. CASE outputBuf' = outputBuf
      BY <1>1, <3>1
    <3>2. CASE outputBuf' = Append(outputBuf, Entry(k, m))
      BY <1>1, <2>1, <3>2, AppendProperties
    <3> QED BY <1>2, <3>1, <3>2
  <2> QED BY <1>1, <2>2, <2>3
<1> USE DEF BufferInLimit, BufferLimit
<1>3. CASE OnCommand
  BY <1>1, <1>3 DEF OnCommand, Call
<1>4. CASE Quiet
  <2>1. UNCHANGED <<outputBuf, said, task>> /\ call # "none"
    BY <1>4 DEF Quiet, wvars, ParseFails, ParseOK, EvalOK, Printed, PrintFails, Done
  <2> QED BY <1>1, <2>1
<1>5. CASE Incomplete
  BY <1>1, <1>5 DEF Incomplete, ParseIncomplete, Return
<1>6. ASSUME NEW m \in Message, Written(m), UNCHANGED <<call, task>>,
             \/ task \in {"command", "plot"} /\ call # "none"
             \/ task = "update"
      PROVE  BufferInLimit'
  <2>1. CASE Unheard
    BY <1>1, <1>6, <2>1 DEF Unheard
  <2>2. CASE MayWrite /\ Says("write", m) /\ OnRMessageOk(m)
    <3>1. Len(said) < MaxBuffer
      BY <2>2 DEF MayWrite
    <3>2. {outputBuf', said'} \subseteq Seq(Entries) /\ Len(said') = Len(said) + 1 /\ Len(outputBuf') <= Len(said')
      BY <1>2, <1>6, <2>2 DEF Says, OnRMessageOk
    <3> QED BY <1>1, <1>6, <3>1, <3>2
  <2> QED BY <1>6, <2>1, <2>2 DEF Written
<1>7. ASSUME NEW m \in Message, Write(m) PROVE BufferInLimit'
  <2>1. UNCHANGED <<call, task>> /\ call # "none" /\ task \in {"command", "plot"}
    BY <1>1, <1>7 DEF Write, Writing, rvars
  <2> QED BY <1>6, <1>7, <2>1 DEF Write
<1>8. ASSUME NEW m \in Message, Error(m) PROVE BufferInLimit'
  <2>1. task' = task /\ call # "none" /\ call' = "none" /\ task \in {"command", "plot"}
    BY <1>1, <1>8 DEF Error, ParseError, EvalError, Return
  <2>2. CASE Unheard
    BY <1>1, <2>1, <2>2 DEF Unheard
  <2>3. CASE Says("error", m) /\ OnRMessageError(m)
    <3>1. {outputBuf', said'} \subseteq Seq(Entries) /\ Len(said') = Len(said) + 1 /\ Len(outputBuf') <= Len(said')
      BY <1>2, <2>1, <2>3 DEF Says, OnRMessageError
    <3> QED BY <1>1, <2>1, <3>1
  <2> QED BY <1>8, <2>2, <2>3 DEF Error
<1>9. CASE PrintOutputBuf
  <2>1. <<>> \in Seq(Entries) /\ Len(<<>>) = 0
    BY EmptySeq
  <2> QED BY <1>1, <1>9, <2>1 DEF PrintOutputBuf
<1>10. CASE UpdatePlot
  BY <1>1, <1>10 DEF UpdatePlot, MayWrite, Call
<1>11. CASE PlotShown \/ UpdateVariables \/ PromiseFails \/ Updated
  BY <1>1, <1>11 DEF PlotShown, UpdateVariables, PromiseFails, Updated, HandlerEnds, rvars
<1>12. ASSUME NEW m \in Message, PromiseWrites(m) PROVE BufferInLimit'
  BY <1>6, <1>12 DEF PromiseWrites, rvars
<1>13. CASE UNCHANGED svars
  BY <1>1, <1>13 DEF svars, rvars, wvars
<1> QED
  BY <1>3, <1>4, <1>5, <1>7, <1>8, <1>9, <1>10, <1>11, <1>12, <1>13 DEF SNext, RStep, Update, SCrashed

LEMMA LimitHolds == EditorSpec => []BufferInLimit
<1>1. SInit /\ [][SNext]_svars => []BufferInLimit
  BY LimitStart, LimitStep, SessionInitial, SessionStep, PTL
<1> QED BY <1>1, EditorRunsTheSession, PTL

LEMMA BufferPrints == BufferInLimit => Shown(outputBuf) \in Outputs
<1> SUFFICES ASSUME BufferInLimit PROVE Shown(outputBuf) \in Outputs
  OBVIOUS
<1>1. /\ MaxBuffer \in Nat /\ outputBuf \in Seq(Entries) /\ said \in Seq(Entries)
      /\ Len(outputBuf) \in Nat /\ Len(said) \in Nat /\ outputBuf \in [1 .. Len(outputBuf) -> Entries]
  BY RSessionAssumption, LenProperties DEF BufferInLimit
<1>2. BufferLimit <= MaxBuffer + 2
  BY <1>1 DEF BufferLimit
<1>3. BufferLimit \in Nat
  BY <1>1 DEF BufferLimit
<1>4. Len(outputBuf) \in 0 .. MaxBuffer + 2
  BY <1>1, <1>2, <1>3 DEF BufferInLimit
<1> QED BY <1>1, <1>4, OutputsAreShown

LEMMA EditorStepsInConsole == BufferInLimit /\ [EditorNext]_allvars => [Next]_vars
<1> SUFFICES ASSUME BufferInLimit, [EditorNext]_allvars PROVE Next \/ UNCHANGED vars
  OBVIOUS
<1>1. CASE UserEvent
  BY <1>1 DEF UserEvent, Next
<1>2. CASE AskForMore
  BY <1>2 DEF AskForMore, Next, Receiver
<1>3. CASE PrintOutput
  BY <1>3, BufferPrints DEF PrintOutput, PrintOutputBuf, Next, Receiver
<1>4. CASE Plot \/ BlankScript \/ RunCommand \/ Evaluate \/ PlotDone \/ WriteOutput \/ Views
  BY <1>4 DEF Plot, BlankScript, RunCommand, Evaluate, PlotDone, WriteOutput, Views
<1>5. CASE EditorCrashed \/ UNCHANGED allvars
  BY <1>5 DEF EditorCrashed, allvars
<1> QED BY <1>1, <1>2, <1>3, <1>4, <1>5 DEF EditorNext, Handle

(* Every answer onCommand gives is one that Console expects of a receiver:  *)
(* the console's theorems hold for the program.                             *)
THEOREM EditorUsesTheConsole == EditorSpec => ConsoleContract
<1>1. EditorInit => Init
  BY DEF EditorInit
<1> QED BY <1>1, EditorStepsInConsole, LimitHolds, PTL DEF EditorSpec, ConsoleContract, Spec
-------------------------------------------------------------------------------
(* What RSession promises holds of the running program: whatever the user   *)
(* does and R answers, R's protect stack is balanced, each call of execute  *)
(* reports once, nothing of a command waits behind it, what waits comes     *)
(* first, errors are shown, and the console gets what R said once and in    *)
(* order.                                                                   *)
THEOREM ProgramKeepsTheSession ==
    EditorSpec => /\ [](STypeOK /\ ProtectBalanced /\ OneReport)
                  /\ [](NothingOfACommandWaits /\ PlotOutputFirst)
                  /\ ErrorsAreShown /\ ServiceContract
<1>1. SSpec => /\ []STypeOK /\ []ProtectBalanced /\ []OneReport
               /\ []NothingOfACommandWaits /\ []PlotOutputFirst
  BY SessionTyped, ProtectStackBalanced, OneReportPerCall, CommandsLeaveNothing, BufferInOrder, PTL
<1>2. SSpec => ErrorsAreShown /\ ServiceContract
  BY EveryErrorIsShown, SessionIsAService, PTL
<1> QED BY <1>1, <1>2, EditorRunsTheSession, PTL DEF SSpec

(* What Console promises holds of the running program, with onCommand for   *)
(* its receiver: a command is what was typed, with the parts that execute   *)
(* found incomplete before it; nothing done in the input line changes the   *)
(* transcript, and an answer that comes there ends behind a fresh prompt.   *)
THEOREM ProgramKeepsTheConsole ==
    EditorSpec => /\ [](TypeOK /\ HistoryInRange /\ IdlePromptIsDefault)
                  /\ [](ContinuationMatches /\ CrashNeedsScript)
                  /\ TranscriptImmutable /\ OutputEndsAtPrompt /\ CommandIsInput
<1>1. Spec => /\ []TypeOK /\ []HistoryInRange /\ []IdlePromptIsDefault
              /\ []ContinuationMatches /\ []CrashNeedsScript
  BY ConsoleTypeCorrect, RecallInRange, PromptIsDefault, ContinuationIsOfTheCommand, OnlyScriptsCrash, PTL
<1>2. Spec => TranscriptImmutable /\ OutputEndsAtPrompt /\ CommandIsInput
  BY TranscriptStands, OutputIsPrompted, CommandIsTyped, PTL
<1> QED BY <1>1, <1>2, EditorUsesTheConsole, PTL DEF ConsoleContract
(* From R to the screen: what is in the buffer when onCommand is done       *)
(* stands, message by message and without the last newline, below the       *)
(* transcript and above the fresh prompt, if the command was sent from the  *)
(* input line; from there on the cursor stays in the line where the answer  *)
(* comes.                                                                   *)
THEOREM AnswersAreShown ==
    EditorSpec => /\ [][PrintOutput /\ InLastBlock(view) => Answer(Shown(outputBuf))]_allvars
                  /\ [][InLastBlock(view) /\ pc' \in {"command", "asked"} => InLastBlock(view)']_allvars
<1>1. BufferInLimit => Shown(outputBuf) \in Outputs
  BY BufferPrints
<1>2. BufferInLimit /\ DInv => [PrintOutput /\ InLastBlock(view) => Answer(Shown(outputBuf))]_allvars
  BY <1>1, OutputAnswers DEF PrintOutput, PrintOutputBuf
<1>3. DInv /\ BufferInLimit /\ [EditorNext]_allvars =>
        [InLastBlock(view) /\ pc' \in {"command", "asked"} => InLastBlock(view)']_allvars
  BY EditorStepsInConsole, SentFromInputLine
<1>4. EditorSpec => []DInv
  BY EditorUsesTheConsole, DInvHolds, PTL DEF ConsoleContract
<1> QED BY <1>2, <1>3, <1>4, LimitHolds, PTL DEF EditorSpec
-------------------------------------------------------------------------------
(* How many steps of Progress are left at most until the user can go on:    *)
(* execute's own, and those of the handler around it.                       *)
ExecuteLeft ==
    CASE call = "parsing"    -> 2 * MaxExprs + 3
      [] call = "evaluating" -> 2 * left + 2
      [] call = "printing"   -> 2 * left + 1
      [] OTHER               -> 1

StepsLeft ==
    IF call = "crashed" THEN 0
    ELSE CASE pc = "command" /\ task = "idle" -> 2 * MaxExprs + 5
           [] task = "command" -> ExecuteLeft + 1
           [] task = "plot"    -> ExecuteLeft
           [] task = "update"  -> 1
           [] OTHER            -> 0

LEMMA ExecuteLeftBounded ==
    SInv /\ call # "crashed" => ExecuteLeft \in 1 .. 2 * MaxExprs + 3
<1> SUFFICES ASSUME SInv, call # "crashed" PROVE ExecuteLeft \in 1 .. 2 * MaxExprs + 3
  OBVIOUS
<1>1. MaxExprs \in Nat /\ left \in 0 .. MaxExprs
  BY RConsoleAssumption DEF SInv, RInv, RTypeOK
<1> QED BY <1>1 DEF ExecuteLeft

(* No step is left exactly when the user can go on or the program stopped.  *)
LEMMA StepsLeftBounded ==
    EInv /\ SInv => /\ StepsLeft \in 0 .. 2 * MaxExprs + 5
                    /\ StepsLeft = 0 <=> \/ task = "idle" /\ pc \in {"idle", "crashed"}
                                         \/ task = "stopped" \/ call = "crashed"
<1> SUFFICES ASSUME EInv, SInv
             PROVE  /\ StepsLeft \in 0 .. 2 * MaxExprs + 5
                    /\ StepsLeft = 0 <=> \/ task = "idle" /\ pc \in {"idle", "crashed"}
                                         \/ task = "stopped" \/ call = "crashed"
  OBVIOUS
<1>1. MaxExprs \in Nat
  BY RConsoleAssumption
<1>2. CASE call = "crashed"
  BY <1>1, <1>2 DEF StepsLeft
<1>3. CASE call # "crashed"
  <2>1. ExecuteLeft \in 1 .. 2 * MaxExprs + 3
    BY <1>3, ExecuteLeftBounded
  <2> QED BY <1>1, <1>3, <2>1 DEF StepsLeft, EInv, Controls, HandlersAgree
<1> QED BY <1>2, <1>3

LEMMA ConsoleRests == [EditorNext]_allvars /\ task \in {"plot", "update"} => UNCHANGED pc
BY DEF EditorNext, Handle, UserEvent, BlankScript, Waiting, Plot, RunCommand, OnCommand, Evaluate, AskForMore, Incomplete,
       PrintOutput, PrintOutputBuf, PlotDone, WriteOutput, Views, EditorCrashed, allvars, vars

(* Every step of Progress brings the handler nearer to its end.             *)
LEMMA ProgressLowers ==
    EInv /\ SInv /\ [EditorNext]_allvars /\ Progress => StepsLeft' < StepsLeft
<1> SUFFICES ASSUME EInv, SInv, EInv', [EditorNext]_allvars, Progress PROVE StepsLeft' < StepsLeft
  BY EditorStep
<1>1. /\ MaxExprs \in Nat /\ left \in 0 .. MaxExprs
      /\ task \notin {"command", "plot"} => call = "none"
      /\ call = "printing" => left > 0
      /\ call \in {"none", "parsing", "evaluating", "printing", "crashed"}
  BY RConsoleAssumption DEF SInv, RInv, RTypeOK, Resting, PrintsAnExpression
<1> USE DEF StepsLeft, ExecuteLeft
<1>2. CASE pc = "command" /\ OnCommand
  <2>1. task = "idle" /\ task' = "command" /\ call = "none" /\ call' = "parsing"
    BY <1>2 DEF OnCommand, Call
  <2> QED BY <1>1, <1>2, <2>1
<1>3. CASE Quiet
  <2>1. task' = task /\ task \in {"command", "plot"}
    BY <1>1, <1>3 DEF Quiet, wvars, ParseFails, ParseOK, EvalOK, Printed, PrintFails, Done
  <2>2. call # "crashed" /\ (call' = "crashed" \/ (ExecuteLeft' \in Nat /\ ExecuteLeft' < ExecuteLeft))
    <3>1. CASE \E n \in 0 .. MaxExprs : ParseOK(n)
      BY <1>1, <3>1 DEF ParseOK
    <3>2. CASE EvalOK
      BY <1>1, <3>2 DEF EvalOK
    <3>3. CASE Printed
      BY <1>1, <3>3 DEF Printed
    <3>4. CASE PrintFails \/ ParseFails
      BY <3>4 DEF PrintFails, ParseFails
    <3>5. CASE Done
      BY <1>1, <3>5 DEF Done, Return
    <3> QED BY <1>3, <3>1, <3>2, <3>3, <3>4, <3>5 DEF Quiet
  <2>3. ExecuteLeft \in 1 .. 2 * MaxExprs + 3
    BY <2>2, ExecuteLeftBounded
  <2> HIDE DEF ExecuteLeft
  <2>5. CASE task = "command"
    BY <2>1, <2>2, <2>3, <2>5
  <2>6. CASE task = "plot"
    BY <2>1, <2>2, <2>3, <2>6
  <2> QED BY <2>1, <2>5, <2>6
<1>4. CASE Incomplete \/ \E m \in Message : Error(m)
  <2>1. /\ task' = task /\ task \in {"command", "plot"} /\ call' = "none"
        /\ call \in {"parsing", "evaluating"}
    BY <1>1, <1>4 DEF Incomplete, ParseIncomplete, Error, ParseError, EvalError, Return
  <2> QED BY <1>1, <2>1
<1>5. CASE PrintOutputBuf
  BY <1>1, <1>5 DEF PrintOutputBuf, rvars
<1>6. CASE PlotShown
  <2>1. task = "plot" /\ task' = "idle" /\ call = "none" /\ call' = "none" /\ pc = "idle"
    BY <1>6 DEF PlotShown, HandlerEnds, rvars, EInv, HandlersAgree
  <2> QED BY <2>1, ConsoleRests
<1>7. CASE Updated
  <2>1. task = "update" /\ task' = "idle" /\ call = "none" /\ call' = "none" /\ pc = "idle"
    BY <1>1, <1>7 DEF Updated, HandlerEnds, rvars, EInv, HandlersAgree
  <2> QED BY <2>1, ConsoleRests
<1> QED BY <1>2, <1>3, <1>4, <1>5, <1>6, <1>7 DEF Progress

(* And no step leads away from it: no event of the user, and nothing R      *)
(* writes.                                                                  *)
LEMMA NothingRaises ==
    EInv /\ SInv /\ [EditorNext]_allvars /\ StepsLeft > 0 => StepsLeft' <= StepsLeft
<1> SUFFICES ASSUME EInv, SInv, [EditorNext]_allvars, StepsLeft > 0 PROVE StepsLeft' <= StepsLeft
  OBVIOUS
<1>1. StepsLeft \in Nat
  BY StepsLeftBounded, RConsoleAssumption
<1>2. task = "idle" => pc = "command"
  BY StepsLeftBounded DEF EInv, Controls, HandlersAgree
<1>3. UNCHANGED <<pc, task, call, left>> => StepsLeft' = StepsLeft
  BY DEF StepsLeft, ExecuteLeft
<1>4. CASE Progress
  <2>1. StepsLeft' < StepsLeft
    BY <1>4, ProgressLowers
  <2>2. StepsLeft' \in Int
    <3>1. left' \in Int /\ MaxExprs \in Nat
      <4>1. SInv'
        BY EditorStepsInSession, SessionStep
      <4> QED BY <4>1, RConsoleAssumption DEF SInv, RInv, RTypeOK
    <3> QED BY <3>1 DEF StepsLeft, ExecuteLeft
  <2> QED BY <1>1, <2>1, <2>2
<1>5. CASE UserEvent \/ BlankScript \/ Plot
  BY <1>2, <1>5 DEF UserEvent, BlankScript, Plot, Waiting
<1>6. CASE Handle
  BY <1>4, <1>6 DEF Handle, RunCommand, Evaluate, AskForMore, PrintOutput, PlotDone, Progress
<1>7. CASE WriteOutput
  BY <1>1, <1>3, <1>7 DEF WriteOutput, Write, vars, rvars
<1>8. CASE Views
  <2>1. CASE Updated
    BY <1>4, <2>1 DEF Progress
  <2>2. CASE PromiseFails
    BY <1>1, <2>2 DEF PromiseFails, rvars, StepsLeft, EInv, HandlersAgree
  <2>3. CASE \E m \in Message : PromiseWrites(m) /\ UNCHANGED vars
    BY <1>1, <1>3, <2>3 DEF PromiseWrites, vars, rvars
  <2> QED BY <1>8, <2>1, <2>2, <2>3 DEF Views
<1>9. CASE EditorCrashed \/ UNCHANGED allvars
  BY <1>1, <1>3, <1>9 DEF EditorCrashed, allvars, vars, svars, rvars, wvars
<1> QED BY <1>5, <1>6, <1>7, <1>8, <1>9 DEF EditorNext

(* The safety part of CommandAnswered and HandlersEnd: a handler needs a    *)
(* bounded number of steps of Progress; each takes it nearer to its end,    *)
(* whatever happens in between, and with none left the prompt is back, or   *)
(* the program has stopped.  That steps are taken is the fairness assumed.  *)
THEOREM HandlersRunDown ==
    EditorSpec => /\ [](StepsLeft \in 0 .. 2 * MaxExprs + 5)
                  /\ [](StepsLeft = 0 => \/ task = "idle" /\ pc \in {"idle", "crashed"}
                                        \/ task = "stopped" \/ call = "crashed")
                  /\ [][Progress => StepsLeft' < StepsLeft]_allvars
                  /\ [][StepsLeft > 0 => StepsLeft' <= StepsLeft]_allvars
<1>1. EditorSpec => []EInv
  BY EditorStart, EditorStep, PTL DEF EditorSpec
<1>2. EditorSpec => []SInv
  BY EditorRunsTheSession, SessionInvariant, PTL DEF SSpec
<1>3. EInv /\ SInv => /\ StepsLeft \in 0 .. 2 * MaxExprs + 5
                      /\ StepsLeft = 0 => \/ task = "idle" /\ pc \in {"idle", "crashed"}
                                          \/ task = "stopped" \/ call = "crashed"
  BY StepsLeftBounded
<1>4. EInv /\ SInv /\ [EditorNext]_allvars => /\ [Progress => StepsLeft' < StepsLeft]_allvars
                                             /\ [StepsLeft > 0 => StepsLeft' <= StepsLeft]_allvars
  BY ProgressLowers, NothingRaises
<1> QED BY <1>1, <1>2, <1>3, <1>4, PTL DEF EditorSpec
===============================================================================
