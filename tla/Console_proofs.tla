---------------------------- MODULE Console_proofs ----------------------------
(***************************************************************************)
(* What Console keeps of commands, for every history, text and answer of   *)
(* the receiver: the record that a continuation is appended to, the recall *)
(* position and the prompt; and of the document: what it shows of commands *)
(* and answers, and what nothing changes.                                  *)
(***************************************************************************)
EXTENDS Console, TextBlocks_proofs

(* A history of whatever records. *)
Recorded == \E S : history \in Seq(S)

(* The invariant.  While the receiver works on a command of the console,    *)
(* that command is the last record; this is what makes the record match     *)
(* when the receiver finds the command incomplete.                          *)
PromptOfIdle == pc # "asked" => currentPrompt = DefaultPrompt
PendingIsRecorded ==
    pc = "command" =>
        /\ sender \in {"console", "script"}
        /\ sender = "console" => history # <<>> /\ LastRecord = pending
PartialIsSent == isExtra => partial.by \in {"console", "script"}

CInv ==
    /\ Recorded /\ historyPos \in Nat /\ HistoryInRange
    /\ pc \in {"idle", "command", "asked", "crashed"}
    /\ PromptOfIdle /\ PendingIsRecorded /\ PartialIsSent /\ ContinuationMatches /\ CrashNeedsScript

(* historyAdd makes the command the last record of a history that is not    *)
(* longer than it may be.                                                   *)
LEMMA Added ==
    ASSUME Recorded, Len(history) <= HistoryCount, NEW cmd
    PROVE  /\ \E S : HistoryAdd(history, cmd) \in Seq(S)
           /\ Len(HistoryAdd(history, cmd)) \in 1 .. HistoryCount
           /\ HistoryAdd(history, cmd)[Len(HistoryAdd(history, cmd))] = cmd
<1>1. PICK S : history \in Seq(S)
  BY DEF Recorded
<1> DEFINE T == S \cup {cmd}
<1>2. history \in Seq(T) /\ cmd \in T /\ Len(history) \in Nat /\ HistoryCount \in Nat \ {0}
  <2>1. HistoryCount \in Nat \ {0}
    BY ConsoleAssumption
  <2>2. history \in Seq(T) /\ cmd \in T
    BY <1>1
  <2> QED BY <2>1, <2>2
<1> HIDE DEF T
<1>3. CASE Len(history) < HistoryCount
  <2>1. HistoryAdd(history, cmd) = Append(history, cmd)
    BY <1>3 DEF HistoryAdd
  <2>2. /\ Append(history, cmd) \in Seq(T) /\ Len(Append(history, cmd)) = Len(history) + 1
        /\ Append(history, cmd)[Len(history) + 1] = cmd
    BY <1>2
  <2> QED BY <1>2, <1>3, <2>1, <2>2
<1>4. CASE Len(history) = HistoryCount
  <2>1. HistoryAdd(history, cmd) = Append(Tail(history), cmd)
    BY <1>4 DEF HistoryAdd
  <2>2. history # <<>>
    BY <1>2, <1>4
  <2>3. Tail(history) \in Seq(T) /\ Len(Tail(history)) = Len(history) - 1
    BY <1>2, <2>2
  <2>4. /\ Append(Tail(history), cmd) \in Seq(T) /\ Len(Append(Tail(history), cmd)) = Len(history)
        /\ Append(Tail(history), cmd)[Len(history)] = cmd
    BY <1>2, <2>3
  <2> QED BY <1>2, <1>4, <2>1, <2>4
<1> QED BY <1>2, <1>3, <1>4

(* A continuation replaces the last record. *)
LEMMA Replaced ==
    ASSUME Recorded, history # <<>>, NEW cmd
    PROVE  LET h == [history EXCEPT ![Len(history)] = cmd]
           IN  /\ \E S : h \in Seq(S)
               /\ Len(h) = Len(history) /\ h # <<>> /\ h[Len(h)] = cmd
<1>1. PICK S : history \in Seq(S)
  BY DEF Recorded
<1> DEFINE T == S \cup {cmd}
           h == [history EXCEPT ![Len(history)] = cmd]
<1>2. history \in Seq(T) /\ cmd \in T /\ Len(history) \in Nat \ {0}
  BY <1>1
<1> HIDE DEF T
<1>3. h \in Seq(T) /\ Len(h) = Len(history) /\ h[Len(history)] = cmd
  BY <1>2
<1> QED BY <1>2, <1>3

LEMMA ConsoleStart == Init => CInv
<1> SUFFICES ASSUME Init PROVE CInv
  OBVIOUS
<1>1. Recorded
  BY DEF Init, Recorded
<1>2. Len(history) = 0 /\ historyPos = 0 /\ HistoryCount \in Nat
  BY ConsoleAssumption DEF Init
<1> QED
  BY <1>1, <1>2 DEF Init, CInv, HistoryInRange, PromptOfIdle, PendingIsRecorded, PartialIsSent,
                    ContinuationMatches, CrashNeedsScript

(* Every key, click, command and answer keeps it. *)
LEMMA ConsoleStep == CInv /\ [Next]_vars => CInv'
<1> SUFFICES ASSUME CInv, [Next]_vars PROVE CInv'
  OBVIOUS
<1>0. /\ Recorded /\ historyPos \in Nat /\ HistoryInRange /\ Len(history) \in Nat
      /\ PromptOfIdle /\ PendingIsRecorded /\ PartialIsSent /\ ContinuationMatches /\ CrashNeedsScript
      /\ HistoryCount \in Nat \ {0}
      /\ pc \in {"idle", "command", "asked", "crashed"}
  <2>1. HistoryCount \in Nat \ {0}
    BY ConsoleAssumption
  <2>2. Len(history) \in Nat
    <3>1. PICK S : history \in Seq(S)
      BY DEF CInv, Recorded
    <3> QED BY <3>1
  <2> QED BY <2>1, <2>2 DEF CInv
<1> USE DEF HistoryInRange, PromptOfIdle, PendingIsRecorded, PartialIsSent, ContinuationMatches,
            CrashNeedsScript, LastRecord
<1>1. ASSUME UNCHANGED <<currentPrompt, historyVars, callVars>> PROVE CInv'
  BY <1>0, <1>1 DEF CInv, Recorded, historyVars, callVars
<1>2. ASSUME EnterCommand PROVE CInv'
  <2>1. PICK cmd : /\ history' = HistoryAdd(history, cmd) /\ historyPos' = Len(history')
                   /\ pc' = "command" /\ pending' = cmd /\ sender' = "console"
                   /\ UNCHANGED <<currentPrompt, isExtra, partial>>
                   /\ pc = "idle" /\ ~isExtra
    BY <1>2 DEF EnterCommand, Emit
  <2>2. /\ \E S : history' \in Seq(S)
        /\ Len(history') \in 1 .. HistoryCount
        /\ history'[Len(history')] = cmd
    BY <1>0, <2>1, Added
  <2>3. history' # <<>>
    BY <2>2
  <2> QED BY <1>0, <2>1, <2>2, <2>3 DEF CInv, Recorded
<1>3. ASSUME EnterContinuation PROVE CInv'
  <2>1. PICK cmd : /\ history' = [history EXCEPT ![Len(history)] = cmd] /\ historyPos' = historyPos
                   /\ pc' = "command" /\ pending' = cmd /\ sender' = "console" /\ isExtra' = FALSE
                   /\ UNCHANGED <<currentPrompt, partial>>
                   /\ pc = "idle" /\ history # <<>>
    BY <1>3 DEF EnterContinuation, Emit
  <2>2. /\ \E S : history' \in Seq(S)
        /\ Len(history') = Len(history) /\ history' # <<>> /\ history'[Len(history')] = cmd
    BY <1>0, <2>1, Replaced
  <2> QED BY <1>0, <2>1, <2>2 DEF CInv, Recorded
<1>4. ASSUME EnterContinuationOfNothing PROVE CInv'
  <2>1. /\ history = <<>> /\ isExtra /\ ~isExtra' /\ pc = "idle" /\ pc' = "crashed"
        /\ UNCHANGED <<currentPrompt, history, historyPos, pending, sender, partial>>
    BY <1>4 DEF EnterContinuationOfNothing
  <2>2. partial.by = "script" /\ historyPos = 0
    BY <1>0, <2>1
  <2> QED BY <1>0, <2>1, <2>2 DEF CInv, Recorded
<1>5. ASSUME HistoryBack \/ HistoryForward PROVE CInv'
  <2>1. /\ historyPos' \in 0 .. Len(history)
        /\ UNCHANGED <<currentPrompt, isExtra, history, callVars>>
        /\ pc = "idle"
    BY <1>0, <1>5 DEF HistoryBack, HistoryForward
  <2> QED BY <1>0, <2>1 DEF CInv, Recorded, callVars
<1>6. ASSUME NEW t, Execute(t) PROVE CInv'
  BY <1>0, <1>6 DEF Execute, Emit, CInv, Recorded, historyVars
<1>7. ASSUME ExtraInput PROVE CInv'
  BY <1>0, <1>7 DEF ExtraInput, CInv, Recorded
<1>8. ASSUME NEW s, Output(s) PROVE CInv'
  BY <1>0, <1>8 DEF Output, CInv, Recorded, historyVars
<1>9. ASSUME NEW v, Edit(v) PROVE CInv'
  BY <1>1, <1>9 DEF Edit
<1>10. CASE UserKey
  <2>1. CASE Left \/ Right \/ Delete \/ (\E k \in Keys : TypeKey(k)) \/ (\E t \in Clips : Paste(t))
               \/ (\E shift \in BOOLEAN : Backspace(shift))
    <3>1. \E v : Edit(v)
      BY <2>1 DEF Left, Right, Delete, TypeKey, Paste, Insert, Backspace
    <3> QED BY <3>1, <1>9
  <2>2. CASE Copy \/ EnterEmpty
    BY <1>1, <2>2 DEF Copy, EnterEmpty, vars, historyVars, callVars
  <2> QED BY <1>2, <1>3, <1>4, <1>5, <1>10, <2>1, <2>2 DEF UserKey, Enter
<1>11. CASE UNCHANGED vars
  BY <1>1, <1>11 DEF vars, historyVars, callVars
<1>12. ASSUME NEW p, NEW q, Click(p, q) PROVE CInv'
  BY <1>9, <1>12 DEF Click
<1> QED
  BY <1>6, <1>7, <1>8, <1>10, <1>11, <1>12 DEF Next, User, Receiver, Crashed

LEMMA CInvHolds == Spec => []CInv
BY ConsoleStart, ConsoleStep, PTL DEF Spec

(* historyBack and historyForward never index outside of the history        *)
(* (Console.cpp 200-227), for a history of any size.                        *)
THEOREM RecallInRange == Spec => []HistoryInRange
<1>1. CInv => HistoryInRange
  BY DEF CInv
<1> QED BY <1>1, CInvHolds, PTL

(* The user is always asked with the default prompt. *)
THEOREM PromptIsDefault == Spec => []IdlePromptIsDefault
<1>1. CInv => IdlePromptIsDefault
  BY DEF CInv, PromptOfIdle, IdlePromptIsDefault
<1> QED BY <1>1, CInvHolds, PTL

(* onEnter appends the rest of a command to the right record. *)
THEOREM ContinuationIsOfTheCommand == Spec => []ContinuationMatches
<1>1. CInv => ContinuationMatches
  BY DEF CInv
<1> QED BY <1>1, CInvHolds, PTL

(* at(-1) of Console.cpp 124 needs an incomplete script. *)
THEOREM OnlyScriptsCrash == Spec => []CrashNeedsScript
<1>1. CInv => CrashNeedsScript
  BY DEF CInv
<1> QED BY <1>1, CInvHolds, PTL
-------------------------------------------------------------------------------
(* The document.  DInv adds to the types that the view is no more than its  *)
(* text and two positions; CInv is what keeps m_history->at() in range.     *)
DInv == TypeOK /\ IsView(Char, view)

LEMMA Prompts ==
    ASSUME NEW prompt \in {DefaultPrompt, ExtraPrompt}
    PROVE  prompt \in Seq(Char) /\ Len(prompt) = 2 /\ << prompt >> \in Texts(Char)
<1>1. prompt \in Seq(Char) /\ Len(prompt) = 2
  <2>1. ">" \in Char /\ "+" \in Char /\ " " \in Char
    BY ConsoleAssumption
  <2>2. \A x, y \in Char : << x, y >> \in Seq(Char) /\ Len(<< x, y >>) = 2
    OBVIOUS
  <2>3. DefaultPrompt \in Seq(Char) /\ Len(DefaultPrompt) = 2
    BY <2>1, <2>2 DEF DefaultPrompt
  <2>4. ExtraPrompt \in Seq(Char) /\ Len(ExtraPrompt) = 2
    BY <2>1, <2>2 DEF ExtraPrompt
  <2> QED BY <2>3, <2>4
<1> QED BY <1>1, OneLine

LEMMA PromptShown ==
    ASSUME NEW v, IsView(Char, v), NEW prompt \in {DefaultPrompt, ExtraPrompt}
    PROVE  Follows(Char, v, InsertPrompt(v, prompt)) /\ Follows(Char, v, NewPrompt(v, prompt))
<1>1. << prompt >> \in Texts(Char) /\ NewLine \in Texts(Char)
  BY Prompts, NewLineText
<1>2. Follows(Char, v, Replace(v, << prompt >>)) /\ Follows(Char, v, Replace(v, NewLine))
  BY <1>1, ReplacedView
<1>3. Follows(Char, Replace(v, NewLine), Replace(Replace(v, NewLine), << prompt >>))
  BY <1>1, <1>2, ReplacedView DEF Follows
<1>4. Follows(Char, v, Replace(Replace(v, NewLine), << prompt >>))
  BY <1>2, <1>3, FollowsAll
<1> QED BY <1>2, <1>4 DEF InsertPrompt, NewPrompt

LEMMA LineEndReached ==
    ASSUME NEW v, IsView(Char, v)
    PROVE  Follows(Char, v, ToLineEnd(v)) /\ ToLineEnd(v).text = v.text
<1>1. CASE v.pos.c = Len(Line(v))
  <2>1. ToLineEnd(v) = v
    BY <1>1 DEF ToLineEnd
  <2>2. Around(v, v)
    BY SameText, SelectionNumbers DEF Around
  <2>3. KeepsLines(v, v)
    BY SelectionNumbers DEF KeepsLines
  <2> QED BY <2>1, <2>2, <2>3 DEF Follows
<1>2. CASE v.pos.c # Len(Line(v))
  <2> DEFINE p == [b |-> v.pos.b, c |-> Len(v.text[v.pos.b])]
  <2>1. v.text \in Texts(Char) /\ v.pos.b \in 1 .. Len(v.text)
    BY PositionParts DEF IsView
  <2>2. Len(v.text[v.pos.b]) \in 0 .. Len(v.text[v.pos.b])
    BY <2>1, TextLines
  <2>3. p \in Positions(v.text) /\ p.b = v.pos.b
    BY <2>1, <2>2, PositionIn
  <2> HIDE DEF p
  <2>4. /\ IsView(Char, At(v.text, p)) /\ At(v.text, p).text = v.text
        /\ SelectionStart(At(v.text, p)) = p
    BY <2>1, <2>3, ViewAt
  <2>5. ToLineEnd(v) = At(v.text, p)
    BY <1>2 DEF ToLineEnd, Line, p
  <2>6. ASSUME OnLastLine(v) PROVE OnLastLine(At(v.text, p))
    BY <2>3, <2>4, <2>6, OnLastLineParts DEF OnLastLine
  <2>7. Len(v.text) \in Nat
    BY <2>1, TextLines
  <2>8. Around(v, At(v.text, p))
    <3>1. SelectionEnd(At(v.text, p)) = p
      BY DEF At, SelectionEnd
    <3> QED BY <2>3, <2>4, <3>1, SameText, SelectionNumbers DEF Around
  <2> QED BY <2>4, <2>5, <2>6, <2>7, <2>8 DEF Follows, KeepsLines
<1> QED BY <1>1, <1>2

LEMMA LineCleared ==
    ASSUME NEW v, IsView(Char, v), NEW t \in Texts(Char)
    PROVE  /\ Follows(Char, v, ClearCurrentBlock(v))
           /\ Follows(Char, v, Replace(ClearCurrentBlock(v), t))
<1>1. Follows(Char, v, ClearCurrentBlock(v))
  BY ErasedLine DEF ClearCurrentBlock
<1>2. Follows(Char, ClearCurrentBlock(v), Replace(ClearCurrentBlock(v), t))
  BY <1>1, ReplacedView DEF Follows
<1> QED BY <1>1, <1>2, FollowsAll

(* The positions the arrow keys reach. *)
LEMMA LeftPosition ==
    ASSUME IsView(Char, view), view.pos.c > 0
    PROVE  LeftOf(view.pos) \in Positions(view.text) /\ LeftOf(view.pos).b = view.pos.b
<1>1. /\ view.text \in Texts(Char) /\ view.pos \in Positions(view.text)
      /\ view.pos.b \in 1 .. Len(view.text) /\ view.pos.c \in 0 .. Len(view.text[view.pos.b])
      /\ view.pos = [b |-> view.pos.b, c |-> view.pos.c]
      /\ view.pos.c \in Nat
  BY PositionParts DEF IsView
<1>2. LeftOf(view.pos) = [b |-> view.pos.b, c |-> view.pos.c - 1]
  BY <1>1 DEF LeftOf
<1>3. Len(view.text[view.pos.b]) \in Nat
  BY <1>1, TextLines
<1>4. view.pos.c - 1 \in 0 .. Len(view.text[view.pos.b])
  BY <1>1, <1>3
<1>5. LeftOf(view.pos) \in Positions(view.text)
  BY <1>1, <1>2, <1>4, PositionIn
<1> QED BY <1>2, <1>5

LEMMA RightPosition ==
    ASSUME IsView(Char, view), view.pos # EndOf(view.text)
    PROVE  /\ RightOf(view.pos) \in Positions(view.text)
           /\ view.pos.b = Len(view.text) => RightOf(view.pos).b = view.pos.b
<1>1. /\ view.text \in Texts(Char) /\ view.pos \in Positions(view.text)
      /\ view.pos.b \in 1 .. Len(view.text) /\ view.pos.c \in 0 .. Len(view.text[view.pos.b])
      /\ view.pos = [b |-> view.pos.b, c |-> view.pos.c]
      /\ view.pos.c \in Nat /\ view.pos.b \in Nat
  BY PositionParts DEF IsView
<1>2. /\ Len(view.text) \in Nat
      /\ \A i \in 1 .. Len(view.text) : Len(view.text[i]) \in Nat
  BY <1>1, TextLines
<1>3. CASE view.pos.c < Len(view.text[view.pos.b])
  <2>1. RightOf(view.pos) = [b |-> view.pos.b, c |-> view.pos.c + 1]
    BY <1>1, <1>3 DEF RightOf
  <2>2. view.pos.c + 1 \in 0 .. Len(view.text[view.pos.b])
    BY <1>1, <1>2, <1>3
  <2>3. RightOf(view.pos) \in Positions(view.text)
    BY <1>1, <2>1, <2>2, PositionIn
  <2> QED BY <2>1, <2>3
<1>4. CASE ~ (view.pos.c < Len(view.text[view.pos.b]))
  <2>1. view.pos.c = Len(view.text[view.pos.b])
    BY <1>1, <1>2, <1>4
  <2>2. view.pos.b # Len(view.text)
    BY <1>1, <2>1 DEF EndOf, LastLine
  <2>3. RightOf(view.pos) = [b |-> view.pos.b + 1, c |-> 0]
    BY <1>4 DEF RightOf
  <2>4. view.pos.b + 1 \in 1 .. Len(view.text)
    BY <1>1, <1>2, <2>2
  <2>5. 0 \in 0 .. Len(view.text[view.pos.b + 1])
    BY <1>2, <2>4
  <2>6. RightOf(view.pos) \in Positions(view.text)
    BY <1>1, <2>3, <2>4, <2>5, PositionIn
  <2> QED BY <2>2, <2>6
<1> QED BY <1>3, <1>4

(* Removing what is between two positions of the last line. *)
LEMMA Erased ==
    ASSUME IsView(Char, view), NEW p \in Positions(view.text), NEW q \in Positions(view.text)
    PROVE  /\ IsView(Char, Erase(p, q))
           /\ p.b = Len(view.text) /\ q.b = Len(view.text) => KeepsLines(view, Erase(p, q))
<1> DEFINE v == [view EXCEPT !.pos = p, !.anchor = q]
<1>1. /\ v \in [text : Texts(Char), pos : Positions(view.text), anchor : Positions(view.text)]
      /\ v.text = view.text /\ v.pos = p /\ v.anchor = q
  <2>1. view \in [text : Texts(Char), pos : Positions(view.text), anchor : Positions(view.text)]
    BY DEF IsView
  <2> QED BY <2>1, Selected
<1>2. IsView(Char, v) /\ v.text = view.text /\ v.pos = p /\ v.anchor = q
  BY <1>1 DEF IsView
<1> HIDE DEF v
<1>3. Follows(Char, v, Replace(v, Empty))
  BY <1>2, NewLineText, ReplacedView
<1>4. ASSUME p.b = Len(view.text), q.b = Len(view.text) PROVE OnLastLine(v)
  BY <1>2, <1>4 DEF OnLastLine, SelectionStart
<1>5. Erase(p, q) = Replace(v, Empty)
  BY DEF Erase, v
<1> QED BY <1>2, <1>3, <1>4, <1>5 DEF Follows, KeepsLines

(* Whatever the document holds, onEnter takes a text of it. *)
LEMMA SubmittedIsText ==
    ASSUME NEW t \in Texts(Char), currentPrompt \in {DefaultPrompt, ExtraPrompt}
    PROVE  SubmittedText(t) \in Texts(Char)
<1> DEFINE ends == Occurrences(t, currentPrompt)
           last == CHOOSE p \in ends : \A q \in ends : Before(q, p)
<1>1. /\ t \in Seq(Seq(Char)) /\ Len(t) \in Nat \ {0} /\ t[1] \in Seq(Char) /\ t # <<>>
      /\ Tail(t) \in Seq(Seq(Char)) /\ Len(Tail(t)) = Len(t) - 1
  <2>1. t \in Seq(Seq(Char)) /\ t # <<>> /\ Len(t) \in Nat \ {0} /\ 1 \in 1 .. Len(t)
    BY TextLines DEF Texts
  <2> QED BY <2>1, TextLines, HeadTailProperties
<1>2. CASE ends # {}
  <2>1. ends \in SUBSET Positions(t)
    BY DEF Occurrences
  <2>2. \E p \in ends : \A q \in ends : Before(q, p)
    BY <1>2, <2>1, LastPosition
  <2>3. last \in Positions(t)
    BY <2>1, <2>2
  <2>4. TextFrom(t, last) \in Texts(Char)
    BY <2>3, TextBehind
  <2> QED BY <1>2, <2>4 DEF SubmittedText
<1> HIDE DEF ends, last
<1>3. CASE ends = {} /\ t[1] # <<>>
  <2> DEFINE line == << Tail(t[1]) >>
  <2>1. Tail(t[1]) \in Seq(Char)
    BY <1>1, <1>3, HeadTailProperties
  <2>2. line \in Seq(Seq(Char)) /\ Len(line) = 1
    BY <2>1, OneElement
  <2> HIDE DEF line
  <2>3. line \o Tail(t) \in Seq(Seq(Char)) /\ Len(line \o Tail(t)) = Len(line) + Len(Tail(t))
    BY <1>1, <2>2, Concatenated
  <2>4. Len(line \o Tail(t)) >= 1
    BY <1>1, <2>2, <2>3
  <2>5. line \o Tail(t) \in Texts(Char)
    BY <2>3, <2>4, IsText
  <2> QED BY <1>3, <2>5 DEF SubmittedText, ends, line
<1>4. CASE ends = {} /\ t = Empty
  <2>1. t[1] = <<>>
    BY <1>4, NewLineText
  <2>2. Empty \in Texts(Char)
    BY NewLineText
  <2> QED BY <1>4, <2>1, <2>2 DEF SubmittedText, ends
<1>5. CASE ends = {} /\ t[1] = <<>> /\ t # Empty
  <2>1. Len(t) # 1
    <3> SUFFICES ASSUME Len(t) = 1 PROVE t = Empty
      BY <1>5
    <3>1. Empty \in Seq(Seq(Char)) /\ Len(Empty) = 1 /\ Empty[1] = <<>>
      BY NewLineText DEF Texts
    <3>2. Len(t) = Len(Empty) /\ \A i \in 1 .. Len(t) : t[i] = Empty[i]
      BY <1>5, <3>1
    <3> QED BY <1>1, <3>1, <3>2, SeqEqual
  <2>2. Len(Tail(t)) >= 1
    BY <1>1, <2>1
  <2>3. Tail(t) \in Texts(Char)
    BY <1>1, <2>2, IsText
  <2> QED BY <1>5, <2>3 DEF SubmittedText, ends
<1> QED BY <1>2, <1>3, <1>4, <1>5 DEF ends

(* Every step leaves a view and the lines its selection does not touch, and *)
(* one from the input line keeps the transcript.                            *)
LEMMA ViewStep ==
    ASSUME DInv, CInv, [Next]_vars
    PROVE  /\ IsView(Char, view') /\ StaysAround(view, view')
           /\ InLastBlock(view) => KeepsLines(view, view')
<1> DEFINE Kept == /\ StaysAround(view, view')
                   /\ InLastBlock(view) => KeepsLines(view, view')
<1>1. /\ IsView(Char, view) /\ currentPrompt \in {DefaultPrompt, ExtraPrompt}
      /\ history \in Seq(Texts(Char)) /\ historyPos \in Nat /\ historyPos <= Len(history)
      /\ Len(history) \in Nat /\ Len(view.text) \in Nat
  <2>1. IsView(Char, view) /\ currentPrompt \in {DefaultPrompt, ExtraPrompt}
        /\ history \in Seq(Texts(Char)) /\ historyPos \in Nat /\ historyPos <= Len(history)
    BY DEF DInv, TypeOK, CInv, HistoryInRange
  <2>2. Len(history) \in Nat /\ Len(view.text) \in Nat
    BY <2>1, LenProperties, TextLines DEF IsView
  <2> QED BY <2>1, <2>2
<1>2. InLastBlock(view) => OnLastLine(view) /\ view.pos.b = Len(view.text) /\ view.pos.c >= 2
  BY <1>1, Prompts DEF InLastBlock, OnLastLine, PromptLength
<1>3. ASSUME Follows(Char, view, view')
      PROVE  IsView(Char, view') /\ Kept
  BY <1>2, <1>3 DEF Follows, Around
<1>4. ASSUME IsView(Char, view'), view'.text = view.text
      PROVE  IsView(Char, view') /\ Kept
  BY <1>1, <1>4, SameText DEF KeepsLines
<1>5. CASE Enter
  <2>1. Follows(Char, view, NewPrompt(view, currentPrompt))
    BY <1>1, PromptShown
  <2>2. Follows(Char, view, ToLineEnd(view))
    BY <1>1, LineEndReached
  <2>3. Follows(Char, ToLineEnd(view), NewPrompt(ToLineEnd(view), currentPrompt))
    BY <1>1, <2>2, PromptShown DEF Follows
  <2>4. Follows(Char, view, NewPrompt(ToLineEnd(view), currentPrompt))
    BY <1>1, <2>2, <2>3, FollowsAll
  <2>5. view' = NewPrompt(view, currentPrompt) \/ view' = NewPrompt(ToLineEnd(view), currentPrompt)
    BY <1>5 DEF Enter, EnterEmpty, EnterCommand, EnterContinuation, EnterContinuationOfNothing, Show
  <2> QED BY <1>3, <2>1, <2>4, <2>5
<1>6. CASE HistoryBack \/ HistoryForward
  <2>1. PICK record \in Texts(Char) :
            view' = Replace(ClearCurrentBlock(view), Join(<< currentPrompt >>, record))
    <3>1. CASE HistoryBack
      <4>1. historyPos \in 1 .. Len(history)
        BY <1>1, <3>1 DEF HistoryBack
      <4>2. history[historyPos] \in Texts(Char)
        BY <1>1, <4>1, ElementOfSeq
      <4> QED BY <3>1, <4>2 DEF HistoryBack, Show
    <3>2. CASE HistoryForward
      <4>1. CASE historyPos = Len(history) - 1
        <5>1. Empty \in Texts(Char)
          BY NewLineText
        <5> QED BY <3>2, <4>1, <5>1 DEF HistoryForward, Show
      <4>2. CASE historyPos # Len(history) - 1
        <5>1. historyPos + 2 \in 1 .. Len(history)
          BY <1>1, <3>2, <4>2 DEF HistoryForward
        <5>2. history[historyPos + 2] \in Texts(Char)
          BY <1>1, <5>1, ElementOfSeq
        <5> QED BY <3>2, <4>2, <5>2 DEF HistoryForward, Show
      <4> QED BY <4>1, <4>2
    <3> QED BY <1>6, <3>1, <3>2
  <2>2. << currentPrompt >> \in Texts(Char)
    BY <1>1, Prompts
  <2>3. Join(<< currentPrompt >>, record) \in Texts(Char)
    BY <2>2, JoinedText
  <2> QED BY <1>1, <1>3, <2>1, <2>3, LineCleared
<1>7. CASE Left \/ Right
  <2>1. PICK p \in Positions(view.text) : view' = At(view.text, p)
    <3>1. CASE Left
      <4>1. view.pos.c > 0
        BY <1>1, <3>1, Prompts, PositionParts DEF Left, PromptLength, IsView
      <4> QED BY <1>1, <3>1, <4>1, LeftPosition DEF Left, Edit
    <3>2. CASE Right
      BY <1>1, <3>2, RightPosition DEF Right, Edit
    <3> QED BY <1>7, <3>1, <3>2
  <2>2. IsView(Char, view') /\ view'.text = view.text
    BY <1>1, <2>1, ViewAt DEF IsView
  <2> QED BY <1>4, <2>2
<1>8. ASSUME NEW t \in Texts(Char), Insert(t)
      PROVE  IsView(Char, view') /\ Kept
  <2>1. view' = Replace(view, t)
    BY <1>8 DEF Insert, Edit
  <2> QED BY <1>1, <1>3, <2>1, ReplacedView
<1>9. CASE (\E shift \in BOOLEAN : Backspace(shift)) \/ Delete
  <2>1. InLastBlock(view)
    BY <1>9 DEF Backspace, Delete
  <2>2. view.pos.b = Len(view.text) /\ view.pos.c > 0 /\ view.pos \in Positions(view.text)
    BY <1>1, <1>2, <2>1, PositionParts DEF IsView
  <2>3. ASSUME IsView(Char, view'), KeepsLines(view, view') PROVE IsView(Char, view') /\ Kept
    <3>1. Len(view'.text) \in Nat
      BY <2>3, TextLines DEF IsView
    <3> QED BY <1>1, <1>2, <2>1, <2>3, <3>1, KeptAround
  <2>4. CASE view' = Replace(view, Empty)
    BY <1>1, <1>3, <2>4, NewLineText, ReplacedView
  <2>5. CASE view' = Erase(LeftOf(view.pos), view.pos)
    <3>1. LeftOf(view.pos) \in Positions(view.text) /\ LeftOf(view.pos).b = Len(view.text)
      BY <1>1, <2>2, LeftPosition
    <3>2. IsView(Char, view') /\ KeepsLines(view, view')
      BY <1>1, <2>2, <2>5, <3>1, Erased
    <3> QED BY <2>3, <3>2
  <2>6. CASE view.pos # EndOf(view.text) /\ view' = Erase(view.pos, RightOf(view.pos))
    <3>1. RightOf(view.pos) \in Positions(view.text) /\ RightOf(view.pos).b = Len(view.text)
      BY <1>1, <2>2, <2>6, RightPosition
    <3>2. IsView(Char, view') /\ KeepsLines(view, view')
      BY <1>1, <2>2, <2>6, <3>1, Erased
    <3> QED BY <2>3, <3>2
  <2>7. \/ view' = Replace(view, Empty)
        \/ view' = Erase(LeftOf(view.pos), view.pos)
        \/ view.pos # EndOf(view.text) /\ view' = Erase(view.pos, RightOf(view.pos))
    BY <1>9 DEF Backspace, Delete, Edit
  <2> QED BY <2>4, <2>5, <2>6, <2>7
<1>10. ASSUME NEW p \in Positions(view.text), NEW q \in Positions(view.text), Click(p, q)
       PROVE  IsView(Char, view') /\ Kept
  <2>1. view' = [view EXCEPT !.pos = p, !.anchor = q]
    BY <1>10 DEF Click, Edit
  <2>2. view \in [text : Texts(Char), pos : Positions(view.text), anchor : Positions(view.text)]
    BY <1>1 DEF IsView
  <2>3. /\ view' \in [text : Texts(Char), pos : Positions(view.text), anchor : Positions(view.text)]
        /\ view'.text = view.text /\ view'.pos = p /\ view'.anchor = q
    BY <2>1, <2>2, Selected
  <2>4. IsView(Char, view')
    BY <1>1, <2>3 DEF IsView
  <2> QED BY <1>4, <2>3, <2>4
<1>11. CASE UserKey
  <2>1. \A k \in Keys : << <<k>> >> \in Texts(Char)
    <3> TAKE k \in Keys
    <3>1. k \in Char
      BY ConsoleAssumption
    <3>2. <<k>> \in Seq(Char)
      BY <3>1, OneElement
    <3> QED BY <3>2, OneLine
  <2>2. \A t \in Clips : t \in Texts(Char)
    BY ConsoleAssumption
  <2>3. CASE Copy
    BY <1>1, <1>4, <2>3 DEF Copy, vars
  <2> QED BY <1>5, <1>6, <1>7, <1>8, <1>9, <1>11, <2>1, <2>2, <2>3 DEF UserKey, TypeKey, Paste
<1>12. ASSUME NEW s \in Outputs, Output(s)
       PROVE  IsView(Char, view') /\ Kept
  <2> DEFINE shown == Replace(ClearCurrentBlock(view), s)
  <2>1. s \in Texts(Char)
    BY ConsoleAssumption
  <2>2. Follows(Char, view, shown)
    BY <1>1, <2>1, LineCleared
  <2>3. Follows(Char, shown, NewPrompt(shown, DefaultPrompt))
    BY <2>2, PromptShown DEF Follows
  <2>4. view' = NewPrompt(shown, DefaultPrompt)
    BY <1>12 DEF Output
  <2> HIDE DEF shown
  <2>5. Follows(Char, view, view')
    BY <1>1, <2>2, <2>3, <2>4, FollowsAll
  <2> QED BY <1>3, <2>5
<1>13. CASE ExtraInput
  <2> DEFINE clear == ClearCurrentBlock(view)
  <2>1. Follows(Char, view, clear)
    BY <1>1, NewLineText, LineCleared
  <2>2. Follows(Char, clear, InsertPrompt(clear, ExtraPrompt))
    BY <2>1, PromptShown DEF Follows
  <2>3. view' = InsertPrompt(clear, ExtraPrompt)
    BY <1>13 DEF ExtraInput
  <2> HIDE DEF clear
  <2>4. Follows(Char, view, view')
    BY <1>1, <2>1, <2>2, <2>3, FollowsAll
  <2> QED BY <1>3, <2>4
<1>14. CASE UNCHANGED view
  BY <1>1, <1>4, <1>14
<1>15. CASE (\E t \in Scripts : Execute(t)) \/ Crashed \/ UNCHANGED vars
  BY <1>14, <1>15 DEF Execute, Show, Crashed, vars
<1> QED
  BY <1>10, <1>11, <1>12, <1>13, <1>15 DEF Next, User, Receiver

LEMMA DocumentStart == Init => DInv
<1> SUFFICES ASSUME Init PROVE DInv
  OBVIOUS
<1> DEFINE t == << DefaultPrompt >>
           p == [b |-> 1, c |-> Len(DefaultPrompt)]
<1>1. t \in Texts(Char) /\ Len(t) = 1 /\ t[1] = DefaultPrompt /\ Len(DefaultPrompt) = 2
  BY Prompts, OneLine
<1>2. p \in Positions(t)
  <2>1. 1 \in 1 .. Len(t) /\ Len(DefaultPrompt) \in 0 .. Len(t[1])
    BY <1>1
  <2> QED BY <1>1, <2>1, PositionIn
<1> HIDE DEF t, p
<1>3. IsView(Char, view)
  BY <1>1, <1>2, ViewAt DEF Init, t, p
<1>4. Empty \in Texts(Char) /\ <<>> \in Seq(Texts(Char))
  BY NewLineText, EmptySeq
<1> QED BY <1>3, <1>4 DEF Init, DInv, TypeOK, IsView, NoRecord

(* What the steps write besides the view. *)
LEMMA DocumentStep == CInv /\ DInv /\ [Next]_vars => DInv'
<1> SUFFICES ASSUME CInv, DInv, [Next]_vars PROVE DInv'
  OBVIOUS
<1> DEFINE Rest == /\ currentPrompt \in {DefaultPrompt, ExtraPrompt}
                   /\ isExtra \in BOOLEAN
                   /\ history \in Seq(Texts(Char))
                   /\ historyPos \in Nat
                   /\ pc \in {"idle", "command", "asked", "crashed"}
                   /\ pending \in Texts(Char)
                   /\ sender \in {"nobody", "console", "script"}
                   /\ partial \in [by : {"nobody", "console", "script"}, text : Texts(Char)]
<1>1. Rest /\ IsView(Char, view) /\ Len(history) \in Nat
  BY LenProperties DEF DInv, TypeOK
<1>2. IsView(Char, view')
  BY ViewStep
<1> SUFFICES Rest'
  BY <1>2 DEF DInv, TypeOK, IsView
<1>3. ASSUME UNCHANGED <<currentPrompt, historyVars, callVars>> PROVE Rest'
  BY <1>1, <1>3 DEF historyVars, callVars
<1>4. /\ ToLineEnd(view).text = view.text
      /\ SubmittedText(view.text) \in Texts(Char)
  BY <1>1, LineEndReached, SubmittedIsText DEF IsView
<1>5. CASE EnterCommand
  <2> DEFINE cmd == SubmittedText(view.text)
  <2>1. /\ history' = HistoryAdd(history, cmd) /\ historyPos' = Len(history')
        /\ pc' = "command" /\ pending' = cmd /\ sender' = "console"
        /\ UNCHANGED <<currentPrompt, isExtra, partial>>
    BY <1>4, <1>5 DEF EnterCommand, Emit
  <2> HIDE DEF cmd
  <2>2. cmd \in Texts(Char)
    BY <1>4 DEF cmd
  <2>3. HistoryAdd(history, cmd) \in Seq(Texts(Char))
    <3>1. CASE Len(history) < HistoryCount
      BY <1>1, <2>2, <3>1, AppendProperties DEF HistoryAdd
    <3>2. CASE ~ (Len(history) < HistoryCount)
      <4>1. Len(history) # 0
        <5>1. HistoryCount \in Nat \ {0}
          BY ConsoleAssumption
        <5> QED BY <1>1, <3>2, <5>1
      <4>2. history # <<>>
        BY <4>1, EmptySeq
      <4>3. Tail(history) \in Seq(Texts(Char))
        BY <1>1, <4>2, HeadTailProperties
      <4> QED BY <2>2, <3>2, <4>3, AppendProperties DEF HistoryAdd
    <3> QED BY <3>1, <3>2
  <2>4. Len(history') \in Nat
    BY <2>1, <2>3, LenProperties
  <2> QED BY <1>1, <2>1, <2>2, <2>3, <2>4
<1>6. CASE EnterContinuation
  <2> DEFINE cmd == Join(LastRecord, SubmittedText(view.text))
  <2>1. /\ history' = [history EXCEPT ![Len(history)] = cmd]
        /\ pc' = "command" /\ pending' = cmd /\ sender' = "console" /\ isExtra' = FALSE
        /\ UNCHANGED <<currentPrompt, historyPos, partial>>
        /\ history # <<>>
    BY <1>4, <1>6 DEF EnterContinuation, Emit
  <2>2. Len(history) \in 1 .. Len(history)
    BY <1>1, <2>1, EmptySeq
  <2>3. LastRecord \in Texts(Char)
    BY <1>1, <2>2, ElementOfSeq DEF LastRecord
  <2>4. cmd \in Texts(Char)
    BY <1>4, <2>3, JoinedText
  <2> HIDE DEF cmd
  <2>5. history' \in Seq(Texts(Char))
    BY <1>1, <2>1, <2>2, <2>4, ExceptSeq
  <2> QED BY <1>1, <2>1, <2>4, <2>5
<1>7. CASE EnterContinuationOfNothing
  BY <1>1, <1>7 DEF EnterContinuationOfNothing
<1>8. CASE HistoryBack
  BY <1>1, <1>8 DEF HistoryBack, callVars
<1>9. CASE HistoryForward
  BY <1>1, <1>9 DEF HistoryForward, callVars
<1>10. ASSUME NEW t \in Scripts, Execute(t) PROVE Rest'
  <2>1. t \in Texts(Char)
    BY ConsoleAssumption
  <2> QED BY <1>1, <1>10, <2>1 DEF Execute, Emit, historyVars
<1>11. CASE ExtraInput
  BY <1>1, <1>11 DEF ExtraInput
<1>12. ASSUME NEW s \in Outputs, Output(s) PROVE Rest'
  <2>1. Empty \in Texts(Char)
    BY NewLineText
  <2> QED BY <1>1, <1>12, <2>1 DEF Output, historyVars
<1>13. ASSUME NEW v, Edit(v) PROVE Rest'
  BY <1>3, <1>13 DEF Edit
<1> HIDE DEF Rest
<1>14. CASE UserKey
  <2>1. CASE Left \/ Right \/ Delete \/ (\E k \in Keys : TypeKey(k)) \/ (\E t \in Clips : Paste(t))
               \/ (\E shift \in BOOLEAN : Backspace(shift))
    <3>1. \E v : Edit(v)
      BY <2>1 DEF Left, Right, Delete, TypeKey, Paste, Insert, Backspace
    <3> QED BY <3>1, <1>13
  <2>2. CASE Copy \/ EnterEmpty
    BY <1>3, <2>2 DEF Copy, EnterEmpty, vars, historyVars, callVars
  <2> QED BY <1>5, <1>6, <1>7, <1>8, <1>9, <1>14, <2>1, <2>2 DEF UserKey, Enter
<1>15. CASE UNCHANGED vars
  BY <1>3, <1>15 DEF vars, historyVars, callVars
<1>16. ASSUME NEW p, NEW q, Click(p, q) PROVE Rest'
  BY <1>13, <1>16 DEF Click
<1> QED
  BY <1>10, <1>11, <1>12, <1>14, <1>15, <1>16 DEF Next, User, Receiver, Crashed

LEMMA DInvHolds == Spec => []DInv
<1>1. Init => DInv
  BY DocumentStart
<1>2. CInv /\ DInv /\ [Next]_vars => DInv'
  BY DocumentStep
<1> QED BY <1>1, <1>2, CInvHolds, PTL DEF Spec

(* The document stays a text of its characters with the cursor inside it,   *)
(* and every command and record is a text, for any keys, clips and outputs. *)
THEOREM ConsoleTypeCorrect == Spec => []TypeOK
<1>1. DInv => TypeOK
  BY DEF DInv
<1> QED BY <1>1, DInvHolds, PTL

(* Nothing done in the input line changes the transcript above it. *)
THEOREM TranscriptStands == Spec => TranscriptImmutable
<1>1. CInv /\ DInv /\ [Next]_vars =>
        [InLastBlock(view) =>
            /\ Len(view'.text) >= Len(view.text)
            /\ \A i \in 1 .. Len(view.text) - 1 : view'.text[i] = view.text[i]]_vars
  BY ViewStep DEF KeepsLines
<1> QED BY <1>1, CInvHolds, DInvHolds, PTL DEF Spec, TranscriptImmutable

(* Wherever the cursor and its selection are, a step erases, inserts and    *)
(* replaces between the lines that neither touches.                         *)
THEOREM SelectionBounds == Spec => UntouchedLinesStay
<1>1. CInv /\ DInv /\ [Next]_vars =>
        [LET m == Len(view.text)  n == Len(view'.text)
         IN  /\ \A i \in 1 .. SelectionStart(view).b - 1 :
                   i <= n /\ view'.text[i] = view.text[i]
             /\ \A k \in 0 .. m - SelectionEnd(view).b - 1 :
                   k < n /\ view'.text[n - k] = view.text[m - k]]_vars
  BY ViewStep DEF StaysAround
<1> QED BY <1>1, CInvHolds, DInvHolds, PTL DEF Spec, UntouchedLinesStay

(* TextEditable is only set while the whole selection is behind the prompt: *)
(* what is typed, pasted or erased over it never reaches the transcript.    *)
THEOREM TypingIsInInput == Spec => TypingStaysInInput
<1>1. ErasingOrTyping => InLastBlock(view)
  BY DEF ErasingOrTyping, Delete, Backspace, TypeKey, Paste, Insert
<1>2. CInv /\ DInv /\ [Next]_vars =>
        [ErasingOrTyping =>
            /\ Len(view'.text) >= Len(view.text)
            /\ \A i \in 1 .. Len(view.text) - 1 : view'.text[i] = view.text[i]]_vars
  BY <1>1, ViewStep DEF KeepsLines
<1> QED BY <1>2, CInvHolds, DInvHolds, PTL DEF Spec, TypingStaysInInput

-------------------------------------------------------------------------------
(* A prompt on an empty last line, and one on a line of its own behind the  *)
(* end of a document or behind a selection that reaches up to it.           *)
LEMMA PromptAtEnd ==
    ASSUME NEW t \in Texts(Char), LastLine(t) = <<>>, NEW prompt \in {DefaultPrompt, ExtraPrompt}
    PROVE  LET w == InsertPrompt(At(t, EndOf(t)), prompt)
           IN  /\ w.text \in Texts(Char) /\ w = At(w.text, EndOf(w.text))
               /\ Len(w.text) = Len(t) /\ LastLine(w.text) = prompt
               /\ \A i \in 1 .. Len(t) - 1 : w.text[i] = t[i]
<1> DEFINE u == Join(t, << prompt >>)
<1>1. /\ prompt \in Seq(Char) /\ << prompt >> \in Texts(Char) /\ Len(<< prompt >>) = 1
      /\ << prompt >>[1] = prompt /\ Len(t) \in Nat
  BY Prompts, OneLine, TextLines
<1>2. /\ u \in Texts(Char) /\ Len(u) = Len(t) + Len(<< prompt >>) - 1
      /\ \A i \in 1 .. Len(t) - 1 : u[i] = t[i]
      /\ u[Len(t)] = t[Len(t)] \o << prompt >>[1]
  BY <1>1, JoinedText
<1>3. InsertPrompt(At(t, EndOf(t)), prompt) = At(u, EndOf(u))
  BY <1>1, AppendedAtEnd DEF InsertPrompt
<1> HIDE DEF u
<1>4. Len(u) = Len(t) /\ u[Len(u)] = prompt
  <2>1. <<>> \o prompt = prompt
    BY <1>1, ConcatEmptySeq
  <2>2. Len(t) + 1 - 1 = Len(t)
    BY <1>1
  <2> QED BY <1>1, <1>2, <2>1, <2>2 DEF LastLine
<1> QED BY <1>2, <1>3, <1>4 DEF At, LastLine

LEMMA FreshPrompt ==
    ASSUME NEW v, IsView(Char, v), SelectionEnd(v) = EndOf(v.text),
           NEW prompt \in {DefaultPrompt, ExtraPrompt}
    PROVE  LET w == NewPrompt(v, prompt)
               front == TextUpTo(v.text, SelectionStart(v))
           IN  /\ w.text \in Texts(Char) /\ w = At(w.text, EndOf(w.text))
               /\ Len(w.text) = Len(front) + 1 /\ LastLine(w.text) = prompt
               /\ \A i \in 1 .. Len(front) : w.text[i] = front[i]
<1> DEFINE front == TextUpTo(v.text, SelectionStart(v))
           t == Join(front, NewLine)
           w == InsertPrompt(At(t, EndOf(t)), prompt)
<1>1. /\ NewLine \in Texts(Char) /\ Len(NewLine) = 2
      /\ NewLine[1] = <<>> /\ NewLine[2] = <<>>
  BY NewLineText
<1>2. front \in Texts(Char)
  BY SelectionIn, TextInFront DEF IsView
<1>3. t \in Texts(Char) /\ Replace(v, NewLine) = At(t, EndOf(t))
  BY <1>1, ReplacedUpToEnd
<1> HIDE DEF front
<1>4. Len(front) \in Nat \ {0} /\ front[Len(front)] \in Seq(Char)
  BY <1>2, TextLines
<1>5. /\ Len(t) = Len(front) + Len(NewLine) - 1
      /\ \A i \in 1 .. Len(front) - 1 : t[i] = front[i]
      /\ t[Len(front)] = front[Len(front)] \o NewLine[1]
      /\ \A i \in 2 .. Len(NewLine) : t[Len(front) + i - 1] = NewLine[i]
  <2>1. \A u \in Texts(Char) :
            /\ Len(Join(front, u)) = Len(front) + Len(u) - 1
            /\ \A i \in 1 .. Len(front) - 1 : Join(front, u)[i] = front[i]
            /\ Join(front, u)[Len(front)] = front[Len(front)] \o u[1]
            /\ \A i \in 2 .. Len(u) : Join(front, u)[Len(front) + i - 1] = u[i]
    BY <1>2, JoinedText, Zenon
  <2> QED BY <1>1, <2>1, Zenon
<1> HIDE DEF t
<1>6. Len(t) = Len(front) + 1 /\ LastLine(t) = <<>> /\ \A i \in 1 .. Len(front) : t[i] = front[i]
  <2>1. Len(t) = Len(front) + 1
    BY <1>1, <1>4, <1>5
  <2>2. LastLine(t) = <<>>
    <3>1. 2 \in 2 .. Len(NewLine) /\ Len(t) = Len(front) + 2 - 1
      BY <1>1, <1>4, <1>5
    <3> QED BY <1>1, <1>5, <3>1 DEF LastLine
  <2>3. t[Len(front)] = front[Len(front)]
    BY <1>1, <1>4, <1>5, ConcatEmptySeq
  <2>4. \A i \in 1 .. Len(front) : i = Len(front) \/ i \in 1 .. Len(front) - 1
    BY <1>4
  <2> QED BY <1>5, <2>1, <2>2, <2>3, <2>4
<1>7. /\ w.text \in Texts(Char) /\ w = At(w.text, EndOf(w.text))
      /\ Len(w.text) = Len(t) /\ LastLine(w.text) = prompt
      /\ \A i \in 1 .. Len(t) - 1 : w.text[i] = t[i]
  BY <1>3, <1>6, PromptAtEnd, Zenon
<1>8. NewPrompt(v, prompt) = w
  BY <1>3 DEF NewPrompt
<1> HIDE DEF w
<1>9. \A i \in 1 .. Len(front) : i \in 1 .. Len(t) - 1
  BY <1>4, <1>6
<1> QED BY <1>6, <1>7, <1>8, <1>9 DEF front

(* An answer in the last line takes that line's place.                      *)
LEMMA Answered ==
    ASSUME NEW v, IsView(Char, v), OnLastLine(v), NEW s \in Texts(Char)
    PROVE  LET w == NewPrompt(Replace(ClearCurrentBlock(v), s), DefaultPrompt)
               n == Len(v.text)
           IN  /\ w = At(w.text, EndOf(w.text)) /\ LastLine(w.text) = DefaultPrompt
               /\ Len(w.text) = n + Len(s)
               /\ \A i \in 1 .. n - 1 : w.text[i] = v.text[i]
               /\ \A i \in 1 .. Len(s) : w.text[n - 1 + i] = s[i]
<1> DEFINE clear == ClearCurrentBlock(v)
           c == clear.text
           t == Join(c, s)
           n == Len(v.text)
           w == NewPrompt(At(t, EndOf(t)), DefaultPrompt)
<1>1. /\ n \in Nat \ {0} /\ Len(s) \in Nat \ {0} /\ s[1] \in Seq(Char)
      /\ v.text \in Seq(Seq(Char)) /\ v.pos.b \in 1 .. Len(v.text) /\ <<>> \in Seq(Char)
  BY TextLines, PositionParts, EmptySeq DEF IsView
<1>2. /\ c \in Texts(Char) /\ clear = At(c, EndOf(c)) /\ LastLine(c) = <<>>
      /\ \A i \in 1 .. n - 1 : c[i] = v.text[i]
  BY ErasedLine DEF ClearCurrentBlock, Follows, IsView, KeepsLines
<1>3. Len(c) = n
  <2>1. c = [v.text EXCEPT ![v.pos.b] = <<>>]
    BY DEF ClearCurrentBlock, EraseBlock
  <2> QED BY <1>1, <2>1, ExceptSeq
<1> HIDE DEF clear, c, n
<1>4. /\ t \in Texts(Char) /\ Len(t) = Len(c) + Len(s) - 1
      /\ \A i \in 1 .. Len(c) - 1 : t[i] = c[i]
      /\ t[Len(c)] = c[Len(c)] \o s[1]
      /\ \A i \in 2 .. Len(s) : t[Len(c) + i - 1] = s[i]
  <2>1. c \in Texts(Char) /\ s \in Texts(Char)
    BY <1>2
  <2> QED BY <2>1, JoinedText, Zenon
<1>5. Replace(clear, s) = At(t, EndOf(t))
  BY <1>2, AppendedAtEnd
<1> HIDE DEF t
<1>6. t[n] = s[1]
  BY <1>1, <1>2, <1>3, <1>4, ConcatEmptySeq DEF LastLine
<1>7. ASSUME NEW i \in 1 .. Len(s) PROVE t[n - 1 + i] = s[i]
  <2>1. CASE i = 1
    BY <1>1, <1>6, <2>1
  <2>2. CASE i # 1
    <3>1. i \in 2 .. Len(s) /\ n - 1 + i = n + i - 1
      BY <1>1, <2>2
    <3> QED BY <1>3, <1>4, <3>1
  <2> QED BY <2>1, <2>2
<1>8. /\ w = At(w.text, EndOf(w.text)) /\ LastLine(w.text) = DefaultPrompt
      /\ Len(w.text) = Len(t) + 1 /\ \A i \in 1 .. Len(t) : w.text[i] = t[i]
  <2> DEFINE u == At(t, EndOf(t))
  <2>1. /\ IsView(Char, u) /\ u.text = t
        /\ SelectionStart(u) = EndOf(t) /\ SelectionEnd(u) = EndOf(t)
    BY <1>4, EndPosition, ViewAt
  <2>2. TextUpTo(t, EndOf(t)) = t
    BY <1>4, UpToEnd
  <2> HIDE DEF u
  <2>3. w = NewPrompt(u, DefaultPrompt)
    BY DEF u
  <2> HIDE DEF w
  <2> QED BY <2>1, <2>2, <2>3, FreshPrompt
<1>9. NewPrompt(Replace(clear, s), DefaultPrompt) = w
  BY <1>5
<1> HIDE DEF w
<1>10. /\ Len(w.text) = n + Len(s)
       /\ \A i \in 1 .. n - 1 : i \in 1 .. Len(t) /\ i \in 1 .. Len(c) - 1
       /\ \A i \in 1 .. Len(s) : n - 1 + i \in 1 .. Len(t)
  BY <1>1, <1>3, <1>4, <1>8
<1>11. \A i \in 1 .. n - 1 : w.text[i] = v.text[i]
  BY <1>2, <1>4, <1>8, <1>10
<1>12. \A i \in 1 .. Len(s) : w.text[n - 1 + i] = s[i]
  BY <1>7, <1>8, <1>10
<1> QED BY <1>8, <1>9, <1>10, <1>11, <1>12 DEF clear, n

(* Console::output(s): the transcript, the lines of s, a fresh prompt, and  *)
(* the cursor behind it.                                                    *)
Answer(s) ==
    LET n == Len(view.text)
    IN  /\ Len(view'.text) = n + Len(s)
        /\ \A i \in 1 .. n - 1 : view'.text[i] = view.text[i]
        /\ \A i \in 1 .. Len(s) : view'.text[n - 1 + i] = s[i]
        /\ LastLine(view'.text) = DefaultPrompt
        /\ view' = At(view'.text, EndOf(view'.text))

LEMMA OutputAnswers ==
    ASSUME DInv, NEW s \in Outputs, Output(s), InLastBlock(view)
    PROVE  Answer(s)
<1>1. IsView(Char, view) /\ OnLastLine(view) /\ s \in Texts(Char)
  BY ConsoleAssumption DEF DInv, InLastBlock, OnLastLine
<1>2. view' = NewPrompt(Replace(ClearCurrentBlock(view), s), DefaultPrompt)
  BY DEF Output
<1> QED BY <1>1, <1>2, Answered DEF Answer

(* A finished command leaves a fresh prompt with the cursor behind it. *)
THEOREM OutputIsPrompted == Spec => OutputEndsAtPrompt
<1>1. ASSUME DInv, [Next]_vars, pc \in {"command", "asked"}, pc' = "idle", InLastBlock(view)
      PROVE  LastLine(view'.text) = DefaultPrompt /\ view' = At(view'.text, EndOf(view'.text))
  <2>1. PICK s \in Outputs : Output(s)
    BY <1>1 DEF Next, User, UserKey, Enter, EnterEmpty, EnterCommand, EnterContinuation,
                EnterContinuationOfNothing, HistoryBack, HistoryForward, Left, Right, Delete, Copy,
                TypeKey, Paste, Insert, Backspace, Click, Edit, Execute, Receiver, ExtraInput,
                Crashed, vars
  <2> QED BY <1>1, <2>1, OutputAnswers DEF Answer
<1>2. DInv /\ [Next]_vars =>
        [/\ pc \in {"command", "asked"} /\ pc' = "idle"
         /\ InLastBlock(view)
         => /\ LastLine(view'.text) = DefaultPrompt
            /\ view' = At(view'.text, EndOf(view'.text))]_vars
  BY <1>1
<1> QED BY <1>2, DInvHolds, PTL DEF Spec, OutputEndsAtPrompt


(* The output of a command stands line by line below the transcript, with   *)
(* nothing else between it and the fresh prompt.                            *)
THEOREM OutputIsShown ==
    Spec => [][\A s \in Outputs : Output(s) /\ InLastBlock(view) => Answer(s)]_vars
<1>1. DInv => [\A s \in Outputs : Output(s) /\ InLastBlock(view) => Answer(s)]_vars
  BY OutputAnswers
<1> QED BY <1>1, DInvHolds, PTL DEF Spec

(* Behind a prompt at the end of the document the cursor is in the input    *)
(* line; onEnter gets there from wherever in that line the cursor was.      *)
LEMMA BehindPrompt ==
    ASSUME view'.text \in Texts(Char), view' = At(view'.text, EndOf(view'.text)),
           LastLine(view'.text) = currentPrompt', currentPrompt' \in {DefaultPrompt, ExtraPrompt}
    PROVE  InLastBlock(view)'
<1>1. /\ SelectionStart(view') = EndOf(view'.text) /\ view'.pos = EndOf(view'.text)
      /\ EndOf(view'.text).b = Len(view'.text) /\ EndOf(view'.text).c = Len(currentPrompt')
  BY ViewAt, EndPosition DEF LastLine
<1>2. Len(currentPrompt') \in Nat
  BY Prompts
<1> QED BY <1>1, <1>2 DEF InLastBlock, PromptLength

LEMMA LineEndSelected ==
    ASSUME NEW v, IsView(Char, v), OnLastLine(v)
    PROVE  IsView(Char, ToLineEnd(v)) /\ SelectionEnd(ToLineEnd(v)) = EndOf(ToLineEnd(v).text)
<1> DEFINE n == Len(v.text)
           e == [b |-> v.pos.b, c |-> Len(v.text[v.pos.b])]
<1>1. IsView(Char, ToLineEnd(v)) /\ ToLineEnd(v).text = v.text
  BY LineEndReached DEF Follows
<1>2. /\ v.text \in Texts(Char) /\ v.pos.b = n /\ v.anchor.b = n /\ n \in Nat
      /\ v.pos = [b |-> n, c |-> v.pos.c] /\ v.anchor = [b |-> n, c |-> v.anchor.c]
      /\ v.pos.c \in 0 .. Len(v.text[n]) /\ v.anchor.c \in 0 .. Len(v.text[n])
      /\ Len(v.text[n]) \in Nat
  <2>1. v.text \in Texts(Char) /\ v.pos \in Positions(v.text) /\ v.anchor \in Positions(v.text)
    BY DEF IsView
  <2>2. v.pos.b = n /\ v.anchor.b = n
    BY OnLastLineParts
  <2> HIDE DEF n
  <2> QED BY <2>1, <2>2, TextLines, PositionParts DEF n
<1>3. e = EndOf(v.text)
  BY <1>2 DEF EndOf, LastLine
<1>4. CASE v.pos.c = Len(Line(v))
  <2>1. ToLineEnd(v) = v /\ v.pos.c = Len(v.text[n])
    BY <1>2, <1>4 DEF ToLineEnd, Line
  <2>2. Before(v.pos, v.anchor) => v.anchor.c = v.pos.c
    BY <1>2, <2>1 DEF Before
  <2>3. SelectionEnd(v) = v.pos /\ v.pos = e
    BY <1>2, <2>1, <2>2 DEF SelectionEnd
  <2> QED BY <1>1, <1>3, <2>1, <2>3
<1>5. CASE v.pos.c # Len(Line(v))
  <2>1. ToLineEnd(v) = At(v.text, e)
    BY <1>5 DEF ToLineEnd, Line
  <2>2. SelectionEnd(At(v.text, e)) = e
    BY <1>2, <1>3, EndPosition, ViewAt
  <2> QED BY <1>1, <1>3, <2>1, <2>2
<1> QED BY <1>4, <1>5

(* A command that was sent from the input line leaves the cursor in the one *)
(* below it, and so does the request for more: the answer comes below the   *)
(* command, and nothing of the transcript is in its way.                    *)
LEMMA SentFromInputLine ==
    ASSUME DInv, [Next]_vars, InLastBlock(view), pc' \in {"command", "asked"}
    PROVE  InLastBlock(view)'
<1>1. IsView(Char, view) /\ OnLastLine(view) /\ currentPrompt \in {DefaultPrompt, ExtraPrompt}
  BY DEF DInv, TypeOK, InLastBlock, OnLastLine
<1>2. CASE EnterCommand \/ EnterContinuation
  <2>1. view' = NewPrompt(ToLineEnd(view), currentPrompt) /\ currentPrompt' = currentPrompt
    BY <1>2 DEF EnterCommand, EnterContinuation, Show
  <2>2. /\ view'.text \in Texts(Char) /\ view' = At(view'.text, EndOf(view'.text))
        /\ LastLine(view'.text) = currentPrompt
    BY <1>1, <2>1, LineEndSelected, FreshPrompt
  <2> QED BY <1>1, <2>1, <2>2, BehindPrompt
<1>3. CASE ExtraInput
  <2> DEFINE clear == ClearCurrentBlock(view)
  <2>1. view' = InsertPrompt(clear, ExtraPrompt) /\ currentPrompt' = ExtraPrompt
    BY <1>3 DEF ExtraInput
  <2>2. /\ clear.text \in Texts(Char) /\ LastLine(clear.text) = <<>>
        /\ clear = At(clear.text, EndOf(clear.text))
    BY <1>1, ErasedLine DEF ClearCurrentBlock, Follows, IsView
  <2> HIDE DEF clear
  <2>3. /\ view'.text \in Texts(Char) /\ view' = At(view'.text, EndOf(view'.text))
        /\ LastLine(view'.text) = ExtraPrompt
    BY <2>1, <2>2, PromptAtEnd
  <2> QED BY <2>1, <2>3, BehindPrompt
<1>4. CASE UNCHANGED <<view, currentPrompt>>
  BY <1>4 DEF InLastBlock, PromptLength
<1>5. ASSUME NEW v, Edit(v) PROVE FALSE
  BY <1>5 DEF Edit, callVars
<1>6. CASE UserKey
  <2>1. CASE Left \/ Right \/ Delete \/ (\E k \in Keys : TypeKey(k)) \/ (\E t \in Clips : Paste(t))
               \/ (\E shift \in BOOLEAN : Backspace(shift))
    BY <1>5, <2>1 DEF Left, Right, Delete, TypeKey, Paste, Insert, Backspace
  <2>2. CASE EnterEmpty \/ EnterContinuationOfNothing \/ HistoryBack \/ HistoryForward
    BY <2>2 DEF EnterEmpty, EnterContinuationOfNothing, HistoryBack, HistoryForward, callVars
  <2>3. CASE Copy
    BY <1>4, <2>3 DEF Copy, vars
  <2> QED BY <1>2, <1>6, <2>1, <2>2, <2>3 DEF UserKey, Enter
<1>7. ASSUME NEW p, NEW q, Click(p, q) PROVE FALSE
  BY <1>5, <1>7 DEF Click
<1>8. ASSUME NEW t, Execute(t) PROVE InLastBlock(view)'
  BY <1>4, <1>8 DEF Execute, Show
<1>9. ASSUME NEW s, Output(s) PROVE FALSE
  BY <1>9 DEF Output
<1>10. CASE Crashed \/ UNCHANGED vars
  BY <1>4, <1>10 DEF Crashed, vars
<1> QED BY <1>3, <1>6, <1>7, <1>8, <1>9, <1>10 DEF Next, User, Receiver

THEOREM AnswerComesBelow ==
    Spec => [][InLastBlock(view) /\ pc' \in {"command", "asked"} => InLastBlock(view)']_vars
<1>1. DInv /\ [Next]_vars =>
        [InLastBlock(view) /\ pc' \in {"command", "asked"} => InLastBlock(view)']_vars
  BY SentFromInputLine
<1> QED BY <1>1, DInvHolds, PTL DEF Spec

(* What stands behind the only prompt of the last line is what onEnter's    *)
(* lastIndexOf finds there.                                                 *)
LEMMA SubmittedIsInput ==
    ASSUME NEW t \in Texts(Char), currentPrompt \in {DefaultPrompt, ExtraPrompt},
           {p \in Occurrences(t, currentPrompt) : p.b = Len(t)}
               = {[b |-> Len(t), c |-> PromptLength]}
    PROVE  SubmittedText(t) = << SubSeq(LastLine(t), PromptLength + 1, Len(LastLine(t))) >>
<1> DEFINE ends == Occurrences(t, currentPrompt)
           p0 == [b |-> Len(t), c |-> PromptLength]
           last == CHOOSE p \in ends : \A q \in ends : Before(q, p)
<1>1. /\ p0 \in ends /\ p0.b = Len(t) /\ p0.c = PromptLength /\ PromptLength = 2
      /\ \A q \in ends : q.b = Len(t) => q = p0
      /\ ends \in SUBSET Positions(t)
  BY Prompts DEF Occurrences, PromptLength
<1> HIDE DEF p0
<1>2. Len(t) \in Nat /\ \A q \in ends : q.b \in 1 .. Len(t)
  BY <1>1, TextLines, PositionParts
<1>3. \A q \in ends : Before(q, p0)
  BY <1>1, <1>2 DEF Before
<1>4. \A p \in ends : (\A q \in ends : Before(q, p)) => p = p0
  BY <1>1, <1>2 DEF Before
<1>5. last = p0
  BY <1>1, <1>3, <1>4
<1>6. SubmittedText(t) = TextFrom(t, p0)
  BY <1>1, <1>5 DEF SubmittedText
<1>7. TextFrom(t, p0) = << SubSeq(t[Len(t)], p0.c + 1, Len(t[Len(t)])) >>
  BY <1>1, FromEnd
<1> QED BY <1>1, <1>6, <1>7 DEF LastLine

(* What is emitted is what was typed, behind the record it continues. *)
THEOREM CommandIsTyped == Spec => CommandIsInput
<1> DEFINE Sent == /\ pc = "idle" /\ pc' = "command" /\ sender' = "console"
                   /\ InLastBlock(view)
                   /\ {p \in Occurrences(view.text, currentPrompt) : p.b = Len(view.text)}
                         = {[b |-> Len(view.text), c |-> PromptLength]}
           input == << SubSeq(LastLine(view.text), PromptLength + 1, Len(LastLine(view.text))) >>
<1>1. ASSUME DInv, [Next]_vars, Sent
      PROVE  pending' = IF isExtra THEN Join(LastRecord, input) ELSE input
  <2>1. view.text \in Texts(Char) /\ currentPrompt \in {DefaultPrompt, ExtraPrompt} /\ IsView(Char, view)
    BY <1>1 DEF DInv, TypeOK
  <2>2. SubmittedText(ToLineEnd(view).text) = input
    <3>1. ToLineEnd(view).text = view.text
      BY <2>1, LineEndReached
    <3> QED BY <1>1, <2>1, <3>1, SubmittedIsInput
  <2>3. EnterCommand \/ EnterContinuation
    BY <1>1 DEF Next, User, UserKey, Enter, EnterEmpty, EnterContinuationOfNothing, callVars, Emit,
                HistoryBack, HistoryForward, Left, Right, Delete, Copy, TypeKey, Paste, Insert,
                Backspace, Click, Edit, Execute, Receiver, ExtraInput, Output, Crashed, vars
  <2> HIDE DEF input
  <2>4. CASE EnterCommand
    BY <2>2, <2>4 DEF EnterCommand, Emit
  <2>5. CASE EnterContinuation
    BY <2>2, <2>5 DEF EnterContinuation, Emit
  <2> QED BY <2>3, <2>4, <2>5
<1>2. DInv /\ [Next]_vars =>
        [Sent => pending' = IF isExtra THEN Join(LastRecord, input) ELSE input]_vars
  BY <1>1
<1> QED BY <1>2, DInvHolds, PTL DEF Spec, CommandIsInput
===============================================================================
