----------------------------- MODULE RSession_proofs -----------------------------
(* Theorems about MainWindow's handlers and RConsole::execute. *)
EXTENDS RSession, SequenceTheorems, FiniteSetTheorems, TLAPS

(* execute runs only for a handler that called it; m_lastOutput names a message that is    *)
(* still in the buffer, which is why dropping its repetition loses nothing. *)
Resting == task \notin {"command", "plot"} => call = "none"
LastOutputIsBuffered ==
    lastOutput # NoMessage => \E i \in DOMAIN outputBuf : outputBuf[i].text = lastOutput

(* The buffer is what the service owes the console: every message said, in  *)
(* order, but for the errors that repeat R.  It stays so because            *)
(* m_lastOutput is the text R wrote last.                                   *)
BufferIsOwed == Promised!IsBatch(outputBuf, said)
LastWrite(s, i) == s[i].kind = "write" /\ \A k \in i + 1 .. Len(s) : s[k].kind # "write"
LastOutputIsLastWrite ==
    /\ lastOutput = NoMessage => \A i \in DOMAIN said : said[i].kind # "write"
    /\ lastOutput # NoMessage =>
          \E i \in DOMAIN said : LastWrite(said, i) /\ said[i].text = lastOutput

(* The value being printed belongs to an expression that is still counted.  *)
PrintsAnExpression == call = "printing" => left > 0

RInv == RTypeOK /\ PrintsAnExpression /\ ProtectBalanced /\ OneReport

SInv ==
    /\ RInv /\ STypeOK /\ Resting /\ LastOutputIsBuffered
    /\ NothingOfACommandWaits /\ PlotOutputFirst
    /\ BufferIsOwed /\ LastOutputIsLastWrite

(* Appending to a buffer keeps the entries it has and adds the new one. *)
LEMMA AppendedEntry ==
    ASSUME NEW S, NEW s \in Seq(S), NEW e \in S
    PROVE  /\ Append(s, e) \in Seq(S)
           /\ DOMAIN Append(s, e) = DOMAIN s \cup {Len(s) + 1}
           /\ \A i \in DOMAIN s : Append(s, e)[i] = s[i]
           /\ Append(s, e)[Len(s) + 1] = e
  OBVIOUS

(* A message makes no other one a repetition, and repeats one itself if it  *)
(* is an error with the text of the last output.                            *)
LEMMA RepeatsAppended ==
    ASSUME NEW s \in Seq(Entries), NEW e \in Entries
    PROVE  /\ \A i \in 1 .. Len(s) : Promised!Repeats(Append(s, e), i) <=> Promised!Repeats(s, i)
           /\ Promised!Repeats(Append(s, e), Len(s) + 1) <=>
                 /\ e.kind = "error"
                 /\ \E j \in 1 .. Len(s) : LastWrite(s, j) /\ s[j].text = e.text
<1> DEFINE t == Append(s, e)
<1>1. Len(s) \in Nat /\ DOMAIN s = 1 .. Len(s)
  BY LenProperties
<1>2. (\A i \in 1 .. Len(s) : t[i] = s[i]) /\ t[Len(s) + 1] = e
  BY <1>1, AppendedEntry
<1> HIDE DEF t
<1>3. ASSUME NEW i \in 1 .. Len(s) PROVE Promised!Repeats(t, i) <=> Promised!Repeats(s, i)
  <2>1. \A j \in 1 .. i - 1 : j \in 1 .. Len(s) /\ \A k \in j + 1 .. i - 1 : k \in 1 .. Len(s)
    BY <1>1
  <2> QED BY <1>2, <2>1 DEF Promised!Repeats
<1>4. Promised!Repeats(t, Len(s) + 1) <=>
        e.kind = "error" /\ \E j \in 1 .. Len(s) : LastWrite(s, j) /\ s[j].text = e.text
  <2>1. Len(s) + 1 - 1 = Len(s)
    BY <1>1
  <2>2. \A j \in 1 .. Len(s) : \A k \in j + 1 .. Len(s) : k \in 1 .. Len(s)
    BY <1>1
  <2> QED BY <1>2, <2>1, <2>2 DEF Promised!Repeats, LastWrite
<1> QED BY <1>3, <1>4 DEF t

(* The cardinality of CommandService is that of the library's theorems.     *)
LEMMA SameCardinality == \A S : Promised!Cardinality(S) = Cardinality(S)
BY DEF Promised!Cardinality, Cardinality

(* A batch grows by the message said, unless that is a repetition.          *)
LEMMA BatchAppended ==
    ASSUME NEW s \in Seq(Entries), NEW b \in Seq(Entries), NEW e \in Entries,
           Promised!IsBatch(b, s)
    PROVE  IF Promised!Repeats(Append(s, e), Len(s) + 1)
             THEN Promised!IsBatch(b, Append(s, e))
             ELSE Promised!IsBatch(Append(b, e), Append(s, e))
<1> DEFINE t == Append(s, e)
           n == Len(s)
           A == Promised!News(s)
           B == Promised!News(t)
<1>1. n \in Nat /\ DOMAIN s = 1 .. n /\ DOMAIN t = 1 .. n + 1
  BY LenProperties, AppendedEntry
<1>2. (\A i \in 1 .. n : t[i] = s[i]) /\ t[n + 1] = e
  BY <1>1, AppendedEntry
<1>3. \A i \in 1 .. n : Promised!Repeats(t, i) <=> Promised!Repeats(s, i)
  BY RepeatsAppended
<1>4. /\ Len(b) \in Nat /\ Len(Append(b, e)) = Len(b) + 1
      /\ \A i \in 1 .. Len(b) : Append(b, e)[i] = b[i]
      /\ Append(b, e)[Len(b) + 1] = e
  BY LenProperties, AppendProperties
<1> HIDE DEF t
<1>5. /\ A \subseteq 1 .. n
      /\ B = IF Promised!Repeats(t, n + 1) THEN A ELSE A \cup {n + 1}
  BY <1>1, <1>3 DEF Promised!News
<1>6. IsFiniteSet(A) /\ Cardinality(A) = Len(b) /\ \A i \in A : b[Promised!Place(s, i)] = s[i]
  <2>1. IsFiniteSet(1 .. n)
    BY <1>1, FS_Interval
  <2> QED BY <1>5, <2>1, FS_Subset, SameCardinality DEF Promised!IsBatch
<1>7. ASSUME NEW i \in A
      PROVE  Promised!Place(t, i) = Promised!Place(s, i) /\ Promised!Place(s, i) \in 1 .. Len(b)
  <2> DEFINE S == {j \in A : j <= i}
  <2>1. S = {j \in B : j <= i}
    BY <1>1, <1>5, <1>7
  <2>2. S \subseteq A /\ i \in S
    BY <1>1, <1>5, <1>7
  <2>3. IsFiniteSet(S) /\ Cardinality(S) \in Nat /\ Cardinality(S) <= Cardinality(A)
    BY <1>6, <2>2, FS_Subset, FS_CardinalityType
  <2>4. Cardinality(S) # 0
    BY <2>2, <2>3, FS_EmptySet
  <2>5. Promised!Place(t, i) = Cardinality(S) /\ Promised!Place(s, i) = Cardinality(S)
    BY <2>1, SameCardinality DEF Promised!Place
  <2> HIDE DEF S, A
  <2> QED BY <1>4, <1>6, <2>3, <2>4, <2>5
<1>8. CASE Promised!Repeats(t, n + 1)
  BY <1>2, <1>5, <1>6, <1>7, <1>8 DEF Promised!IsBatch, t
<1>9. CASE ~Promised!Repeats(t, n + 1)
  <2>1. B = A \cup {n + 1} /\ n + 1 \notin A
    BY <1>1, <1>5, <1>9
  <2>2. Cardinality(B) = Len(b) + 1
    BY <1>6, <2>1, FS_AddElement
  <2>3. {j \in B : j <= n + 1} = B
    BY <1>1, <1>5, <2>1
  <2>4. Promised!Place(t, n + 1) = Len(b) + 1
    BY <2>2, <2>3, SameCardinality DEF Promised!Place
  <2>5. ASSUME NEW i \in B PROVE Append(b, e)[Promised!Place(t, i)] = t[i]
    <3>1. CASE i \in A
      BY <1>2, <1>4, <1>5, <1>6, <1>7, <3>1
    <3>2. CASE i = n + 1
      BY <1>2, <1>4, <2>4, <3>2
    <3> QED BY <2>1, <3>1, <3>2
  <2> QED BY <1>4, <1>9, <2>2, <2>5, SameCardinality DEF Promised!IsBatch, t
<1> QED BY <1>8, <1>9 DEF t

(* Nothing is owed at first, and after the console got what was owed.       *)
LEMMA NothingOwed == Promised!IsBatch(<<>>, <<>>)
<1>1. Promised!News(<<>>) = {}
  BY DEF Promised!News
<1> QED BY <1>1, FS_EmptySet, SameCardinality DEF Promised!IsBatch

THEOREM SessionInitial == SInit => SInv
<1> SUFFICES ASSUME SInit PROVE SInv
  OBVIOUS
<1> USE DEF SInit, RInit
<1>1. RInv
  BY RConsoleAssumption DEF RInv, RTypeOK, PrintsAnExpression, ProtectBalanced, OneReport
<1>2. {outputBuf, printed, said} \subseteq Seq(Entries)
  OBVIOUS
<1>3. STypeOK
  BY <1>1, <1>2 DEF STypeOK, RInv
<1>4. Resting /\ LastOutputIsBuffered
  BY DEF Resting, LastOutputIsBuffered
<1>5. NothingOfACommandWaits /\ PlotOutputFirst
  BY DEF NothingOfACommandWaits, PlotOutputFirst
<1>6. BufferIsOwed /\ LastOutputIsLastWrite
  BY NothingOwed DEF BufferIsOwed, LastOutputIsLastWrite
<1> QED
  BY <1>1, <1>3, <1>4, <1>5, <1>6 DEF SInv
-------------------------------------------------------------------------------
(* execute: the protect stack and the number of reports, whatever R does. *)
LEMMA ExecuteStep ==
    ASSUME RInv,
           \/ Call
           \/ \E n \in 0 .. MaxExprs : ParseOK(n)
           \/ ParseFails \/ ParseIncomplete \/ ParseError \/ EvalError
           \/ EvalOK \/ Printed \/ PrintFails \/ Done
           \/ UNCHANGED rvars
    PROVE  RInv'
<1> USE RConsoleAssumption DEF RInv, RTypeOK, PrintsAnExpression, ProtectBalanced, OneReport
<1>1. CASE Call
  BY <1>1 DEF Call
<1>2. CASE \E n \in 0 .. MaxExprs : ParseOK(n)
  BY <1>2 DEF ParseOK
<1>3. CASE ParseIncomplete \/ ParseError \/ EvalError \/ Done
  BY <1>3 DEF ParseIncomplete, ParseError, EvalError, Done, Return
<1>4. CASE EvalOK
  BY <1>4 DEF EvalOK
<1>5. CASE Printed
  BY <1>5 DEF Printed
<1>6. CASE PrintFails \/ ParseFails
  BY <1>6 DEF PrintFails, ParseFails
<1>7. CASE UNCHANGED rvars
  BY <1>7 DEF rvars
<1> QED
  BY <1>1, <1>2, <1>3, <1>4, <1>5, <1>6, <1>7

-------------------------------------------------------------------------------
(* What the slots do to the buffer keeps it well formed. *)
BufferInv ==
    /\ {outputBuf, printed, said} \subseteq Seq(Entries) /\ lastOutput \in Message \cup {NoMessage}
    /\ LastOutputIsBuffered /\ NothingOfACommandWaits /\ PlotOutputFirst
    /\ BufferIsOwed /\ LastOutputIsLastWrite

bufvars == <<outputBuf, lastOutput, printed, said>>

LEMMA BufferKept ==
    ASSUME BufferInv, UNCHANGED bufvars, task' = "command" \/ task # "command"
    PROVE  BufferInv'
BY DEF bufvars, BufferInv, LastOutputIsBuffered, NothingOfACommandWaits, PlotOutputFirst, BufferIsOwed,
       LastOutputIsLastWrite

(* A message that goes to the end of the buffer keeps its order.            *)
LEMMA BufferAppended ==
    ASSUME NEW k \in {"write", "error"}, NEW m \in Message,
           task \in {"command", "plot", "update"}, task' = task,
           BufferInv, outputBuf' = Append(outputBuf, Entry(k, m)), lastOutput' \in {lastOutput, m}
    PROVE  /\ LastOutputIsBuffered' /\ NothingOfACommandWaits' /\ PlotOutputFirst'
           /\ \E i \in DOMAIN outputBuf' : outputBuf'[i].text = m
<1> DEFINE e == Entry(k, m)
<1>1. e \in Entries /\ e.text = m /\ e.from = task
  BY DEF Entry, Entries
<1>2. outputBuf \in Seq(Entries) /\ DOMAIN outputBuf = 1 .. Len(outputBuf) /\ Len(outputBuf) \in Nat
  BY LenProperties DEF BufferInv
<1>3. /\ DOMAIN outputBuf' = DOMAIN outputBuf \cup {Len(outputBuf) + 1}
      /\ \A i \in DOMAIN outputBuf : outputBuf'[i] = outputBuf[i]
      /\ outputBuf'[Len(outputBuf) + 1] = e
  BY <1>1, <1>2, AppendedEntry
<1>4. outputBuf'[Len(outputBuf) + 1].text = m
  BY <1>1, <1>3
<1>5. LastOutputIsBuffered'
  BY <1>3, <1>4 DEF BufferInv, LastOutputIsBuffered
<1>6. NothingOfACommandWaits'
  BY <1>1, <1>3 DEF BufferInv, NothingOfACommandWaits
<1>7. ASSUME NEW i \in DOMAIN outputBuf', NEW j \in DOMAIN outputBuf',
             i < j, outputBuf'[i].from = "command"
      PROVE  outputBuf'[j].from = "command"
  <2>1. i \in DOMAIN outputBuf /\ outputBuf[i].from = "command"
    BY <1>2, <1>3, <1>7
  <2>2. CASE j \in DOMAIN outputBuf
    BY <1>3, <1>7, <2>1, <2>2 DEF BufferInv, PlotOutputFirst
  <2>3. CASE j = Len(outputBuf) + 1
    BY <1>1, <1>3, <2>1, <2>3 DEF BufferInv, NothingOfACommandWaits
  <2> QED BY <1>3, <2>2, <2>3
<1>8. PlotOutputFirst'
  BY <1>7 DEF PlotOutputFirst
<1> QED BY <1>3, <1>4, <1>5, <1>6, <1>8

(* onRMessageOk: what R writes is owed, and is the last output. *)
LEMMA WriteStep ==
    ASSUME NEW m \in Message,
           task \in {"command", "plot", "update"}, task' = task, printed' = printed,
           BufferInv, Says("write", m), OnRMessageOk(m)
    PROVE  BufferInv'
<1> DEFINE e == Entry("write", m)
<1>1. e \in Entries /\ e.text = m /\ e.kind = "write"
  BY DEF Entry, Entries
<1>2. outputBuf \in Seq(Entries) /\ said \in Seq(Entries) /\ printed \in Seq(Entries)
  BY DEF BufferInv
<1>3. outputBuf' = Append(outputBuf, e) /\ said' = Append(said, e) /\ lastOutput' = m
  BY DEF Says, OnRMessageOk
<1>4. {outputBuf', printed', said'} \subseteq Seq(Entries)
  BY <1>1, <1>2, <1>3, AppendedEntry
<1>5. LastOutputIsBuffered' /\ NothingOfACommandWaits' /\ PlotOutputFirst'
  BY <1>3, BufferAppended
<1>6. BufferIsOwed'
  <2>1. ~Promised!Repeats(said', Len(said) + 1)
    BY <1>1, <1>2, <1>3, RepeatsAppended
  <2> QED BY <1>1, <1>2, <1>3, <2>1, BatchAppended DEF BufferInv, BufferIsOwed
<1>7. LastOutputIsLastWrite'
  <2>1. /\ Len(said) \in Nat /\ Len(said') = Len(said) + 1
        /\ DOMAIN said' = 1 .. Len(said) + 1 /\ said'[Len(said) + 1] = e
    BY <1>1, <1>2, <1>3, AppendProperties, LenProperties
  <2>2. LastWrite(said', Len(said) + 1)
    BY <1>1, <2>1 DEF LastWrite
  <2> QED BY <1>1, <1>3, <2>1, <2>2, RSessionAssumption DEF LastOutputIsLastWrite
<1> QED BY <1>3, <1>4, <1>5, <1>6, <1>7 DEF BufferInv

(* onRMessageError: an error is owed unless it repeats the last output; its *)
(* text is in the buffer in either case.                                    *)
LEMMA ErrorStep ==
    ASSUME NEW m \in Message,
           task \in {"command", "plot", "update"}, task' = task, printed' = printed,
           BufferInv, Says("error", m), OnRMessageError(m)
    PROVE  BufferInv' /\ \E i \in DOMAIN outputBuf' : outputBuf'[i].text = m
<1> DEFINE e == Entry("error", m)
<1>1. e \in Entries /\ e.text = m /\ e.kind = "error"
  BY DEF Entry, Entries
<1>2. outputBuf \in Seq(Entries) /\ said \in Seq(Entries) /\ printed \in Seq(Entries)
  BY DEF BufferInv
<1>3. said' = Append(said, e) /\ lastOutput' = lastOutput
  BY DEF Says, OnRMessageError
<1>4. said' \in Seq(Entries)
  BY <1>1, <1>2, <1>3, AppendedEntry
<1>5. m # NoMessage
  BY RSessionAssumption
<1>6. /\ Len(said) \in Nat /\ DOMAIN said = 1 .. Len(said)
      /\ Len(said') = Len(said) + 1 /\ DOMAIN said' = 1 .. Len(said) + 1
      /\ said'[Len(said) + 1] = e /\ \A i \in 1 .. Len(said) : said'[i] = said[i]
  BY <1>1, <1>2, <1>3, AppendProperties, LenProperties
<1>7. LastOutputIsLastWrite'
  <2>1. \A i \in DOMAIN said : LastWrite(said, i) => LastWrite(said', i)
    BY <1>1, <1>6 DEF LastWrite
  <2>2. \A i \in DOMAIN said : i \in DOMAIN said' /\ said'[i] = said[i]
    BY <1>6
  <2>3. \A i \in DOMAIN said' : i \in DOMAIN said \/ said'[i].kind = "error"
    BY <1>1, <1>6
  <2> QED BY <1>3, <2>1, <2>2, <2>3 DEF BufferInv, LastOutputIsLastWrite
<1>8. Promised!Repeats(said', Len(said) + 1) <=> m = lastOutput
  <2>1. Promised!Repeats(said', Len(said) + 1) <=>
          \E j \in DOMAIN said : LastWrite(said, j) /\ said[j].text = m
    <3>1. Promised!Repeats(Append(said, e), Len(said) + 1) <=>
            \E j \in 1 .. Len(said) : LastWrite(said, j) /\ said[j].text = e.text
      BY <1>1, <1>2, RepeatsAppended
    <3> HIDE DEF e
    <3> QED BY <1>1, <1>3, <1>6, <3>1
  <2>2. CASE lastOutput = NoMessage
    BY <1>5, <2>1, <2>2 DEF BufferInv, LastOutputIsLastWrite, LastWrite
  <2>3. CASE lastOutput # NoMessage
    <3>1. PICK i \in DOMAIN said : LastWrite(said, i) /\ said[i].text = lastOutput
      BY <2>3 DEF BufferInv, LastOutputIsLastWrite
    <3>2. \A j \in DOMAIN said : LastWrite(said, j) => j = i
      BY <1>6, <3>1 DEF LastWrite
    <3> QED BY <2>1, <3>1, <3>2
  <2> QED BY <2>2, <2>3
<1>9. CASE m = lastOutput
  <2>1. outputBuf' = outputBuf
    BY <1>9 DEF OnRMessageError
  <2>2. BufferIsOwed'
    BY <1>1, <1>2, <1>3, <1>8, <1>9, <2>1, BatchAppended DEF BufferInv, BufferIsOwed
  <2>3. LastOutputIsBuffered' /\ NothingOfACommandWaits' /\ PlotOutputFirst'
    BY <1>3, <2>1 DEF BufferInv, LastOutputIsBuffered, NothingOfACommandWaits, PlotOutputFirst
  <2>4. \E i \in DOMAIN outputBuf' : outputBuf'[i].text = m
    BY <1>5, <1>9, <2>1 DEF BufferInv, LastOutputIsBuffered
  <2> QED BY <1>2, <1>3, <1>4, <1>7, <2>1, <2>2, <2>3, <2>4 DEF BufferInv
<1>10. CASE m # lastOutput
  <2>1. outputBuf' = Append(outputBuf, e)
    BY <1>10 DEF OnRMessageError
  <2>2. outputBuf' \in Seq(Entries)
    BY <1>1, <1>2, <2>1, AppendedEntry
  <2>3. BufferIsOwed'
    BY <1>1, <1>2, <1>3, <1>8, <1>10, <2>1, BatchAppended DEF BufferInv, BufferIsOwed
  <2>4. /\ LastOutputIsBuffered' /\ NothingOfACommandWaits' /\ PlotOutputFirst'
        /\ \E i \in DOMAIN outputBuf' : outputBuf'[i].text = m
    BY <1>3, <2>1, BufferAppended
  <2> QED BY <1>2, <1>3, <1>4, <1>7, <2>2, <2>3, <2>4 DEF BufferInv
<1> QED BY <1>9, <1>10

LEMMA WrittenStep ==
    ASSUME NEW m \in Message,
           task \in {"command", "plot", "update"}, task' = task, printed' = printed,
           BufferInv, Written(m)
    PROVE  BufferInv'
<1>1. CASE Says("write", m) /\ OnRMessageOk(m)
  BY <1>1, WriteStep
<1>2. CASE Unheard
  BY <1>2, BufferKept DEF Unheard, bufvars
<1> QED BY <1>1, <1>2 DEF Written

-------------------------------------------------------------------------------
LEMMA Splits ==
    /\ SInv <=> RInv /\ Resting /\ BufferInv /\ task \in {"idle", "command", "plot", "update", "stopped"}
                /\ connected \in BOOLEAN /\ asked \in BOOLEAN
  BY DEF SInv, STypeOK, RInv, BufferInv

(* Every step of a handler, of R and of the slots keeps the invariant. *)
THEOREM SessionStep == SInv /\ [SNext]_svars => SInv'
<1> SUFFICES ASSUME SInv, [SNext]_svars PROVE SInv'
  OBVIOUS
<1>0. /\ RInv /\ Resting /\ BufferInv /\ task \in {"idle", "command", "plot", "update", "stopped"}
      /\ connected \in BOOLEAN /\ asked \in BOOLEAN
  BY Splits
<1>1. ASSUME NEW m \in Message, Write(m) PROVE SInv'
  <2>1. task \in {"command", "plot"} /\ task' = task
    BY <1>0, <1>1 DEF Write, Writing, Resting
  <2>2. BufferInv'
    BY <1>0, <1>1, <2>1, WrittenStep DEF Write
  <2>3. RInv' /\ Resting'
    BY <1>0, <1>1, ExecuteStep DEF Write, rvars, Resting
  <2> QED
    BY <1>0, <1>1, <2>1, <2>2, <2>3 DEF Write, SInv, STypeOK, RInv, BufferInv
<1>2. ASSUME NEW m \in Message, Error(m) PROVE SInv'
  <2>1. task \in {"command", "plot"} /\ task' = task
    BY <1>0, <1>2 DEF Error, EvalError, Resting
  <2>2. BufferInv'
    <3>1. CASE Unheard
      BY <1>0, <1>2, <2>1, <3>1, BufferKept DEF Error, Unheard, bufvars
    <3>2. CASE Says("error", m) /\ OnRMessageError(m)
      BY <1>0, <1>2, <2>1, <3>2, ErrorStep DEF Error
    <3> QED
      BY <1>2, <3>1, <3>2 DEF Error
  <2>3. RInv' /\ Resting'
    BY <1>0, <1>2, <2>1, ExecuteStep DEF Error, Resting
  <2> QED
    BY <1>0, <1>2, <2>1, <2>2, <2>3 DEF Error, SInv, STypeOK, RInv, BufferInv
<1>3. CASE Incomplete
  <2>1. RInv' /\ Resting'
    BY <1>0, <1>3, ExecuteStep DEF Incomplete, Resting
  <2>2. BufferInv'
    BY <1>0, <1>3, BufferKept DEF Incomplete, bufvars
  <2> QED
    BY <1>0, <1>3, <2>1, <2>2 DEF Incomplete, SInv, STypeOK, RInv, BufferInv
<1>4. CASE Quiet
  <2>1. RInv'
    BY <1>0, <1>4, ExecuteStep DEF Quiet
  <2>2. Resting'
    BY <1>0, <1>4 DEF Quiet, Resting, ParseFails, ParseOK, EvalOK, Printed, PrintFails, Done, wvars
  <2>3. BufferInv'
    BY <1>0, <1>4, BufferKept DEF Quiet, wvars, bufvars
  <2> QED
    BY <1>0, <1>4, <2>1, <2>2, <2>3 DEF Quiet, wvars, SInv, STypeOK, RInv, BufferInv
<1>5. CASE OnCommand
  <2>1. RInv'
    BY <1>0, <1>5, ExecuteStep DEF OnCommand
  <2>2. BufferInv'
    BY <1>0, <1>5, BufferKept DEF OnCommand, bufvars
  <2> QED
    BY <1>0, <1>5, <2>1, <2>2 DEF OnCommand, Resting, SInv, STypeOK, RInv, BufferInv
<1>6. CASE UpdatePlot
  <2>1. RInv'
    BY <1>0, <1>6, ExecuteStep DEF UpdatePlot
  <2>2. BufferInv'
    BY <1>0, <1>6, BufferKept DEF UpdatePlot, bufvars
  <2> QED
    BY <1>0, <1>6, <2>1, <2>2 DEF UpdatePlot, Resting, SInv, STypeOK, RInv, BufferInv
<1>7. CASE PrintOutputBuf
  <2>1. RInv'
    BY <1>0, <1>7, ExecuteStep DEF PrintOutputBuf
  <2>2. /\ {outputBuf', printed', said'} \subseteq Seq(Entries)
        /\ DOMAIN outputBuf' = {} /\ DOMAIN said' = {}
    BY <1>0, <1>7 DEF PrintOutputBuf, BufferInv
  <2>3. BufferIsOwed' /\ LastOutputIsLastWrite'
    BY <1>7, <2>2, NothingOwed DEF PrintOutputBuf, BufferIsOwed, LastOutputIsLastWrite
  <2>4. BufferInv'
    BY <1>7, <2>2, <2>3 DEF PrintOutputBuf, BufferInv, LastOutputIsBuffered,
                            NothingOfACommandWaits, PlotOutputFirst
  <2> QED
    BY <1>0, <1>7, <2>1, <2>4 DEF PrintOutputBuf, rvars, Resting, SInv, STypeOK, RInv, BufferInv
<1>8. CASE PlotShown \/ Updated
  <2>1. task # "command" /\ task' = "idle" /\ call = "none" /\ printed' = <<>>
        /\ UNCHANGED <<rvars, connected, outputBuf, lastOutput, said, asked>>
    BY <1>0, <1>8 DEF PlotShown, Updated, HandlerEnds, Resting
  <2>2. RInv'
    BY <1>0, <2>1, ExecuteStep
  <2>3. BufferInv'
    BY <1>0, <2>1 DEF BufferInv, LastOutputIsBuffered, NothingOfACommandWaits, PlotOutputFirst,
                      BufferIsOwed, LastOutputIsLastWrite
  <2> QED
    BY <1>0, <2>1, <2>2, <2>3 DEF rvars, Resting, SInv, STypeOK, RInv, BufferInv
<1>9. ASSUME NEW m \in Message, PromiseWrites(m) PROVE SInv'
  <2>1. BufferInv'
    BY <1>0, <1>9, WrittenStep DEF PromiseWrites
  <2>2. RInv' /\ Resting'
    BY <1>0, <1>9, ExecuteStep DEF PromiseWrites, rvars, Resting
  <2> QED
    BY <1>0, <1>9, <2>1, <2>2 DEF PromiseWrites, SInv, STypeOK, RInv, BufferInv
<1>10. CASE UpdateVariables \/ PromiseFails
  <2>1. task \in {"idle", "update"} /\ task' \in {"idle", "update", "stopped"}
        /\ UNCHANGED <<rvars, connected, bufvars, asked>>
    BY <1>10 DEF UpdateVariables, PromiseFails, bufvars
  <2>2. RInv' /\ Resting'
    BY <1>0, <2>1, ExecuteStep DEF rvars, Resting
  <2>3. BufferInv'
    BY <1>0, <2>1, BufferKept
  <2> QED
    BY <1>0, <2>1, <2>2, <2>3 DEF SInv, STypeOK, RInv, BufferInv, bufvars
<1>11. CASE UNCHANGED svars
  <2>1. RInv'
    BY <1>0, <1>11, ExecuteStep DEF svars
  <2>2. BufferInv'
    BY <1>0, <1>11, BufferKept DEF svars, rvars, wvars, bufvars
  <2> QED
    BY <1>0, <1>11, <2>1, <2>2 DEF svars, rvars, wvars, Resting, SInv, STypeOK, RInv, BufferInv
<1> QED
  BY <1>1, <1>2, <1>3, <1>4, <1>5, <1>6, <1>7, <1>8, <1>9, <1>10, <1>11 DEF SNext, RStep, Update, SCrashed
-------------------------------------------------------------------------------
(* The variables keep their types, R's protect stack is balanced after      *)
(* every call of execute, and every call reports one result.                *)
THEOREM SessionInvariant == SSpec => []SInv
  BY SessionInitial, SessionStep, PTL DEF SSpec

(* Types of the state of execute and of MainWindow's handlers. *)
THEOREM SessionTyped == SSpec => []STypeOK
<1>1. SInv => STypeOK
  BY DEF SInv
<1> QED
  BY <1>1, SessionInvariant, PTL

(* execute (rconsole.cpp 113-159) unprotects what it protected on every path. *)
THEOREM ProtectStackBalanced == SSpec => []ProtectBalanced
<1>1. SInv => ProtectBalanced
  BY DEF SInv, RInv
<1> QED
  BY <1>1, SessionInvariant, PTL

(* execute reports one result per call, and stops at the first error. *)
THEOREM OneReportPerCall == SSpec => []OneReport
<1>1. SInv => OneReport
  BY DEF SInv, RInv
<1> QED
  BY <1>1, SessionInvariant, PTL

(* Nothing R wrote for a command is left for a later one. *)
THEOREM CommandsLeaveNothing == SSpec => []NothingOfACommandWaits
<1>1. SInv => NothingOfACommandWaits
  BY DEF SInv
<1> QED
  BY <1>1, SessionInvariant, PTL

(* The buffer is printed in the order in which its output was produced. *)
THEOREM BufferInOrder == SSpec => []PlotOutputFirst
<1>1. SInv => PlotOutputFirst
  BY DEF SInv
<1> QED
  BY <1>1, SessionInvariant, PTL

(* An error is shown although onRMessageError drops repeated messages. *)
THEOREM EveryErrorIsShown == SSpec => ErrorsAreShown
<1>1. ASSUME SInv, [SNext]_svars, NEW m \in Message, connected, Error(m)
      PROVE  \E i \in DOMAIN outputBuf' : outputBuf'[i].text = m
  <2>1. task \in {"command", "plot"} /\ task' = task
    BY <1>1 DEF Error, EvalError, SInv, Resting, STypeOK
  <2>2. BufferInv
    BY <1>1, Splits
  <2> QED
    BY <1>1, <2>1, <2>2, ErrorStep DEF Error
<1>2. SInv /\ [SNext]_svars =>
        [\A m \in Message : connected /\ Error(m) =>
            \E i \in DOMAIN outputBuf' : outputBuf'[i].text = m]_svars
  BY <1>1
<1> QED
  BY <1>2, SessionInvariant, PTL DEF SSpec, ErrorsAreShown
-------------------------------------------------------------------------------
(* The refinement.  What R says is said to the service once the slots are   *)
(* connected, that is, since the first command has begun.                   *)
serving == IF call = "crashed" THEN "stopped" ELSE task
promised == <<serving, connected, said, printed>>

LEMMA SlotServes ==
    ASSUME NEW m \in Message, NEW k \in {"write", "error"},
           serving \in {"command", "plot", "update"}, serving' = serving,
           UNCHANGED <<connected, printed>>,
           (connected /\ Says(k, m)) \/ Unheard
    PROVE  Promised!Say \/ UNCHANGED promised
<1>1. serving = task
  BY DEF serving
<1>2. CASE connected /\ Says(k, m)
  BY <1>1, <1>2 DEF Promised!Say, Promised!Handlers, Says, Entry, serving
<1>3. CASE Unheard
  BY <1>3 DEF Unheard, promised
<1> QED
  BY <1>2, <1>3

LEMMA ServiceStep ==
    SInv /\ [SNext]_svars => [Promised!ServiceNext]_promised
<1> SUFFICES ASSUME SInv, [SNext]_svars
             PROVE  Promised!ServiceNext \/ UNCHANGED promised
  OBVIOUS
<1>0. /\ Resting /\ task \in {"idle", "command", "plot", "update", "stopped"}
      /\ connected \in BOOLEAN /\ BufferIsOwed
  BY Splits DEF BufferInv
<1> USE DEF Promised!ServiceNext
<1>1. ASSUME NEW m \in Message, Write(m) \/ Error(m) \/ PromiseWrites(m)
      PROVE  Promised!ServiceNext \/ UNCHANGED promised
  <2>1. /\ serving \in {"command", "plot", "update"} /\ serving' = serving
        /\ UNCHANGED <<connected, printed>>
        /\ \E k \in {"write", "error"} : (connected /\ Says(k, m)) \/ Unheard
    <3>1. CASE Write(m)
      BY <1>0, <3>1 DEF Write, Writing, Written, Resting, rvars, serving
    <3>2. CASE Error(m)
      BY <1>0, <3>2 DEF Error, ParseError, EvalError, Return, Resting, serving
    <3>3. CASE PromiseWrites(m)
      BY <1>0, <3>3 DEF PromiseWrites, Written, Resting, rvars, serving
    <3> QED
      BY <1>1, <3>1, <3>2, <3>3
  <2> QED
    BY <2>1, SlotServes
<1>2. CASE Incomplete
  BY <1>2 DEF Incomplete, ParseIncomplete, Return, serving, promised
<1>3. CASE Quiet
  <2>1. CASE PrintFails \/ ParseFails
    <3>1. task \in {"command", "plot"} /\ call \in {"printing", "parsing"} /\ call' = "crashed"
      BY <1>0, <2>1 DEF PrintFails, ParseFails, Resting
    <3>2. serving = task /\ serving' = "stopped" /\ UNCHANGED <<connected, said, printed>>
      BY <1>3, <3>1 DEF Quiet, wvars, serving
    <3> QED
      BY <3>1, <3>2 DEF Promised!Stop, Promised!Handlers, serving
  <2>2. CASE ~(PrintFails \/ ParseFails)
    <3>1. call # "crashed" /\ call' # "crashed" /\ UNCHANGED wvars
      BY <1>3, <2>2 DEF Quiet, ParseOK, EvalOK, Printed, Done, Return
    <3> QED
      BY <3>1 DEF wvars, serving, promised
  <2> QED
    BY <2>1, <2>2
<1>4. CASE OnCommand \/ UpdatePlot \/ UpdateVariables
  <2>1. /\ serving = "idle" /\ serving' \in Promised!Handlers /\ UNCHANGED <<said, printed>>
        /\ connected' = (connected \/ serving' = "command")
    BY <1>0, <1>4 DEF OnCommand, UpdatePlot, UpdateVariables, Call, Resting, rvars, serving,
                      Promised!Handlers
  <2> QED
    BY <2>1 DEF Promised!Begin, serving
<1>5. CASE PrintOutputBuf
  <2>1. Promised!IsBatch(printed', said)
    BY <1>0, <1>5 DEF PrintOutputBuf, BufferIsOwed
  <2> QED
    BY <1>5, <2>1 DEF PrintOutputBuf, rvars, serving, Promised!Deliver
<1>6. CASE PlotShown \/ Updated
  BY <1>0, <1>6 DEF PlotShown, Updated, HandlerEnds, Resting, rvars, serving, Promised!Finish
<1>7. CASE PromiseFails
  BY <1>0, <1>7 DEF PromiseFails, Resting, rvars, serving, Promised!Stop, Promised!Handlers
<1>8. CASE UNCHANGED svars
  BY <1>8 DEF svars, rvars, wvars, serving, promised
<1> QED
  BY <1>1, <1>2, <1>3, <1>4, <1>5, <1>6, <1>7, <1>8 DEF SNext, RStep, Update, SCrashed

(* With each command the console gets everything R said since the one       *)
(* before, each message once and in order, but for errors that R has just   *)
(* written itself: whatever R writes and however its calls end.             *)
THEOREM SessionIsAService == SSpec => ServiceContract
<1>1. SInit => Promised!ServiceInit
  BY DEF SInit, RInit, Promised!ServiceInit
<1>2. SInv /\ [SNext]_svars =>
        [Promised!ServiceNext]_<<IF call = "crashed" THEN "stopped" ELSE task, connected, said, printed>>
  BY ServiceStep DEF serving, promised
<1> QED
  BY <1>1, <1>2, SessionInvariant, PTL DEF SSpec, ServiceContract, Promised!Service
================================================================================
