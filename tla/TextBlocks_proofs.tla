--------------------------- MODULE TextBlocks_proofs ---------------------------
(***************************************************************************)
(* What the operators on documents return: texts of the same characters,   *)
(* positions inside them, and which lines they leave alone.                *)
(***************************************************************************)
EXTENDS TextBlocks, SequenceTheorems, WellFoundedInduction, TLAPS

(* Sequences: slices, one element, concatenation. *)
LEMMA Slice ==
    ASSUME NEW S, NEW s \in Seq(S), NEW m \in 1 .. Len(s) + 1, NEW n \in m - 1 .. Len(s)
    PROVE  /\ SubSeq(s, m, n) \in Seq(S)
           /\ Len(SubSeq(s, m, n)) = n - m + 1
           /\ \A i \in 1 .. n - m + 1 : SubSeq(s, m, n)[i] = s[m + i - 1]
<1>1. Len(s) \in Nat
  BY LenProperties
<1>2. m \in Int /\ n \in Int
  BY <1>1
<1>3. \A i \in m .. n : s[i] \in S
  BY <1>1, ElementOfSeq
<1>4. /\ SubSeq(s, m, n) \in Seq(S)
      /\ Len(SubSeq(s, m, n)) = IF m <= n THEN n - m + 1 ELSE 0
      /\ \A i \in 1 .. n - m + 1 : SubSeq(s, m, n)[i] = s[m + i - 1]
  BY <1>2, <1>3, SubSeqProperties
<1> QED BY <1>1, <1>2, <1>4

LEMMA OneElement ==
    ASSUME NEW S, NEW x \in S
    PROVE  << x >> \in Seq(S) /\ Len(<< x >>) = 1 /\ << x >>[1] = x
OBVIOUS

LEMMA Concatenated ==
    ASSUME NEW S, NEW s \in Seq(S), NEW t \in Seq(S)
    PROVE  /\ s \o t \in Seq(S) /\ Len(s \o t) = Len(s) + Len(t)
           /\ \A i \in 1 .. Len(s) : (s \o t)[i] = s[i]
           /\ \A i \in 1 .. Len(t) : (s \o t)[Len(s) + i] = t[i]
<1>1. Len(s) \in Nat /\ Len(t) \in Nat
  BY LenProperties
<1>2. /\ s \o t \in Seq(S) /\ Len(s \o t) = Len(s) + Len(t)
      /\ \A i \in 1 .. Len(s) + Len(t) : (s \o t)[i] = IF i <= Len(s) THEN s[i] ELSE t[i - Len(s)]
  BY ConcatProperties
<1>3. \A i \in 1 .. Len(s) : (s \o t)[i] = s[i]
  BY <1>1, <1>2
<1>4. ASSUME NEW i \in 1 .. Len(t) PROVE (s \o t)[Len(s) + i] = t[i]
  <2>1. Len(s) + i \in 1 .. Len(s) + Len(t) /\ ~ (Len(s) + i <= Len(s)) /\ Len(s) + i - Len(s) = i
    BY <1>1
  <2> QED BY <1>2, <2>1
<1> QED BY <1>2, <1>3, <1>4

(* A text has lines, each a sequence. *)
LEMMA TextLines ==
    ASSUME NEW C, NEW t \in Texts(C)
    PROVE  /\ t \in Seq(Seq(C)) /\ Len(t) \in Nat \ {0} /\ DOMAIN t = 1 .. Len(t)
           /\ \A i \in 1 .. Len(t) : t[i] \in Seq(C) /\ Len(t[i]) \in Nat
           /\ LastLine(t) = t[Len(t)] /\ Head(t) = t[1]
<1>1. t \in Seq(Seq(C)) /\ t # <<>>
  BY DEF Texts
<1>2. Len(t) \in Nat \ {0} /\ DOMAIN t = 1 .. Len(t)
  BY <1>1, EmptySeq, LenProperties
<1>3. \A i \in 1 .. Len(t) : t[i] \in Seq(C)
  BY <1>1, ElementOfSeq
<1>4. \A i \in 1 .. Len(t) : Len(t[i]) \in Nat
  BY <1>3, LenProperties
<1>5. Head(t) = t[1]
  BY <1>1, <1>2
<1> QED BY <1>1, <1>2, <1>3, <1>4, <1>5 DEF LastLine

LEMMA IsText ==
    ASSUME NEW C, NEW t \in Seq(Seq(C)), Len(t) >= 1
    PROVE  t \in Texts(C)
<1>1. t # <<>>
  BY EmptySeq
<1> QED BY <1>1 DEF Texts

LEMMA OneLine ==
    ASSUME NEW C, NEW line \in Seq(C)
    PROVE  << line >> \in Texts(C) /\ Len(<< line >>) = 1 /\ << line >>[1] = line
<1>1. << line >> \in Seq(Seq(C)) /\ Len(<< line >>) = 1 /\ << line >>[1] = line
  BY OneElement
<1>2. Len(<< line >>) >= 1
  BY <1>1
<1> QED BY <1>1, <1>2, IsText, Zenon

LEMMA NewLineText ==
    ASSUME NEW C
    PROVE  /\ Empty \in Texts(C) /\ Len(Empty) = 1 /\ Empty[1] = <<>>
           /\ NewLine \in Texts(C) /\ Len(NewLine) = 2 /\ NewLine[1] = <<>> /\ NewLine[2] = <<>>
<1>1. <<>> \in Seq(C)
  BY EmptySeq
<1>2. Empty \in Texts(C) /\ Len(Empty) = 1 /\ Empty[1] = <<>>
  BY <1>1, OneLine DEF Empty
<1>3. NewLine \in Seq(Seq(C)) /\ Len(NewLine) = 2 /\ NewLine[1] = <<>> /\ NewLine[2] = <<>>
  BY <1>1 DEF NewLine
<1>4. NewLine \in Texts(C)
  <2>1. Len(NewLine) >= 1
    BY <1>3
  <2> QED BY <1>3, <2>1, IsText, Zenon
<1> QED BY <1>2, <1>3, <1>4

LEMMA PositionIn ==
    ASSUME NEW C, NEW t \in Texts(C), NEW p
    PROVE  p \in Positions(t) <=>
              \E b \in 1 .. Len(t) : \E c \in 0 .. Len(t[b]) : p = [b |-> b, c |-> c]
<1> DEFINE Of(b) == {[b |-> b, c |-> c] : c \in 0 .. Len(t[b])}
<1>1. p \in Positions(t) <=> \E b \in DOMAIN t : p \in Of(b)
  <2>1. Positions(t) = UNION {Of(b) : b \in DOMAIN t}
    BY DEF Positions
  <2> HIDE DEF Of
  <2> QED BY <2>1
<1>2. \A b : p \in Of(b) <=> \E c \in 0 .. Len(t[b]) : p = [b |-> b, c |-> c]
  OBVIOUS
<1> HIDE DEF Of
<1>3. DOMAIN t = 1 .. Len(t)
  BY TextLines
<1> QED BY <1>1, <1>2, <1>3

LEMMA PositionParts ==
    ASSUME NEW C, NEW t \in Texts(C), NEW p \in Positions(t)
    PROVE  /\ p.b \in 1 .. Len(t) /\ p.c \in 0 .. Len(t[p.b]) /\ p = [b |-> p.b, c |-> p.c]
           /\ p.b \in Nat /\ p.c \in Nat
<1>1. PICK b \in 1 .. Len(t) : \E c \in 0 .. Len(t[b]) : p = [b |-> b, c |-> c]
  BY PositionIn
<1>2. PICK c \in 0 .. Len(t[b]) : p = [b |-> b, c |-> c]
  BY <1>1
<1>3. p.b = b /\ p.c = c
  BY <1>2
<1>4. Len(t) \in Nat /\ Len(t[b]) \in Nat
  BY TextLines
<1> QED BY <1>2, <1>3, <1>4

(* The end of a text is a position of it. *)
LEMMA EndPosition ==
    ASSUME NEW C, NEW t \in Texts(C)
    PROVE  EndOf(t) \in Positions(t) /\ EndOf(t).b = Len(t) /\ EndOf(t).c = Len(t[Len(t)])
<1>1. Len(t) \in 1 .. Len(t) /\ Len(t[Len(t)]) \in 0 .. Len(t[Len(t)])
  BY TextLines
<1>2. EndOf(t) = [b |-> Len(t), c |-> Len(t[Len(t)])]
  BY DEF EndOf, LastLine
<1> QED BY <1>1, <1>2, PositionIn

(* Joining keeps every line of the first text but its last, which goes on.  *)
LEMMA JoinedText ==
    ASSUME NEW C, NEW s \in Texts(C), NEW t \in Texts(C)
    PROVE  /\ Join(s, t) \in Texts(C)
           /\ Len(Join(s, t)) = Len(s) + Len(t) - 1
           /\ \A i \in 1 .. Len(s) - 1 : Join(s, t)[i] = s[i]
           /\ Join(s, t)[Len(s)] = s[Len(s)] \o t[1]
           /\ \A i \in 2 .. Len(t) : Join(s, t)[Len(s) + i - 1] = t[i]
<1> DEFINE first == SubSeq(s, 1, Len(s) - 1)
           line == LastLine(s) \o Head(t)
           middle == << line >>
           rest == Tail(t)
<1>1. /\ Len(s) \in Nat \ {0} /\ Len(t) \in Nat \ {0} /\ s \in Seq(Seq(C)) /\ t \in Seq(Seq(C))
      /\ t # <<>>
  BY TextLines DEF Texts
<1>2. /\ first \in Seq(Seq(C)) /\ Len(first) = Len(s) - 1
      /\ \A i \in 1 .. Len(s) - 1 : first[i] = s[i]
  <2>1. 1 \in 1 .. Len(s) + 1 /\ Len(s) - 1 \in 1 - 1 .. Len(s)
    BY <1>1
  <2>2. /\ first \in Seq(Seq(C)) /\ Len(first) = Len(s) - 1 - 1 + 1
        /\ \A i \in 1 .. Len(s) - 1 - 1 + 1 : first[i] = s[1 + i - 1]
    BY <1>1, <2>1, Slice
  <2> QED BY <1>1, <2>2
<1>3. line \in Seq(C) /\ line = s[Len(s)] \o t[1]
  <2>1. s[Len(s)] \in Seq(C) /\ t[1] \in Seq(C) /\ LastLine(s) = s[Len(s)] /\ Head(t) = t[1]
    BY <1>1, TextLines
  <2> QED BY <2>1, Concatenated
<1>4. middle \in Seq(Seq(C)) /\ Len(middle) = 1 /\ middle[1] = line
  BY <1>3, OneElement
<1>5. /\ rest \in Seq(Seq(C)) /\ Len(rest) = Len(t) - 1
      /\ \A i \in 1 .. Len(t) - 1 : rest[i] = t[i + 1]
  BY <1>1, HeadTailProperties
<1> HIDE DEF first, middle, rest, line
<1> DEFINE head == first \o middle
<1>6. /\ head \in Seq(Seq(C)) /\ Len(head) = Len(first) + Len(middle)
      /\ \A i \in 1 .. Len(first) : head[i] = first[i]
      /\ \A i \in 1 .. Len(middle) : head[Len(first) + i] = middle[i]
  <2>1. first \in Seq(Seq(C)) /\ middle \in Seq(Seq(C))
    BY <1>2, <1>4
  <2> HIDE DEF first, middle
  <2> QED BY <2>1, Concatenated
<1>7. /\ Len(head) = Len(s)
      /\ \A i \in 1 .. Len(s) - 1 : head[i] = s[i]
      /\ head[Len(s)] = line
  <2>1. Len(first) + 1 = Len(s) /\ 1 \in 1 .. Len(middle)
    BY <1>1, <1>2, <1>4
  <2> QED BY <1>2, <1>4, <1>6, <2>1
<1> HIDE DEF head
<1>8. /\ head \o rest \in Seq(Seq(C)) /\ Len(head \o rest) = Len(head) + Len(rest)
      /\ \A i \in 1 .. Len(head) : (head \o rest)[i] = head[i]
      /\ \A i \in 1 .. Len(rest) : (head \o rest)[Len(head) + i] = rest[i]
  <2>1. head \in Seq(Seq(C)) /\ rest \in Seq(Seq(C))
    BY <1>5, <1>6
  <2> QED BY <2>1, Concatenated
<1>9. Join(s, t) = head \o rest
  BY DEF Join, head, first, middle, line, rest
<1>10. Len(Join(s, t)) = Len(s) + Len(t) - 1 /\ Len(Join(s, t)) >= 1
  BY <1>1, <1>5, <1>7, <1>8, <1>9
<1>11. Join(s, t) \in Texts(C)
  BY <1>8, <1>9, <1>10, IsText
<1>12. \A i \in 1 .. Len(s) - 1 : Join(s, t)[i] = s[i]
  BY <1>1, <1>7, <1>8, <1>9
<1>13. Join(s, t)[Len(s)] = s[Len(s)] \o t[1]
  <2>1. Len(s) \in 1 .. Len(head)
    BY <1>1, <1>7
  <2>2. (head \o rest)[Len(s)] = head[Len(s)]
    BY <1>8, <2>1
  <2> QED BY <1>3, <1>7, <1>9, <2>2, Zenon
<1>14. ASSUME NEW i \in 2 .. Len(t) PROVE Join(s, t)[Len(s) + i - 1] = t[i]
  <2>1. i - 1 \in 1 .. Len(t) - 1 /\ (i - 1) + 1 = i /\ Len(s) + i - 1 = Len(s) + (i - 1)
    BY <1>1
  <2>2. (head \o rest)[Len(s) + (i - 1)] = rest[i - 1]
    BY <1>5, <1>7, <1>8, <2>1
  <2> QED BY <1>5, <1>9, <2>1, <2>2
<1> QED BY <1>10, <1>11, <1>12, <1>13, <1>14

(* The text in front of a position, and the one behind it. *)
LEMMA TextInFront ==
    ASSUME NEW C, NEW t \in Texts(C), NEW p \in Positions(t)
    PROVE  /\ TextUpTo(t, p) \in Texts(C) /\ Len(TextUpTo(t, p)) = p.b
           /\ \A i \in 1 .. p.b - 1 : TextUpTo(t, p)[i] = t[i]
           /\ TextUpTo(t, p)[p.b] = SubSeq(t[p.b], 1, p.c)
<1> DEFINE first == SubSeq(t, 1, p.b - 1)
           line == SubSeq(t[p.b], 1, p.c)
<1>1. /\ p.b \in 1 .. Len(t) /\ p.c \in 0 .. Len(t[p.b]) /\ Len(t) \in Nat /\ p.b \in Nat
      /\ t \in Seq(Seq(C)) /\ t[p.b] \in Seq(C) /\ Len(t[p.b]) \in Nat
  BY PositionParts, TextLines
<1>2. first \in Seq(Seq(C)) /\ Len(first) = p.b - 1 /\ \A i \in 1 .. p.b - 1 : first[i] = t[i]
  <2>1. 1 \in 1 .. Len(t) + 1 /\ p.b - 1 \in 1 - 1 .. Len(t)
    BY <1>1
  <2>2. /\ first \in Seq(Seq(C)) /\ Len(first) = p.b - 1 - 1 + 1
        /\ \A i \in 1 .. p.b - 1 - 1 + 1 : first[i] = t[1 + i - 1]
    BY <1>1, <2>1, Slice
  <2> QED BY <1>1, <2>2
<1>3. line \in Seq(C)
  <2>1. 1 \in 1 .. Len(t[p.b]) + 1 /\ p.c \in 1 - 1 .. Len(t[p.b])
    BY <1>1
  <2> QED BY <1>1, <2>1, Slice
<1> HIDE DEF first, line
<1>4. << line >> \in Seq(Seq(C)) /\ Len(<< line >>) = 1 /\ << line >>[1] = line
  BY <1>3, OneElement
<1>5. /\ first \o << line >> \in Seq(Seq(C)) /\ Len(first \o << line >>) = Len(first) + Len(<< line >>)
      /\ \A i \in 1 .. Len(first) : (first \o << line >>)[i] = first[i]
      /\ \A i \in 1 .. Len(<< line >>) : (first \o << line >>)[Len(first) + i] = << line >>[i]
  BY <1>2, <1>4, Concatenated
<1>6. TextUpTo(t, p) = first \o << line >>
  BY DEF TextUpTo, first, line
<1>7. Len(TextUpTo(t, p)) = p.b /\ \A i \in 1 .. p.b - 1 : TextUpTo(t, p)[i] = t[i]
  BY <1>1, <1>2, <1>4, <1>5, <1>6
<1>8. TextUpTo(t, p)[p.b] = line
  <2>1. Len(first) + 1 = p.b /\ 1 \in 1 .. Len(<< line >>)
    BY <1>1, <1>2, <1>4
  <2> QED BY <1>4, <1>5, <1>6, <2>1
<1>9. TextUpTo(t, p) \in Texts(C)
  <2>1. Len(TextUpTo(t, p)) >= 1
    BY <1>1, <1>7
  <2> QED BY <1>5, <1>6, <2>1, IsText, Zenon
<1> QED BY <1>7, <1>8, <1>9 DEF line

LEMMA TextBehind ==
    ASSUME NEW C, NEW t \in Texts(C), NEW p \in Positions(t)
    PROVE  /\ TextFrom(t, p) \in Texts(C) /\ Len(TextFrom(t, p)) = Len(t) - p.b + 1
           /\ TextFrom(t, p)[1] = SubSeq(t[p.b], p.c + 1, Len(t[p.b]))
<1> DEFINE rest == SubSeq(t, p.b + 1, Len(t))
           line == SubSeq(t[p.b], p.c + 1, Len(t[p.b]))
<1>1. /\ p.b \in 1 .. Len(t) /\ p.c \in 0 .. Len(t[p.b]) /\ Len(t) \in Nat /\ p.b \in Nat
      /\ p.c \in Nat /\ t \in Seq(Seq(C)) /\ t[p.b] \in Seq(C) /\ Len(t[p.b]) \in Nat
  BY PositionParts, TextLines
<1>2. rest \in Seq(Seq(C)) /\ Len(rest) = Len(t) - p.b
  <2>1. p.b + 1 \in 1 .. Len(t) + 1 /\ Len(t) \in p.b + 1 - 1 .. Len(t)
    BY <1>1
  <2>2. rest \in Seq(Seq(C)) /\ Len(rest) = Len(t) - (p.b + 1) + 1
    BY <1>1, <2>1, Slice
  <2> QED BY <1>1, <2>2
<1>3. line \in Seq(C)
  <2>1. p.c + 1 \in 1 .. Len(t[p.b]) + 1 /\ Len(t[p.b]) \in p.c + 1 - 1 .. Len(t[p.b])
    BY <1>1
  <2> QED BY <1>1, <2>1, Slice
<1> HIDE DEF rest, line
<1>4. << line >> \in Seq(Seq(C)) /\ Len(<< line >>) = 1 /\ << line >>[1] = line
  BY <1>3, OneElement
<1>5. /\ << line >> \o rest \in Seq(Seq(C)) /\ Len(<< line >> \o rest) = Len(<< line >>) + Len(rest)
      /\ \A i \in 1 .. Len(<< line >>) : (<< line >> \o rest)[i] = << line >>[i]
  BY <1>2, <1>4, Concatenated
<1>6. TextFrom(t, p) = << line >> \o rest
  BY DEF TextFrom, rest, line
<1>7. Len(TextFrom(t, p)) = Len(t) - p.b + 1 /\ Len(TextFrom(t, p)) >= 1
  BY <1>1, <1>2, <1>4, <1>5, <1>6
<1>8. TextFrom(t, p)[1] = line
  <2>1. 1 \in 1 .. Len(<< line >>)
    BY <1>4
  <2> QED BY <1>4, <1>5, <1>6, <2>1
<1>9. TextFrom(t, p) \in Texts(C)
  BY <1>5, <1>6, <1>7, IsText
<1> QED BY <1>7, <1>8, <1>9 DEF line

(* In front of its end is all of a text, behind it nothing, and nothing     *)
(* joined to a text leaves it as it is.                                     *)
LEMMA UpToEnd ==
    ASSUME NEW C, NEW t \in Texts(C)
    PROVE  TextUpTo(t, EndOf(t)) = t
<1> DEFINE u == TextUpTo(t, EndOf(t))
<1>1. /\ t \in Seq(Seq(C)) /\ Len(t) \in Nat \ {0} /\ t[Len(t)] \in Seq(C)
      /\ EndOf(t) \in Positions(t) /\ EndOf(t).b = Len(t) /\ EndOf(t).c = Len(t[Len(t)])
  BY TextLines, EndPosition
<1>2. /\ u \in Texts(C) /\ Len(u) = Len(t) /\ \A i \in 1 .. Len(t) - 1 : u[i] = t[i]
      /\ u[Len(t)] = SubSeq(t[Len(t)], 1, Len(t[Len(t)]))
  BY <1>1, TextInFront
<1> HIDE DEF u
<1>3. u[Len(t)] = t[Len(t)]
  BY <1>1, <1>2, SubSeqFull
<1>4. \A i \in 1 .. Len(u) : u[i] = t[i]
  BY <1>1, <1>2, <1>3
<1>5. u \in Seq(Seq(C))
  BY <1>2 DEF Texts
<1>6. u = t
  BY <1>1, <1>2, <1>4, <1>5, SeqEqual
<1> QED BY <1>6 DEF u

LEMMA FromEnd ==
    ASSUME NEW C, NEW t \in Texts(C), NEW p \in Positions(t), p.b = Len(t)
    PROVE  TextFrom(t, p) = << SubSeq(t[Len(t)], p.c + 1, Len(t[Len(t)])) >>
<1> DEFINE u == TextFrom(t, p)
           line == SubSeq(t[Len(t)], p.c + 1, Len(t[Len(t)]))
<1>1. Len(t) \in Nat
  BY TextLines
<1>2. u \in Texts(C) /\ Len(u) = 1 /\ u[1] = line
  <2>1. u \in Texts(C) /\ Len(u) = Len(t) - p.b + 1 /\ u[1] = SubSeq(t[p.b], p.c + 1, Len(t[p.b]))
    BY TextBehind, Zenon
  <2>2. Len(t) - Len(t) + 1 = 1
    BY <1>1
  <2> QED BY <2>1, <2>2
<1> HIDE DEF u, line
<1>3. line \in Seq(C) /\ u \in Seq(Seq(C))
  BY <1>2, TextLines
<1>4. << line >> \in Seq(Seq(C)) /\ Len(<< line >>) = 1 /\ << line >>[1] = line
  BY <1>3, OneElement
<1>5. Len(u) = Len(<< line >>) /\ \A i \in 1 .. Len(u) : u[i] = << line >>[i]
  BY <1>2, <1>4
<1>6. u = << line >>
  BY <1>3, <1>4, <1>5, SeqEqual
<1> QED BY <1>6 DEF u, line

LEMMA NothingBehindEnd ==
    ASSUME NEW C, NEW t \in Texts(C)
    PROVE  TextFrom(t, EndOf(t)) = Empty
<1>1. /\ EndOf(t) \in Positions(t) /\ EndOf(t).b = Len(t) /\ EndOf(t).c = Len(t[Len(t)])
      /\ Len(t[Len(t)]) \in Nat
  BY TextLines, EndPosition
<1>2. SubSeq(t[Len(t)], Len(t[Len(t)]) + 1, Len(t[Len(t)])) = <<>>
  BY <1>1, SubSeqEmpty
<1>3. TextFrom(t, EndOf(t)) = << SubSeq(t[Len(t)], EndOf(t).c + 1, Len(t[Len(t)])) >>
  BY <1>1, FromEnd
<1> QED BY <1>1, <1>2, <1>3 DEF Empty

LEMMA JoinEmpty ==
    ASSUME NEW C, NEW t \in Texts(C)
    PROVE  Join(t, Empty) = t
<1> DEFINE u == Join(t, Empty)
<1>1. t \in Seq(Seq(C)) /\ Len(t) \in Nat \ {0} /\ t[Len(t)] \in Seq(C)
  BY TextLines
<1>2. Empty \in Texts(C) /\ Len(Empty) = 1 /\ Empty[1] = <<>>
  BY NewLineText
<1>3. /\ u \in Texts(C) /\ Len(u) = Len(t) + 1 - 1
      /\ \A i \in 1 .. Len(t) - 1 : u[i] = t[i]
      /\ u[Len(t)] = t[Len(t)] \o <<>>
  <2>1. /\ u \in Texts(C) /\ Len(u) = Len(t) + Len(Empty) - 1
        /\ \A i \in 1 .. Len(t) - 1 : u[i] = t[i]
        /\ u[Len(t)] = t[Len(t)] \o Empty[1]
    BY <1>2, JoinedText, Zenon
  <2> QED BY <1>2, <2>1
<1> HIDE DEF u
<1>4. u[Len(t)] = t[Len(t)]
  BY <1>1, <1>3, ConcatEmptySeq
<1>5. u \in Seq(Seq(C)) /\ Len(u) = Len(t) /\ \A i \in 1 .. Len(u) : u[i] = t[i]
  BY <1>1, <1>3, <1>4 DEF Texts
<1>6. u = t
  BY <1>1, <1>5, SeqEqual
<1> QED BY <1>6 DEF u

(* A set of positions has a last one. *)
LEMMA LeastNat ==
    ASSUME NEW T \in SUBSET Nat, T # {}
    PROVE  \E n \in T : \A m \in T : n <= m
<1> DEFINE R == OpToRel(<, Nat)
<1>1. IsWellFoundedOn(R, Nat)
  BY NatLessThanWellFounded
<1>2. \A m, n \in Nat : <<m, n>> \in R <=> m < n
  BY DEF OpToRel
<1> HIDE DEF R
<1>3. PICK n \in T : \A m \in T : ~ (<<m, n>> \in R)
  BY <1>1, WFMin
<1> SUFFICES ASSUME NEW m \in T PROVE n <= m
  OBVIOUS
<1>4. n \in Nat /\ m \in Nat /\ ~ (m < n)
  BY <1>2, <1>3
<1> QED BY <1>4

LEMMA LastPosition ==
    ASSUME NEW C, NEW t \in Texts(C), NEW T \in SUBSET Positions(t), T # {}
    PROVE  \E p \in T : \A q \in T : Before(q, p)
<1>1. Len(t) \in Nat /\ \A p \in T : p.b \in 1 .. Len(t) /\ p.b \in Nat
  BY TextLines, PositionParts
<1>2. PICK p0 \in T : \A q \in T : q.b <= p0.b
  <2> DEFINE B == {Len(t) - p.b : p \in T}
  <2>1. B \in SUBSET Nat /\ B # {}
    BY <1>1
  <2>2. PICK n \in B : \A m \in B : n <= m
    BY <2>1, LeastNat
  <2>3. PICK p \in T : n = Len(t) - p.b
    BY <2>2
  <2>4. ASSUME NEW q \in T PROVE q.b <= p.b
    <3>1. Len(t) - p.b <= Len(t) - q.b
      BY <2>2, <2>3
    <3> QED BY <1>1, <3>1
  <2> QED BY <2>4
<1> DEFINE L == {p \in T : p.b = p0.b}
           width == Len(t[p0.b])
<1>3. width \in Nat /\ \A p \in L : p \in T /\ p.b = p0.b /\ p.c \in 0 .. width
  BY <1>1, TextLines, PositionParts
<1> HIDE DEF width
<1>4. PICK p \in L : \A q \in L : q.c <= p.c
  <2> DEFINE D == {width - q.c : q \in L}
  <2>1. D \in SUBSET Nat /\ D # {}
    BY <1>3
  <2>2. PICK n \in D : \A m \in D : n <= m
    BY <2>1, LeastNat
  <2>3. PICK p \in L : n = width - p.c
    BY <2>2
  <2>4. ASSUME NEW q \in L PROVE q.c <= p.c
    <3>1. width - p.c <= width - q.c
      BY <2>2, <2>3
    <3> QED BY <1>3, <3>1
  <2> QED BY <2>4
<1>5. ASSUME NEW q \in T PROVE Before(q, p)
  <2>1. CASE q.b = p0.b
    <3>1. q \in L
      BY <2>1
    <3> QED BY <1>3, <1>4, <2>1, <3>1 DEF Before
  <2>2. CASE q.b # p0.b
    BY <1>1, <1>2, <1>3, <1>4, <2>2 DEF Before
  <2> QED BY <2>1, <2>2
<1> QED BY <1>3, <1>4, <1>5

-------------------------------------------------------------------------------
(* A view has a text and two positions in it.  One whose selection lies in  *)
(* the last line keeps the lines above through every operator below.        *)
IsView(C, v) ==
    /\ v.text \in Texts(C)
    /\ v.pos \in Positions(v.text) /\ v.anchor \in Positions(v.text)
    /\ v \in [text : Texts(C), pos : Positions(v.text), anchor : Positions(v.text)]

OnLastLine(v) == SelectionStart(v).b = Len(v.text)

KeepsLines(v, w) ==
    /\ Len(w.text) >= Len(v.text)
    /\ \A i \in 1 .. Len(v.text) - 1 : w.text[i] = v.text[i]

LEMMA ViewAt ==
    ASSUME NEW C, NEW t \in Texts(C), NEW p \in Positions(t)
    PROVE  /\ IsView(C, At(t, p)) /\ At(t, p).text = t /\ At(t, p).pos = p
           /\ SelectionStart(At(t, p)) = p /\ SelectionEnd(At(t, p)) = p
BY DEF IsView, At, SelectionStart, SelectionEnd

LEMMA Selected ==
    ASSUME NEW T, NEW P, NEW v \in [text : T, pos : P, anchor : P], NEW p \in P, NEW q \in P
    PROVE  LET w == [v EXCEPT !.pos = p, !.anchor = q]
           IN  /\ w \in [text : T, pos : P, anchor : P]
               /\ w.text = v.text /\ w.pos = p /\ w.anchor = q
OBVIOUS

LEMMA SelectionIn ==
    ASSUME NEW C, NEW v, IsView(C, v)
    PROVE  /\ SelectionStart(v) \in Positions(v.text) /\ SelectionEnd(v) \in Positions(v.text)
           /\ SelectionStart(v).b <= SelectionEnd(v).b
           /\ SelectionStart(v).b <= v.pos.b /\ SelectionStart(v).b <= v.anchor.b
<1>1. v.pos.b \in Nat /\ v.anchor.b \in Nat
  BY PositionParts DEF IsView
<1>2. CASE Before(v.pos, v.anchor)
  BY <1>1, <1>2 DEF IsView, SelectionStart, SelectionEnd, Before
<1>3. CASE ~ Before(v.pos, v.anchor)
  BY <1>1, <1>3 DEF IsView, SelectionStart, SelectionEnd, Before
<1> QED BY <1>2, <1>3

LEMMA OnLastLineParts ==
    ASSUME NEW C, NEW v, IsView(C, v), OnLastLine(v)
    PROVE  v.pos.b = Len(v.text) /\ v.anchor.b = Len(v.text) /\ SelectionEnd(v).b = Len(v.text)
<1>1. /\ Len(v.text) \in Nat /\ v.pos.b \in 1 .. Len(v.text) /\ v.anchor.b \in 1 .. Len(v.text)
      /\ SelectionEnd(v).b \in 1 .. Len(v.text)
  BY TextLines, PositionParts, SelectionIn DEF IsView
<1>2. /\ SelectionStart(v).b <= SelectionEnd(v).b
      /\ SelectionStart(v).b <= v.pos.b /\ SelectionStart(v).b <= v.anchor.b
  BY SelectionIn
<1> QED BY <1>1, <1>2 DEF OnLastLine

(* Replacing the selection. *)
-------------------------------------------------------------------------------
(* What a replacement does around the selection: the lines above stay where *)
(* they are, those below follow the new text, and the new cursor is between *)
(* them, so that the same holds of several in a row.                        *)
StaysAround(v, w) ==
    LET m == Len(v.text)  n == Len(w.text) IN
    /\ \A i \in 1 .. SelectionStart(v).b - 1 : i <= n /\ w.text[i] = v.text[i]
    /\ \A k \in 0 .. m - SelectionEnd(v).b - 1 : k < n /\ w.text[n - k] = v.text[m - k]

Around(v, w) ==
    /\ SelectionStart(w).b >= SelectionStart(v).b
    /\ Len(w.text) - SelectionEnd(w).b >= Len(v.text) - SelectionEnd(v).b
    /\ StaysAround(v, w)

LEMMA SelectionNumbers ==
    ASSUME NEW C, NEW v, IsView(C, v)
    PROVE  /\ Len(v.text) \in Nat \ {0}
           /\ SelectionStart(v).b \in 1 .. Len(v.text) /\ SelectionEnd(v).b \in 1 .. Len(v.text)
           /\ SelectionStart(v).b <= v.pos.b /\ v.pos.b <= SelectionEnd(v).b
           /\ v.pos.b \in 1 .. Len(v.text)
<1>1. /\ Len(v.text) \in Nat \ {0}
      /\ SelectionStart(v).b \in 1 .. Len(v.text) /\ SelectionEnd(v).b \in 1 .. Len(v.text)
      /\ v.pos.b \in 1 .. Len(v.text) /\ v.anchor.b \in 1 .. Len(v.text)
  BY TextLines, PositionParts, SelectionIn DEF IsView
<1>2. SelectionStart(v).b <= v.pos.b /\ v.pos.b <= SelectionEnd(v).b
  BY <1>1 DEF SelectionStart, SelectionEnd, Before
<1> QED BY <1>1, <1>2

(* So does a step that leaves the text, and one that only changes the last *)
(* line, with the selection in it.                                          *)
LEMMA SameText ==
    ASSUME NEW C, NEW v, NEW w, IsView(C, v), w.text = v.text
    PROVE  StaysAround(v, w)
BY SelectionNumbers DEF StaysAround

LEMMA KeptAround ==
    ASSUME NEW C, NEW v, NEW w, IsView(C, v), OnLastLine(v), KeepsLines(v, w), Len(w.text) \in Nat
    PROVE  StaysAround(v, w)
BY SelectionNumbers, OnLastLineParts DEF StaysAround, OnLastLine, KeepsLines

LEMMA AroundAll ==
    ASSUME NEW C, NEW u, NEW v, NEW w, IsView(C, u), IsView(C, v), IsView(C, w),
           Around(u, v), Around(v, w)
    PROVE  Around(u, w)
<1> DEFINE l == Len(u.text)
           m == Len(v.text)
           n == Len(w.text)
           s == SelectionStart(u).b
           e == SelectionEnd(u).b
           f == SelectionStart(v).b
           g == SelectionEnd(v).b
           x == SelectionStart(w).b
           y == SelectionEnd(w).b
<1>1. /\ l \in Nat /\ m \in Nat /\ n \in Nat /\ s \in Nat /\ e \in Nat /\ f \in Nat /\ g \in Nat
      /\ x \in Nat /\ y \in Nat
  BY SelectionNumbers
<1>2. /\ f >= s /\ m - g >= l - e
      /\ \A i \in 1 .. s - 1 : i <= m /\ v.text[i] = u.text[i]
      /\ \A k \in 0 .. l - e - 1 : k < m /\ v.text[m - k] = u.text[l - k]
  BY DEF Around, StaysAround
<1>3. /\ x >= f /\ n - y >= m - g
      /\ \A i \in 1 .. f - 1 : i <= n /\ w.text[i] = v.text[i]
      /\ \A k \in 0 .. m - g - 1 : k < n /\ w.text[n - k] = v.text[m - k]
  BY DEF Around, StaysAround
<1> HIDE DEF l, m, n, s, e, f, g, x, y
<1>4. x >= s /\ n - y >= l - e
  BY <1>1, <1>2, <1>3
<1>5. ASSUME NEW i \in 1 .. s - 1 PROVE i <= n /\ w.text[i] = u.text[i]
  <2>1. i \in 1 .. f - 1
    BY <1>1, <1>2
  <2> QED BY <1>2, <1>3, <2>1
<1>6. ASSUME NEW k \in 0 .. l - e - 1 PROVE k < n /\ w.text[n - k] = u.text[l - k]
  <2>1. k \in 0 .. m - g - 1
    BY <1>1, <1>2
  <2> QED BY <1>2, <1>3, <2>1
<1> QED BY <1>4, <1>5, <1>6 DEF Around, StaysAround, l, n, s, e, x, y

LEMMA LinesBehind ==
    ASSUME NEW C, NEW t \in Texts(C), NEW p \in Positions(t)
    PROVE  \A i \in 2 .. Len(t) - p.b + 1 : TextFrom(t, p)[i] = t[p.b + i - 1]
<1> DEFINE rest == SubSeq(t, p.b + 1, Len(t))
           line == SubSeq(t[p.b], p.c + 1, Len(t[p.b]))
<1>1. /\ p.b \in 1 .. Len(t) /\ p.c \in 0 .. Len(t[p.b]) /\ Len(t) \in Nat /\ p.b \in Nat
      /\ p.c \in Nat /\ t \in Seq(Seq(C)) /\ t[p.b] \in Seq(C) /\ Len(t[p.b]) \in Nat
  BY PositionParts, TextLines
<1>2. /\ rest \in Seq(Seq(C)) /\ Len(rest) = Len(t) - p.b
      /\ \A j \in 1 .. Len(t) - p.b : rest[j] = t[p.b + j]
  <2>1. p.b + 1 \in 1 .. Len(t) + 1 /\ Len(t) \in p.b + 1 - 1 .. Len(t)
    BY <1>1
  <2> DEFINE b == p.b
             a == b + 1
             m == Len(t)
  <2>2. a \in 1 .. Len(t) + 1 /\ m \in a - 1 .. Len(t) /\ b \in Nat /\ m \in Nat /\ a = b + 1
    BY <1>1, <2>1
  <2> HIDE DEF a, b, m
  <2>3. /\ SubSeq(t, a, m) \in Seq(Seq(C)) /\ Len(SubSeq(t, a, m)) = m - a + 1
        /\ \A j \in 1 .. m - a + 1 : SubSeq(t, a, m)[j] = t[a + j - 1]
    BY <1>1, <2>2, Slice
  <2>4. SubSeq(t, a, m) = rest /\ Len(t) = m /\ p.b = b
    BY DEF a, b, m
  <2>5. m - a + 1 = m - b /\ \A j \in 1 .. m - b : a + j - 1 = b + j
    BY <2>2
  <2> HIDE DEF rest
  <2> QED BY <2>3, <2>4, <2>5
<1>3. line \in Seq(C)
  <2>1. p.c + 1 \in 1 .. Len(t[p.b]) + 1 /\ Len(t[p.b]) \in p.c + 1 - 1 .. Len(t[p.b])
    BY <1>1
  <2> QED BY <1>1, <2>1, Slice
<1> HIDE DEF rest, line
<1>4. << line >> \in Seq(Seq(C)) /\ Len(<< line >>) = 1
  BY <1>3, OneElement
<1>5. \A j \in 1 .. Len(rest) : (<< line >> \o rest)[Len(<< line >>) + j] = rest[j]
  BY <1>2, <1>4, Concatenated
<1>6. TextFrom(t, p) = << line >> \o rest
  BY DEF TextFrom, rest, line
<1>7. SUFFICES ASSUME NEW i \in 2 .. Len(t) - p.b + 1 PROVE TextFrom(t, p)[i] = t[p.b + i - 1]
  OBVIOUS
<1>8. i - 1 \in 1 .. Len(t) - p.b /\ 1 + (i - 1) = i /\ p.b + (i - 1) = p.b + i - 1
  BY <1>1
<1> QED BY <1>2, <1>4, <1>5, <1>6, <1>8

LEMMA ReplacedAround ==
    ASSUME NEW C, NEW v, IsView(C, v), NEW t \in Texts(C)
    PROVE  Around(v, Replace(v, t))
<1> DEFINE front == TextUpTo(v.text, SelectionStart(v))
           behind == TextFrom(v.text, SelectionEnd(v))
           typed == Join(front, t)
           whole == Join(typed, behind)
           w == Replace(v, t)
           m == Len(v.text)
           s == SelectionStart(v)
           e == SelectionEnd(v)
<1>1. /\ v.text \in Texts(C) /\ s \in Positions(v.text) /\ e \in Positions(v.text)
      /\ m \in Nat \ {0} /\ Len(t) \in Nat \ {0} /\ s.b \in 1 .. m /\ e.b \in 1 .. m
  BY SelectionIn, SelectionNumbers, TextLines DEF IsView
<1>2. front \in Texts(C) /\ Len(front) = s.b /\ \A i \in 1 .. s.b - 1 : front[i] = v.text[i]
  BY <1>1, TextInFront
<1>3. /\ behind \in Texts(C) /\ Len(behind) = m - e.b + 1
      /\ \A i \in 2 .. m - e.b + 1 : behind[i] = v.text[e.b + i - 1]
  BY <1>1, TextBehind, LinesBehind
<1> HIDE DEF front, behind, s, e
<1>4. /\ typed \in Texts(C) /\ Len(typed) = Len(front) + Len(t) - 1
      /\ \A i \in 1 .. Len(front) - 1 : typed[i] = front[i]
  BY <1>2, JoinedText
<1>5. EndOf(typed).b = Len(typed)
  BY <1>4, EndPosition
<1> HIDE DEF typed
<1>6. ASSUME NEW u \in Texts(C)
      PROVE  /\ Len(Join(typed, u)) = Len(typed) + Len(u) - 1
             /\ \A i \in 1 .. Len(typed) - 1 : Join(typed, u)[i] = typed[i]
             /\ \A i \in 2 .. Len(u) : Join(typed, u)[Len(typed) + i - 1] = u[i]
  <2>1. typed \in Texts(C)
    BY <1>4
  <2>2. /\ Join(typed, u) \in Texts(C)
        /\ Len(Join(typed, u)) = Len(typed) + Len(u) - 1
        /\ \A i \in 1 .. Len(typed) - 1 : Join(typed, u)[i] = typed[i]
        /\ Join(typed, u)[Len(typed)] = typed[Len(typed)] \o u[1]
        /\ \A i \in 2 .. Len(u) : Join(typed, u)[Len(typed) + i - 1] = u[i]
    BY <2>1, JoinedText, ZenonT(60)
  <2> QED BY <2>2
<1>7. /\ Len(whole) = Len(typed) + Len(behind) - 1
      /\ \A i \in 1 .. Len(typed) - 1 : whole[i] = typed[i]
      /\ \A i \in 2 .. Len(behind) : whole[Len(typed) + i - 1] = behind[i]
  BY <1>3, <1>6
<1> HIDE DEF whole
<1>8. w = At(whole, EndOf(typed))
  BY DEF Replace, whole, typed, front, behind
<1>9. w.text = whole /\ SelectionStart(w) = EndOf(typed) /\ SelectionEnd(w) = EndOf(typed)
  BY <1>8 DEF At, SelectionStart, SelectionEnd
<1> DEFINE n == Len(whole)
           first == s.b
           last == e.b
           k0 == Len(typed)
           behinds == Len(behind)
           grown == Len(t)
<1>10. /\ m \in Nat /\ first \in 1 .. m /\ last \in 1 .. m /\ grown \in Nat \ {0}
       /\ Len(front) = first /\ behinds = m - last + 1
       /\ k0 = Len(front) + grown - 1 /\ n = k0 + behinds - 1
       /\ EndOf(typed).b = k0
  BY <1>1, <1>2, <1>3, <1>4, <1>5, <1>7
<1>11. /\ \A i \in 1 .. first - 1 : front[i] = v.text[i] /\ typed[i] = front[i]
       /\ \A i \in 1 .. k0 - 1 : whole[i] = typed[i]
       /\ \A i \in 2 .. behinds : whole[k0 + i - 1] = behind[i] /\ behind[i] = v.text[last + i - 1]
  BY <1>2, <1>3, <1>4, <1>7, <1>10
<1> HIDE DEF n, m, first, last, k0, behinds, grown
<1>12. k0 >= first /\ n - k0 >= m - last
  BY <1>10
<1>13. ASSUME NEW i \in 1 .. first - 1 PROVE i <= n /\ whole[i] = v.text[i]
  <2>1. i \in 1 .. k0 - 1 /\ i <= n
    BY <1>10
  <2> QED BY <1>11, <2>1
<1>14. ASSUME NEW k \in 0 .. m - last - 1 PROVE k < n /\ whole[n - k] = v.text[m - k]
  <2>1. /\ m - last - k + 1 \in 2 .. behinds /\ k < n
        /\ k0 + (m - last - k + 1) - 1 = n - k /\ last + (m - last - k + 1) - 1 = m - k
    BY <1>10
  <2> QED BY <1>11, <2>1
<1> HIDE DEF w
<1>15. Around(v, w)
  BY <1>9, <1>10, <1>12, <1>13, <1>14 DEF Around, StaysAround, s, e, first, last, n, m
<1> QED BY <1>15 DEF w

LEMMA ErasedAround ==
    ASSUME NEW C, NEW v, IsView(C, v)
    PROVE  Around(v, EraseBlock(v, v.pos.b))
<1> DEFINE w == EraseBlock(v, v.pos.b)
           b0 == v.pos.b
           m == Len(v.text)
           moved(p) == IF p.b = b0 THEN [p EXCEPT !.c = 0] ELSE p
           s == SelectionStart(v)
           e == SelectionEnd(v)
<1>1. /\ v.text \in Texts(C) /\ v.pos \in Positions(v.text) /\ v.anchor \in Positions(v.text)
      /\ v.text \in Seq(Seq(C)) /\ m \in Nat \ {0} /\ b0 \in 1 .. m /\ v.anchor.b \in 1 .. m
      /\ s.b \in 1 .. m /\ e.b \in 1 .. m
  BY TextLines, PositionParts, SelectionNumbers DEF IsView
<1>2. w = [text |-> [v.text EXCEPT ![b0] = <<>>], pos |-> moved(v.pos), anchor |-> moved(v.anchor)]
  BY DEF EraseBlock
<1>3. /\ Len(w.text) = m
      /\ \A i \in 1 .. m : i # b0 => w.text[i] = v.text[i]
  BY <1>1, <1>2, ExceptSeq, EmptySeq
<1>4. \A p \in Positions(v.text) : moved(p).b = p.b
  <2> SUFFICES ASSUME NEW p \in Positions(v.text) PROVE moved(p).b = p.b
    OBVIOUS
  <2>1. p = [b |-> p.b, c |-> p.c]
    BY <1>1, PositionParts
  <2> QED BY <2>1
<1> HIDE DEF moved
<1>5. w.pos.b = b0 /\ w.anchor.b = v.anchor.b
  <2>1. w.pos = moved(v.pos) /\ w.anchor = moved(v.anchor)
    BY <1>2
  <2> QED BY <1>1, <1>4, <2>1
<1>6. SelectionStart(w).b = s.b /\ SelectionEnd(w).b = e.b /\ s.b <= b0 /\ b0 <= e.b
  BY <1>1, <1>5 DEF SelectionStart, SelectionEnd, Before
<1> HIDE DEF w, s, e
<1>7. ASSUME NEW i \in 1 .. s.b - 1 PROVE i <= m /\ w.text[i] = v.text[i]
  <2>1. i \in 1 .. m /\ i # b0
    BY <1>1, <1>6
  <2> QED BY <1>3, <2>1
<1>8. ASSUME NEW k \in 0 .. m - e.b - 1 PROVE k < m /\ w.text[m - k] = v.text[m - k]
  <2>1. m - k \in 1 .. m /\ m - k # b0 /\ k < m
    BY <1>1, <1>6
  <2> QED BY <1>3, <2>1
<1>9. Around(v, w)
  BY <1>1, <1>3, <1>6, <1>7, <1>8 DEF Around, StaysAround, s, e
<1> QED BY <1>9 DEF w

(* One view comes of another by what the console does to documents. *)
Follows(C, v, w) ==
    /\ IsView(C, w) /\ Around(v, w)
    /\ OnLastLine(v) => OnLastLine(w) /\ KeepsLines(v, w)

LEMMA FollowsAll ==
    ASSUME NEW C, NEW u, NEW v, NEW w, IsView(C, u), Follows(C, u, v), Follows(C, v, w)
    PROVE  Follows(C, u, w)
<1>1. Len(u.text) \in Nat /\ Len(v.text) \in Nat /\ Len(w.text) \in Nat
  BY TextLines DEF Follows, IsView
<1>4. Around(u, w)
  BY AroundAll DEF Follows
<1> SUFFICES ASSUME OnLastLine(u) PROVE KeepsLines(u, w)
  BY <1>4 DEF Follows
<1>2. KeepsLines(u, v) /\ KeepsLines(v, w)
  BY DEF Follows
<1>3. ASSUME NEW i \in 1 .. Len(u.text) - 1 PROVE w.text[i] = u.text[i]
  <2>1. i \in 1 .. Len(v.text) - 1
    BY <1>1, <1>2 DEF KeepsLines
  <2> QED BY <1>2, <2>1 DEF KeepsLines
<1> QED BY <1>1, <1>2, <1>3 DEF KeepsLines

LEMMA ReplacedView ==
    ASSUME NEW C, NEW v, IsView(C, v), NEW t \in Texts(C)
    PROVE  Follows(C, v, Replace(v, t))
<1> DEFINE front == TextUpTo(v.text, SelectionStart(v))
           behind == TextFrom(v.text, SelectionEnd(v))
           typed == Join(front, t)
           whole == Join(typed, behind)
           p == EndOf(typed)
           s == SelectionStart(v)
           e == SelectionEnd(v)
<1>1. /\ v.text \in Texts(C) /\ s \in Positions(v.text) /\ e \in Positions(v.text)
      /\ Len(v.text) \in Nat \ {0} /\ Len(t) \in Nat \ {0}
      /\ s.b \in 1 .. Len(v.text) /\ e.b \in 1 .. Len(v.text)
  BY SelectionIn, TextLines, PositionParts DEF IsView
<1>2. front \in Texts(C) /\ Len(front) = s.b /\ \A i \in 1 .. s.b - 1 : front[i] = v.text[i]
  BY <1>1, TextInFront
<1>3. behind \in Texts(C) /\ Len(behind) = Len(v.text) - e.b + 1 /\ behind[1] \in Seq(C)
  <2>1. behind \in Texts(C) /\ Len(behind) = Len(v.text) - e.b + 1
    BY <1>1, TextBehind
  <2>2. 1 \in 1 .. Len(behind)
    BY <1>1, <2>1
  <2> QED BY <2>1, <2>2, TextLines
<1> HIDE DEF front, behind, s, e
<1>4. /\ typed \in Texts(C) /\ Len(typed) = Len(front) + Len(t) - 1
      /\ \A i \in 1 .. Len(front) - 1 : typed[i] = front[i]
  BY <1>2, JoinedText
<1>5. p \in Positions(typed) /\ p = [b |-> Len(typed), c |-> Len(typed[Len(typed)])]
  BY <1>4, EndPosition DEF EndOf, LastLine
<1> HIDE DEF typed, p
<1>6. /\ whole \in Texts(C) /\ Len(whole) = Len(typed) + Len(behind) - 1
      /\ \A i \in 1 .. Len(typed) - 1 : whole[i] = typed[i]
      /\ whole[Len(typed)] = typed[Len(typed)] \o behind[1]
  BY <1>3, <1>4, JoinedText
<1> HIDE DEF whole
<1>7. p \in Positions(whole)
  <2>1. Len(typed) \in Nat \ {0} /\ typed[Len(typed)] \in Seq(C)
    BY <1>4, TextLines
  <2>2. /\ Len(typed[Len(typed)] \o behind[1]) = Len(typed[Len(typed)]) + Len(behind[1])
        /\ Len(typed[Len(typed)]) \in Nat /\ Len(behind[1]) \in Nat
    BY <1>3, <2>1, LenProperties, Concatenated
  <2>3. Len(behind) \in Nat \ {0}
    BY <1>3, TextLines
  <2>4. Len(typed) \in 1 .. Len(whole)
    BY <1>6, <2>1, <2>3
  <2>5. Len(typed[Len(typed)]) \in 0 .. Len(whole[Len(typed)])
    <3>1. Len(whole[Len(typed)]) = Len(typed[Len(typed)]) + Len(behind[1])
      BY <1>6, <2>2, Zenon
    <3>2. \A m, n \in Nat : m \in 0 .. m + n
      OBVIOUS
    <3> QED BY <2>2, <3>1, <3>2, Zenon
  <2> QED BY <1>5, <1>6, <2>4, <2>5, PositionIn
<1>8. Replace(v, t) = At(whole, p)
  BY DEF Replace, whole, typed, front, behind, p
<1>9. /\ IsView(C, Replace(v, t)) /\ Replace(v, t).text = whole
      /\ SelectionStart(Replace(v, t)) = p
  BY <1>6, <1>7, <1>8, ViewAt
<1>10. ASSUME OnLastLine(v) PROVE OnLastLine(Replace(v, t)) /\ KeepsLines(v, Replace(v, t))
  <2>1. s.b = Len(v.text) /\ e.b = Len(v.text)
    BY <1>10, OnLastLineParts DEF OnLastLine, s, e
  <2>2. Len(typed) = Len(v.text) + Len(t) - 1 /\ Len(whole) = Len(typed)
    BY <1>1, <1>2, <1>3, <1>4, <1>6, <2>1
  <2>3. p.b = Len(whole)
    BY <1>5, <2>2
  <2>4. Len(whole) >= Len(v.text)
    BY <1>1, <2>2
  <2>5. ASSUME NEW i \in 1 .. Len(v.text) - 1 PROVE whole[i] = v.text[i]
    <3>1. i \in 1 .. Len(typed) - 1 /\ i \in 1 .. Len(front) - 1 /\ i \in 1 .. s.b - 1
      BY <1>1, <1>2, <2>1, <2>2
    <3> QED BY <1>2, <1>4, <1>6, <3>1
  <2> QED BY <1>9, <2>3, <2>4, <2>5 DEF OnLastLine, KeepsLines
<1> QED BY <1>9, <1>10, ReplacedAround DEF Follows

(* Erasing the cursor's line. *)
LEMMA ErasedLine ==
    ASSUME NEW C, NEW v, IsView(C, v)
    PROVE  LET w == EraseBlock(v, v.pos.b)
           IN  /\ Follows(C, v, w)
               /\ OnLastLine(v) => w = At(w.text, EndOf(w.text)) /\ LastLine(w.text) = <<>>
<1> DEFINE w == EraseBlock(v, v.pos.b)
           t == [v.text EXCEPT ![v.pos.b] = <<>>]
           b0 == v.pos.b
           moved(p) == IF p.b = b0 THEN [p EXCEPT !.c = 0] ELSE p
<1>1. /\ v.text \in Texts(C) /\ v.pos \in Positions(v.text) /\ v.anchor \in Positions(v.text)
      /\ v.text \in Seq(Seq(C)) /\ Len(v.text) \in Nat \ {0} /\ b0 \in 1 .. Len(v.text)
      /\ <<>> \in Seq(C) /\ Len(<<>>) = 0
  BY TextLines, PositionParts, EmptySeq DEF IsView
<1>2. w = [text |-> t, pos |-> moved(v.pos), anchor |-> moved(v.anchor)]
  BY DEF EraseBlock
<1>3. /\ t \in Seq(Seq(C)) /\ Len(t) = Len(v.text)
      /\ \A i \in 1 .. Len(v.text) : t[i] = IF i = b0 THEN <<>> ELSE v.text[i]
  BY <1>1, ExceptSeq
<1>4. t \in Texts(C)
  <2>1. Len(t) >= 1
    BY <1>1, <1>3
  <2> QED BY <1>3, <2>1, IsText, Zenon
<1> HIDE DEF t
<1>5. ASSUME NEW p \in Positions(v.text)
      PROVE  /\ moved(p) \in Positions(t)
             /\ p.b = b0 => moved(p) = [b |-> b0, c |-> 0]
  <2>1. p.b \in 1 .. Len(v.text) /\ p.c \in 0 .. Len(v.text[p.b]) /\ p = [b |-> p.b, c |-> p.c]
    BY <1>1, PositionParts
  <2>2. CASE p.b = b0
    <3>1. moved(p) = [b |-> b0, c |-> 0]
      BY <2>1, <2>2
    <3>2. b0 \in 1 .. Len(t) /\ 0 \in 0 .. Len(t[b0])
      BY <1>1, <1>3
    <3>3. moved(p) \in Positions(t)
      BY <1>4, <3>1, <3>2, PositionIn
    <3> QED BY <2>2, <3>1, <3>3
  <2>3. CASE p.b # b0
    <3>1. moved(p) = p /\ p.b \in 1 .. Len(t) /\ p.c \in 0 .. Len(t[p.b])
      BY <1>1, <1>3, <2>1, <2>3
    <3>2. p \in Positions(t)
      BY <1>4, <2>1, <3>1, PositionIn
    <3> QED BY <2>3, <3>1, <3>2
  <2> QED BY <2>2, <2>3
<1>6. /\ moved(v.pos) \in Positions(t) /\ moved(v.anchor) \in Positions(t)
      /\ moved(v.pos) = [b |-> b0, c |-> 0]
      /\ v.anchor.b = b0 => moved(v.anchor) = [b |-> b0, c |-> 0]
  BY <1>1, <1>5
<1> HIDE DEF moved
<1>7. w.text = t /\ w.pos = moved(v.pos) /\ w.anchor = moved(v.anchor)
  BY <1>2
<1> HIDE DEF w
<1>8. IsView(C, w)
  BY <1>2, <1>4, <1>6, <1>7 DEF IsView
<1>9. ASSUME OnLastLine(v)
      PROVE  /\ OnLastLine(w) /\ KeepsLines(v, w)
             /\ w = At(w.text, EndOf(w.text)) /\ LastLine(w.text) = <<>>
  <2>1. b0 = Len(v.text) /\ v.anchor.b = b0
    BY <1>9, OnLastLineParts
  <2>2. t[Len(t)] = <<>> /\ \A i \in 1 .. Len(v.text) - 1 : t[i] = v.text[i]
    <3>1. Len(v.text) \in 1 .. Len(v.text)
      BY <1>1
    <3>2. \A i \in 1 .. Len(v.text) - 1 : i \in 1 .. Len(v.text) /\ i # b0
      BY <1>1, <2>1
    <3> QED BY <1>3, <2>1, <3>1, <3>2
  <2>3. EndOf(t) = [b |-> b0, c |-> 0]
    BY <1>1, <1>3, <2>1, <2>2 DEF EndOf, LastLine
  <2>4. w = At(t, EndOf(t))
    BY <1>2, <1>6, <2>1, <2>3 DEF At
  <2>5. SelectionStart(w) = EndOf(t)
    BY <1>4, <2>4, ViewAt, EndPosition
  <2>6. OnLastLine(w)
    BY <1>3, <1>7, <2>1, <2>3, <2>5 DEF OnLastLine
  <2>7. KeepsLines(v, w)
    <3>1. Len(w.text) >= Len(v.text)
      BY <1>1, <1>3, <1>7
    <3>2. \A i \in 1 .. Len(v.text) - 1 : w.text[i] = v.text[i]
      BY <1>7, <2>2
    <3> QED BY <3>1, <3>2 DEF KeepsLines
  <2>8. w = At(w.text, EndOf(w.text))
    BY <1>7, <2>4
  <2>9. LastLine(w.text) = <<>>
    BY <1>7, <2>2 DEF LastLine
  <2> QED BY <2>6, <2>7, <2>8, <2>9
<1> QED BY <1>8, <1>9, ErasedAround DEF w, Follows

(* Text that comes behind the end of a document, or in the place of a       *)
(* selection that reaches up to it.                                         *)
LEMMA ReplacedUpToEnd ==
    ASSUME NEW C, NEW v, IsView(C, v), SelectionEnd(v) = EndOf(v.text), NEW s \in Texts(C)
    PROVE  LET t == Join(TextUpTo(v.text, SelectionStart(v)), s)
           IN  t \in Texts(C) /\ Replace(v, s) = At(t, EndOf(t))
<1> DEFINE front == TextUpTo(v.text, SelectionStart(v))
           t == Join(front, s)
<1>1. v.text \in Texts(C) /\ SelectionStart(v) \in Positions(v.text)
  BY SelectionIn DEF IsView
<1>2. front \in Texts(C)
  BY <1>1, TextInFront
<1> HIDE DEF front
<1>3. t \in Texts(C) /\ Join(t, Empty) = t
  BY <1>2, JoinedText, JoinEmpty
<1>4. TextFrom(v.text, SelectionEnd(v)) = Empty
  BY <1>1, NothingBehindEnd
<1>5. Replace(v, s) = At(t, EndOf(t))
  BY <1>3, <1>4 DEF Replace, front
<1> QED BY <1>3, <1>5 DEF front

LEMMA AppendedAtEnd ==
    ASSUME NEW C, NEW t \in Texts(C), NEW s \in Texts(C)
    PROVE  Replace(At(t, EndOf(t)), s) = At(Join(t, s), EndOf(Join(t, s)))
<1> DEFINE v == At(t, EndOf(t))
<1>1. EndOf(t) \in Positions(t)
  BY EndPosition
<1>2. /\ IsView(C, v) /\ v.text = t
      /\ SelectionStart(v) = EndOf(t) /\ SelectionEnd(v) = EndOf(t)
  BY <1>1, ViewAt
<1>3. TextUpTo(t, EndOf(t)) = t
  BY UpToEnd
<1> HIDE DEF v
<1> QED BY <1>2, <1>3, ReplacedUpToEnd DEF v
===============================================================================
