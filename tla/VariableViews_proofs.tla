------------------------- MODULE VariableViews_proofs -------------------------
(***************************************************************************)
(* That the views follow their variables, for any number of variables and  *)
(* any objects; and the arithmetic of the cells of a matrix.               *)
(***************************************************************************)
EXTENDS VariableViews, TLAPS

Follows(n) ==
    /\ ~IsPromise(global[n])
    /\ view[n].storage = evalStorage(heap[view[n].object])
    /\ n \notin behind => view[n] = Shows(Found(global[n]))

(* The views that updateVariables has made so far follow; between two       *)
(* commands, all of them do.                                                *)
ViewsMade ==
    /\ phase = "update" => \A i \in 1 .. turn - 1 : Follows(Variables[i])
    /\ phase = "user"   => \A n \in Names : Follows(n)

VInv == VTypeOK /\ ViewsMade
-------------------------------------------------------------------------------
(* setValue changes elements only, so that an object keeps its storage.     *)
LEMMA EditKeepsStorage ==
    ASSUME NEW x, NEW i, NEW v, NEW y \in DOMAIN heap, \A z \in DOMAIN heap : DOMAIN heap[z] = Fields
    PROVE  /\ DOMAIN setPlain(heap, x, i, v) = DOMAIN heap
           /\ DOMAIN setPlain(heap, x, i, v)[y] = Fields
           /\ evalStorage(setPlain(heap, x, i, v)[y]) = evalStorage(heap[y])
BY DEF setPlain, evalStorage, Fields

LEMMA BindingKinds ==
    /\ \A x : Found(Value(x)) = x /\ ~IsPromise(Value(x)) /\ Value(x) # Unbound
    /\ ~IsPromise(Unbound) /\ Found(Unbound) = Nil
BY DEF Found, Value, Unbound, IsPromise

LEMMA VariablesAreNames ==
    /\ Len(Variables) \in Nat \ {0} /\ DOMAIN Variables = 1 .. Len(Variables)
    /\ \A i \in 1 .. Len(Variables) : Variables[i] \in Names
    /\ \A n \in Names : \E i \in 1 .. Len(Variables) : n = Variables[i]
BY VariableViewsAssumption DEF Names

(* One turn of updateVariables: the view of the variable follows, and the   *)
(* ones made before still do, or are behind.                                *)
LEMMA TurnKeeps ==
    ASSUME VInv, phase = "update", NextTurn, UNCHANGED heap,
           behind' \subseteq Names, UNCHANGED sound,
           NEW n, n = Current, Follows(n)',
           DOMAIN view' = Names, \A m \in Names : view'[m].object \in Objects,
           global' \in [Names -> Bindings \cup {Value(x) : x \in Objects}],
           \A i \in 1 .. turn - 1 : Follows(Variables[i])', UNCHANGED steps
    PROVE  VInv'
<1>1. turn \in 1 .. Len(Variables) /\ Len(Variables) \in Nat \ {0} /\ turn' = turn + 1
  <2>1. Len(Variables) \in Nat \ {0}
    BY VariablesAreNames
  <2>2. turn \in 1 .. Len(Variables) + 1 /\ turn <= Len(Variables) /\ turn' = turn + 1
    BY DEF VInv, VTypeOK, NextTurn
  <2> QED BY <2>1, <2>2
<1>2. VTypeOK'
  BY <1>1 DEF VInv, VTypeOK, NextTurn
<1>3. \A i \in 1 .. turn : Follows(Variables[i])'
  BY <1>1 DEF Current
<1>4. phase' = "user" => turn = Len(Variables)
  BY DEF NextTurn
<1>5. phase' = "user" => \A m \in Names : Follows(m)'
  BY <1>3, <1>4, VariablesAreNames
<1>6. phase' = "update" => \A i \in 1 .. turn' - 1 : Follows(Variables[i])'
  BY <1>1, <1>3
<1> QED BY <1>2, <1>5, <1>6 DEF VInv, ViewsMade
-------------------------------------------------------------------------------
LEMMA VInvStart == VInit => VInv
<1> SUFFICES ASSUME VInit PROVE VInv
  OBVIOUS
<1>1. \A n \in Names : global[n] = Value(Imported[n]) /\ view[n] = Shows(Imported[n]) /\ Imported[n] \in Objects
  BY VariableViewsAssumption DEF VInit
<1>2. VTypeOK
  <2>1. DOMAIN heap = Objects /\ \A x \in Objects : DOMAIN heap[x] = Fields
    BY VariableViewsAssumption DEF VInit
  <2>2. global \in [Names -> Bindings \cup {Value(x) : x \in Objects}]
    BY <1>1 DEF VInit
  <2>3. DOMAIN view = Names /\ \A n \in Names : view[n].object \in Objects
    BY <1>1 DEF VInit, Shows
  <2> QED BY <2>1, <2>2, <2>3, VariableViewsAssumption, VariablesAreNames DEF VInit, VTypeOK
<1>3. \A n \in Names : Follows(n)
  <2> SUFFICES ASSUME NEW n \in Names PROVE Follows(n)
    OBVIOUS
  <2>1. view[n] = Shows(Imported[n]) /\ ~IsPromise(global[n]) /\ Found(global[n]) = Imported[n]
    BY <1>1, BindingKinds
  <2>2. view[n].object = Imported[n] /\ view[n].storage = evalStorage(heap[Imported[n]])
    BY <2>1 DEF Shows
  <2> QED BY <2>1, <2>2 DEF Follows
<1> QED BY <1>2, <1>3 DEF VInv, ViewsMade, VInit

LEMMA VInvStep == VInv /\ [VNext]_vvars => VInv'
<1> SUFFICES ASSUME VInv, [VNext]_vvars PROVE VInv'
  OBVIOUS
<1>a. Bindings \subseteq Bindings \cup {Value(x) : x \in Objects} /\ Nil \in Objects
  BY VariableViewsAssumption
<1>b. steps \in Nat /\ MaxSteps \in Nat
  BY VariableViewsAssumption DEF VInv, VTypeOK
<1>1. CASE UNCHANGED vvars \/ Stopped
  BY <1>1 DEF vvars, Stopped, VInv, VTypeOK, ViewsMade, Follows, Shows
<1>2. CASE Command
  BY <1>2 DEF Command, VInv, VTypeOK, ViewsMade
<1>3. CASE Assign
  <2>1. PICK n \in Names, b \in Bindings : global' = [global EXCEPT ![n] = b]
    BY <1>3 DEF Assign
  <2>2. global' \in [Names -> Bindings \cup {Value(x) : x \in Objects}]
    BY <2>1, <1>a DEF VInv, VTypeOK
  <2> QED BY <1>3, <1>b, <2>2 DEF Assign, VInv, VTypeOK, ViewsMade
<1>4. CASE Change
  <2>0. PICK x \in Objects : \E o \in Changed[x] : heap' = [heap EXCEPT ![x] = o]
    BY <1>4 DEF Change
  <2>1. PICK o \in Changed[x] : heap' = [heap EXCEPT ![x] = o]
    BY <2>0
  <2>2. DOMAIN o = Fields
    BY VariableViewsAssumption
  <2>3. DOMAIN heap' = Objects /\ \A y \in Objects : DOMAIN heap'[y] = Fields
    BY <2>1, <2>2 DEF VInv, VTypeOK
  <2> QED BY <1>4, <1>b, <2>3 DEF Change, VInv, VTypeOK, ViewsMade
<1>5. CASE Answered
  BY <1>5, VariablesAreNames DEF Answered, VInv, VTypeOK, ViewsMade
<1>6. CASE UpdateVar
  <2>1. Current \in Names
    BY <1>6, VariablesAreNames DEF UpdateVar, VInv, VTypeOK, Current
  <2>2. Found(global[Current]) \in Objects
    <3>1. global[Current] \in Bindings \cup {Value(x) : x \in Objects}
      BY <2>1 DEF VInv, VTypeOK
    <3>2. global[Current] = Unbound \/ \E x \in Objects : global[Current] = Value(x)
      BY <1>6, <3>1, VariableViewsAssumption DEF UpdateVar, Bindings, Promises, IsPromise
    <3> QED BY <3>2, <1>a, BindingKinds
  <2>3. /\ view' = [view EXCEPT ![Current] = Shows(Found(global[Current]))]
        /\ UNCHANGED <<heap, global, behind, sound, steps>>
        /\ ~IsPromise(global[Current]) /\ phase = "update"
        /\ NextTurn \/ (phase' = "stopped" /\ UNCHANGED turn)
    BY <1>6 DEF UpdateVar, Show
  <2>4. DOMAIN view' = Names /\ \A n \in Names : view'[n].object \in Objects
    BY <2>1, <2>2, <2>3 DEF VInv, VTypeOK, Shows
  <2>5. \A n \in Names : Follows(n) => Follows(n)'
    BY <2>1, <2>3 DEF Follows, Shows, VInv, VTypeOK
  <2>6. PICK n \in Names : n = Current
    BY <2>1
  <2>7. Follows(n)'
    BY <2>3, <2>6 DEF Follows, Shows, VInv, VTypeOK
  <2>8. \A i \in 1 .. turn - 1 : Follows(Variables[i])'
    BY <2>3, <2>5, VariablesAreNames DEF VInv, ViewsMade, VTypeOK
  <2>9. CASE NextTurn
    BY <2>3, <2>4, <2>6, <2>7, <2>8, <2>9, TurnKeeps DEF VInv, VTypeOK
  <2>10. CASE phase' = "stopped" /\ UNCHANGED turn
    BY <2>3, <2>4, <2>10 DEF VInv, VTypeOK, ViewsMade
  <2> QED BY <2>3, <2>9, <2>10
<1>7. CASE ForcePromise
  <2> DEFINE b == global[Current]
  <2>1. Current \in Names
    BY <1>7, VariablesAreNames DEF ForcePromise, VInv, VTypeOK, Current
  <2>2. b.promise \in Objects /\ b.rebinds \in Names
        /\ (b.to = Unbound \/ \E x \in Objects : b.to = Value(x))
    <3>1. b \in Bindings \cup {Value(x) : x \in Objects}
      BY <2>1 DEF VInv, VTypeOK
    <3>2. b \in Promises
      BY <1>7, <3>1, BindingKinds DEF ForcePromise, Bindings
    <3> QED BY <1>7, <3>2, VariableViewsAssumption DEF ForcePromise, Promises
  <2>3. /\ global' = [global EXCEPT ![Current] = Value(b.promise), ![b.rebinds] = b.to]
        /\ view' = [view EXCEPT ![Current] = Shows(b.promise)]
        /\ behind' = behind \cup ({b.rebinds} \cap {Variables[i] : i \in 1 .. turn})
        /\ UNCHANGED <<heap, sound, steps>> /\ phase = "update"
        /\ NextTurn \/ (phase' = "stopped" /\ UNCHANGED turn)
    BY <1>7 DEF ForcePromise, Show
  <2> HIDE DEF b
  <2>4. DOMAIN view' = Names /\ \A m \in Names : view'[m].object \in Objects
    BY <2>1, <2>2, <2>3 DEF VInv, VTypeOK, Shows
  <2>5. global' \in [Names -> Bindings \cup {Value(x) : x \in Objects}]
    <3>1. b.to \in Bindings \cup {Value(x) : x \in Objects}
      BY <2>2 DEF Bindings
    <3> QED BY <2>1, <2>2, <2>3, <3>1 DEF VInv, VTypeOK
  <2>6. behind' \subseteq Names
    BY <2>2, <2>3 DEF VInv, VTypeOK
  <2>7. turn \in 1 .. Len(Variables)
    BY <2>3 DEF VInv, VTypeOK
  <2>8. PICK n \in Names : n = Current
    BY <2>1
  <2>9. Follows(n)'
    <3>1. ~IsPromise(global'[n])
      BY <2>1, <2>2, <2>3, <2>8, BindingKinds DEF VInv, VTypeOK
    <3>2. view'[n] = Shows(b.promise)
      BY <2>1, <2>3, <2>8 DEF VInv, VTypeOK
    <3>3. n \notin behind' => global'[n] = Value(b.promise)
      <4>1. n = Variables[turn] /\ turn \in 1 .. turn
        BY <2>7, <2>8, VariablesAreNames DEF Current
      <4>2. n \notin behind' => n # b.rebinds
        BY <2>3, <4>1
      <4>3. DOMAIN global = Names
        BY DEF VInv, VTypeOK
      <4>4. n # b.rebinds => global'[n] = Value(b.promise)
        BY <2>1, <2>2, <2>3, <2>8, <4>3
      <4> QED BY <4>2, <4>4
    <3>4. view'[n].object = b.promise /\ view'[n].storage = evalStorage(heap'[b.promise])
      BY <2>3, <3>2 DEF Shows
    <3>5. n \notin behind' => Found(global'[n]) = b.promise
      BY <3>3, BindingKinds
    <3>6. view'[n] = [object |-> b.promise, storage |-> evalStorage(heap'[b.promise])]
      BY <2>3, <3>2 DEF Shows
    <3> QED BY <3>1, <3>4, <3>5, <3>6 DEF Follows, Shows
  <2>10. ASSUME NEW i \in 1 .. turn - 1 PROVE Follows(Variables[i])'
    <3>1. Variables[i] \in Names /\ Follows(Variables[i])
      BY <2>3, <2>7, VariablesAreNames DEF VInv, ViewsMade
    <3>2. CASE Variables[i] = n
      BY <2>9, <3>2
    <3>3. CASE Variables[i] # n
      <4>1. view'[Variables[i]] = view[Variables[i]]
        BY <2>3, <2>8, <3>1, <3>3 DEF VInv, VTypeOK
      <4>2. Variables[i] # b.rebinds => global'[Variables[i]] = global[Variables[i]]
        BY <2>3, <2>8, <3>1, <3>3 DEF VInv, VTypeOK
      <4>3. Variables[i] = b.rebinds =>
              Variables[i] \in behind' /\ global'[Variables[i]] = b.to
        BY <2>3, <2>7, <3>1 DEF VInv, VTypeOK
      <4> QED BY <2>2, <2>3, <3>1, <4>1, <4>2, <4>3, BindingKinds DEF Follows, Shows
    <3> QED BY <3>2, <3>3
  <2>11. CASE NextTurn
    BY <2>3, <2>4, <2>5, <2>6, <2>8, <2>9, <2>10, <2>11, TurnKeeps
  <2>12. CASE phase' = "stopped" /\ UNCHANGED turn
    BY <2>3, <2>4, <2>5, <2>6, <2>12 DEF VInv, VTypeOK, ViewsMade
  <2> QED BY <2>3, <2>11, <2>12
<1>8. CASE PromiseFails \/ PaintWild
  BY <1>8 DEF PromiseFails, PaintWild, VInv, VTypeOK, ViewsMade
<1>9. CASE EditCell
  <2>1. PICK n, r, c, v : n \in Names /\ Edit(n, r, c, v)
    BY <1>9 DEF EditCell
  <2>0. sound' \subseteq Objects
    BY <2>1 DEF Edit, VInv, VTypeOK
  <2>2. CASE phase' = "stopped" /\ UNCHANGED heap
    BY <1>b, <2>0, <2>1, <2>2 DEF Edit, VInv, VTypeOK, ViewsMade
  <2>3. CASE \E x, i : heap' = setPlain(heap, x, i, v) /\ UNCHANGED phase
    <3>1. \A y \in Objects : DOMAIN heap'[y] = Fields /\ evalStorage(heap'[y]) = evalStorage(heap[y])
      BY <2>3, EditKeepsStorage DEF VInv, VTypeOK
    <3>2. DOMAIN heap' = Objects
      BY <2>3 DEF setPlain, VInv, VTypeOK
    <3>3. phase = "user" /\ phase' = "user" /\ steps < MaxSteps /\ steps' = steps + 1
          /\ UNCHANGED <<global, view, turn, behind>>
      BY <2>1, <2>3 DEF Edit
    <3>4. VTypeOK'
      BY <1>b, <2>0, <3>1, <3>2, <3>3 DEF VInv, VTypeOK
    <3>5. ASSUME NEW m \in Names PROVE Follows(m)'
      <4>1. Follows(m) /\ view[m].object \in Objects
        BY <3>3 DEF VInv, VTypeOK, ViewsMade
      <4>2. m \notin behind => evalStorage(heap'[Found(global[m])]) = evalStorage(heap[Found(global[m])])
        BY <3>1, <4>1 DEF Follows, Shows
      <4> QED BY <3>1, <3>3, <4>1, <4>2 DEF Follows, Shows
    <3> QED BY <3>3, <3>4, <3>5 DEF VInv, ViewsMade
  <2> QED BY <2>1, <2>2, <2>3 DEF Edit, setData
<1> QED BY <1>1, <1>2, <1>3, <1>4, <1>5, <1>6, <1>7, <1>8, <1>9 DEF VNext

LEMMA VInvHolds == VSpec => []VInv
<1> QED BY VInvStart, VInvStep, PTL DEF VSpec

(* Every variable keeps its type, whatever commands, promises and edits do. *)
THEOREM ViewsTyped == VSpec => []VTypeOK
<1>1. VInv => VTypeOK
  BY DEF VInv
<1> QED BY <1>1, VInvHolds, PTL

(* Between two commands every table is that of the value of its variable,   *)
(* and what RObject remembers of its storage is right.                      *)
THEOREM ViewsAreUpToDate == VSpec => []ViewsFollowVariables
<1>1. VInv => ViewsFollowVariables
  BY DEF VInv, ViewsMade, ViewsFollowVariables, Follows
<1> QED BY <1>1, VInvHolds, PTL
-------------------------------------------------------------------------------
(* The arithmetic of a table kept column by column. *)
LEMMA OffsetInside ==
    ASSUME NEW rows \in Nat, NEW columns \in Nat, NEW r \in 0 .. rows - 1, NEW c \in 0 .. columns - 1
    PROVE  c * rows + r \in 0 .. rows * columns - 1
<1>1. c * rows >= 0 /\ (columns - 1 - c) * rows >= 0
  OBVIOUS
<1>2. c * rows + r \in Int /\ rows * columns \in Int
  OBVIOUS
<1> QED BY <1>1, <1>2

LEMMA OffsetOfSome ==
    ASSUME NEW rows \in Nat, NEW columns \in Nat, NEW i \in 0 .. rows * columns - 1
    PROVE  \E r \in 0 .. rows - 1, c \in 0 .. columns - 1 : i = c * rows + r
<1>1. rows > 0
  OBVIOUS
<1>2. i = (i \div rows) * rows + (i % rows) /\ i % rows \in 0 .. rows - 1 /\ i \div rows \in Int
  BY <1>1
<1>3. i \div rows \in 0 .. columns - 1
  BY <1>1, <1>2
<1> QED BY <1>2, <1>3

LEMMA OffsetOfOne ==
    ASSUME NEW rows \in Nat, NEW c \in Nat, NEW d \in Nat, NEW r \in 0 .. rows - 1, NEW s \in 0 .. rows - 1,
           c * rows + r = d * rows + s
    PROVE  c = d /\ r = s
<1>1. ASSUME NEW a \in Nat, NEW b \in Nat, a < b PROVE a * rows + rows <= b * rows
  <2>1. (b - a - 1) * rows >= 0
    BY <1>1
  <2> QED BY <2>1
<1>2. ~(c < d)
  BY <1>1
<1>3. ~(d < c)
  BY <1>1
<1> QED BY <1>2, <1>3

(* An edit keeps the shape of every object. *)
AllShaped == \A x \in Objects : Shaped(heap[x])

LEMMA EditKeepsShape ==
    ASSUME VTypeOK, AllShaped, NEW x, NEW i, NEW v, NEW y \in Objects
    PROVE  Shaped(setPlain(heap, x, i, v)[y])
<1> DEFINE o == setPlain(heap, x, i, v)[y]
<1>1. /\ o.dim = heap[y].dim /\ o.rows = heap[y].rows /\ o.names = heap[y].names
      /\ o.type = heap[y].type /\ evalStorage(o) = evalStorage(heap[y])
  <2>1. /\ o.dim = heap[y].dim /\ o.rows = heap[y].rows /\ o.names = heap[y].names
        /\ o.type = heap[y].type
    BY DEF VTypeOK, setPlain, Fields
  <2>2. evalStorage(o) = evalStorage(heap[y])
    BY EditKeepsStorage DEF VTypeOK
  <2> QED BY <2>1, <2>2
<1>2. o.data = heap[y].data \/ o.data = [heap[y].data EXCEPT ![i + 1] = v[2]]
  BY DEF VTypeOK, setPlain, Fields
<1>3. Len(o.data) = Len(heap[y].data) /\ o.data = [j \in 1 .. Len(o.data) |-> o.data[j]]
  <2> DEFINE s == heap[y].data
  <2>1. Len(s) \in Nat /\ s = [j \in 1 .. Len(s) |-> s[j]]
    BY DEF AllShaped, Shaped
  <2> HIDE DEF s
  <2>2. Len([s EXCEPT ![i + 1] = v[2]]) = Len(s)
    BY <2>1
  <2> QED BY <1>2, <2>1, <2>2 DEF s
<1>4. EmptyBehind(o) <=> EmptyBehind(heap[y])
  BY <1>1 DEF EmptyBehind
<1>5. Shaped(heap[y])
  BY DEF AllShaped
<1> HIDE DEF o
<1>6. Shaped(o)
  BY <1>1, <1>3, <1>4, <1>5 DEF Shaped
<1> QED BY <1>6 DEF o

LEMMA ShapeStep == VInv /\ AllShaped /\ [VNext]_vvars => AllShaped'
<1> SUFFICES ASSUME VInv, AllShaped, [VNext]_vvars PROVE AllShaped'
  OBVIOUS
<1>1. CASE UNCHANGED heap
  BY <1>1 DEF AllShaped
<1>2. CASE Change
  <2>1. PICK x \in Objects : \E o \in Changed[x] : heap' = [heap EXCEPT ![x] = o]
    BY <1>2 DEF Change
  <2>2. PICK o \in Changed[x] : heap' = [heap EXCEPT ![x] = o]
    BY <2>1
  <2>3. Shaped(o)
    BY VariableViewsAssumption
  <2> QED BY <2>2, <2>3 DEF AllShaped, VInv, VTypeOK
<1>3. CASE EditCell
  <2>1. PICK n, r, c, v : n \in Names /\ Edit(n, r, c, v)
    BY <1>3 DEF EditCell
  <2>2. UNCHANGED heap \/ \E x, i : heap' = setPlain(heap, x, i, v)
    BY <2>1 DEF Edit, setData
  <2> QED BY <2>2, EditKeepsShape DEF AllShaped, VInv
<1> QED
  BY <1>1, <1>2, <1>3 DEF VNext, vvars, Stopped, Command, Assign, Answered, UpdateVar, ForcePromise, PromiseFails, PaintWild

LEMMA TableOfAll ==
    ASSUME VTypeOK, AllShaped, NEW x \in Objects,
           evalStorage(heap[x]) = "Matrix" \/ (evalStorage(heap[x]) = "Array" /\ Len(heap[x].dim) = 3)
    PROVE  /\ rowCount(heap, x) \in Nat /\ columnCount(heap, x) \in Nat
           /\ Len(heap[x].data) = rowCount(heap, x) * columnCount(heap, x)
<1> DEFINE d == heap[x].dim
<1>1. d \in Seq(Nat) /\ Shaped(heap[x])
  BY DEF AllShaped, Shaped
<1>2. CASE evalStorage(heap[x]) = "Matrix"
  <2>1. Len(d) = 2
    BY <1>2 DEF evalStorage
  <2>2. rowCount(heap, x) = d[1] /\ columnCount(heap, x) = d[2]
    BY <1>2 DEF rowCount, columnCount
  <2> QED BY <1>1, <1>2, <2>1, <2>2 DEF Shaped
<1>3. CASE evalStorage(heap[x]) = "Array" /\ Len(d) = 3
  <2>1. rowCount(heap, x) = d[1] * d[3] /\ columnCount(heap, x) = d[2]
    BY <1>3 DEF rowCount, columnCount, dimsValue
  <2>2. Len(heap[x].data) = d[1] * d[2] * d[3]
    BY <1>1, <1>3 DEF Shaped
  <2>3. d[1] \in Nat /\ d[2] \in Nat /\ d[3] \in Nat
    BY <1>1, <1>3
  <2>4. d[1] * d[2] * d[3] = d[1] * d[3] * d[2] /\ d[1] * d[3] \in Nat
    BY <2>3
  <2> QED BY <2>1, <2>2, <2>3, <2>4
<1> QED BY <1>2, <1>3

(* A matrix of any size, and an array of three dimensions, is shown element *)
(* by element, each once, whatever is edited and changed in place.          *)
THEOREM EveryElementShownOnce == VSpec => []EachElementOnce
<1>1. VInit => AllShaped
  BY VariableViewsAssumption DEF VInit, AllShaped
<1>2. VInv /\ AllShaped => EachElementOnce
  <2> SUFFICES ASSUME VInv, AllShaped, NEW x \in Objects,
                      evalStorage(heap[x]) = "Matrix" \/ (evalStorage(heap[x]) = "Array" /\ Len(heap[x].dim) = 3)
               PROVE  ShownOnce(x)
    BY DEF EachElementOnce, VInv, VTypeOK
  <2> DEFINE rows == rowCount(heap, x)
             columns == columnCount(heap, x)
  <2>1. rows \in Nat /\ columns \in Nat /\ Len(heap[x].data) = rows * columns
    BY TableOfAll DEF VInv
  <2>2. \A r, c : Place(heap, x, r, c) = << x, c * rows + r >>
    BY DEF Place, Wild
  <2>3. Cells(heap, x) = (0 .. rows - 1) \X (0 .. columns - 1)
    BY DEF Cells
  <2> HIDE DEF rows, columns
  <2>4. ASSUME NEW i \in 0 .. Len(heap[x].data) - 1
        PROVE  \E cell \in Cells(heap, x) : Place(heap, x, cell[1], cell[2]) = << x, i >>
    <3>1. PICK r \in 0 .. rows - 1, c \in 0 .. columns - 1 : i = c * rows + r
      <4>1. i \in 0 .. rows * columns - 1
        BY <2>1
      <4> QED BY <2>1, <4>1, OffsetOfSome
    <3>2. << r, c >> \in Cells(heap, x) /\ << r, c >>[1] = r /\ << r, c >>[2] = c
      BY <2>3
    <3> QED BY <2>2, <3>1, <3>2
  <2>5. ASSUME NEW a \in Cells(heap, x), NEW b \in Cells(heap, x)
        PROVE  /\ Inside(heap[x], Place(heap, x, a[1], a[2])[2])
               /\ a # b => Place(heap, x, a[1], a[2]) # Place(heap, x, b[1], b[2])
    <3>1. /\ a[1] \in 0 .. rows - 1 /\ a[2] \in 0 .. columns - 1 /\ a = << a[1], a[2] >>
          /\ b[1] \in 0 .. rows - 1 /\ b[2] \in 0 .. columns - 1 /\ b = << b[1], b[2] >>
      BY <2>3
    <3>2. Inside(heap[x], a[2] * rows + a[1])
      BY <2>1, <3>1, OffsetInside DEF Inside
    <3>3. a[2] * rows + a[1] = b[2] * rows + b[1] => a[1] = b[1] /\ a[2] = b[2]
      BY <2>1, <3>1, OffsetOfOne
    <3> QED BY <2>2, <3>1, <3>2, <3>3
  <2> QED BY <2>4, <2>5 DEF ShownOnce
<1> QED BY <1>1, <1>2, VInvHolds, VInvStart, VInvStep, ShapeStep, PTL DEF VSpec
-------------------------------------------------------------------------------
(* Edits.  What is known of the objects, whatever is edited: a table's       *)
(* columns and levels are objects.                                          *)
Made(o) ==
    /\ o.type = "Generic" => \A i \in DOMAIN o.data : o.data[i] \in Columns
    /\ evalStorage(o) = "Factor" => o.levels \in Levels

WellMade == \A x \in Objects : Made(heap[x])

HeapInv == VTypeOK /\ AllShaped /\ WellMade

Enterable == {"Bool", "Int", "String"}

\* The cell in row r and column c can be edited, and v be entered.
Editing(x, r, c, v) ==
    /\ << r, c >> \in Cells(heap, x)
    /\ v \in Entered(data(heap, x, r, c))
    /\ editable(heap, x, r, c)
    /\ Writable(Target(heap, x, r, c))

LEMMA StorageOfType ==
    ASSUME NEW o
    PROVE  /\ evalStorage(o) \in {"Frame", "List"} /\ ~Wild(o) => o.type \in {"Null", "Generic"}
           /\ evalStorage(o) = "Factor" => o.type = "Int"
           /\ evalStorage(o) = "Other" => o.type \notin Enterable
BY DEF evalStorage, Wild, Enterable, Plain, Vectors

(* Where a cell leads: to a column of the table, to the levels of a factor,  *)
(* or to the object itself.                                                  *)
LEMMA PlaceFound ==
    ASSUME HeapInv, NEW x \in Objects, NEW r, NEW c, << r, c >> \in Cells(heap, x)
    PROVE  LET p == Place(heap, x, r, c)
               t == Target(heap, x, r, c)
           IN  /\ p[1] \in Objects /\ t[1] \in Objects
               /\ evalStorage(heap[x]) \in {"Frame", "List"} /\ ~Wild(heap[x]) =>
                     /\ p = << Element(heap[x], c), r >>
                     /\ heap[x].type = "Generic" /\ c + 1 \in DOMAIN heap[x].data
               /\ Wild(heap[x]) => t = << x, -1 >> /\ ~IsLevel(heap, x, r, c)
               /\ IsLevel(heap, x, r, c) => t[1] \in Levels /\ evalStorage(heap[p[1]]) = "Factor"
               /\ ~IsLevel(heap, x, r, c) => t = p
<1> DEFINE p == Place(heap, x, r, c)
           t == Target(heap, x, r, c)
<1>1. /\ evalStorage(heap[x]) \in {"Frame", "List"} /\ ~Wild(heap[x]) => p = << Element(heap[x], c), r >>
      /\ Wild(heap[x]) => p = << x, -1 >>
      /\ evalStorage(heap[x]) \notin {"Frame", "List"} => p[1] = x
  BY DEF Place, Wild
<1>2. ASSUME evalStorage(heap[x]) \in {"Frame", "List"}, ~Wild(heap[x])
      PROVE  heap[x].type = "Generic" /\ c + 1 \in DOMAIN heap[x].data /\ Element(heap[x], c) \in Columns
  <2>1. c \in 0 .. columnCount(heap, x) - 1
    BY DEF Cells
  <2>2. columnCount(heap, x) \in {0, Len(heap[x].data)}
    BY <1>2 DEF columnCount, HeapInv, AllShaped, Shaped
  <2>3. Len(heap[x].data) \in Nat /\ DOMAIN heap[x].data = 1 .. Len(heap[x].data)
    BY DEF HeapInv, AllShaped, Shaped
  <2>4. c + 1 \in DOMAIN heap[x].data
    BY <2>1, <2>2, <2>3
  <2>5. heap[x].type # "Null"
    <3>1. heap[x].data # <<>>
      BY <2>4
    <3> QED BY <3>1 DEF HeapInv, AllShaped, Shaped
  <2>6. heap[x].type = "Generic"
    BY <1>2, <2>5, StorageOfType
  <2> QED BY <2>4, <2>6 DEF Element, HeapInv, WellMade, Made
<1>3. p[1] \in Objects
  BY <1>1, <1>2, ObjectsAssumption
<1>4. IsLevel(heap, x, r, c) => t[1] \in Levels /\ evalStorage(heap[p[1]]) = "Factor"
  <2>1. IsLevel(heap, x, r, c) => evalStorage(heap[p[1]]) = "Factor" /\ t[1] = heap[p[1]].levels
    BY DEF IsLevel, Target
  <2> QED BY <1>3, <2>1 DEF HeapInv, WellMade, Made
<1>5. ~IsLevel(heap, x, r, c) => t = p
  BY DEF Target
<1>6. t[1] \in Objects
  BY <1>3, <1>4, <1>5, ObjectsAssumption
<1>7. Wild(heap[x]) => ~IsLevel(heap, x, r, c)
  BY <1>1 DEF IsLevel, Wild
<1> HIDE DEF p, t
<1>8. evalStorage(heap[x]) \in {"Frame", "List"} /\ ~Wild(heap[x]) =>
         /\ p = << Element(heap[x], c), r >>
         /\ heap[x].type = "Generic" /\ c + 1 \in DOMAIN heap[x].data
  BY <1>1, <1>2
<1> QED BY <1>1, <1>3, <1>4, <1>5, <1>6, <1>7, <1>8 DEF p, t

(* Only bare vectors of texts, numbers and truth values are written to.      *)
LEMMA EditedVector ==
    ASSUME HeapInv, NEW x \in Objects, NEW r, NEW c, NEW v, Editing(x, r, c, v)
    PROVE  LET t == Target(heap, x, r, c)
           IN  /\ t[1] \in Objects /\ Inside(heap[t[1]], t[2])
               /\ t[2] \in Nat /\ t[2] + 1 \in 1 .. Len(heap[t[1]].data)
               /\ heap[t[1]].type \in Enterable
               /\ v = << heap[t[1]].type, v[2] >>
               /\ heap[t[1]].type = "Bool" => v[2] \in {0, 1}
               /\ evalStorage(heap[x]) # "Other" /\ ~Wild(heap[x])
               /\ evalStorage(heap[x]) \in {"Frame", "List"} => heap[x].type = "Generic"
<1> DEFINE t == Target(heap, x, r, c)
           o == heap[t[1]]
<1>1. t[1] \in Objects /\ Inside(o, t[2]) /\ o.type # "Byte"
  BY PlaceFound DEF Editing, Writable
<1>2. Len(o.data) \in Nat
  BY <1>1 DEF HeapInv, AllShaped, Shaped
<1>3. t[2] \in Nat /\ t[2] + 1 \in 1 .. Len(o.data)
  BY <1>1, <1>2 DEF Inside
<1>0. ~Wild(heap[x])
  <2>1. Wild(heap[x]) => t = << x, -1 >>
    BY PlaceFound DEF Editing
  <2> QED BY <1>3, <2>1
<1>4. evalStorage(heap[x]) # "Other"
  <2>1. evalStorage(heap[x]) = "Other" => ~Wild(heap[x]) /\ data(heap, x, r, c) = Invalid
    BY DEF data, Wild
  <2>2. Entered(Invalid) = {}
    BY DEF Entered, Invalid
  <2> QED BY <2>1, <2>2 DEF Editing
<1>5. ~ (evalStorage(heap[x]) = "List" /\ r >= Len(o.data))
  <2> SUFFICES ASSUME evalStorage(heap[x]) = "List" PROVE ~ (r >= Len(o.data))
    OBVIOUS
  <2>1. t = << Element(heap[x], c), r >>
    BY <1>0, PlaceFound DEF IsLevel, Editing
  <2> QED BY <1>2, <1>3, <2>1
<1>6. ~ (evalStorage(heap[x]) = "Factor" /\ (t[2] > Len(o.data) \/ t[2] < 0))
  BY <1>2, <1>3
<1>7. data(heap, x, r, c) = plain(o, t[2])
  BY <1>0, <1>4, <1>5, <1>6 DEF data
<1>8. v \in Entered(plain(o, t[2]))
  BY <1>7 DEF Editing
<1>10. evalStorage(heap[x]) \in {"Frame", "List"} => heap[x].type = "Generic"
  BY <1>0, PlaceFound DEF Editing
<1> HIDE DEF t
<1>9. /\ o.type \in Enterable
      /\ v = << o.type, v[2] >> /\ (o.type = "Bool" => v[2] \in {0, 1})
  <2>1. o.type \in {"Bool", "Int", "String", "Byte"}
    <3>1. Entered(Invalid) = {}
      BY DEF Entered, Invalid
    <3>2. o.type \notin {"Bool", "Int", "String", "Byte"} => plain(o, t[2]) = Invalid
      BY DEF plain, Plain
    <3> QED BY <1>8, <3>1, <3>2
  <2>2. CASE o.type = "Bool"
    BY <1>1, <1>8, <2>2 DEF plain, Entered, Variant, Enterable, Plain
  <2>3. CASE o.type = "Int"
    BY <1>1, <1>8, <2>3 DEF plain, Entered, Variant, Enterable, Plain
  <2>4. CASE o.type = "String"
    BY <1>1, <1>8, <2>4 DEF plain, Entered, Variant, Enterable, Plain
  <2> QED BY <1>1, <2>1, <2>2, <2>3, <2>4
<1> QED BY <1>0, <1>1, <1>3, <1>4, <1>9, <1>10 DEF t

(* setPlain changes one element and nothing else. *)
Written(h, y, i, v) ==
    /\ DOMAIN h = Objects
    /\ \A z \in Objects :
          /\ z # y => h[z] = heap[z]
          /\ h[z].type = heap[z].type /\ h[z].class = heap[z].class
          /\ h[z].dim = heap[z].dim /\ h[z].rows = heap[z].rows /\ h[z].names = heap[z].names
          /\ h[z].levels = heap[z].levels
          /\ evalStorage(h[z]) = evalStorage(heap[z])
          /\ Len(h[z].data) = Len(heap[z].data)
    /\ h[y].data[i + 1] = v[2]
    /\ \A j \in 1 .. Len(heap[y].data) : j # i + 1 => h[y].data[j] = heap[y].data[j]

LEMMA OneElementWritten ==
    ASSUME HeapInv, NEW y \in Objects, NEW i \in Nat, i + 1 \in 1 .. Len(heap[y].data), NEW v
    PROVE  Written(setPlain(heap, y, i, v), y, i, v)
<1> DEFINE h == setPlain(heap, y, i, v)
           s == heap[y].data
<1>1. DOMAIN heap = Objects /\ \A z \in Objects : DOMAIN heap[z] = Fields
  BY DEF HeapInv, VTypeOK
<1>2. Len(s) \in Nat /\ DOMAIN s = 1 .. Len(s)
  BY DEF HeapInv, AllShaped, Shaped
<1>3. DOMAIN h = Objects /\ (\A z \in Objects : z # y => h[z] = heap[z])
  BY <1>1 DEF setPlain
<1>4. h[y] = [heap[y] EXCEPT !["data"] = [s EXCEPT ![i + 1] = v[2]]]
  BY <1>1 DEF setPlain
<1>5. h[y].data = [s EXCEPT ![i + 1] = v[2]]
  BY <1>1, <1>4 DEF Fields
<1>6. /\ h[y].type = heap[y].type /\ h[y].class = heap[y].class
      /\ h[y].dim = heap[y].dim /\ h[y].rows = heap[y].rows /\ h[y].names = heap[y].names
      /\ h[y].levels = heap[y].levels
  BY <1>1, <1>4 DEF Fields
<1> HIDE DEF s
<1>7. /\ Len([s EXCEPT ![i + 1] = v[2]]) = Len(s)
      /\ [s EXCEPT ![i + 1] = v[2]][i + 1] = v[2]
      /\ \A j \in 1 .. Len(s) : j # i + 1 => [s EXCEPT ![i + 1] = v[2]][j] = s[j]
  BY <1>2 DEF s
<1>8. \A z \in Objects : evalStorage(h[z]) = evalStorage(heap[z])
  BY <1>1, EditKeepsStorage
<1>9. \A z \in Objects : /\ h[z].type = heap[z].type /\ h[z].class = heap[z].class
                         /\ h[z].dim = heap[z].dim /\ h[z].rows = heap[z].rows
                         /\ h[z].names = heap[z].names
                         /\ h[z].levels = heap[z].levels /\ Len(h[z].data) = Len(heap[z].data)
  BY <1>3, <1>5, <1>6, <1>7 DEF s
<1> HIDE DEF h
<1>10. Written(h, y, i, v)
  BY <1>3, <1>5, <1>7, <1>8, <1>9 DEF s, Written
<1> QED BY <1>10 DEF h

(* A write leaves every cell of the table where it was.                      *)
LEMMA TargetsStay ==
    ASSUME HeapInv, NEW x \in Objects, NEW r, NEW c, NEW v, Editing(x, r, c, v), TextLevels(x)
    PROVE  LET h == setData(heap, x, r, c, v)
           IN  \A b \in Cells(heap, x) :
                  /\ Place(h, x, b[1], b[2]) = Place(heap, x, b[1], b[2])
                  /\ IsLevel(h, x, b[1], b[2]) <=> IsLevel(heap, x, b[1], b[2])
                  /\ Target(h, x, b[1], b[2]) = Target(heap, x, b[1], b[2])
<1> DEFINE t == Target(heap, x, r, c)
           h == setData(heap, x, r, c, v)
<1>1. /\ t[1] \in Objects /\ t[2] \in Nat /\ t[2] + 1 \in 1 .. Len(heap[t[1]].data)
      /\ heap[t[1]].type \in Enterable /\ ~Wild(heap[x])
      /\ evalStorage(heap[x]) \in {"Frame", "List"} => heap[x].type = "Generic"
  BY EditedVector
<1>2. h = setPlain(heap, t[1], t[2], v)
  BY DEF setData
<1> HIDE DEF h, t
<1>3. \A z \in Objects :
         /\ z # t[1] => h[z] = heap[z]
         /\ h[z].dim = heap[z].dim /\ h[z].levels = heap[z].levels
         /\ evalStorage(h[z]) = evalStorage(heap[z]) /\ h[z].type = heap[z].type
  <2>1. Written(h, t[1], t[2], v)
    BY <1>1, <1>2, OneElementWritten
  <2> QED BY <2>1 DEF Written
<1> SUFFICES ASSUME NEW b \in Cells(heap, x)
             PROVE  /\ Place(h, x, b[1], b[2]) = Place(heap, x, b[1], b[2])
                    /\ IsLevel(h, x, b[1], b[2]) <=> IsLevel(heap, x, b[1], b[2])
                    /\ Target(h, x, b[1], b[2]) = Target(heap, x, b[1], b[2])
  BY DEF h
<1> DEFINE p == Place(heap, x, b[1], b[2])
<1>4. << b[1], b[2] >> \in Cells(heap, x)
  BY DEF Cells
<1>5. p[1] \in Objects
  BY <1>4, PlaceFound
<1>6. evalStorage(heap[x]) \in {"Frame", "List"} => x # t[1]
  BY <1>1 DEF Enterable
<1>11. ~Wild(h[x])
  BY <1>1, <1>3 DEF Wild
<1>7. Place(h, x, b[1], b[2]) = p
  <2>1. CASE evalStorage(heap[x]) \in {"Matrix", "Array"}
    <3>1. rowCount(h, x) = rowCount(heap, x)
      BY <1>3, <2>1 DEF rowCount, dimsValue
    <3> QED BY <1>3, <2>1, <3>1 DEF Place, Wild
  <2>2. CASE evalStorage(heap[x]) \in {"Frame", "List"}
    BY <1>1, <1>3, <1>6, <1>11, <2>2 DEF Place, Wild
  <2>3. CASE evalStorage(heap[x]) \notin {"Matrix", "Array", "Frame", "List"}
    BY <1>3, <2>3 DEF Place, Wild
  <2> QED BY <2>1, <2>2, <2>3
<1>8. IsLevel(h, x, b[1], b[2]) <=> IsLevel(heap, x, b[1], b[2])
  BY <1>3, <1>5, <1>7 DEF IsLevel
<1>9. ASSUME IsLevel(heap, x, b[1], b[2]) PROVE p[1] # t[1]
  <2>1. evalStorage(heap[p[1]]) = "Factor" /\ heap[p[1]].type = "Int"
    BY <1>4, <1>5, <1>9, PlaceFound, StorageOfType
  <2>2. CASE IsLevel(heap, x, r, c)
    <3> DEFINE f == Place(heap, x, r, c)[1]
    <3>1. evalStorage(heap[f]) = "Factor" /\ t[1] = heap[f].levels
      BY <2>2 DEF IsLevel, Target, t
    <3>2. CASE evalStorage(heap[x]) = "Frame"
      <4>1. f = heap[x].data[c + 1] /\ c + 1 \in DOMAIN heap[x].data /\ heap[x].type = "Generic"
        BY <1>1, <3>2, PlaceFound DEF Editing, Element
      <4>2. f \in Range(heap[x].data)
        BY <4>1 DEF Range
      <4> QED BY <1>1, <2>1, <3>1, <4>1, <4>2 DEF TextLevels
    <3>3. CASE evalStorage(heap[x]) = "Factor"
      <4>1. f = x
        BY <3>3 DEF Place, Wild
      <4> QED BY <1>1, <2>1, <3>1, <4>1 DEF TextLevels
    <3> QED BY <2>2, <3>2, <3>3 DEF IsLevel
  <2>3. CASE ~IsLevel(heap, x, r, c)
    <3>1. t = Place(heap, x, r, c) /\ Place(heap, x, r, c)[1] \in Objects
      BY <2>3, PlaceFound DEF Editing, t
    <3>2. evalStorage(heap[x]) \in {"Frame", "Factor"}
      BY <1>9 DEF IsLevel
    <3> QED BY <2>1, <2>3, <3>1, <3>2 DEF IsLevel
  <2> QED BY <2>2, <2>3
<1>10. Target(h, x, b[1], b[2]) = Target(heap, x, b[1], b[2])
  <2>1. CASE IsLevel(heap, x, b[1], b[2])
    BY <1>3, <1>5, <1>7, <1>8, <1>9, <2>1 DEF Target, code, Inside, Element
  <2>2. CASE ~IsLevel(heap, x, b[1], b[2])
    BY <1>7, <1>8, <2>2 DEF Target
  <2> QED BY <2>1, <2>2
<1> QED BY <1>7, <1>8, <1>10

LEMMA TableSize ==
    ASSUME HeapInv, NEW x \in Objects, evalStorage(heap[x]) \in {"Matrix", "Array"}
    PROVE  rowCount(heap, x) \in Nat /\ columnCount(heap, x) \in Nat
<1> DEFINE o == heap[x]
<1>1. o.dim \in Seq(Nat) /\ Shaped(o)
  BY DEF HeapInv, AllShaped, Shaped
<1>2. \A i \in Nat : dimsValue(o, i) \in Nat
  BY <1>1, BeyondAssumption DEF dimsValue
<1>3. CASE evalStorage(o) = "Matrix"
  <2>1. Len(o.dim) = 2
    BY <1>3 DEF evalStorage
  <2> QED BY <1>1, <1>3, <2>1 DEF rowCount, columnCount
<1>4. CASE evalStorage(o) = "Array"
  <2>1. rowCount(heap, x) = dimsValue(o, 0) * dimsValue(o, 2) /\ columnCount(heap, x) = dimsValue(o, 1)
    BY <1>4 DEF rowCount, columnCount
  <2>2. dimsValue(o, 0) \in Nat /\ dimsValue(o, 1) \in Nat /\ dimsValue(o, 2) \in Nat
    BY <1>2
  <2> QED BY <2>1, <2>2
<1> QED BY <1>3, <1>4

(* Two cells of a table stand for one element only if R shares it.           *)
LEMMA OneTarget ==
    ASSUME HeapInv, NEW x \in Objects, NEW a \in Cells(heap, x), NEW b \in Cells(heap, x), a # b,
           evalStorage(heap[x]) # "Other", ~Wild(heap[x]),
           Target(heap, x, a[1], a[2]) = Target(heap, x, b[1], b[2])
    PROVE  Same(x, a, b)
<1>1. << a[1], a[2] >> \in Cells(heap, x) /\ << b[1], b[2] >> \in Cells(heap, x)
  BY DEF Cells
<1>2. CASE IsLevel(heap, x, a[1], a[2]) /\ IsLevel(heap, x, b[1], b[2])
  BY <1>2 DEF Same
<1>3. ASSUME NEW d \in Cells(heap, x), NEW e \in Cells(heap, x),
             << e[1], e[2] >> \in Cells(heap, x),
             IsLevel(heap, x, d[1], d[2]), ~IsLevel(heap, x, e[1], e[2]),
             Target(heap, x, d[1], d[2]) = Target(heap, x, e[1], e[2])
      PROVE  Target(heap, x, d[1], d[2]) = << Element(heap[x], e[2]), e[1] >>
  <2>1. Target(heap, x, e[1], e[2]) = Place(heap, x, e[1], e[2])
    BY <1>3, PlaceFound
  <2>2. evalStorage(heap[x]) # "Factor"
    BY <1>3 DEF IsLevel, Place, Wild
  <2>3. evalStorage(heap[x]) = "Frame"
    BY <1>3, <2>2 DEF IsLevel
  <2> QED BY <1>3, <2>1, <2>3, PlaceFound
<1>4. CASE IsLevel(heap, x, a[1], a[2]) /\ ~IsLevel(heap, x, b[1], b[2])
  <2>1. Target(heap, x, a[1], a[2]) = << Element(heap[x], b[2]), b[1] >>
    BY <1>1, <1>3, <1>4
  <2> QED BY <1>4, <2>1 DEF Same
<1>6. CASE ~IsLevel(heap, x, a[1], a[2]) /\ IsLevel(heap, x, b[1], b[2])
  <2>1. Target(heap, x, b[1], b[2]) = << Element(heap[x], a[2]), a[1] >>
    BY <1>1, <1>3, <1>6
  <2> QED BY <1>6, <2>1 DEF Same
<1>5. CASE ~IsLevel(heap, x, a[1], a[2]) /\ ~IsLevel(heap, x, b[1], b[2])
  <2>1. Place(heap, x, a[1], a[2]) = Place(heap, x, b[1], b[2])
    BY <1>5 DEF Target
  <2>2. CASE evalStorage(heap[x]) \in {"Frame", "List"}
    BY <2>1, <2>2 DEF Place, Same, Wild
  <2>3. CASE evalStorage(heap[x]) \in {"Matrix", "Array"}
    <3> DEFINE rows == rowCount(heap, x)
               columns == columnCount(heap, x)
    <3>1. rows \in Nat /\ columns \in Nat
      BY <2>3, TableSize
    <3> HIDE DEF rows, columns
    <3>2. /\ a[1] \in 0 .. rows - 1 /\ a[2] \in 0 .. columns - 1 /\ a = << a[1], a[2] >>
          /\ b[1] \in 0 .. rows - 1 /\ b[2] \in 0 .. columns - 1 /\ b = << b[1], b[2] >>
      BY DEF Cells, rows, columns
    <3>3. a[2] * rows + a[1] = b[2] * rows + b[1]
      BY <2>1, <2>3 DEF Place, rows, Wild
    <3>4. a[2] \in Nat /\ b[2] \in Nat
      BY <3>1, <3>2
    <3> QED BY <3>1, <3>2, <3>3, <3>4, OffsetOfOne
  <2>4. CASE evalStorage(heap[x]) \in {"Factor", "Vector"}
    <3>1. a[1] = b[1]
      BY <2>1, <2>4 DEF Place, Wild
    <3>2. a[2] \in 0 .. 0 /\ b[2] \in 0 .. 0 /\ a = << a[1], a[2] >> /\ b = << b[1], b[2] >>
      BY <2>4 DEF Cells, columnCount
    <3> QED BY <3>1, <3>2
  <2>5. evalStorage(heap[x]) \in {"Frame", "List", "Matrix", "Array", "Factor", "Vector"}
    BY DEF evalStorage
  <2> QED BY <2>2, <2>3, <2>4, <2>5
<1> QED BY <1>2, <1>4, <1>5, <1>6

LEMMA InitialMade == \A x \in Objects : Made(Initial[x])
<1> SUFFICES ASSUME NEW x \in Objects PROVE Made(Initial[x])
  OBVIOUS
<1>1. Initial[x].type = "Generic" => \A i \in DOMAIN Initial[x].data : Initial[x].data[i] \in Columns
  BY DEF Columns
<1>2. evalStorage(Initial[x]) = "Factor" => Initial[x].levels \in Levels
  BY DEF Levels
<1> QED BY <1>1, <1>2 DEF Made

LEMMA MadeStart == VInit => WellMade
BY InitialMade DEF VInit, WellMade

LEMMA EditIsEditing ==
    ASSUME NEW n \in Names, NEW cell \in Cells(heap, view[n].object), NEW v,
           v \in Entered(data(heap, view[n].object, cell[1], cell[2])),
           Edit(n, cell[1], cell[2], v), heap' # heap \/ phase' = "user"
    PROVE  /\ Editing(view[n].object, cell[1], cell[2], v)
           /\ heap' = setData(heap, view[n].object, cell[1], cell[2], v)
<1>1. << cell[1], cell[2] >> \in Cells(heap, view[n].object)
  BY DEF Cells
<1>2. Writable(Target(heap, view[n].object, cell[1], cell[2]))
  BY DEF Edit
<1> QED BY <1>1, <1>2 DEF Edit, Editing

LEMMA EditWrites ==
    ASSUME HeapInv, NEW x \in Objects, NEW r, NEW c, NEW v, Editing(x, r, c, v)
    PROVE  Written(setData(heap, x, r, c, v), Target(heap, x, r, c)[1], Target(heap, x, r, c)[2], v)
<1> DEFINE t == Target(heap, x, r, c)
<1>1. t[1] \in Objects /\ t[2] \in Nat /\ t[2] + 1 \in 1 .. Len(heap[t[1]].data)
  BY EditedVector
<1>2. setData(heap, x, r, c, v) = setPlain(heap, t[1], t[2], v)
  BY DEF setData
<1> HIDE DEF t
<1>3. Written(setPlain(heap, t[1], t[2], v), t[1], t[2], v)
  BY <1>1, OneElementWritten
<1> QED BY <1>2, <1>3 DEF t

LEMMA MadeStep == VInv /\ AllShaped /\ WellMade /\ [VNext]_vvars => WellMade'
<1> SUFFICES ASSUME VInv, AllShaped, WellMade, [VNext]_vvars PROVE WellMade'
  OBVIOUS
<1>0. HeapInv
  BY DEF HeapInv, VInv
<1>1. CASE UNCHANGED heap
  BY <1>1 DEF WellMade
<1>2. CASE Change
  <2>1. PICK x \in Objects : \E o \in Changed[x] : heap' = [heap EXCEPT ![x] = o]
    BY <1>2 DEF Change
  <2>2. PICK o \in Changed[x] : heap' = [heap EXCEPT ![x] = o]
    BY <2>1
  <2>3. PICK y \in Objects : o = Initial[y]
    BY VariableViewsAssumption
  <2>4. \A z \in Objects : heap'[z] = IF z = x THEN o ELSE heap[z]
    BY <2>2 DEF VInv, VTypeOK
  <2> QED BY <2>3, <2>4, InitialMade DEF WellMade
<1>3. CASE EditCell /\ heap' # heap
  <2>1. PICK n \in Names : \E cell \in Cells(heap, view[n].object) :
           \E v \in Entered(data(heap, view[n].object, cell[1], cell[2])) : Edit(n, cell[1], cell[2], v)
    BY <1>3 DEF EditCell
  <2>2. PICK cell \in Cells(heap, view[n].object) :
           \E v \in Entered(data(heap, view[n].object, cell[1], cell[2])) : Edit(n, cell[1], cell[2], v)
    BY <2>1
  <2>3. PICK v \in Entered(data(heap, view[n].object, cell[1], cell[2])) : Edit(n, cell[1], cell[2], v)
    BY <2>2
  <2>4. view[n].object \in Objects
    BY DEF VInv, VTypeOK
  <2>5. PICK x, r, c : x \in Objects /\ x = view[n].object /\ r = cell[1] /\ c = cell[2]
    BY <2>4
  <2>6. Editing(x, r, c, v) /\ heap' = setData(heap, x, r, c, v)
    BY <1>3, <2>3, <2>5, EditIsEditing
  <2>7. /\ Target(heap, x, r, c)[1] \in Objects
        /\ heap[Target(heap, x, r, c)[1]].type \in Enterable
    BY <1>0, <2>5, <2>6, EditedVector
  <2>8. PICK y, i : y \in Objects /\ Written(heap', y, i, v) /\ heap[y].type \in Enterable
    BY <1>0, <2>5, <2>6, <2>7, EditWrites
  <2> SUFFICES ASSUME NEW z \in Objects PROVE Made(heap'[z])
    BY DEF WellMade
  <2>9. Made(heap[z])
    BY DEF WellMade
  <2>10. CASE z # y
    BY <2>8, <2>9, <2>10 DEF Written
  <2>11. CASE z = y
    <3>1. evalStorage(heap'[z]) = evalStorage(heap[z]) /\ heap'[z].type = heap[z].type
          /\ heap'[z].levels = heap[z].levels
      BY <2>8 DEF Written
    <3> QED BY <2>8, <2>9, <2>11, <3>1 DEF Made, Enterable
  <2> QED BY <2>10, <2>11
<1> QED
  BY <1>1, <1>2, <1>3 DEF VNext, vvars, Stopped, Command, Assign, Answered, UpdateVar, ForcePromise, PromiseFails, PaintWild

LEMMA HeapHolds == VSpec => [](VInv /\ HeapInv)
<1>1. VInit => VInv /\ AllShaped /\ WellMade
  BY VInvStart, MadeStart, VariableViewsAssumption DEF VInit, AllShaped
<1>2. VInv /\ AllShaped /\ WellMade /\ [VNext]_vvars => (VInv /\ AllShaped /\ WellMade)'
  BY VInvStep, ShapeStep, MadeStep
<1>3. VInv /\ AllShaped /\ WellMade => VInv /\ HeapInv
  BY DEF HeapInv, VInv
<1> QED BY <1>1, <1>2, <1>3, PTL DEF VSpec

(* What is entered is what is shown, there and nowhere else. *)
LEMMA EditExact ==
    ASSUME HeapInv, NEW x \in Objects, NEW r, NEW c, NEW v, Editing(x, r, c, v), TextLevels(x)
    PROVE  LET h == setData(heap, x, r, c, v)
           IN  /\ data(h, x, r, c) = v
               /\ \A b \in Cells(heap, x) \ {<< r, c >>} :
                     data(h, x, b[1], b[2]) = data(heap, x, b[1], b[2]) \/ Same(x, << r, c >>, b)
<1> DEFINE t == Target(heap, x, r, c)
           h == setData(heap, x, r, c, v)
           o == heap[t[1]]
<1>1. /\ t[1] \in Objects /\ Inside(o, t[2])
      /\ t[2] \in Nat /\ t[2] + 1 \in 1 .. Len(o.data)
      /\ o.type \in Enterable /\ v = << o.type, v[2] >>
      /\ o.type = "Bool" => v[2] \in {0, 1}
      /\ evalStorage(heap[x]) # "Other" /\ ~Wild(heap[x])
  BY EditedVector
<1>2. Written(h, t[1], t[2], v)
  BY EditWrites
<1>3. << r, c >> \in Cells(heap, x)
  BY DEF Editing
<1>4. \A b \in Cells(heap, x) : Target(h, x, b[1], b[2]) = Target(heap, x, b[1], b[2])
  BY TargetsStay
<1>5. Target(h, x, r, c) = t
  BY <1>3, <1>4
<1> HIDE DEF t, h
<1>6. \A z \in Objects :
         /\ evalStorage(h[z]) = evalStorage(heap[z]) /\ h[z].type = heap[z].type
         /\ Len(h[z].data) = Len(heap[z].data)
  BY <1>2 DEF Written
<1>7. plain(h[t[1]], t[2]) = v
  <2>1. Inside(h[t[1]], t[2]) /\ h[t[1]].type = o.type /\ Element(h[t[1]], t[2]) = v[2]
    BY <1>1, <1>2 DEF Written, Inside, Element
  <2> QED BY <1>1, <2>1 DEF plain, Variant, Plain, Enterable
<1>8. data(h, x, r, c) = v
  <2>1. Len(o.data) \in Nat
    BY <1>1 DEF HeapInv, AllShaped, Shaped
  <2>2. ~ (evalStorage(heap[x]) = "List" /\ r >= Len(o.data))
    <3> SUFFICES ASSUME evalStorage(heap[x]) = "List" PROVE ~ (r >= Len(o.data))
      OBVIOUS
    <3>1. t = << Element(heap[x], c), r >>
      BY <1>1, <1>3, PlaceFound DEF IsLevel, t
    <3> QED BY <1>1, <2>1, <3>1
  <2>3. ~ (t[2] > Len(o.data) \/ t[2] < 0)
    BY <1>1, <2>1
  <2>4. ~Wild(h[x])
    BY <1>1, <1>6 DEF Wild
  <2> QED BY <1>1, <1>5, <1>6, <1>7, <2>2, <2>3, <2>4 DEF data
<1>9. ASSUME NEW b \in Cells(heap, x), b # << r, c >>, ~Same(x, << r, c >>, b)
      PROVE  data(h, x, b[1], b[2]) = data(heap, x, b[1], b[2])
  <2> DEFINE u == Target(heap, x, b[1], b[2])
  <2>1. Target(h, x, b[1], b[2]) = u
    BY <1>4
  <2>2. u # t
    <3>1. PICK a \in Cells(heap, x) : a = << r, c >>
      BY <1>3
    <3>2. Target(heap, x, a[1], a[2]) # Target(heap, x, b[1], b[2])
      BY <1>1, <1>9, <3>1, OneTarget
    <3> QED BY <3>1, <3>2 DEF t
  <2>3. u[1] \in Objects /\ u = << u[1], u[2] >> /\ t = << t[1], t[2] >>
    <3>1. << b[1], b[2] >> \in Cells(heap, x)
      BY DEF Cells
    <3>2. u[1] \in Objects
      BY <3>1, PlaceFound
    <3>3. u = << u[1], u[2] >> /\ t = << t[1], t[2] >>
      BY DEF Target, Place, t
    <3> QED BY <3>2, <3>3
  <2> HIDE DEF u
  <2>4. plain(h[u[1]], u[2]) = plain(heap[u[1]], u[2])
    <3>1. CASE u[1] # t[1]
      BY <1>2, <2>3, <3>1 DEF Written
    <3>2. CASE u[1] = t[1]
      <4>1. u[2] # t[2]
        BY <2>2, <2>3, <3>2
      <4>2. h[t[1]].type = o.type /\ Len(h[t[1]].data) = Len(o.data) /\ Len(o.data) \in Nat
        BY <1>1, <1>6 DEF HeapInv, AllShaped, Shaped
      <4>3. Inside(h[t[1]], u[2]) <=> Inside(o, u[2])
        BY <4>2 DEF Inside
      <4>4. Inside(o, u[2]) => Element(h[t[1]], u[2]) = Element(o, u[2])
        <5> SUFFICES ASSUME Inside(o, u[2]) PROVE h[t[1]].data[u[2] + 1] = o.data[u[2] + 1]
          BY DEF Element
        <5>1. u[2] + 1 \in 1 .. Len(o.data) /\ u[2] + 1 # t[2] + 1
          BY <1>1, <4>1, <4>2 DEF Inside
        <5> QED BY <1>2, <5>1 DEF Written
      <4> QED BY <3>2, <4>2, <4>3, <4>4 DEF plain
    <3> QED BY <3>1, <3>2
  <2>5. ~Wild(h[x]) /\ ~Wild(heap[x])
    BY <1>1, <1>6 DEF Wild
  <2> QED BY <1>6, <2>1, <2>3, <2>4, <2>5 DEF data, u
<1> QED BY <1>8, <1>9 DEF h

(* An edit shows what was entered in its cell, and changes another cell      *)
(* only if R shares the level or the column.                                 *)
THEOREM EditsAreExact == VSpec => EditIsExact
<1>1. ASSUME VInv, HeapInv, phase = "user", phase' = "user",
             NEW n \in Names, NEW cell \in Cells(heap, view[n].object), TextLevels(view[n].object),
             NEW v \in Entered(data(heap, view[n].object, cell[1], cell[2])),
             Edit(n, cell[1], cell[2], v)
      PROVE  /\ data(heap', view[n].object, cell[1], cell[2]) = v
             /\ \A other \in Cells(heap, view[n].object) \ {cell} :
                   \/ data(heap', view[n].object, other[1], other[2])
                         = data(heap, view[n].object, other[1], other[2])
                   \/ Same(view[n].object, cell, other)
  <2>1. view[n].object \in Objects
    BY <1>1 DEF VInv, VTypeOK
  <2>2. PICK x, r, c : x \in Objects /\ x = view[n].object /\ r = cell[1] /\ c = cell[2]
    BY <2>1
  <2>3. cell = << r, c >>
    BY <2>2 DEF Cells
  <2>4. Editing(x, r, c, v) /\ heap' = setData(heap, x, r, c, v)
    BY <1>1, <2>2, EditIsEditing
  <2>5. /\ data(heap', x, r, c) = v
        /\ \A b \in Cells(heap, x) \ {<< r, c >>} :
              data(heap', x, b[1], b[2]) = data(heap, x, b[1], b[2]) \/ Same(x, << r, c >>, b)
    BY <1>1, <2>2, <2>4, EditExact
  <2> QED BY <2>2, <2>3, <2>5
<1>2. VInv /\ HeapInv =>
        [phase = "user" /\ phase' = "user" =>
         \A n \in Names : \A cell \in Cells(heap, view[n].object) :
            LET x == view[n].object
            IN  TextLevels(x) => \A v \in Entered(data(heap, x, cell[1], cell[2])) :
                    Edit(n, cell[1], cell[2], v) =>
                        /\ data(heap', x, cell[1], cell[2]) = v
                        /\ \A other \in Cells(heap, x) \ {cell} :
                               \/ data(heap', x, other[1], other[2]) = data(heap, x, other[1], other[2])
                               \/ Same(x, cell, other)]_vvars
  BY <1>1
<1> QED BY <1>2, HeapHolds, PTL DEF VSpec, EditIsExact

-------------------------------------------------------------------------------
(* That the cells stay inside.  The tables that were well formed still are,  *)
(* but for those that read codes which were overwritten.                     *)
SoundInv == phase \in {"user", "update"} => \A x \in sound : WellFormed(heap, x)

(* A write of texts, numbers and truth values into something else than codes *)
(* keeps what is well formed; a write of codes, where they are not read.     *)
LEMMA CodesStay ==
    ASSUME HeapInv, NEW y \in Objects, NEW i, NEW v, NEW h, Written(h, y, i, v),
           NEW f \in Objects, evalStorage(heap[f]) = "Factor", f # y, Coded(heap, heap[f])
    PROVE  Coded(h, h[f])
<1>1. heap[f].levels \in Objects
  BY ObjectsAssumption DEF HeapInv, WellMade, Made
<1>2. h[f] = heap[f]
  BY DEF Written
<1>3. /\ h[heap[f].levels].type = heap[heap[f].levels].type
      /\ Len(h[heap[f].levels].data) = Len(heap[heap[f].levels].data)
  BY <1>1 DEF Written
<1> QED BY <1>2, <1>3 DEF Coded

LEMMA WellFormedStays ==
    ASSUME HeapInv, NEW y \in Objects, NEW i, NEW v, NEW h, Written(h, y, i, v),
           heap[y].type \in Enterable,
           NEW x \in Objects, WellFormed(heap, x),
           evalStorage(heap[y]) = "Factor" => x \notin Decoding(y)
    PROVE  WellFormed(h, x)
<1> DEFINE o == heap[x]
<1>1. /\ evalStorage(h[x]) = evalStorage(o) /\ h[x].type = o.type /\ h[x].dim = o.dim
      /\ h[x].rows = o.rows
  BY DEF Written
<1>2. Wild(h[x]) <=> Wild(o)
  BY <1>1 DEF Wild
<1>3. CASE evalStorage(o) = "Frame"
  <2>1. ~Wild(o) /\ o.type \in {"Null", "Generic"}
    BY <1>3, StorageOfType DEF WellFormed
  <2>2. x # y /\ h[x] = o
    BY <2>1 DEF Written, Enterable
  <2>3. ASSUME NEW k \in DOMAIN o.data
        PROVE  LET column == h[o.data[k]]
               IN  /\ column.type \in Plain => Len(column.data) >= o.rows
                   /\ evalStorage(column) = "Factor" => Coded(h, column)
    <3> DEFINE z == o.data[k]
    <3>1. o.type = "Generic"
      <4>1. o.data # <<>>
        BY <2>3
      <4> QED BY <2>1, <4>1 DEF HeapInv, AllShaped, Shaped
    <3>2. z \in Objects /\ z \in Range(o.data)
      BY <3>1, ObjectsAssumption DEF HeapInv, WellMade, Made, Range
    <3>3. /\ heap[z].type \in Plain => Len(heap[z].data) >= o.rows
          /\ evalStorage(heap[z]) = "Factor" => Coded(heap, heap[z])
      BY <1>3 DEF WellFormed
    <3>4. evalStorage(heap[z]) = "Factor" => z # y
      BY <3>1, <3>2 DEF Decoding
    <3> HIDE DEF z
    <3>5. /\ h[z].type = heap[z].type /\ Len(h[z].data) = Len(heap[z].data)
          /\ evalStorage(h[z]) = evalStorage(heap[z])
      BY <3>2 DEF Written
    <3>6. evalStorage(h[z]) = "Factor" => Coded(h, h[z])
      BY <3>2, <3>3, <3>4, <3>5, CodesStay
    <3>7. h[z].type \in Plain => Len(h[z].data) >= o.rows
      BY <3>3, <3>5
    <3> QED BY <3>6, <3>7 DEF z
  <2> QED BY <1>3, <2>1, <2>2, <2>3 DEF WellFormed
<1>4. CASE evalStorage(o) = "List"
  BY <1>1, <1>2, <1>4 DEF WellFormed
<1>5. CASE evalStorage(o) = "Array"
  <2>1. EmptyBehind(h[x]) <=> EmptyBehind(o)
    BY <1>1 DEF EmptyBehind
  <2> QED BY <1>1, <1>5, <2>1 DEF WellFormed
<1>6. CASE evalStorage(o) = "Factor"
  <2>1. x # y
    BY <1>6 DEF Decoding
  <2>2. Coded(heap, o)
    BY <1>6 DEF WellFormed
  <2>3. Coded(h, h[x])
    BY <1>6, <2>1, <2>2, CodesStay
  <2> QED BY <1>1, <1>6, <2>3 DEF WellFormed
<1>7. CASE evalStorage(o) \notin {"Frame", "List", "Array", "Factor"}
  BY <1>1, <1>7 DEF WellFormed
<1> QED BY <1>3, <1>4, <1>5, <1>6, <1>7

LEMMA SoundStep == VInv /\ HeapInv /\ SoundInv /\ [VNext]_vvars => SoundInv'
<1> SUFFICES ASSUME VInv, HeapInv, SoundInv, [VNext]_vvars PROVE SoundInv'
  OBVIOUS
<1>1. CASE UNCHANGED <<heap, sound>> /\ phase \in {"user", "update"}
  BY <1>1 DEF SoundInv
<1>2. CASE phase' \notin {"user", "update"}
  BY <1>2 DEF SoundInv
<1>3. CASE Answered
  BY <1>3 DEF Answered, SoundInv
<1>4. CASE EditCell
  <2>1. PICK n \in Names : \E cell \in Cells(heap, view[n].object) :
           \E v \in Entered(data(heap, view[n].object, cell[1], cell[2])) : Edit(n, cell[1], cell[2], v)
    BY <1>4 DEF EditCell
  <2>2. PICK cell \in Cells(heap, view[n].object) :
           \E v \in Entered(data(heap, view[n].object, cell[1], cell[2])) : Edit(n, cell[1], cell[2], v)
    BY <2>1
  <2>3. PICK v \in Entered(data(heap, view[n].object, cell[1], cell[2])) : Edit(n, cell[1], cell[2], v)
    BY <2>2
  <2>4. PICK x, r, c : x \in Objects /\ x = view[n].object /\ r = cell[1] /\ c = cell[2]
    BY DEF VInv, VTypeOK
  <2> DEFINE t == Target(heap, x, r, c)
  <2>5. /\ phase = "user" /\ (phase' = "stopped" \/ phase' = "user")
        /\ sound' = IF evalStorage(heap[t[1]]) = "Factor" THEN sound \ Decoding(t[1]) ELSE sound
    BY <2>3, <2>4 DEF Edit
  <2>6. CASE phase' = "user"
    <3>1. Editing(x, r, c, v) /\ heap' = setData(heap, x, r, c, v)
      BY <2>3, <2>4, <2>6, EditIsEditing
    <3>2. Written(heap', t[1], t[2], v)
      BY <2>4, <3>1, EditWrites
    <3>3. t[1] \in Objects /\ heap[t[1]].type \in Enterable
      BY <2>4, <3>1, EditedVector
    <3> HIDE DEF t
    <3> SUFFICES ASSUME NEW z \in sound' PROVE WellFormed(heap', z)
      BY DEF SoundInv
    <3>4. z \in Objects /\ WellFormed(heap, z)
      BY <2>5 DEF SoundInv, VInv, VTypeOK
    <3>5. evalStorage(heap[t[1]]) = "Factor" => z \notin Decoding(t[1])
      BY <2>5
    <3> QED BY <3>2, <3>3, <3>4, <3>5, WellFormedStays
  <2> QED BY <1>2, <2>5, <2>6
<1>5. Command \/ Assign \/ Change => phase' = "command"
  BY DEF Command, Assign, Change
<1>6. UpdateVar \/ ForcePromise => UNCHANGED <<heap, sound>> /\ phase = "update"
  BY DEF UpdateVar, ForcePromise
<1>7. PromiseFails \/ PaintWild \/ Stopped => phase' = "stopped"
  BY DEF PromiseFails, PaintWild, Stopped, vvars
<1>8. CASE UNCHANGED vvars
  BY <1>8 DEF vvars, SoundInv
<1> QED BY <1>1, <1>2, <1>3, <1>4, <1>5, <1>6, <1>7, <1>8 DEF VNext

LEMMA SoundHolds == VSpec => [](VInv /\ HeapInv /\ SoundInv)
<1>1. VInit => SoundInv
  BY DEF VInit, SoundInv
<1>2. VInv /\ HeapInv /\ SoundInv /\ [VNext]_vvars => SoundInv'
  BY SoundStep
<1> QED BY <1>1, <1>2, HeapHolds, PTL DEF VSpec

LEMMA TableInside ==
    ASSUME HeapInv, NEW x \in Objects, evalStorage(heap[x]) \in {"Matrix", "Array"}, WellFormed(heap, x)
    PROVE  rowCount(heap, x) * columnCount(heap, x) <= Len(heap[x].data)
<1> DEFINE o == heap[x]
           d == heap[x].dim
<1>1. Shaped(o) /\ d \in Seq(Nat) /\ Len(o.data) \in Nat
  BY DEF HeapInv, AllShaped, Shaped
<1>2. CASE evalStorage(o) = "Matrix" \/ (evalStorage(o) = "Array" /\ Len(d) = 3)
  <2>1. Len(o.data) = rowCount(heap, x) * columnCount(heap, x)
    BY <1>2, TableOfAll DEF HeapInv
  <2> QED BY <1>1, <2>1
<1>3. CASE evalStorage(o) = "Array" /\ Len(d) > 3
  <2>1. rowCount(heap, x) = d[1] * d[3] /\ columnCount(heap, x) = d[2]
    BY <1>1, <1>3 DEF rowCount, columnCount, dimsValue
  <2>2. Len(o.data) >= d[1] * d[2] * d[3]
    <3>1. ~EmptyBehind(o)
      BY <1>3 DEF WellFormed
    <3> QED BY <1>1, <1>3, <3>1 DEF Shaped
  <2>3. d[1] \in Nat /\ d[2] \in Nat /\ d[3] \in Nat
    <3> HIDE DEF d
    <3>1. Len(d) \in Nat /\ \A i \in 1 .. Len(d) : d[i] \in Nat
      BY <1>1
    <3> QED BY <1>3, <3>1
  <2>4. d[1] * d[2] * d[3] = d[1] * d[3] * d[2]
    BY <2>3
  <2> QED BY <2>1, <2>2, <2>4
<1>4. ASSUME evalStorage(o) = "Array" PROVE Len(d) >= 3
  BY <1>4 DEF WellFormed
<1>5. Len(d) >= 3 => Len(d) = 3 \/ Len(d) > 3
  <2> HIDE DEF d
  <2>1. Len(d) \in Nat
    BY <1>1
  <2> QED BY <2>1
<1> QED BY <1>2, <1>3, <1>4, <1>5

LEMMA CellInside ==
    ASSUME HeapInv, NEW x \in Objects, WellFormed(heap, x),
           NEW r, NEW c, << r, c >> \in Cells(heap, x)
    PROVE  LET t == Target(heap, x, r, c)
           IN  \/ Inside(heap[t[1]], t[2])
               \/ ~editable(heap, x, r, c) \/ data(heap, x, r, c) = Invalid
<1> DEFINE t == Target(heap, x, r, c)
           p == Place(heap, x, r, c)
           o == heap[x]
<1>1. r \in 0 .. rowCount(heap, x) - 1 /\ c \in 0 .. columnCount(heap, x) - 1
  BY DEF Cells
<1>2. /\ p[1] \in Objects /\ t[1] \in Objects
      /\ evalStorage(o) \in {"Frame", "List"} /\ ~Wild(o) =>
            p = << Element(o, c), r >> /\ c + 1 \in DOMAIN o.data
      /\ ~IsLevel(heap, x, r, c) => t = p
  BY PlaceFound
<1>3. \A z \in Objects : Len(heap[z].data) \in Nat /\ DOMAIN heap[z].data = 1 .. Len(heap[z].data)
  BY DEF HeapInv, AllShaped, Shaped
<1>0. evalStorage(o) \in {"Frame", "List"} => ~Wild(o)
  BY DEF WellFormed
<1>12. evalStorage(o) = "Frame" =>
          /\ p = << Element(o, c), r >>
          /\ heap[p[1]].type \in Plain => Inside(heap[p[1]], r)
          /\ evalStorage(heap[p[1]]) = "Factor" => Coded(heap, heap[p[1]])
  <2> SUFFICES ASSUME evalStorage(o) = "Frame"
               PROVE  /\ p = << Element(o, c), r >>
                      /\ heap[p[1]].type \in Plain => Inside(heap[p[1]], r)
                      /\ evalStorage(heap[p[1]]) = "Factor" => Coded(heap, heap[p[1]])
    OBVIOUS
  <2>1. p = << Element(o, c), r >> /\ c + 1 \in DOMAIN o.data /\ p[1] = o.data[c + 1]
    BY <1>0, <1>2 DEF Element
  <2>2. /\ heap[p[1]].type \in Plain => Len(heap[p[1]].data) >= o.rows
        /\ evalStorage(heap[p[1]]) = "Factor" => Coded(heap, heap[p[1]])
    BY <2>1 DEF WellFormed
  <2>3. r \in 0 .. o.rows - 1 /\ o.rows \in Nat
    BY <1>1 DEF rowCount, HeapInv, AllShaped, Shaped
  <2>4. Len(heap[p[1]].data) \in Nat
    BY <1>2, <1>3
  <2> HIDE DEF p
  <2> QED BY <2>1, <2>2, <2>3, <2>4 DEF Inside
<1>4. CASE IsLevel(heap, x, r, c)
  <2>1. evalStorage(heap[p[1]]) = "Factor" /\ t[1] = heap[p[1]].levels
        /\ t[2] = code(heap[p[1]], p[2]) - 1
    BY <1>4 DEF IsLevel, Target
  <2>2. Coded(heap, heap[p[1]]) /\ Inside(heap[p[1]], p[2])
    <3>1. CASE evalStorage(o) = "Frame"
      BY <1>12, <2>1, <3>1, StorageOfType DEF Plain
    <3>2. CASE evalStorage(o) = "Factor"
      <4>1. p = << x, r >>
        BY <3>2 DEF Place, Wild
      <4>2. Coded(heap, o)
        BY <3>2 DEF WellFormed
      <4>3. r \in 0 .. Len(o.data) - 1
        BY <1>1, <3>2 DEF rowCount
      <4> QED BY <4>1, <4>2, <4>3 DEF Inside
    <3> QED BY <1>4, <3>1, <3>2 DEF IsLevel
  <2>3. Len(heap[t[1]].data) \in Nat /\ Len(heap[p[1]].data) \in Nat
        /\ DOMAIN heap[p[1]].data = 1 .. Len(heap[p[1]].data)
    BY <1>2, <1>3
  <2> HIDE DEF t, p
  <2>4. p[2] + 1 \in DOMAIN heap[p[1]].data /\ code(heap[p[1]], p[2]) = heap[p[1]].data[p[2] + 1]
    BY <2>2, <2>3 DEF Inside, code, Element
  <2>5. code(heap[p[1]], p[2]) \in 1 .. Len(heap[t[1]].data)
    BY <2>1, <2>2, <2>4 DEF Coded
  <2>6. t[2] \in 0 .. Len(heap[t[1]].data) - 1
    BY <2>1, <2>3, <2>5
  <2> QED BY <2>6 DEF Inside, t
<1>5. CASE ~IsLevel(heap, x, r, c) /\ evalStorage(o) = "Frame"
  <2>1. t = << Element(o, c), r >> /\ (heap[t[1]].type \in Plain => Inside(heap[t[1]], t[2]))
    BY <1>2, <1>5, <1>12
  <2>2. heap[t[1]].type \notin Plain => data(heap, x, r, c) = Invalid
    BY <1>0, <1>5 DEF data, plain
  <2> QED BY <2>1, <2>2
<1>6. CASE ~IsLevel(heap, x, r, c) /\ evalStorage(o) = "List"
  BY <1>0, <1>2, <1>6 DEF editable
<1>7. CASE ~IsLevel(heap, x, r, c) /\ evalStorage(o) \in {"Matrix", "Array"}
  <2> DEFINE rows == rowCount(heap, x)
             columns == columnCount(heap, x)
  <2>1. rows \in Nat /\ columns \in Nat /\ rows * columns <= Len(o.data)
    BY <1>7, TableSize, TableInside
  <2>2. t = << x, c * rows + r >>
    BY <1>2, <1>7 DEF Place, Wild
  <2>3. r \in 0 .. rows - 1 /\ c \in 0 .. columns - 1
    BY <1>1
  <2> HIDE DEF rows, columns, t
  <2>4. c * rows + r \in 0 .. rows * columns - 1
    BY <2>1, <2>3, OffsetInside
  <2>5. rows * columns \in Nat /\ Len(o.data) \in Nat
    BY <1>3, <2>1
  <2>6. c * rows + r \in 0 .. Len(o.data) - 1
    BY <2>1, <2>4, <2>5
  <2> QED BY <2>2, <2>6 DEF Inside, t
<1>8. CASE ~IsLevel(heap, x, r, c) /\ evalStorage(o) = "Vector"
  <2>1. t = << x, r >> /\ r \in 0 .. Len(o.data) - 1
    BY <1>1, <1>2, <1>8 DEF Place, rowCount, Wild
  <2> QED BY <2>1 DEF Inside
<1>9. evalStorage(o) = "Factor" => IsLevel(heap, x, r, c)
  BY DEF IsLevel, Place, Wild
<1>10. evalStorage(o) \in {"Frame", "Matrix", "List", "Array", "Factor", "Vector", "Other"}
  BY DEF evalStorage
<1>11. evalStorage(o) = "Other" => data(heap, x, r, c) = Invalid
  BY DEF data, Wild
<1> QED BY <1>4, <1>5, <1>6, <1>7, <1>8, <1>9, <1>10, <1>11

(* From one command to the next, whatever is edited: the cells of the tables *)
(* of well-formed objects stay inside of their vectors.                      *)
THEOREM EditableCellsInside == VSpec => []CellsInside
<1>1. VInv /\ HeapInv /\ SoundInv => CellsInside
  <2> SUFFICES ASSUME VInv, HeapInv, SoundInv, phase = "user",
                      NEW n \in Names, view[n].object \in sound, NEW cell \in Cells(heap, view[n].object)
               PROVE  LET x == view[n].object
                          t == Target(heap, x, cell[1], cell[2])
                      IN  \/ Inside(heap[t[1]], t[2])
                          \/ ~editable(heap, x, cell[1], cell[2])
                          \/ data(heap, x, cell[1], cell[2]) = Invalid
    BY DEF CellsInside
  <2>1. view[n].object \in Objects /\ WellFormed(heap, view[n].object)
    BY DEF VInv, VTypeOK, SoundInv
  <2>2. << cell[1], cell[2] >> \in Cells(heap, view[n].object)
    BY DEF Cells
  <2> QED BY <2>1, <2>2, CellInside
<1> QED BY <1>1, SoundHolds, PTL
===============================================================================
