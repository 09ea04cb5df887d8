----------------------------- MODULE VariableViews -----------------------------
(***************************************************************************)
(* The list of variables: RVariableWidget (src/REditor/rvariablewidget.cpp)*)
(* and MainWindow::updateVariables, against what commands do to the        *)
(* variables.  After each command, before the user can do anything else,   *)
(* every view takes the value of its variable anew, one after the other.   *)
(* RBind forces a promise on the way (rbind.cpp), and that runs R code.    *)
(***************************************************************************)
EXTENDS RModel

CONSTANTS
    Variables,      \* the variables in the list, in its order: In_1, In_2, ...
    Objects,        \* names of R's objects
    Initial,        \* their contents at first
    Imported,       \* the data frame bound to each variable at first
    Bindable,       \* the objects that a command may bind to a variable
    Changed,        \* what a command may make of an object in place
    Promised,       \* the objects that promises have for their value
    Texts, Numbers, \* what the user may type into a cell
    MaxSteps        \* bound: statements of commands and edits

Nil == "NULL"       \* R_NilValue
Crash == "crash"    \* the value of a promise whose code fails

Names == {Variables[i] : i \in DOMAIN Variables}

ASSUME VariableViewsAssumption ==
    /\ Variables \in Seq(Names) /\ Variables # <<>>
    /\ \A i, j \in DOMAIN Variables : Variables[i] = Variables[j] => i = j
    /\ Nil \in Objects /\ Crash \notin Objects
    /\ DOMAIN Initial = Objects /\ \A x \in Objects : DOMAIN Initial[x] = Fields /\ Shaped(Initial[x])
    /\ Bindable \subseteq Objects /\ Promised \subseteq Bindable
    /\ Imported \in [Names -> Objects]
    /\ Changed \in [Objects -> SUBSET {Initial[x] : x \in Objects}]
    /\ MaxSteps \in Nat

\* The elements of data frames and lists, and the levels of factors.
Columns == UNION {{Initial[x].data[i] : i \in DOMAIN Initial[x].data} :
                     x \in {y \in Objects : Initial[y].type = "Generic"}}
Levels == {Initial[x].levels : x \in {y \in Objects : evalStorage(Initial[y]) = "Factor"}}

\* What a list holds and what a factor has for its levels is an object.
ASSUME ObjectsAssumption == Columns \subseteq Objects /\ Levels \subseteq Objects

VARIABLES
    heap,           \* the contents of the objects
    global,         \* R_GlobalEnv: variable -> binding
    view,           \* variable -> m_model of its widget: the object, its storage
    phase,          \* user, command, update (updateVariables), stopped
    turn,           \* updateVariables: its loop counter
    behind,         \* history variable: the variables that a promise has rebound
                    \* after their turn
    sound,          \* history variable: the objects that the last command left well
                    \* formed, less those whose codes were overwritten since
    steps           \* statements and edits so far

vvars == <<heap, global, view, phase, turn, behind, sound, steps>>

Value(x) == [value |-> x]
Unbound == [unbound |-> TRUE]
\* delayedAssign("n", {m <- y; x}), delayedAssign("n", {rm(m); x})
Promises == [promise : Promised \cup {Crash}, rebinds : Names,
             to : {Value(x) : x \in Promised} \cup {Unbound}]
IsPromise(b) == "promise" \in DOMAIN b

Bindings == {Value(x) : x \in Bindable} \cup {Unbound} \cup Promises

Shows(x) == [object |-> x, storage |-> evalStorage(heap[x])]

VInit ==
    /\ heap = Initial
    /\ global = [n \in Names |-> Value(Imported[n])]
    /\ view = [n \in Names |-> Shows(Imported[n])]
    /\ phase = "user" /\ turn = 1 /\ behind = {} /\ steps = 0
    /\ sound = {x \in Objects : WellFormed(Initial, x)}
-------------------------------------------------------------------------------
(* Commands. *)

Command ==
    /\ phase = "user" /\ phase' = "command"
    /\ UNCHANGED <<heap, global, view, turn, behind, sound, steps>>

\* n <- value, rm(n), delayedAssign("n", ...)
Assign ==
    /\ phase = "command" /\ steps < MaxSteps
    /\ \E n \in Names, b \in Bindings : global' = [global EXCEPT ![n] = b]
    /\ steps' = steps + 1
    /\ UNCHANGED <<heap, view, phase, turn, behind, sound>>

\* dim(n) <- ..., in place
Change ==
    /\ phase = "command" /\ steps < MaxSteps
    /\ \E x \in Objects : \E o \in Changed[x] : heap' = [heap EXCEPT ![x] = o]
    /\ steps' = steps + 1
    /\ UNCHANGED <<global, view, phase, turn, behind, sound>>

\* The command is answered: Console emits enterPressed, or onExecute goes on.
Answered ==
    /\ phase = "command" /\ phase' = "update"
    /\ turn' = 1 /\ behind' = {} /\ sound' = {x \in Objects : WellFormed(heap, x)}
    /\ UNCHANGED <<heap, global, view, steps>>
-------------------------------------------------------------------------------
(* updateVariables. *)

Current == Variables[turn]

\* RBind::operator RObject: a value, NULL when there is none.
Found(b) == IF b = Unbound THEN Nil ELSE b.value

NextTurnOneMore ==                                                               \* mutant
    /\ turn' = turn + 1
    /\ phase' = IF turn > Len(Variables) THEN "user" ELSE phase

NextTurn ==
    /\ turn' = turn + 1
    /\ phase' = IF turn = Len(Variables) THEN "user" ELSE phase

\* updateVar and updateSize: counting the rows of a pairlist reads wild pointers,
\* and may stop the program.
Show(n, x) ==
    /\ view' = [view EXCEPT ![n] = Shows(x)]
    /\ \/ NextTurn
       \/ /\ evalStorage(heap[x]) = "List" /\ Wild(heap[x])
          /\ phase' = "stopped" /\ UNCHANGED turn

UpdateVarNot ==                                                                  \* mutant
    /\ phase = "update" /\ ~IsPromise(global[Current])
    /\ IF global[Current] = Unbound THEN NextTurn /\ UNCHANGED view
       ELSE Show(Current, Found(global[Current]))
    /\ UNCHANGED <<heap, global, behind, sound, steps>>

UpdateVar ==
    /\ phase = "update" /\ ~IsPromise(global[Current])
    /\ Show(Current, Found(global[Current]))
    /\ UNCHANGED <<heap, global, behind, sound, steps>>

\* Rf_eval of a promise: its code runs, and it has its value from then on.
ForcePromise ==
    /\ phase = "update" /\ IsPromise(global[Current])
    /\ LET b == global[Current] IN
       /\ b.promise # Crash
       /\ global' = [global EXCEPT ![Current] = Value(b.promise), ![b.rebinds] = b.to]
       /\ Show(Current, b.promise)
       /\ behind' = behind \cup ({b.rebinds} \cap {Variables[i] : i \in 1 .. turn})
    /\ UNCHANGED <<heap, sound, steps>>

\* An error in it leaves updateVariables by a long jump, into nowhere.
PromiseFails ==
    /\ phase = "update" /\ IsPromise(global[Current])
    /\ global[Current].promise = Crash
    /\ phase' = "stopped"
    /\ UNCHANGED <<heap, global, view, turn, behind, sound, steps>>
-------------------------------------------------------------------------------
(* The user edits a cell. *)

\* What the editor of a cell can return: the delegate knows the cell's type.
Entered(shown) ==
    CASE shown[1] \in {"String", "Outside"} -> {Variant("String", t) : t \in Texts}
      [] shown[1] = "Int"  -> {Variant("Int", i) : i \in Numbers}
      [] shown[1] = "Bool" -> {Variant("Bool", b) : b \in {0, 1}}
      [] OTHER -> {}

\* The table of what only has the class of a data frame is painted: its columns
\* are wild pointers.
PaintWild ==
    /\ phase = "user" /\ phase' = "stopped"
    /\ \E n \in Names : Wild(heap[view[n].object]) /\ Cells(heap, view[n].object) # {}
    /\ UNCHANGED <<heap, global, view, turn, behind, sound, steps>>

\* A write out of range, or of a pointer into bytes, is undefined.
Writable(t) == Inside(heap[t[1]], t[2]) /\ heap[t[1]].type # "Byte"

\* The objects whose tables read the codes of f.
Decoding(f) ==
    {y \in Objects : y = f \/ (heap[y].type = "Generic" /\ f \in Range(heap[y].data))}

Edit(n, r, c, v) ==
    LET x == view[n].object
        t == Target(heap, x, r, c)
    IN
    /\ phase = "user" /\ steps < MaxSteps
    /\ editable(heap, x, r, c)
    /\ IF Writable(t)
       THEN heap' = setData(heap, x, r, c, v) /\ UNCHANGED phase
       ELSE phase' = "stopped" /\ UNCHANGED heap
    /\ sound' = IF evalStorage(heap[t[1]]) = "Factor" THEN sound \ Decoding(t[1]) ELSE sound
    /\ steps' = steps + 1
    /\ UNCHANGED <<global, view, turn, behind>>

EditCell ==
    \E n \in Names : \E cell \in Cells(heap, view[n].object) :
        \E v \in Entered(data(heap, view[n].object, cell[1], cell[2])) :
            Edit(n, cell[1], cell[2], v)

Stopped == phase = "stopped" /\ UNCHANGED vvars

VNext == Command \/ Assign \/ Change \/ Answered \/ UpdateVar \/ ForcePromise \/ PromiseFails
             \/ PaintWild \/ EditCell \/ Stopped

VSpec == VInit /\ [][VNext]_vvars
-------------------------------------------------------------------------------
VTypeOK ==
    /\ DOMAIN heap = Objects /\ \A x \in Objects : DOMAIN heap[x] = Fields
    /\ global \in [Names -> Bindings \cup {Value(x) : x \in Objects}]
    /\ DOMAIN view = Names /\ \A n \in Names : view[n].object \in Objects
    /\ phase \in {"user", "command", "update", "stopped"}
    /\ turn \in 1 .. Len(Variables) + 1
    /\ phase = "update" => turn <= Len(Variables)
    /\ behind \subseteq Names /\ sound \subseteq Objects
    /\ steps \in 0 .. MaxSteps

(* Whenever the user can look at or edit a table, it is the table of the    *)
(* present value of its variable, and the storage kind that RObject took    *)
(* when it was made is still that of the object, whatever commands have     *)
(* bound, removed, delayed or changed in place.  The exception is a         *)
(* variable that a promise rebinds when its turn has passed.                *)
ViewsFollowVariables ==
    phase = "user" => \A n \in Names :
        /\ ~IsPromise(global[n])
        /\ view[n].storage = evalStorage(heap[view[n].object])
        /\ n \notin behind => view[n] = Shows(Found(global[n]))

\* Cells that stand for the same string or number, for the R programmer too:
\* the same level, the same row of a column that the frame holds twice, or a
\* level and its row in a column that is the vector of the levels.
Same(x, a, b) ==
    \/ /\ IsLevel(heap, x, a[1], a[2]) /\ IsLevel(heap, x, b[1], b[2])
       /\ Target(heap, x, a[1], a[2]) = Target(heap, x, b[1], b[2])
    \/ /\ evalStorage(heap[x]) \in {"Frame", "List"}
       /\ Element(heap[x], a[2]) = Element(heap[x], b[2]) /\ a[1] = b[1]
    \/ \E l, e \in {a, b} :
          /\ IsLevel(heap, x, l[1], l[2]) /\ ~IsLevel(heap, x, e[1], e[2])
          /\ Target(heap, x, l[1], l[2]) = << Element(heap[x], e[2]), e[1] >>

\* The levels that the table of x shows are texts; R takes other vectors too.
TextLevels(x) ==
    \A f \in {x} \cup (IF heap[x].type = "Generic" THEN Range(heap[x].data) ELSE {}) :
        evalStorage(heap[f]) = "Factor" => heap[heap[f].levels].type \in {"String", "Null"}

(* What the user enters into a cell is what the cell shows then, and no     *)
(* other cell of the table changes, except those that show the same level   *)
(* of the factor, which is what is renamed, or the same shared column.      *)
EditIsExact ==
    [][phase = "user" /\ phase' = "user" =>
       \A n \in Names : \A cell \in Cells(heap, view[n].object) :
        LET x == view[n].object
        IN  TextLevels(x) => \A v \in Entered(data(heap, x, cell[1], cell[2])) :
                Edit(n, cell[1], cell[2], v) =>
                    /\ data(heap', x, cell[1], cell[2]) = v
                    /\ \A other \in Cells(heap, x) \ {cell} :
                           \/ data(heap', x, other[1], other[2]) = data(heap, x, other[1], other[2])
                           \/ Same(x, cell, other)]_vvars

(* Whatever the user enters, into whichever tables, from one command to the *)
(* next: in the table of an object that R left well formed (WellFormed      *)
(* names what the code takes for granted), every cell that shows something  *)
(* and can be edited stands for an element of a vector.  A table that reads *)
(* the codes of a factor loses this when they are overwritten themselves,   *)
(* through the table of a list that holds the factor.                       *)
CellsInside ==
    phase = "user" => \A n \in Names :
        LET x == view[n].object
        IN  x \in sound => \A cell \in Cells(heap, x) :
                LET t == Target(heap, x, cell[1], cell[2])
                IN  \/ Inside(heap[t[1]], t[2])
                    \/ ~editable(heap, x, cell[1], cell[2])
                    \/ data(heap, x, cell[1], cell[2]) = Invalid

\* Every element of x has one cell in its table, and every cell one element.
ShownOnce(x) ==
    /\ \A i \in 0 .. Len(heap[x].data) - 1 :
          \E cell \in Cells(heap, x) : Place(heap, x, cell[1], cell[2]) = << x, i >>
    /\ \A a, b \in Cells(heap, x) :
          /\ Inside(heap[x], Place(heap, x, a[1], a[2])[2])
          /\ a # b => Place(heap, x, a[1], a[2]) # Place(heap, x, b[1], b[2])

(* The table of a matrix or of an array of three dimensions shows every     *)
(* element in exactly one cell, and nothing else, whatever is edited.       *)
EachElementOnce ==
    phase = "user" => \A n \in Names :
        LET x == view[n].object
        IN  \/ evalStorage(heap[x]) = "Matrix"
            \/ evalStorage(heap[x]) = "Array" /\ Len(heap[x].dim) = 3
            => ShownOnce(x)
===============================================================================
