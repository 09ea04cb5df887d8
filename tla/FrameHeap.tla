------------------------------- MODULE FrameHeap -------------------------------
(***************************************************************************)
(* One variable of the import on R's heap: RObject::fromModel builds the   *)
(* data frame under a Shield (src/RInside/robject.cpp), RBind binds it     *)
(* (rbind.cpp), a view shows it, commands of the user rebind it, and cells *)
(* of text are edited in place.  R may collect wherever this code makes it *)
(* allocate: such a call is two steps, Collection, which may be left out,  *)
(* and the action that allocates and stores.                               *)
(***************************************************************************)
EXTENDS RHeap

CONSTANTS
    Columns,        \* model->columnCount()
    Rows,           \* model->rowCount()
    TextColumns,    \* the columns of type STRSXP
    MaxObjects      \* bound: the last object that commands and edits allocate

ASSUME FrameHeapAssumption ==
    Columns \in Nat /\ Rows \in Nat /\ TextColumns \subseteq 1 .. Columns /\ MaxObjects \in Nat

VARIABLES
    pc,             \* the call that comes next
    column, row,    \* fromModel: its loop counters
    frame,          \* the data frame in hand: df, and then the RObject returned
    temp,           \* an object that R protects for the length of a call
    bound,          \* the value of the variable in R_GlobalEnv
    view,           \* m_object of the variable's RModel
    unshielded      \* history variable: did R collect while frame was in no root?

counters == <<column, row>>
refs == <<frame, temp, bound, view>>
fvars == <<heapvars, pc, counters, refs, unshielded>>

FInit ==
    /\ HeapInit
    /\ pc = "createDataframe"
    /\ column = 1 /\ row = 1
    /\ frame = Nil /\ temp = Nil /\ bound = Nil /\ view = Nil
    /\ unshielded = FALSE

Goto(from, to) == pc = from /\ pc' = to /\ UNCHANGED unshielded
-------------------------------------------------------------------------------
(* Garbage collection. *)

\* The attributes that createDataframe sets, one after the other.
AttributeNames == {"names", "row.names", "class"}
After == [name \in AttributeNames |-> CASE name = "names" -> "row.names"
                                        [] name = "row.names" -> "class"
                                        [] name = "class" -> "returnFrame"]

\* Where R may allocate; in "user" it does for dev.off(), which Update plot runs.
Allocating == AttributeNames \cup {"createDataframe", "nameColumn", "newColumn", "fillCell",
                                   "install", "defineVar", "command", "editCell", "user"}

Roots == Protected \cup {bound, temp}

Collection ==
    /\ pc \in Allocating
    /\ Collect(Roots)
    /\ unshielded' = (unshielded \/ pc = "install")
    /\ UNCHANGED <<pc, counters, refs>>
-------------------------------------------------------------------------------
(* createDataframe. *)

\* Shield df(Rf_allocVector(VECSXP, columns))
AllocFrame ==
    /\ Goto("createDataframe", "names")
    /\ frame' = next
    /\ heap' = Allocated /\ next' = next + 1
    /\ stack' = Append(stack, next)
    /\ UNCHANGED <<old, remembered, missed, counters, temp, bound, view>>

\* The argument of the next Rf_setAttrib, which protects it.
NewAttribute ==
    /\ temp = Nil
    /\ \E name \in AttributeNames : Goto(name, name)
    /\ temp' = next
    /\ Alloc
    /\ UNCHANGED <<counters, frame, bound, view>>

SetAttribRaw ==                                                                  \* mutant
    /\ temp # Nil
    /\ \E name \in AttributeNames :
          /\ Goto(name, After[name])
          /\ heap' = With(heap, frame, Attribute(name), temp)
    /\ temp' = Nil
    /\ UNCHANGED <<old, remembered, next, stack, missed, counters, frame, bound, view>>

SetAttrib ==
    /\ temp # Nil
    /\ \E name \in AttributeNames :
          /\ Goto(name, After[name])
          /\ Store(frame, Attribute(name), temp)
    /\ temp' = Nil
    /\ UNCHANGED <<counters, frame, bound, view>>

\* return df: the Shield goes, and fromModel takes a new one.
ReturnFrame == Goto("returnFrame", "fromModel") /\ Unshield /\ UNCHANGED <<counters, refs>>

CreateDataframe == AllocFrame \/ NewAttribute \/ SetAttrib \/ ReturnFrame
-------------------------------------------------------------------------------
(* fromModel. *)

FromModelUnshielded ==                                                           \* mutant
    /\ Goto("fromModel", IF Columns > 0 THEN "nameColumn" ELSE "return")
    /\ UNCHANGED <<heapvars, counters, refs>>

FromModel ==
    /\ Goto("fromModel", IF Columns > 0 THEN "nameColumn" ELSE "return")
    /\ Shield(frame)
    /\ UNCHANGED <<counters, refs>>

Names == heap[frame][Attribute("names")]

\* plainData<SEXP>(names, i) = Rf_mkChar(...)
NameColumn ==
    /\ Goto("nameColumn", "newColumn")
    /\ heap' = RawStore(Allocated, Names, column, next) /\ next' = next + 1
    /\ UNCHANGED <<old, remembered, stack, missed, counters, refs>>

NewColumnOneMore ==                                                              \* mutant
    /\ Goto("newColumn", IF column <= Columns THEN "nameColumn" ELSE "fillCell")
    /\ column' = IF column <= Columns THEN column + 1 ELSE 1
    /\ heap' = RawStore(Allocated, frame, column, next) /\ next' = next + 1
    /\ UNCHANGED <<old, remembered, stack, missed, row, refs>>

\* plainData<SEXP>(df, i) = Rf_allocVector(...)
NewColumn ==
    /\ Goto("newColumn", IF column < Columns THEN "nameColumn" ELSE "fillCell")
    /\ column' = IF column < Columns THEN column + 1 ELSE 1
    /\ heap' = RawStore(Allocated, frame, column, next) /\ next' = next + 1
    /\ UNCHANGED <<old, remembered, stack, missed, row, refs>>

\* setPlain into a column; only text makes R allocate.
FillCell ==
    /\ row <= Rows
    /\ Goto("fillCell", "fillCell")
    /\ IF column \in TextColumns
       THEN heap' = RawStore(Allocated, heap[frame][Element(column)], row, next) /\ next' = next + 1
       ELSE UNCHANGED <<heap, next>>
    /\ row' = row + 1
    /\ UNCHANGED <<old, remembered, stack, missed, column, refs>>

NextColumn ==
    /\ row > Rows
    /\ Goto("fillCell", IF column < Columns THEN "fillCell" ELSE "return")
    /\ column' = column + 1 /\ row' = 1
    /\ UNCHANGED <<heapvars, refs>>

\* return RObject(df)
ReturnRObject == Goto("return", "install") /\ Unshield /\ UNCHANGED <<counters, refs>>
-------------------------------------------------------------------------------
(* RBind::operator=: Rf_install makes a symbol; Rf_defineVar keeps its value. *)

Install ==
    /\ Goto("install", "defineVar")
    /\ temp' = frame
    /\ UNCHANGED <<heapvars, counters, frame, bound, view>>

\* Rf_defineVar, and addVar, whose RModel takes the value of the variable.
DefineVar ==
    /\ Goto("defineVar", "user")
    /\ bound' = temp /\ view' = temp
    /\ temp' = Nil
    /\ UNCHANGED <<heapvars, counters, frame>>

Import ==
    \/ CreateDataframe \/ FromModel \/ NameColumn \/ NewColumn \/ FillCell \/ NextColumn
    \/ ReturnRObject \/ Install \/ DefineVar
-------------------------------------------------------------------------------
(* The user. *)

Command == Goto("user", "command") /\ UNCHANGED <<heapvars, counters, refs>>

\* In_1 <- value
Rebind ==
    /\ next < MaxObjects                                \* the bound
    /\ Goto("command", "command")
    /\ bound' = next
    /\ Alloc
    /\ UNCHANGED <<counters, frame, temp, view>>

\* rm(In_1)
Remove ==
    /\ Goto("command", "command")
    /\ bound' = Nil
    /\ UNCHANGED <<heapvars, counters, frame, temp, view>>

UpdateVarNot == Goto("command", "user") /\ UNCHANGED <<heapvars, counters, refs>>   \* mutant

\* The command is answered, and updateVariables takes the value anew.
UpdateVar ==
    /\ Goto("command", "user")
    /\ view' = bound
    /\ UNCHANGED <<heapvars, counters, frame, temp, bound>>

\* RObject::setValue of a cell of text, in a column that is there: its Shield.
EditCell ==
    /\ next < MaxObjects                                \* the bound
    /\ Goto("user", "editCell")
    /\ view \in live
    /\ \E c \in TextColumns, r \in 1 .. Rows :
          /\ Element(c) \in DOMAIN heap[view]
          /\ heap[view][Element(c)] \in live
          /\ Shield(heap[view][Element(c)])
          /\ column' = c /\ row' = r
    /\ UNCHANGED refs

\* setPlain and ~Shield.
SetPlain ==
    /\ Goto("editCell", "user")
    /\ heap' = RawStore(Allocated, stack[Len(stack)], row, next) /\ next' = next + 1
    /\ stack' = SubSeq(stack, 1, Len(stack) - 1)
    /\ UNCHANGED <<old, remembered, missed, counters, refs>>

UserEvents == Command \/ Rebind \/ Remove \/ UpdateVar \/ EditCell \/ SetPlain

FNext == Collection \/ Import \/ UserEvents

FSpec == FInit /\ [][FNext]_fvars
-------------------------------------------------------------------------------
\* createDataframe's Shield, and fromModel's.
Shielded == AttributeNames \cup {"returnFrame", "nameColumn", "newColumn", "fillCell", "return"}

FrameTypeOK ==
    /\ pc \in Allocating \cup Shielded \cup {"fromModel"}
    /\ column \in 1 .. Columns + 1 /\ row \in 1 .. Rows + 1
    /\ {frame, temp, bound, view} \subseteq 0 .. next - 1
    /\ unshielded \in BOOLEAN

\* Where fromModel uses its first counter, it is the number of a column.
ColumnInRange ==
    /\ pc \in AttributeNames \cup {"createDataframe", "returnFrame", "fromModel"} => column = 1
    /\ pc \in {"nameColumn", "newColumn", "fillCell"} => column <= Columns

FTypeOK == HeapTypeOK /\ FrameTypeOK /\ ColumnInRange

(* Every object that the code still uses and R does not know is under a     *)
(* Shield, and alive: the frame from its allocation to the end of           *)
(* fromModel, the column of the cell that is being edited.  Every Shield is *)
(* gone when control is back in the event loop.                             *)
ShieldsHold ==
    /\ Protected \subseteq live
    /\ pc \in Shielded => frame \in live /\ stack = <<frame>>
    /\ pc = "editCell" => Len(stack) = 1
    /\ pc \notin Shielded \cup {"editCell"} => stack = <<>>

(* A live object refers to a dead one only where the code stored through a  *)
(* raw pointer (names and columns of the frame, cells of text) and a minor  *)
(* collection came before the next full one.  The attributes, which the     *)
(* code sets with Rf_setAttrib, are never lost.                             *)
LossExplained ==
    \A o \in live : \A s \in DOMAIN heap[o] :
        heap[o][s] \in live \/ (IsElement(s) /\ missed)

(* Whenever the user may look at the view, the object its model holds       *)
(* without protection is alive, whatever a command has rebound or removed   *)
(* and R collected: updateVariables follows every command.  The exception   *)
(* is a frame that was collected between fromModel and Rf_defineVar.        *)
ViewReadsLive == pc = "user" /\ view # Nil => view \in live \/ unshielded
================================================================================
