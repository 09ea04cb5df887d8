-------------------------------- MODULE RHeap --------------------------------
(***************************************************************************)
(* R's heap, as RObject, RBind and Shield rely on it.  R is not in the     *)
(* repository: the collector is the one its manual promises to C code.  An *)
(* object lives as long as it is reached from the protect stack or from    *)
(* the global environment, provided that it was stored where it is with    *)
(* R's own functions.                                                      *)
(*                                                                         *)
(* The collector is generational.  A full collection traces every object   *)
(* it reaches.  A minor one keeps the old objects, which have survived a   *)
(* collection before, without looking into them, except into those that    *)
(* the write barrier of R's own functions has remembered.  It may keep     *)
(* more than it must.                                                      *)
(***************************************************************************)
EXTENDS Naturals, Sequences

Nil == 0            \* R_NilValue, which is never collected

VARIABLES
    heap,           \* the objects allocated: object -> slot -> object
    old,            \* those that have survived a collection
    remembered,     \* old objects into which R stored a reference since
    next,           \* the next object to be allocated
    stack,          \* R's protect stack
    missed          \* history variable: did a minor collection run while an old
                    \* object had a young element it was not told of?

heapvars == <<heap, old, remembered, next, stack, missed>>

live == DOMAIN heap
Refs(o) == {heap[o][s] : s \in DOMAIN heap[o]}
Protected == {stack[i] : i \in DOMAIN stack}

HeapInit ==
    /\ heap = <<>> /\ old = {} /\ remembered = {} /\ next = 1
    /\ stack = <<>>
    /\ missed = FALSE

\* A slot is an attribute of an object or an element of its data.
Attribute(name) == << name, 0 >>
Element(i)      == << "data", i >>
IsElement(s)    == s[1] = "data"

With(h, o, s, v) ==
    [h EXCEPT ![o] = [t \in DOMAIN h[o] \cup {s} |-> IF t = s THEN v ELSE h[o][t]]]

\* Rf_allocVector, Rf_mkChar, Rf_mkString.
Allocated == [o \in live \cup {next} |-> IF o = next THEN <<>> ELSE heap[o]]

Alloc ==
    /\ heap' = Allocated /\ next' = next + 1
    /\ UNCHANGED <<old, remembered, stack, missed>>

\* Rf_setAttrib: R stores with the write barrier.
Store(o, s, v) ==
    /\ heap' = With(heap, o, s, v)
    /\ remembered' = remembered \cup ({o} \cap old)
    /\ UNCHANGED <<old, next, stack, missed>>

\* Into h, plainData<SEXP>(o, i) = v: a store through a pointer, unknown to R.
\* What is written into an object that was freed already is lost.
RawStore(h, o, i, v) == IF o \in DOMAIN h THEN With(h, o, Element(i), v) ELSE h

\* Shield and ~Shield.
Shield(o) ==
    /\ stack' = Append(stack, o)
    /\ UNCHANGED <<heap, old, remembered, next, missed>>

Unshield ==
    /\ stack' = SubSeq(stack, 1, Len(stack) - 1)
    /\ UNCHANGED <<heap, old, remembered, next, missed>>
-------------------------------------------------------------------------------
(* Collection. *)

Young == live \ old

Unseen == {o \in old \ remembered : \E s \in DOMAIN heap[o] : IsElement(s) /\ heap[o][s] \in Young}

Traced(full) == IF full THEN live ELSE Young \cup remembered

Keeps(kept, roots, full) ==
    /\ roots \cap live \subseteq kept
    /\ full \/ old \subseteq kept
    /\ \A o \in kept \cap Traced(full) : Refs(o) \cap live \subseteq kept

Collect(roots) ==
    \E full \in BOOLEAN, kept \in SUBSET live :
        /\ Keeps(kept, roots, full)
        /\ heap' = [o \in kept |-> heap[o]]
        /\ old' = kept
        /\ remembered' = {}
        /\ missed' = (missed \/ (~full /\ Unseen # {}))
        /\ UNCHANGED <<next, stack>>

HeapTypeOK ==
    /\ next \in Nat \ {0}
    /\ live \subseteq 1 .. next - 1
    /\ old \subseteq live /\ remembered \subseteq old
    /\ \A o \in live : Refs(o) \subseteq 1 .. next - 1
    /\ stack \in Seq(1 .. next - 1)
    /\ missed \in BOOLEAN
================================================================================
