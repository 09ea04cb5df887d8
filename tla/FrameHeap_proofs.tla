--------------------------- MODULE FrameHeap_proofs ---------------------------
(***************************************************************************)
(* What Shield, the write barrier and updateVariables keep alive, for any  *)
(* number of rows and columns and any choice of the collector.             *)
(***************************************************************************)
EXTENDS FrameHeap, TLAPS

(* What R's own stores keep: an attribute is alive, and an old object that  *)
(* the next minor collection will not look into has old attributes only.    *)
AttributesKept ==
    \A o \in live : \A s \in DOMAIN heap[o] :
        ~IsElement(s) => heap[o][s] \in live /\ (o \in old \ remembered => heap[o][s] \in old)

(* The roots other than the stack, and what is not rooted for a moment.     *)
RootsLive ==
    /\ pc = "fromModel" => frame \in live
    /\ pc = "install" => frame \in live \/ unshielded
    /\ pc \in AttributeNames /\ temp # Nil => temp \in live
    /\ temp # Nil => pc \in AttributeNames \cup {"defineVar"} /\ (temp \in live \/ unshielded)
    /\ bound # Nil => bound \in live \/ unshielded
    /\ pc \in {"user", "editCell"} => view = bound

-------------------------------------------------------------------------------
(* An allocation adds the object next, which has no slots. *)
LEMMA AllocatedHeap ==
    /\ DOMAIN Allocated = live \cup {next}
    /\ \A o \in live : o # next => Allocated[o] = heap[o]
    /\ Allocated[next] = <<>>
    /\ DOMAIN Allocated[next] = {}
BY DEF Allocated, live

(* A raw store changes at most one element, of one object. *)
LEMMA RawStored ==
    ASSUME NEW h, NEW o, NEW i, NEW v
    PROVE  /\ DOMAIN RawStore(h, o, i, v) = DOMAIN h
           /\ \A x \in DOMAIN h : \A s \in DOMAIN RawStore(h, o, i, v)[x] :
                 \/ s \in DOMAIN h[x] /\ RawStore(h, o, i, v)[x][s] = h[x][s]
                 \/ IsElement(s) /\ RawStore(h, o, i, v)[x][s] = v
BY DEF RawStore, With, Element, IsElement

(* The part of the invariant that speaks of the heap alone. *)
HeapKept == HeapTypeOK /\ AttributesKept /\ LossExplained

LEMMA SlotTyped ==
    ASSUME HeapTypeOK, NEW o \in live, NEW s \in DOMAIN heap[o]
    PROVE  heap[o][s] \in 1 .. next - 1
BY DEF HeapTypeOK, Refs

(* An allocation keeps it, with or without a raw store of the new object.   *)
LEMMA RawStoreKeeps ==
    ASSUME HeapKept, NEW o, NEW i,
           heap' = RawStore(Allocated, o, i, next) \/ heap' = Allocated,
           next' = next + 1, UNCHANGED <<old, remembered, missed>>, stack' \in Seq(1 .. next)
    PROVE  HeapKept' /\ live' = live \cup {next}
<1>1. live' = live \cup {next}
  BY AllocatedHeap, RawStored DEF live
<1>2. next \notin live /\ next \in Nat \ {0} /\ live \subseteq 1 .. next' - 1
  BY DEF HeapKept, HeapTypeOK
<1>3. ASSUME NEW x \in live', NEW s \in DOMAIN heap'[x]
      PROVE  \/ x \in live /\ s \in DOMAIN heap[x] /\ heap'[x][s] = heap[x][s]
             \/ IsElement(s) /\ heap'[x][s] = next
  <2>1. x \in DOMAIN Allocated
    BY <1>1, AllocatedHeap
  <2>2. \/ s \in DOMAIN Allocated[x] /\ heap'[x][s] = Allocated[x][s]
        \/ IsElement(s) /\ heap'[x][s] = next
    BY <2>1, RawStored
  <2>3. s \in DOMAIN Allocated[x] => x \in live /\ Allocated[x] = heap[x]
    BY <1>1, <1>2, AllocatedHeap
  <2> QED BY <2>2, <2>3
<1>4. HeapTypeOK'
  <2>1. ASSUME NEW x \in live', NEW s \in DOMAIN heap'[x] PROVE heap'[x][s] \in 1 .. next' - 1
    <3>1. x \in live /\ s \in DOMAIN heap[x] => heap[x][s] \in 1 .. next - 1
      BY SlotTyped DEF HeapKept
    <3>2. heap'[x][s] \in 1 .. next - 1 \/ heap'[x][s] = next
      BY <1>3, <3>1
    <3> QED BY <1>2, <3>2
  <2>2. \A x \in live' : Refs(x)' \subseteq 1 .. next' - 1
    BY <2>1 DEF Refs
  <2> QED BY <1>1, <1>2, <2>2 DEF HeapKept, HeapTypeOK
<1>5. AttributesKept'
  <2> SUFFICES ASSUME NEW x \in live', NEW s \in DOMAIN heap'[x], ~IsElement(s)
               PROVE  heap'[x][s] \in live' /\ (x \in old' \ remembered' => heap'[x][s] \in old')
    BY DEF AttributesKept
  <2> QED BY <1>1, <1>3 DEF HeapKept, AttributesKept
<1>6. LossExplained'
  <2> SUFFICES ASSUME NEW x \in live', NEW s \in DOMAIN heap'[x]
               PROVE  heap'[x][s] \in live' \/ (IsElement(s) /\ missed')
    BY DEF LossExplained
  <2> QED BY <1>1, <1>3 DEF HeapKept, LossExplained
<1> QED BY <1>1, <1>4, <1>5, <1>6 DEF HeapKept

LEMMA AllocKeeps ==
    ASSUME HeapKept, Alloc
    PROVE  HeapKept' /\ live' = live \cup {next}
<1>1. stack' \in Seq(1 .. next)
  BY DEF HeapKept, HeapTypeOK, Alloc
<1> QED BY <1>1, RawStoreKeeps DEF Alloc

(* A store with the barrier, of a live object into a live one. *)
LEMMA StoreKeeps ==
    ASSUME HeapKept, NEW o \in live, NEW name \in AttributeNames, NEW v \in live,
           Store(o, Attribute(name), v)
    PROVE  HeapKept' /\ live' = live
<1>1. live' = live
  BY DEF Store, With, live
<1>2. ASSUME NEW x \in live', NEW s \in DOMAIN heap'[x]
      PROVE  \/ x \in live /\ s \in DOMAIN heap[x] /\ heap'[x][s] = heap[x][s]
             \/ x = o /\ ~IsElement(s) /\ heap'[x][s] = v
  BY <1>1 DEF Store, With, live, Attribute, IsElement, AttributeNames
<1>3. HeapTypeOK'
  <2>1. ASSUME NEW x \in live', NEW s \in DOMAIN heap'[x] PROVE heap'[x][s] \in 1 .. next' - 1
    BY <1>2, SlotTyped DEF HeapKept, HeapTypeOK, Store
  <2>2. \A x \in live' : Refs(x)' \subseteq 1 .. next' - 1
    BY <2>1 DEF Refs
  <2> QED BY <1>1, <2>2 DEF HeapKept, HeapTypeOK, Store
<1>4. AttributesKept'
  <2> SUFFICES ASSUME NEW x \in live', NEW s \in DOMAIN heap'[x], ~IsElement(s)
               PROVE  heap'[x][s] \in live' /\ (x \in old' \ remembered' => heap'[x][s] \in old')
    BY DEF AttributesKept
  <2> QED BY <1>1, <1>2 DEF HeapKept, AttributesKept, Store
<1>5. LossExplained'
  <2> SUFFICES ASSUME NEW x \in live', NEW s \in DOMAIN heap'[x]
               PROVE  heap'[x][s] \in live' \/ (IsElement(s) /\ missed')
    BY DEF LossExplained
  <2> QED BY <1>1, <1>2 DEF HeapKept, LossExplained, Store
<1> QED BY <1>1, <1>3, <1>4, <1>5 DEF HeapKept

(* A collection keeps it, and every root that was alive.  This is where the *)
(* two generations matter: a minor collection passes over an old object     *)
(* that is not remembered, whose attributes are old and kept anyway, and    *)
(* whose young elements are what missed records.                            *)
LEMMA CollectKeeps ==
    ASSUME HeapKept, NEW roots, Collect(roots)
    PROVE  HeapKept' /\ live' \subseteq live /\ roots \cap live \subseteq live'
<1>1. PICK full \in BOOLEAN, kept \in SUBSET live :
        /\ Keeps(kept, roots, full)
        /\ heap' = [o \in kept |-> heap[o]]
        /\ old' = kept /\ remembered' = {}
        /\ missed' = (missed \/ (~full /\ Unseen # {}))
        /\ UNCHANGED <<next, stack>>
  BY DEF Collect
<1>2. live' = kept /\ \A o \in kept : heap'[o] = heap[o]
  BY <1>1 DEF live
<1>3. ASSUME NEW o \in kept, NEW s \in DOMAIN heap[o], heap[o][s] \in live
      PROVE  heap[o][s] \in kept \/ (IsElement(s) /\ missed')
  <2>1. CASE o \in Traced(full)
    <3>1. Refs(o) \cap live \subseteq kept
      BY <1>1, <2>1 DEF Keeps
    <3> QED BY <3>1, <1>3 DEF Refs
  <2>2. CASE o \notin Traced(full)
    <3>1. ~full /\ o \in old \ remembered /\ old \subseteq kept
      BY <1>1, <2>2 DEF Traced, Keeps, Young, HeapKept, HeapTypeOK
    <3>2. CASE IsElement(s)
      <4>1. heap[o][s] \in Young => Unseen # {}
        BY <3>1, <3>2 DEF Unseen
      <4>2. Unseen # {} => missed'
        BY <1>1, <3>1
      <4>3. heap[o][s] \notin Young => heap[o][s] \in kept
        BY <1>3, <3>1 DEF Young
      <4> QED BY <3>2, <4>1, <4>2, <4>3
    <3>3. CASE ~IsElement(s)
      BY <3>1, <3>3, <1>1 DEF HeapKept, AttributesKept
    <3> QED BY <3>2, <3>3
  <2> QED BY <2>1, <2>2
<1>4. HeapTypeOK'
  <2>0. ASSUME NEW x \in live', NEW s \in DOMAIN heap'[x] PROVE heap'[x][s] \in 1 .. next' - 1
    BY <1>1, <1>2, SlotTyped DEF HeapKept
  <2>1. \A x \in live' : Refs(x)' \subseteq 1 .. next' - 1
    BY <2>0 DEF Refs
  <2>2. missed' \in BOOLEAN
    BY <1>1 DEF HeapKept, HeapTypeOK
  <2> QED BY <1>1, <1>2, <2>1, <2>2 DEF HeapKept, HeapTypeOK
<1>5. AttributesKept'
  <2> SUFFICES ASSUME NEW x \in live', NEW s \in DOMAIN heap'[x], ~IsElement(s)
               PROVE  heap'[x][s] \in live' /\ heap'[x][s] \in old'
    BY DEF AttributesKept
  <2>1. heap[x][s] \in live
    BY <1>2, <1>1 DEF HeapKept, AttributesKept
  <2> QED BY <1>1, <1>2, <1>3, <2>1
<1>6. LossExplained'
  <2> SUFFICES ASSUME NEW x \in live', NEW s \in DOMAIN heap'[x]
               PROVE  heap'[x][s] \in live' \/ (IsElement(s) /\ missed')
    BY DEF LossExplained
  <2>1. missed => missed'
    BY <1>1
  <2>2. heap[x][s] \in live \/ (IsElement(s) /\ missed)
    BY <1>1, <1>2 DEF HeapKept, LossExplained
  <2> QED BY <1>2, <1>3, <2>1, <2>2
<1> QED BY <1>1, <1>2, <1>4, <1>5, <1>6 DEF HeapKept, Keeps
-------------------------------------------------------------------------------
(* The invariant. *)
FInv == HeapKept /\ FrameTypeOK /\ ColumnInRange /\ ShieldsHold /\ RootsLive

LEMMA FInvStart == FInit => FInv
<1> SUFFICES ASSUME FInit PROVE FInv
  OBVIOUS
<1> USE DEF FInit, HeapInit
<1>1. live = {}
  BY DEF live
<1>2. HeapKept
  <2>1. stack \in Seq(1 .. next - 1)
    OBVIOUS
  <2>2. missed \in BOOLEAN
    OBVIOUS
  <2>3. HeapTypeOK
    BY <1>1, <2>1, <2>2 DEF HeapTypeOK
  <2> QED BY <1>1, <2>3 DEF HeapKept, AttributesKept, LossExplained
<1>c. ColumnInRange
  BY DEF ColumnInRange, AttributeNames
<1>3. FrameTypeOK
  <2>1. unshielded \in BOOLEAN
    OBVIOUS
  <2>2. column \in 1 .. Columns + 1 /\ row \in 1 .. Rows + 1
    BY FrameHeapAssumption
  <2> QED BY <2>1, <2>2 DEF FrameTypeOK, Allocating, Nil
<1>4. ShieldsHold
  BY DEF ShieldsHold, Protected, Shielded, AttributeNames
<1>5. RootsLive
  BY DEF RootsLive, AttributeNames
<1> QED BY <1>2, <1>3, <1>c, <1>4, <1>5 DEF FInv

LEMMA FInvStep == FInv /\ [FNext]_fvars => FInv'
<1> SUFFICES ASSUME FInv, [FNext]_fvars PROVE FInv'
  OBVIOUS
<1> USE FrameHeapAssumption DEF Goto, counters, refs, heapvars
<1>a. next \in Nat \ {0} /\ stack \in Seq(1 .. next - 1) /\ live \subseteq 1 .. next - 1
  BY DEF FInv, HeapKept, HeapTypeOK
<1>b. ASSUME UNCHANGED <<heap, old, remembered, next, missed>>, stack' \in Seq(1 .. next - 1)
      PROVE  HeapKept' /\ live' = live
  BY <1>b DEF FInv, HeapKept, HeapTypeOK, AttributesKept, LossExplained, live, Refs
<1>c. stack \in Seq(1 .. next)
  BY <1>a
<1>d. {frame, temp, bound, view} \subseteq 0 .. next
  BY <1>a DEF FInv, FrameTypeOK
<1>1. CASE UNCHANGED fvars
  <2>1. HeapKept' /\ live' = live
    BY <1>1, <1>a, <1>b DEF fvars
  <2> QED BY <1>1, <2>1 DEF fvars, FInv, ColumnInRange, FrameTypeOK, ShieldsHold, RootsLive, Protected
<1>2. CASE Collection
  <2>1. HeapKept' /\ live' \subseteq live /\ Roots \cap live \subseteq live'
    BY <1>2, CollectKeeps DEF Collection, FInv
  <2>2. UNCHANGED <<pc, stack, next, column, row, frame, temp, bound, view>> /\ (unshielded => unshielded')
        /\ unshielded' \in BOOLEAN /\ (pc = "install" => unshielded')
    BY <1>2 DEF Collection, Collect, FInv, FrameTypeOK
  <2>3. FrameTypeOK'
    BY <2>1, <2>2 DEF FInv, FrameTypeOK, HeapKept
  <2>4. ShieldsHold'
    <3>1. Protected' \subseteq live'
      BY <2>1, <2>2 DEF FInv, ShieldsHold, Roots, Protected
    <3>2. pc \in Shielded => frame \in live'
      <4>1. pc \in Shielded => frame \in Protected
        BY DEF FInv, ShieldsHold, Protected
      <4> QED BY <2>1, <4>1 DEF FInv, ShieldsHold, Roots
    <3> QED BY <2>2, <3>1, <3>2 DEF FInv, ShieldsHold
  <2>5. RootsLive'
    <3>1. pc # "fromModel"
      BY <1>2 DEF Collection, Allocating, AttributeNames
    <3>2. \A r \in {bound, temp} : r \in live => r \in live'
      BY <2>1 DEF Roots
    <3> QED BY <2>2, <3>1, <3>2 DEF FInv, RootsLive
  <2>6. ColumnInRange'
    BY <2>2 DEF FInv, ColumnInRange
  <2> QED BY <2>1, <2>3, <2>4, <2>5, <2>6 DEF FInv
<1>3. CASE AllocFrame
  <2>0. stack' \in Seq(1 .. next)
    BY <1>3, <1>a DEF AllocFrame, FInv, ShieldsHold, Shielded, RootsLive
  <2>1. HeapKept' /\ live \subseteq live' /\ next \in live' /\ next' = next + 1
    BY <1>3, <1>a, <1>c, <2>0, RawStoreKeeps DEF AllocFrame, Alloc, FInv
  <2>2. FrameTypeOK'
    BY <1>3, <1>a, <1>d, <2>1 DEF AllocFrame, Nil, FInv, FrameTypeOK, Allocating, Shielded, AttributeNames
  <2>3. ShieldsHold'
    BY <1>3, <1>a, <2>1 DEF AllocFrame, FInv, ShieldsHold, Protected, Shielded, AttributeNames
  <2>4. RootsLive'
    BY <1>3, <1>a, <2>1 DEF AllocFrame, FInv, ShieldsHold, RootsLive, Shielded, AttributeNames
  <2>5. ColumnInRange'
    BY <1>3 DEF AllocFrame, FInv, FrameTypeOK, ColumnInRange, AttributeNames
  <2> QED BY <2>1, <2>2, <2>3, <2>4, <2>5 DEF FInv
<1>4. CASE NewAttribute
  <2>1. HeapKept' /\ live \subseteq live' /\ next \in live' /\ next' = next + 1
    BY <1>4, <1>a, <1>c, RawStoreKeeps DEF NewAttribute, Alloc, FInv
  <2>2. FrameTypeOK'
    BY <1>4, <1>a, <1>d, <2>1 DEF NewAttribute, Alloc, Nil, FInv, FrameTypeOK, Allocating, Shielded, AttributeNames
  <2>3. ShieldsHold'
    BY <1>4, <1>a, <2>1 DEF NewAttribute, Alloc, FInv, ShieldsHold, Protected, Shielded, AttributeNames
  <2>4. RootsLive'
    <3>1. pc \in AttributeNames /\ UNCHANGED <<pc, frame, bound, view, unshielded>> /\ temp' = next
      BY <1>4 DEF NewAttribute
    <3> QED BY <2>1, <3>1 DEF FInv, RootsLive, AttributeNames
  <2>5. ColumnInRange'
    BY <1>4 DEF NewAttribute, FInv, FrameTypeOK, ColumnInRange, AttributeNames
  <2> QED BY <2>1, <2>2, <2>3, <2>4, <2>5 DEF FInv
<1>5. CASE SetAttrib
  <2>1. HeapKept' /\ live' = live /\ next' = next
    BY <1>5, StoreKeeps DEF SetAttrib, Store, FInv, ShieldsHold, Shielded, RootsLive
  <2>2. FrameTypeOK'
    BY <1>5, <1>a, <1>d, <2>1 DEF SetAttrib, Store, After, Nil, FInv, FrameTypeOK, Allocating, Shielded, AttributeNames
  <2>3. ShieldsHold'
    BY <1>5, <1>a, <2>1 DEF SetAttrib, Store, After, FInv, ShieldsHold, Protected, Shielded, AttributeNames
  <2>4. RootsLive'
    BY <1>5, <1>a, <2>1 DEF SetAttrib, Store, After, FInv, ShieldsHold, RootsLive, Shielded, AttributeNames
  <2>5. ColumnInRange'
    BY <1>5 DEF SetAttrib, After, FInv, FrameTypeOK, ColumnInRange, AttributeNames
  <2> QED BY <2>1, <2>2, <2>3, <2>4, <2>5 DEF FInv
<1>6. CASE ReturnFrame
  <2>0. stack' \in Seq(1 .. next - 1)
    BY <1>6, <1>a DEF ReturnFrame, Unshield, FInv, ShieldsHold, Shielded, RootsLive
  <2>1. HeapKept' /\ live' = live /\ next' = next
    BY <1>6, <1>a, <1>b, <2>0 DEF ReturnFrame, Unshield
  <2>2. FrameTypeOK'
    BY <1>6, <1>a, <1>d, <2>1 DEF ReturnFrame, Unshield, Nil, FInv, FrameTypeOK, Allocating, Shielded, AttributeNames
  <2>3. ShieldsHold'
    BY <1>6, <1>a, <2>1 DEF ReturnFrame, Unshield, FInv, ShieldsHold, Protected, Shielded, AttributeNames
  <2>4. RootsLive'
    BY <1>6, <1>a, <2>1 DEF ReturnFrame, Unshield, FInv, ShieldsHold, RootsLive, Shielded, AttributeNames
  <2>5. ColumnInRange'
    BY <1>6 DEF ReturnFrame, FInv, FrameTypeOK, ColumnInRange, AttributeNames
  <2> QED BY <2>1, <2>2, <2>3, <2>4, <2>5 DEF FInv
<1>7. CASE FromModel
  <2>0. stack' \in Seq(1 .. next - 1)
    <3>1. frame \in live
      BY <1>7 DEF FromModel, FInv, RootsLive
    <3> QED BY <1>7, <1>a, <3>1 DEF FromModel, Shield
  <2>1. HeapKept' /\ live' = live /\ next' = next
    BY <1>7, <1>a, <1>b, <2>0 DEF FromModel, Shield
  <2>2. FrameTypeOK'
    BY <1>7, <1>a, <1>d, <2>1 DEF FromModel, Shield, Nil, FInv, FrameTypeOK, Allocating, Shielded, AttributeNames
  <2>3. ShieldsHold'
    <3>1. stack = <<>> /\ frame \in live
      BY <1>7 DEF FromModel, FInv, ShieldsHold, RootsLive, Shielded, AttributeNames
    <3>2. stack' = <<frame>>
      BY <1>7, <3>1 DEF FromModel, Shield
    <3>3. pc' \in Shielded /\ frame' = frame
      BY <1>7 DEF FromModel, Shielded
    <3>4. Protected' = {frame}
      BY <3>2 DEF Protected
    <3> QED BY <1>7, <2>1, <3>1, <3>2, <3>3, <3>4 DEF FromModel, ShieldsHold
  <2>4. RootsLive'
    BY <1>7, <1>a, <2>1 DEF FromModel, Shield, FInv, ShieldsHold, RootsLive, Shielded, AttributeNames
  <2>5. ColumnInRange'
    BY <1>7 DEF FromModel, FInv, FrameTypeOK, ColumnInRange, AttributeNames
  <2> QED BY <2>1, <2>2, <2>3, <2>4, <2>5 DEF FInv
<1>8. CASE NameColumn
  <2>1. HeapKept' /\ live \subseteq live' /\ next \in live' /\ next' = next + 1
    BY <1>8, <1>a, <1>c, RawStoreKeeps DEF NameColumn, Alloc, FInv
  <2>2. FrameTypeOK'
    BY <1>8, <1>a, <1>d, <2>1 DEF NameColumn, Nil, FInv, FrameTypeOK, Allocating, Shielded, AttributeNames
  <2>3. ShieldsHold'
    BY <1>8, <1>a, <2>1 DEF NameColumn, FInv, ShieldsHold, Protected, Shielded, AttributeNames
  <2>4. RootsLive'
    BY <1>8, <1>a, <2>1 DEF NameColumn, FInv, ShieldsHold, RootsLive, Shielded, AttributeNames
  <2>5. ColumnInRange'
    BY <1>8 DEF NameColumn, FInv, FrameTypeOK, ColumnInRange, AttributeNames
  <2> QED BY <2>1, <2>2, <2>3, <2>4, <2>5 DEF FInv
<1>9. CASE NewColumn
  <2>1. HeapKept' /\ live \subseteq live' /\ next \in live' /\ next' = next + 1
    BY <1>9, <1>a, <1>c, RawStoreKeeps DEF NewColumn, Alloc, FInv
  <2>2. FrameTypeOK'
    BY <1>9, <1>a, <1>d, <2>1 DEF NewColumn, Nil, FInv, FrameTypeOK, Allocating, Shielded, AttributeNames
  <2>3. ShieldsHold'
    BY <1>9, <1>a, <2>1 DEF NewColumn, FInv, ShieldsHold, Protected, Shielded, AttributeNames
  <2>4. RootsLive'
    BY <1>9, <1>a, <2>1 DEF NewColumn, FInv, ShieldsHold, RootsLive, Shielded, AttributeNames
  <2>5. ColumnInRange'
    BY <1>9 DEF NewColumn, FInv, FrameTypeOK, ColumnInRange, AttributeNames
  <2> QED BY <2>1, <2>2, <2>3, <2>4, <2>5 DEF FInv
<1>10. CASE FillCell
  <2>1. HeapKept' /\ live \subseteq live' /\ (next' = next \/ next' = next + 1)
    BY <1>10, <1>a, <1>c, <1>b, RawStoreKeeps DEF FillCell, FInv
  <2>2. FrameTypeOK'
    BY <1>10, <1>a, <1>d, <2>1 DEF FillCell, Nil, FInv, FrameTypeOK, Allocating, Shielded, AttributeNames
  <2>3. ShieldsHold'
    BY <1>10, <1>a, <2>1 DEF FillCell, FInv, ShieldsHold, Protected, Shielded, AttributeNames
  <2>4. RootsLive'
    BY <1>10, <1>a, <2>1 DEF FillCell, FInv, ShieldsHold, RootsLive, Shielded, AttributeNames
  <2>5. ColumnInRange'
    BY <1>10 DEF FillCell, FInv, FrameTypeOK, ColumnInRange, AttributeNames
  <2> QED BY <2>1, <2>2, <2>3, <2>4, <2>5 DEF FInv
<1>11. CASE NextColumn
  <2>1. HeapKept' /\ live' = live /\ next' = next
    BY <1>11, <1>a, <1>b DEF NextColumn
  <2>2. FrameTypeOK'
    BY <1>11, <1>a, <1>d, <2>1 DEF NextColumn, Nil, FInv, FrameTypeOK, ColumnInRange, Allocating, Shielded, AttributeNames
  <2>3. ShieldsHold'
    BY <1>11, <1>a, <2>1 DEF NextColumn, FInv, ShieldsHold, Protected, Shielded, AttributeNames
  <2>4. RootsLive'
    BY <1>11, <1>a, <2>1 DEF NextColumn, FInv, ShieldsHold, RootsLive, Shielded, AttributeNames
  <2>5. ColumnInRange'
    BY <1>11 DEF NextColumn, FInv, FrameTypeOK, ColumnInRange, AttributeNames
  <2> QED BY <2>1, <2>2, <2>3, <2>4, <2>5 DEF FInv
<1>12. CASE ReturnRObject
  <2>0. stack' \in Seq(1 .. next - 1)
    BY <1>12, <1>a DEF ReturnRObject, Unshield, FInv, ShieldsHold, Shielded, RootsLive
  <2>1. HeapKept' /\ live' = live /\ next' = next
    BY <1>12, <1>a, <1>b, <2>0 DEF ReturnRObject, Unshield
  <2>2. FrameTypeOK'
    BY <1>12, <1>a, <1>d, <2>1 DEF ReturnRObject, Unshield, Nil, FInv, FrameTypeOK, Allocating, Shielded, AttributeNames
  <2>3. ShieldsHold'
    <3>1. stack' = <<>>
      BY <1>12 DEF ReturnRObject, Unshield, FInv, ShieldsHold, Shielded
    <3> QED BY <1>12, <2>1, <3>1 DEF ReturnRObject, ShieldsHold, Protected, Shielded, AttributeNames
  <2>4. RootsLive'
    BY <1>12, <1>a, <2>1 DEF ReturnRObject, Unshield, FInv, ShieldsHold, RootsLive, Shielded, AttributeNames
  <2>5. ColumnInRange'
    BY <1>12 DEF ReturnRObject, FInv, FrameTypeOK, ColumnInRange, AttributeNames
  <2> QED BY <2>1, <2>2, <2>3, <2>4, <2>5 DEF FInv
<1>13. CASE Install
  <2>1. HeapKept' /\ live' = live /\ next' = next
    BY <1>13, <1>a, <1>b DEF Install
  <2>2. FrameTypeOK'
    BY <1>13, <1>a, <1>d, <2>1 DEF Install, Nil, FInv, FrameTypeOK, Allocating, Shielded, AttributeNames
  <2>3. ShieldsHold'
    BY <1>13, <1>a, <2>1 DEF Install, FInv, ShieldsHold, Protected, Shielded, AttributeNames
  <2>4. RootsLive'
    BY <1>13, <1>a, <2>1 DEF Install, FInv, ShieldsHold, RootsLive, Shielded, AttributeNames
  <2>5. ColumnInRange'
    BY <1>13 DEF Install, FInv, FrameTypeOK, ColumnInRange, AttributeNames
  <2> QED BY <2>1, <2>2, <2>3, <2>4, <2>5 DEF FInv
<1>14. CASE DefineVar
  <2>1. HeapKept' /\ live' = live /\ next' = next
    BY <1>14, <1>a, <1>b DEF DefineVar
  <2>2. FrameTypeOK'
    BY <1>14, <1>a, <1>d, <2>1 DEF DefineVar, Nil, FInv, FrameTypeOK, Allocating, Shielded, AttributeNames
  <2>3. ShieldsHold'
    BY <1>14, <1>a, <2>1 DEF DefineVar, FInv, ShieldsHold, Protected, Shielded, AttributeNames
  <2>4. RootsLive'
    BY <1>14, <1>a, <2>1 DEF DefineVar, FInv, ShieldsHold, RootsLive, Shielded, AttributeNames
  <2>5. ColumnInRange'
    BY <1>14 DEF DefineVar, FInv, FrameTypeOK, ColumnInRange, AttributeNames
  <2> QED BY <2>1, <2>2, <2>3, <2>4, <2>5 DEF FInv
<1>15. CASE Command
  <2>1. HeapKept' /\ live' = live /\ next' = next
    BY <1>15, <1>a, <1>b DEF Command
  <2>2. FrameTypeOK'
    BY <1>15, <1>a, <1>d, <2>1 DEF Command, Nil, FInv, FrameTypeOK, Allocating, Shielded, AttributeNames
  <2>3. ShieldsHold'
    BY <1>15, <1>a, <2>1 DEF Command, FInv, ShieldsHold, Protected, Shielded, AttributeNames
  <2>4. RootsLive'
    BY <1>15, <1>a, <2>1 DEF Command, FInv, ShieldsHold, RootsLive, Shielded, AttributeNames
  <2>5. ColumnInRange'
    BY <1>15 DEF Command, FInv, FrameTypeOK, ColumnInRange, AttributeNames
  <2> QED BY <2>1, <2>2, <2>3, <2>4, <2>5 DEF FInv
<1>16. CASE Rebind
  <2>1. HeapKept' /\ live \subseteq live' /\ next \in live' /\ next' = next + 1
    BY <1>16, <1>a, <1>c, RawStoreKeeps DEF Rebind, Alloc, FInv
  <2>2. FrameTypeOK'
    BY <1>16, <1>a, <1>d, <2>1 DEF Rebind, Alloc, Nil, FInv, FrameTypeOK, Allocating, Shielded, AttributeNames
  <2>3. ShieldsHold'
    BY <1>16, <1>a, <2>1 DEF Rebind, Alloc, FInv, ShieldsHold, Protected, Shielded, AttributeNames
  <2>4. RootsLive'
    BY <1>16, <1>a, <2>1 DEF Rebind, Alloc, FInv, ShieldsHold, RootsLive, Shielded, AttributeNames
  <2>5. ColumnInRange'
    BY <1>16 DEF Rebind, FInv, FrameTypeOK, ColumnInRange, AttributeNames
  <2> QED BY <2>1, <2>2, <2>3, <2>4, <2>5 DEF FInv
<1>17. CASE Remove
  <2>1. HeapKept' /\ live' = live /\ next' = next
    BY <1>17, <1>a, <1>b DEF Remove
  <2>2. FrameTypeOK'
    BY <1>17, <1>a, <1>d, <2>1 DEF Remove, Nil, FInv, FrameTypeOK, Allocating, Shielded, AttributeNames
  <2>3. ShieldsHold'
    BY <1>17, <1>a, <2>1 DEF Remove, FInv, ShieldsHold, Protected, Shielded, AttributeNames
  <2>4. RootsLive'
    BY <1>17, <1>a, <2>1 DEF Remove, FInv, ShieldsHold, RootsLive, Shielded, AttributeNames
  <2>5. ColumnInRange'
    BY <1>17 DEF Remove, FInv, FrameTypeOK, ColumnInRange, AttributeNames
  <2> QED BY <2>1, <2>2, <2>3, <2>4, <2>5 DEF FInv
<1>18. CASE UpdateVar
  <2>1. HeapKept' /\ live' = live /\ next' = next
    BY <1>18, <1>a, <1>b DEF UpdateVar
  <2>2. FrameTypeOK'
    BY <1>18, <1>a, <1>d, <2>1 DEF UpdateVar, Nil, FInv, FrameTypeOK, Allocating, Shielded, AttributeNames
  <2>3. ShieldsHold'
    BY <1>18, <1>a, <2>1 DEF UpdateVar, FInv, ShieldsHold, Protected, Shielded, AttributeNames
  <2>4. RootsLive'
    BY <1>18, <1>a, <2>1 DEF UpdateVar, FInv, ShieldsHold, RootsLive, Shielded, AttributeNames
  <2>5. ColumnInRange'
    BY <1>18 DEF UpdateVar, FInv, FrameTypeOK, ColumnInRange, AttributeNames
  <2> QED BY <2>1, <2>2, <2>3, <2>4, <2>5 DEF FInv
<1>19. CASE EditCell
  <2>0. stack' \in Seq(1 .. next - 1)
    <3>1. PICK c \in TextColumns : heap[view][Element(c)] \in live /\ Shield(heap[view][Element(c)])
      BY <1>19 DEF EditCell
    <3>2. stack' = Append(stack, heap[view][Element(c)])
      BY <3>1 DEF Shield
    <3>3. heap[view][Element(c)] \in 1 .. next - 1
      BY <1>a, <3>1
    <3> QED BY <1>a, <3>2, <3>3
  <2>1. HeapKept' /\ live' = live /\ next' = next
    BY <1>19, <1>a, <1>b, <2>0 DEF EditCell, Shield
  <2>2. FrameTypeOK'
    <3>1. /\ pc' = "editCell" /\ UNCHANGED <<refs, unshielded>>
          /\ \E c \in TextColumns, r \in 1 .. Rows : column' = c /\ row' = r
      BY <1>19 DEF EditCell, Goto
    <3>2. column' \in 1 .. Columns + 1 /\ row' \in 1 .. Rows + 1
      BY <3>1, FrameHeapAssumption
    <3> QED BY <2>1, <3>1, <3>2 DEF FInv, FrameTypeOK, Allocating, refs
  <2>3. ShieldsHold'
    BY <1>19, <1>a, <2>1 DEF EditCell, Shield, FInv, ShieldsHold, Protected, Shielded, AttributeNames
  <2>4. RootsLive'
    BY <1>19, <1>a, <2>1 DEF EditCell, Shield, FInv, ShieldsHold, RootsLive, Shielded, AttributeNames
  <2>5. ColumnInRange'
    BY <1>19 DEF EditCell, FInv, FrameTypeOK, ColumnInRange, AttributeNames
  <2> QED BY <2>1, <2>2, <2>3, <2>4, <2>5 DEF FInv
<1>20. CASE SetPlain
  <2>0. stack' \in Seq(1 .. next)
    BY <1>20, <1>a DEF SetPlain, FInv, ShieldsHold, Shielded, RootsLive
  <2>1. HeapKept' /\ live \subseteq live' /\ next \in live' /\ next' = next + 1
    BY <1>20, <1>a, <1>c, <2>0, RawStoreKeeps DEF SetPlain, Alloc, FInv
  <2>2. FrameTypeOK'
    BY <1>20, <1>a, <1>d, <2>1 DEF SetPlain, Nil, FInv, FrameTypeOK, Allocating, Shielded, AttributeNames
  <2>3. ShieldsHold'
    <3>1. stack' = <<>>
      BY <1>20, <1>a DEF SetPlain, FInv, ShieldsHold
    <3> QED BY <1>20, <2>1, <3>1 DEF SetPlain, ShieldsHold, Protected, Shielded, AttributeNames
  <2>4. RootsLive'
    BY <1>20, <1>a, <2>1 DEF SetPlain, FInv, ShieldsHold, RootsLive, Shielded, AttributeNames
  <2>5. ColumnInRange'
    BY <1>20 DEF SetPlain, FInv, FrameTypeOK, ColumnInRange, AttributeNames
  <2> QED BY <2>1, <2>2, <2>3, <2>4, <2>5 DEF FInv
<1> QED
  BY <1>1, <1>2, <1>3, <1>4, <1>5, <1>6, <1>7, <1>8, <1>9, <1>10, <1>11, <1>12, <1>13, <1>14, <1>15, <1>16, <1>17, <1>18, <1>19, <1>20 DEF FNext, Import, CreateDataframe, UserEvents
-------------------------------------------------------------------------------
LEMMA FInvHolds == FSpec => []FInv
<1> QED BY FInvStart, FInvStep, PTL DEF FSpec

(* Every variable keeps its type, whatever is collected. *)
THEOREM HeapTyped == FSpec => []FTypeOK
<1>1. FInv => FTypeOK
  BY DEF FInv, HeapKept, FTypeOK
<1> QED BY <1>1, FInvHolds, PTL

(* What fromModel builds and setValue edits is under a Shield and alive,    *)
(* and no Shield is left behind.                                            *)
THEOREM ShieldsAlwaysHold == FSpec => []ShieldsHold
<1>1. FInv => ShieldsHold
  BY DEF FInv
<1> QED BY <1>1, FInvHolds, PTL

(* Only the raw stores of fromModel and setPlain can lose an object, and    *)
(* only through a minor collection.                                         *)
THEOREM OnlyRawStoresLose == FSpec => []LossExplained
<1>1. FInv => LossExplained
  BY DEF FInv, HeapKept
<1> QED BY <1>1, FInvHolds, PTL

(* A view paints an object that is alive, unless R collected the frame      *)
(* between fromModel and Rf_defineVar.                                      *)
THEOREM ViewsReadLiveObjects == FSpec => []ViewReadsLive
<1>1. FInv => ViewReadsLive
  BY DEF FInv, RootsLive, ViewReadsLive
<1> QED BY <1>1, FInvHolds, PTL
===============================================================================
