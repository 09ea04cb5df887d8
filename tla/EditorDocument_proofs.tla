-------------------------- MODULE EditorDocument_proofs --------------------------
(* Theorems about the editor's document, for any files, texts and conversions. *)
EXTENDS EditorDocument, TLAPS

DInv == TypeOK /\ CleanIsSaved

THEOREM DocumentInitial == Init => DInv
  BY DocumentAssumption DEF Init, DInv, TypeOK, CleanIsSaved

(* Writing the document to a file n, for any caller of onSave. *)
LEMMA WriteFileStep ==
    ASSUME DInv, NEW n \in Name, NEW caller \in {"menu", "new", "close"},
           WriteFile(n, caller)
    PROVE  DInv'
<1>1. PICK result \in {"ok", "failed", "partly"}, bytes \in Bytes :
           disk' = Written(n, result, bytes) /\ io' = result
  BY DEF WriteFile
<1>2. disk' \in [Name -> Bytes] /\ (result = "ok" => disk'[n] = Encode[text])
  BY <1>1, DocumentAssumption DEF DInv, TypeOK, Written
<1>3. TypeOK'
  BY <1>1, <1>2, DocumentAssumption DEF WriteFile, Return, ClearEditor, DInv, TypeOK
<1>4. CleanIsSaved'
  <2>1. CASE caller = "new"
    BY <2>1 DEF WriteFile, ClearEditor, CleanIsSaved
  <2>2. CASE caller # "new"
    BY <1>1, <1>2, <2>2, DocumentAssumption DEF WriteFile, CleanIsSaved
  <2> QED
    BY <2>1, <2>2
<1> QED
  BY <1>3, <1>4 DEF DInv

LEMMA OnSaveStep ==
    ASSUME DInv, NEW saveAs \in BOOLEAN, NEW caller \in {"menu", "new", "close"},
           OnSave(saveAs, caller)
    PROVE  DInv'
<1>1. CASE saveAs \/ fileName = NoName
  BY <1>1 DEF OnSave, KeepDocument, DInv, TypeOK, CleanIsSaved
<1>2. CASE ~(saveAs \/ fileName = NoName)
  BY <1>2, WriteFileStep DEF OnSave, DInv, TypeOK
<1> QED
  BY <1>1, <1>2

THEOREM DocumentStep == DInv /\ [Next]_dvars => DInv'
<1> SUFFICES ASSUME DInv, [Next]_dvars PROVE DInv'
  OBVIOUS
<1>1. ASSUME NEW t \in Text, Type(t) PROVE DInv'
  BY <1>1 DEF Type, DInv, TypeOK, CleanIsSaved
<1>2. ASSUME NEW n \in Name, SaveDialogAnswered(n) PROVE DInv'
  BY <1>2, WriteFileStep DEF SaveDialogAnswered, DInv, TypeOK
<1>3. ASSUME NEW n \in Name, Open(n) PROVE DInv'
  <2>1. disk[n] \in Bytes /\ Decode[disk[n]] \in Text
    BY DocumentAssumption DEF DInv, TypeOK
  <2> QED
    BY <1>3, <2>1, DocumentAssumption DEF Open, DInv, TypeOK, CleanIsSaved
<1>4. CASE SaveDialogCancelled
  BY <1>4, DocumentAssumption
  DEF SaveDialogCancelled, ClearEditor, KeepDocument, Return, DInv, TypeOK, CleanIsSaved
<1>5. CASE Save \/ SaveAs \/ NewYes \/ CloseYes
  BY <1>5, OnSaveStep DEF Save, SaveAs, NewYes, CloseYes
<1>6. CASE NewNo
  BY <1>6, DocumentAssumption DEF NewNo, ClearEditor, DInv, TypeOK, CleanIsSaved
<1>7. CASE New \/ NewCancel \/ Close \/ CloseNo \/ CloseCancel
  BY <1>7
  DEF New, NewCancel, Close, CloseNo, CloseCancel, KeepDocument, DInv, TypeOK, CleanIsSaved
<1>8. CASE UNCHANGED dvars
  BY <1>8 DEF dvars, DInv, TypeOK, CleanIsSaved
<1> QED
  BY <1>1, <1>2, <1>3, <1>4, <1>5, <1>6, <1>7, <1>8 DEF Next, Closed

THEOREM DocumentInvariant == Spec => []DInv
  BY DocumentInitial, DocumentStep, PTL DEF Spec

(* Every variable keeps its type; in particular the text and the files stay *)
(* what the two conversions take.                                           *)
THEOREM DocumentTyped == Spec => []TypeOK
<1>1. DInv => TypeOK
  BY DEF DInv
<1> QED
  BY <1>1, DocumentInvariant, PTL

(* The flag m_editorTextChanged can be trusted, as long as the disk works:  *)
(* whatever the order of typing, New, Open, Save and the dialogs' answers.  *)
THEOREM CleanDocumentIsSaved == Spec => []CleanIsSaved
<1>1. DInv => CleanIsSaved
  BY DEF DInv
<1> QED
  BY <1>1, DocumentInvariant, PTL
-------------------------------------------------------------------------------
(* Only an answer to a dialog or an opened file takes a changed text away. *)
THEOREM ChangedTextIsAskedFor == Spec => GivenUpOnlyIfAsked
<1>1. ASSUME [Next]_dvars, changed, GivesUp, ~Asked, \A n \in Name : ~Open(n)
      PROVE  dvars' = dvars
  <2> USE DEF GivesUp, Typing, Asked
  <2>0. CASE \E t \in Text : Type(t)
    BY <1>1, <2>0 DEF Type
  <2>1. CASE \E n \in Name : SaveDialogAnswered(n)
    BY <1>1, <2>1 DEF SaveDialogAnswered, WriteFile, Return
  <2>2. CASE SaveDialogCancelled
    BY <1>1, <2>2 DEF SaveDialogCancelled, KeepDocument, Return
  <2>3. CASE Save \/ SaveAs
    BY <1>1, <2>3 DEF Save, SaveAs, OnSave, KeepDocument, WriteFile, Return
  <2>4. CASE New \/ Close
    BY <1>1, <2>4 DEF New, Close, KeepDocument
  <2>5. CASE NewYes \/ NewNo \/ NewCancel \/ CloseYes \/ CloseNo \/ CloseCancel
    BY <1>1, <2>5 DEF NewYes, NewNo, NewCancel, CloseYes, CloseNo, CloseCancel
  <2>6. CASE Closed \/ UNCHANGED dvars
    BY <2>6 DEF Closed
  <2> QED
    BY <1>1, <2>0, <2>1, <2>2, <2>3, <2>4, <2>5, <2>6 DEF Next
<1>2. [Next]_dvars => [changed /\ GivesUp => Asked \/ \E n \in Name : Open(n)]_dvars
  BY <1>1
<1> QED
  BY <1>2, PTL DEF Spec, GivenUpOnlyIfAsked

(* The answer Yes, followed by a successful write, loses nothing. *)
THEOREM YesSaves == Spec => YesSavesTheText
<1>1. ASSUME NEW n \in Name, NEW caller, DInv, WriteFile(n, caller), io' = "ok"
      PROVE  \E m \in Name : disk'[m] = Encode[text]
  <2>1. disk' = [disk EXCEPT ![n] = Encode[text]]
    BY <1>1 DEF WriteFile, Written
  <2> QED
    BY <1>1, <2>1 DEF DInv, TypeOK
<1>2. ASSUME NEW caller \in {"new", "close"}, DInv, pc # "closed",
             OnSave(FALSE, caller), GivesUp, ~Typing, io' = "ok"
      PROVE  \E m \in Name : disk'[m] = Encode[text]
  <2>1. fileName # NoName /\ WriteFile(fileName, caller)
    BY <1>2 DEF OnSave, KeepDocument, GivesUp
  <2> QED
    BY <1>1, <1>2, <2>1 DEF DInv, TypeOK
<1>3. ASSUME DInv, GivesUp, Asked, io' = "ok",
             NewYes \/ CloseYes \/ \E n \in Name : SaveDialogAnswered(n)
      PROVE  \E m \in Name : disk'[m] = Encode[text]
  <2>1. ~Typing
    BY <1>3 DEF Typing, Type, Asked
  <2> QED
    BY <1>1, <1>2, <1>3, <2>1 DEF NewYes, CloseYes, SaveDialogAnswered
<1>4. DInv /\ [Next]_dvars =>
        [GivesUp /\ Asked /\ (NewYes \/ CloseYes \/ \E n \in Name : SaveDialogAnswered(n))
            /\ io' = "ok" => \E n \in Name : disk'[n] = Encode[text]]_dvars
  BY <1>3
<1> QED
  BY <1>4, DocumentInvariant, PTL DEF Spec, YesSavesTheText
================================================================================
