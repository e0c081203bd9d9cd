------------------------- MODULE OrderPages_proofs --------------------------
(***************************************************************************)
(* Proofs about MCOrderPages, for every number of orders, uploads,         *)
(* confirmations, submissions, fetches, starts and edits. Each page has an *)
(* invariant of its own, which begins true and which its steps keep; at    *)
(* the end they are put together, because one page acts and the others     *)
(* stay as they are, and the properties of the run follow.                 *)
(***************************************************************************)
EXTENDS MCOrderPages, SequenceTheorems, FiniteSetTheorems, WellFoundedInduction,
        TLAPS

\* What the dialog holds, and what was sent from it: a preview is of a sheet
\* that was answered; while the question is up, nothing is being submitted;
\* and a preview that was told to be imported stays in the dialog only under
\* the result.
ImportHeld ==
  /\ importPreviewId = importRows
  /\ importRows # 0 =>
       /\ importUploads[importRows].pc = "answered"
       /\ importUploads[importRows].sheet \notin TooLong
  /\ importAsking => ~Importing!Submitting /\ ~importResult

ImportSent(c, uploads, shown, result) ==
  /\ c.preview \in DOMAIN uploads
  /\ uploads[c.preview].pc = "answered"
  /\ uploads[c.preview].sheet \notin TooLong \cup Broken
  /\ c.pc = "told" /\ shown = c.preview => result

ImportTyped ==
  /\ Importing!ModalTypeOK
  /\ importImported \in [1 .. MaxUploads -> Nat]

ImportInv ==
  /\ ImportTyped /\ ImportHeld
  /\ \A i \in DOMAIN importConfirms : ImportSent(importConfirms[i], importUploads, importPreviewId, importResult)
  /\ \A i, j \in DOMAIN importConfirms :
       i < j => importConfirms[i].pc \in {"told", "lost"}
  /\ Importing!SentAgainOnlyUnanswered

(* The uploads and the confirmations of the dialog are numbered from one.  *)
LEMMA ImportRecords ==
  ASSUME ImportTyped
  PROVE  /\ importUploads \in Seq(Importing!Upload) /\ Len(importUploads) \in Nat
         /\ DOMAIN importUploads = 1 .. Len(importUploads)
         /\ Len(importUploads) <= MaxUploads /\ MaxUploads \in Nat
         /\ \A p \in DOMAIN importUploads : importUploads[p] \in Importing!Upload
         /\ importConfirms \in Seq(Importing!Confirm) /\ Len(importConfirms) \in Nat
         /\ DOMAIN importConfirms = 1 .. Len(importConfirms)
         /\ Len(importConfirms) <= MaxConfirms /\ MaxConfirms \in Nat
         /\ \A i \in DOMAIN importConfirms : importConfirms[i] \in Importing!Confirm
         /\ importRows \in {0} \cup DOMAIN importUploads
         /\ importPreviewId \in {0} \cup DOMAIN importUploads
<1>1. importUploads \in Seq(Importing!Upload) /\ importConfirms \in Seq(Importing!Confirm)
  BY DEF ImportTyped, Importing!ModalTypeOK
<1>2. /\ Len(importUploads) \in Nat /\ DOMAIN importUploads = 1 .. Len(importUploads)
      /\ Len(importConfirms) \in Nat /\ DOMAIN importConfirms = 1 .. Len(importConfirms)
  BY <1>1, LenProperties
<1>3. /\ \A p \in DOMAIN importUploads : importUploads[p] \in Importing!Upload
      /\ \A i \in DOMAIN importConfirms : importConfirms[i] \in Importing!Confirm
  BY <1>1, <1>2, ElementOfSeq
<1> QED
  BY <1>1, <1>2, <1>3, ImportAssumption
     DEF ImportTyped, Importing!ModalTypeOK, Importing!ModalAssumption, Importing!NoPreview

(* The dialog begins empty.                                                *)
LEMMA ImportInvBegins ==
  ASSUME Importing!Init
  PROVE  ImportInv
<1>1. importUploads = << >> /\ importConfirms = << >>
      /\ importUploads \in Seq(Importing!Upload) /\ importConfirms \in Seq(Importing!Confirm)
      /\ Len(importUploads) = 0 /\ Len(importConfirms) = 0
      /\ DOMAIN importUploads = {} /\ DOMAIN importConfirms = {}
  BY EmptySeq DEF Importing!Init
<1>2. ImportTyped
  <2>1. importImported \in [1 .. MaxUploads -> Nat]
    BY DEF Importing!Init
  <2>2. /\ importOpen = FALSE /\ importAsking = FALSE /\ importResult = FALSE
        /\ importRows = 0 /\ importPreviewId = 0 /\ importService \in Importing!Services
        /\ MaxUploads \in Nat /\ MaxConfirms \in Nat
    BY ImportAssumption DEF Importing!Init, Importing!ModalAssumption, Importing!NoPreview
  <2>3. Importing!ModalTypeOK
    <3>1. {importOpen, importAsking, importResult} \subseteq BOOLEAN
      BY <2>2
    <3>2. Len(importUploads) <= MaxUploads /\ Len(importConfirms) <= MaxConfirms
      BY <1>1, <2>2
    <3> QED
      BY <1>1, <2>2, <3>1, <3>2, Zenon DEF Importing!ModalTypeOK, Importing!NoPreview
  <2> QED
    BY <2>1, <2>3 DEF ImportTyped
<1>3. ImportHeld
  BY <1>1 DEF Importing!Init, ImportHeld, Importing!NoPreview
<1> QED
  BY <1>1, <1>2, <1>3 DEF ImportInv, Importing!SentAgainOnlyUnanswered

(* The dialog opens, closes or asks, and what was sent stays.              *)
LEMMA DialogMoves ==
  ASSUME ImportInv,
         importUploads' = importUploads, importConfirms' = importConfirms,
         importImported' = importImported, importService' \in Importing!Services,
         importOpen' \in BOOLEAN, importAsking' \in BOOLEAN, importResult' \in BOOLEAN,
         \/ importRows' = importRows /\ importPreviewId' = importPreviewId /\ importResult' = importResult
         \/ importRows' = 0 /\ importPreviewId' = 0,
         importAsking' => ~importResult' /\ (importAsking \/ ~Importing!Submitting)
  PROVE  ImportInv'
<1>1. ImportTyped'
  BY DEF ImportInv, ImportTyped, Importing!ModalTypeOK, Importing!NoPreview
<1>2. Importing!Submitting' <=> Importing!Submitting
  BY DEF Importing!Submitting
<1>3. ImportHeld'
  BY <1>2, ImportRecords DEF ImportInv, ImportHeld
<1>4. \A i \in DOMAIN importConfirms : ImportSent(importConfirms[i], importUploads, importPreviewId, importResult) => ImportSent(importConfirms[i], importUploads', importPreviewId', importResult')
  BY ImportRecords DEF ImportInv, ImportSent
<1> QED
  BY <1>1, <1>3, <1>4 DEF ImportInv, Importing!SentAgainOnlyUnanswered

(* A confirmation moves on, while no question is up.                       *)
LEMMA ConfirmMoves ==
  ASSUME ImportInv, NEW i \in DOMAIN importConfirms, NEW point \in {"imported", "refused", "told", "lost"},
         importConfirms' = [importConfirms EXCEPT ![i].pc = point],
         importConfirms[i].pc \in {"sent", "imported", "refused"},
         importUploads' = importUploads, importRows' = importRows, importPreviewId' = importPreviewId,
         importService' = importService, importAsking' = importAsking,
         importOpen' \in BOOLEAN, importResult' \in BOOLEAN, importResult => importResult',
         point = "told" => importResult',
         importImported' \in [1 .. MaxUploads -> Nat]
  PROVE  ImportInv'
<1>1. ~importAsking
  BY DEF ImportInv, ImportHeld, Importing!Submitting
<1>2. importConfirms[i] \in Importing!Confirm
  BY ImportRecords DEF ImportInv
<1>3. /\ importConfirms' \in Seq(Importing!Confirm) /\ Len(importConfirms') = Len(importConfirms)
      /\ DOMAIN importConfirms' = DOMAIN importConfirms
      /\ importConfirms'[i] = [importConfirms[i] EXCEPT !.pc = point]
      /\ \A j \in DOMAIN importConfirms : j # i => importConfirms'[j] = importConfirms[j]
  <2>1. [importConfirms[i] EXCEPT !.pc = point] \in Importing!Confirm
    BY <1>2 DEF Importing!Confirm
  <2>2. importConfirms' = [importConfirms EXCEPT ![i] = [importConfirms[i] EXCEPT !.pc = point]]
    OBVIOUS
  <2> QED
    BY <2>1, <2>2, ImportRecords, ExceptSeq DEF ImportInv
<1>4. importConfirms'[i].pc = point /\ importConfirms'[i].preview = importConfirms[i].preview
  BY <1>2, <1>3 DEF Importing!Confirm
<1>5. ImportTyped'
  BY <1>3 DEF ImportInv, ImportTyped, Importing!ModalTypeOK
<1>6. ImportHeld'
  BY <1>1 DEF ImportInv, ImportHeld
<1>7. \A j \in DOMAIN importConfirms' : ImportSent(importConfirms[j], importUploads, importPreviewId, importResult)
  BY <1>3 DEF ImportInv
<1>8. \A j \in DOMAIN importConfirms' : ImportSent(importConfirms'[j], importUploads', importPreviewId', importResult')
  BY <1>3, <1>4, <1>7 DEF ImportSent
<1>9. \A j, k \in DOMAIN importConfirms' : j < k => importConfirms'[j].pc \in {"told", "lost"}
  BY <1>3, <1>4 DEF ImportInv
<1>10. Importing!SentAgainOnlyUnanswered'
  BY <1>3, <1>4 DEF ImportInv, Importing!SentAgainOnlyUnanswered
<1> QED
  BY <1>5, <1>6, <1>8, <1>9, <1>10 DEF ImportInv

(* An upload is sent or answered: what was answered stays as it was.       *)
LEMMA UploadMoves ==
  ASSUME ImportInv,
         importUploads' \in Seq(Importing!Upload), Len(importUploads') <= MaxUploads,
         Len(importUploads) <= Len(importUploads'),
         \A p \in DOMAIN importUploads :
           importUploads[p].pc = "answered" => importUploads'[p] = importUploads[p],
         importConfirms' = importConfirms, importImported' = importImported,
         importService' = importService, importOpen' = importOpen,
         importAsking' = importAsking, importResult' = importResult,
         importPreviewId' = importRows',
         \/ importRows' = importRows
         \/ importRows' = 0
         \/ /\ importRows' \in DOMAIN importUploads /\ importUploads[importRows'].pc = "sent"
            /\ importUploads'[importRows'].pc = "answered"
            /\ importUploads'[importRows'].sheet \notin TooLong
  PROVE  ImportInv'
<1>1. Len(importUploads') \in Nat /\ DOMAIN importUploads' = 1 .. Len(importUploads')
  BY LenProperties
<1>2. DOMAIN importUploads \subseteq DOMAIN importUploads'
  BY <1>1, ImportRecords DEF ImportInv
<1>3. ImportTyped'
  BY <1>2, ImportRecords DEF ImportInv, ImportTyped, Importing!ModalTypeOK, Importing!NoPreview
<1>4. ImportHeld'
  BY <1>2, ImportRecords DEF ImportInv, ImportHeld, Importing!Submitting
<1>5. \A i \in DOMAIN importConfirms : ImportSent(importConfirms[i], importUploads, importPreviewId, importResult)
  BY DEF ImportInv
<1>6. \A i \in DOMAIN importConfirms' : ImportSent(importConfirms'[i], importUploads', importPreviewId', importResult')
  BY <1>2, <1>5 DEF ImportInv, ImportHeld, ImportSent
<1> QED
  BY <1>3, <1>4, <1>6 DEF ImportInv, Importing!SentAgainOnlyUnanswered

(* A confirmation is sent: of a preview that no other was told about, and  *)
(* when those before it are over.                                          *)
LEMMA SubmitKeeps ==
  ASSUME ImportInv, Importing!Submit
  PROVE  ImportInv'
<1>1. CASE ~(Importing!CanSubmit /\ importPreviewId # Importing!NoPreview)
  BY <1>1, DialogMoves DEF Importing!Submit, ImportInv, ImportTyped, Importing!ModalTypeOK
<1>2. CASE Importing!CanSubmit /\ importPreviewId # Importing!NoPreview
  <2> DEFINE c == [preview |-> importPreviewId, pc |-> "sent"]
             n == Len(importConfirms)
  <2>1. /\ importPreviewId = importRows /\ importRows \in DOMAIN importUploads
        /\ importUploads[importRows].pc = "answered"
        /\ importUploads[importRows].sheet \notin TooLong \cup Broken
    BY <1>2, ImportRecords
       DEF ImportInv, ImportHeld, Importing!CanSubmit, Importing!SheetOf, Importing!NoPreview
  <2>2. c \in Importing!Confirm
    BY <2>1, ImportRecords DEF ImportInv, Importing!Confirm
  <2>3. ~importResult /\ ~Importing!Submitting /\ ~importAsking' /\ n < MaxConfirms
    BY DEF Importing!Submit, ImportInv, ImportHeld
  <2>4. importConfirms' = Append(importConfirms, c)
    BY <1>2 DEF Importing!Submit
  <2>5. importUploads' = importUploads /\ importRows' = importRows /\ importPreviewId' = importPreviewId
        /\ importService' = importService /\ importOpen' = importOpen /\ importAsking' = FALSE
        /\ importResult' = importResult /\ importImported' = importImported
    BY DEF Importing!Submit
  <2>6. n \in Nat /\ DOMAIN importConfirms = 1 .. n /\ importConfirms \in Seq(Importing!Confirm)
        /\ MaxConfirms \in Nat
    BY ImportRecords DEF ImportInv
  <2>7. c.pc = "sent" /\ c.preview = importPreviewId
    OBVIOUS
  <2> HIDE DEF c, n
  <2>8. /\ importConfirms' \in Seq(Importing!Confirm) /\ Len(importConfirms') = n + 1
        /\ DOMAIN importConfirms' = 1 .. n + 1 /\ importConfirms'[n + 1] = c
        /\ \A i \in 1 .. n : importConfirms'[i] = importConfirms[i]
    BY <2>2, <2>4, <2>6, AppendProperties DEF n
  <2>9. \A i \in 1 .. n : importConfirms[i] \in Importing!Confirm
    BY <2>6, ImportRecords DEF ImportInv
  <2>10. \A i \in 1 .. n : importConfirms[i].pc \in {"told", "lost"}
    BY <2>3, <2>6, <2>9 DEF Importing!Submitting, Importing!Confirm
  <2>11. \A i \in 1 .. n : ImportSent(importConfirms[i], importUploads, importPreviewId, importResult)
    BY <2>6 DEF ImportInv
  <2>12. \A i \in 1 .. n : importConfirms[i].preview = c.preview => importConfirms[i].pc = "lost"
    BY <2>3, <2>7, <2>10, <2>11 DEF ImportSent
  <2>13. ImportTyped'
    <3>1. {importRows, importPreviewId} \subseteq {Importing!NoPreview} \cup DOMAIN importUploads
      BY DEF ImportInv, ImportTyped, Importing!ModalTypeOK
    <3>2. {importRows', importPreviewId'} \subseteq {Importing!NoPreview} \cup DOMAIN importUploads'
      BY <2>5, <3>1
    <3>3. {importOpen', importAsking', importResult'} \subseteq BOOLEAN
      BY <2>5 DEF ImportInv, ImportTyped, Importing!ModalTypeOK
    <3> QED
      BY <2>3, <2>5, <2>6, <2>8, <3>2, <3>3 DEF ImportInv, ImportTyped, Importing!ModalTypeOK
  <2>14. ImportHeld'
    BY <2>5 DEF ImportInv, ImportHeld
  <2>15. \A i \in DOMAIN importConfirms' : ImportSent(importConfirms'[i], importUploads', importPreviewId', importResult')
    <3>1. ImportSent(c, importUploads, importPreviewId, importResult)
      BY <2>1, <2>7 DEF ImportSent
    <3>2. \A i \in 1 .. n + 1 : i \in 1 .. n \/ i = n + 1
      BY <2>6
    <3>3. \A i \in 1 .. n + 1 : ImportSent(importConfirms'[i], importUploads, importPreviewId, importResult)
      BY <2>8, <2>11, <3>1, <3>2
    <3> QED
      BY <2>5, <2>8, <3>3
  <2>16. \A i, j \in DOMAIN importConfirms' : i < j => i \in 1 .. n
    BY <2>6, <2>8
  <2>17. \A i, j \in DOMAIN importConfirms' : i < j => importConfirms'[i].pc \in {"told", "lost"}
    BY <2>8, <2>10, <2>16
  <2>18. \A i, j \in DOMAIN importConfirms' :
           i < j /\ importConfirms'[i].preview = importConfirms'[j].preview => importConfirms'[i].pc = "lost"
    <3>1. \A i, j \in DOMAIN importConfirms' : i < j => i \in 1 .. n /\ (j \in 1 .. n \/ j = n + 1)
      BY <2>6, <2>8
    <3> QED
      BY <2>6, <2>8, <2>12, <3>1 DEF ImportInv, Importing!SentAgainOnlyUnanswered
  <2> QED
    BY <2>13, <2>14, <2>15, <2>17, <2>18 DEF ImportInv, Importing!SentAgainOnlyUnanswered
<1> QED
  BY <1>1, <1>2

(* An upload and its answer keep the invariant.                            *)
LEMMA UploadsKeep ==
  ASSUME ImportInv,
         \/ \E sheet \in Sheets : Importing!SendSheet(sheet)
         \/ \E p \in DOMAIN importUploads : Importing!SheetAnswered(p) \/ Importing!SheetFails(p)
  PROVE  ImportInv'
<1> USE DEF ImportInv
<1>0. /\ importUploads \in Seq(Importing!Upload) /\ Len(importUploads) \in Nat
      /\ DOMAIN importUploads = 1 .. Len(importUploads) /\ Len(importUploads) <= MaxUploads
      /\ MaxUploads \in Nat /\ importPreviewId = importRows
  BY ImportRecords DEF ImportHeld
<1>1. ASSUME NEW sheet \in Sheets, Importing!SendSheet(sheet)
      PROVE  ImportInv'
  <2> DEFINE u == [sheet |-> sheet, service |-> importService, pc |-> "sent"]
  <2>1. u \in Importing!Upload
    BY DEF ImportTyped, Importing!ModalTypeOK, Importing!Upload
  <2>2. importUploads' = Append(importUploads, u) /\ Len(importUploads) < MaxUploads
    BY <1>1 DEF Importing!SendSheet
  <2> HIDE DEF u
  <2>3. /\ importUploads' \in Seq(Importing!Upload) /\ Len(importUploads') = Len(importUploads) + 1
        /\ \A p \in 1 .. Len(importUploads) : importUploads'[p] = importUploads[p]
    BY <1>0, <2>1, <2>2, AppendProperties
  <2>4. /\ importConfirms' = importConfirms /\ importImported' = importImported
        /\ importService' = importService /\ importOpen' = importOpen
        /\ importAsking' = importAsking /\ importResult' = importResult
        /\ importPreviewId' = importPreviewId /\ importRows' = importRows
    BY <1>1 DEF Importing!SendSheet
  <2> QED
    BY <1>0, <2>2, <2>3, <2>4, UploadMoves
<1>2. ASSUME NEW p \in DOMAIN importUploads, Importing!SheetAnswered(p) \/ Importing!SheetFails(p)
      PROVE  ImportInv'
  <2> DEFINE u == [importUploads[p] EXCEPT !.pc = "answered"]
  <2>1. importUploads[p] \in Importing!Upload /\ importUploads[p].pc = "sent"
    BY <1>2, ImportRecords DEF Importing!SheetAnswered, Importing!SheetFails
  <2>2. u \in Importing!Upload /\ u.pc = "answered" /\ u.sheet = importUploads[p].sheet
    BY <2>1 DEF Importing!Upload
  <2>3. importUploads' = [importUploads EXCEPT ![p] = u]
    BY <1>2 DEF Importing!SheetAnswered, Importing!SheetFails
  <2> HIDE DEF u
  <2>4. /\ importUploads' \in Seq(Importing!Upload) /\ Len(importUploads') = Len(importUploads)
        /\ importUploads'[p] = u
        /\ \A q \in DOMAIN importUploads : q # p => importUploads'[q] = importUploads[q]
    BY <1>0, <2>2, <2>3, ExceptSeq
  <2>5. /\ importConfirms' = importConfirms /\ importImported' = importImported
        /\ importService' = importService /\ importOpen' = importOpen
        /\ importAsking' = importAsking /\ importResult' = importResult
    BY <1>2 DEF Importing!SheetAnswered, Importing!SheetFails
  <2>6. /\ importPreviewId' = importRows'
        /\ importRows' \in {importRows, 0} \/ (importRows' = p /\ importUploads[p].sheet \notin TooLong)
    BY <1>0, <1>2 DEF Importing!SheetAnswered, Importing!SheetFails, Importing!SheetOf, Importing!NoPreview
  <2> QED
    BY <1>0, <2>1, <2>2, <2>4, <2>5, <2>6, UploadMoves
<1> QED
  BY <1>1, <1>2

(* The steps of the dialog keep the invariant.                             *)
LEMMA ImportInvKept ==
  ASSUME ImportInv, Importing!Next
  PROVE  ImportInv'
<1>0. /\ importOpen \in BOOLEAN /\ importAsking \in BOOLEAN /\ importResult \in BOOLEAN
      /\ importService \in Importing!Services
      /\ importImported \in [1 .. MaxUploads -> Nat]
      /\ importAsking => ~importResult
  BY DEF ImportInv, ImportTyped, Importing!ModalTypeOK, ImportHeld
<1>1. ASSUME Importing!Navigate \/ Importing!Open \/ Importing!Close
      PROVE  ImportInv'
  <2>1. /\ importUploads' = importUploads /\ importConfirms' = importConfirms
        /\ importImported' = importImported /\ importRows' = importRows
        /\ importPreviewId' = importPreviewId /\ importResult' = importResult
        /\ importAsking' = importAsking
    BY <1>1 DEF Importing!Navigate, Importing!Open, Importing!Close
  <2>2. importService' \in Importing!Services /\ importOpen' \in BOOLEAN
    BY <1>0, <1>1 DEF Importing!Navigate, Importing!Open, Importing!Close
  <2> QED
    BY <1>0, <2>1, <2>2, DialogMoves
<1>2. ASSUME Importing!ClearAll
      PROVE  ImportInv'
  BY <1>0, <1>2, DialogMoves DEF Importing!ClearAll, Importing!NoPreview
<1>3. ASSUME Importing!Ask
      PROVE  ImportInv'
  BY <1>0, <1>3, DialogMoves DEF Importing!Ask, Importing!Clickable
<1>4. ASSUME Importing!Cancel
      PROVE  ImportInv'
  BY <1>0, <1>4, DialogMoves DEF Importing!Cancel
<1>5. ASSUME Importing!CloseResult
      PROVE  ImportInv'
  BY <1>0, <1>5, DialogMoves DEF Importing!CloseResult, Importing!NoPreview
<1>6. ASSUME NEW i \in DOMAIN importConfirms,
             \/ Importing!ImportPreview(i) \/ Importing!ImportAnswered(i)
             \/ Importing!ImportFails(i) \/ Importing!ImportAfterAll(i)
      PROVE  ImportInv'
  <2>0. [importImported EXCEPT ![importConfirms[i].preview] = 1] \in [1 .. MaxUploads -> Nat]
    BY <1>0
  <2>1. CASE Importing!ImportPreview(i)
    <3>1. PICK point \in {"imported", "refused"} : importConfirms' = [importConfirms EXCEPT ![i].pc = point]
      BY <2>1 DEF Importing!ImportPreview
    <3>2. importImported' \in [1 .. MaxUploads -> Nat]
      BY <1>0, <2>0, <2>1 DEF Importing!ImportPreview
    <3> QED
      BY <1>0, <2>1, <3>1, <3>2, ConfirmMoves DEF Importing!ImportPreview
  <2>2. CASE Importing!ImportAnswered(i)
    BY <1>0, <2>2, ConfirmMoves DEF Importing!ImportAnswered
  <2>3. CASE Importing!ImportFails(i)
    BY <1>0, <2>3, ConfirmMoves DEF Importing!ImportFails
  <2>4. CASE Importing!ImportAfterAll(i)
    <3>1. importImported' \in [1 .. MaxUploads -> Nat]
      BY <2>0, <2>4 DEF Importing!ImportAfterAll
    <3>2. UNCHANGED <<importService, importOpen, importUploads, importRows, importPreviewId,
                      importAsking, importConfirms, importResult>>
      BY <2>4 DEF Importing!ImportAfterAll
    <3>3. ImportTyped'
      BY <3>1, <3>2 DEF ImportInv, ImportTyped, Importing!ModalTypeOK
    <3> QED
      BY <3>2, <3>3
         DEF ImportInv, ImportHeld, ImportSent, Importing!Submitting, Importing!SentAgainOnlyUnanswered
  <2> QED
    BY <1>6, <2>1, <2>2, <2>3, <2>4
<1> QED
  BY <1>1, <1>2, <1>3, <1>4, <1>5, <1>6, SubmitKeeps, UploadsKeep DEF Importing!Next

(* The invariant of the dialog, from its first state on.                   *)
LEMMA ImportInvHolds ==
  /\ Importing!Init => ImportInv
  /\ ImportInv /\ Importing!Next => ImportInv'
  /\ ImportInv /\ UNCHANGED Importing!vars => ImportInv'
<1>1. ASSUME ImportInv, UNCHANGED Importing!vars
      PROVE  ImportInv'
  BY <1>1 DEF ImportInv, ImportTyped, Importing!ModalTypeOK, ImportHeld, ImportSent, Importing!vars,
              Importing!Submitting, Importing!SentAgainOnlyUnanswered
<1> QED
  BY <1>1, ImportInvBegins, ImportInvKept

(* What the run checks of the dialog.                                      *)
LEMMA ImportInvGives ==
  ASSUME ImportInv
  PROVE  /\ Importing!ModalTypeOK /\ Importing!PreviewIsShown
         /\ Importing!SentAgainOnlyUnanswered /\ Importing!OnlyGoodSheetsSent
BY DEF ImportInv, ImportTyped, ImportHeld, ImportSent, Importing!PreviewIsShown,
       Importing!OnlyGoodSheetsSent, Importing!SheetOf

-----------------------------------------------------------------------------
\* Of a submission: its files are stored before its order is made, and an
\* order is made before its answer.
DesignSent(s, sub, stored, orders) ==
  sub # Null =>
    /\ sub.at \in {"stored", "creating"} => {s} \X sub.files \subseteq stored
    /\ sub.at \in {"created", "done"} => \E i \in DOMAIN orders : orders[i].by = s

\* Of an order: its submission went on, and has the same files.
DesignMade(o, submit, stored) ==
  /\ submit[o.by] # Null /\ submit[o.by].at \in {"created", "done", "failed"}
  /\ o.files = submit[o.by].files /\ ({o.by} \X o.files) \subseteq stored

DesignInv ==
  /\ Designing!DesignRequestTypeOK
  /\ \A s \in Submits : DesignSent(s, designSubmit[s], designStored, designOrders)
  /\ \A i \in DOMAIN designOrders : DesignMade(designOrders[i], designSubmit, designStored)
  /\ Designing!OrderOfSubmit

(* What is charged and estimated are numbers (designs.service.ts).         *)
LEMMA DesignPrices ==
  ASSUME NEW c \in Offered
  PROVE  Designing!Unit[c] \in Nat /\ Designing!Price[Designing!ServiceKey(c)] \in Nat
<1>1. c \in {"design_2d", "design_3d", "embroidery_text", "embroidery_image", "sidebow", "poster"}
  BY DesignAssumption DEF Designing!DesignRequestAssumption, Designing!Unit
<1> QED
  BY <1>1 DEF Designing!Unit, Designing!Price, Designing!ServiceKey

(* So is the estimate of the dialog, which counts a file at least.         *)
LEMMA EstimateIsNat ==
  ASSUME Designing!DesignRequestTypeOK
  PROVE  Designing!Estimate \in Nat
<1> DEFINE n == Designing!Cardinality(designFiles)
<1>1. IsFiniteSet(designFiles)
  <2>1. IsFiniteSet(Files)
    BY DesignAssumption DEF Designing!DesignRequestAssumption, Designing!IsFiniteSet, IsFiniteSet
  <2> QED
    BY <2>1, FS_Subset DEF Designing!DesignRequestTypeOK
<1>2. n \in Nat
  BY <1>1, FS_CardinalityType DEF Designing!Cardinality, Cardinality
<1> HIDE DEF n
<1>3. Designing!Max({1, n}) \in Nat
  <2>1. Designing!Max({1, n}) \in {1, n}
    BY <1>2 DEF Designing!Max
  <2> QED
    BY <1>2, <2>1
<1>4. Designing!Unit[designChosen] \in Nat
  BY DesignPrices DEF Designing!DesignRequestTypeOK
<1> QED
  BY <1>3, <1>4 DEF Designing!Estimate, n

(* Submissions and orders.                                                 *)
LEMMA DesignRecords ==
  ASSUME Designing!DesignRequestTypeOK
  PROVE  /\ designSubmit \in [Submits -> Designing!Submission \cup {Null}]
         /\ \A s \in Submits : designSubmit[s] # Null =>
              /\ designSubmit[s] \in Designing!Submission
              /\ designSubmit[s].at \in Designing!Steps
              /\ designSubmit[s].subtype \in Offered
              /\ designSubmit[s].files \in SUBSET Files
         /\ designOrders \in Seq(Designing!Order) /\ Len(designOrders) \in Nat
         /\ DOMAIN designOrders = 1 .. Len(designOrders)
         /\ \A i \in DOMAIN designOrders :
              designOrders[i] \in Designing!Order /\ designOrders[i].by \in Submits
         /\ Null \notin Designing!Submission /\ Null \notin Designing!Toast
<1>1. designOrders \in Seq(Designing!Order)
  BY DEF Designing!DesignRequestTypeOK
<1>2. Len(designOrders) \in Nat /\ DOMAIN designOrders = 1 .. Len(designOrders)
  BY <1>1, LenProperties
<1>3. \A i \in DOMAIN designOrders : designOrders[i] \in Designing!Order
  BY <1>1, <1>2, ElementOfSeq
<1>4. \A i \in DOMAIN designOrders : designOrders[i].by \in Submits
  BY <1>3 DEF Designing!Order
<1>5. designSubmit \in [Submits -> Designing!Submission \cup {Null}]
  BY DEF Designing!DesignRequestTypeOK
<1>6. \A s \in Submits : designSubmit[s] # Null =>
        /\ designSubmit[s] \in Designing!Submission
        /\ designSubmit[s].at \in Designing!Steps
        /\ designSubmit[s].subtype \in Offered
        /\ designSubmit[s].files \in SUBSET Files
  BY <1>5 DEF Designing!Submission
<1> QED
  BY <1>1, <1>2, <1>3, <1>4, <1>5, <1>6, DesignAssumption DEF Designing!DesignRequestAssumption

(* The page begins with an empty form and an account.                      *)
LEMMA DesignInvBegins ==
  ASSUME Designing!Init
  PROVE  DesignInv
<1>1. designOrders = << >> /\ designOrders \in Seq(Designing!Order) /\ DOMAIN designOrders = {}
  BY EmptySeq DEF Designing!Init
<1>2. designSubmit = [s \in Submits |-> Null] /\ designToast = Null
  BY DEF Designing!Init
<1>3. Designing!DesignRequestTypeOK
  <2>1. designChosen \in Offered /\ designKnown \in 0 .. MaxBalance
    BY DesignAssumption DEF Designing!Init, Designing!DesignRequestAssumption
  <2> QED
    BY <1>1, <1>2, <2>1 DEF Designing!Init, Designing!DesignRequestTypeOK
<1> QED
  BY <1>1, <1>2, <1>3 DEF DesignInv, DesignSent, Designing!OrderOfSubmit

(* The form changes, or the balance is fetched: what was submitted stays.  *)
LEMMA FormMoves ==
  ASSUME DesignInv, UNCHANGED <<designToast, designSubmit, designStored, designOrders, designBalance>>,
         designOpen' \in BOOLEAN, designChosen' \in Offered, designFiles' \in SUBSET Files,
         ~designOpen' => designFiles' = {}, designKnown' \in 0 .. MaxBalance
  PROVE  DesignInv'
<1>1. Designing!DesignRequestTypeOK'
  BY DEF DesignInv, Designing!DesignRequestTypeOK
<1> QED
  BY <1>1 DEF DesignInv, Designing!OrderOfSubmit

(* The actions on the form.                                                *)
LEMMA FormKeeps ==
  ASSUME DesignInv,
         \/ Designing!OpenDialog \/ Designing!CloseDialog \/ Designing!FetchAccount
         \/ \E c \in Offered : Designing!Choose(c)
         \/ \E F \in SUBSET Files : Designing!AddFiles(F)
         \/ \E f \in Files : Designing!RemoveFile(f)
  PROVE  DesignInv'
<1>0. /\ designOpen \in BOOLEAN /\ designChosen \in Offered /\ designFiles \in SUBSET Files
      /\ ~designOpen => designFiles = {}
      /\ designKnown \in 0 .. MaxBalance /\ designBalance \in 0 .. MaxBalance
      /\ "design_2d" \in Offered
  BY DesignAssumption DEF DesignInv, Designing!DesignRequestTypeOK, Designing!DesignRequestAssumption
<1>1. CASE Designing!OpenDialog
  BY <1>0, <1>1, FormMoves DEF Designing!OpenDialog, Designing!serverVars
<1>2. CASE Designing!CloseDialog
  BY <1>0, <1>2, FormMoves DEF Designing!CloseDialog, Designing!ClearForm, Designing!serverVars
<1>3. CASE Designing!FetchAccount
  BY <1>0, <1>3, FormMoves DEF Designing!FetchAccount, Designing!formVars, Designing!serverVars
<1>4. ASSUME NEW c \in Offered, Designing!Choose(c)
      PROVE  DesignInv'
  BY <1>0, <1>4, FormMoves DEF Designing!Choose, Designing!Edit, Designing!serverVars
<1>5. ASSUME NEW F \in SUBSET Files, Designing!AddFiles(F)
      PROVE  DesignInv'
  BY <1>0, <1>5, FormMoves DEF Designing!AddFiles, Designing!Edit, Designing!serverVars
<1>6. ASSUME NEW f \in Files, Designing!RemoveFile(f)
      PROVE  DesignInv'
  BY <1>0, <1>6, FormMoves DEF Designing!RemoveFile, Designing!Edit, Designing!serverVars
<1> QED
  BY <1>1, <1>2, <1>3, <1>4, <1>5, <1>6

(* Submission s comes to stand at q: the others stay, and so do the orders *)
(* that are there.                                                         *)
LEMMA SubmissionMoves ==
  ASSUME DesignInv, NEW s \in Submits, NEW q \in Designing!Submission,
         designSubmit' = [designSubmit EXCEPT ![s] = q],
         designOrders' = designOrders, designStored \subseteq designStored',
         designSubmit[s] # Null => q.files = designSubmit[s].files,
         \A i \in DOMAIN designOrders : designOrders[i].by = s => q.at \in {"created", "done", "failed"}
  PROVE  /\ designSubmit' \in [Submits -> Designing!Submission \cup {Null}]
         /\ designSubmit'[s] = q
         /\ \A t \in Submits : t # s => DesignSent(t, designSubmit'[t], designStored', designOrders')
         /\ \A i \in DOMAIN designOrders' : DesignMade(designOrders'[i], designSubmit', designStored')
<1>1. /\ designSubmit' \in [Submits -> Designing!Submission \cup {Null}] /\ designSubmit'[s] = q
      /\ \A t \in Submits : t # s => designSubmit'[t] = designSubmit[t]
  BY DEF DesignInv, Designing!DesignRequestTypeOK
<1>2. q # Null
  BY DesignRecords DEF DesignInv
<1>3. \A t \in Submits : t # s => DesignSent(t, designSubmit'[t], designStored', designOrders')
  BY <1>1 DEF DesignInv, DesignSent
<1>4. ASSUME NEW i \in DOMAIN designOrders
      PROVE  DesignMade(designOrders[i], designSubmit', designStored')
  <2>1. DesignMade(designOrders[i], designSubmit, designStored) /\ designOrders[i].by \in Submits
    BY DesignRecords DEF DesignInv
  <2> QED
    BY <1>1, <1>2, <2>1 DEF DesignMade
<1> QED
  BY <1>1, <1>3, <1>4

(* A move of a submission that made no order yet, or was answered.         *)
LEMMA SubmissionMoved ==
  ASSUME DesignInv, NEW s \in Submits, NEW point \in Designing!Steps,
         designSubmit[s] # Null, designSubmit' = [designSubmit EXCEPT ![s].at = point]
  PROVE  /\ [designSubmit[s] EXCEPT !.at = point] \in Designing!Submission
         /\ designSubmit' = [designSubmit EXCEPT ![s] = [designSubmit[s] EXCEPT !.at = point]]
         /\ [designSubmit[s] EXCEPT !.at = point].at = point
         /\ [designSubmit[s] EXCEPT !.at = point].files = designSubmit[s].files
         /\ \A i \in DOMAIN designOrders : designOrders[i].by = s =>
              designSubmit[s].at \in {"created", "done", "failed"}
<1>1. designSubmit[s] \in Designing!Submission
  BY DesignRecords DEF DesignInv
<1>2. \A i \in DOMAIN designOrders : DesignMade(designOrders[i], designSubmit, designStored)
  BY DEF DesignInv
<1> QED
  BY <1>1, <1>2 DEF Designing!Submission, DesignMade

(* A press of Submit keeps the invariant.                                  *)
LEMMA SubmitPressKeeps ==
  ASSUME DesignInv, NEW s \in Submits, Designing!Submit(s)
  PROVE  DesignInv'
<1> DEFINE q == [at |-> "uploading", subtype |-> designChosen, files |-> designFiles,
                 estimate |-> Designing!Estimate]
<1>1. q \in Designing!Submission /\ q.at = "uploading"
  BY EstimateIsNat DEF DesignInv, Designing!DesignRequestTypeOK, Designing!Submission, Designing!Steps
<1>2. designSubmit' = [designSubmit EXCEPT ![s] = q] /\ designSubmit[s] = Null
      /\ UNCHANGED <<designOpen, designChosen, designFiles, designKnown, designToast, designStored,
                     designOrders, designBalance>>
  BY DEF Designing!Submit, Designing!formVars, Designing!serverVars
<1> HIDE DEF q
<1>3. \A i \in DOMAIN designOrders : designOrders[i].by # s
  <2>1. \A i \in DOMAIN designOrders : DesignMade(designOrders[i], designSubmit, designStored)
    BY DEF DesignInv
  <2> QED
    BY <1>2, <2>1 DEF DesignMade
<1>4. /\ designSubmit' \in [Submits -> Designing!Submission \cup {Null}]
      /\ designSubmit'[s] = q
      /\ \A t \in Submits : t # s => DesignSent(t, designSubmit'[t], designStored', designOrders')
      /\ \A i \in DOMAIN designOrders' : DesignMade(designOrders'[i], designSubmit', designStored')
  BY <1>1, <1>2, <1>3, SubmissionMoves
<1>5. DesignSent(s, q, designStored', designOrders')
  BY <1>1 DEF DesignSent
<1>6. Designing!DesignRequestTypeOK'
  BY <1>2, <1>4 DEF DesignInv, Designing!DesignRequestTypeOK
<1> QED
  BY <1>2, <1>4, <1>5, <1>6 DEF DesignInv, Designing!OrderOfSubmit

(* The upload, its answer, the answer about the order and a failure.       *)
LEMMA SubmissionKeeps ==
  ASSUME DesignInv, NEW s \in Submits,
         \/ Designing!StoreFiles(s) \/ Designing!UploadAnswered(s)
         \/ Designing!CreateAnswered(s) \/ Designing!SubmitFails(s)
  PROVE  DesignInv'
<1>0. /\ designStored \in SUBSET (Submits \X Files) /\ designOpen \in BOOLEAN
      /\ designSubmit[s] # Null => designSubmit[s].files \in SUBSET Files
      /\ DesignSent(s, designSubmit[s], designStored, designOrders)
      /\ "design_2d" \in Offered
  BY DesignRecords, DesignAssumption
     DEF DesignInv, Designing!DesignRequestTypeOK, Designing!DesignRequestAssumption
<1>1. ASSUME NEW point \in Designing!Steps, designSubmit[s] # Null,
             designSubmit' = [designSubmit EXCEPT ![s].at = point],
             designOrders' = designOrders, designStored \subseteq designStored',
             designStored' \in SUBSET (Submits \X Files), designBalance' = designBalance,
             designSubmit[s].at \in {"created", "done", "failed"} => point \in {"created", "done", "failed"},
             point \in {"stored", "creating"} => {s} \X designSubmit[s].files \subseteq designStored',
             point \in {"created", "done"} => \E i \in DOMAIN designOrders : designOrders[i].by = s,
             designOpen' \in BOOLEAN, designChosen' \in Offered, designFiles' \in SUBSET Files,
             ~designOpen' => designFiles' = {}, designKnown' = designKnown,
             designToast' \in Designing!Toast \cup {Null},
             designToast' # designToast /\ designToast' # Null /\ designToast'.ok =>
               \E i \in DOMAIN designOrders : designOrders[i].by = designToast'.about
      PROVE  DesignInv'
  <2> DEFINE q == [designSubmit[s] EXCEPT !.at = point]
  <2>1. /\ q \in Designing!Submission /\ q.at = point /\ q.files = designSubmit[s].files
        /\ designSubmit' = [designSubmit EXCEPT ![s] = q]
        /\ \A i \in DOMAIN designOrders : designOrders[i].by = s =>
             designSubmit[s].at \in {"created", "done", "failed"}
    BY <1>1, SubmissionMoved
  <2> HIDE DEF q
  <2>2. /\ designSubmit' \in [Submits -> Designing!Submission \cup {Null}] /\ designSubmit'[s] = q
        /\ \A t \in Submits : t # s => DesignSent(t, designSubmit'[t], designStored', designOrders')
        /\ \A i \in DOMAIN designOrders' : DesignMade(designOrders'[i], designSubmit', designStored')
    BY <1>1, <2>1, SubmissionMoves
  <2>3. DesignSent(s, q, designStored', designOrders')
    BY <1>1, <2>1 DEF DesignSent
  <2>4. Designing!DesignRequestTypeOK'
    BY <1>1, <2>2 DEF DesignInv, Designing!DesignRequestTypeOK
  <2>5. Designing!OrderOfSubmit'
    BY <1>1 DEF DesignInv, Designing!OrderOfSubmit
  <2> QED
    BY <2>2, <2>3, <2>4, <2>5 DEF DesignInv
<1>2. CASE Designing!StoreFiles(s)
  <2>1. /\ designSubmit[s] # Null /\ designSubmit[s].at = "uploading"
        /\ designSubmit' = [designSubmit EXCEPT ![s].at = "stored"]
        /\ designStored' = designStored \cup ({s} \X designSubmit[s].files)
        /\ UNCHANGED <<designOpen, designChosen, designFiles, designKnown, designToast, designOrders,
                       designBalance>>
    BY <1>2 DEF Designing!StoreFiles, Designing!Move, Designing!SaveDesign, Designing!formVars
  <2>2. designStored' \in SUBSET (Submits \X Files)
    BY <1>0, <2>1
  <2> QED
    BY <1>1, <2>1, <2>2 DEF DesignInv, Designing!DesignRequestTypeOK, Designing!Steps
<1>3. CASE Designing!UploadAnswered(s)
  <2>1. /\ designSubmit[s] # Null /\ designSubmit[s].at = "stored"
        /\ designSubmit' = [designSubmit EXCEPT ![s].at = "creating"]
        /\ UNCHANGED <<designOpen, designChosen, designFiles, designKnown, designToast, designStored,
                       designOrders, designBalance>>
    BY <1>3 DEF Designing!UploadAnswered, Designing!Move, Designing!formVars, Designing!serverVars
  <2>2. {s} \X designSubmit[s].files \subseteq designStored
    BY <1>0, <2>1 DEF DesignSent
  <2> QED
    BY <1>1, <2>1, <2>2 DEF DesignInv, Designing!DesignRequestTypeOK, Designing!Steps
<1>4. CASE Designing!CreateAnswered(s)
  <2>1. /\ designSubmit[s] # Null /\ designSubmit[s].at = "created"
        /\ designSubmit' = [designSubmit EXCEPT ![s].at = "done"]
        /\ designToast' = [about |-> s, ok |-> TRUE]
        /\ designOpen' = FALSE /\ designChosen' = "design_2d" /\ designFiles' = {}
        /\ UNCHANGED <<designKnown, designStored, designOrders, designBalance>>
    BY <1>4 DEF Designing!CreateAnswered, Designing!Answered, Designing!Move, Designing!ClearForm,
                Designing!serverVars
  <2>2. \E i \in DOMAIN designOrders : designOrders[i].by = s
    BY <1>0, <2>1 DEF DesignSent
  <2>3. designToast' \in Designing!Toast /\ designToast'.about = s
    BY <2>1 DEF Designing!Toast
  <2> QED
    BY <1>0, <1>1, <2>1, <2>2, <2>3 DEF Designing!Steps
<1>5. CASE Designing!SubmitFails(s)
  <2>1. /\ designSubmit[s] # Null
        /\ designSubmit' = [designSubmit EXCEPT ![s].at = "failed"]
        /\ designToast' = [about |-> s, ok |-> FALSE]
        /\ UNCHANGED <<designOpen, designChosen, designFiles, designKnown, designStored, designOrders,
                       designBalance>>
    BY <1>5 DEF Designing!SubmitFails, Designing!UnderWay, Designing!formVars, Designing!serverVars
  <2>2. designToast' \in Designing!Toast /\ designToast'.ok = FALSE
    BY <2>1 DEF Designing!Toast
  <2> QED
    BY <1>1, <2>1, <2>2 DEF DesignInv, Designing!DesignRequestTypeOK, Designing!Steps
<1> QED
  BY <1>2, <1>3, <1>4, <1>5

(* The order is made with the files of the upload, and debited if the      *)
(* balance allows.                                                         *)
LEMMA CreateOrderKeeps ==
  ASSUME DesignInv, NEW s \in Submits, Designing!CreateOrder(s)
  PROVE  DesignInv'
<1> DEFINE sub == designSubmit[s]
           cost == Designing!Price[Designing!ServiceKey(sub.subtype)]
           paid == designBalance >= cost
           n == Len(designOrders)
           row == [by |-> s, subtype |-> sub.subtype, files |-> sub.files,
                   debited |-> paid, started |-> FALSE]
           q == [sub EXCEPT !.at = "created"]
<1>1. /\ sub # Null /\ sub.at = "creating"
      /\ designSubmit' = [designSubmit EXCEPT ![s].at = "created"]
      /\ designOrders' = Append(designOrders, row)
      /\ designBalance' = IF paid THEN designBalance - cost ELSE designBalance
      /\ UNCHANGED <<designOpen, designChosen, designFiles, designKnown, designToast, designStored>>
  BY DEF Designing!CreateOrder, Designing!Move, Designing!Assets, Designing!formVars
<1>2. /\ sub \in Designing!Submission /\ sub.subtype \in Offered /\ sub.files \in SUBSET Files
      /\ designOrders \in Seq(Designing!Order) /\ n \in Nat /\ DOMAIN designOrders = 1 .. n
      /\ \A i \in 1 .. n : designOrders[i].by \in Submits
  BY <1>1, DesignRecords DEF DesignInv
<1>3. cost \in Nat
  BY <1>2, DesignPrices
<1>4. paid \in BOOLEAN /\ designBalance' \in 0 .. MaxBalance
  <2>1. designBalance \in 0 .. MaxBalance /\ MaxBalance \in Nat
    BY DesignAssumption DEF DesignInv, Designing!DesignRequestTypeOK, Designing!DesignRequestAssumption
  <2>2. designBalance' = IF paid THEN designBalance - cost ELSE designBalance
    BY <1>1
  <2> HIDE DEF cost, row, q, sub, n
  <2> QED
    BY <1>3, <2>1, <2>2
<1> HIDE DEF cost, paid
<1>5. row \in Designing!Order
  BY <1>2, <1>4 DEF Designing!Order
<1>6. row.by = s /\ row.files = sub.files
  BY <1>4
<1> HIDE DEF row
<1>7. \A i \in 1 .. n : DesignMade(designOrders[i], designSubmit, designStored)
  BY <1>2 DEF DesignInv
<1>8. \A i \in 1 .. n : designOrders[i].by # s
  BY <1>1, <1>7 DEF DesignMade
<1>9. /\ designOrders' \in Seq(Designing!Order) /\ DOMAIN designOrders' = 1 .. n + 1
      /\ designOrders'[n + 1] = row /\ \A i \in 1 .. n : designOrders'[i] = designOrders[i]
  BY <1>1, <1>2, <1>5, AppendProperties, LenProperties
<1>10. q \in Designing!Submission /\ q.at = "created" /\ q.files = sub.files /\ q # Null
  BY <1>2, DesignRecords DEF DesignInv, Designing!Submission, Designing!Steps
<1>11. /\ designSubmit' \in [Submits -> Designing!Submission \cup {Null}] /\ designSubmit'[s] = q
       /\ \A t \in Submits : t # s => designSubmit'[t] = designSubmit[t]
  BY <1>1, <1>10 DEF DesignInv, Designing!DesignRequestTypeOK
<1>12. {s} \X sub.files \subseteq designStored
  BY <1>1 DEF DesignInv, DesignSent
<1> HIDE DEF sub, q, n
<1>13. Designing!DesignRequestTypeOK'
  BY <1>1, <1>4, <1>9, <1>11 DEF DesignInv, Designing!DesignRequestTypeOK
<1>14. ASSUME NEW t \in Submits
       PROVE  DesignSent(t, designSubmit'[t], designStored', designOrders')
  <2>1. CASE t = s
    BY <1>2, <1>6, <1>9, <1>10, <1>11, <2>1 DEF DesignSent
  <2>2. CASE t # s
    <3>1. DesignSent(t, designSubmit[t], designStored, designOrders)
      BY DEF DesignInv
    <3>2. \A i \in 1 .. n : i \in 1 .. n + 1
      BY <1>2
    <3> QED
      BY <1>1, <1>2, <1>9, <1>11, <2>2, <3>1, <3>2 DEF DesignSent
  <2> QED
    BY <2>1, <2>2
<1>15. ASSUME NEW i \in 1 .. n + 1
       PROVE  DesignMade(designOrders'[i], designSubmit', designStored')
  <2>1. CASE i = n + 1
    BY <1>1, <1>6, <1>9, <1>10, <1>11, <1>12, <2>1 DEF DesignMade
  <2>2. CASE i # n + 1
    <3>1. i \in 1 .. n
      BY <1>2, <2>2
    <3> QED
      BY <1>1, <1>2, <1>7, <1>8, <1>9, <1>11, <3>1 DEF DesignMade
  <2> QED
    BY <2>1, <2>2
<1>16. Designing!OrderOfSubmit'
  <2>1. \A i \in 1 .. n + 1 : i \in 1 .. n \/ i = n + 1
    BY <1>2
  <2>2. \A i, j \in 1 .. n + 1 : designOrders'[i].by = designOrders'[j].by => i = j
    BY <1>2, <1>6, <1>8, <1>9, <2>1 DEF DesignInv, Designing!OrderOfSubmit
  <2>3. (designToast' # Null /\ designToast'.ok) =>
          \E i \in 1 .. n + 1 : designOrders'[i].by = designToast'.about
    <3>1. \A i \in 1 .. n : i \in 1 .. n + 1
      BY <1>2
    <3> QED
      BY <1>1, <1>2, <1>9, <3>1 DEF DesignInv, Designing!OrderOfSubmit
  <2> QED
    BY <1>9, <2>2, <2>3 DEF Designing!OrderOfSubmit
<1> QED
  BY <1>9, <1>13, <1>14, <1>15, <1>16 DEF DesignInv

(* The studio starts an order.                                             *)
LEMMA StudioStartsKeeps ==
  ASSUME DesignInv, NEW k \in DOMAIN designOrders, Designing!StudioStarts(k)
  PROVE  DesignInv'
<1> DEFINE o == [designOrders[k] EXCEPT !.started = TRUE]
<1>1. designOrders[k] \in Designing!Order /\ designOrders \in Seq(Designing!Order)
      /\ DesignMade(designOrders[k], designSubmit, designStored)
  BY DesignRecords DEF DesignInv
<1>2. designOrders' = [designOrders EXCEPT ![k] = o]
      /\ UNCHANGED <<designOpen, designChosen, designFiles, designEdits, designKnown, designToast,
                     designSubmit, designStored, designBalance>>
  BY DEF Designing!StudioStarts, Designing!formVars
<1>3. o \in Designing!Order /\ o.by = designOrders[k].by /\ o.files = designOrders[k].files
  BY <1>1 DEF Designing!Order
<1> HIDE DEF o
<1>4. /\ designOrders' \in Seq(Designing!Order) /\ DOMAIN designOrders' = DOMAIN designOrders
      /\ designOrders'[k] = o
      /\ \A i \in DOMAIN designOrders : i # k => designOrders'[i] = designOrders[i]
  BY <1>1, <1>2, <1>3, ExceptSeq
<1>5. \A i \in DOMAIN designOrders : designOrders'[i].by = designOrders[i].by
  BY <1>3, <1>4
<1>6. Designing!DesignRequestTypeOK'
  BY <1>2, <1>4 DEF DesignInv, Designing!DesignRequestTypeOK
<1>7. \A s \in Submits : DesignSent(s, designSubmit'[s], designStored', designOrders')
  BY <1>2, <1>4, <1>5 DEF DesignInv, DesignSent
<1>8. DesignMade(o, designSubmit', designStored')
  BY <1>1, <1>2, <1>3 DEF DesignMade
<1>9. \A i \in DOMAIN designOrders' : DesignMade(designOrders'[i], designSubmit', designStored')
  BY <1>2, <1>4, <1>8 DEF DesignInv
<1>10. Designing!OrderOfSubmit'
  BY <1>2, <1>4, <1>5 DEF DesignInv, Designing!OrderOfSubmit
<1> QED
  BY <1>6, <1>7, <1>9, <1>10 DEF DesignInv

(* The invariant of the requests for designs.                              *)
LEMMA DesignInvHolds ==
  /\ Designing!Init => DesignInv
  /\ DesignInv /\ Designing!Next => DesignInv'
  /\ DesignInv /\ UNCHANGED Designing!vars => DesignInv'
<1>1. ASSUME DesignInv, Designing!Next
      PROVE  DesignInv'
  BY <1>1, FormKeeps, SubmitPressKeeps, SubmissionKeeps, CreateOrderKeeps, StudioStartsKeeps
     DEF Designing!Next
<1>2. ASSUME DesignInv, UNCHANGED Designing!vars
      PROVE  DesignInv'
  BY <1>2, FormMoves DEF DesignInv, Designing!DesignRequestTypeOK, Designing!vars, Designing!formVars,
                         Designing!serverVars
<1> QED
  BY <1>1, <1>2, DesignInvBegins

(* What the run checks of them.                                            *)
LEMMA DesignInvGives ==
  ASSUME DesignInv
  PROVE  /\ Designing!DesignRequestTypeOK /\ Designing!OrderOfSubmit
         /\ Designing!OrderHasItsFiles
BY DEF DesignInv, DesignMade, Designing!OrderHasItsFiles

-----------------------------------------------------------------------------
Lower == {pair \in Nat \X Nat : pair[1] < pair[2]}

(* Numbers that have a bound have a greatest, and it is the one that Max   *)
(* chooses.                                                                *)
LEMMA MaxOfBounded ==
  ASSUME NEW n \in Nat, NEW S \in SUBSET (0 .. n), S # {}
  PROVE  Viewing!Max(S) \in S /\ \A y \in S : Viewing!Max(S) >= y
<1> DEFINE T == {k \in Nat : \A y \in S : y <= k}
<1>1. IsWellFoundedOn(Lower, Nat)
  BY NatLessThanWellFounded DEF OpToRel, Lower
<1>2. n \in T
  OBVIOUS
<1>3. PICK m \in T : \A k \in T : ~(<<k, m>> \in Lower)
  <2>1. T \subseteq Nat
    OBVIOUS
  <2> HIDE DEF T
  <2> QED
    BY <1>1, <1>2, <2>1, WFMin
<1>4. m \in S
  <2>1. SUFFICES ASSUME m \notin S
                 PROVE  FALSE
    OBVIOUS
  <2>2. PICK y \in S : TRUE
    OBVIOUS
  <2>3. \A z \in S : z \in Nat /\ m \in Nat /\ z <= m
    BY <1>3
  <2>4. \A z \in S : z <= m - 1
    BY <2>1, <2>3
  <2>5. m - 1 \in Nat /\ m \in Nat
    BY <2>2, <2>3, <2>4
  <2>6. m - 1 \in T
    BY <2>4, <2>5
  <2>7. <<m - 1, m>> \in Lower
    BY <2>5 DEF Lower
  <2> QED
    BY <1>3, <2>6, <2>7
<1>5. \A y \in S : y \in Nat /\ m \in Nat /\ m >= y
  BY <1>3
<1> QED
  BY <1>4, <1>5 DEF Viewing!Max

\* What the page holds of an order is of that order, and not newer than it.
HeldOf(h, o, result) == h.id = o /\ h.result <= result[o]

\* A fetch has a number of its own, not above the last of its order; and what
\* the last one has read is not older than what is cached.
FetchOK(f, detail, heard, result) ==
  /\ f.no <= heard[f.id]
  /\ f.read # Null =>
       /\ HeldOf(f.read, f.id, result)
       /\ f.no = heard[f.id] /\ detail[f.id] # Null => detail[f.id].result <= f.read.result

ViewerInv ==
  /\ Viewing!OrderViewerTypeOK
  /\ \A o \in Two : viewerDetail[o] # Null => HeldOf(viewerDetail[o], o, viewerResult)
  /\ \A f \in viewerFetches : FetchOK(f, viewerDetail, viewerHeard, viewerResult)
  /\ \A f, g \in viewerFetches : f.no = g.no => f = g
  /\ Viewing!PictureIsOfOrder

(* What the page holds.                                                    *)
LEMMA ViewerRecords ==
  ASSUME Viewing!OrderViewerTypeOK
  PROVE  /\ viewerResult \in [Two -> 0 .. MaxResults] /\ viewerType \in [Two -> Viewing!Types]
         /\ viewerDetail \in [Two -> Viewing!Held \cup {Null}]
         /\ viewerList \in [Two -> Viewing!Held \cup {Null}]
         /\ viewerHeard \in [Two -> 0 .. MaxFetches]
         /\ \A f \in viewerFetches :
              /\ f \in Viewing!Fetch /\ f.no \in 1 .. MaxFetches /\ f.id \in Two
              /\ f.read \in Viewing!Held \cup {Null}
         /\ viewerSelected # Null => viewerSelected \in Viewing!Held /\ viewerSelected.id \in Two
         /\ \A h \in Viewing!Held : h.id \in Two /\ h.result \in 0 .. MaxResults /\ h # Null
         /\ \A p \in Viewing!Picture : p.of \in Two /\ p # Null
         /\ MaxResults \in Nat /\ MaxFetches \in Nat
         /\ MinZoom \in Nat /\ MaxZoom \in Nat /\ MinZoom <= 4 /\ 4 <= MaxZoom
         /\ viewerZoom \in MinZoom .. MaxZoom
         /\ \A o \in Two : Viewing!Whole(o) \in Viewing!Held /\ Viewing!ListItem(o) \in Viewing!Held
<1>1. \A f \in viewerFetches :
        /\ f \in Viewing!Fetch /\ f.no \in 1 .. MaxFetches /\ f.id \in Two
        /\ f.read \in Viewing!Held \cup {Null}
  BY DEF Viewing!OrderViewerTypeOK, Viewing!Fetch
<1>2. viewerSelected # Null => viewerSelected \in Viewing!Held /\ viewerSelected.id \in Two
  BY DEF Viewing!OrderViewerTypeOK, Viewing!Held
<1>3. \A h \in Viewing!Held : h.id \in Two /\ h.result \in 0 .. MaxResults /\ h # Null
  BY ViewerAssumption DEF Viewing!OrderViewerAssumption, Viewing!Held, Viewing!Results
<1>4. \A p \in Viewing!Picture : p.of \in Two /\ p # Null
  BY ViewerAssumption DEF Viewing!OrderViewerAssumption, Viewing!Picture
<1>5. viewerResult \in [Two -> 0 .. MaxResults]
  BY DEF Viewing!OrderViewerTypeOK, Viewing!Results
<1>6. \A o \in Two : Viewing!Whole(o) \in Viewing!Held /\ Viewing!ListItem(o) \in Viewing!Held
  BY <1>5 DEF Viewing!Whole, Viewing!ListItem, Viewing!Held, Viewing!Results
<1> QED
  BY <1>1, <1>2, <1>3, <1>4, <1>5, <1>6, ViewerAssumption
     DEF Viewing!OrderViewerTypeOK, Viewing!OrderViewerAssumption, Viewing!Normal

(* The page begins with nothing fetched.                                   *)
LEMMA ViewerInvBegins ==
  ASSUME Viewing!Init
  PROVE  ViewerInv
<1>1. MinZoom \in Nat /\ MaxZoom \in Nat /\ MinZoom <= 4 /\ 4 <= MaxZoom
      /\ MaxResults \in Nat /\ MaxFetches \in Nat
  BY ViewerAssumption DEF Viewing!OrderViewerAssumption, Viewing!Normal
<1>2. /\ viewerDetail = [o \in Two |-> Null] /\ viewerList = [o \in Two |-> Null]
      /\ viewerFetches = {} /\ viewerHeard = [o \in Two |-> 0] /\ viewerResult = [o \in Two |-> 0]
      /\ viewerSelected = Null /\ viewerPicture = Null /\ viewerZoom = 4
      /\ viewerType \in [Two -> Viewing!Types] /\ viewerLabel \in [Two -> BOOLEAN]
  BY DEF Viewing!Init, Viewing!Normal
<1>3. viewerHeard \in [Two -> 0 .. MaxFetches] /\ viewerResult \in [Two -> Viewing!Results]
  BY <1>1, <1>2 DEF Viewing!Results
<1>4. Viewing!OrderViewerTypeOK
  BY <1>1, <1>2, <1>3 DEF Viewing!OrderViewerTypeOK, Viewing!Normal
<1> QED
  BY <1>2, <1>4 DEF ViewerInv, Viewing!PictureIsOfOrder

(* Pictures, dialogs and lists change, and nothing is fetched.             *)
LEMMA LookMoves ==
  ASSUME ViewerInv,
         UNCHANGED <<viewerType, viewerLabel, viewerResult, viewerDetail, viewerFetches, viewerHeard>>,
         viewerList' \in [Two -> Viewing!Held \cup {Null}],
         viewerSelected' \in Viewing!Held \cup {Null},
         viewerPicture' \in Viewing!Picture \cup {Null},
         viewerZoom' \in MinZoom .. MaxZoom, viewerPicture' = Null => viewerZoom' = 4,
         Viewing!PictureIsOfOrder'
  PROVE  ViewerInv'
<1>1. Viewing!OrderViewerTypeOK'
  BY DEF ViewerInv, Viewing!OrderViewerTypeOK, Viewing!Normal
<1> QED
  BY <1>1 DEF ViewerInv

(* Something is fetched, and nothing that is shown is opened or closed.    *)
LEMMA FetchMoves ==
  ASSUME ViewerInv,
         UNCHANGED <<viewerType, viewerLabel, viewerResult>>,
         viewerDetail' \in [Two -> Viewing!Held \cup {Null}],
         viewerFetches' \in SUBSET Viewing!Fetch,
         viewerHeard' \in [Two -> 0 .. MaxFetches],
         UNCHANGED <<viewerList, viewerSelected, viewerPicture, viewerZoom>>,
         \A o \in Two : viewerDetail'[o] # Null => HeldOf(viewerDetail'[o], o, viewerResult'),
         \A f \in viewerFetches' : FetchOK(f, viewerDetail', viewerHeard', viewerResult'),
         \A f, g \in viewerFetches' : f.no = g.no => f = g
  PROVE  ViewerInv'
<1>1. Viewing!OrderViewerTypeOK'
  BY DEF ViewerInv, Viewing!OrderViewerTypeOK
<1> QED
  BY <1>1 DEF ViewerInv, Viewing!PictureIsOfOrder

(* A fetch that is begun has the highest number so far.                    *)
LEMMA AskFetches ==
  ASSUME ViewerInv, NEW o \in Two, Viewing!Ask(o), viewerResult' = viewerResult
  PROVE  /\ viewerFetches' \in SUBSET Viewing!Fetch
         /\ viewerHeard' \in [Two -> 0 .. MaxFetches] /\ viewerDetail' = viewerDetail
         /\ \A f \in viewerFetches' : FetchOK(f, viewerDetail', viewerHeard', viewerResult')
         /\ \A f, g \in viewerFetches' : f.no = g.no => f = g
<1> DEFINE S == {viewerHeard[p] : p \in Two}
           no == Viewing!Max(S) + 1
           new == [no |-> no, id |-> o, read |-> Null]
<1>1. /\ no <= MaxFetches /\ viewerFetches' = viewerFetches \cup {new}
      /\ viewerHeard' = [viewerHeard EXCEPT ![o] = no] /\ viewerDetail' = viewerDetail
  BY DEF Viewing!Ask
<1>2. /\ viewerHeard \in [Two -> 0 .. MaxFetches] /\ MaxFetches \in Nat
      /\ viewerFetches \in SUBSET Viewing!Fetch
      /\ \A f \in viewerFetches : f.no \in 1 .. MaxFetches /\ f.id \in Two
  BY ViewerRecords DEF ViewerInv, Viewing!OrderViewerTypeOK
<1>3. Viewing!Max(S) \in S /\ \A y \in S : Viewing!Max(S) >= y
  <2>1. S \in SUBSET (0 .. MaxFetches) /\ S # {}
    BY <1>2
  <2> HIDE DEF S
  <2> QED
    BY <1>2, <2>1, MaxOfBounded
<1>4. no \in 1 .. MaxFetches /\ \A p \in Two : viewerHeard[p] < no
  <2>1. S \subseteq 0 .. MaxFetches /\ \A p \in Two : viewerHeard[p] \in S
    BY <1>2
  <2>2. no = Viewing!Max(S) + 1 /\ no <= MaxFetches
    BY <1>1
  <2> HIDE DEF S, no
  <2>3. Viewing!Max(S) \in 0 .. MaxFetches /\ MaxFetches \in Nat
    BY <1>2, <1>3, <2>1
  <2>4. no \in 1 .. MaxFetches
    BY <2>2, <2>3
  <2>5. \A p \in Two : viewerHeard[p] \in 0 .. MaxFetches /\ viewerHeard[p] <= Viewing!Max(S)
    BY <1>2, <1>3, <2>1
  <2> QED
    BY <2>2, <2>3, <2>4, <2>5
<1> HIDE DEF no, S
<1>5. new \in Viewing!Fetch /\ new.no = no /\ new.id = o /\ new.read = Null
  BY <1>4 DEF Viewing!Fetch
<1> HIDE DEF new
<1>6. /\ viewerHeard' \in [Two -> 0 .. MaxFetches] /\ viewerHeard'[o] = no
      /\ \A p \in Two : p # o => viewerHeard'[p] = viewerHeard[p]
  BY <1>1, <1>2, <1>4
<1>7. \A f \in viewerFetches : FetchOK(f, viewerDetail, viewerHeard, viewerResult)
  BY DEF ViewerInv
<1>8. \A f \in viewerFetches : f.no <= viewerHeard[f.id] /\ f.no < no
  BY <1>2, <1>4, <1>7 DEF FetchOK
<1>9. \A f \in viewerFetches : FetchOK(f, viewerDetail', viewerHeard', viewerResult')
  <2> TAKE f \in viewerFetches
  <2>1. CASE f.id = o
    BY <1>1, <1>2, <1>4, <1>6, <1>7, <1>8, <2>1 DEF FetchOK
  <2>2. CASE f.id # o
    BY <1>1, <1>2, <1>6, <1>7, <2>2 DEF FetchOK
  <2> QED
    BY <2>1, <2>2
<1>10. FetchOK(new, viewerDetail', viewerHeard', viewerResult')
  BY <1>4, <1>5, <1>6 DEF FetchOK
<1>11. \A f, g \in viewerFetches' : f.no = g.no => f = g
  BY <1>1, <1>2, <1>4, <1>5, <1>8 DEF ViewerInv
<1> QED
  BY <1>1, <1>2, <1>5, <1>6, <1>9, <1>10, <1>11

(* So does a fetch that joins another, or begins.                          *)
LEMMA JoinFetches ==
  ASSUME ViewerInv, NEW o \in Two, Viewing!Join(o) \/ Viewing!Ask(o), viewerResult' = viewerResult
  PROVE  /\ viewerFetches' \in SUBSET Viewing!Fetch
         /\ viewerHeard' \in [Two -> 0 .. MaxFetches] /\ viewerDetail' = viewerDetail
         /\ \A f \in viewerFetches' : FetchOK(f, viewerDetail', viewerHeard', viewerResult')
         /\ \A f, g \in viewerFetches' : f.no = g.no => f = g
<1>1. CASE Viewing!Ask(o)
  BY <1>1, AskFetches
<1>2. CASE UNCHANGED <<viewerDetail, viewerFetches, viewerHeard>>
  BY <1>2 DEF ViewerInv, Viewing!OrderViewerTypeOK
<1> QED
  BY <1>1, <1>2 DEF Viewing!Join, Viewing!fetchVars

(* A fetch is read, answered or fails.                                     *)
LEMMA FetchesKeep ==
  ASSUME ViewerInv, NEW f \in viewerFetches,
         Viewing!ReadOrder(f) \/ Viewing!DetailAnswered(f) \/ Viewing!FetchFails(f)
  PROVE  ViewerInv'
<1>0. /\ f \in Viewing!Fetch /\ f.id \in Two /\ f.read \in Viewing!Held \cup {Null}
      /\ FetchOK(f, viewerDetail, viewerHeard, viewerResult)
      /\ viewerFetches \in SUBSET Viewing!Fetch
      /\ viewerDetail \in [Two -> Viewing!Held \cup {Null}]
      /\ viewerHeard \in [Two -> 0 .. MaxFetches]
  BY ViewerRecords DEF ViewerInv, Viewing!OrderViewerTypeOK
<1>1. CASE Viewing!ReadOrder(f)
  <2> DEFINE g == [f EXCEPT !.read = Viewing!Whole(f.id)]
  <2>1. /\ viewerFetches' = (viewerFetches \ {f}) \cup {g}
        /\ UNCHANGED <<viewerType, viewerLabel, viewerResult, viewerList, viewerSelected, viewerDetail,
                       viewerHeard, viewerPicture, viewerZoom>>
    BY <1>1 DEF Viewing!ReadOrder, Viewing!rowVars
  <2>2. Viewing!Whole(f.id) \in Viewing!Held
    BY <1>0, ViewerRecords DEF ViewerInv
  <2>3. g \in Viewing!Fetch /\ g.no = f.no /\ g.id = f.id /\ g.read = Viewing!Whole(f.id)
    BY <1>0, <2>2 DEF Viewing!Fetch
  <2> HIDE DEF g
  <2>4. Viewing!Whole(f.id).id = f.id /\ Viewing!Whole(f.id).result = viewerResult[f.id]
    BY DEF Viewing!Whole
  <2>5. viewerDetail[f.id] # Null => viewerDetail[f.id].result <= viewerResult[f.id]
    BY <1>0 DEF ViewerInv, HeldOf
  <2>6. viewerResult[f.id] \in Nat
    BY <1>0, ViewerRecords DEF ViewerInv
  <2>7. FetchOK(g, viewerDetail', viewerHeard', viewerResult')
    BY <1>0, <2>1, <2>3, <2>4, <2>5, <2>6 DEF FetchOK, HeldOf
  <2>8. \A h \in viewerFetches' : FetchOK(h, viewerDetail', viewerHeard', viewerResult')
    BY <2>1, <2>7 DEF ViewerInv
  <2>9. \A h, k \in viewerFetches' : h.no = k.no => h = k
    BY <2>1, <2>3 DEF ViewerInv
  <2>10. viewerFetches' \in SUBSET Viewing!Fetch
    BY <1>0, <2>1, <2>3
  <2>11. \A o \in Two : viewerDetail'[o] # Null => HeldOf(viewerDetail'[o], o, viewerResult')
    BY <2>1 DEF ViewerInv
  <2> QED
    BY <1>0, <2>1, <2>8, <2>9, <2>10, <2>11, FetchMoves
<1>2. CASE Viewing!DetailAnswered(f)
  <2>1. /\ f.read # Null /\ viewerFetches' = viewerFetches \ {f}
        /\ viewerDetail' = IF f.no = viewerHeard[f.id] THEN [viewerDetail EXCEPT ![f.id] = f.read]
                           ELSE viewerDetail
        /\ UNCHANGED <<viewerType, viewerLabel, viewerResult, viewerList, viewerSelected,
                       viewerHeard, viewerPicture, viewerZoom>>
    BY <1>2 DEF Viewing!DetailAnswered, Viewing!Heard, Viewing!Key, Viewing!rowVars
  <2>2. \A g \in viewerFetches \ {f} :
          g.no # f.no /\ FetchOK(g, viewerDetail, viewerHeard, viewerResult)
    BY DEF ViewerInv
  <2>3. CASE f.no = viewerHeard[f.id]
    <3>1. /\ viewerDetail' \in [Two -> Viewing!Held \cup {Null}] /\ viewerDetail'[f.id] = f.read
          /\ \A o \in Two : o # f.id => viewerDetail'[o] = viewerDetail[o]
      BY <1>0, <2>1, <2>3
    <3>2. \A o \in Two : viewerDetail'[o] # Null => HeldOf(viewerDetail'[o], o, viewerResult')
      BY <1>0, <2>1, <3>1 DEF ViewerInv, FetchOK
    <3>3. \A g \in viewerFetches' : FetchOK(g, viewerDetail', viewerHeard', viewerResult')
      <4> TAKE g \in viewerFetches'
      <4>1. g \in viewerFetches \ {f} /\ g.id \in Two
        BY <2>1, ViewerRecords DEF ViewerInv
      <4>2. CASE g.id = f.id
        BY <2>1, <2>2, <2>3, <4>1, <4>2 DEF FetchOK
      <4>3. CASE g.id # f.id
        BY <2>1, <2>2, <3>1, <4>1, <4>3 DEF FetchOK
      <4> QED
        BY <4>2, <4>3
    <3>4. \A g, h \in viewerFetches' : g.no = h.no => g = h
      BY <2>1 DEF ViewerInv
    <3> QED
      BY <1>0, <2>1, <3>1, <3>2, <3>3, <3>4, FetchMoves
  <2>4. CASE f.no # viewerHeard[f.id]
    <3>1. viewerDetail' = viewerDetail
      BY <2>1, <2>4
    <3>2. /\ \A o \in Two : viewerDetail'[o] # Null => HeldOf(viewerDetail'[o], o, viewerResult')
          /\ \A g \in viewerFetches' : FetchOK(g, viewerDetail', viewerHeard', viewerResult')
          /\ \A g, h \in viewerFetches' : g.no = h.no => g = h
      BY <2>1, <3>1 DEF ViewerInv
    <3> QED
      BY <1>0, <2>1, <3>1, <3>2, FetchMoves
  <2> QED
    BY <2>3, <2>4
<1>3. CASE Viewing!FetchFails(f)
  <2>1. /\ viewerFetches' = viewerFetches \ {f}
        /\ UNCHANGED <<viewerType, viewerLabel, viewerResult, viewerList, viewerSelected, viewerDetail,
                       viewerHeard, viewerPicture, viewerZoom>>
    BY <1>3 DEF Viewing!FetchFails, Viewing!rowVars
  <2>2. /\ \A o \in Two : viewerDetail'[o] # Null => HeldOf(viewerDetail'[o], o, viewerResult')
        /\ \A g \in viewerFetches' : FetchOK(g, viewerDetail', viewerHeard', viewerResult')
        /\ \A g, h \in viewerFetches' : g.no = h.no => g = h
    BY <2>1 DEF ViewerInv
  <2> QED
    BY <1>0, <2>1, <2>2, FetchMoves
<1> QED
  BY <1>1, <1>2, <1>3

(* The staff set a result: what is held gets older.                        *)
LEMMA SetResultKeeps ==
  ASSUME ViewerInv, NEW o \in Two, Viewing!SetResult(o)
  PROVE  ViewerInv'
<1>0. /\ viewerResult \in [Two -> 0 .. MaxResults] /\ MaxResults \in Nat
      /\ viewerDetail \in [Two -> Viewing!Held \cup {Null}]
      /\ \A f \in viewerFetches : f.id \in Two /\ f.read \in Viewing!Held \cup {Null}
      /\ \A h \in Viewing!Held : h.result \in Nat
  BY ViewerRecords DEF ViewerInv
<1>1. /\ viewerResult[o] < MaxResults /\ viewerResult' = [viewerResult EXCEPT ![o] = @ + 1]
      /\ UNCHANGED <<viewerType, viewerLabel, viewerList, viewerSelected, viewerDetail, viewerFetches,
                     viewerHeard, viewerPicture, viewerZoom>>
  BY DEF Viewing!SetResult, Viewing!fetchVars
<1>2. viewerResult' \in [Two -> 0 .. MaxResults]
      /\ \A p \in Two : viewerResult[p] \in Nat /\ viewerResult'[p] \in Nat /\ viewerResult[p] <= viewerResult'[p]
  BY <1>0, <1>1
<1>3. \A h \in Viewing!Held, p \in Two : HeldOf(h, p, viewerResult) => HeldOf(h, p, viewerResult')
  <2> SUFFICES ASSUME NEW h \in Viewing!Held, NEW p \in Two, HeldOf(h, p, viewerResult)
               PROVE  HeldOf(h, p, viewerResult')
    OBVIOUS
  <2>1. h.id = p /\ h.result <= viewerResult[p]
    BY DEF HeldOf
  <2>4. h.result \in Nat
    BY <1>0
  <2>2. viewerResult[p] \in Nat /\ viewerResult'[p] \in Nat /\ viewerResult[p] <= viewerResult'[p]
    BY <1>2
  <2>3. h.result <= viewerResult'[p]
    BY <2>1, <2>4, <2>2
  <2> QED
    BY <2>1, <2>3 DEF HeldOf
<1>4. \A p \in Two : viewerDetail'[p] # Null => HeldOf(viewerDetail'[p], p, viewerResult')
  BY <1>0, <1>1, <1>3 DEF ViewerInv
<1>5. \A f \in viewerFetches' : FetchOK(f, viewerDetail', viewerHeard', viewerResult')
  BY <1>0, <1>1, <1>3 DEF ViewerInv, FetchOK
<1>6. Viewing!OrderViewerTypeOK'
  BY <1>1, <1>2 DEF ViewerInv, Viewing!OrderViewerTypeOK, Viewing!Results
<1> QED
  BY <1>1, <1>4, <1>5, <1>6 DEF ViewerInv, Viewing!PictureIsOfOrder

(* A dialog is opened, and its order is fetched, or is invalidated.        *)
LEMMA OpenKeeps ==
  ASSUME ViewerInv,
         Viewing!Focus \/ Viewing!Invalidate \/ \E o \in Two : Viewing!OpenDetail(o)
  PROVE  ViewerInv'
<1>1. viewerDetail \in [Two -> Viewing!Held \cup {Null}]
      /\ (viewerSelected # Null => viewerSelected.id \in Two)
      /\ viewerList \in [Two -> Viewing!Held \cup {Null}]
      /\ \A o \in Two : viewerDetail[o] # Null => HeldOf(viewerDetail[o], o, viewerResult)
  BY ViewerRecords DEF ViewerInv
<1>2. CASE Viewing!Focus \/ Viewing!Invalidate
  <2>1. /\ viewerSelected # Null
        /\ Viewing!Join(viewerSelected.id) \/ Viewing!Ask(viewerSelected.id)
        /\ UNCHANGED <<viewerType, viewerLabel, viewerResult, viewerList, viewerSelected, viewerPicture,
                       viewerZoom>>
    BY <1>2 DEF Viewing!Focus, Viewing!Invalidate, Viewing!rowVars
  <2>2. /\ viewerFetches' \in SUBSET Viewing!Fetch
        /\ viewerHeard' \in [Two -> 0 .. MaxFetches] /\ viewerDetail' = viewerDetail
        /\ \A f \in viewerFetches' : FetchOK(f, viewerDetail', viewerHeard', viewerResult')
        /\ \A f, g \in viewerFetches' : f.no = g.no => f = g
    BY <1>1, <2>1, JoinFetches
  <2>3. \A o \in Two : viewerDetail'[o] # Null => HeldOf(viewerDetail'[o], o, viewerResult')
    BY <1>1, <2>1, <2>2
  <2> QED
    BY <1>1, <2>1, <2>2, <2>3, FetchMoves
<1>3. ASSUME NEW o \in Two, Viewing!OpenDetail(o)
      PROVE  ViewerInv'
  <2>1. /\ viewerPicture = Null /\ viewerList[o] # Null /\ viewerSelected' = viewerList[o]
        /\ Viewing!Join(o)
        /\ UNCHANGED <<viewerType, viewerLabel, viewerResult, viewerList, viewerPicture, viewerZoom>>
    BY <1>3 DEF Viewing!OpenDetail, Viewing!rowVars
  <2>2. /\ viewerFetches' \in SUBSET Viewing!Fetch
        /\ viewerHeard' \in [Two -> 0 .. MaxFetches] /\ viewerDetail' = viewerDetail
        /\ \A f \in viewerFetches' : FetchOK(f, viewerDetail', viewerHeard', viewerResult')
        /\ \A f, g \in viewerFetches' : f.no = g.no => f = g
    BY <2>1, JoinFetches
  <2>3. \A p \in Two : viewerDetail'[p] # Null => HeldOf(viewerDetail'[p], p, viewerResult')
    BY <1>1, <2>1, <2>2
  <2>4. viewerSelected' \in Viewing!Held
    BY <1>1, <2>1
  <2>5. Viewing!OrderViewerTypeOK'
    BY <2>1, <2>2, <2>4 DEF ViewerInv, Viewing!OrderViewerTypeOK
  <2> QED
    BY <2>1, <2>2, <2>3, <2>5 DEF ViewerInv, Viewing!PictureIsOfOrder
<1> QED
  BY <1>2, <1>3

(* Pictures are enlarged, zoomed and closed, dialogs closed, lists fetched.*)
LEMMA LooksKeep ==
  ASSUME ViewerInv,
         \/ Viewing!ListFetched \/ Viewing!CloseDetail \/ Viewing!OpenPicture
         \/ Viewing!ClosePicture \/ Viewing!Zoom
         \/ \E o \in Two : Viewing!OpenTablePicture(o)
  PROVE  ViewerInv'
<1>0. /\ viewerList \in [Two -> Viewing!Held \cup {Null}]
      /\ viewerSelected \in Viewing!Held \cup {Null}
      /\ viewerSelected # Null => viewerSelected.id \in Two
      /\ viewerPicture \in Viewing!Picture \cup {Null}
      /\ viewerZoom \in MinZoom .. MaxZoom /\ (viewerPicture = Null => viewerZoom = 4)
      /\ MinZoom \in Nat /\ MaxZoom \in Nat /\ MinZoom <= 4 /\ 4 <= MaxZoom
      /\ Viewing!PictureIsOfOrder
      /\ \A p \in Viewing!Picture : p # Null
  BY ViewerRecords DEF ViewerInv, Viewing!OrderViewerTypeOK, Viewing!Normal
<1>1. CASE Viewing!ListFetched
  <2>1. viewerList' \in [Two -> Viewing!Held \cup {Null}]
    BY <1>1, ViewerRecords DEF ViewerInv, Viewing!ListFetched
  <2> QED
    BY <1>0, <1>1, <2>1, LookMoves
       DEF Viewing!ListFetched, Viewing!rowVars, Viewing!fetchVars, Viewing!PictureIsOfOrder
<1>2. CASE Viewing!CloseDetail
  BY <1>0, <1>2, LookMoves
     DEF Viewing!CloseDetail, Viewing!Forget, Viewing!Normal, Viewing!rowVars, Viewing!fetchVars,
         Viewing!PictureIsOfOrder
<1>3. CASE Viewing!OpenPicture
  <2>1. PICK l \in Viewing!Links(Viewing!Shown) :
          Viewing!Enlarge([of |-> viewerSelected.id, link |-> l, by |-> "detail"])
    BY <1>3 DEF Viewing!OpenPicture
  <2> DEFINE p == [of |-> viewerSelected.id, link |-> l, by |-> "detail"]
  <2>2. viewerSelected # Null
    BY <1>3 DEF Viewing!OpenPicture
  <2>3. p \in Viewing!Picture /\ p # Null /\ p.of = viewerSelected.id
    BY <1>0, <2>1, <2>2 DEF Viewing!Links, Viewing!Picture
  <2>4. /\ viewerPicture' = p /\ viewerZoom' = IF viewerPicture = p THEN viewerZoom ELSE 4
        /\ UNCHANGED <<viewerType, viewerLabel, viewerResult, viewerList, viewerSelected, viewerDetail,
                       viewerFetches, viewerHeard>>
    BY <2>1 DEF Viewing!Enlarge, Viewing!Normal, Viewing!rowVars, Viewing!fetchVars
  <2> HIDE DEF p
  <2>5. Viewing!PictureIsOfOrder'
    BY <2>2, <2>3, <2>4 DEF Viewing!PictureIsOfOrder
  <2>6. viewerZoom' \in MinZoom .. MaxZoom
    BY <1>0, <2>4
  <2> QED
    BY <1>0, <2>3, <2>4, <2>5, <2>6, LookMoves
<1>4. CASE Viewing!ClosePicture
  BY <1>0, <1>4, LookMoves
     DEF Viewing!ClosePicture, Viewing!Enlarge, Viewing!Normal, Viewing!rowVars, Viewing!fetchVars,
         Viewing!PictureIsOfOrder
<1>5. CASE Viewing!Zoom
  <2>1. viewerPicture # Null
        /\ viewerZoom' \in {Viewing!Min({viewerZoom + 1, MaxZoom}), Viewing!Max({viewerZoom - 1, MinZoom}), 4}
        /\ UNCHANGED <<viewerType, viewerLabel, viewerResult, viewerList, viewerSelected, viewerDetail,
                       viewerFetches, viewerHeard, viewerPicture>>
    BY <1>5 DEF Viewing!Zoom, Viewing!Normal, Viewing!rowVars, Viewing!fetchVars
  <2>2. Viewing!Min({viewerZoom + 1, MaxZoom}) \in MinZoom .. MaxZoom
    <3> DEFINE a == viewerZoom + 1
    <3>1. a \in Nat /\ a >= MinZoom /\ MaxZoom \in Nat /\ MaxZoom >= MinZoom
      BY <1>0
    <3> HIDE DEF a
    <3>2. Viewing!Min({a, MaxZoom}) \in {a, MaxZoom} /\ \A y \in {a, MaxZoom} : Viewing!Min({a, MaxZoom}) <= y
      BY <3>1 DEF Viewing!Min
    <3>3. Viewing!Min({a, MaxZoom}) \in MinZoom .. MaxZoom
      BY <1>0, <3>1, <3>2
    <3> QED
      BY <3>3 DEF a
  <2>3. Viewing!Max({viewerZoom - 1, MinZoom}) \in MinZoom .. MaxZoom
    <3> DEFINE a == viewerZoom - 1
    <3>1. a \in Int /\ a <= MaxZoom /\ MinZoom \in Int /\ MaxZoom >= MinZoom
      BY <1>0
    <3> HIDE DEF a
    <3>2. Viewing!Max({a, MinZoom}) \in {a, MinZoom} /\ \A y \in {a, MinZoom} : Viewing!Max({a, MinZoom}) >= y
      BY <3>1 DEF Viewing!Max
    <3>3. Viewing!Max({a, MinZoom}) \in MinZoom .. MaxZoom
      BY <1>0, <3>1, <3>2
    <3> QED
      BY <3>3 DEF a
  <2>4. viewerZoom' \in MinZoom .. MaxZoom
    BY <1>0, <2>1, <2>2, <2>3
  <2>5. Viewing!PictureIsOfOrder'
    BY <1>0, <2>1 DEF Viewing!PictureIsOfOrder
  <2> QED
    BY <1>0, <2>1, <2>4, <2>5, LookMoves
<1>6. ASSUME NEW o \in Two, Viewing!OpenTablePicture(o)
      PROVE  ViewerInv'
  <2>1. PICK l \in Viewing!TableAssets(viewerList[o]) :
          Viewing!Enlarge([of |-> o, link |-> l, by |-> "table"])
    BY <1>6 DEF Viewing!OpenTablePicture
  <2> DEFINE p == [of |-> o, link |-> l, by |-> "table"]
  <2>2. l \in Viewing!Link
    BY <2>1 DEF Viewing!TableAssets, Viewing!Links
  <2>3. p \in Viewing!Picture /\ p # Null /\ p.by # "detail"
    BY <1>0, <2>2 DEF Viewing!Picture
  <2>4. /\ viewerPicture' = p /\ viewerZoom' = IF viewerPicture = p THEN viewerZoom ELSE 4
        /\ UNCHANGED <<viewerType, viewerLabel, viewerResult, viewerList, viewerSelected, viewerDetail,
                       viewerFetches, viewerHeard>>
    BY <2>1 DEF Viewing!Enlarge, Viewing!Normal, Viewing!rowVars, Viewing!fetchVars
  <2> HIDE DEF p
  <2>5. Viewing!PictureIsOfOrder'
    BY <2>3, <2>4 DEF Viewing!PictureIsOfOrder
  <2>6. viewerZoom' \in MinZoom .. MaxZoom
    BY <1>0, <2>4
  <2> QED
    BY <1>0, <2>3, <2>4, <2>5, <2>6, LookMoves
<1> QED
  BY <1>1, <1>2, <1>3, <1>4, <1>5, <1>6

(* The invariant of what is shown of orders.                               *)
LEMMA ViewerInvHolds ==
  /\ Viewing!Init => ViewerInv
  /\ ViewerInv /\ Viewing!Next => ViewerInv'
  /\ ViewerInv /\ UNCHANGED Viewing!vars => ViewerInv'
<1>1. ASSUME ViewerInv, Viewing!Next
      PROVE  ViewerInv'
  BY <1>1, SetResultKeeps, OpenKeeps, LooksKeep, FetchesKeep DEF Viewing!Next
<1>2. ASSUME ViewerInv, UNCHANGED Viewing!vars
      PROVE  ViewerInv'
  BY <1>2, LookMoves DEF ViewerInv, Viewing!OrderViewerTypeOK, Viewing!PictureIsOfOrder, Viewing!Normal,
                         Viewing!vars, Viewing!rowVars, Viewing!fetchVars
<1> QED
  BY <1>1, <1>2, ViewerInvBegins

(* What the run checks of it.                                              *)
LEMMA ViewerInvGives ==
  ASSUME ViewerInv
  PROVE  Viewing!OrderViewerTypeOK /\ Viewing!ShownIsSelected /\ Viewing!PictureIsOfOrder
<1>1. viewerSelected # Null => viewerSelected.id \in Two
  BY ViewerRecords DEF ViewerInv
<1> QED
  BY <1>1 DEF ViewerInv, HeldOf, Viewing!ShownIsSelected, Viewing!Shown

(* No step puts an older order into the cache.                             *)
LEMMA ViewerCacheNewer ==
  ASSUME ViewerInv, Viewing!Next \/ UNCHANGED Viewing!vars
  PROVE  Viewing!CacheOnlyNewer
<1>0. viewerDetail \in [Two -> Viewing!Held \cup {Null}] /\ \A h \in Viewing!Held : h.result \in Nat
  BY ViewerRecords DEF ViewerInv
<1>1. CASE viewerDetail' = viewerDetail
  BY <1>0, <1>1 DEF Viewing!CacheOnlyNewer
<1>2. ASSUME NEW f \in viewerFetches, Viewing!DetailAnswered(f)
      PROVE  Viewing!CacheOnlyNewer
  <2>1. /\ f.read # Null /\ f.id \in Two /\ f.read \in Viewing!Held \cup {Null}
        /\ FetchOK(f, viewerDetail, viewerHeard, viewerResult)
    BY <1>2, ViewerRecords DEF ViewerInv, Viewing!DetailAnswered
  <2>2. viewerDetail' = IF f.no = viewerHeard[f.id] THEN [viewerDetail EXCEPT ![f.id] = f.read]
                        ELSE viewerDetail
    BY <1>2 DEF Viewing!DetailAnswered, Viewing!Heard, Viewing!Key
  <2>3. CASE f.no = viewerHeard[f.id]
    <3>1. viewerDetail'[f.id] = f.read /\ \A o \in Two : o # f.id => viewerDetail'[o] = viewerDetail[o]
      BY <1>0, <2>1, <2>2, <2>3
    <3> QED
      BY <1>0, <2>1, <2>3, <3>1 DEF Viewing!CacheOnlyNewer, FetchOK
  <2> QED
    BY <1>1, <2>2, <2>3
<1>3. CASE \/ Viewing!ListFetched \/ Viewing!Focus \/ Viewing!Invalidate \/ Viewing!CloseDetail
           \/ Viewing!OpenPicture \/ Viewing!ClosePicture \/ Viewing!Zoom
           \/ \E o \in Two : Viewing!SetResult(o) \/ Viewing!OpenDetail(o) \/ Viewing!OpenTablePicture(o)
           \/ \E f \in viewerFetches : Viewing!ReadOrder(f) \/ Viewing!FetchFails(f)
           \/ UNCHANGED Viewing!vars
  <2>1. viewerDetail' = viewerDetail
    BY <1>3 DEF Viewing!ListFetched, Viewing!Focus, Viewing!Invalidate, Viewing!CloseDetail,
                Viewing!OpenPicture, Viewing!ClosePicture, Viewing!Zoom, Viewing!SetResult,
                Viewing!OpenDetail, Viewing!OpenTablePicture, Viewing!ReadOrder, Viewing!FetchFails,
                Viewing!Enlarge, Viewing!Join, Viewing!Ask, Viewing!vars, Viewing!fetchVars
  <2> QED
    BY <1>1, <2>1
<1> QED
  BY <1>2, <1>3 DEF Viewing!Next

-----------------------------------------------------------------------------
\* The parameters of a URL are those of the page, and its page a number.
UrlKeys == {"orderType", "orderStatus", "paymentStatus", "designSubtype", "search", "from", "to",
            "page", "limit"}

UrlOK(u) == DOMAIN u = UrlKeys /\ u.page \in Nat

StaffUrlInv ==
  /\ UrlOK(filterUrl) /\ filterView \in {"standard", "design"}
  /\ StaffFilters!ResetClearsAll

(* A URL is a list of parameters, whatever they say.                       *)
LEMMA StaffUrlBegins ==
  ASSUME StaffFilters!Init
  PROVE  StaffUrlInv
<1>1. filterUrl \in StaffFilters!Url /\ filterView \in {"standard", "design"} /\ filterDid = "opened"
  BY DEF StaffFilters!Init
<1>2. MaxPage \in Nat
  BY StaffFiltersAssumption DEF StaffFilters!FilterAssumption
<1>3. filterUrl.page \in 0 .. MaxPage /\ DOMAIN filterUrl = UrlKeys
  BY <1>1 DEF UrlKeys, StaffFilters!Url
<1>4. UrlOK(filterUrl)
  BY <1>2, <1>3 DEF UrlOK
<1> QED
  BY <1>1, <1>4 DEF StaffUrlInv, StaffFilters!ResetClearsAll

(* Every change of a filter goes back to the first page.                   *)
LEMMA StaffChangedIsUrl ==
  ASSUME UrlOK(filterUrl), NEW field, field # "page", NEW value
  PROVE  /\ DOMAIN StaffFilters!Changed(filterUrl, field, value) = UrlKeys
         /\ StaffFilters!Changed(filterUrl, field, value).page = 1
BY DEF UrlOK, UrlKeys, StaffFilters!Changed

(* What a step leaves in the URL: parameters, with the first page, or with *)
(* the same filters as before.                                             *)
LEMMA StaffSteps ==
  ASSUME StaffUrlInv, StaffFilters!Next \/ UNCHANGED StaffFilters!vars
  PROVE  /\ UrlOK(filterUrl') /\ filterView' \in {"standard", "design"}
         /\ \/ filterUrl'.page \in {0, 1}
            \/ /\ filterView' = filterView
               /\ \A f \in StaffFilters!Fields : filterUrl'[f] = filterUrl[f]
         /\ \/ StaffFilters!Reset \/ filterDid' # "reset"
            \/ UNCHANGED StaffFilters!vars
<1> DEFINE Goal ==
      /\ UrlOK(filterUrl') /\ filterView' \in {"standard", "design"}
      /\ \/ filterUrl'.page \in {0, 1}
         \/ /\ filterView' = filterView
            /\ \A f \in StaffFilters!Fields : filterUrl'[f] = filterUrl[f]
      /\ \/ StaffFilters!Reset \/ filterDid' # "reset"
         \/ UNCHANGED StaffFilters!vars
<1>0. UrlOK(filterUrl) /\ filterView \in {"standard", "design"}
  BY DEF StaffUrlInv
<1>1. ASSUME NEW field \in StaffFilters!Fields, NEW value, StaffFilters!Choose(field, value)
      PROVE  Goal
  <2>1. field # "page" /\ field # "reset"
    BY DEF StaffFilters!Fields
  <2>2. filterUrl' = StaffFilters!Changed(filterUrl, field, value) /\ filterDid' = field /\ filterView' = filterView
    BY <1>1 DEF StaffFilters!Choose, StaffFilters!SetUrl
  <2>3. DOMAIN filterUrl' = UrlKeys /\ filterUrl'.page = 1
    BY <1>0, <2>1, <2>2, StaffChangedIsUrl
  <2> QED
    BY <1>0, <2>1, <2>2, <2>3 DEF UrlOK
<1>2. ASSUME NEW limit \in StaffFilters!Limits, StaffFilters!ChooseLimit(limit)
      PROVE  Goal
  <2> DEFINE u == StaffFilters!Changed(filterUrl, "limit", limit)
  <2>1. DOMAIN u = UrlKeys /\ u.page = 1
    BY <1>0, StaffChangedIsUrl
  <2>2. /\ filterUrl' = [u EXCEPT !.limit = limit]
        /\ filterDid' = "limit" /\ filterView' = filterView
    BY <1>2 DEF StaffFilters!ChooseLimit, StaffFilters!SetUrl
  <2> HIDE DEF u
  <2>3. DOMAIN filterUrl' = UrlKeys /\ filterUrl'.page = 1
    BY <2>1, <2>2 DEF UrlKeys
  <2> QED
    BY <1>0, <2>2, <2>3 DEF UrlOK
<1>3. ASSUME NEW word, StaffFilters!TypeSearch(word)
      PROVE  Goal
  BY <1>0, <1>3 DEF StaffFilters!TypeSearch
<1>4. ASSUME StaffFilters!ApplySearch
      PROVE  Goal
  <2>1. /\ filterUrl' = StaffFilters!Changed(filterUrl, "search", filterTyped)
        /\ filterDid' = "search" /\ filterView' = filterView
    BY <1>4 DEF StaffFilters!ApplySearch, StaffFilters!SetUrl
  <2>2. DOMAIN filterUrl' = UrlKeys /\ filterUrl'.page = 1
    BY <1>0, <2>1, StaffChangedIsUrl
  <2> QED
    BY <1>0, <2>1, <2>2 DEF UrlOK
<1>5. ASSUME StaffFilters!ClearDates
      PROVE  Goal
  <2>1. filterUrl' = StaffFilters!Changed(filterUrl, "to", "")
    BY <1>5 DEF StaffFilters!ClearDates, StaffFilters!SetUrl
  <2>2. DOMAIN filterUrl' = UrlKeys /\ filterUrl'.page = 1
    BY <1>0, <2>1, StaffChangedIsUrl
  <2>3. filterDid' # "reset" /\ filterView' = filterView
    BY <1>5, Zenon DEF StaffFilters!ClearDates
  <2> QED
    BY <1>0, <2>2, <2>3 DEF UrlOK
<1>6. ASSUME StaffFilters!ApplyDates
      PROVE  Goal
  <2>1. filterUrl' = StaffFilters!Changed(filterUrl, "to", filterUrl.to)
    BY <1>6 DEF StaffFilters!ApplyDates, StaffFilters!SetUrl
  <2>2. DOMAIN filterUrl' = UrlKeys /\ filterUrl'.page = 1
    BY <1>0, <2>1, StaffChangedIsUrl
  <2>3. filterDid' # "reset" /\ filterView' = filterView
    BY <1>6, Zenon DEF StaffFilters!ApplyDates
  <2> QED
    BY <1>0, <2>2, <2>3 DEF UrlOK
<1>7. ASSUME StaffFilters!Reset
      PROVE  Goal
  <2>1. DOMAIN StaffFilters!NoParameters = UrlKeys /\ StaffFilters!NoParameters.page = 0
    BY DEF StaffFilters!NoParameters, StaffFilters!Fields, UrlKeys
  <2>2. DOMAIN filterUrl' = UrlKeys /\ filterUrl'.page = 0 /\ filterView' = filterView
    BY <1>7, <2>1 DEF StaffFilters!Reset, StaffFilters!SetUrl, UrlKeys
  <2> QED
    BY <1>0, <1>7, <2>2 DEF UrlOK
<1>8. ASSUME NEW status, NEW payment, StaffFilters!Card(status, payment)
      PROVE  Goal
  <2> DEFINE u == StaffFilters!Changed(filterUrl, "orderStatus", status)
  <2>1. DOMAIN u = UrlKeys /\ u.page = 1
    BY <1>0, StaffChangedIsUrl
  <2>2. /\ filterUrl' = [u EXCEPT !.paymentStatus = payment]
        /\ filterDid' # "reset" /\ filterView' = filterView
    BY <1>8 DEF StaffFilters!Card, StaffFilters!SetUrl
  <2> HIDE DEF u
  <2>3. DOMAIN filterUrl' = UrlKeys /\ filterUrl'.page = 1
    BY <2>1, <2>2 DEF UrlKeys
  <2> QED
    BY <1>0, <2>2, <2>3 DEF UrlOK
<1>9. ASSUME NEW page \in 1 .. MaxPage, StaffFilters!TurnPage(page)
      PROVE  Goal
  <2>0. MaxPage \in Nat
    BY StaffFiltersAssumption DEF StaffFilters!FilterAssumption
  <2>1. page \in Nat
    BY <1>9, <2>0
  <2>2. /\ filterUrl' = [filterUrl EXCEPT !.page = page]
        /\ filterDid' = "page" /\ filterView' = filterView
    BY <1>9 DEF StaffFilters!TurnPage, StaffFilters!SetUrl
  <2>3. DOMAIN filterUrl' = UrlKeys /\ filterUrl'.page = page
    BY <1>0, <2>2 DEF UrlOK, UrlKeys
  <2>4. \A f \in StaffFilters!Fields : filterUrl'[f] = filterUrl[f]
    BY <1>0, <2>2 DEF UrlOK, UrlKeys, StaffFilters!Fields
  <2> QED
    BY <1>0, <2>1, <2>2, <2>3, <2>4 DEF UrlOK
<1>10. ASSUME NEW next \in {"standard", "design"}, StaffFilters!SwitchView(next)
       PROVE  Goal
  <2>1. /\ filterUrl' = [filterUrl EXCEPT !.page = 1,
                          !.orderType = IF next = "design" THEN "design"
                                        ELSE IF @ = "design" THEN "" ELSE @,
                          !.designSubtype = IF next = "design" THEN @ ELSE ""]
        /\ filterDid' = "view" /\ filterView' = next
    BY <1>10 DEF StaffFilters!SwitchView, StaffFilters!SetUrl
  <2>2. DOMAIN filterUrl' = UrlKeys /\ filterUrl'.page = 1
    BY <1>0, <2>1 DEF UrlOK, UrlKeys
  <2> QED
    BY <1>0, <2>1, <2>2 DEF UrlOK
<1>11. CASE UNCHANGED StaffFilters!vars
  BY <1>0, <1>11 DEF StaffFilters!vars
<1> HIDE DEF Goal
<1>12. ASSUME StaffFilters!Next
       PROVE  Goal
  <2>1. \/ \E field \in StaffFilters!Fields : \E value : StaffFilters!Choose(field, value)
        \/ \E limit \in StaffFilters!Limits : StaffFilters!ChooseLimit(limit)
        \/ \E word : StaffFilters!TypeSearch(word)
        \/ StaffFilters!ApplySearch \/ StaffFilters!ClearDates \/ StaffFilters!ApplyDates \/ StaffFilters!Reset
        \/ \E status : \E payment : StaffFilters!Card(status, payment)
        \/ \E page \in 1 .. MaxPage : StaffFilters!TurnPage(page)
        \/ \E next \in {"standard", "design"} : StaffFilters!SwitchView(next)
    BY <1>12, ZenonT(60) DEF StaffFilters!Next
  <2>2. CASE \E field \in StaffFilters!Fields : \E value : StaffFilters!Choose(field, value)
    BY <1>1, <2>2
  <2>3. CASE \E limit \in StaffFilters!Limits : StaffFilters!ChooseLimit(limit)
    BY <1>2, <2>3
  <2>4. CASE \E word : StaffFilters!TypeSearch(word)
    BY <1>3, <2>4
  <2>5. CASE StaffFilters!ApplySearch \/ StaffFilters!ClearDates \/ StaffFilters!ApplyDates \/ StaffFilters!Reset
    BY <1>4, <1>5, <1>6, <1>7, <2>5
  <2>6. CASE \E status : \E payment : StaffFilters!Card(status, payment)
    BY <1>8, <2>6
  <2>7. CASE \E page \in 1 .. MaxPage : StaffFilters!TurnPage(page)
    BY <1>9, <2>7
  <2>8. CASE \E next \in {"standard", "design"} : StaffFilters!SwitchView(next)
    BY <1>10, <2>8
  <2> QED
    BY <2>1, <2>2, <2>3, <2>4, <2>5, <2>6, <2>7, <2>8
<1> QED
  BY <1>11, <1>12 DEF Goal

(* A reset leaves nothing of the filters.                                  *)
LEMMA StaffResetClears ==
  ASSUME StaffUrlInv, StaffFilters!Reset
  PROVE  ~StaffFilters!HasActiveFilters(filterUrl', filterView')
<1> DEFINE u == filterUrl'
           v == filterView'
           q == StaffFilters!Query(u, v)
<1>1. v = filterView /\ v \in {"standard", "design"}
  BY DEF StaffFilters!Reset, StaffUrlInv
<1>2. /\ DOMAIN StaffFilters!NoParameters = UrlKeys
      /\ \A f \in StaffFilters!Fields : StaffFilters!NoParameters[f] = ""
      /\ StaffFilters!NoParameters.page = 0
  BY DEF StaffFilters!NoParameters, StaffFilters!Fields, UrlKeys
<1>3. u = [StaffFilters!NoParameters EXCEPT !.limit = StaffFilters!DefaultLimit,
             !.orderType = IF filterView = "design" THEN "design" ELSE ""]
  BY DEF StaffFilters!Reset, StaffFilters!SetUrl
<1>4. /\ u.orderStatus = "" /\ u.paymentStatus = "" /\ u.designSubtype = "" /\ u.search = ""
      /\ u.from = "" /\ u.to = "" /\ u.limit = 50
      /\ u.orderType = IF filterView = "design" THEN "design" ELSE ""
  BY <1>2, <1>3 DEF StaffFilters!DefaultLimit, StaffFilters!Fields, UrlKeys
<1> HIDE DEF u, v
<1>5. /\ q.limit = 50 /\ q.orderStatus = "" /\ q.paymentStatus = "" /\ q.designSubtype = ""
      /\ q.search = "" /\ q.from = "" /\ q.to = ""
      /\ v # "design" => q.orderType = ""
  BY <1>1, <1>4 DEF StaffFilters!Query, StaffFilters!Coerce, StaffFilters!DefaultLimit, StaffFilters!Statuses,
                    StaffFilters!TypeFilters
<1> HIDE DEF q
<1>6. ~\E f \in StaffFilters!Fields : q[f] # "" /\ ~(v = "design" /\ f = "orderType")
  BY <1>5 DEF StaffFilters!Fields
<1>7. ~(q.limit # StaffFilters!DefaultLimit)
  BY <1>5 DEF StaffFilters!DefaultLimit
<1> QED
  BY <1>6, <1>7 DEF StaffFilters!HasActiveFilters, q, u, v

(* The URL holds parameters after every step, and none after a reset. *)
LEMMA StaffUrlHolds ==
  /\ StaffFilters!Init => StaffUrlInv
  /\ StaffUrlInv /\ StaffFilters!Next => StaffUrlInv'
  /\ StaffUrlInv /\ UNCHANGED StaffFilters!vars => StaffUrlInv'
<1>1. ASSUME StaffUrlInv, StaffFilters!Next \/ UNCHANGED StaffFilters!vars
      PROVE  StaffUrlInv'
  <2>1. UrlOK(filterUrl') /\ filterView' \in {"standard", "design"}
    BY <1>1, StaffSteps
  <2>2. StaffFilters!ResetClearsAll'
    <3>1. CASE StaffFilters!Reset
      BY <1>1, <3>1, StaffResetClears DEF StaffFilters!ResetClearsAll
    <3>2. CASE filterDid' # "reset"
      BY <3>2 DEF StaffFilters!ResetClearsAll
    <3>3. CASE UNCHANGED StaffFilters!vars
      BY <1>1, <3>3 DEF StaffUrlInv, StaffFilters!ResetClearsAll, StaffFilters!vars
    <3> QED
      BY <1>1, <3>1, <3>2, <3>3, StaffSteps
  <2> QED
    BY <2>1, <2>2 DEF StaffUrlInv
<1> QED
  BY <1>1, StaffUrlBegins

(* What is asked of the server fits the view.                              *)
LEMMA StaffUrlGives ==
  ASSUME StaffUrlInv
  PROVE  StaffFilters!QueryFitsView
<1> DEFINE q == StaffFilters!Query(filterUrl, filterView)
<1>0. UrlOK(filterUrl) /\ filterView \in {"standard", "design"}
  BY DEF StaffUrlInv
<1>1. q.orderStatus \in StaffFilters!Statuses \cup {""}
  BY DEF StaffFilters!Query, StaffFilters!Coerce
<1>2. q.page >= 1
  BY <1>0 DEF StaffFilters!Query, UrlOK
<1>3. q.orderType = "design" <=> filterView = "design"
  BY <1>0 DEF StaffFilters!Query
<1>4. q.designSubtype # "" => filterView = "design"
  BY DEF StaffFilters!Query
<1> QED
  BY <1>1, <1>2, <1>3, <1>4 DEF StaffFilters!QueryFitsView

(* Other filters begin at their first page.                                *)
LEMMA StaffFirstPage ==
  ASSUME StaffUrlInv, StaffFilters!Next \/ UNCHANGED StaffFilters!vars
  PROVE  StaffFilters!OtherFiltersFirstPage
<1> DEFINE q == StaffFilters!Query(filterUrl, filterView)
           r == StaffFilters!Query(filterUrl', filterView')
<1>1. \/ filterUrl'.page \in {0, 1}
      \/ /\ filterView' = filterView
         /\ \A f \in StaffFilters!Fields : filterUrl'[f] = filterUrl[f]
  BY StaffSteps
<1>2. CASE filterUrl'.page \in {0, 1}
  <2>1. r.page = 1
    BY <1>2 DEF StaffFilters!Query
  <2> QED
    BY <2>1 DEF StaffFilters!OtherFiltersFirstPage
<1>3. CASE filterView' = filterView /\ \A f \in StaffFilters!Fields : filterUrl'[f] = filterUrl[f]
  <2>1. /\ filterUrl'.orderType = filterUrl.orderType /\ filterUrl'.orderStatus = filterUrl.orderStatus
        /\ filterUrl'.paymentStatus = filterUrl.paymentStatus
        /\ filterUrl'.designSubtype = filterUrl.designSubtype /\ filterUrl'.search = filterUrl.search
        /\ filterUrl'.from = filterUrl.from /\ filterUrl'.to = filterUrl.to
    BY <1>3 DEF StaffFilters!Fields
  <2>2. /\ r.orderType = q.orderType /\ r.orderStatus = q.orderStatus
        /\ r.paymentStatus = q.paymentStatus /\ r.designSubtype = q.designSubtype
        /\ r.search = q.search /\ r.from = q.from /\ r.to = q.to
    BY <1>3, <2>1 DEF StaffFilters!Query
  <2> HIDE DEF q, r
  <2>3. \A f \in StaffFilters!Fields : r[f] = q[f]
    BY <2>2 DEF StaffFilters!Fields
  <2>4. StaffFilters!Filtered(r) = StaffFilters!Filtered(q)
    BY <2>3 DEF StaffFilters!Filtered
  <2> QED
    BY <2>4 DEF StaffFilters!OtherFiltersFirstPage, q, r
<1> QED
  BY <1>1, <1>2, <1>3

OwnUrlInv ==
  /\ UrlOK(filterUrl) /\ filterView \in {"standard", "design"}

(* A URL is a list of parameters, whatever they say.                       *)
LEMMA OwnUrlBegins ==
  ASSUME OwnFilters!Init
  PROVE  OwnUrlInv
<1>1. filterUrl \in OwnFilters!Url /\ filterView \in {"standard", "design"} /\ filterDid = "opened"
  BY DEF OwnFilters!Init
<1>2. MaxPage \in Nat
  BY OwnFiltersAssumption DEF OwnFilters!FilterAssumption
<1>3. filterUrl.page \in 0 .. MaxPage /\ DOMAIN filterUrl = UrlKeys
  BY <1>1 DEF UrlKeys, OwnFilters!Url
<1>4. UrlOK(filterUrl)
  BY <1>2, <1>3 DEF UrlOK
<1> QED
  BY <1>1, <1>4 DEF OwnUrlInv

(* Every change of a filter goes back to the first page.                   *)
LEMMA OwnChangedIsUrl ==
  ASSUME UrlOK(filterUrl), NEW field, field # "page", NEW value
  PROVE  /\ DOMAIN OwnFilters!Changed(filterUrl, field, value) = UrlKeys
         /\ OwnFilters!Changed(filterUrl, field, value).page = 1
BY DEF UrlOK, UrlKeys, OwnFilters!Changed

(* What a step leaves in the URL: parameters, with the first page, or with *)
(* the same filters as before.                                             *)
LEMMA OwnSteps ==
  ASSUME OwnUrlInv, OwnFilters!Next \/ UNCHANGED OwnFilters!vars
  PROVE  /\ UrlOK(filterUrl') /\ filterView' \in {"standard", "design"}
         /\ \/ filterUrl'.page \in {0, 1}
            \/ /\ filterView' = filterView
               /\ \A f \in OwnFilters!Fields : filterUrl'[f] = filterUrl[f]
         /\ \/ OwnFilters!Reset \/ filterDid' # "reset"
            \/ UNCHANGED OwnFilters!vars
<1> DEFINE Goal ==
      /\ UrlOK(filterUrl') /\ filterView' \in {"standard", "design"}
      /\ \/ filterUrl'.page \in {0, 1}
         \/ /\ filterView' = filterView
            /\ \A f \in OwnFilters!Fields : filterUrl'[f] = filterUrl[f]
      /\ \/ OwnFilters!Reset \/ filterDid' # "reset"
         \/ UNCHANGED OwnFilters!vars
<1>0. UrlOK(filterUrl) /\ filterView \in {"standard", "design"}
  BY DEF OwnUrlInv
<1>1. ASSUME NEW field \in OwnFilters!Fields, NEW value, OwnFilters!Choose(field, value)
      PROVE  Goal
  <2>1. field # "page" /\ field # "reset"
    BY DEF OwnFilters!Fields
  <2>2. filterUrl' = OwnFilters!Changed(filterUrl, field, value) /\ filterDid' = field /\ filterView' = filterView
    BY <1>1 DEF OwnFilters!Choose, OwnFilters!SetUrl
  <2>3. DOMAIN filterUrl' = UrlKeys /\ filterUrl'.page = 1
    BY <1>0, <2>1, <2>2, OwnChangedIsUrl
  <2> QED
    BY <1>0, <2>1, <2>2, <2>3 DEF UrlOK
<1>2. ASSUME NEW limit \in OwnFilters!Limits, OwnFilters!ChooseLimit(limit)
      PROVE  Goal
  <2> DEFINE u == OwnFilters!Changed(filterUrl, "limit", limit)
  <2>1. DOMAIN u = UrlKeys /\ u.page = 1
    BY <1>0, OwnChangedIsUrl
  <2>2. /\ filterUrl' = [u EXCEPT !.limit = limit]
        /\ filterDid' = "limit" /\ filterView' = filterView
    BY <1>2 DEF OwnFilters!ChooseLimit, OwnFilters!SetUrl
  <2> HIDE DEF u
  <2>3. DOMAIN filterUrl' = UrlKeys /\ filterUrl'.page = 1
    BY <2>1, <2>2 DEF UrlKeys
  <2> QED
    BY <1>0, <2>2, <2>3 DEF UrlOK
<1>3. ASSUME NEW word, OwnFilters!TypeSearch(word)
      PROVE  Goal
  BY <1>0, <1>3 DEF OwnFilters!TypeSearch
<1>4. ASSUME OwnFilters!ApplySearch
      PROVE  Goal
  <2>1. /\ filterUrl' = OwnFilters!Changed(filterUrl, "search", filterTyped)
        /\ filterDid' = "search" /\ filterView' = filterView
    BY <1>4 DEF OwnFilters!ApplySearch, OwnFilters!SetUrl
  <2>2. DOMAIN filterUrl' = UrlKeys /\ filterUrl'.page = 1
    BY <1>0, <2>1, OwnChangedIsUrl
  <2> QED
    BY <1>0, <2>1, <2>2 DEF UrlOK
<1>5. ASSUME OwnFilters!ClearDates
      PROVE  Goal
  <2>1. filterUrl' = OwnFilters!Changed(filterUrl, "to", "")
    BY <1>5 DEF OwnFilters!ClearDates, OwnFilters!SetUrl
  <2>2. DOMAIN filterUrl' = UrlKeys /\ filterUrl'.page = 1
    BY <1>0, <2>1, OwnChangedIsUrl
  <2>3. filterDid' # "reset" /\ filterView' = filterView
    BY <1>5, Zenon DEF OwnFilters!ClearDates
  <2> QED
    BY <1>0, <2>2, <2>3 DEF UrlOK
<1>6. ASSUME OwnFilters!ApplyDates
      PROVE  Goal
  <2>1. filterUrl' = OwnFilters!Changed(filterUrl, "to", filterUrl.to)
    BY <1>6 DEF OwnFilters!ApplyDates, OwnFilters!SetUrl
  <2>2. DOMAIN filterUrl' = UrlKeys /\ filterUrl'.page = 1
    BY <1>0, <2>1, OwnChangedIsUrl
  <2>3. filterDid' # "reset" /\ filterView' = filterView
    BY <1>6, Zenon DEF OwnFilters!ApplyDates
  <2> QED
    BY <1>0, <2>2, <2>3 DEF UrlOK
<1>7. ASSUME OwnFilters!Reset
      PROVE  Goal
  <2>1. DOMAIN OwnFilters!NoParameters = UrlKeys /\ OwnFilters!NoParameters.page = 0
    BY DEF OwnFilters!NoParameters, OwnFilters!Fields, UrlKeys
  <2>2. DOMAIN filterUrl' = UrlKeys /\ filterUrl'.page = 0 /\ filterView' = filterView
    BY <1>7, <2>1 DEF OwnFilters!Reset, OwnFilters!SetUrl, UrlKeys
  <2> QED
    BY <1>0, <1>7, <2>2 DEF UrlOK
<1>8. ASSUME NEW status, NEW payment, OwnFilters!Card(status, payment)
      PROVE  Goal
  <2> DEFINE u == OwnFilters!Changed(filterUrl, "orderStatus", status)
  <2>1. DOMAIN u = UrlKeys /\ u.page = 1
    BY <1>0, OwnChangedIsUrl
  <2>2. /\ filterUrl' = [u EXCEPT !.paymentStatus = payment]
        /\ filterDid' # "reset" /\ filterView' = filterView
    BY <1>8 DEF OwnFilters!Card, OwnFilters!SetUrl
  <2> HIDE DEF u
  <2>3. DOMAIN filterUrl' = UrlKeys /\ filterUrl'.page = 1
    BY <2>1, <2>2 DEF UrlKeys
  <2> QED
    BY <1>0, <2>2, <2>3 DEF UrlOK
<1>9. ASSUME NEW page \in 1 .. MaxPage, OwnFilters!TurnPage(page)
      PROVE  Goal
  <2>0. MaxPage \in Nat
    BY OwnFiltersAssumption DEF OwnFilters!FilterAssumption
  <2>1. page \in Nat
    BY <1>9, <2>0
  <2>2. /\ filterUrl' = [filterUrl EXCEPT !.page = page]
        /\ filterDid' = "page" /\ filterView' = filterView
    BY <1>9 DEF OwnFilters!TurnPage, OwnFilters!SetUrl
  <2>3. DOMAIN filterUrl' = UrlKeys /\ filterUrl'.page = page
    BY <1>0, <2>2 DEF UrlOK, UrlKeys
  <2>4. \A f \in OwnFilters!Fields : filterUrl'[f] = filterUrl[f]
    BY <1>0, <2>2 DEF UrlOK, UrlKeys, OwnFilters!Fields
  <2> QED
    BY <1>0, <2>1, <2>2, <2>3, <2>4 DEF UrlOK
<1>10. ASSUME NEW next \in {"standard", "design"}, OwnFilters!SwitchView(next)
       PROVE  Goal
  <2>1. filterUrl' = OwnFilters!NoParameters /\ filterDid' = "view" /\ filterView' = next
    BY <1>10 DEF OwnFilters!SwitchView
  <2>2. DOMAIN filterUrl' = UrlKeys /\ filterUrl'.page = 0
    BY <2>1 DEF OwnFilters!NoParameters, OwnFilters!Fields, UrlKeys
  <2> QED
    BY <1>0, <2>1, <2>2 DEF UrlOK
<1>11. CASE UNCHANGED OwnFilters!vars
  BY <1>0, <1>11 DEF OwnFilters!vars
<1> HIDE DEF Goal
<1>12. ASSUME OwnFilters!Next
       PROVE  Goal
  <2>1. \/ \E field \in OwnFilters!Fields : \E value : OwnFilters!Choose(field, value)
        \/ \E limit \in OwnFilters!Limits : OwnFilters!ChooseLimit(limit)
        \/ \E word : OwnFilters!TypeSearch(word)
        \/ OwnFilters!ApplySearch \/ OwnFilters!ClearDates \/ OwnFilters!ApplyDates \/ OwnFilters!Reset
        \/ \E status : \E payment : OwnFilters!Card(status, payment)
        \/ \E page \in 1 .. MaxPage : OwnFilters!TurnPage(page)
        \/ \E next \in {"standard", "design"} : OwnFilters!SwitchView(next)
    BY <1>12, ZenonT(60) DEF OwnFilters!Next
  <2>2. CASE \E field \in OwnFilters!Fields : \E value : OwnFilters!Choose(field, value)
    BY <1>1, <2>2
  <2>3. CASE \E limit \in OwnFilters!Limits : OwnFilters!ChooseLimit(limit)
    BY <1>2, <2>3
  <2>4. CASE \E word : OwnFilters!TypeSearch(word)
    BY <1>3, <2>4
  <2>5. CASE OwnFilters!ApplySearch \/ OwnFilters!ClearDates \/ OwnFilters!ApplyDates \/ OwnFilters!Reset
    BY <1>4, <1>5, <1>6, <1>7, <2>5
  <2>6. CASE \E status : \E payment : OwnFilters!Card(status, payment)
    BY <1>8, <2>6
  <2>7. CASE \E page \in 1 .. MaxPage : OwnFilters!TurnPage(page)
    BY <1>9, <2>7
  <2>8. CASE \E next \in {"standard", "design"} : OwnFilters!SwitchView(next)
    BY <1>10, <2>8
  <2> QED
    BY <2>1, <2>2, <2>3, <2>4, <2>5, <2>6, <2>7, <2>8
<1> QED
  BY <1>11, <1>12 DEF Goal

(* The URL holds parameters after every step.                              *)
LEMMA OwnUrlHolds ==
  /\ OwnFilters!Init => OwnUrlInv
  /\ OwnUrlInv /\ OwnFilters!Next => OwnUrlInv'
  /\ OwnUrlInv /\ UNCHANGED OwnFilters!vars => OwnUrlInv'
<1>1. ASSUME OwnUrlInv, OwnFilters!Next \/ UNCHANGED OwnFilters!vars
      PROVE  OwnUrlInv'
  BY <1>1, OwnSteps DEF OwnUrlInv
<1> QED
  BY <1>1, OwnUrlBegins

(* What is asked of the server fits the view.                              *)
LEMMA OwnUrlGives ==
  ASSUME OwnUrlInv
  PROVE  OwnFilters!QueryFitsView
<1> DEFINE q == OwnFilters!Query(filterUrl, filterView)
<1>0. UrlOK(filterUrl) /\ filterView \in {"standard", "design"}
  BY DEF OwnUrlInv
<1>1. q.orderStatus \in OwnFilters!Statuses \cup {""}
  BY DEF OwnFilters!Query, OwnFilters!Coerce
<1>2. q.page >= 1
  BY <1>0 DEF OwnFilters!Query, UrlOK
<1>3. q.orderType = "design" <=> filterView = "design"
  BY <1>0 DEF OwnFilters!Query
<1>4. q.designSubtype # "" => filterView = "design"
  BY DEF OwnFilters!Query
<1> QED
  BY <1>1, <1>2, <1>3, <1>4 DEF OwnFilters!QueryFitsView

(* Other filters begin at their first page.                                *)
LEMMA OwnFirstPage ==
  ASSUME OwnUrlInv, OwnFilters!Next \/ UNCHANGED OwnFilters!vars
  PROVE  OwnFilters!OtherFiltersFirstPage
<1> DEFINE q == OwnFilters!Query(filterUrl, filterView)
           r == OwnFilters!Query(filterUrl', filterView')
<1>1. \/ filterUrl'.page \in {0, 1}
      \/ /\ filterView' = filterView
         /\ \A f \in OwnFilters!Fields : filterUrl'[f] = filterUrl[f]
  BY OwnSteps
<1>2. CASE filterUrl'.page \in {0, 1}
  <2>1. r.page = 1
    BY <1>2 DEF OwnFilters!Query
  <2> QED
    BY <2>1 DEF OwnFilters!OtherFiltersFirstPage
<1>3. CASE filterView' = filterView /\ \A f \in OwnFilters!Fields : filterUrl'[f] = filterUrl[f]
  <2>1. /\ filterUrl'.orderType = filterUrl.orderType /\ filterUrl'.orderStatus = filterUrl.orderStatus
        /\ filterUrl'.paymentStatus = filterUrl.paymentStatus
        /\ filterUrl'.designSubtype = filterUrl.designSubtype /\ filterUrl'.search = filterUrl.search
        /\ filterUrl'.from = filterUrl.from /\ filterUrl'.to = filterUrl.to
    BY <1>3 DEF OwnFilters!Fields
  <2>2. /\ r.orderType = q.orderType /\ r.orderStatus = q.orderStatus
        /\ r.paymentStatus = q.paymentStatus /\ r.designSubtype = q.designSubtype
        /\ r.search = q.search /\ r.from = q.from /\ r.to = q.to
    BY <1>3, <2>1 DEF OwnFilters!Query
  <2> HIDE DEF q, r
  <2>3. \A f \in OwnFilters!Fields : r[f] = q[f]
    BY <2>2 DEF OwnFilters!Fields
  <2>4. OwnFilters!Filtered(r) = OwnFilters!Filtered(q)
    BY <2>3 DEF OwnFilters!Filtered
  <2> QED
    BY <2>4 DEF OwnFilters!OtherFiltersFirstPage, q, r
<1> QED
  BY <1>1, <1>2, <1>3

-----------------------------------------------------------------------------
DeskRowed == UNION {[D -> Desk!Rows \ {"gone"}] : D \in SUBSET Numbers}
DeskCached == {Desk!None} \cup [kind : {"rows"}, rows : DeskRowed]
DeskDeletion == {Desk!None} \cup [kind : {"asked", "sent", "refused"}, order : Numbers]

\* What the page and the server hold.
DeskTyped ==
  /\ deskRow \in [Numbers -> Desk!Rows] /\ deskBalance \in 0 .. Credits
  /\ deskPage \in 1 .. MaxPage /\ deskStale \in SUBSET (1 .. MaxPage)
  /\ deskCache \in [1 .. MaxPage -> DeskCached]
  /\ deskSelected \in SUBSET Numbers
  /\ deskDialog = Desk!None \/ deskDialog.items \in SUBSET Numbers
  /\ deskDeleting \in DeskDeletion
  /\ deskStarts \in Seq(Desk!Start)

\* With nothing on its way, the page is fetched again or as the server has it.
DeskQuiet ==
  (Desk!UnderWay = {} /\ deskDeleting.kind \notin {"sent", "refused"} /\ deskPage \notin deskStale) =>
    deskCache[deskPage].rows = Desk!Read(deskPage)

DeskInv == DeskTyped /\ DeskQuiet

(* The rows of a fetched page.                                             *)
LEMMA DeskRowedRows ==
  ASSUME NEW f
  PROVE  f \in DeskRowed <=>
           /\ DOMAIN f \in SUBSET Numbers
           /\ f \in [DOMAIN f -> Desk!Rows \ {"gone"}]
<1>1. ASSUME f \in DeskRowed
      PROVE  DOMAIN f \in SUBSET Numbers /\ f \in [DOMAIN f -> Desk!Rows \ {"gone"}]
  <2>1. PICK D \in SUBSET Numbers : f \in [D -> Desk!Rows \ {"gone"}]
    BY <1>1 DEF DeskRowed
  <2>2. DOMAIN f = D
    BY <2>1
  <2> QED
    BY <2>1, <2>2
<1>2. ASSUME DOMAIN f \in SUBSET Numbers, f \in [DOMAIN f -> Desk!Rows \ {"gone"}]
      PROVE  f \in DeskRowed
  BY <1>2 DEF DeskRowed
<1> QED
  BY <1>1, <1>2

(* What is in the cache.                                                   *)
LEMMA DeskCachedRows ==
  /\ Desk!None \in DeskCached
  /\ \A c \in DeskCached : c # Desk!None => /\ c = [kind |-> "rows", rows |-> c.rows]
                                       /\ c.rows \in DeskRowed
  /\ \A f \in DeskRowed : [kind |-> "rows", rows |-> f] \in DeskCached
<1>1. \A c \in [kind : {"rows"}, rows : DeskRowed] :
        c = [kind |-> "rows", rows |-> c.rows] /\ c.rows \in DeskRowed
  OBVIOUS
<1> QED
  BY <1>1 DEF DeskCached

(* The calls of the bulk start are numbered.                               *)
LEMMA DeskStarts ==
  ASSUME deskStarts \in Seq(Desk!Start)
  PROVE  /\ \A i \in DOMAIN deskStarts : deskStarts[i] \in Desk!Start
         /\ \A i \in DOMAIN deskStarts, s \in Desk!Start :
              /\ [deskStarts EXCEPT ![i] = s] \in Seq(Desk!Start)
              /\ DOMAIN [deskStarts EXCEPT ![i] = s] = DOMAIN deskStarts
              /\ [deskStarts EXCEPT ![i] = s][i] = s
              /\ \A j \in DOMAIN deskStarts : j # i => [deskStarts EXCEPT ![i] = s][j] = deskStarts[j]
         /\ \A s \in Desk!Start :
              /\ Append(deskStarts, s) \in Seq(Desk!Start)
              /\ DOMAIN Append(deskStarts, s) = DOMAIN deskStarts \cup {Len(deskStarts) + 1}
              /\ Append(deskStarts, s)[Len(deskStarts) + 1] = s
              /\ \A i \in DOMAIN deskStarts : Append(deskStarts, s)[i] = deskStarts[i]
<1>1. Len(deskStarts) \in Nat /\ DOMAIN deskStarts = 1 .. Len(deskStarts)
  BY LenProperties
<1>2. \A i \in 1 .. Len(deskStarts) : deskStarts[i] \in Desk!Start
  BY ElementOfSeq
<1>3. ASSUME NEW i \in DOMAIN deskStarts, NEW s \in Desk!Start
      PROVE  /\ [deskStarts EXCEPT ![i] = s] \in Seq(Desk!Start)
             /\ DOMAIN [deskStarts EXCEPT ![i] = s] = DOMAIN deskStarts
             /\ [deskStarts EXCEPT ![i] = s][i] = s
             /\ \A j \in DOMAIN deskStarts : j # i => [deskStarts EXCEPT ![i] = s][j] = deskStarts[j]
  <2>1. i \in 1 .. Len(deskStarts) /\ s \in Desk!Start
    BY <1>1, <1>3
  <2>2. [deskStarts EXCEPT ![i] = s] \in Seq(Desk!Start)
    BY <2>1, ExceptSeq
  <2> QED
    BY <1>3, <2>2
<1>4. ASSUME NEW s \in Desk!Start
      PROVE  /\ Append(deskStarts, s) \in Seq(Desk!Start)
             /\ DOMAIN Append(deskStarts, s) = DOMAIN deskStarts \cup {Len(deskStarts) + 1}
             /\ Append(deskStarts, s)[Len(deskStarts) + 1] = s
             /\ \A i \in DOMAIN deskStarts : Append(deskStarts, s)[i] = deskStarts[i]
  <2>1. /\ Append(deskStarts, s) \in Seq(Desk!Start)
        /\ Len(Append(deskStarts, s)) = Len(deskStarts) + 1
        /\ \A i \in 1 .. Len(deskStarts) : Append(deskStarts, s)[i] = deskStarts[i]
        /\ Append(deskStarts, s)[Len(deskStarts) + 1] = s
    BY AppendProperties
  <2>2. DOMAIN Append(deskStarts, s) = 1 .. (Len(deskStarts) + 1)
    BY <2>1, LenProperties
  <2> QED
    BY <1>1, <2>1, <2>2
<1> QED
  BY <1>1, <1>2, <1>3, <1>4

(* The page begins before its list has been fetched.                       *)
LEMMA DeskBegins ==
  ASSUME Desk!Init
  PROVE  DeskInv
<1>1. /\ MaxPage \in Nat \ {0} /\ Credits \in Nat
      /\ deskRow \in [Numbers -> Desk!Pending] /\ deskBalance = Credits /\ deskPage = 1
      /\ deskCache = [p \in 1 .. MaxPage |-> Desk!None] /\ deskStale = {1} /\ deskSelected = {}
      /\ deskDialog = Desk!None /\ deskStarts = << >> /\ deskDeleting = Desk!None /\ deskSent = {}
  BY DeskAssumption DEF Desk!DeskAssumption, Desk!Init
<1>2. deskRow \in [Numbers -> Desk!Rows]
  BY <1>1 DEF Desk!Rows
<1>3. deskStarts \in Seq(Desk!Start) /\ DOMAIN deskStarts = {}
  BY <1>1
<1>4. deskCache \in [1 .. MaxPage -> DeskCached] /\ deskDeleting \in DeskDeletion
  BY <1>1 DEF DeskCached, DeskDeletion
<1>5. DeskTyped
  BY <1>1, <1>2, <1>3, <1>4 DEF DeskTyped
<1>6. DeskQuiet
  BY <1>1, <1>3 DEF DeskQuiet
<1> QED
  BY <1>5, <1>6 DEF DeskInv

(* What the staff do to the page: the calls of the start and the server    *)
(* are left alone.                                                         *)
LEMMA DeskPageMoves ==
  ASSUME DeskTyped,
         UNCHANGED <<deskRow, deskBalance, deskSent, deskStarts>>,
         deskPage' \in 1 .. MaxPage, deskStale' \in SUBSET (1 .. MaxPage),
         deskCache' \in [1 .. MaxPage -> DeskCached], deskSelected' \in SUBSET Numbers,
         deskDialog' = Desk!None \/ deskDialog'.items \in SUBSET Numbers,
         deskDeleting' \in DeskDeletion
  PROVE  DeskTyped'
BY DEF DeskTyped

(* What the staff see is of the list.                                      *)
LEMMA DeskViewOfList ==
  ASSUME DeskTyped
  PROVE  Desk!View \in SUBSET Numbers
<1>1. deskCache[deskPage] \in DeskCached
  BY DEF DeskTyped
<1>2. CASE deskCache[deskPage] = Desk!None
  BY <1>2 DEF Desk!View
<1>3. CASE deskCache[deskPage] # Desk!None
  BY <1>1, <1>3, DeskCachedRows, DeskRowedRows DEF Desk!View
<1> QED
  BY <1>2, <1>3

(* A page as the server reads it.                                          *)
LEMMA DeskReadRows ==
  ASSUME DeskTyped, NEW p \in 1 .. MaxPage
  PROVE  Desk!Read(p) \in DeskRowed
<1>1. \A o \in Desk!PageRows(p) : o \in Numbers /\ deskRow[o] # "gone"
  BY DEF Desk!PageRows, Desk!Matches
<1>2. \A o \in Desk!PageRows(p) : deskRow[o] \in Desk!Rows \ {"gone"}
  BY <1>1 DEF DeskTyped
<1> HIDE DEF Desk!PageRows
<1>3. Desk!Read(p) = [o \in Desk!PageRows(p) |-> deskRow[o]]
  BY DEF Desk!Read
<1>4. DOMAIN Desk!Read(p) = Desk!PageRows(p) /\ Desk!Read(p) \in [Desk!PageRows(p) -> Desk!Rows \ {"gone"}]
  BY <1>2, <1>3
<1>5. DOMAIN Desk!Read(p) \in SUBSET Numbers
  BY <1>1, <1>4
<1> QED
  BY <1>4, <1>5, DeskRowedRows

(* The staff look at the list, tick orders and ask to start or delete them.*)
LEMMA DeskLooksKeep ==
  ASSUME DeskInv,
         \/ \E p \in 1 .. MaxPage : Desk!Refresh(p) \/ Desk!TurnPage(p)
         \/ \E o \in Numbers : Desk!ToggleRow(o) \/ Desk!AskDelete(o)
         \/ Desk!ToggleAll \/ Desk!ClearSelection \/ Desk!BulkStart \/ Desk!CancelStart
         \/ Desk!CancelDelete \/ Desk!DeleteAnswered
  PROVE  DeskInv'
<1>0. DeskTyped /\ DeskQuiet /\ Desk!View \in SUBSET Numbers
  BY DeskViewOfList DEF DeskInv
<1>1. ASSUME NEW p \in 1 .. MaxPage, Desk!Refresh(p)
      PROVE  DeskInv'
  <2> DEFINE c == [kind |-> "rows", rows |-> Desk!Read(p)]
  <2>1. /\ deskCache' = [deskCache EXCEPT ![p] = c] /\ deskStale' = deskStale \ {p}
        /\ UNCHANGED <<deskRow, deskBalance, deskSent, deskPage, deskSelected, deskDialog, deskStarts, deskDeleting>>
    BY <1>1 DEF Desk!Refresh, Desk!server
  <2>2. c \in DeskCached /\ c.rows = Desk!Read(p)
    BY <1>0, <1>1, DeskReadRows, DeskCachedRows
  <2> HIDE DEF c
  <2>3. deskCache' \in [1 .. MaxPage -> DeskCached] /\ deskCache'[p] = c
        /\ \A q \in 1 .. MaxPage : q # p => deskCache'[q] = deskCache[q]
    BY <1>0, <1>1, <2>1, <2>2 DEF DeskTyped
  <2>4. DeskTyped'
    BY <1>0, <2>1, <2>3 DEF DeskTyped
  <2>5. DeskQuiet'
    <3>1. deskPage \in 1 .. MaxPage
      BY <1>0 DEF DeskTyped
    <3>2. Desk!UnderWay' = Desk!UnderWay /\ Desk!Read(deskPage)' = Desk!Read(deskPage)
      BY <2>1 DEF Desk!UnderWay, Desk!Read, Desk!PageRows, Desk!Matches
    <3>3. CASE deskPage = p
      BY <2>1, <2>2, <2>3, <3>1, <3>2, <3>3 DEF DeskQuiet
    <3>4. CASE deskPage # p
      BY <1>0, <2>1, <2>2, <2>3, <3>1, <3>2, <3>4 DEF DeskQuiet
    <3> QED
      BY <3>3, <3>4
  <2> QED
    BY <2>4, <2>5 DEF DeskInv
<1>2. ASSUME NEW p \in 1 .. MaxPage, Desk!TurnPage(p)
      PROVE  DeskInv'
  <2>1. /\ deskPage' = p /\ deskStale' = deskStale \cup {p}
        /\ UNCHANGED <<deskRow, deskBalance, deskSent, deskCache, deskSelected, deskDialog, deskStarts, deskDeleting>>
    BY <1>2 DEF Desk!TurnPage, Desk!server
  <2>2. DeskTyped'
    BY <1>0, <1>2, <2>1 DEF DeskTyped
  <2>3. DeskQuiet'
    BY <1>0, <2>1 DEF DeskQuiet
  <2> QED
    BY <2>2, <2>3 DEF DeskInv
<1>3. ASSUME \/ Desk!ToggleAll \/ Desk!ClearSelection \/ Desk!BulkStart \/ Desk!CancelStart
             \/ \E o \in Numbers : Desk!ToggleRow(o) \/ Desk!AskDelete(o)
             \/ Desk!CancelDelete
      PROVE  DeskInv'
  <2>1. UNCHANGED <<deskRow, deskBalance, deskSent, deskPage, deskCache, deskStale, deskStarts>>
    BY <1>3 DEF Desk!ToggleAll, Desk!ClearSelection, Desk!BulkStart, Desk!CancelStart, Desk!ToggleRow,
                Desk!AskDelete, Desk!CancelDelete, Desk!server
  <2>2. /\ deskSelected' \in SUBSET Numbers
        /\ deskDialog' = Desk!None \/ deskDialog'.items \in SUBSET Numbers
        /\ deskDeleting' \in DeskDeletion
        /\ deskDeleting'.kind \notin {"sent", "refused"} => deskDeleting.kind \notin {"sent", "refused"}
    <3>0. /\ deskSelected \in SUBSET Numbers
          /\ deskDialog = Desk!None \/ deskDialog.items \in SUBSET Numbers
          /\ deskDeleting \in DeskDeletion
      BY <1>0 DEF DeskTyped
    <3>1. CASE Desk!ToggleAll
      BY <1>0, <3>0, <3>1 DEF Desk!ToggleAll
    <3>2. CASE Desk!ClearSelection
      BY <1>0, <3>0, <3>2 DEF Desk!ClearSelection
    <3>3. CASE Desk!BulkStart
      <4>1. deskDialog'.items = Desk!InView /\ UNCHANGED <<deskSelected, deskDeleting>>
        BY <3>3 DEF Desk!BulkStart
      <4>2. Desk!InView \in SUBSET Numbers
        BY <1>0, <3>0 DEF Desk!InView
      <4> QED
        BY <3>0, <4>1, <4>2
    <3>4. CASE Desk!CancelStart
      BY <1>0, <3>0, <3>4 DEF Desk!CancelStart
    <3>5. ASSUME NEW o \in Numbers, Desk!ToggleRow(o)
          PROVE  /\ deskSelected' \in SUBSET Numbers /\ UNCHANGED <<deskDialog, deskDeleting>>
      BY <1>0, <3>0, <3>5 DEF Desk!ToggleRow
    <3>6. ASSUME NEW o \in Numbers, Desk!AskDelete(o)
          PROVE  /\ UNCHANGED <<deskDialog, deskSelected>> /\ deskDeleting' \in DeskDeletion
                 /\ deskDeleting.kind \notin {"sent", "refused"}
      <4>1. deskDeleting = Desk!None /\ deskDeleting' = [kind |-> "asked", order |-> o]
            /\ UNCHANGED <<deskDialog, deskSelected>>
        BY <3>6 DEF Desk!AskDelete, Desk!PageClickable
      <4> QED
        BY <3>6, <4>1 DEF DeskDeletion, Desk!None
    <3>7. CASE Desk!CancelDelete
      BY <1>0, <3>0, <3>7 DEF Desk!CancelDelete, DeskDeletion
    <3> QED
      BY <1>3, <3>0, <3>1, <3>2, <3>3, <3>4, <3>5, <3>6, <3>7
  <2>3. DeskTyped'
    BY <1>0, <2>1, <2>2 DEF DeskTyped
  <2>4. DeskQuiet'
    BY <1>0, <2>1, <2>2 DEF DeskQuiet, Desk!UnderWay, Desk!Read, Desk!PageRows, Desk!Matches
  <2> QED
    BY <2>3, <2>4 DEF DeskInv
<1>4. CASE Desk!DeleteAnswered
  <2>1. /\ deskStale' = deskStale \cup {deskPage}
        /\ deskDeleting' = IF deskDeleting.kind = "sent" THEN Desk!None ELSE [deskDeleting EXCEPT !.kind = "asked"]
        /\ deskDeleting.kind \in {"sent", "refused"}
        /\ UNCHANGED <<deskRow, deskBalance, deskSent, deskPage, deskCache, deskSelected, deskDialog, deskStarts>>
    BY <1>4 DEF Desk!DeleteAnswered, Desk!server
  <2>2. deskDeleting' \in DeskDeletion
    <3>1. deskDeleting \in [kind : {"asked", "sent", "refused"}, order : Numbers]
      BY <1>0, <2>1 DEF DeskTyped, DeskDeletion, Desk!None
    <3> QED
      BY <2>1, <3>1 DEF DeskDeletion
  <2>3. DeskTyped'
    BY <1>0, <2>1, <2>2 DEF DeskTyped
  <2>4. DeskQuiet'
    BY <1>0, <2>1 DEF DeskQuiet
  <2> QED
    BY <2>3, <2>4 DEF DeskInv
<1> QED
  BY <1>1, <1>2, <1>3, <1>4

SharedRowed == UNION {[D -> DeskShared!Rows \ {"gone"}] : D \in SUBSET Numbers}
SharedCached == {DeskShared!None} \cup [kind : {"rows"}, rows : SharedRowed]
SharedDeletion == {DeskShared!None} \cup [kind : {"asked", "sent", "refused"}, order : Numbers]

\* What the page and the server hold.
SharedTyped ==
  /\ deskRow \in [Numbers -> DeskShared!Rows] /\ deskBalance \in 0 .. SharedCredits
  /\ deskPage \in 1 .. MaxPage /\ deskStale \in SUBSET (1 .. MaxPage)
  /\ deskCache \in [1 .. MaxPage -> SharedCached]
  /\ deskSelected \in SUBSET Numbers
  /\ deskDialog = DeskShared!None \/ deskDialog.items \in SUBSET Numbers
  /\ deskDeleting \in SharedDeletion
  /\ deskStarts \in Seq(DeskShared!Start)

\* An order that a start has started never waits again.
OnItsWay == {"processing", "completed", "gone"}

SharedStarted ==
  /\ deskSent \in SUBSET (SUBSET Numbers)
  /\ \A i \in DOMAIN deskStarts : \A o \in deskStarts[i].started : deskRow[o] \in OnItsWay
  /\ \A s \in deskSent : \A o \in s : deskRow[o] \in OnItsWay

SharedInv == SharedTyped /\ SharedStarted

(* The rows of a fetched page.                                             *)
LEMMA SharedRowedRows ==
  ASSUME NEW f
  PROVE  f \in SharedRowed <=>
           /\ DOMAIN f \in SUBSET Numbers
           /\ f \in [DOMAIN f -> DeskShared!Rows \ {"gone"}]
<1>1. ASSUME f \in SharedRowed
      PROVE  DOMAIN f \in SUBSET Numbers /\ f \in [DOMAIN f -> DeskShared!Rows \ {"gone"}]
  <2>1. PICK D \in SUBSET Numbers : f \in [D -> DeskShared!Rows \ {"gone"}]
    BY <1>1 DEF SharedRowed
  <2>2. DOMAIN f = D
    BY <2>1
  <2> QED
    BY <2>1, <2>2
<1>2. ASSUME DOMAIN f \in SUBSET Numbers, f \in [DOMAIN f -> DeskShared!Rows \ {"gone"}]
      PROVE  f \in SharedRowed
  BY <1>2 DEF SharedRowed
<1> QED
  BY <1>1, <1>2

(* What is in the cache.                                                   *)
LEMMA SharedCachedRows ==
  /\ DeskShared!None \in SharedCached
  /\ \A c \in SharedCached : c # DeskShared!None => /\ c = [kind |-> "rows", rows |-> c.rows]
                                       /\ c.rows \in SharedRowed
  /\ \A f \in SharedRowed : [kind |-> "rows", rows |-> f] \in SharedCached
<1>1. \A c \in [kind : {"rows"}, rows : SharedRowed] :
        c = [kind |-> "rows", rows |-> c.rows] /\ c.rows \in SharedRowed
  OBVIOUS
<1> QED
  BY <1>1 DEF SharedCached

(* The calls of the bulk start are numbered.                               *)
LEMMA SharedStarts ==
  ASSUME deskStarts \in Seq(DeskShared!Start)
  PROVE  /\ \A i \in DOMAIN deskStarts : deskStarts[i] \in DeskShared!Start
         /\ \A i \in DOMAIN deskStarts, s \in DeskShared!Start :
              /\ [deskStarts EXCEPT ![i] = s] \in Seq(DeskShared!Start)
              /\ DOMAIN [deskStarts EXCEPT ![i] = s] = DOMAIN deskStarts
              /\ [deskStarts EXCEPT ![i] = s][i] = s
              /\ \A j \in DOMAIN deskStarts : j # i => [deskStarts EXCEPT ![i] = s][j] = deskStarts[j]
         /\ \A s \in DeskShared!Start :
              /\ Append(deskStarts, s) \in Seq(DeskShared!Start)
              /\ DOMAIN Append(deskStarts, s) = DOMAIN deskStarts \cup {Len(deskStarts) + 1}
              /\ Append(deskStarts, s)[Len(deskStarts) + 1] = s
              /\ \A i \in DOMAIN deskStarts : Append(deskStarts, s)[i] = deskStarts[i]
<1>1. Len(deskStarts) \in Nat /\ DOMAIN deskStarts = 1 .. Len(deskStarts)
  BY LenProperties
<1>2. \A i \in 1 .. Len(deskStarts) : deskStarts[i] \in DeskShared!Start
  BY ElementOfSeq
<1>3. ASSUME NEW i \in DOMAIN deskStarts, NEW s \in DeskShared!Start
      PROVE  /\ [deskStarts EXCEPT ![i] = s] \in Seq(DeskShared!Start)
             /\ DOMAIN [deskStarts EXCEPT ![i] = s] = DOMAIN deskStarts
             /\ [deskStarts EXCEPT ![i] = s][i] = s
             /\ \A j \in DOMAIN deskStarts : j # i => [deskStarts EXCEPT ![i] = s][j] = deskStarts[j]
  <2>1. i \in 1 .. Len(deskStarts) /\ s \in DeskShared!Start
    BY <1>1, <1>3
  <2>2. [deskStarts EXCEPT ![i] = s] \in Seq(DeskShared!Start)
    BY <2>1, ExceptSeq
  <2> QED
    BY <1>3, <2>2
<1>4. ASSUME NEW s \in DeskShared!Start
      PROVE  /\ Append(deskStarts, s) \in Seq(DeskShared!Start)
             /\ DOMAIN Append(deskStarts, s) = DOMAIN deskStarts \cup {Len(deskStarts) + 1}
             /\ Append(deskStarts, s)[Len(deskStarts) + 1] = s
             /\ \A i \in DOMAIN deskStarts : Append(deskStarts, s)[i] = deskStarts[i]
  <2>1. /\ Append(deskStarts, s) \in Seq(DeskShared!Start)
        /\ Len(Append(deskStarts, s)) = Len(deskStarts) + 1
        /\ \A i \in 1 .. Len(deskStarts) : Append(deskStarts, s)[i] = deskStarts[i]
        /\ Append(deskStarts, s)[Len(deskStarts) + 1] = s
    BY AppendProperties
  <2>2. DOMAIN Append(deskStarts, s) = 1 .. (Len(deskStarts) + 1)
    BY <2>1, LenProperties
  <2> QED
    BY <1>1, <2>1, <2>2
<1> QED
  BY <1>1, <1>2, <1>3, <1>4

(* The page begins before its list has been fetched.                       *)
LEMMA SharedBegins ==
  ASSUME DeskShared!Init
  PROVE  SharedInv
<1>1. /\ MaxPage \in Nat \ {0} /\ SharedCredits \in Nat
      /\ deskRow \in [Numbers -> DeskShared!Pending] /\ deskBalance = SharedCredits /\ deskPage = 1
      /\ deskCache = [p \in 1 .. MaxPage |-> DeskShared!None] /\ deskStale = {1} /\ deskSelected = {}
      /\ deskDialog = DeskShared!None /\ deskStarts = << >> /\ deskDeleting = DeskShared!None /\ deskSent = {}
  BY DeskSharedAssumption DEF DeskShared!DeskAssumption, DeskShared!Init
<1>2. deskRow \in [Numbers -> DeskShared!Rows]
  BY <1>1 DEF DeskShared!Rows
<1>3. deskStarts \in Seq(DeskShared!Start) /\ DOMAIN deskStarts = {}
  BY <1>1
<1>4. deskCache \in [1 .. MaxPage -> SharedCached] /\ deskDeleting \in SharedDeletion
  BY <1>1 DEF SharedCached, SharedDeletion
<1>5. SharedTyped
  BY <1>1, <1>2, <1>3, <1>4 DEF SharedTyped
<1>6. SharedStarted
  BY <1>1, <1>3 DEF SharedStarted
<1> QED
  BY <1>5, <1>6 DEF SharedInv

(* What the staff do to the page: the calls of the start and the server    *)
(* are left alone.                                                         *)
LEMMA SharedPageMoves ==
  ASSUME SharedTyped,
         UNCHANGED <<deskRow, deskBalance, deskSent, deskStarts>>,
         deskPage' \in 1 .. MaxPage, deskStale' \in SUBSET (1 .. MaxPage),
         deskCache' \in [1 .. MaxPage -> SharedCached], deskSelected' \in SUBSET Numbers,
         deskDialog' = DeskShared!None \/ deskDialog'.items \in SUBSET Numbers,
         deskDeleting' \in SharedDeletion
  PROVE  SharedTyped'
BY DEF SharedTyped

(* What the staff see is of the list.                                      *)
LEMMA SharedViewOfList ==
  ASSUME SharedTyped
  PROVE  DeskShared!View \in SUBSET Numbers
<1>1. deskCache[deskPage] \in SharedCached
  BY DEF SharedTyped
<1>2. CASE deskCache[deskPage] = DeskShared!None
  BY <1>2 DEF DeskShared!View
<1>3. CASE deskCache[deskPage] # DeskShared!None
  BY <1>1, <1>3, SharedCachedRows, SharedRowedRows DEF DeskShared!View
<1> QED
  BY <1>2, <1>3

(* A page as the server reads it.                                          *)
LEMMA SharedReadRows ==
  ASSUME SharedTyped, NEW p \in 1 .. MaxPage
  PROVE  DeskShared!Read(p) \in SharedRowed
<1>1. \A o \in DeskShared!PageRows(p) : o \in Numbers /\ deskRow[o] # "gone"
  BY DEF DeskShared!PageRows, DeskShared!Matches
<1>2. \A o \in DeskShared!PageRows(p) : deskRow[o] \in DeskShared!Rows \ {"gone"}
  BY <1>1 DEF SharedTyped
<1> HIDE DEF DeskShared!PageRows
<1>3. DeskShared!Read(p) = [o \in DeskShared!PageRows(p) |-> deskRow[o]]
  BY DEF DeskShared!Read
<1>4. DOMAIN DeskShared!Read(p) = DeskShared!PageRows(p) /\ DeskShared!Read(p) \in [DeskShared!PageRows(p) -> DeskShared!Rows \ {"gone"}]
  BY <1>2, <1>3
<1>5. DOMAIN DeskShared!Read(p) \in SUBSET Numbers
  BY <1>1, <1>4
<1> QED
  BY <1>4, <1>5, SharedRowedRows

(* The staff look at the list, tick orders and ask to start or delete them.*)
LEMMA SharedLooksKeep ==
  ASSUME SharedInv,
         \/ \E p \in 1 .. MaxPage : DeskShared!Refresh(p) \/ DeskShared!TurnPage(p)
         \/ \E o \in Numbers : DeskShared!ToggleRow(o) \/ DeskShared!AskDelete(o)
         \/ DeskShared!ToggleAll \/ DeskShared!ClearSelection \/ DeskShared!BulkStart \/ DeskShared!CancelStart
         \/ DeskShared!CancelDelete \/ DeskShared!DeleteAnswered
  PROVE  SharedInv'
<1>0. SharedTyped /\ SharedStarted /\ DeskShared!View \in SUBSET Numbers
  BY SharedViewOfList DEF SharedInv
<1>1. ASSUME NEW p \in 1 .. MaxPage, DeskShared!Refresh(p)
      PROVE  SharedInv'
  <2> DEFINE c == [kind |-> "rows", rows |-> DeskShared!Read(p)]
  <2>1. /\ deskCache' = [deskCache EXCEPT ![p] = c] /\ deskStale' = deskStale \ {p}
        /\ UNCHANGED <<deskRow, deskBalance, deskSent, deskPage, deskSelected, deskDialog, deskStarts, deskDeleting>>
    BY <1>1 DEF DeskShared!Refresh, DeskShared!server
  <2>2. c \in SharedCached /\ c.rows = DeskShared!Read(p)
    BY <1>0, <1>1, SharedReadRows, SharedCachedRows
  <2> HIDE DEF c
  <2>3. deskCache' \in [1 .. MaxPage -> SharedCached] /\ deskCache'[p] = c
        /\ \A q \in 1 .. MaxPage : q # p => deskCache'[q] = deskCache[q]
    BY <1>0, <1>1, <2>1, <2>2 DEF SharedTyped
  <2>4. SharedTyped'
    BY <1>0, <2>1, <2>3 DEF SharedTyped
  <2>5. SharedStarted'
    BY <1>0, <2>1 DEF SharedStarted
  <2> QED
    BY <2>4, <2>5 DEF SharedInv
<1>2. ASSUME NEW p \in 1 .. MaxPage, DeskShared!TurnPage(p)
      PROVE  SharedInv'
  <2>1. /\ deskPage' = p /\ deskStale' = deskStale \cup {p}
        /\ UNCHANGED <<deskRow, deskBalance, deskSent, deskCache, deskSelected, deskDialog, deskStarts, deskDeleting>>
    BY <1>2 DEF DeskShared!TurnPage, DeskShared!server
  <2>2. SharedTyped'
    BY <1>0, <1>2, <2>1 DEF SharedTyped
  <2>3. SharedStarted'
    BY <1>0, <2>1 DEF SharedStarted
  <2> QED
    BY <2>2, <2>3 DEF SharedInv
<1>3. ASSUME \/ DeskShared!ToggleAll \/ DeskShared!ClearSelection \/ DeskShared!BulkStart \/ DeskShared!CancelStart
             \/ \E o \in Numbers : DeskShared!ToggleRow(o) \/ DeskShared!AskDelete(o)
             \/ DeskShared!CancelDelete
      PROVE  SharedInv'
  <2>1. UNCHANGED <<deskRow, deskBalance, deskSent, deskPage, deskCache, deskStale, deskStarts>>
    BY <1>3 DEF DeskShared!ToggleAll, DeskShared!ClearSelection, DeskShared!BulkStart, DeskShared!CancelStart, DeskShared!ToggleRow,
                DeskShared!AskDelete, DeskShared!CancelDelete, DeskShared!server
  <2>2. /\ deskSelected' \in SUBSET Numbers
        /\ deskDialog' = DeskShared!None \/ deskDialog'.items \in SUBSET Numbers
        /\ deskDeleting' \in SharedDeletion
        /\ deskDeleting'.kind \notin {"sent", "refused"} => deskDeleting.kind \notin {"sent", "refused"}
    <3>0. /\ deskSelected \in SUBSET Numbers
          /\ deskDialog = DeskShared!None \/ deskDialog.items \in SUBSET Numbers
          /\ deskDeleting \in SharedDeletion
      BY <1>0 DEF SharedTyped
    <3>1. CASE DeskShared!ToggleAll
      BY <1>0, <3>0, <3>1 DEF DeskShared!ToggleAll
    <3>2. CASE DeskShared!ClearSelection
      BY <1>0, <3>0, <3>2 DEF DeskShared!ClearSelection
    <3>3. CASE DeskShared!BulkStart
      <4>1. deskDialog'.items = DeskShared!InView /\ UNCHANGED <<deskSelected, deskDeleting>>
        BY <3>3 DEF DeskShared!BulkStart
      <4>2. DeskShared!InView \in SUBSET Numbers
        BY <1>0, <3>0 DEF DeskShared!InView
      <4> QED
        BY <3>0, <4>1, <4>2
    <3>4. CASE DeskShared!CancelStart
      BY <1>0, <3>0, <3>4 DEF DeskShared!CancelStart
    <3>5. ASSUME NEW o \in Numbers, DeskShared!ToggleRow(o)
          PROVE  /\ deskSelected' \in SUBSET Numbers /\ UNCHANGED <<deskDialog, deskDeleting>>
      BY <1>0, <3>0, <3>5 DEF DeskShared!ToggleRow
    <3>6. ASSUME NEW o \in Numbers, DeskShared!AskDelete(o)
          PROVE  /\ UNCHANGED <<deskDialog, deskSelected>> /\ deskDeleting' \in SharedDeletion
                 /\ deskDeleting.kind \notin {"sent", "refused"}
      <4>1. deskDeleting = DeskShared!None /\ deskDeleting' = [kind |-> "asked", order |-> o]
            /\ UNCHANGED <<deskDialog, deskSelected>>
        BY <3>6 DEF DeskShared!AskDelete, DeskShared!PageClickable
      <4> QED
        BY <3>6, <4>1 DEF SharedDeletion, DeskShared!None
    <3>7. CASE DeskShared!CancelDelete
      BY <1>0, <3>0, <3>7 DEF DeskShared!CancelDelete, SharedDeletion
    <3> QED
      BY <1>3, <3>0, <3>1, <3>2, <3>3, <3>4, <3>5, <3>6, <3>7
  <2>3. SharedTyped'
    BY <1>0, <2>1, <2>2 DEF SharedTyped
  <2>4. SharedStarted'
    BY <1>0, <2>1, <2>2 DEF SharedStarted
  <2> QED
    BY <2>3, <2>4 DEF SharedInv
<1>4. CASE DeskShared!DeleteAnswered
  <2>1. /\ deskStale' = deskStale \cup {deskPage}
        /\ deskDeleting' = IF deskDeleting.kind = "sent" THEN DeskShared!None ELSE [deskDeleting EXCEPT !.kind = "asked"]
        /\ deskDeleting.kind \in {"sent", "refused"}
        /\ UNCHANGED <<deskRow, deskBalance, deskSent, deskPage, deskCache, deskSelected, deskDialog, deskStarts>>
    BY <1>4 DEF DeskShared!DeleteAnswered, DeskShared!server
  <2>2. deskDeleting' \in SharedDeletion
    <3>1. deskDeleting \in [kind : {"asked", "sent", "refused"}, order : Numbers]
      BY <1>0, <2>1 DEF SharedTyped, SharedDeletion, DeskShared!None
    <3> QED
      BY <2>1, <3>1 DEF SharedDeletion
  <2>3. SharedTyped'
    BY <1>0, <2>1, <2>2 DEF SharedTyped
  <2>4. SharedStarted'
    BY <1>0, <2>1 DEF SharedStarted
  <2> QED
    BY <2>3, <2>4 DEF SharedInv
<1> QED
  BY <1>1, <1>2, <1>3, <1>4

(* The start of one order takes the order off the list of one call.        *)
LEMMA DeskStartOneCall ==
  ASSUME DeskTyped, NEW i \in DOMAIN deskStarts, NEW o \in Numbers, Desk!StartOne(i, o)
  PROVE  /\ Desk!UnderWay # {} /\ Desk!UnderWay' # {}
         /\ deskStarts' \in Seq(Desk!Start) /\ DOMAIN deskStarts' = DOMAIN deskStarts
         /\ UNCHANGED <<deskSent, deskPage, deskCache, deskStale, deskSelected, deskDialog, deskDeleting>>
         /\ deskRow' \in [Numbers -> Desk!Rows] /\ deskBalance' \in 0 .. Credits
         /\ \A j \in DOMAIN deskStarts : j # i => deskStarts'[j].started = deskStarts[j].started
         /\ \/ deskStarts'[i].started = deskStarts[i].started /\ deskRow' = deskRow
            \/ /\ deskStarts'[i].started = deskStarts[i].started \cup {o}
               /\ deskRow' = [deskRow EXCEPT ![o] = "processing"]
<1> DEFINE s == [deskStarts[i] EXCEPT !.todo = deskStarts[i].todo \ {o}]
           t == [s EXCEPT !.started = s.started \cup {o}]
<1>0. /\ deskStarts \in Seq(Desk!Start) /\ deskStarts[i] \in Desk!Start /\ deskStarts[i].pc = "starting"
      /\ deskRow \in [Numbers -> Desk!Rows] /\ deskBalance \in 0 .. Credits /\ Credits \in Nat
      /\ UNCHANGED <<deskSent, deskPage, deskCache, deskStale, deskSelected, deskDialog, deskDeleting>>
  BY DeskStarts, DeskAssumption DEF DeskTyped, Desk!StartOne, Desk!client, Desk!DeskAssumption
<1>1. /\ s \in Desk!Start /\ s.pc = "starting" /\ s.started = deskStarts[i].started
      /\ t \in Desk!Start /\ t.pc = "starting" /\ t.started = deskStarts[i].started \cup {o}
  BY <1>0 DEF Desk!Start
<1>2. \/ /\ deskStarts' = [deskStarts EXCEPT ![i] = t]
         /\ deskRow' = [deskRow EXCEPT ![o] = "processing"]
         /\ deskBalance' = IF deskRow[o] = "unpaid" THEN deskBalance - 1 ELSE deskBalance
         /\ deskRow[o] = "unpaid" => deskBalance >= 1
      \/ deskStarts' = [deskStarts EXCEPT ![i] = s] /\ UNCHANGED <<deskRow, deskBalance>>
  <2>1. CASE Desk!CanStart(o)
    <3>1. /\ deskStarts' = [deskStarts EXCEPT ![i].todo = @ \ {o}, ![i].started = @ \cup {o}]
          /\ deskRow' = [deskRow EXCEPT ![o] = "processing"]
          /\ deskBalance' = IF deskRow[o] = "unpaid" THEN deskBalance - 1 ELSE deskBalance
      BY <2>1 DEF Desk!StartOne
    <3>2. deskRow[o] = "unpaid" => deskBalance >= 1
      BY <2>1 DEF Desk!CanStart
    <3>3. [deskStarts EXCEPT ![i].todo = @ \ {o}, ![i].started = @ \cup {o}] = [deskStarts EXCEPT ![i] = t]
      BY <1>0
    <3> QED
      BY <3>1, <3>2, <3>3
  <2>2. CASE ~Desk!CanStart(o)
    BY <2>2 DEF Desk!StartOne
  <2> QED
    BY <2>1, <2>2
<1> HIDE DEF s, t
<1>3. /\ deskStarts' \in Seq(Desk!Start) /\ DOMAIN deskStarts' = DOMAIN deskStarts
      /\ \A j \in DOMAIN deskStarts : j # i => deskStarts'[j] = deskStarts[j]
      /\ deskStarts'[i] = s \/ deskStarts'[i] = t
      /\ deskStarts'[i].pc = "starting"
  BY <1>0, <1>1, <1>2, DeskStarts
<1>4. Desk!UnderWay # {} /\ Desk!UnderWay' # {}
  BY <1>0, <1>3 DEF Desk!UnderWay
<1>5. CASE /\ deskStarts' = [deskStarts EXCEPT ![i] = t]
           /\ deskRow' = [deskRow EXCEPT ![o] = "processing"]
           /\ deskBalance' = IF deskRow[o] = "unpaid" THEN deskBalance - 1 ELSE deskBalance
           /\ deskRow[o] = "unpaid" => deskBalance >= 1
  <2>1. deskBalance' \in 0 .. Credits
    BY <1>0, <1>5
  <2>2. deskRow' \in [Numbers -> Desk!Rows]
    BY <1>0, <1>5 DEF Desk!Rows
  <2>3. deskStarts'[i] = t
    BY <1>0, <1>1, <1>5, DeskStarts
  <2> QED
    BY <1>0, <1>1, <1>3, <1>4, <1>5, <2>1, <2>2, <2>3
<1>6. CASE deskStarts' = [deskStarts EXCEPT ![i] = s] /\ UNCHANGED <<deskRow, deskBalance>>
  <2>1. deskStarts'[i] = s
    BY <1>0, <1>1, <1>6, DeskStarts
  <2> QED
    BY <1>0, <1>1, <1>3, <1>4, <1>6, <2>1
<1> QED
  BY <1>2, <1>5, <1>6

(* The other steps of a call: it goes on, with what it has started, or is  *)
(* over.                                                                   *)
LEMMA DeskCallMoves ==
  ASSUME DeskTyped, NEW i \in DOMAIN deskStarts,
         \/ Desk!EndStarting(i) \/ Desk!StartAnswered(i) \/ Desk!StartLost(i)
         \/ \E ok \in BOOLEAN : Desk!Upload(i, ok)
  PROVE  /\ Desk!UnderWay # {}
         /\ deskStarts' \in Seq(Desk!Start) /\ DOMAIN deskStarts' = DOMAIN deskStarts
         /\ UNCHANGED <<deskRow, deskBalance, deskPage, deskDialog, deskDeleting>>
         /\ deskCache' \in [1 .. MaxPage -> DeskCached] /\ deskSelected' \in SUBSET Numbers
         /\ deskStale' \in SUBSET (1 .. MaxPage)
         /\ \A j \in DOMAIN deskStarts : deskStarts'[j].started \subseteq deskStarts[j].started
         /\ deskSent' = deskSent \/ deskSent' = deskSent \cup {deskStarts[i].started}
         /\ Desk!UnderWay' # {} \/ deskPage' \in deskStale'
<1>0. /\ deskStarts \in Seq(Desk!Start) /\ deskStarts[i] \in Desk!Start
      /\ deskPage \in 1 .. MaxPage /\ deskStale \in SUBSET (1 .. MaxPage)
      /\ deskSelected \in SUBSET Numbers
      /\ deskCache \in [1 .. MaxPage -> DeskCached] /\ deskCache[deskPage] \in DeskCached
  BY DeskStarts DEF DeskTyped
<1>1. Desk!Done \in Desk!Start /\ Desk!Done.started = {}
  BY DEF Desk!Done, Desk!Start
<1>2. ASSUME NEW pc \in {"uploading", "answered"}, deskStarts' = [deskStarts EXCEPT ![i].pc = pc]
      PROVE  /\ deskStarts' \in Seq(Desk!Start) /\ DOMAIN deskStarts' = DOMAIN deskStarts
             /\ \A j \in DOMAIN deskStarts : deskStarts'[j].started \subseteq deskStarts[j].started
             /\ Desk!UnderWay' # {}
  <2> DEFINE s == [deskStarts[i] EXCEPT !.pc = pc]
  <2>1. s \in Desk!Start /\ s.pc = pc /\ s.started = deskStarts[i].started
    BY <1>0, <1>2 DEF Desk!Start
  <2>2. deskStarts' = [deskStarts EXCEPT ![i] = s]
    BY <1>0, <1>2
  <2> HIDE DEF s
  <2>3. /\ deskStarts' \in Seq(Desk!Start) /\ DOMAIN deskStarts' = DOMAIN deskStarts
        /\ deskStarts'[i] = s /\ \A j \in DOMAIN deskStarts : j # i => deskStarts'[j] = deskStarts[j]
    BY <1>0, <2>1, <2>2, DeskStarts
  <2>4. Desk!UnderWay' # {}
    BY <1>2, <2>1, <2>3 DEF Desk!UnderWay
  <2>5. \A j \in DOMAIN deskStarts : deskStarts'[j].started \subseteq deskStarts[j].started
    BY <2>1, <2>3
  <2> QED
    BY <2>3, <2>4, <2>5
<1>3. ASSUME deskStarts' = [deskStarts EXCEPT ![i] = Desk!Done]
      PROVE  /\ deskStarts' \in Seq(Desk!Start) /\ DOMAIN deskStarts' = DOMAIN deskStarts
             /\ \A j \in DOMAIN deskStarts : deskStarts'[j].started \subseteq deskStarts[j].started
  <2>1. /\ deskStarts' \in Seq(Desk!Start) /\ DOMAIN deskStarts' = DOMAIN deskStarts
        /\ deskStarts'[i] = Desk!Done /\ \A j \in DOMAIN deskStarts : j # i => deskStarts'[j] = deskStarts[j]
    BY <1>0, <1>1, <1>3, DeskStarts
  <2> QED
    BY <1>1, <2>1
<1>4. CASE Desk!EndStarting(i)
  <2>1. /\ deskStarts[i].pc = "starting"
        /\ UNCHANGED <<deskRow, deskBalance, deskSent, deskPage, deskCache, deskStale, deskSelected, deskDialog, deskDeleting>>
    BY <1>4 DEF Desk!EndStarting, Desk!server, Desk!client
  <2>2. \E pc \in {"uploading", "answered"} : deskStarts' = [deskStarts EXCEPT ![i].pc = pc]
    BY <1>4 DEF Desk!EndStarting
  <2>3. Desk!UnderWay # {}
    BY <2>1 DEF Desk!UnderWay
  <2> QED
    BY <1>0, <1>2, <2>1, <2>2, <2>3
<1>5. ASSUME NEW ok \in BOOLEAN, Desk!Upload(i, ok)
      PROVE  /\ Desk!UnderWay # {}
             /\ \E pc \in {"uploading", "answered"} : deskStarts' = [deskStarts EXCEPT ![i].pc = pc]
             /\ UNCHANGED <<deskRow, deskBalance, deskPage, deskCache, deskStale, deskSelected, deskDialog, deskDeleting>>
             /\ deskSent' = deskSent \/ deskSent' = deskSent \cup {deskStarts[i].started}
  <2>1. /\ deskStarts[i].pc = "uploading" /\ deskStarts' = [deskStarts EXCEPT ![i].pc = "answered"]
        /\ UNCHANGED <<deskRow, deskBalance, deskPage, deskCache, deskStale, deskSelected, deskDialog, deskDeleting>>
        /\ deskSent' = IF ok THEN deskSent \cup {deskStarts[i].started} ELSE deskSent
    BY <1>5 DEF Desk!Upload, Desk!client
  <2>2. Desk!UnderWay # {}
    BY <2>1 DEF Desk!UnderWay
  <2> QED
    BY <2>1, <2>2
<1>6. CASE \E ok \in BOOLEAN : Desk!Upload(i, ok)
  BY <1>0, <1>2, <1>5, <1>6
<1>7. CASE Desk!StartAnswered(i)
  <2>1. /\ deskStarts[i].pc = "answered" /\ deskStarts' = [deskStarts EXCEPT ![i] = Desk!Done]
        /\ deskCache' = Desk!Patched(deskStarts[i].started) /\ deskSelected' = {}
        /\ deskStale' = deskStale \cup {deskPage}
        /\ UNCHANGED <<deskRow, deskBalance, deskSent, deskPage, deskDialog, deskDeleting>>
    BY <1>7 DEF Desk!StartAnswered, Desk!server
  <2>2. Desk!UnderWay # {}
    BY <2>1 DEF Desk!UnderWay
  <2>3. deskCache' \in [1 .. MaxPage -> DeskCached]
    <3>1. CASE deskCache[deskPage] = Desk!None
      BY <1>0, <2>1, <3>1 DEF Desk!Patched
    <3>2. CASE deskCache[deskPage] # Desk!None
      <4> DEFINE rows == deskCache[deskPage].rows
                 ids == deskStarts[i].started
                 new == [o \in DOMAIN rows |-> IF o \in ids THEN "processing" ELSE rows[o]]
                 c == [deskCache[deskPage] EXCEPT !.rows = new]
      <4>1. deskCache' = [deskCache EXCEPT ![deskPage] = c]
        BY <2>1, <3>2 DEF Desk!Patched
      <4>2. deskCache[deskPage] = [kind |-> "rows", rows |-> rows] /\ rows \in DeskRowed
        BY <1>0, <3>2, DeskCachedRows
      <4> HIDE DEF rows, ids
      <4>3. DOMAIN rows \in SUBSET Numbers /\ rows \in [DOMAIN rows -> Desk!Rows \ {"gone"}]
        BY <4>2, DeskRowedRows
      <4>4. "processing" \in Desk!Rows \ {"gone"}
        BY DEF Desk!Rows
      <4>5. DOMAIN new = DOMAIN rows /\ new \in [DOMAIN rows -> Desk!Rows \ {"gone"}]
        BY <4>3, <4>4
      <4> HIDE DEF new
      <4>6. new \in DeskRowed
        BY <4>3, <4>5, DeskRowedRows
      <4>7. c = [kind |-> "rows", rows |-> new]
        BY <4>2
      <4>8. c \in DeskCached
        BY <4>6, <4>7, DeskCachedRows
      <4> HIDE DEF c
      <4> QED
        BY <1>0, <4>1, <4>8
    <3> QED
      BY <3>1, <3>2
  <2> QED
    BY <1>0, <1>3, <2>1, <2>2, <2>3
<1>8. CASE Desk!StartLost(i)
  <2>1. /\ deskStarts[i].pc = "answered" /\ deskStarts' = [deskStarts EXCEPT ![i] = Desk!Done]
        /\ deskStale' = deskStale \cup {deskPage}
        /\ UNCHANGED <<deskRow, deskBalance, deskSent, deskPage, deskCache, deskSelected, deskDialog, deskDeleting>>
    BY <1>8 DEF Desk!StartLost, Desk!server
  <2>2. Desk!UnderWay # {}
    BY <2>1 DEF Desk!UnderWay
  <2> QED
    BY <1>0, <1>3, <2>1, <2>2
<1> QED
  BY <1>4, <1>6, <1>7, <1>8

(* A start that is confirmed has started nothing.                          *)
LEMMA DeskConfirmMoves ==
  ASSUME DeskTyped, NEW upload \in BOOLEAN, Desk!ConfirmStart(upload)
  PROVE  /\ Desk!UnderWay' # {} /\ deskStarts' \in Seq(Desk!Start)
         /\ DOMAIN deskStarts' = DOMAIN deskStarts \cup {Len(deskStarts) + 1}
         /\ \A j \in DOMAIN deskStarts : deskStarts'[j] = deskStarts[j]
         /\ deskStarts'[Len(deskStarts) + 1].started = {}
         /\ deskDialog' = Desk!None
         /\ UNCHANGED <<deskRow, deskBalance, deskSent, deskPage, deskCache, deskStale, deskSelected, deskDeleting>>
<1> DEFINE s == [ids |-> deskSelected, todo |-> deskSelected, started |-> {}, upload |-> upload,
                 shown |-> deskDialog.items, pc |-> "starting"]
<1>1. /\ deskStarts' = Append(deskStarts, s) /\ deskDialog # Desk!None /\ deskDialog' = Desk!None
      /\ UNCHANGED <<deskRow, deskBalance, deskSent, deskPage, deskCache, deskStale, deskSelected, deskDeleting>>
  BY DEF Desk!ConfirmStart, Desk!server
<1>2. deskSelected \in SUBSET Numbers /\ deskDialog.items \in SUBSET Numbers /\ deskStarts \in Seq(Desk!Start)
  BY <1>1 DEF DeskTyped
<1>3. s \in Desk!Start /\ s.pc = "starting" /\ s.started = {}
  BY <1>2 DEF Desk!Start
<1> HIDE DEF s
<1>4. /\ deskStarts' \in Seq(Desk!Start) /\ DOMAIN deskStarts' = DOMAIN deskStarts \cup {Len(deskStarts) + 1}
      /\ deskStarts'[Len(deskStarts) + 1] = s /\ \A j \in DOMAIN deskStarts : deskStarts'[j] = deskStarts[j]
  BY <1>1, <1>2, <1>3, DeskStarts
<1>5. Desk!UnderWay' # {}
  BY <1>3, <1>4 DEF Desk!UnderWay
<1> QED
  BY <1>1, <1>3, <1>4, <1>5

(* The server deletes the order, or has it no more.                        *)
LEMMA DeskDeleteMoves ==
  ASSUME DeskTyped, Desk!ConfirmDelete
  PROVE  /\ DeskTyped'
         /\ deskDeleting'.kind \in {"sent", "refused"}
         /\ UNCHANGED <<deskStarts, deskSent>>
         /\ \A o \in Numbers : deskRow'[o] \in {deskRow[o], "gone"}
<1>1. /\ deskDeleting.kind = "asked"
      /\ deskDeleting' = [deskDeleting EXCEPT !.kind =
                            IF deskRow[deskDeleting.order] = "gone" THEN "refused" ELSE "sent"]
      /\ deskRow' = [deskRow EXCEPT ![deskDeleting.order] = "gone"]
      /\ UNCHANGED <<deskBalance, deskSent, deskPage, deskCache, deskStale, deskSelected, deskDialog, deskStarts>>
  BY DEF Desk!ConfirmDelete
<1>2. deskDeleting \in [kind : {"asked", "sent", "refused"}, order : Numbers]
      /\ deskRow \in [Numbers -> Desk!Rows]
  BY <1>1 DEF DeskTyped, DeskDeletion, Desk!None
<1>3. deskDeleting' \in DeskDeletion /\ deskDeleting'.kind \in {"sent", "refused"}
  BY <1>1, <1>2 DEF DeskDeletion
<1>4. deskRow' \in [Numbers -> Desk!Rows] /\ \A o \in Numbers : deskRow'[o] \in {deskRow[o], "gone"}
  BY <1>1, <1>2 DEF Desk!Rows
<1> QED
  BY <1>1, <1>3, <1>4 DEF DeskTyped

(* With nobody else at work, a page that waits for nothing is right.       *)
LEMMA DeskInvHolds ==
  /\ Desk!Init => DeskInv
  /\ DeskInv /\ Desk!Next => DeskInv'
  /\ DeskInv /\ UNCHANGED Desk!vars => DeskInv'
<1>1. ASSUME DeskInv, NEW upload \in BOOLEAN, Desk!ConfirmStart(upload)
      PROVE  DeskInv'
  <2>1. DeskTyped'
    BY <1>1, DeskConfirmMoves DEF DeskInv, DeskTyped
  <2>2. DeskQuiet'
    BY <1>1, DeskConfirmMoves DEF DeskInv, DeskQuiet
  <2> QED
    BY <2>1, <2>2 DEF DeskInv
<1>2. ASSUME DeskInv, NEW i \in DOMAIN deskStarts, NEW o \in Numbers, Desk!StartOne(i, o)
      PROVE  DeskInv'
  <2>1. DeskTyped'
    BY <1>2, DeskStartOneCall DEF DeskInv, DeskTyped
  <2>2. DeskQuiet'
    BY <1>2, DeskStartOneCall DEF DeskInv, DeskQuiet
  <2> QED
    BY <2>1, <2>2 DEF DeskInv
<1>3. ASSUME DeskInv, NEW i \in DOMAIN deskStarts,
             \/ Desk!EndStarting(i) \/ Desk!StartAnswered(i) \/ Desk!StartLost(i)
             \/ \E ok \in BOOLEAN : Desk!Upload(i, ok)
      PROVE  DeskInv'
  <2>1. DeskTyped'
    BY <1>3, DeskCallMoves DEF DeskInv, DeskTyped
  <2>2. DeskQuiet'
    BY <1>3, DeskCallMoves DEF DeskInv, DeskQuiet
  <2> QED
    BY <2>1, <2>2 DEF DeskInv
<1>4. ASSUME DeskInv, Desk!ConfirmDelete
      PROVE  DeskInv'
  BY <1>4, DeskDeleteMoves DEF DeskInv, DeskQuiet
<1>5. ASSUME DeskInv, NEW o \in Numbers, Desk!Complete(o)
      PROVE  DeskInv'
  BY <1>5 DEF Desk!Complete
<1>6. ASSUME DeskInv, UNCHANGED Desk!vars
      PROVE  DeskInv'
  BY <1>6 DEF DeskInv, DeskTyped, DeskQuiet, Desk!vars, Desk!UnderWay, Desk!Read, Desk!PageRows, Desk!Matches
<1>7. ASSUME DeskInv, Desk!Next
      PROVE  DeskInv'
  <2>1. CASE \E upload \in BOOLEAN : Desk!ConfirmStart(upload)
    BY <1>1, <1>7, <2>1
  <2>2. CASE \E i \in DOMAIN deskStarts : \E o \in Numbers : Desk!StartOne(i, o)
    BY <1>2, <1>7, <2>2
  <2>3. CASE \E i \in DOMAIN deskStarts :
               \/ Desk!EndStarting(i) \/ Desk!StartAnswered(i) \/ Desk!StartLost(i)
               \/ \E ok \in BOOLEAN : Desk!Upload(i, ok)
    BY <1>3, <1>7, <2>3
  <2>4. CASE \E o \in Numbers : Desk!Complete(o)
    BY <1>5, <1>7, <2>4
  <2>5. CASE \/ \E p \in 1 .. MaxPage : Desk!Refresh(p) \/ Desk!TurnPage(p)
             \/ \E o \in Numbers : Desk!ToggleRow(o) \/ Desk!AskDelete(o)
             \/ Desk!ToggleAll \/ Desk!ClearSelection \/ Desk!BulkStart \/ Desk!CancelStart
             \/ Desk!CancelDelete \/ Desk!DeleteAnswered
    BY <1>7, <2>5, DeskLooksKeep
  <2> QED
    BY <1>4, <1>7, <2>1, <2>2, <2>3, <2>4, <2>5 DEF Desk!Next
<1> QED
  BY <1>6, <1>7, DeskBegins

(* What the run checks of it.                                              *)
LEMMA DeskInvGives ==
  ASSUME DeskInv
  PROVE  Desk!DeskTypeOK /\ Desk!QuietListIsServer
<1>1. ASSUME NEW p \in 1 .. MaxPage, deskCache[p] # Desk!None
      PROVE  deskCache[p].rows \in [DOMAIN deskCache[p].rows -> Desk!Rows \ {"gone"}]
  <2>1. deskCache[p] \in DeskCached
    BY <1>1 DEF DeskInv, DeskTyped
  <2> QED
    BY <1>1, <2>1, DeskCachedRows, DeskRowedRows
<1>2. Desk!DeskTypeOK
  BY <1>1 DEF DeskInv, DeskTyped, Desk!DeskTypeOK
<1>3. Desk!None.kind \notin {"sent", "refused"}
  BY DEF Desk!None
<1>4. Desk!QuietListIsServer
  BY <1>3 DEF DeskInv, DeskQuiet, Desk!QuietListIsServer
<1> QED
  BY <1>2, <1>4

(* The start of one order takes the order off the list of one call.        *)
LEMMA SharedStartOneCall ==
  ASSUME SharedTyped, NEW i \in DOMAIN deskStarts, NEW o \in Numbers, DeskShared!StartOne(i, o)
  PROVE  /\ DeskShared!UnderWay # {} /\ DeskShared!UnderWay' # {}
         /\ deskStarts' \in Seq(DeskShared!Start) /\ DOMAIN deskStarts' = DOMAIN deskStarts
         /\ UNCHANGED <<deskSent, deskPage, deskCache, deskStale, deskSelected, deskDialog, deskDeleting>>
         /\ deskRow' \in [Numbers -> DeskShared!Rows] /\ deskBalance' \in 0 .. SharedCredits
         /\ \A j \in DOMAIN deskStarts : j # i => deskStarts'[j].started = deskStarts[j].started
         /\ \/ deskStarts'[i].started = deskStarts[i].started /\ deskRow' = deskRow
            \/ /\ deskStarts'[i].started = deskStarts[i].started \cup {o}
               /\ deskRow' = [deskRow EXCEPT ![o] = "processing"]
<1> DEFINE s == [deskStarts[i] EXCEPT !.todo = deskStarts[i].todo \ {o}]
           t == [s EXCEPT !.started = s.started \cup {o}]
<1>0. /\ deskStarts \in Seq(DeskShared!Start) /\ deskStarts[i] \in DeskShared!Start /\ deskStarts[i].pc = "starting"
      /\ deskRow \in [Numbers -> DeskShared!Rows] /\ deskBalance \in 0 .. SharedCredits /\ SharedCredits \in Nat
      /\ UNCHANGED <<deskSent, deskPage, deskCache, deskStale, deskSelected, deskDialog, deskDeleting>>
  BY SharedStarts, DeskSharedAssumption DEF SharedTyped, DeskShared!StartOne, DeskShared!client, DeskShared!DeskAssumption
<1>1. /\ s \in DeskShared!Start /\ s.pc = "starting" /\ s.started = deskStarts[i].started
      /\ t \in DeskShared!Start /\ t.pc = "starting" /\ t.started = deskStarts[i].started \cup {o}
  BY <1>0 DEF DeskShared!Start
<1>2. \/ /\ deskStarts' = [deskStarts EXCEPT ![i] = t]
         /\ deskRow' = [deskRow EXCEPT ![o] = "processing"]
         /\ deskBalance' = IF deskRow[o] = "unpaid" THEN deskBalance - 1 ELSE deskBalance
         /\ deskRow[o] = "unpaid" => deskBalance >= 1
      \/ deskStarts' = [deskStarts EXCEPT ![i] = s] /\ UNCHANGED <<deskRow, deskBalance>>
  <2>1. CASE DeskShared!CanStart(o)
    <3>1. /\ deskStarts' = [deskStarts EXCEPT ![i].todo = @ \ {o}, ![i].started = @ \cup {o}]
          /\ deskRow' = [deskRow EXCEPT ![o] = "processing"]
          /\ deskBalance' = IF deskRow[o] = "unpaid" THEN deskBalance - 1 ELSE deskBalance
      BY <2>1 DEF DeskShared!StartOne
    <3>2. deskRow[o] = "unpaid" => deskBalance >= 1
      BY <2>1 DEF DeskShared!CanStart
    <3>3. [deskStarts EXCEPT ![i].todo = @ \ {o}, ![i].started = @ \cup {o}] = [deskStarts EXCEPT ![i] = t]
      BY <1>0
    <3> QED
      BY <3>1, <3>2, <3>3
  <2>2. CASE ~DeskShared!CanStart(o)
    BY <2>2 DEF DeskShared!StartOne
  <2> QED
    BY <2>1, <2>2
<1> HIDE DEF s, t
<1>3. /\ deskStarts' \in Seq(DeskShared!Start) /\ DOMAIN deskStarts' = DOMAIN deskStarts
      /\ \A j \in DOMAIN deskStarts : j # i => deskStarts'[j] = deskStarts[j]
      /\ deskStarts'[i] = s \/ deskStarts'[i] = t
      /\ deskStarts'[i].pc = "starting"
  BY <1>0, <1>1, <1>2, SharedStarts
<1>4. DeskShared!UnderWay # {} /\ DeskShared!UnderWay' # {}
  BY <1>0, <1>3 DEF DeskShared!UnderWay
<1>5. CASE /\ deskStarts' = [deskStarts EXCEPT ![i] = t]
           /\ deskRow' = [deskRow EXCEPT ![o] = "processing"]
           /\ deskBalance' = IF deskRow[o] = "unpaid" THEN deskBalance - 1 ELSE deskBalance
           /\ deskRow[o] = "unpaid" => deskBalance >= 1
  <2>1. deskBalance' \in 0 .. SharedCredits
    BY <1>0, <1>5
  <2>2. deskRow' \in [Numbers -> DeskShared!Rows]
    BY <1>0, <1>5 DEF DeskShared!Rows
  <2>3. deskStarts'[i] = t
    BY <1>0, <1>1, <1>5, SharedStarts
  <2> QED
    BY <1>0, <1>1, <1>3, <1>4, <1>5, <2>1, <2>2, <2>3
<1>6. CASE deskStarts' = [deskStarts EXCEPT ![i] = s] /\ UNCHANGED <<deskRow, deskBalance>>
  <2>1. deskStarts'[i] = s
    BY <1>0, <1>1, <1>6, SharedStarts
  <2> QED
    BY <1>0, <1>1, <1>3, <1>4, <1>6, <2>1
<1> QED
  BY <1>2, <1>5, <1>6

(* The other steps of a call: it goes on, with what it has started, or is  *)
(* over.                                                                   *)
LEMMA SharedCallMoves ==
  ASSUME SharedTyped, NEW i \in DOMAIN deskStarts,
         \/ DeskShared!EndStarting(i) \/ DeskShared!StartAnswered(i) \/ DeskShared!StartLost(i)
         \/ \E ok \in BOOLEAN : DeskShared!Upload(i, ok)
  PROVE  /\ DeskShared!UnderWay # {}
         /\ deskStarts' \in Seq(DeskShared!Start) /\ DOMAIN deskStarts' = DOMAIN deskStarts
         /\ UNCHANGED <<deskRow, deskBalance, deskPage, deskDialog, deskDeleting>>
         /\ deskCache' \in [1 .. MaxPage -> SharedCached] /\ deskSelected' \in SUBSET Numbers
         /\ deskStale' \in SUBSET (1 .. MaxPage)
         /\ \A j \in DOMAIN deskStarts : deskStarts'[j].started \subseteq deskStarts[j].started
         /\ deskSent' = deskSent \/ deskSent' = deskSent \cup {deskStarts[i].started}
         /\ DeskShared!UnderWay' # {} \/ deskPage' \in deskStale'
<1>0. /\ deskStarts \in Seq(DeskShared!Start) /\ deskStarts[i] \in DeskShared!Start
      /\ deskPage \in 1 .. MaxPage /\ deskStale \in SUBSET (1 .. MaxPage)
      /\ deskSelected \in SUBSET Numbers
      /\ deskCache \in [1 .. MaxPage -> SharedCached] /\ deskCache[deskPage] \in SharedCached
  BY SharedStarts DEF SharedTyped
<1>1. DeskShared!Done \in DeskShared!Start /\ DeskShared!Done.started = {}
  BY DEF DeskShared!Done, DeskShared!Start
<1>2. ASSUME NEW pc \in {"uploading", "answered"}, deskStarts' = [deskStarts EXCEPT ![i].pc = pc]
      PROVE  /\ deskStarts' \in Seq(DeskShared!Start) /\ DOMAIN deskStarts' = DOMAIN deskStarts
             /\ \A j \in DOMAIN deskStarts : deskStarts'[j].started \subseteq deskStarts[j].started
             /\ DeskShared!UnderWay' # {}
  <2> DEFINE s == [deskStarts[i] EXCEPT !.pc = pc]
  <2>1. s \in DeskShared!Start /\ s.pc = pc /\ s.started = deskStarts[i].started
    BY <1>0, <1>2 DEF DeskShared!Start
  <2>2. deskStarts' = [deskStarts EXCEPT ![i] = s]
    BY <1>0, <1>2
  <2> HIDE DEF s
  <2>3. /\ deskStarts' \in Seq(DeskShared!Start) /\ DOMAIN deskStarts' = DOMAIN deskStarts
        /\ deskStarts'[i] = s /\ \A j \in DOMAIN deskStarts : j # i => deskStarts'[j] = deskStarts[j]
    BY <1>0, <2>1, <2>2, SharedStarts
  <2>4. DeskShared!UnderWay' # {}
    BY <1>2, <2>1, <2>3 DEF DeskShared!UnderWay
  <2>5. \A j \in DOMAIN deskStarts : deskStarts'[j].started \subseteq deskStarts[j].started
    BY <2>1, <2>3
  <2> QED
    BY <2>3, <2>4, <2>5
<1>3. ASSUME deskStarts' = [deskStarts EXCEPT ![i] = DeskShared!Done]
      PROVE  /\ deskStarts' \in Seq(DeskShared!Start) /\ DOMAIN deskStarts' = DOMAIN deskStarts
             /\ \A j \in DOMAIN deskStarts : deskStarts'[j].started \subseteq deskStarts[j].started
  <2>1. /\ deskStarts' \in Seq(DeskShared!Start) /\ DOMAIN deskStarts' = DOMAIN deskStarts
        /\ deskStarts'[i] = DeskShared!Done /\ \A j \in DOMAIN deskStarts : j # i => deskStarts'[j] = deskStarts[j]
    BY <1>0, <1>1, <1>3, SharedStarts
  <2> QED
    BY <1>1, <2>1
<1>4. CASE DeskShared!EndStarting(i)
  <2>1. /\ deskStarts[i].pc = "starting"
        /\ UNCHANGED <<deskRow, deskBalance, deskSent, deskPage, deskCache, deskStale, deskSelected, deskDialog, deskDeleting>>
    BY <1>4 DEF DeskShared!EndStarting, DeskShared!server, DeskShared!client
  <2>2. \E pc \in {"uploading", "answered"} : deskStarts' = [deskStarts EXCEPT ![i].pc = pc]
    BY <1>4 DEF DeskShared!EndStarting
  <2>3. DeskShared!UnderWay # {}
    BY <2>1 DEF DeskShared!UnderWay
  <2> QED
    BY <1>0, <1>2, <2>1, <2>2, <2>3
<1>5. ASSUME NEW ok \in BOOLEAN, DeskShared!Upload(i, ok)
      PROVE  /\ DeskShared!UnderWay # {}
             /\ \E pc \in {"uploading", "answered"} : deskStarts' = [deskStarts EXCEPT ![i].pc = pc]
             /\ UNCHANGED <<deskRow, deskBalance, deskPage, deskCache, deskStale, deskSelected, deskDialog, deskDeleting>>
             /\ deskSent' = deskSent \/ deskSent' = deskSent \cup {deskStarts[i].started}
  <2>1. /\ deskStarts[i].pc = "uploading" /\ deskStarts' = [deskStarts EXCEPT ![i].pc = "answered"]
        /\ UNCHANGED <<deskRow, deskBalance, deskPage, deskCache, deskStale, deskSelected, deskDialog, deskDeleting>>
        /\ deskSent' = IF ok THEN deskSent \cup {deskStarts[i].started} ELSE deskSent
    BY <1>5 DEF DeskShared!Upload, DeskShared!client
  <2>2. DeskShared!UnderWay # {}
    BY <2>1 DEF DeskShared!UnderWay
  <2> QED
    BY <2>1, <2>2
<1>6. CASE \E ok \in BOOLEAN : DeskShared!Upload(i, ok)
  BY <1>0, <1>2, <1>5, <1>6
<1>7. CASE DeskShared!StartAnswered(i)
  <2>1. /\ deskStarts[i].pc = "answered" /\ deskStarts' = [deskStarts EXCEPT ![i] = DeskShared!Done]
        /\ deskCache' = DeskShared!Patched(deskStarts[i].started) /\ deskSelected' = {}
        /\ deskStale' = deskStale \cup {deskPage}
        /\ UNCHANGED <<deskRow, deskBalance, deskSent, deskPage, deskDialog, deskDeleting>>
    BY <1>7 DEF DeskShared!StartAnswered, DeskShared!server
  <2>2. DeskShared!UnderWay # {}
    BY <2>1 DEF DeskShared!UnderWay
  <2>3. deskCache' \in [1 .. MaxPage -> SharedCached]
    <3>1. CASE deskCache[deskPage] = DeskShared!None
      BY <1>0, <2>1, <3>1 DEF DeskShared!Patched
    <3>2. CASE deskCache[deskPage] # DeskShared!None
      <4> DEFINE rows == deskCache[deskPage].rows
                 ids == deskStarts[i].started
                 new == [o \in DOMAIN rows |-> IF o \in ids THEN "processing" ELSE rows[o]]
                 c == [deskCache[deskPage] EXCEPT !.rows = new]
      <4>1. deskCache' = [deskCache EXCEPT ![deskPage] = c]
        BY <2>1, <3>2 DEF DeskShared!Patched
      <4>2. deskCache[deskPage] = [kind |-> "rows", rows |-> rows] /\ rows \in SharedRowed
        BY <1>0, <3>2, SharedCachedRows
      <4> HIDE DEF rows, ids
      <4>3. DOMAIN rows \in SUBSET Numbers /\ rows \in [DOMAIN rows -> DeskShared!Rows \ {"gone"}]
        BY <4>2, SharedRowedRows
      <4>4. "processing" \in DeskShared!Rows \ {"gone"}
        BY DEF DeskShared!Rows
      <4>5. DOMAIN new = DOMAIN rows /\ new \in [DOMAIN rows -> DeskShared!Rows \ {"gone"}]
        BY <4>3, <4>4
      <4> HIDE DEF new
      <4>6. new \in SharedRowed
        BY <4>3, <4>5, SharedRowedRows
      <4>7. c = [kind |-> "rows", rows |-> new]
        BY <4>2
      <4>8. c \in SharedCached
        BY <4>6, <4>7, SharedCachedRows
      <4> HIDE DEF c
      <4> QED
        BY <1>0, <4>1, <4>8
    <3> QED
      BY <3>1, <3>2
  <2> QED
    BY <1>0, <1>3, <2>1, <2>2, <2>3
<1>8. CASE DeskShared!StartLost(i)
  <2>1. /\ deskStarts[i].pc = "answered" /\ deskStarts' = [deskStarts EXCEPT ![i] = DeskShared!Done]
        /\ deskStale' = deskStale \cup {deskPage}
        /\ UNCHANGED <<deskRow, deskBalance, deskSent, deskPage, deskCache, deskSelected, deskDialog, deskDeleting>>
    BY <1>8 DEF DeskShared!StartLost, DeskShared!server
  <2>2. DeskShared!UnderWay # {}
    BY <2>1 DEF DeskShared!UnderWay
  <2> QED
    BY <1>0, <1>3, <2>1, <2>2
<1> QED
  BY <1>4, <1>6, <1>7, <1>8

(* A start that is confirmed has started nothing.                          *)
LEMMA SharedConfirmMoves ==
  ASSUME SharedTyped, NEW upload \in BOOLEAN, DeskShared!ConfirmStart(upload)
  PROVE  /\ DeskShared!UnderWay' # {} /\ deskStarts' \in Seq(DeskShared!Start)
         /\ DOMAIN deskStarts' = DOMAIN deskStarts \cup {Len(deskStarts) + 1}
         /\ \A j \in DOMAIN deskStarts : deskStarts'[j] = deskStarts[j]
         /\ deskStarts'[Len(deskStarts) + 1].started = {}
         /\ deskDialog' = DeskShared!None
         /\ UNCHANGED <<deskRow, deskBalance, deskSent, deskPage, deskCache, deskStale, deskSelected, deskDeleting>>
<1> DEFINE s == [ids |-> deskSelected, todo |-> deskSelected, started |-> {}, upload |-> upload,
                 shown |-> deskDialog.items, pc |-> "starting"]
<1>1. /\ deskStarts' = Append(deskStarts, s) /\ deskDialog # DeskShared!None /\ deskDialog' = DeskShared!None
      /\ UNCHANGED <<deskRow, deskBalance, deskSent, deskPage, deskCache, deskStale, deskSelected, deskDeleting>>
  BY DEF DeskShared!ConfirmStart, DeskShared!server
<1>2. deskSelected \in SUBSET Numbers /\ deskDialog.items \in SUBSET Numbers /\ deskStarts \in Seq(DeskShared!Start)
  BY <1>1 DEF SharedTyped
<1>3. s \in DeskShared!Start /\ s.pc = "starting" /\ s.started = {}
  BY <1>2 DEF DeskShared!Start
<1> HIDE DEF s
<1>4. /\ deskStarts' \in Seq(DeskShared!Start) /\ DOMAIN deskStarts' = DOMAIN deskStarts \cup {Len(deskStarts) + 1}
      /\ deskStarts'[Len(deskStarts) + 1] = s /\ \A j \in DOMAIN deskStarts : deskStarts'[j] = deskStarts[j]
  BY <1>1, <1>2, <1>3, SharedStarts
<1>5. DeskShared!UnderWay' # {}
  BY <1>3, <1>4 DEF DeskShared!UnderWay
<1> QED
  BY <1>1, <1>3, <1>4, <1>5

(* The server deletes the order, or has it no more.                        *)
LEMMA SharedDeleteMoves ==
  ASSUME SharedTyped, DeskShared!ConfirmDelete
  PROVE  /\ SharedTyped'
         /\ deskDeleting'.kind \in {"sent", "refused"}
         /\ UNCHANGED <<deskStarts, deskSent>>
         /\ \A o \in Numbers : deskRow'[o] \in {deskRow[o], "gone"}
<1>1. /\ deskDeleting.kind = "asked"
      /\ deskDeleting' = [deskDeleting EXCEPT !.kind =
                            IF deskRow[deskDeleting.order] = "gone" THEN "refused" ELSE "sent"]
      /\ deskRow' = [deskRow EXCEPT ![deskDeleting.order] = "gone"]
      /\ UNCHANGED <<deskBalance, deskSent, deskPage, deskCache, deskStale, deskSelected, deskDialog, deskStarts>>
  BY DEF DeskShared!ConfirmDelete
<1>2. deskDeleting \in [kind : {"asked", "sent", "refused"}, order : Numbers]
      /\ deskRow \in [Numbers -> DeskShared!Rows]
  BY <1>1 DEF SharedTyped, SharedDeletion, DeskShared!None
<1>3. deskDeleting' \in SharedDeletion /\ deskDeleting'.kind \in {"sent", "refused"}
  BY <1>1, <1>2 DEF SharedDeletion
<1>4. deskRow' \in [Numbers -> DeskShared!Rows] /\ \A o \in Numbers : deskRow'[o] \in {deskRow[o], "gone"}
  BY <1>1, <1>2 DEF DeskShared!Rows
<1> QED
  BY <1>1, <1>3, <1>4 DEF SharedTyped

(* However starts overlap and others complete orders, what was started     *)
(* never waits again.                                                      *)
LEMMA SharedInvHolds ==
  /\ DeskShared!Init => SharedInv
  /\ SharedInv /\ DeskShared!Next => SharedInv'
  /\ SharedInv /\ UNCHANGED DeskShared!vars => SharedInv'
<1>0. ASSUME SharedInv, NEW i \in DOMAIN deskStarts
      PROVE  deskStarts[i].started \in SUBSET Numbers
  <2>1. deskStarts[i] \in DeskShared!Start
    BY <1>0, SharedStarts DEF SharedInv, SharedTyped
  <2> QED
    BY <2>1 DEF DeskShared!Start
<1>1. ASSUME SharedInv, NEW upload \in BOOLEAN, DeskShared!ConfirmStart(upload)
      PROVE  SharedInv'
  <2>1. SharedTyped'
    BY <1>1, SharedConfirmMoves DEF SharedInv, SharedTyped
  <2>2. SharedStarted'
    BY <1>1, SharedConfirmMoves DEF SharedInv, SharedStarted
  <2> QED
    BY <2>1, <2>2 DEF SharedInv
<1>2. ASSUME SharedInv, NEW i \in DOMAIN deskStarts, NEW o \in Numbers, DeskShared!StartOne(i, o)
      PROVE  SharedInv'
  <2>0. SharedTyped /\ SharedStarted
    BY <1>2 DEF SharedInv
  <2>1. SharedTyped'
    BY <1>2, <2>0, SharedStartOneCall DEF SharedTyped
  <2>2. \A x \in Numbers : deskRow[x] \in OnItsWay => deskRow'[x] \in OnItsWay
    BY <1>2, <2>0, SharedStartOneCall DEF SharedTyped, OnItsWay
  <2>3. \A j \in DOMAIN deskStarts' : \A x \in deskStarts'[j].started : deskRow'[x] \in OnItsWay
    <3> SUFFICES ASSUME NEW j \in DOMAIN deskStarts, NEW x \in deskStarts'[j].started
                 PROVE  deskRow'[x] \in OnItsWay
      BY <1>2, <2>0, SharedStartOneCall
    <3>1. CASE x \in deskStarts[j].started
      <4>1. x \in Numbers
        BY <1>0, <1>2, <3>1
      <4> QED
        BY <2>0, <2>2, <3>1, <4>1 DEF SharedStarted
    <3>2. CASE x \notin deskStarts[j].started
      <4>1. x = o /\ deskRow' = [deskRow EXCEPT ![o] = "processing"]
        BY <1>2, <2>0, <3>2, SharedStartOneCall
      <4> QED
        BY <1>2, <2>0, <4>1 DEF SharedTyped, OnItsWay
    <3> QED
      BY <3>1, <3>2
  <2>4. deskSent' = deskSent
    BY <1>2, <2>0, SharedStartOneCall
  <2>5. \A s \in deskSent' : \A x \in s : deskRow'[x] \in OnItsWay
    BY <2>0, <2>2, <2>4 DEF SharedStarted
  <2>6. SharedStarted'
    BY <2>0, <2>3, <2>4, <2>5 DEF SharedStarted
  <2> QED
    BY <2>1, <2>6 DEF SharedInv
<1>3. ASSUME SharedInv, NEW i \in DOMAIN deskStarts,
             \/ DeskShared!EndStarting(i) \/ DeskShared!StartAnswered(i) \/ DeskShared!StartLost(i)
             \/ \E ok \in BOOLEAN : DeskShared!Upload(i, ok)
      PROVE  SharedInv'
  <2>0. SharedTyped /\ SharedStarted /\ deskStarts[i].started \in SUBSET Numbers
    BY <1>0, <1>3 DEF SharedInv
  <2>1. SharedTyped'
    BY <1>3, <2>0, SharedCallMoves DEF SharedTyped
  <2>2. /\ DOMAIN deskStarts' = DOMAIN deskStarts /\ deskRow' = deskRow
        /\ \A j \in DOMAIN deskStarts : deskStarts'[j].started \subseteq deskStarts[j].started
        /\ deskSent' = deskSent \/ deskSent' = deskSent \cup {deskStarts[i].started}
    BY <1>3, <2>0, SharedCallMoves
  <2>3. \A s \in deskSent' : s \in SUBSET Numbers /\ \A x \in s : deskRow[x] \in OnItsWay
    BY <1>3, <2>0, <2>2 DEF SharedStarted
  <2>4. \A j \in DOMAIN deskStarts : \A x \in deskStarts'[j].started : deskRow[x] \in OnItsWay
    BY <2>0, <2>2 DEF SharedStarted
  <2>5. SharedStarted'
    BY <2>2, <2>3, <2>4 DEF SharedStarted
  <2> QED
    BY <2>1, <2>5 DEF SharedInv
<1>4. ASSUME SharedInv, NEW o, o \in Numbers, DeskShared!ConfirmDelete \/ DeskShared!Complete(o)
      PROVE  SharedInv'
  <2>0. SharedTyped /\ SharedStarted
    BY <1>4 DEF SharedInv
  <2>1. SharedTyped' /\ UNCHANGED <<deskStarts, deskSent>>
        /\ \A x \in Numbers : deskRow[x] \in OnItsWay => deskRow'[x] \in OnItsWay
    <3>1. CASE DeskShared!ConfirmDelete
      BY <2>0, <3>1, SharedDeleteMoves DEF OnItsWay
    <3>2. CASE DeskShared!Complete(o)
      <4>1. /\ deskRow' = [deskRow EXCEPT ![o] = "completed"] /\ deskRow \in [Numbers -> DeskShared!Rows]
            /\ UNCHANGED <<deskBalance, deskSent, deskPage, deskCache, deskStale, deskSelected, deskDialog,
                           deskDeleting, deskStarts>>
        BY <2>0, <3>2 DEF DeskShared!Complete, DeskShared!client, SharedTyped
      <4>2. deskRow' \in [Numbers -> DeskShared!Rows]
        BY <4>1 DEF DeskShared!Rows
      <4>3. \A x \in Numbers : deskRow[x] \in OnItsWay => deskRow'[x] \in OnItsWay
        BY <4>1 DEF OnItsWay
      <4> QED
        BY <2>0, <4>1, <4>2, <4>3 DEF SharedTyped
    <3> QED
      BY <1>4, <3>1, <3>2
  <2>2. \A j \in DOMAIN deskStarts : \A x \in deskStarts[j].started : x \in Numbers
    BY <1>0, <1>4
  <2>3. SharedStarted'
    BY <2>0, <2>1, <2>2 DEF SharedStarted
  <2> QED
    BY <2>1, <2>3 DEF SharedInv
<1>5. ASSUME SharedInv, DeskShared!ConfirmDelete
      PROVE  SharedInv'
  <2>1. deskDeleting.order \in Numbers
    BY <1>5 DEF SharedInv, SharedTyped, SharedDeletion, DeskShared!ConfirmDelete, DeskShared!None
  <2> QED
    BY <1>4, <1>5, <2>1
<1>6. ASSUME SharedInv, UNCHANGED DeskShared!vars
      PROVE  SharedInv'
  BY <1>6 DEF SharedInv, SharedTyped, SharedStarted, DeskShared!vars
<1>7. ASSUME SharedInv, DeskShared!Next
      PROVE  SharedInv'
  <2>1. CASE \E upload \in BOOLEAN : DeskShared!ConfirmStart(upload)
    BY <1>1, <1>7, <2>1
  <2>2. CASE \E i \in DOMAIN deskStarts : \E o \in Numbers : DeskShared!StartOne(i, o)
    BY <1>2, <1>7, <2>2
  <2>3. CASE \E i \in DOMAIN deskStarts :
               \/ DeskShared!EndStarting(i) \/ DeskShared!StartAnswered(i) \/ DeskShared!StartLost(i)
               \/ \E ok \in BOOLEAN : DeskShared!Upload(i, ok)
    BY <1>3, <1>7, <2>3
  <2>4. CASE \E o \in Numbers : DeskShared!Complete(o)
    BY <1>4, <1>7, <2>4
  <2>5. CASE \/ \E p \in 1 .. MaxPage : DeskShared!Refresh(p) \/ DeskShared!TurnPage(p)
             \/ \E o \in Numbers : DeskShared!ToggleRow(o) \/ DeskShared!AskDelete(o)
             \/ DeskShared!ToggleAll \/ DeskShared!ClearSelection \/ DeskShared!BulkStart \/ DeskShared!CancelStart
             \/ DeskShared!CancelDelete \/ DeskShared!DeleteAnswered
    BY <1>7, <2>5, SharedLooksKeep
  <2> QED
    BY <1>5, <1>7, <2>1, <2>2, <2>3, <2>4, <2>5 DEF DeskShared!Next
<1> QED
  BY <1>6, <1>7, SharedBegins

(* What the run checks of it.                                              *)
LEMMA SharedInvGives ==
  ASSUME SharedInv
  PROVE  DeskShared!SentIsStarted
BY DEF SharedInv, SharedStarted, OnItsWay, DeskShared!SentIsStarted

-----------------------------------------------------------------------------
\* What a request asks for fits the field that it sets.
PanelFits(c) ==
  /\ c.kind = "status" => c.value \in Panel!Statuses \cup {"error"}
  /\ c.kind = "payment" => c.value \in {"unpaid", "paid"}
  /\ c.kind \in {"note", "result"} => c.value \in Panel!Drafted

PanelDetail == {Panel!None} \cup [kind : {"row"}, value : Panel!Order]

PanelTyped ==
  /\ panelRow \in [Edited -> Panel!Order] /\ panelListed \in [Edited -> Panel!Order]
  /\ panelDetail \in [Edited -> PanelDetail]
  /\ panelLook \in [Edited -> Panel!Fetch(Panel!Order)]
  /\ panelRelist \in Panel!Fetch([Edited -> Panel!Order])
  /\ panelOpen \in Edited \cup {Null}
  /\ panelDraft \in [note : Panel!Drafted, result : Panel!Drafted]
  /\ panelAsking \in Panel!Asking /\ panelNotice \in Panel!Notice
  /\ panelAsking # Panel!None => panelAsking.order = panelOpen
  /\ panelCalls \in Seq(Panel!Call)
  /\ \A i \in DOMAIN panelCalls : PanelFits(panelCalls[i])

\* The list is as the server has it, or will be, or is fetched again.
PanelListed ==
  Panel!UnderWay = {} =>
    /\ panelRelist = Panel!None => panelListed = panelRow
    /\ panelRelist.kind = "answered" => panelRelist.value = panelRow

(* The requests are numbered.                                              *)
LEMMA PanelCalls ==
  ASSUME NEW q \in Seq(Panel!Call)
  PROVE  /\ Len(q) \in Nat /\ DOMAIN q = 1 .. Len(q)
         /\ \A i \in DOMAIN q : q[i] \in Panel!Call
         /\ \A i \in DOMAIN q, c \in Panel!Call :
              /\ [q EXCEPT ![i] = c] \in Seq(Panel!Call)
              /\ DOMAIN [q EXCEPT ![i] = c] = DOMAIN q
              /\ [q EXCEPT ![i] = c][i] = c
              /\ \A j \in DOMAIN q : j # i => [q EXCEPT ![i] = c][j] = q[j]
         /\ \A c \in Panel!Call :
              /\ Append(q, c) \in Seq(Panel!Call)
              /\ DOMAIN Append(q, c) = DOMAIN q \cup {Len(q) + 1}
              /\ Append(q, c)[Len(q) + 1] = c
              /\ \A i \in DOMAIN q : Append(q, c)[i] = q[i]
<1>1. Len(q) \in Nat /\ DOMAIN q = 1 .. Len(q)
  BY LenProperties
<1>2. \A i \in 1 .. Len(q) : q[i] \in Panel!Call
  BY ElementOfSeq
<1>3. ASSUME NEW i \in DOMAIN q, NEW c \in Panel!Call
      PROVE  /\ [q EXCEPT ![i] = c] \in Seq(Panel!Call)
             /\ DOMAIN [q EXCEPT ![i] = c] = DOMAIN q
             /\ [q EXCEPT ![i] = c][i] = c
             /\ \A j \in DOMAIN q : j # i => [q EXCEPT ![i] = c][j] = q[j]
  <2>1. i \in 1 .. Len(q) /\ c \in Panel!Call
    BY <1>1, <1>3
  <2>2. [q EXCEPT ![i] = c] \in Seq(Panel!Call)
    BY <2>1, ExceptSeq
  <2> QED
    BY <1>3, <2>2
<1>4. ASSUME NEW c \in Panel!Call
      PROVE  /\ Append(q, c) \in Seq(Panel!Call)
             /\ DOMAIN Append(q, c) = DOMAIN q \cup {Len(q) + 1}
             /\ Append(q, c)[Len(q) + 1] = c
             /\ \A i \in DOMAIN q : Append(q, c)[i] = q[i]
  <2>1. /\ Append(q, c) \in Seq(Panel!Call) /\ Len(Append(q, c)) = Len(q) + 1
        /\ \A i \in 1 .. Len(q) : Append(q, c)[i] = q[i]
        /\ Append(q, c)[Len(q) + 1] = c
    BY AppendProperties
  <2>2. DOMAIN Append(q, c) = 1 .. (Len(q) + 1)
    BY <2>1, LenProperties
  <2> QED
    BY <1>1, <2>1, <2>2
<1> QED
  BY <1>1, <1>2, <1>3, <1>4

(* A field of an order that is set.                                        *)
LEMMA PanelOrderSet ==
  ASSUME NEW r \in Panel!Order, NEW c, c.kind \in Panel!Kinds, PanelFits(c), c.value # "error"
  PROVE  LET n == [r EXCEPT ![c.kind] = c.value]
         IN  /\ n \in Panel!Order /\ n[c.kind] = c.value
             /\ \A f \in Panel!Kinds : f # c.kind => n[f] = r[f]
<1>1. CASE c.kind = "status"
  BY <1>1 DEF Panel!Order, PanelFits, Panel!Kinds
<1>2. CASE c.kind = "payment"
  BY <1>2 DEF Panel!Order, PanelFits, Panel!Kinds
<1>3. CASE c.kind = "note"
  BY <1>3 DEF Panel!Order, PanelFits, Panel!Kinds
<1>4. CASE c.kind = "result"
  BY <1>4 DEF Panel!Order, PanelFits, Panel!Kinds
<1> QED
  BY <1>1, <1>2, <1>3, <1>4 DEF Panel!Kinds

(* Before anything is shown or asked for.                                  *)
LEMMA PanelBegins ==
  ASSUME Panel!Init
  PROVE  PanelTyped /\ PanelListed
<1> DEFINE fresh == [status |-> "processing", payment |-> "unpaid", note |-> Panel!Empty, result |-> Panel!Empty]
<1>1. /\ panelRow = [o \in Edited |-> fresh] /\ panelListed = panelRow
      /\ panelDetail = [o \in Edited |-> Panel!None] /\ panelLook = [o \in Edited |-> Panel!None]
      /\ panelRelist = Panel!None /\ panelOpen = Null
      /\ panelDraft = [note |-> Panel!Empty, result |-> Panel!Empty]
      /\ panelAsking = Panel!None /\ panelNotice = Panel!None /\ panelCalls = << >>
  BY DEF Panel!Init
<1>2. fresh \in Panel!Order /\ panelDraft \in [note : Panel!Drafted, result : Panel!Drafted]
  BY <1>1 DEF Panel!Order, Panel!Drafted, Panel!Statuses
<1> HIDE DEF fresh
<1>3. panelRow \in [Edited -> Panel!Order] /\ panelListed \in [Edited -> Panel!Order]
  BY <1>1, <1>2
<1>4. /\ panelDetail \in [Edited -> PanelDetail] /\ panelLook \in [Edited -> Panel!Fetch(Panel!Order)]
      /\ panelRelist \in Panel!Fetch([Edited -> Panel!Order])
      /\ panelAsking \in Panel!Asking /\ panelNotice \in Panel!Notice
  BY <1>1 DEF PanelDetail, Panel!Fetch, Panel!Asking, Panel!Notice
<1>5. panelCalls \in Seq(Panel!Call) /\ DOMAIN panelCalls = {}
  BY <1>1
<1>6. panelRelist.kind # "answered"
  BY <1>1 DEF Panel!None
<1> QED
  BY <1>1, <1>2, <1>3, <1>4, <1>5, <1>6 DEF PanelTyped, PanelListed

(* The drafts stay, or are those of the order shown.                       *)
LEMMA PanelDraftsFollow ==
  ASSUME PanelTyped, Panel!Effects(panelDraft), panelOpen' \in Edited \cup {Null},
         panelListed' \in [Edited -> Panel!Order], panelDetail' \in [Edited -> PanelDetail]
  PROVE  panelDraft' \in [note : Panel!Drafted, result : Panel!Drafted]
<1> DEFINE s == Panel!Shown(panelOpen', panelDetail', panelListed')
<1>1. CASE panelDraft' = panelDraft
  BY <1>1 DEF PanelTyped
<1>2. CASE panelDraft' = [note |-> Panel!Empty, result |-> Panel!Empty]
  BY <1>2 DEF Panel!Drafted
<1>3. CASE panelOpen' # Null /\ panelDraft' = [note |-> s.note, result |-> s.result]
  <2>1. s \in Panel!Order
    <3>1. panelDetail'[panelOpen'] \in PanelDetail
      BY <1>3
    <3> QED
      BY <1>3, <3>1 DEF Panel!Shown, PanelDetail, Panel!None
  <2> HIDE DEF s
  <2>2. s.note \in Panel!Drafted /\ s.result \in Panel!Drafted
    BY <2>1 DEF Panel!Order
  <2> QED
    BY <1>3, <2>2
<1> QED
  BY <1>1, <1>2, <1>3 DEF Panel!Effects

(* What the page itself does: no request is begun or served.               *)
LEMMA PanelPageMoves ==
  ASSUME PanelTyped, PanelListed, UNCHANGED <<panelRow, panelCalls>>,
         \/ \E o \in Edited : Panel!Open(o) \/ Panel!ServeDetail(o) \/ Panel!DetailArrives(o)
         \/ Panel!Close
         \/ \E field \in Edits, text \in Panel!Drafted : Panel!Type(field, text)
         \/ \E action \in {"complete", "fail"} : Panel!Ask(action)
         \/ Panel!CancelAsk \/ Panel!ServeList \/ Panel!ListArrives
  PROVE  PanelTyped' /\ PanelListed'
<1>0. /\ panelRow \in [Edited -> Panel!Order] /\ panelListed \in [Edited -> Panel!Order]
      /\ panelDetail \in [Edited -> PanelDetail] /\ panelLook \in [Edited -> Panel!Fetch(Panel!Order)]
      /\ panelRelist \in Panel!Fetch([Edited -> Panel!Order])
      /\ panelOpen \in Edited \cup {Null}
      /\ panelDraft \in [note : Panel!Drafted, result : Panel!Drafted]
      /\ panelAsking \in Panel!Asking /\ panelNotice \in Panel!Notice
      /\ panelAsking # Panel!None => panelAsking.order = panelOpen
  BY DEF PanelTyped
<1>1. Panel!UnderWay' = Panel!UnderWay
  BY DEF Panel!UnderWay
<1>2. /\ Panel!None \in Panel!Fetch(Panel!Order) /\ [kind |-> "sent"] \in Panel!Fetch(Panel!Order)
      /\ Panel!None \in Panel!Fetch([Edited -> Panel!Order])
      /\ \A r \in Panel!Order : [kind |-> "answered", value |-> r] \in Panel!Fetch(Panel!Order)
      /\ \A r \in [Edited -> Panel!Order] : [kind |-> "answered", value |-> r] \in Panel!Fetch([Edited -> Panel!Order])
      /\ \A r \in Panel!Order : [kind |-> "row", value |-> r] \in PanelDetail
      /\ Panel!None \in Panel!Asking /\ Panel!None \in Panel!Notice
  BY DEF Panel!Fetch, PanelDetail, Panel!Asking, Panel!Notice
<1>3. ASSUME NEW f \in Panel!Fetch(Panel!Order), f.kind = "answered"
      PROVE  f.value \in Panel!Order
  BY <1>3 DEF Panel!Fetch, Panel!None
<1>4. ASSUME NEW o \in Edited, Panel!Open(o)
      PROVE  PanelTyped' /\ PanelListed'
  <2>1. /\ panelOpen' = o /\ panelAsking' = Panel!None /\ panelNotice' = Panel!None
        /\ panelLook' = [panelLook EXCEPT ![o] = IF @ = Panel!None THEN [kind |-> "sent"] ELSE @]
        /\ UNCHANGED <<panelListed, panelDetail, panelRelist>> /\ Panel!Effects(panelDraft)
    BY <1>4 DEF Panel!Open, Panel!caches
  <2>2. panelLook' \in [Edited -> Panel!Fetch(Panel!Order)]
    BY <1>0, <1>2, <1>4, <2>1
  <2>3. panelDraft' \in [note : Panel!Drafted, result : Panel!Drafted]
    BY <1>0, <1>4, <2>1, PanelDraftsFollow
  <2> QED
    BY <1>0, <1>1, <1>2, <1>4, <2>1, <2>2, <2>3 DEF PanelTyped, PanelListed
<1>5. ASSUME NEW o \in Edited, Panel!ServeDetail(o)
      PROVE  PanelTyped' /\ PanelListed'
  <2>1. /\ panelLook' = [panelLook EXCEPT ![o] = [kind |-> "answered", value |-> panelRow[o]]]
        /\ UNCHANGED <<panelListed, panelDetail, panelRelist, panelOpen, panelDraft, panelAsking, panelNotice>>
    BY <1>5 DEF Panel!ServeDetail, Panel!caches, Panel!panel
  <2>2. panelLook' \in [Edited -> Panel!Fetch(Panel!Order)]
    BY <1>0, <1>2, <1>5, <2>1
  <2> QED
    BY <1>0, <1>1, <2>1, <2>2 DEF PanelTyped, PanelListed
<1>6. ASSUME NEW o \in Edited, Panel!DetailArrives(o)
      PROVE  PanelTyped' /\ PanelListed'
  <2>1. /\ panelDetail' = [panelDetail EXCEPT ![o] = [kind |-> "row", value |-> panelLook[o].value]]
        /\ panelLook' = [panelLook EXCEPT ![o] = Panel!None] /\ panelLook[o].kind = "answered"
        /\ UNCHANGED <<panelListed, panelRelist, panelOpen, panelAsking, panelNotice>>
        /\ Panel!Effects(panelDraft)
    BY <1>6 DEF Panel!DetailArrives
  <2>2. panelLook[o].value \in Panel!Order
    BY <1>0, <1>3, <1>6, <2>1
  <2>3. panelLook' \in [Edited -> Panel!Fetch(Panel!Order)] /\ panelDetail' \in [Edited -> PanelDetail]
    BY <1>0, <1>2, <1>6, <2>1, <2>2
  <2>4. panelDraft' \in [note : Panel!Drafted, result : Panel!Drafted]
    BY <1>0, <2>1, <2>3, PanelDraftsFollow
  <2> QED
    BY <1>0, <1>1, <2>1, <2>3, <2>4 DEF PanelTyped, PanelListed
<1>7. CASE Panel!Close
  <2>1. /\ panelOpen' = Null /\ panelAsking' = Panel!None /\ panelNotice' = Panel!None
        /\ UNCHANGED <<panelListed, panelDetail, panelLook, panelRelist>> /\ Panel!Effects(panelDraft)
    BY <1>7 DEF Panel!Close, Panel!caches
  <2>2. panelDraft' \in [note : Panel!Drafted, result : Panel!Drafted]
    BY <1>0, <2>1, PanelDraftsFollow
  <2> QED
    BY <1>0, <1>1, <1>2, <2>1, <2>2 DEF PanelTyped, PanelListed
<1>8. ASSUME NEW field \in Edits, NEW text \in Panel!Drafted, Panel!Type(field, text)
      PROVE  PanelTyped' /\ PanelListed'
  <2>1. /\ panelDraft' = [panelDraft EXCEPT ![field] = text]
        /\ UNCHANGED <<panelListed, panelDetail, panelLook, panelRelist, panelOpen, panelAsking, panelNotice>>
    BY <1>8 DEF Panel!Type, Panel!caches
  <2>2. field \in {"note", "result"}
    BY <1>8, PanelAssumption DEF Panel!PanelAssumption
  <2>3. panelDraft' \in [note : Panel!Drafted, result : Panel!Drafted]
    BY <1>0, <1>8, <2>1, <2>2
  <2> QED
    BY <1>0, <1>1, <2>1, <2>3 DEF PanelTyped, PanelListed
<1>9. ASSUME NEW action \in {"complete", "fail"}, Panel!Ask(action)
      PROVE  PanelTyped' /\ PanelListed'
  <2>1. /\ panelAsking' = [kind |-> action, order |-> panelOpen, text |-> panelDraft[Panel!FieldOf(action)]]
        /\ panelOpen # Null /\ panelDraft[Panel!FieldOf(action)] # Panel!Empty
        /\ UNCHANGED <<panelListed, panelDetail, panelLook, panelRelist, panelOpen, panelDraft, panelNotice>>
    BY <1>9 DEF Panel!Ask, Panel!caches
  <2>2. panelDraft[Panel!FieldOf(action)] \in Texts
    BY <1>0, <2>1 DEF Panel!FieldOf, Panel!Drafted
  <2>3. panelAsking' \in Panel!Asking /\ panelAsking'.order = panelOpen
    BY <1>0, <1>9, <2>1, <2>2 DEF Panel!Asking
  <2> QED
    BY <1>0, <1>1, <2>1, <2>3 DEF PanelTyped, PanelListed
<1>10. CASE Panel!CancelAsk
  <2>1. /\ panelAsking' = Panel!None
        /\ UNCHANGED <<panelListed, panelDetail, panelLook, panelRelist, panelOpen, panelDraft, panelNotice>>
    BY <1>10 DEF Panel!CancelAsk, Panel!caches
  <2> QED
    BY <1>0, <1>1, <1>2, <2>1 DEF PanelTyped, PanelListed
<1>11. CASE Panel!ServeList
  <2>1. /\ panelRelist' = [kind |-> "answered", value |-> panelRow]
        /\ UNCHANGED <<panelListed, panelDetail, panelLook, panelOpen, panelDraft, panelAsking, panelNotice>>
    BY <1>11 DEF Panel!ServeList, Panel!caches, Panel!panel
  <2>2. panelRelist' # Panel!None
    BY <2>1 DEF Panel!None
  <2> QED
    BY <1>0, <1>1, <1>2, <2>1, <2>2 DEF PanelTyped, PanelListed
<1>12. CASE Panel!ListArrives
  <2>1. /\ panelListed' = panelRelist.value /\ panelRelist' = Panel!None /\ panelRelist.kind = "answered"
        /\ UNCHANGED <<panelDetail, panelLook, panelOpen, panelAsking, panelNotice>>
        /\ Panel!Effects(panelDraft)
    BY <1>12 DEF Panel!ListArrives
  <2>2. panelListed' \in [Edited -> Panel!Order]
    BY <1>0, <2>1 DEF Panel!Fetch, Panel!None
  <2>3. panelDraft' \in [note : Panel!Drafted, result : Panel!Drafted]
    BY <1>0, <2>1, <2>2, PanelDraftsFollow
  <2>4. panelRelist'.kind # "answered"
    BY <2>1 DEF Panel!None
  <2> QED
    BY <1>0, <1>1, <1>2, <2>1, <2>2, <2>3, <2>4 DEF PanelTyped, PanelListed
<1> QED
  BY <1>4, <1>5, <1>6, <1>7, <1>8, <1>9, <1>10, <1>11, <1>12

(* A request that the panel begins: what it asks for fits, and nothing     *)
(* else changes but the question, if it was confirmed.                     *)
LEMMA PanelBeginMoves ==
  ASSUME PanelTyped,
         \/ \E kind \in Selects, value \in Panel!Statuses \cup {"unpaid", "paid", "error"} : Panel!Choose(kind, value)
         \/ \E field \in Edits : Panel!Save(field)
         \/ Panel!ConfirmAsk
  PROVE  \E c \in Panel!Call :
           /\ panelCalls' = Append(panelCalls, c)
           /\ PanelFits(c) /\ c.pc = "sent"
           /\ \/ c.next = "none" /\ c.kind \in Selects \cup Edits
              \/ /\ panelAsking # Panel!None /\ c.value = panelAsking.text
                 /\ \/ c.next = "completed" /\ c.kind = "result"
                    \/ c.next = "failed" /\ c.kind = "note"
           /\ Panel!MayStart(1) \/ Panel!MayStart(2)
           /\ panelAsking' \in {panelAsking, Panel!None}
           /\ UNCHANGED <<panelRow, panelListed, panelDetail, panelLook, panelRelist, panelOpen, panelDraft, panelNotice>>
<1>0. /\ panelRow \in [Edited -> Panel!Order] /\ panelOpen \in Edited \cup {Null}
      /\ panelDraft \in [note : Panel!Drafted, result : Panel!Drafted] /\ panelAsking \in Panel!Asking
      /\ Edits \subseteq {"note", "result"} /\ Selects \subseteq {"status", "payment"}
  BY PanelAssumption DEF PanelTyped, Panel!PanelAssumption
<1>1. ASSUME NEW kind \in Panel!Kinds, NEW o \in Edited,
             NEW value \in Panel!Statuses \cup {"unpaid", "paid", "error"} \cup Panel!Drafted,
             NEW next \in Panel!Statuses \cup {"none"}, NEW by \in {"panel", "dialog"}
      PROVE  /\ Panel!NewCall(kind, o, value, next, by) \in Panel!Call
             /\ Panel!NewCall(kind, o, value, next, by).pc = "sent"
             /\ Panel!NewCall(kind, o, value, next, by).next = next
             /\ Panel!NewCall(kind, o, value, next, by).kind = kind
             /\ Panel!NewCall(kind, o, value, next, by).value = value
  <2>1. panelRow[o] \in Panel!Order
    BY <1>0, <1>1
  <2> QED
    BY <1>1, <2>1 DEF Panel!NewCall, Panel!Call
<1>2. ASSUME NEW kind \in Selects, NEW value \in Panel!Statuses \cup {"unpaid", "paid", "error"}, Panel!Choose(kind, value)
      PROVE  /\ panelCalls' = Append(panelCalls, Panel!NewCall(kind, panelOpen, value, "none", "panel"))
             /\ Panel!NewCall(kind, panelOpen, value, "none", "panel") \in Panel!Call
             /\ PanelFits(Panel!NewCall(kind, panelOpen, value, "none", "panel"))
             /\ Panel!NewCall(kind, panelOpen, value, "none", "panel").pc = "sent"
             /\ Panel!NewCall(kind, panelOpen, value, "none", "panel").next = "none"
             /\ Panel!NewCall(kind, panelOpen, value, "none", "panel").kind = kind
             /\ Panel!MayStart(1) /\ panelAsking' = panelAsking
             /\ UNCHANGED <<panelRow, panelListed, panelDetail, panelLook, panelRelist, panelOpen, panelDraft, panelNotice>>
  <2> DEFINE c == Panel!NewCall(kind, panelOpen, value, "none", "panel")
  <2>1. /\ panelCalls' = Append(panelCalls, c) /\ Panel!MayStart(1) /\ panelAsking' = panelAsking /\ panelOpen # Null
        /\ value \in IF kind = "status" THEN {"processing", "completed", "error"} ELSE {"unpaid", "paid"}
        /\ UNCHANGED <<panelRow, panelListed, panelDetail, panelLook, panelRelist, panelOpen, panelDraft, panelNotice>>
    BY <1>2 DEF Panel!Choose, Panel!Start, Panel!caches
  <2>2. kind \in {"status", "payment"} /\ kind \in Panel!Kinds /\ panelOpen \in Edited
    BY <1>0, <1>2, <2>1 DEF Panel!Kinds
  <2>3. /\ c \in Panel!Call /\ c.pc = "sent" /\ c.next = "none" /\ c.kind = kind /\ c.value = value
    <3>1. /\ value \in Panel!Statuses \cup {"unpaid", "paid", "error"} \cup Panel!Drafted
          /\ "none" \in Panel!Statuses \cup {"none"}
      BY <1>2
    <3> QED
      BY <1>1, <2>2, <3>1
  <2> HIDE DEF c
  <2>4. PanelFits(c)
    BY <2>1, <2>2, <2>3 DEF PanelFits, Panel!Statuses
  <2> QED
    BY <2>1, <2>3, <2>4 DEF c
<1>3. ASSUME NEW field \in Edits, Panel!Save(field)
      PROVE  /\ panelCalls' = Append(panelCalls, Panel!NewCall(field, panelOpen, panelDraft[field], "none", "panel"))
             /\ Panel!NewCall(field, panelOpen, panelDraft[field], "none", "panel") \in Panel!Call
             /\ PanelFits(Panel!NewCall(field, panelOpen, panelDraft[field], "none", "panel"))
             /\ Panel!NewCall(field, panelOpen, panelDraft[field], "none", "panel").pc = "sent"
             /\ Panel!NewCall(field, panelOpen, panelDraft[field], "none", "panel").next = "none"
             /\ Panel!NewCall(field, panelOpen, panelDraft[field], "none", "panel").kind = field
             /\ Panel!MayStart(1) /\ panelAsking' = panelAsking
             /\ UNCHANGED <<panelRow, panelListed, panelDetail, panelLook, panelRelist, panelOpen, panelDraft, panelNotice>>
  <2> DEFINE c == Panel!NewCall(field, panelOpen, panelDraft[field], "none", "panel")
  <2>1. /\ panelCalls' = Append(panelCalls, c) /\ Panel!MayStart(1) /\ panelAsking' = panelAsking /\ panelOpen # Null
        /\ UNCHANGED <<panelRow, panelListed, panelDetail, panelLook, panelRelist, panelOpen, panelDraft, panelNotice>>
    BY <1>3 DEF Panel!Save, Panel!Start, Panel!caches
  <2>2. field \in {"note", "result"} /\ field \in Panel!Kinds /\ panelOpen \in Edited
    BY <1>0, <1>3, <2>1 DEF Panel!Kinds
  <2>3. panelDraft[field] \in Panel!Drafted
    BY <1>0, <2>2
  <2>4. /\ c \in Panel!Call /\ c.pc = "sent" /\ c.next = "none" /\ c.kind = field /\ c.value = panelDraft[field]
    BY <1>1, <2>2, <2>3
  <2> HIDE DEF c
  <2>5. PanelFits(c)
    BY <2>2, <2>3, <2>4 DEF PanelFits
  <2> QED
    BY <2>1, <2>4, <2>5 DEF c
<1>4. ASSUME Panel!ConfirmAsk
      PROVE  \E c \in Panel!Call :
               /\ panelCalls' = Append(panelCalls, c)
               /\ PanelFits(c) /\ c.pc = "sent"
               /\ panelAsking # Panel!None /\ c.value = panelAsking.text
               /\ \/ c.next = "completed" /\ c.kind = "result"
                  \/ c.next = "failed" /\ c.kind = "note"
               /\ Panel!MayStart(2) /\ panelAsking' = Panel!None
               /\ UNCHANGED <<panelRow, panelListed, panelDetail, panelLook, panelRelist, panelOpen, panelDraft, panelNotice>>
  <2> DEFINE field == Panel!FieldOf(panelAsking.kind)
             next == IF panelAsking.kind = "complete" THEN "completed" ELSE "failed"
             c == Panel!NewCall(field, panelAsking.order, panelAsking.text, next, "dialog")
  <2>1. /\ panelAsking # Panel!None /\ Panel!MayStart(2) /\ panelAsking' = Panel!None
        /\ panelCalls' = Append(panelCalls, c)
        /\ UNCHANGED <<panelRow, panelListed, panelDetail, panelLook, panelRelist, panelOpen, panelDraft, panelNotice>>
    BY <1>4 DEF Panel!ConfirmAsk, Panel!Start, Panel!caches
  <2>2. panelAsking.order \in Edited /\ panelAsking.text \in Texts
    BY <1>0, <2>1 DEF Panel!Asking
  <2>3. /\ next \in Panel!Statuses /\ field \in {"note", "result"} /\ field \in Panel!Kinds
        /\ \/ next = "completed" /\ field = "result"
           \/ next = "failed" /\ field = "note"
    BY DEF Panel!FieldOf, Panel!Statuses, Panel!Kinds
  <2>4. panelAsking.text \in Panel!Drafted
    BY <2>2 DEF Panel!Drafted
  <2> HIDE DEF field, next
  <2>5. /\ c \in Panel!Call /\ c.pc = "sent" /\ c.next = next /\ c.kind = field /\ c.value = panelAsking.text
    BY <1>1, <2>2, <2>3, <2>4
  <2> HIDE DEF c
  <2>6. PanelFits(c)
    BY <2>3, <2>4, <2>5 DEF PanelFits
  <2> QED
    BY <2>1, <2>3, <2>5, <2>6
<1>5. CASE \E kind \in Selects, value \in Panel!Statuses \cup {"unpaid", "paid", "error"} : Panel!Choose(kind, value)
  <2>1. PICK kind \in Selects, value \in Panel!Statuses \cup {"unpaid", "paid", "error"} : Panel!Choose(kind, value)
    BY <1>5
  <2> DEFINE c == Panel!NewCall(kind, panelOpen, value, "none", "panel")
  <2>2. /\ panelCalls' = Append(panelCalls, c) /\ c \in Panel!Call /\ PanelFits(c) /\ c.pc = "sent" /\ c.next = "none"
        /\ c.kind = kind /\ Panel!MayStart(1) /\ panelAsking' = panelAsking
        /\ UNCHANGED <<panelRow, panelListed, panelDetail, panelLook, panelRelist, panelOpen, panelDraft, panelNotice>>
    BY <1>2, <2>1
  <2> HIDE DEF c
  <2> QED
    BY <2>1, <2>2
<1>6. CASE \E field \in Edits : Panel!Save(field)
  <2>1. PICK field \in Edits : Panel!Save(field)
    BY <1>6
  <2> DEFINE c == Panel!NewCall(field, panelOpen, panelDraft[field], "none", "panel")
  <2>2. /\ panelCalls' = Append(panelCalls, c) /\ c \in Panel!Call /\ PanelFits(c) /\ c.pc = "sent" /\ c.next = "none"
        /\ c.kind = field /\ Panel!MayStart(1) /\ panelAsking' = panelAsking
        /\ UNCHANGED <<panelRow, panelListed, panelDetail, panelLook, panelRelist, panelOpen, panelDraft, panelNotice>>
    BY <1>3, <2>1
  <2> HIDE DEF c
  <2> QED
    BY <2>1, <2>2
<1>7. CASE Panel!ConfirmAsk
  <2>1. PICK c \in Panel!Call :
               /\ panelCalls' = Append(panelCalls, c)
               /\ PanelFits(c) /\ c.pc = "sent"
               /\ panelAsking # Panel!None /\ c.value = panelAsking.text
               /\ \/ c.next = "completed" /\ c.kind = "result"
                  \/ c.next = "failed" /\ c.kind = "note"
               /\ Panel!MayStart(2) /\ panelAsking' = Panel!None
               /\ UNCHANGED <<panelRow, panelListed, panelDetail, panelLook, panelRelist, panelOpen, panelDraft, panelNotice>>
    BY <1>4, <1>7
  <2> QED
    BY <2>1
<1> QED
  BY <1>5, <1>6, <1>7

(* It is under way then.                                                   *)
LEMMA PanelBeginKeeps ==
  ASSUME PanelTyped, NEW c \in Panel!Call, panelCalls' = Append(panelCalls, c),
         PanelFits(c), c.pc = "sent", panelAsking' \in {panelAsking, Panel!None},
         UNCHANGED <<panelRow, panelListed, panelDetail, panelLook, panelRelist, panelOpen, panelDraft, panelNotice>>
  PROVE  /\ PanelTyped' /\ PanelListed'
         /\ DOMAIN panelCalls' = DOMAIN panelCalls \cup {Len(panelCalls) + 1}
         /\ panelCalls'[Len(panelCalls) + 1] = c
         /\ \A i \in DOMAIN panelCalls : panelCalls'[i] = panelCalls[i]
<1>1. /\ panelCalls' \in Seq(Panel!Call) /\ DOMAIN panelCalls' = DOMAIN panelCalls \cup {Len(panelCalls) + 1}
      /\ panelCalls'[Len(panelCalls) + 1] = c
      /\ \A i \in DOMAIN panelCalls : panelCalls'[i] = panelCalls[i]
  BY PanelCalls DEF PanelTyped
<1>2. \A i \in DOMAIN panelCalls' : PanelFits(panelCalls'[i])
  BY <1>1 DEF PanelTyped
<1>3. panelAsking' \in Panel!Asking /\ (panelAsking' # Panel!None => panelAsking'.order = panelOpen')
  BY DEF PanelTyped, Panel!Asking
<1>4. PanelTyped'
  BY <1>1, <1>2, <1>3 DEF PanelTyped
<1>5. Len(panelCalls) + 1 \in Panel!UnderWay'
  <2>1. DOMAIN panelCalls' = 1 .. Len(panelCalls')
    BY <1>1, PanelCalls
  <2> QED
    BY <1>1, <2>1 DEF Panel!UnderWay, Panel!Over
<1>6. PanelListed'
  BY <1>5 DEF PanelListed
<1> QED
  BY <1>1, <1>4, <1>6

(* The server does what it is asked, or refuses, or its answer is lost:    *)
(* the request is still under way.                                         *)
LEMMA PanelServeMoves ==
  ASSUME PanelTyped, NEW i \in 1 .. Len(panelCalls), Panel!Serve(i) \/ Panel!Lose(i)
  PROVE  /\ PanelTyped' /\ PanelListed' /\ i \in Panel!UnderWay /\ i \in Panel!UnderWay'
         /\ DOMAIN panelCalls' = DOMAIN panelCalls /\ i \in DOMAIN panelCalls
         /\ \A j \in DOMAIN panelCalls : j # i => panelCalls'[j] = panelCalls[j]
         /\ UNCHANGED <<panelListed, panelDetail, panelLook, panelRelist, panelOpen, panelDraft, panelAsking, panelNotice>>
         /\ panelCalls[i] \in Panel!Call /\ panelCalls[i].order \in Edited
         /\ \A f \in {"kind", "order", "value", "next", "by"} : panelCalls'[i][f] = panelCalls[i][f]
         /\ \/ /\ panelCalls[i].pc = "sent" /\ panelCalls'[i].pc = "answered"
               /\ panelCalls'[i].answer = panelRow'[panelCalls[i].order]
               /\ panelRow'[panelCalls[i].order][panelCalls[i].kind] = panelCalls[i].value
               /\ \A f \in Panel!Kinds : f # panelCalls[i].kind =>
                    panelRow'[panelCalls[i].order][f] = panelRow[panelCalls[i].order][f]
               /\ \A o \in Edited : o # panelCalls[i].order => panelRow'[o] = panelRow[o]
            \/ panelCalls[i].pc = "sent" /\ panelCalls'[i].pc = "refused" /\ panelRow' = panelRow
            \/ panelCalls[i].pc = "answered" /\ panelCalls'[i].pc = "dropped" /\ panelRow' = panelRow
<1> DEFINE c == panelCalls[i]
<1>0. /\ i \in DOMAIN panelCalls /\ c \in Panel!Call /\ c.order \in Edited /\ c.kind \in Panel!Kinds
      /\ PanelFits(c) /\ panelCalls \in Seq(Panel!Call) /\ panelRow \in [Edited -> Panel!Order]
      /\ DOMAIN panelCalls = 1 .. Len(panelCalls)
  <2>1. panelCalls \in Seq(Panel!Call) /\ panelRow \in [Edited -> Panel!Order]
        /\ \A j \in DOMAIN panelCalls : PanelFits(panelCalls[j])
    BY DEF PanelTyped
  <2>2. DOMAIN panelCalls = 1 .. Len(panelCalls) /\ i \in DOMAIN panelCalls /\ c \in Panel!Call
    BY <2>1, PanelCalls
  <2> QED
    BY <2>1, <2>2 DEF Panel!Call
<1>1. UNCHANGED <<panelListed, panelDetail, panelLook, panelRelist, panelOpen, panelDraft, panelAsking, panelNotice>>
  BY DEF Panel!Serve, Panel!Lose, Panel!caches, Panel!panel
<1>2. ASSUME NEW d \in Panel!Call, panelCalls' = [panelCalls EXCEPT ![i] = d], c.pc \in {"sent", "answered"},
             d.pc \in {"answered", "refused", "dropped"}, PanelFits(d), panelRow' \in [Edited -> Panel!Order]
      PROVE  /\ PanelTyped' /\ PanelListed' /\ i \in Panel!UnderWay /\ i \in Panel!UnderWay'
             /\ DOMAIN panelCalls' = DOMAIN panelCalls /\ panelCalls'[i] = d
             /\ \A j \in DOMAIN panelCalls : j # i => panelCalls'[j] = panelCalls[j]
  <2>1. /\ panelCalls' \in Seq(Panel!Call) /\ DOMAIN panelCalls' = DOMAIN panelCalls /\ panelCalls'[i] = d
        /\ \A j \in DOMAIN panelCalls : j # i => panelCalls'[j] = panelCalls[j]
    BY <1>0, <1>2, PanelCalls
  <2>2. \A j \in DOMAIN panelCalls' : PanelFits(panelCalls'[j])
    BY <1>2, <2>1 DEF PanelTyped
  <2>3. PanelTyped'
    BY <1>1, <1>2, <2>1, <2>2 DEF PanelTyped
  <2>4. DOMAIN panelCalls' = 1 .. Len(panelCalls')
    BY <2>1, PanelCalls
  <2>5. i \in Panel!UnderWay /\ i \in Panel!UnderWay'
    BY <1>0, <1>2, <2>1, <2>4 DEF Panel!UnderWay, Panel!Over
  <2>6. PanelListed'
    BY <2>5 DEF PanelListed
  <2> QED
    BY <2>1, <2>3, <2>5, <2>6
<1>3. ASSUME NEW pc \in {"answered", "refused", "dropped"}, NEW answer \in Panel!Order
      PROVE  LET d == [kind |-> c.kind, order |-> c.order, value |-> c.value, next |-> c.next, by |-> c.by,
                       pc |-> pc, answer |-> answer]
             IN  /\ d \in Panel!Call /\ d.pc = pc /\ d.answer = answer /\ PanelFits(d)
                 /\ \A f \in {"kind", "order", "value", "next", "by"} : d[f] = c[f]
  <2>1. /\ c.kind \in Panel!Kinds /\ c.order \in Edited /\ c.next \in Panel!Statuses \cup {"none"}
        /\ c.value \in Panel!Statuses \cup {"unpaid", "paid", "error"} \cup Panel!Drafted
    BY <1>0 DEF Panel!Call
  <2>3. c.by \in {"panel", "dialog"}
    BY <1>0 DEF Panel!Call
  <2> HIDE DEF c
  <2>2. PanelFits(c)
    BY <1>0 DEF c
  <2> QED
    BY <1>3, <2>1, <2>2, <2>3 DEF Panel!Call, PanelFits
<1>4. CASE Panel!Lose(i)
  <2> DEFINE d == [kind |-> c.kind, order |-> c.order, value |-> c.value, next |-> c.next, by |-> c.by,
                   pc |-> "dropped", answer |-> c.answer]
  <2>1. c.pc = "answered" /\ panelCalls' = [panelCalls EXCEPT ![i].pc = "dropped"] /\ panelRow' = panelRow
    BY <1>4 DEF Panel!Lose
  <2>2. c.answer \in Panel!Order /\ [c EXCEPT !.pc = "dropped"] = d
    BY <1>0 DEF Panel!Call
  <2>3. panelCalls' = [panelCalls EXCEPT ![i] = d]
    BY <1>0, <2>1, <2>2
  <2>4. /\ d \in Panel!Call /\ d.pc = "dropped" /\ PanelFits(d)
        /\ \A f \in {"kind", "order", "value", "next", "by"} : d[f] = c[f]
    BY <1>3, <2>2
  <2> HIDE DEF d
  <2>5. /\ PanelTyped' /\ PanelListed' /\ i \in Panel!UnderWay /\ i \in Panel!UnderWay'
        /\ DOMAIN panelCalls' = DOMAIN panelCalls /\ panelCalls'[i] = d
        /\ \A j \in DOMAIN panelCalls : j # i => panelCalls'[j] = panelCalls[j]
    BY <1>0, <1>2, <2>1, <2>3, <2>4
  <2> QED
    BY <1>0, <1>1, <2>1, <2>4, <2>5
<1>5. CASE Panel!Serve(i)
  <2>1. /\ c.pc = "sent"
        /\ \/ /\ c.value # "error"
              /\ panelRow' = [panelRow EXCEPT ![c.order][c.kind] = c.value]
              /\ panelCalls' = [panelCalls EXCEPT ![i].pc = "answered", ![i].answer = panelRow'[c.order]]
           \/ panelCalls' = [panelCalls EXCEPT ![i].pc = "refused"] /\ panelRow' = panelRow
    BY <1>5 DEF Panel!Serve
  <2>2. CASE panelCalls' = [panelCalls EXCEPT ![i].pc = "refused"] /\ panelRow' = panelRow
    <3> DEFINE d == [kind |-> c.kind, order |-> c.order, value |-> c.value, next |-> c.next, by |-> c.by,
                     pc |-> "refused", answer |-> c.answer]
    <3>1. c.answer \in Panel!Order /\ [c EXCEPT !.pc = "refused"] = d
      BY <1>0 DEF Panel!Call
    <3>2. panelCalls' = [panelCalls EXCEPT ![i] = d]
      BY <1>0, <2>2, <3>1
    <3>3. /\ d \in Panel!Call /\ d.pc = "refused" /\ PanelFits(d)
          /\ \A f \in {"kind", "order", "value", "next", "by"} : d[f] = c[f]
      BY <1>3, <3>1
    <3> HIDE DEF d
    <3>4. /\ PanelTyped' /\ PanelListed' /\ i \in Panel!UnderWay /\ i \in Panel!UnderWay'
          /\ DOMAIN panelCalls' = DOMAIN panelCalls /\ panelCalls'[i] = d
          /\ \A j \in DOMAIN panelCalls : j # i => panelCalls'[j] = panelCalls[j]
      BY <1>0, <1>2, <2>1, <2>2, <3>2, <3>3
    <3> QED
      BY <1>0, <1>1, <2>1, <2>2, <3>3, <3>4
  <2>3. CASE /\ c.value # "error"
             /\ panelRow' = [panelRow EXCEPT ![c.order][c.kind] = c.value]
             /\ panelCalls' = [panelCalls EXCEPT ![i].pc = "answered", ![i].answer = panelRow'[c.order]]
    <3> DEFINE n == [panelRow[c.order] EXCEPT ![c.kind] = c.value]
               e == [c EXCEPT !.pc = "answered"]
               d == [e EXCEPT !.answer = n]
    <3>1. panelRow[c.order] \in Panel!Order
      BY <1>0
    <3>2. /\ n \in Panel!Order /\ n[c.kind] = c.value
          /\ \A f \in Panel!Kinds : f # c.kind => n[f] = panelRow[c.order][f]
      <4> HIDE DEF c
      <4> QED
        BY <1>0, <2>3, <3>1, PanelOrderSet
    <3>3. panelRow' = [panelRow EXCEPT ![c.order] = n]
      BY <1>0, <2>3
    <3> HIDE DEF n
    <3>4. /\ panelRow' \in [Edited -> Panel!Order] /\ panelRow'[c.order] = n
          /\ \A o \in Edited : o # c.order => panelRow'[o] = panelRow[o]
      BY <1>0, <3>2, <3>3
    <3>5. e \in Panel!Call /\ d \in Panel!Call
      BY <1>0, <3>2 DEF Panel!Call
    <3>6. panelCalls' = [panelCalls EXCEPT ![i] = d]
      <4>1. panelCalls' = [panelCalls EXCEPT ![i].pc = "answered", ![i].answer = n]
        BY <2>3, <3>4
      <4>2. [panelCalls EXCEPT ![i].pc = "answered", ![i].answer = n] = [panelCalls EXCEPT ![i] = d]
        BY <1>0
      <4> QED
        BY <4>1, <4>2
    <3>7. /\ d.pc = "answered" /\ d.answer = n /\ PanelFits(d)
          /\ \A f \in {"kind", "order", "value", "next", "by"} : d[f] = c[f]
      <4>1. /\ d.kind = c.kind /\ d.order = c.order /\ d.value = c.value /\ d.next = c.next
            /\ d.by = c.by /\ d.pc = "answered" /\ d.answer = n
        BY <1>0 DEF Panel!Call
      <4> HIDE DEF c, d
      <4> QED
        BY <1>0, <4>1 DEF PanelFits
    <3> HIDE DEF d
    <3>8. /\ PanelTyped' /\ PanelListed' /\ i \in Panel!UnderWay /\ i \in Panel!UnderWay'
          /\ DOMAIN panelCalls' = DOMAIN panelCalls /\ panelCalls'[i] = d
          /\ \A j \in DOMAIN panelCalls : j # i => panelCalls'[j] = panelCalls[j]
      BY <1>0, <1>2, <2>1, <3>4, <3>5, <3>6, <3>7
    <3> QED
      BY <1>0, <1>1, <2>1, <3>2, <3>4, <3>7, <3>8
  <2> QED
    BY <2>1, <2>2, <2>3
<1> QED
  BY <1>4, <1>5

(* The page hears of a request: it is over, the list is fetched again, and *)
(* the status may follow the text.                                         *)
LEMMA PanelReceiveMoves ==
  ASSUME PanelTyped, NEW i \in 1 .. Len(panelCalls), Panel!Receive(i)
  PROVE  LET c == panelCalls[i]
             follows == c.pc = "answered" /\ c.next # "none"
             n == Len(panelCalls) + 1
         IN  /\ PanelTyped' /\ PanelListed' /\ i \in Panel!UnderWay /\ i \in DOMAIN panelCalls
             /\ c \in Panel!Call /\ c.order \in Edited
             /\ c.pc \in {"answered", "refused", "dropped"}
             /\ n \notin DOMAIN panelCalls
             /\ DOMAIN panelCalls' = IF follows THEN DOMAIN panelCalls \cup {n} ELSE DOMAIN panelCalls
             /\ follows => /\ panelCalls'[n].pc = "sent" /\ panelCalls'[n].next = "none"
                           /\ panelCalls'[n].kind = "status" /\ panelCalls'[n].order = c.order
                           /\ panelCalls'[n].value = c.next
             /\ \A j \in DOMAIN panelCalls : j # i => panelCalls'[j] = panelCalls[j]
             /\ panelCalls'[i].order = c.order
             /\ panelCalls'[i].kind = c.kind /\ panelCalls'[i].next = c.next /\ panelCalls'[i].value = c.value
             /\ panelCalls'[i].pc = IF c.pc = "dropped" THEN "lost" ELSE "done"
             /\ panelRelist' = [kind |-> "sent"]
             /\ UNCHANGED <<panelRow, panelLook, panelOpen, panelAsking>>
             /\ \/ /\ c.pc = "answered"
                   /\ \A o \in Edited : panelDetail'[o] = IF o = c.order /\ panelDetail[o] # Panel!None
                                                         THEN [kind |-> "row", value |-> c.answer]
                                                         ELSE panelDetail[o]
                \/ c.pc # "answered" /\ panelDetail' = panelDetail
<1> DEFINE c == panelCalls[i]
           n == Len(panelCalls) + 1
           pc == IF c.pc = "dropped" THEN "lost" ELSE "done"
           d == [c EXCEPT !.pc = pc]
           done == [panelCalls EXCEPT ![i] = d]
           new == Panel!NewCall("status", c.order, c.next, "none", "dialog")
           follows == c.pc = "answered" /\ c.next # "none"
<1>0. /\ i \in DOMAIN panelCalls /\ c \in Panel!Call /\ c.order \in Edited
      /\ PanelFits(c) /\ panelCalls \in Seq(Panel!Call) /\ panelRow \in [Edited -> Panel!Order]
      /\ DOMAIN panelCalls = 1 .. Len(panelCalls) /\ Len(panelCalls) \in Nat
      /\ panelDetail \in [Edited -> PanelDetail] /\ panelListed \in [Edited -> Panel!Order]
      /\ panelOpen \in Edited \cup {Null}
  <2>1. panelCalls \in Seq(Panel!Call) /\ panelRow \in [Edited -> Panel!Order]
        /\ \A j \in DOMAIN panelCalls : PanelFits(panelCalls[j])
    BY DEF PanelTyped
  <2>2. DOMAIN panelCalls = 1 .. Len(panelCalls) /\ i \in DOMAIN panelCalls /\ c \in Panel!Call
        /\ Len(panelCalls) \in Nat
    BY <2>1, PanelCalls
  <2> QED
    BY <2>1, <2>2 DEF Panel!Call, PanelTyped
<1>1. n \notin DOMAIN panelCalls
  BY <1>0
<1>2. /\ c.pc \in {"answered", "refused", "dropped"}
      /\ IF c.pc = "answered" THEN Panel!Patch(c.order, c.answer) ELSE UNCHANGED <<panelListed, panelDetail>>
      /\ panelCalls' = IF follows THEN Append(done, new) ELSE done
      /\ panelRelist' = [kind |-> "sent"] /\ panelNotice' = Panel!Tell(c)
      /\ UNCHANGED <<panelRow, panelLook, panelOpen, panelAsking>> /\ Panel!Effects(panelDraft)
  BY <1>0 DEF Panel!Receive, Panel!caches
<1>3. /\ d \in Panel!Call /\ d.pc = pc /\ d.kind = c.kind /\ d.order = c.order /\ d.value = c.value /\ d.next = c.next
  BY <1>0 DEF Panel!Call
<1>4. PanelFits(d)
  <2> HIDE DEF c, d
  <2> QED
    BY <1>0, <1>3 DEF PanelFits
<1>5. ASSUME follows
      PROVE  /\ new \in Panel!Call /\ new.pc = "sent" /\ new.next = "none" /\ new.kind = "status"
             /\ new.order = c.order /\ new.value = c.next /\ PanelFits(new)
  <2>1. c.next \in Panel!Statuses /\ panelRow[c.order] \in Panel!Order
    BY <1>0, <1>5 DEF Panel!Call
  <2> HIDE DEF c
  <2> QED
    BY <1>0, <2>1 DEF Panel!NewCall, Panel!Call, Panel!Kinds, PanelFits
<1> HIDE DEF d
<1>6. /\ done \in Seq(Panel!Call) /\ DOMAIN done = DOMAIN panelCalls /\ done[i] = d
      /\ \A j \in DOMAIN panelCalls : j # i => done[j] = panelCalls[j]
  BY <1>0, <1>3, PanelCalls
<1> HIDE DEF done, new
<1>7. Len(done) = Len(panelCalls)
  BY <1>0, <1>6, PanelCalls
<1>8. follows => /\ Append(done, new) \in Seq(Panel!Call)
                 /\ DOMAIN Append(done, new) = DOMAIN done \cup {n}
                 /\ Append(done, new)[n] = new
                 /\ \A j \in DOMAIN done : Append(done, new)[j] = done[j]
  BY <1>5, <1>6, <1>7, PanelCalls
<1>9. /\ panelCalls' \in Seq(Panel!Call)
      /\ DOMAIN panelCalls' = IF follows THEN DOMAIN panelCalls \cup {n} ELSE DOMAIN panelCalls
      /\ panelCalls'[i] = d /\ (follows => panelCalls'[n] = new)
      /\ \A j \in DOMAIN panelCalls : j # i => panelCalls'[j] = panelCalls[j]
  BY <1>0, <1>2, <1>6, <1>8
<1>10. \A j \in DOMAIN panelCalls' : PanelFits(panelCalls'[j])
  BY <1>4, <1>5, <1>9 DEF PanelTyped
<1>11. /\ panelDetail' \in [Edited -> PanelDetail] /\ panelListed' \in [Edited -> Panel!Order]
       /\ \/ /\ c.pc = "answered"
             /\ \A o \in Edited : panelDetail'[o] = IF o = c.order /\ panelDetail[o] # Panel!None
                                                   THEN [kind |-> "row", value |-> c.answer]
                                                   ELSE panelDetail[o]
          \/ c.pc # "answered" /\ panelDetail' = panelDetail
  <2>1. CASE c.pc # "answered"
    BY <1>0, <1>2, <2>1
  <2>2. CASE c.pc = "answered"
    <3>1. /\ panelListed' = [panelListed EXCEPT ![c.order] = c.answer]
          /\ panelDetail' = [panelDetail EXCEPT ![c.order] = IF @ = Panel!None THEN Panel!None
                                                            ELSE [kind |-> "row", value |-> c.answer]]
      BY <1>2, <2>2 DEF Panel!Patch
    <3>2. c.answer \in Panel!Order
      BY <1>0 DEF Panel!Call
    <3> HIDE DEF c
    <3>3. [kind |-> "row", value |-> c.answer] \in PanelDetail /\ Panel!None \in PanelDetail
      BY <3>2 DEF PanelDetail
    <3>4. panelDetail' \in [Edited -> PanelDetail] /\ panelListed' \in [Edited -> Panel!Order]
      BY <1>0, <3>1, <3>2, <3>3
    <3>5. \A o \in Edited : panelDetail'[o] = IF o = c.order /\ panelDetail[o] # Panel!None
                                             THEN [kind |-> "row", value |-> c.answer]
                                             ELSE panelDetail[o]
      BY <1>0, <3>1
    <3> QED
      BY <2>2, <3>4, <3>5
  <2> QED
    BY <2>1, <2>2
<1>12. panelDraft' \in [note : Panel!Drafted, result : Panel!Drafted]
  BY <1>0, <1>2, <1>11, PanelDraftsFollow
<1>13. panelNotice' \in Panel!Notice
  <2>1. panelNotice \in Panel!Notice
    BY DEF PanelTyped
  <2> HIDE DEF c
  <2> QED
    BY <1>0, <1>2, <2>1 DEF Panel!Tell, Panel!Notice
<1>14. panelRelist' \in Panel!Fetch([Edited -> Panel!Order]) /\ panelRelist' # Panel!None
       /\ panelRelist'.kind # "answered"
  BY <1>2 DEF Panel!Fetch, Panel!None
<1>15. PanelTyped' /\ PanelListed'
  BY <1>2, <1>9, <1>10, <1>11, <1>12, <1>13, <1>14 DEF PanelTyped, PanelListed
<1>16. i \in Panel!UnderWay
  BY <1>0, <1>2 DEF Panel!UnderWay, Panel!Over
<1> HIDE DEF c, n, pc
<1>17. /\ panelCalls'[i].order = c.order /\ panelCalls'[i].kind = c.kind /\ panelCalls'[i].next = c.next
       /\ panelCalls'[i].value = c.value /\ panelCalls'[i].pc = pc
  BY <1>3, <1>9
<1>18. follows => /\ panelCalls'[n].pc = "sent" /\ panelCalls'[n].next = "none"
                  /\ panelCalls'[n].kind = "status" /\ panelCalls'[n].order = c.order
                  /\ panelCalls'[n].value = c.next
  BY <1>5, <1>9
<1> QED
  BY <1>0, <1>1, <1>2, <1>9, <1>11, <1>15, <1>16, <1>17, <1>18 DEF c, n, pc

(* Whatever edits overlap, the list catches up.                            *)
PanelInv == PanelTyped /\ PanelListed

LEMMA PanelInvHolds ==
  /\ Panel!Init => PanelInv
  /\ PanelInv /\ Panel!Next => PanelInv'
  /\ PanelInv /\ UNCHANGED Panel!vars => PanelInv'
<1>1. ASSUME PanelInv, Panel!Next
      PROVE  PanelInv'
  <2>0. PanelTyped /\ PanelListed
    BY <1>1 DEF PanelInv
  <2>1. CASE \/ \E kind \in Selects, value \in Panel!Statuses \cup {"unpaid", "paid", "error"} : Panel!Choose(kind, value)
             \/ \E field \in Edits : Panel!Save(field)
             \/ Panel!ConfirmAsk
    <3>1. PICK c \in Panel!Call :
           /\ panelCalls' = Append(panelCalls, c)
           /\ PanelFits(c) /\ c.pc = "sent"
           /\ panelAsking' \in {panelAsking, Panel!None}
           /\ UNCHANGED <<panelRow, panelListed, panelDetail, panelLook, panelRelist, panelOpen, panelDraft, panelNotice>>
      BY <2>0, <2>1, PanelBeginMoves
    <3> QED
      BY <2>0, <3>1, PanelBeginKeeps DEF PanelInv
  <2>2. CASE \E i \in 1 .. Len(panelCalls) : Panel!Serve(i) \/ Panel!Lose(i)
    BY <2>0, <2>2, PanelServeMoves DEF PanelInv
  <2>3. CASE \E i \in 1 .. Len(panelCalls) : Panel!Receive(i)
    BY <2>0, <2>3, PanelReceiveMoves DEF PanelInv
  <2>4. CASE \/ \E o \in Edited : Panel!Open(o) \/ Panel!ServeDetail(o) \/ Panel!DetailArrives(o)
             \/ Panel!Close
             \/ \E field \in Edits, text \in Panel!Drafted : Panel!Type(field, text)
             \/ \E action \in {"complete", "fail"} : Panel!Ask(action)
             \/ Panel!CancelAsk \/ Panel!ServeList \/ Panel!ListArrives
    <3>1. UNCHANGED <<panelRow, panelCalls>>
      BY <2>4 DEF Panel!Open, Panel!ServeDetail, Panel!DetailArrives, Panel!Close, Panel!Type, Panel!Ask,
                  Panel!CancelAsk, Panel!ServeList, Panel!ListArrives
    <3> QED
      BY <2>0, <2>4, <3>1, PanelPageMoves DEF PanelInv
  <2> QED
    BY <1>1, <2>1, <2>2, <2>3, <2>4 DEF Panel!Next
<1>2. ASSUME PanelInv, UNCHANGED Panel!vars
      PROVE  PanelInv'
  BY <1>2 DEF PanelInv, PanelTyped, PanelListed, Panel!vars, Panel!UnderWay
<1> QED
  BY <1>1, <1>2, PanelBegins DEF PanelInv

(* What the run checks of it.                                              *)
LEMMA PanelInvGives ==
  ASSUME PanelInv
  PROVE  Panel!PanelTypeOK /\ Panel!ListCatchesUp
<1>1. \A o \in Edited : panelDetail[o] \in PanelDetail /\ panelLook[o] \in Panel!Fetch(Panel!Order)
  BY DEF PanelInv, PanelTyped
<1>2. Panel!PanelTypeOK
  BY <1>1 DEF PanelInv, PanelTyped, PanelDetail, Panel!PanelTypeOK
<1>3. Panel!ListCatchesUp
  BY DEF PanelInv, PanelListed, Panel!ListCatchesUp
<1> QED
  BY <1>2, <1>3

\* What a request asks for fits the field that it sets.
AloneFits(c) ==
  /\ c.kind = "status" => c.value \in PanelAlone!Statuses \cup {"error"}
  /\ c.kind = "payment" => c.value \in {"unpaid", "paid"}
  /\ c.kind \in {"note", "result"} => c.value \in PanelAlone!Drafted

AloneDetail == {PanelAlone!None} \cup [kind : {"row"}, value : PanelAlone!Order]

AloneTyped ==
  /\ panelRow \in [Edited -> PanelAlone!Order] /\ panelListed \in [Edited -> PanelAlone!Order]
  /\ panelDetail \in [Edited -> AloneDetail]
  /\ panelLook \in [Edited -> PanelAlone!Fetch(PanelAlone!Order)]
  /\ panelRelist \in PanelAlone!Fetch([Edited -> PanelAlone!Order])
  /\ panelOpen \in Edited \cup {Null}
  /\ panelDraft \in [note : PanelAlone!Drafted, result : PanelAlone!Drafted]
  /\ panelAsking \in PanelAlone!Asking /\ panelNotice \in PanelAlone!Notice
  /\ panelAsking # PanelAlone!None => panelAsking.order = panelOpen
  /\ panelCalls \in Seq(PanelAlone!Call)
  /\ \A i \in DOMAIN panelCalls : AloneFits(panelCalls[i])

\* The list is as the server has it, or will be, or is fetched again.
AloneListed ==
  PanelAlone!UnderWay = {} =>
    /\ panelRelist = PanelAlone!None => panelListed = panelRow
    /\ panelRelist.kind = "answered" => panelRelist.value = panelRow

(* The requests are numbered.                                              *)
LEMMA AloneCalls ==
  ASSUME NEW q \in Seq(PanelAlone!Call)
  PROVE  /\ Len(q) \in Nat /\ DOMAIN q = 1 .. Len(q)
         /\ \A i \in DOMAIN q : q[i] \in PanelAlone!Call
         /\ \A i \in DOMAIN q, c \in PanelAlone!Call :
              /\ [q EXCEPT ![i] = c] \in Seq(PanelAlone!Call)
              /\ DOMAIN [q EXCEPT ![i] = c] = DOMAIN q
              /\ [q EXCEPT ![i] = c][i] = c
              /\ \A j \in DOMAIN q : j # i => [q EXCEPT ![i] = c][j] = q[j]
         /\ \A c \in PanelAlone!Call :
              /\ Append(q, c) \in Seq(PanelAlone!Call)
              /\ DOMAIN Append(q, c) = DOMAIN q \cup {Len(q) + 1}
              /\ Append(q, c)[Len(q) + 1] = c
              /\ \A i \in DOMAIN q : Append(q, c)[i] = q[i]
<1>1. Len(q) \in Nat /\ DOMAIN q = 1 .. Len(q)
  BY LenProperties
<1>2. \A i \in 1 .. Len(q) : q[i] \in PanelAlone!Call
  BY ElementOfSeq
<1>3. ASSUME NEW i \in DOMAIN q, NEW c \in PanelAlone!Call
      PROVE  /\ [q EXCEPT ![i] = c] \in Seq(PanelAlone!Call)
             /\ DOMAIN [q EXCEPT ![i] = c] = DOMAIN q
             /\ [q EXCEPT ![i] = c][i] = c
             /\ \A j \in DOMAIN q : j # i => [q EXCEPT ![i] = c][j] = q[j]
  <2>1. i \in 1 .. Len(q) /\ c \in PanelAlone!Call
    BY <1>1, <1>3
  <2>2. [q EXCEPT ![i] = c] \in Seq(PanelAlone!Call)
    BY <2>1, ExceptSeq
  <2> QED
    BY <1>3, <2>2
<1>4. ASSUME NEW c \in PanelAlone!Call
      PROVE  /\ Append(q, c) \in Seq(PanelAlone!Call)
             /\ DOMAIN Append(q, c) = DOMAIN q \cup {Len(q) + 1}
             /\ Append(q, c)[Len(q) + 1] = c
             /\ \A i \in DOMAIN q : Append(q, c)[i] = q[i]
  <2>1. /\ Append(q, c) \in Seq(PanelAlone!Call) /\ Len(Append(q, c)) = Len(q) + 1
        /\ \A i \in 1 .. Len(q) : Append(q, c)[i] = q[i]
        /\ Append(q, c)[Len(q) + 1] = c
    BY AppendProperties
  <2>2. DOMAIN Append(q, c) = 1 .. (Len(q) + 1)
    BY <2>1, LenProperties
  <2> QED
    BY <1>1, <2>1, <2>2
<1> QED
  BY <1>1, <1>2, <1>3, <1>4

(* A field of an order that is set.                                        *)
LEMMA AloneOrderSet ==
  ASSUME NEW r \in PanelAlone!Order, NEW c, c.kind \in PanelAlone!Kinds, AloneFits(c), c.value # "error"
  PROVE  LET n == [r EXCEPT ![c.kind] = c.value]
         IN  /\ n \in PanelAlone!Order /\ n[c.kind] = c.value
             /\ \A f \in PanelAlone!Kinds : f # c.kind => n[f] = r[f]
<1>1. CASE c.kind = "status"
  BY <1>1 DEF PanelAlone!Order, AloneFits, PanelAlone!Kinds
<1>2. CASE c.kind = "payment"
  BY <1>2 DEF PanelAlone!Order, AloneFits, PanelAlone!Kinds
<1>3. CASE c.kind = "note"
  BY <1>3 DEF PanelAlone!Order, AloneFits, PanelAlone!Kinds
<1>4. CASE c.kind = "result"
  BY <1>4 DEF PanelAlone!Order, AloneFits, PanelAlone!Kinds
<1> QED
  BY <1>1, <1>2, <1>3, <1>4 DEF PanelAlone!Kinds

(* Before anything is shown or asked for.                                  *)
LEMMA AloneBegins ==
  ASSUME PanelAlone!Init
  PROVE  AloneTyped /\ AloneListed
<1> DEFINE fresh == [status |-> "processing", payment |-> "unpaid", note |-> PanelAlone!Empty, result |-> PanelAlone!Empty]
<1>1. /\ panelRow = [o \in Edited |-> fresh] /\ panelListed = panelRow
      /\ panelDetail = [o \in Edited |-> PanelAlone!None] /\ panelLook = [o \in Edited |-> PanelAlone!None]
      /\ panelRelist = PanelAlone!None /\ panelOpen = Null
      /\ panelDraft = [note |-> PanelAlone!Empty, result |-> PanelAlone!Empty]
      /\ panelAsking = PanelAlone!None /\ panelNotice = PanelAlone!None /\ panelCalls = << >>
  BY DEF PanelAlone!Init
<1>2. fresh \in PanelAlone!Order /\ panelDraft \in [note : PanelAlone!Drafted, result : PanelAlone!Drafted]
  BY <1>1 DEF PanelAlone!Order, PanelAlone!Drafted, PanelAlone!Statuses
<1> HIDE DEF fresh
<1>3. panelRow \in [Edited -> PanelAlone!Order] /\ panelListed \in [Edited -> PanelAlone!Order]
  BY <1>1, <1>2
<1>4. /\ panelDetail \in [Edited -> AloneDetail] /\ panelLook \in [Edited -> PanelAlone!Fetch(PanelAlone!Order)]
      /\ panelRelist \in PanelAlone!Fetch([Edited -> PanelAlone!Order])
      /\ panelAsking \in PanelAlone!Asking /\ panelNotice \in PanelAlone!Notice
  BY <1>1 DEF AloneDetail, PanelAlone!Fetch, PanelAlone!Asking, PanelAlone!Notice
<1>5. panelCalls \in Seq(PanelAlone!Call) /\ DOMAIN panelCalls = {}
  BY <1>1
<1>6. panelRelist.kind # "answered"
  BY <1>1 DEF PanelAlone!None
<1> QED
  BY <1>1, <1>2, <1>3, <1>4, <1>5, <1>6 DEF AloneTyped, AloneListed

(* The drafts stay, or are those of the order shown.                       *)
LEMMA AloneDraftsFollow ==
  ASSUME AloneTyped, PanelAlone!Effects(panelDraft), panelOpen' \in Edited \cup {Null},
         panelListed' \in [Edited -> PanelAlone!Order], panelDetail' \in [Edited -> AloneDetail]
  PROVE  panelDraft' \in [note : PanelAlone!Drafted, result : PanelAlone!Drafted]
<1> DEFINE s == PanelAlone!Shown(panelOpen', panelDetail', panelListed')
<1>1. CASE panelDraft' = panelDraft
  BY <1>1 DEF AloneTyped
<1>2. CASE panelDraft' = [note |-> PanelAlone!Empty, result |-> PanelAlone!Empty]
  BY <1>2 DEF PanelAlone!Drafted
<1>3. CASE panelOpen' # Null /\ panelDraft' = [note |-> s.note, result |-> s.result]
  <2>1. s \in PanelAlone!Order
    <3>1. panelDetail'[panelOpen'] \in AloneDetail
      BY <1>3
    <3> QED
      BY <1>3, <3>1 DEF PanelAlone!Shown, AloneDetail, PanelAlone!None
  <2> HIDE DEF s
  <2>2. s.note \in PanelAlone!Drafted /\ s.result \in PanelAlone!Drafted
    BY <2>1 DEF PanelAlone!Order
  <2> QED
    BY <1>3, <2>2
<1> QED
  BY <1>1, <1>2, <1>3 DEF PanelAlone!Effects

(* What the page itself does: no request is begun or served.               *)
LEMMA AlonePageMoves ==
  ASSUME AloneTyped, AloneListed, UNCHANGED <<panelRow, panelCalls>>,
         \/ \E o \in Edited : PanelAlone!Open(o) \/ PanelAlone!ServeDetail(o) \/ PanelAlone!DetailArrives(o)
         \/ PanelAlone!Close
         \/ \E field \in {"note", "result"}, text \in PanelAlone!Drafted : PanelAlone!Type(field, text)
         \/ \E action \in {"complete", "fail"} : PanelAlone!Ask(action)
         \/ PanelAlone!CancelAsk \/ PanelAlone!ServeList \/ PanelAlone!ListArrives
  PROVE  AloneTyped' /\ AloneListed'
<1>0. /\ panelRow \in [Edited -> PanelAlone!Order] /\ panelListed \in [Edited -> PanelAlone!Order]
      /\ panelDetail \in [Edited -> AloneDetail] /\ panelLook \in [Edited -> PanelAlone!Fetch(PanelAlone!Order)]
      /\ panelRelist \in PanelAlone!Fetch([Edited -> PanelAlone!Order])
      /\ panelOpen \in Edited \cup {Null}
      /\ panelDraft \in [note : PanelAlone!Drafted, result : PanelAlone!Drafted]
      /\ panelAsking \in PanelAlone!Asking /\ panelNotice \in PanelAlone!Notice
      /\ panelAsking # PanelAlone!None => panelAsking.order = panelOpen
  BY DEF AloneTyped
<1>1. PanelAlone!UnderWay' = PanelAlone!UnderWay
  BY DEF PanelAlone!UnderWay
<1>2. /\ PanelAlone!None \in PanelAlone!Fetch(PanelAlone!Order) /\ [kind |-> "sent"] \in PanelAlone!Fetch(PanelAlone!Order)
      /\ PanelAlone!None \in PanelAlone!Fetch([Edited -> PanelAlone!Order])
      /\ \A r \in PanelAlone!Order : [kind |-> "answered", value |-> r] \in PanelAlone!Fetch(PanelAlone!Order)
      /\ \A r \in [Edited -> PanelAlone!Order] : [kind |-> "answered", value |-> r] \in PanelAlone!Fetch([Edited -> PanelAlone!Order])
      /\ \A r \in PanelAlone!Order : [kind |-> "row", value |-> r] \in AloneDetail
      /\ PanelAlone!None \in PanelAlone!Asking /\ PanelAlone!None \in PanelAlone!Notice
  BY DEF PanelAlone!Fetch, AloneDetail, PanelAlone!Asking, PanelAlone!Notice
<1>3. ASSUME NEW f \in PanelAlone!Fetch(PanelAlone!Order), f.kind = "answered"
      PROVE  f.value \in PanelAlone!Order
  BY <1>3 DEF PanelAlone!Fetch, PanelAlone!None
<1>4. ASSUME NEW o \in Edited, PanelAlone!Open(o)
      PROVE  AloneTyped' /\ AloneListed'
  <2>1. /\ panelOpen' = o /\ panelAsking' = PanelAlone!None /\ panelNotice' = PanelAlone!None
        /\ panelLook' = [panelLook EXCEPT ![o] = IF @ = PanelAlone!None THEN [kind |-> "sent"] ELSE @]
        /\ UNCHANGED <<panelListed, panelDetail, panelRelist>> /\ PanelAlone!Effects(panelDraft)
    BY <1>4 DEF PanelAlone!Open, PanelAlone!caches
  <2>2. panelLook' \in [Edited -> PanelAlone!Fetch(PanelAlone!Order)]
    BY <1>0, <1>2, <1>4, <2>1
  <2>3. panelDraft' \in [note : PanelAlone!Drafted, result : PanelAlone!Drafted]
    BY <1>0, <1>4, <2>1, AloneDraftsFollow
  <2> QED
    BY <1>0, <1>1, <1>2, <1>4, <2>1, <2>2, <2>3 DEF AloneTyped, AloneListed
<1>5. ASSUME NEW o \in Edited, PanelAlone!ServeDetail(o)
      PROVE  AloneTyped' /\ AloneListed'
  <2>1. /\ panelLook' = [panelLook EXCEPT ![o] = [kind |-> "answered", value |-> panelRow[o]]]
        /\ UNCHANGED <<panelListed, panelDetail, panelRelist, panelOpen, panelDraft, panelAsking, panelNotice>>
    BY <1>5 DEF PanelAlone!ServeDetail, PanelAlone!caches, PanelAlone!panel
  <2>2. panelLook' \in [Edited -> PanelAlone!Fetch(PanelAlone!Order)]
    BY <1>0, <1>2, <1>5, <2>1
  <2> QED
    BY <1>0, <1>1, <2>1, <2>2 DEF AloneTyped, AloneListed
<1>6. ASSUME NEW o \in Edited, PanelAlone!DetailArrives(o)
      PROVE  AloneTyped' /\ AloneListed'
  <2>1. /\ panelDetail' = [panelDetail EXCEPT ![o] = [kind |-> "row", value |-> panelLook[o].value]]
        /\ panelLook' = [panelLook EXCEPT ![o] = PanelAlone!None] /\ panelLook[o].kind = "answered"
        /\ UNCHANGED <<panelListed, panelRelist, panelOpen, panelAsking, panelNotice>>
        /\ PanelAlone!Effects(panelDraft)
    BY <1>6 DEF PanelAlone!DetailArrives
  <2>2. panelLook[o].value \in PanelAlone!Order
    BY <1>0, <1>3, <1>6, <2>1
  <2>3. panelLook' \in [Edited -> PanelAlone!Fetch(PanelAlone!Order)] /\ panelDetail' \in [Edited -> AloneDetail]
    BY <1>0, <1>2, <1>6, <2>1, <2>2
  <2>4. panelDraft' \in [note : PanelAlone!Drafted, result : PanelAlone!Drafted]
    BY <1>0, <2>1, <2>3, AloneDraftsFollow
  <2> QED
    BY <1>0, <1>1, <2>1, <2>3, <2>4 DEF AloneTyped, AloneListed
<1>7. CASE PanelAlone!Close
  <2>1. /\ panelOpen' = Null /\ panelAsking' = PanelAlone!None /\ panelNotice' = PanelAlone!None
        /\ UNCHANGED <<panelListed, panelDetail, panelLook, panelRelist>> /\ PanelAlone!Effects(panelDraft)
    BY <1>7 DEF PanelAlone!Close, PanelAlone!caches
  <2>2. panelDraft' \in [note : PanelAlone!Drafted, result : PanelAlone!Drafted]
    BY <1>0, <2>1, AloneDraftsFollow
  <2> QED
    BY <1>0, <1>1, <1>2, <2>1, <2>2 DEF AloneTyped, AloneListed
<1>8. ASSUME NEW field \in {"note", "result"}, NEW text \in PanelAlone!Drafted, PanelAlone!Type(field, text)
      PROVE  AloneTyped' /\ AloneListed'
  <2>1. /\ panelDraft' = [panelDraft EXCEPT ![field] = text]
        /\ UNCHANGED <<panelListed, panelDetail, panelLook, panelRelist, panelOpen, panelAsking, panelNotice>>
    BY <1>8 DEF PanelAlone!Type, PanelAlone!caches
  <2>2. field \in {"note", "result"}
    BY <1>8, PanelAloneAssumption DEF PanelAlone!PanelAssumption
  <2>3. panelDraft' \in [note : PanelAlone!Drafted, result : PanelAlone!Drafted]
    BY <1>0, <1>8, <2>1, <2>2
  <2> QED
    BY <1>0, <1>1, <2>1, <2>3 DEF AloneTyped, AloneListed
<1>9. ASSUME NEW action \in {"complete", "fail"}, PanelAlone!Ask(action)
      PROVE  AloneTyped' /\ AloneListed'
  <2>1. /\ panelAsking' = [kind |-> action, order |-> panelOpen, text |-> panelDraft[PanelAlone!FieldOf(action)]]
        /\ panelOpen # Null /\ panelDraft[PanelAlone!FieldOf(action)] # PanelAlone!Empty
        /\ UNCHANGED <<panelListed, panelDetail, panelLook, panelRelist, panelOpen, panelDraft, panelNotice>>
    BY <1>9 DEF PanelAlone!Ask, PanelAlone!caches
  <2>2. panelDraft[PanelAlone!FieldOf(action)] \in Texts
    BY <1>0, <2>1 DEF PanelAlone!FieldOf, PanelAlone!Drafted
  <2>3. panelAsking' \in PanelAlone!Asking /\ panelAsking'.order = panelOpen
    BY <1>0, <1>9, <2>1, <2>2 DEF PanelAlone!Asking
  <2> QED
    BY <1>0, <1>1, <2>1, <2>3 DEF AloneTyped, AloneListed
<1>10. CASE PanelAlone!CancelAsk
  <2>1. /\ panelAsking' = PanelAlone!None
        /\ UNCHANGED <<panelListed, panelDetail, panelLook, panelRelist, panelOpen, panelDraft, panelNotice>>
    BY <1>10 DEF PanelAlone!CancelAsk, PanelAlone!caches
  <2> QED
    BY <1>0, <1>1, <1>2, <2>1 DEF AloneTyped, AloneListed
<1>11. CASE PanelAlone!ServeList
  <2>1. /\ panelRelist' = [kind |-> "answered", value |-> panelRow]
        /\ UNCHANGED <<panelListed, panelDetail, panelLook, panelOpen, panelDraft, panelAsking, panelNotice>>
    BY <1>11 DEF PanelAlone!ServeList, PanelAlone!caches, PanelAlone!panel
  <2>2. panelRelist' # PanelAlone!None
    BY <2>1 DEF PanelAlone!None
  <2> QED
    BY <1>0, <1>1, <1>2, <2>1, <2>2 DEF AloneTyped, AloneListed
<1>12. CASE PanelAlone!ListArrives
  <2>1. /\ panelListed' = panelRelist.value /\ panelRelist' = PanelAlone!None /\ panelRelist.kind = "answered"
        /\ UNCHANGED <<panelDetail, panelLook, panelOpen, panelAsking, panelNotice>>
        /\ PanelAlone!Effects(panelDraft)
    BY <1>12 DEF PanelAlone!ListArrives
  <2>2. panelListed' \in [Edited -> PanelAlone!Order]
    BY <1>0, <2>1 DEF PanelAlone!Fetch, PanelAlone!None
  <2>3. panelDraft' \in [note : PanelAlone!Drafted, result : PanelAlone!Drafted]
    BY <1>0, <2>1, <2>2, AloneDraftsFollow
  <2>4. panelRelist'.kind # "answered"
    BY <2>1 DEF PanelAlone!None
  <2> QED
    BY <1>0, <1>1, <1>2, <2>1, <2>2, <2>3, <2>4 DEF AloneTyped, AloneListed
<1> QED
  BY <1>4, <1>5, <1>6, <1>7, <1>8, <1>9, <1>10, <1>11, <1>12

(* A request that the panel begins: what it asks for fits, and nothing     *)
(* else changes but the question, if it was confirmed.                     *)
LEMMA AloneBeginMoves ==
  ASSUME AloneTyped,
         \/ \E kind \in {"status", "payment"}, value \in PanelAlone!Statuses \cup {"unpaid", "paid", "error"} : PanelAlone!Choose(kind, value)
         \/ \E field \in {"note", "result"} : PanelAlone!Save(field)
         \/ PanelAlone!ConfirmAsk
  PROVE  \E c \in PanelAlone!Call :
           /\ panelCalls' = Append(panelCalls, c)
           /\ AloneFits(c) /\ c.pc = "sent"
           /\ \/ c.by = "panel" /\ c.next = "none" /\ c.kind \in {"status", "payment"} \cup {"note", "result"}
              \/ /\ panelAsking # PanelAlone!None /\ c.value = panelAsking.text
                 /\ \/ c.next = "completed" /\ c.kind = "result"
                    \/ c.next = "failed" /\ c.kind = "note"
           /\ PanelAlone!MayStart(1) \/ PanelAlone!MayStart(2)
           /\ panelAsking' \in {panelAsking, PanelAlone!None}
           /\ UNCHANGED <<panelRow, panelListed, panelDetail, panelLook, panelRelist, panelOpen, panelDraft, panelNotice>>
<1>0. /\ panelRow \in [Edited -> PanelAlone!Order] /\ panelOpen \in Edited \cup {Null}
      /\ panelDraft \in [note : PanelAlone!Drafted, result : PanelAlone!Drafted] /\ panelAsking \in PanelAlone!Asking
  BY PanelAloneAssumption DEF AloneTyped, PanelAlone!PanelAssumption
<1>1. ASSUME NEW kind \in PanelAlone!Kinds, NEW o \in Edited,
             NEW value \in PanelAlone!Statuses \cup {"unpaid", "paid", "error"} \cup PanelAlone!Drafted,
             NEW next \in PanelAlone!Statuses \cup {"none"}, NEW by \in {"panel", "dialog"}
      PROVE  LET c == PanelAlone!NewCall(kind, o, value, next, by)
             IN  /\ c \in PanelAlone!Call /\ c.pc = "sent" /\ c.next = next /\ c.kind = kind /\ c.value = value
                 /\ c.order = o /\ c.by = by
  <2>1. panelRow[o] \in PanelAlone!Order
    BY <1>0, <1>1
  <2> QED
    BY <1>1, <2>1 DEF PanelAlone!NewCall, PanelAlone!Call
<1>2. ASSUME NEW kind \in {"status", "payment"}, NEW value \in PanelAlone!Statuses \cup {"unpaid", "paid", "error"}, PanelAlone!Choose(kind, value)
      PROVE  /\ panelCalls' = Append(panelCalls, PanelAlone!NewCall(kind, panelOpen, value, "none", "panel"))
             /\ PanelAlone!NewCall(kind, panelOpen, value, "none", "panel") \in PanelAlone!Call
             /\ AloneFits(PanelAlone!NewCall(kind, panelOpen, value, "none", "panel"))
             /\ PanelAlone!NewCall(kind, panelOpen, value, "none", "panel").pc = "sent"
             /\ PanelAlone!NewCall(kind, panelOpen, value, "none", "panel").next = "none"
             /\ PanelAlone!NewCall(kind, panelOpen, value, "none", "panel").by = "panel"
             /\ PanelAlone!NewCall(kind, panelOpen, value, "none", "panel").kind = kind
             /\ PanelAlone!MayStart(1) /\ panelAsking' = panelAsking
             /\ UNCHANGED <<panelRow, panelListed, panelDetail, panelLook, panelRelist, panelOpen, panelDraft, panelNotice>>
  <2> DEFINE c == PanelAlone!NewCall(kind, panelOpen, value, "none", "panel")
  <2>1. /\ panelCalls' = Append(panelCalls, c) /\ PanelAlone!MayStart(1) /\ panelAsking' = panelAsking /\ panelOpen # Null
        /\ value \in IF kind = "status" THEN {"processing", "completed", "error"} ELSE {"unpaid", "paid"}
        /\ UNCHANGED <<panelRow, panelListed, panelDetail, panelLook, panelRelist, panelOpen, panelDraft, panelNotice>>
    BY <1>2 DEF PanelAlone!Choose, PanelAlone!Start, PanelAlone!caches
  <2>2. kind \in {"status", "payment"} /\ kind \in PanelAlone!Kinds /\ panelOpen \in Edited
    BY <1>0, <1>2, <2>1 DEF PanelAlone!Kinds
  <2>3. /\ c \in PanelAlone!Call /\ c.pc = "sent" /\ c.next = "none" /\ c.kind = kind /\ c.value = value /\ c.by = "panel"
    BY <1>1, <1>2, <2>2
  <2> HIDE DEF c
  <2>4. AloneFits(c)
    BY <2>1, <2>2, <2>3 DEF AloneFits, PanelAlone!Statuses
  <2> QED
    BY <2>1, <2>3, <2>4 DEF c
<1>3. ASSUME NEW field \in {"note", "result"}, PanelAlone!Save(field)
      PROVE  /\ panelCalls' = Append(panelCalls, PanelAlone!NewCall(field, panelOpen, panelDraft[field], "none", "panel"))
             /\ PanelAlone!NewCall(field, panelOpen, panelDraft[field], "none", "panel") \in PanelAlone!Call
             /\ AloneFits(PanelAlone!NewCall(field, panelOpen, panelDraft[field], "none", "panel"))
             /\ PanelAlone!NewCall(field, panelOpen, panelDraft[field], "none", "panel").pc = "sent"
             /\ PanelAlone!NewCall(field, panelOpen, panelDraft[field], "none", "panel").next = "none"
             /\ PanelAlone!NewCall(field, panelOpen, panelDraft[field], "none", "panel").by = "panel"
             /\ PanelAlone!NewCall(field, panelOpen, panelDraft[field], "none", "panel").kind = field
             /\ PanelAlone!MayStart(1) /\ panelAsking' = panelAsking
             /\ UNCHANGED <<panelRow, panelListed, panelDetail, panelLook, panelRelist, panelOpen, panelDraft, panelNotice>>
  <2> DEFINE c == PanelAlone!NewCall(field, panelOpen, panelDraft[field], "none", "panel")
  <2>1. /\ panelCalls' = Append(panelCalls, c) /\ PanelAlone!MayStart(1) /\ panelAsking' = panelAsking /\ panelOpen # Null
        /\ UNCHANGED <<panelRow, panelListed, panelDetail, panelLook, panelRelist, panelOpen, panelDraft, panelNotice>>
    BY <1>3 DEF PanelAlone!Save, PanelAlone!Start, PanelAlone!caches
  <2>2. field \in {"note", "result"} /\ field \in PanelAlone!Kinds /\ panelOpen \in Edited
    BY <1>0, <1>3, <2>1 DEF PanelAlone!Kinds
  <2>3. panelDraft[field] \in PanelAlone!Drafted
    BY <1>0, <2>2
  <2>4. /\ c \in PanelAlone!Call /\ c.pc = "sent" /\ c.next = "none" /\ c.kind = field /\ c.value = panelDraft[field]
        /\ c.by = "panel"
    BY <1>1, <2>2, <2>3
  <2> HIDE DEF c
  <2>5. AloneFits(c)
    BY <2>2, <2>3, <2>4 DEF AloneFits
  <2> QED
    BY <2>1, <2>4, <2>5 DEF c
<1>4. ASSUME PanelAlone!ConfirmAsk
      PROVE  \E c \in PanelAlone!Call :
               /\ panelCalls' = Append(panelCalls, c)
               /\ AloneFits(c) /\ c.pc = "sent"
               /\ panelAsking # PanelAlone!None /\ c.by = "dialog" /\ c.value = panelAsking.text
               /\ \/ c.next = "completed" /\ c.kind = "result"
                  \/ c.next = "failed" /\ c.kind = "note"
               /\ PanelAlone!MayStart(2) /\ panelAsking' = PanelAlone!None
               /\ UNCHANGED <<panelRow, panelListed, panelDetail, panelLook, panelRelist, panelOpen, panelDraft, panelNotice>>
  <2> DEFINE field == PanelAlone!FieldOf(panelAsking.kind)
             next == IF panelAsking.kind = "complete" THEN "completed" ELSE "failed"
             c == PanelAlone!NewCall(field, panelAsking.order, panelAsking.text, next, "dialog")
  <2>1. /\ panelAsking # PanelAlone!None /\ PanelAlone!MayStart(2) /\ panelAsking' = PanelAlone!None
        /\ panelCalls' = Append(panelCalls, c)
        /\ UNCHANGED <<panelRow, panelListed, panelDetail, panelLook, panelRelist, panelOpen, panelDraft, panelNotice>>
    BY <1>4 DEF PanelAlone!ConfirmAsk, PanelAlone!Start, PanelAlone!caches
  <2>2. panelAsking.order \in Edited /\ panelAsking.text \in Texts
    BY <1>0, <2>1 DEF PanelAlone!Asking
  <2>3. /\ next \in PanelAlone!Statuses /\ field \in {"note", "result"} /\ field \in PanelAlone!Kinds
        /\ \/ next = "completed" /\ field = "result"
           \/ next = "failed" /\ field = "note"
    BY DEF PanelAlone!FieldOf, PanelAlone!Statuses, PanelAlone!Kinds
  <2>4. panelAsking.text \in PanelAlone!Drafted
    BY <2>2 DEF PanelAlone!Drafted
  <2> HIDE DEF field, next
  <2>5. /\ c \in PanelAlone!Call /\ c.pc = "sent" /\ c.next = next /\ c.kind = field /\ c.value = panelAsking.text
        /\ c.by = "dialog"
    BY <1>1, <2>2, <2>3, <2>4
  <2> HIDE DEF c
  <2>6. AloneFits(c)
    BY <2>3, <2>4, <2>5 DEF AloneFits
  <2> QED
    BY <2>1, <2>3, <2>5, <2>6
<1>5. CASE \E kind \in {"status", "payment"}, value \in PanelAlone!Statuses \cup {"unpaid", "paid", "error"} : PanelAlone!Choose(kind, value)
  <2>1. PICK kind \in {"status", "payment"}, value \in PanelAlone!Statuses \cup {"unpaid", "paid", "error"} : PanelAlone!Choose(kind, value)
    BY <1>5
  <2> DEFINE c == PanelAlone!NewCall(kind, panelOpen, value, "none", "panel")
  <2>2. /\ panelCalls' = Append(panelCalls, c) /\ c \in PanelAlone!Call /\ AloneFits(c) /\ c.pc = "sent" /\ c.next = "none"
        /\ c.kind = kind /\ c.by = "panel" /\ PanelAlone!MayStart(1) /\ panelAsking' = panelAsking
        /\ UNCHANGED <<panelRow, panelListed, panelDetail, panelLook, panelRelist, panelOpen, panelDraft, panelNotice>>
    BY <1>2, <2>1
  <2> HIDE DEF c
  <2> QED
    BY <2>1, <2>2
<1>6. CASE \E field \in {"note", "result"} : PanelAlone!Save(field)
  <2>1. PICK field \in {"note", "result"} : PanelAlone!Save(field)
    BY <1>6
  <2> DEFINE c == PanelAlone!NewCall(field, panelOpen, panelDraft[field], "none", "panel")
  <2>2. /\ panelCalls' = Append(panelCalls, c) /\ c \in PanelAlone!Call /\ AloneFits(c) /\ c.pc = "sent" /\ c.next = "none"
        /\ c.kind = field /\ c.by = "panel" /\ PanelAlone!MayStart(1) /\ panelAsking' = panelAsking
        /\ UNCHANGED <<panelRow, panelListed, panelDetail, panelLook, panelRelist, panelOpen, panelDraft, panelNotice>>
    BY <1>3, <2>1
  <2> HIDE DEF c
  <2> QED
    BY <2>1, <2>2
<1>7. CASE PanelAlone!ConfirmAsk
  <2>1. PICK c \in PanelAlone!Call :
               /\ panelCalls' = Append(panelCalls, c)
               /\ AloneFits(c) /\ c.pc = "sent"
               /\ panelAsking # PanelAlone!None /\ c.by = "dialog" /\ c.value = panelAsking.text
               /\ \/ c.next = "completed" /\ c.kind = "result"
                  \/ c.next = "failed" /\ c.kind = "note"
               /\ PanelAlone!MayStart(2) /\ panelAsking' = PanelAlone!None
               /\ UNCHANGED <<panelRow, panelListed, panelDetail, panelLook, panelRelist, panelOpen, panelDraft, panelNotice>>
    BY <1>4, <1>7
  <2> QED
    BY <2>1
<1> QED
  BY <1>5, <1>6, <1>7

(* It is under way then.                                                   *)
LEMMA AloneBeginKeeps ==
  ASSUME AloneTyped, NEW c \in PanelAlone!Call, panelCalls' = Append(panelCalls, c),
         AloneFits(c), c.pc = "sent", panelAsking' \in {panelAsking, PanelAlone!None},
         UNCHANGED <<panelRow, panelListed, panelDetail, panelLook, panelRelist, panelOpen, panelDraft, panelNotice>>
  PROVE  /\ AloneTyped' /\ AloneListed'
         /\ DOMAIN panelCalls' = DOMAIN panelCalls \cup {Len(panelCalls) + 1}
         /\ panelCalls'[Len(panelCalls) + 1] = c
         /\ \A i \in DOMAIN panelCalls : panelCalls'[i] = panelCalls[i]
<1>1. /\ panelCalls' \in Seq(PanelAlone!Call) /\ DOMAIN panelCalls' = DOMAIN panelCalls \cup {Len(panelCalls) + 1}
      /\ panelCalls'[Len(panelCalls) + 1] = c
      /\ \A i \in DOMAIN panelCalls : panelCalls'[i] = panelCalls[i]
  BY AloneCalls DEF AloneTyped
<1>2. \A i \in DOMAIN panelCalls' : AloneFits(panelCalls'[i])
  BY <1>1 DEF AloneTyped
<1>3. panelAsking' \in PanelAlone!Asking /\ (panelAsking' # PanelAlone!None => panelAsking'.order = panelOpen')
  BY DEF AloneTyped, PanelAlone!Asking
<1>4. AloneTyped'
  BY <1>1, <1>2, <1>3 DEF AloneTyped
<1>5. Len(panelCalls) + 1 \in PanelAlone!UnderWay'
  <2>1. DOMAIN panelCalls' = 1 .. Len(panelCalls')
    BY <1>1, AloneCalls
  <2> QED
    BY <1>1, <2>1 DEF PanelAlone!UnderWay, PanelAlone!Over
<1>6. AloneListed'
  BY <1>5 DEF AloneListed
<1> QED
  BY <1>1, <1>4, <1>6

(* The server does what it is asked, or refuses, or its answer is lost:    *)
(* the request is still under way.                                         *)
LEMMA AloneServeMoves ==
  ASSUME AloneTyped, NEW i \in 1 .. Len(panelCalls), PanelAlone!Serve(i) \/ PanelAlone!Lose(i)
  PROVE  /\ AloneTyped' /\ AloneListed' /\ i \in PanelAlone!UnderWay /\ i \in PanelAlone!UnderWay'
         /\ DOMAIN panelCalls' = DOMAIN panelCalls /\ i \in DOMAIN panelCalls
         /\ \A j \in DOMAIN panelCalls : j # i => panelCalls'[j] = panelCalls[j]
         /\ UNCHANGED <<panelListed, panelDetail, panelLook, panelRelist, panelOpen, panelDraft, panelAsking, panelNotice>>
         /\ panelCalls[i] \in PanelAlone!Call /\ panelCalls[i].order \in Edited
         /\ \A f \in {"kind", "order", "value", "next", "by"} : panelCalls'[i][f] = panelCalls[i][f]
         /\ \/ /\ panelCalls[i].pc = "sent" /\ panelCalls'[i].pc = "answered"
               /\ panelCalls'[i].answer = panelRow'[panelCalls[i].order]
               /\ panelRow'[panelCalls[i].order][panelCalls[i].kind] = panelCalls[i].value
               /\ \A f \in PanelAlone!Kinds : f # panelCalls[i].kind =>
                    panelRow'[panelCalls[i].order][f] = panelRow[panelCalls[i].order][f]
               /\ \A o \in Edited : o # panelCalls[i].order => panelRow'[o] = panelRow[o]
            \/ panelCalls[i].pc = "sent" /\ panelCalls'[i].pc = "refused" /\ panelRow' = panelRow
            \/ panelCalls[i].pc = "answered" /\ panelCalls'[i].pc = "dropped" /\ panelRow' = panelRow
<1> DEFINE c == panelCalls[i]
<1>0. /\ i \in DOMAIN panelCalls /\ c \in PanelAlone!Call /\ c.order \in Edited /\ c.kind \in PanelAlone!Kinds
      /\ AloneFits(c) /\ panelCalls \in Seq(PanelAlone!Call) /\ panelRow \in [Edited -> PanelAlone!Order]
      /\ DOMAIN panelCalls = 1 .. Len(panelCalls)
  <2>1. panelCalls \in Seq(PanelAlone!Call) /\ panelRow \in [Edited -> PanelAlone!Order]
        /\ \A j \in DOMAIN panelCalls : AloneFits(panelCalls[j])
    BY DEF AloneTyped
  <2>2. DOMAIN panelCalls = 1 .. Len(panelCalls) /\ i \in DOMAIN panelCalls /\ c \in PanelAlone!Call
    BY <2>1, AloneCalls
  <2> QED
    BY <2>1, <2>2 DEF PanelAlone!Call
<1>1. UNCHANGED <<panelListed, panelDetail, panelLook, panelRelist, panelOpen, panelDraft, panelAsking, panelNotice>>
  BY DEF PanelAlone!Serve, PanelAlone!Lose, PanelAlone!caches, PanelAlone!panel
<1>2. ASSUME NEW d \in PanelAlone!Call, panelCalls' = [panelCalls EXCEPT ![i] = d], c.pc \in {"sent", "answered"},
             d.pc \in {"answered", "refused", "dropped"}, AloneFits(d), panelRow' \in [Edited -> PanelAlone!Order]
      PROVE  /\ AloneTyped' /\ AloneListed' /\ i \in PanelAlone!UnderWay /\ i \in PanelAlone!UnderWay'
             /\ DOMAIN panelCalls' = DOMAIN panelCalls /\ panelCalls'[i] = d
             /\ \A j \in DOMAIN panelCalls : j # i => panelCalls'[j] = panelCalls[j]
  <2>1. /\ panelCalls' \in Seq(PanelAlone!Call) /\ DOMAIN panelCalls' = DOMAIN panelCalls /\ panelCalls'[i] = d
        /\ \A j \in DOMAIN panelCalls : j # i => panelCalls'[j] = panelCalls[j]
    BY <1>0, <1>2, AloneCalls
  <2>2. \A j \in DOMAIN panelCalls' : AloneFits(panelCalls'[j])
    BY <1>2, <2>1 DEF AloneTyped
  <2>3. AloneTyped'
    BY <1>1, <1>2, <2>1, <2>2 DEF AloneTyped
  <2>4. DOMAIN panelCalls' = 1 .. Len(panelCalls')
    BY <2>1, AloneCalls
  <2>5. i \in PanelAlone!UnderWay /\ i \in PanelAlone!UnderWay'
    BY <1>0, <1>2, <2>1, <2>4 DEF PanelAlone!UnderWay, PanelAlone!Over
  <2>6. AloneListed'
    BY <2>5 DEF AloneListed
  <2> QED
    BY <2>1, <2>3, <2>5, <2>6
<1>3. ASSUME NEW pc \in {"answered", "refused", "dropped"}, NEW answer \in PanelAlone!Order
      PROVE  LET d == [kind |-> c.kind, order |-> c.order, value |-> c.value, next |-> c.next, by |-> c.by,
                       pc |-> pc, answer |-> answer]
             IN  /\ d \in PanelAlone!Call /\ d.pc = pc /\ d.answer = answer /\ AloneFits(d)
                 /\ \A f \in {"kind", "order", "value", "next", "by"} : d[f] = c[f]
  <2>1. /\ c.kind \in PanelAlone!Kinds /\ c.order \in Edited /\ c.next \in PanelAlone!Statuses \cup {"none"}
        /\ c.value \in PanelAlone!Statuses \cup {"unpaid", "paid", "error"} \cup PanelAlone!Drafted
    BY <1>0 DEF PanelAlone!Call
  <2>3. c.by \in {"panel", "dialog"}
    BY <1>0 DEF PanelAlone!Call
  <2> HIDE DEF c
  <2>2. AloneFits(c)
    BY <1>0 DEF c
  <2> QED
    BY <1>3, <2>1, <2>2, <2>3 DEF PanelAlone!Call, AloneFits
<1>4. CASE PanelAlone!Lose(i)
  <2> DEFINE d == [kind |-> c.kind, order |-> c.order, value |-> c.value, next |-> c.next, by |-> c.by,
                   pc |-> "dropped", answer |-> c.answer]
  <2>1. c.pc = "answered" /\ panelCalls' = [panelCalls EXCEPT ![i].pc = "dropped"] /\ panelRow' = panelRow
    BY <1>4 DEF PanelAlone!Lose
  <2>2. c.answer \in PanelAlone!Order /\ [c EXCEPT !.pc = "dropped"] = d
    BY <1>0 DEF PanelAlone!Call
  <2>3. panelCalls' = [panelCalls EXCEPT ![i] = d]
    BY <1>0, <2>1, <2>2
  <2>4. /\ d \in PanelAlone!Call /\ d.pc = "dropped" /\ AloneFits(d)
        /\ \A f \in {"kind", "order", "value", "next", "by"} : d[f] = c[f]
    BY <1>3, <2>2
  <2> HIDE DEF d
  <2>5. /\ AloneTyped' /\ AloneListed' /\ i \in PanelAlone!UnderWay /\ i \in PanelAlone!UnderWay'
        /\ DOMAIN panelCalls' = DOMAIN panelCalls /\ panelCalls'[i] = d
        /\ \A j \in DOMAIN panelCalls : j # i => panelCalls'[j] = panelCalls[j]
    BY <1>0, <1>2, <2>1, <2>3, <2>4
  <2> QED
    BY <1>0, <1>1, <2>1, <2>4, <2>5
<1>5. CASE PanelAlone!Serve(i)
  <2>1. /\ c.pc = "sent"
        /\ \/ /\ c.value # "error"
              /\ panelRow' = [panelRow EXCEPT ![c.order][c.kind] = c.value]
              /\ panelCalls' = [panelCalls EXCEPT ![i].pc = "answered", ![i].answer = panelRow'[c.order]]
           \/ panelCalls' = [panelCalls EXCEPT ![i].pc = "refused"] /\ panelRow' = panelRow
    BY <1>5 DEF PanelAlone!Serve
  <2>2. CASE panelCalls' = [panelCalls EXCEPT ![i].pc = "refused"] /\ panelRow' = panelRow
    <3> DEFINE d == [kind |-> c.kind, order |-> c.order, value |-> c.value, next |-> c.next, by |-> c.by,
                     pc |-> "refused", answer |-> c.answer]
    <3>1. c.answer \in PanelAlone!Order /\ [c EXCEPT !.pc = "refused"] = d
      BY <1>0 DEF PanelAlone!Call
    <3>2. panelCalls' = [panelCalls EXCEPT ![i] = d]
      BY <1>0, <2>2, <3>1
    <3>3. /\ d \in PanelAlone!Call /\ d.pc = "refused" /\ AloneFits(d)
          /\ \A f \in {"kind", "order", "value", "next", "by"} : d[f] = c[f]
      BY <1>3, <3>1
    <3> HIDE DEF d
    <3>4. /\ AloneTyped' /\ AloneListed' /\ i \in PanelAlone!UnderWay /\ i \in PanelAlone!UnderWay'
          /\ DOMAIN panelCalls' = DOMAIN panelCalls /\ panelCalls'[i] = d
          /\ \A j \in DOMAIN panelCalls : j # i => panelCalls'[j] = panelCalls[j]
      BY <1>0, <1>2, <2>1, <2>2, <3>2, <3>3
    <3> QED
      BY <1>0, <1>1, <2>1, <2>2, <3>3, <3>4
  <2>3. CASE /\ c.value # "error"
             /\ panelRow' = [panelRow EXCEPT ![c.order][c.kind] = c.value]
             /\ panelCalls' = [panelCalls EXCEPT ![i].pc = "answered", ![i].answer = panelRow'[c.order]]
    <3> DEFINE n == [panelRow[c.order] EXCEPT ![c.kind] = c.value]
               e == [c EXCEPT !.pc = "answered"]
               d == [e EXCEPT !.answer = n]
    <3>1. panelRow[c.order] \in PanelAlone!Order
      BY <1>0
    <3>2. /\ n \in PanelAlone!Order /\ n[c.kind] = c.value
          /\ \A f \in PanelAlone!Kinds : f # c.kind => n[f] = panelRow[c.order][f]
      <4> HIDE DEF c
      <4> QED
        BY <1>0, <2>3, <3>1, AloneOrderSet
    <3>3. panelRow' = [panelRow EXCEPT ![c.order] = n]
      BY <1>0, <2>3
    <3> HIDE DEF n
    <3>4. /\ panelRow' \in [Edited -> PanelAlone!Order] /\ panelRow'[c.order] = n
          /\ \A o \in Edited : o # c.order => panelRow'[o] = panelRow[o]
      BY <1>0, <3>2, <3>3
    <3>5. e \in PanelAlone!Call /\ d \in PanelAlone!Call
      BY <1>0, <3>2 DEF PanelAlone!Call
    <3>6. panelCalls' = [panelCalls EXCEPT ![i] = d]
      <4>1. panelCalls' = [panelCalls EXCEPT ![i].pc = "answered", ![i].answer = n]
        BY <2>3, <3>4
      <4>2. [panelCalls EXCEPT ![i].pc = "answered", ![i].answer = n] = [panelCalls EXCEPT ![i] = d]
        BY <1>0
      <4> QED
        BY <4>1, <4>2
    <3>7. /\ d.pc = "answered" /\ d.answer = n /\ AloneFits(d)
          /\ \A f \in {"kind", "order", "value", "next", "by"} : d[f] = c[f]
      <4>1. /\ d.kind = c.kind /\ d.order = c.order /\ d.value = c.value /\ d.next = c.next
            /\ d.by = c.by /\ d.pc = "answered" /\ d.answer = n
        BY <1>0 DEF PanelAlone!Call
      <4> HIDE DEF c, d
      <4> QED
        BY <1>0, <4>1 DEF AloneFits
    <3> HIDE DEF d
    <3>8. /\ AloneTyped' /\ AloneListed' /\ i \in PanelAlone!UnderWay /\ i \in PanelAlone!UnderWay'
          /\ DOMAIN panelCalls' = DOMAIN panelCalls /\ panelCalls'[i] = d
          /\ \A j \in DOMAIN panelCalls : j # i => panelCalls'[j] = panelCalls[j]
      BY <1>0, <1>2, <2>1, <3>4, <3>5, <3>6, <3>7
    <3> QED
      BY <1>0, <1>1, <2>1, <3>2, <3>4, <3>7, <3>8
  <2> QED
    BY <2>1, <2>2, <2>3
<1> QED
  BY <1>4, <1>5

(* The page hears of a request: it is over, the list is fetched again, and *)
(* the status may follow the text.                                         *)
LEMMA AloneReceiveMoves ==
  ASSUME AloneTyped, NEW i \in 1 .. Len(panelCalls), PanelAlone!Receive(i)
  PROVE  LET c == panelCalls[i]
             follows == c.pc = "answered" /\ c.next # "none"
             n == Len(panelCalls) + 1
         IN  /\ AloneTyped' /\ AloneListed' /\ i \in PanelAlone!UnderWay /\ i \in DOMAIN panelCalls
             /\ c \in PanelAlone!Call /\ c.order \in Edited
             /\ c.pc \in {"answered", "refused", "dropped"}
             /\ n \notin DOMAIN panelCalls
             /\ DOMAIN panelCalls' = IF follows THEN DOMAIN panelCalls \cup {n} ELSE DOMAIN panelCalls
             /\ follows => /\ panelCalls'[n].pc = "sent" /\ panelCalls'[n].next = "none"
                           /\ panelCalls'[n].kind = "status" /\ panelCalls'[n].order = c.order
                           /\ panelCalls'[n].value = c.next /\ panelCalls'[n].by = "dialog"
             /\ \A j \in DOMAIN panelCalls : j # i => panelCalls'[j] = panelCalls[j]
             /\ panelCalls'[i].order = c.order
             /\ panelCalls'[i].kind = c.kind /\ panelCalls'[i].next = c.next /\ panelCalls'[i].value = c.value
             /\ panelCalls'[i].by = c.by
             /\ panelCalls'[i].pc = IF c.pc = "dropped" THEN "lost" ELSE "done"
             /\ panelRelist' = [kind |-> "sent"]
             /\ UNCHANGED <<panelRow, panelLook, panelOpen, panelAsking>>
             /\ \/ /\ c.pc = "answered"
                   /\ \A o \in Edited : panelDetail'[o] = IF o = c.order /\ panelDetail[o] # PanelAlone!None
                                                         THEN [kind |-> "row", value |-> c.answer]
                                                         ELSE panelDetail[o]
                \/ c.pc # "answered" /\ panelDetail' = panelDetail
<1> DEFINE c == panelCalls[i]
           n == Len(panelCalls) + 1
           pc == IF c.pc = "dropped" THEN "lost" ELSE "done"
           d == [c EXCEPT !.pc = pc]
           done == [panelCalls EXCEPT ![i] = d]
           new == PanelAlone!NewCall("status", c.order, c.next, "none", "dialog")
           follows == c.pc = "answered" /\ c.next # "none"
<1>0. /\ i \in DOMAIN panelCalls /\ c \in PanelAlone!Call /\ c.order \in Edited
      /\ AloneFits(c) /\ panelCalls \in Seq(PanelAlone!Call) /\ panelRow \in [Edited -> PanelAlone!Order]
      /\ DOMAIN panelCalls = 1 .. Len(panelCalls) /\ Len(panelCalls) \in Nat
      /\ panelDetail \in [Edited -> AloneDetail] /\ panelListed \in [Edited -> PanelAlone!Order]
      /\ panelOpen \in Edited \cup {Null}
  <2>1. panelCalls \in Seq(PanelAlone!Call) /\ panelRow \in [Edited -> PanelAlone!Order]
        /\ \A j \in DOMAIN panelCalls : AloneFits(panelCalls[j])
    BY DEF AloneTyped
  <2>2. DOMAIN panelCalls = 1 .. Len(panelCalls) /\ i \in DOMAIN panelCalls /\ c \in PanelAlone!Call
        /\ Len(panelCalls) \in Nat
    BY <2>1, AloneCalls
  <2> QED
    BY <2>1, <2>2 DEF PanelAlone!Call, AloneTyped
<1>1. n \notin DOMAIN panelCalls
  BY <1>0
<1>2. /\ c.pc \in {"answered", "refused", "dropped"}
      /\ IF c.pc = "answered" THEN PanelAlone!Patch(c.order, c.answer) ELSE UNCHANGED <<panelListed, panelDetail>>
      /\ panelCalls' = IF follows THEN Append(done, new) ELSE done
      /\ panelRelist' = [kind |-> "sent"] /\ panelNotice' = PanelAlone!Tell(c)
      /\ UNCHANGED <<panelRow, panelLook, panelOpen, panelAsking>> /\ PanelAlone!Effects(panelDraft)
  BY <1>0 DEF PanelAlone!Receive, PanelAlone!caches
<1>3. /\ d \in PanelAlone!Call /\ d.pc = pc /\ d.kind = c.kind /\ d.order = c.order /\ d.value = c.value /\ d.next = c.next
      /\ d.by = c.by
  BY <1>0 DEF PanelAlone!Call
<1>4. AloneFits(d)
  <2> HIDE DEF c, d
  <2> QED
    BY <1>0, <1>3 DEF AloneFits
<1>5. ASSUME follows
      PROVE  /\ new \in PanelAlone!Call /\ new.pc = "sent" /\ new.next = "none" /\ new.kind = "status"
             /\ new.order = c.order /\ new.value = c.next /\ new.by = "dialog" /\ AloneFits(new)
  <2>1. c.next \in PanelAlone!Statuses /\ panelRow[c.order] \in PanelAlone!Order
    BY <1>0, <1>5 DEF PanelAlone!Call
  <2> HIDE DEF c
  <2> QED
    BY <1>0, <2>1 DEF PanelAlone!NewCall, PanelAlone!Call, PanelAlone!Kinds, AloneFits
<1> HIDE DEF d
<1>6. /\ done \in Seq(PanelAlone!Call) /\ DOMAIN done = DOMAIN panelCalls /\ done[i] = d
      /\ \A j \in DOMAIN panelCalls : j # i => done[j] = panelCalls[j]
  BY <1>0, <1>3, AloneCalls
<1> HIDE DEF done, new
<1>7. Len(done) = Len(panelCalls)
  BY <1>0, <1>6, AloneCalls
<1>8. follows => /\ Append(done, new) \in Seq(PanelAlone!Call)
                 /\ DOMAIN Append(done, new) = DOMAIN done \cup {n}
                 /\ Append(done, new)[n] = new
                 /\ \A j \in DOMAIN done : Append(done, new)[j] = done[j]
  BY <1>5, <1>6, <1>7, AloneCalls
<1>9. /\ panelCalls' \in Seq(PanelAlone!Call)
      /\ DOMAIN panelCalls' = IF follows THEN DOMAIN panelCalls \cup {n} ELSE DOMAIN panelCalls
      /\ panelCalls'[i] = d /\ (follows => panelCalls'[n] = new)
      /\ \A j \in DOMAIN panelCalls : j # i => panelCalls'[j] = panelCalls[j]
  BY <1>0, <1>2, <1>6, <1>8
<1>10. \A j \in DOMAIN panelCalls' : AloneFits(panelCalls'[j])
  BY <1>4, <1>5, <1>9 DEF AloneTyped
<1>11. /\ panelDetail' \in [Edited -> AloneDetail] /\ panelListed' \in [Edited -> PanelAlone!Order]
       /\ \/ /\ c.pc = "answered"
             /\ \A o \in Edited : panelDetail'[o] = IF o = c.order /\ panelDetail[o] # PanelAlone!None
                                                   THEN [kind |-> "row", value |-> c.answer]
                                                   ELSE panelDetail[o]
          \/ c.pc # "answered" /\ panelDetail' = panelDetail
  <2>1. CASE c.pc # "answered"
    BY <1>0, <1>2, <2>1
  <2>2. CASE c.pc = "answered"
    <3>1. /\ panelListed' = [panelListed EXCEPT ![c.order] = c.answer]
          /\ panelDetail' = [panelDetail EXCEPT ![c.order] = IF @ = PanelAlone!None THEN PanelAlone!None
                                                            ELSE [kind |-> "row", value |-> c.answer]]
      BY <1>2, <2>2 DEF PanelAlone!Patch
    <3>2. c.answer \in PanelAlone!Order
      BY <1>0 DEF PanelAlone!Call
    <3> HIDE DEF c
    <3>3. [kind |-> "row", value |-> c.answer] \in AloneDetail /\ PanelAlone!None \in AloneDetail
      BY <3>2 DEF AloneDetail
    <3>4. panelDetail' \in [Edited -> AloneDetail] /\ panelListed' \in [Edited -> PanelAlone!Order]
      BY <1>0, <3>1, <3>2, <3>3
    <3>5. \A o \in Edited : panelDetail'[o] = IF o = c.order /\ panelDetail[o] # PanelAlone!None
                                             THEN [kind |-> "row", value |-> c.answer]
                                             ELSE panelDetail[o]
      BY <1>0, <3>1
    <3> QED
      BY <2>2, <3>4, <3>5
  <2> QED
    BY <2>1, <2>2
<1>12. panelDraft' \in [note : PanelAlone!Drafted, result : PanelAlone!Drafted]
  BY <1>0, <1>2, <1>11, AloneDraftsFollow
<1>13. panelNotice' \in PanelAlone!Notice
  <2>1. panelNotice \in PanelAlone!Notice
    BY DEF AloneTyped
  <2> HIDE DEF c
  <2> QED
    BY <1>0, <1>2, <2>1 DEF PanelAlone!Tell, PanelAlone!Notice
<1>14. panelRelist' \in PanelAlone!Fetch([Edited -> PanelAlone!Order]) /\ panelRelist' # PanelAlone!None
       /\ panelRelist'.kind # "answered"
  BY <1>2 DEF PanelAlone!Fetch, PanelAlone!None
<1>15. AloneTyped' /\ AloneListed'
  BY <1>2, <1>9, <1>10, <1>11, <1>12, <1>13, <1>14 DEF AloneTyped, AloneListed
<1>16. i \in PanelAlone!UnderWay
  BY <1>0, <1>2 DEF PanelAlone!UnderWay, PanelAlone!Over
<1> HIDE DEF c, n, pc
<1>17. /\ panelCalls'[i].order = c.order /\ panelCalls'[i].kind = c.kind /\ panelCalls'[i].next = c.next
       /\ panelCalls'[i].value = c.value /\ panelCalls'[i].by = c.by /\ panelCalls'[i].pc = pc
  BY <1>3, <1>9
<1>18. follows => /\ panelCalls'[n].pc = "sent" /\ panelCalls'[n].next = "none"
                  /\ panelCalls'[n].kind = "status" /\ panelCalls'[n].order = c.order
                  /\ panelCalls'[n].value = c.next /\ panelCalls'[n].by = "dialog"
  BY <1>5, <1>9
<1> QED
  BY <1>0, <1>1, <1>2, <1>9, <1>11, <1>15, <1>16, <1>17, <1>18 DEF c, n, pc

\* The text that a status is set after.
TextFor(status) == IF status = "completed" THEN "result" ELSE "note"

\* A request, given the orders on the server: a text that is asked for comes
\* first, the status follows it, and an answer is the order as it still is.
AloneCall(c, rows) ==
  /\ c.next \in {"none", "completed", "failed"}
  /\ c.next # "none" => c.kind = TextFor(c.next) /\ c.value # PanelAlone!Empty
  /\ c.kind = "status" => c.next = "none"
  /\ (c.kind = "status" /\ c.by = "dialog" /\ c.pc = "sent") => rows[c.order][TextFor(c.value)] # PanelAlone!Empty
  /\ c.pc = "answered" => c.answer = rows[c.order] /\ rows[c.order][c.kind] = c.value

\* What is cached of an order is the order, or an answer about it was not
\* heard or is still to come.
AloneFresh(o, detail, rows, requests) ==
  detail.kind = "row" =>
    \/ detail.value = rows[o]
    \/ \E i \in DOMAIN requests : requests[i].order = o /\ requests[i].pc \in {"answered", "dropped", "lost"}

AloneInv ==
  /\ AloneTyped /\ AloneListed
  /\ \A i, j \in PanelAlone!UnderWay : i = j
  /\ \A o \in Edited : panelLook[o] # PanelAlone!None => PanelAlone!UnderWay = {} /\ panelRelist = PanelAlone!None
  /\ \A o \in Edited : panelLook[o].kind = "answered" => panelLook[o].value = panelRow[o]
  /\ \A i \in DOMAIN panelCalls : AloneCall(panelCalls[i], panelRow)
  /\ \A o \in Edited : AloneFresh(o, panelDetail[o], panelRow, panelCalls)

(* A request is under way until the page has heard of it.                  *)
LEMMA AloneUnder ==
  ASSUME NEW q \in Seq(PanelAlone!Call)
  PROVE  {i \in 1 .. Len(q) : q[i].pc \notin PanelAlone!Over} = {i \in DOMAIN q : q[i].pc \notin {"done", "lost"}}
<1>1. DOMAIN q = 1 .. Len(q)
  BY AloneCalls
<1> QED
  BY <1>1 DEF PanelAlone!Over

(* A request that is begun is the only one.                                *)
LEMMA AloneBegun ==
  ASSUME AloneInv, NEW c \in PanelAlone!Call, panelCalls' = Append(panelCalls, c),
         AloneFits(c), c.pc = "sent", panelAsking' \in {panelAsking, PanelAlone!None},
         PanelAlone!Quiet, c.kind = "status" => c.next = "none" /\ c.by = "panel",
         c.next # "none" => /\ c.next \in {"completed", "failed"} /\ c.kind = TextFor(c.next)
                            /\ c.value # PanelAlone!Empty,
         UNCHANGED <<panelRow, panelListed, panelDetail, panelLook, panelRelist, panelOpen, panelDraft, panelNotice>>
  PROVE  AloneInv'
<1> DEFINE n == Len(panelCalls) + 1
<1>0. AloneTyped /\ AloneListed /\ panelCalls \in Seq(PanelAlone!Call)
  BY DEF AloneInv, AloneTyped
<1>1. /\ AloneTyped' /\ AloneListed'
      /\ DOMAIN panelCalls' = DOMAIN panelCalls \cup {n} /\ panelCalls'[n] = c
      /\ \A i \in DOMAIN panelCalls : panelCalls'[i] = panelCalls[i]
  BY <1>0, AloneBeginKeeps
<1> HIDE DEF n
<1>2. panelCalls' \in Seq(PanelAlone!Call)
  BY <1>1 DEF AloneTyped
<1>3. \A i \in DOMAIN panelCalls : panelCalls[i].pc \in {"done", "lost"}
  <2>1. PanelAlone!UnderWay = {}
    BY DEF PanelAlone!Quiet
  <2> QED
    BY <1>0, <2>1, AloneUnder DEF PanelAlone!UnderWay
<1>4. \A i \in PanelAlone!UnderWay' : i = n
  BY <1>1, <1>2, <1>3, AloneUnder DEF PanelAlone!UnderWay
<1>5. \A o \in Edited : panelLook'[o] = PanelAlone!None
  BY DEF PanelAlone!Quiet
<1>6. \A i \in DOMAIN panelCalls' : AloneCall(panelCalls'[i], panelRow')
  <2>1. AloneCall(c, panelRow)
    BY DEF AloneCall
  <2> QED
    BY <1>1, <2>1 DEF AloneInv
<1>7. \A o \in Edited : AloneFresh(o, panelDetail'[o], panelRow', panelCalls')
  BY <1>1 DEF AloneInv, AloneFresh
<1>8. PanelAlone!None.kind # "answered"
  BY DEF PanelAlone!None
<1> QED
  BY <1>1, <1>4, <1>5, <1>6, <1>7, <1>8 DEF AloneInv

(* While one is under way, no query is, and no other request.              *)
LEMMA AloneOnly ==
  ASSUME AloneInv, NEW i \in PanelAlone!UnderWay
  PROVE  /\ \A o \in Edited : panelLook[o] = PanelAlone!None
         /\ i \in DOMAIN panelCalls
         /\ \A j \in DOMAIN panelCalls : j # i => panelCalls[j].pc \in {"done", "lost"}
<1>1. panelCalls \in Seq(PanelAlone!Call)
  BY DEF AloneInv, AloneTyped
<1>2. PanelAlone!UnderWay = {j \in DOMAIN panelCalls : panelCalls[j].pc \notin {"done", "lost"}}
  BY <1>1, AloneUnder DEF PanelAlone!UnderWay
<1> QED
  BY <1>2 DEF AloneInv

(* The server serves it.                                                   *)
LEMMA AloneServed ==
  ASSUME AloneInv, NEW i \in 1 .. Len(panelCalls), PanelAlone!Serve(i) \/ PanelAlone!Lose(i)
  PROVE  AloneInv' /\ PanelAlone!ClosedWithText
<1> DEFINE c == panelCalls[i]
           d == panelCalls'[i]
           Answered == /\ c.pc = "sent" /\ d.pc = "answered"
                       /\ d.answer = panelRow'[c.order] /\ panelRow'[c.order][c.kind] = c.value
                       /\ \A f \in PanelAlone!Kinds : f # c.kind => panelRow'[c.order][f] = panelRow[c.order][f]
                       /\ \A o \in Edited : o # c.order => panelRow'[o] = panelRow[o]
           Refused == c.pc = "sent" /\ d.pc = "refused" /\ panelRow' = panelRow
           Dropped == c.pc = "answered" /\ d.pc = "dropped" /\ panelRow' = panelRow
<1>0. /\ AloneTyped' /\ AloneListed' /\ i \in PanelAlone!UnderWay /\ i \in PanelAlone!UnderWay'
      /\ DOMAIN panelCalls' = DOMAIN panelCalls /\ i \in DOMAIN panelCalls
      /\ \A j \in DOMAIN panelCalls : j # i => panelCalls'[j] = panelCalls[j]
      /\ UNCHANGED <<panelListed, panelDetail, panelLook, panelRelist, panelOpen, panelDraft, panelAsking, panelNotice>>
      /\ c \in PanelAlone!Call /\ c.order \in Edited
      /\ \A f \in {"kind", "order", "value", "next", "by"} : d[f] = c[f]
      /\ Answered \/ Refused \/ Dropped
  BY AloneServeMoves DEF AloneInv
<1>1. /\ \A o \in Edited : panelLook[o] = PanelAlone!None
      /\ \A j \in DOMAIN panelCalls : j # i => panelCalls[j].pc \in {"done", "lost"}
  BY <1>0, AloneOnly
<1>2. panelCalls' \in Seq(PanelAlone!Call)
  BY <1>0 DEF AloneTyped
<1>3. \A j \in PanelAlone!UnderWay' : j = i
  BY <1>0, <1>1, <1>2, AloneUnder DEF PanelAlone!UnderWay
<1>4. d.kind = c.kind /\ d.order = c.order /\ d.value = c.value /\ d.next = c.next
      /\ d.by = c.by
  BY <1>0
<1>5. AloneCall(c, panelRow) /\ c.kind \in PanelAlone!Kinds
  BY <1>0 DEF AloneInv, PanelAlone!Call
<1> HIDE DEF c, d
<1>6. AloneCall(d, panelRow')
  <2>1. CASE Answered
    BY <1>4, <1>5, <2>1 DEF AloneCall
  <2>2. CASE Refused
    BY <1>4, <1>5, <2>2 DEF AloneCall
  <2>3. CASE Dropped
    BY <1>4, <1>5, <2>3 DEF AloneCall
  <2> QED
    BY <1>0, <2>1, <2>2, <2>3
<1>7. ASSUME NEW j \in DOMAIN panelCalls, j # i
      PROVE  AloneCall(panelCalls'[j], panelRow')
  <2>1. /\ panelCalls'[j] = panelCalls[j] /\ panelCalls[j].pc \in {"done", "lost"}
        /\ AloneCall(panelCalls[j], panelRow)
    BY <1>0, <1>1, <1>7 DEF AloneInv
  <2> QED
    BY <2>1 DEF AloneCall
<1>8. \A j \in DOMAIN panelCalls' : AloneCall(panelCalls'[j], panelRow')
  BY <1>0, <1>6, <1>7 DEF d
<1>9. ASSUME NEW o \in Edited
      PROVE  AloneFresh(o, panelDetail'[o], panelRow', panelCalls')
  <2>1. AloneFresh(o, panelDetail[o], panelRow, panelCalls) /\ panelDetail' = panelDetail
    BY <1>0, <1>9 DEF AloneInv
  <2>2. CASE Answered /\ o = c.order
    BY <1>0, <1>4, <2>2 DEF AloneFresh, d
  <2>3. CASE Answered /\ o # c.order
    BY <1>0, <1>9, <2>1, <2>3 DEF AloneFresh, c, d
  <2>4. CASE Refused
    BY <1>0, <2>1, <2>4 DEF AloneFresh, c, d
  <2>5. CASE Dropped
    BY <1>0, <1>4, <2>1, <2>5 DEF AloneFresh, c, d
  <2> QED
    BY <1>0, <2>2, <2>3, <2>4, <2>5
<1>10. PanelAlone!None.kind # "answered"
  BY DEF PanelAlone!None
<1>11. AloneInv'
  BY <1>0, <1>1, <1>3, <1>8, <1>9, <1>10 DEF AloneInv
<1>12. ASSUME NEW j \in 1 .. Len(panelCalls), panelCalls[j].kind = "status", panelCalls[j].by = "dialog",
              panelCalls[j].pc = "sent"
       PROVE  panelRow[panelCalls[j].order][TextFor(panelCalls[j].value)] # PanelAlone!Empty
  <2>1. j \in DOMAIN panelCalls
    BY <1>12, AloneCalls DEF AloneInv, AloneTyped
  <2> QED
    BY <1>12, <2>1 DEF AloneInv, AloneCall
<1> QED
  BY <1>11, <1>12 DEF PanelAlone!ClosedWithText, TextFor

(* The page hears of it, and the status may follow.                        *)
LEMMA AloneReceived ==
  ASSUME AloneInv, NEW i \in 1 .. Len(panelCalls), PanelAlone!Receive(i)
  PROVE  AloneInv'
<1> DEFINE c == panelCalls[i]
           d == panelCalls'[i]
           follows == c.pc = "answered" /\ c.next # "none"
           n == Len(panelCalls) + 1
           new == panelCalls'[n]
<1>0. /\ AloneTyped' /\ AloneListed' /\ i \in PanelAlone!UnderWay /\ i \in DOMAIN panelCalls
      /\ c \in PanelAlone!Call /\ c.order \in Edited
      /\ c.pc \in {"answered", "refused", "dropped"}
      /\ n \notin DOMAIN panelCalls
      /\ DOMAIN panelCalls' = IF follows THEN DOMAIN panelCalls \cup {n} ELSE DOMAIN panelCalls
      /\ follows => new.pc = "sent" /\ new.next = "none" /\ new.kind = "status" /\ new.order = c.order
                    /\ new.value = c.next /\ new.by = "dialog"
      /\ \A j \in DOMAIN panelCalls : j # i => panelCalls'[j] = panelCalls[j]
      /\ d.order = c.order /\ d.kind = c.kind /\ d.next = c.next /\ d.value = c.value /\ d.by = c.by
      /\ d.pc = IF c.pc = "dropped" THEN "lost" ELSE "done"
      /\ UNCHANGED <<panelRow, panelLook, panelOpen, panelAsking>>
      /\ \/ /\ c.pc = "answered"
            /\ \A o \in Edited : panelDetail'[o] = IF o = c.order /\ panelDetail[o] # PanelAlone!None
                                                  THEN [kind |-> "row", value |-> c.answer]
                                                  ELSE panelDetail[o]
         \/ c.pc # "answered" /\ panelDetail' = panelDetail
  BY AloneReceiveMoves DEF AloneInv
<1>1. /\ \A o \in Edited : panelLook[o] = PanelAlone!None
      /\ \A j \in DOMAIN panelCalls : j # i => panelCalls[j].pc \in {"done", "lost"}
  BY <1>0, AloneOnly
<1>2. panelCalls' \in Seq(PanelAlone!Call)
  BY <1>0 DEF AloneTyped
<1>3. AloneCall(c, panelRow)
  BY <1>0 DEF AloneInv
<1> HIDE DEF n
<1>4. \A j, k \in PanelAlone!UnderWay' : j = k
  <2>1. \A j \in PanelAlone!UnderWay' : j \in DOMAIN panelCalls' /\ panelCalls'[j].pc \notin {"done", "lost"}
    BY <1>2, AloneUnder DEF PanelAlone!UnderWay
  <2>2. \A j \in PanelAlone!UnderWay' : j = n
    BY <1>0, <1>1, <2>1
  <2> QED
    BY <2>2
<1> HIDE DEF c, d, new
<1>5. AloneCall(d, panelRow)
  BY <1>0, <1>3 DEF AloneCall
<1>6. follows => AloneCall(new, panelRow)
  <2> SUFFICES ASSUME follows
               PROVE  AloneCall(new, panelRow)
    OBVIOUS
  <2>1. c.next \in {"completed", "failed"} /\ c.kind = TextFor(c.next) /\ c.value # PanelAlone!Empty
        /\ panelRow[c.order][c.kind] = c.value
    BY <1>3 DEF AloneCall
  <2> QED
    BY <1>0, <2>1 DEF AloneCall
<1>7. \A j \in DOMAIN panelCalls' : AloneCall(panelCalls'[j], panelRow')
  <2>1. \A j \in DOMAIN panelCalls : AloneCall(panelCalls[j], panelRow)
    BY DEF AloneInv
  <2> QED
    BY <1>0, <1>5, <1>6, <2>1 DEF d, new
<1>8. ASSUME NEW o \in Edited
      PROVE  AloneFresh(o, panelDetail'[o], panelRow', panelCalls')
  <2>1. AloneFresh(o, panelDetail[o], panelRow, panelCalls)
    BY <1>8 DEF AloneInv
  <2>2. CASE c.pc = "answered" /\ o = c.order
    <3>1. c.answer = panelRow[o]
      BY <1>3, <2>2 DEF AloneCall
    <3>2. CASE panelDetail[o] = PanelAlone!None
      BY <1>0, <1>8, <2>2, <3>2 DEF AloneFresh, PanelAlone!None
    <3>3. CASE panelDetail[o] # PanelAlone!None
      BY <1>0, <1>8, <2>2, <3>1, <3>3 DEF AloneFresh
    <3> QED
      BY <3>2, <3>3
  <2>3. CASE c.pc = "answered" /\ o # c.order
    BY <1>0, <1>8, <2>1, <2>3 DEF AloneFresh, c, d
  <2>4. CASE c.pc # "answered"
    BY <1>0, <1>8, <2>1, <2>4 DEF AloneFresh, c, d
  <2> QED
    BY <2>2, <2>3, <2>4
<1>9. PanelAlone!None.kind # "answered"
  BY DEF PanelAlone!None
<1> QED
  BY <1>0, <1>1, <1>4, <1>7, <1>8, <1>9 DEF AloneInv

(* What the page itself does, and the queries.                             *)
LEMMA AlonePaged ==
  ASSUME AloneInv, UNCHANGED <<panelRow, panelCalls>>,
         \/ \E o \in Edited : PanelAlone!Open(o) \/ PanelAlone!ServeDetail(o) \/ PanelAlone!DetailArrives(o)
         \/ PanelAlone!Close
         \/ \E field \in {"note", "result"}, text \in PanelAlone!Drafted : PanelAlone!Type(field, text)
         \/ \E action \in {"complete", "fail"} : PanelAlone!Ask(action)
         \/ PanelAlone!CancelAsk \/ PanelAlone!ServeList \/ PanelAlone!ListArrives
  PROVE  AloneInv'
<1>0. /\ AloneTyped /\ AloneListed /\ AloneTyped' /\ AloneListed'
  BY AlonePageMoves DEF AloneInv
<1>1. PanelAlone!UnderWay' = PanelAlone!UnderWay
  BY DEF PanelAlone!UnderWay
<1>2. /\ \A i, j \in PanelAlone!UnderWay : i = j
      /\ \A o \in Edited : panelLook[o] # PanelAlone!None => PanelAlone!UnderWay = {} /\ panelRelist = PanelAlone!None
      /\ \A o \in Edited : panelLook[o].kind = "answered" => panelLook[o].value = panelRow[o]
      /\ \A i \in DOMAIN panelCalls : AloneCall(panelCalls[i], panelRow)
      /\ \A o \in Edited : AloneFresh(o, panelDetail[o], panelRow, panelCalls)
      /\ panelLook \in [Edited -> PanelAlone!Fetch(PanelAlone!Order)] /\ panelDetail \in [Edited -> AloneDetail]
  BY DEF AloneInv, AloneTyped
<1>3. PanelAlone!None.kind = "none"
  BY DEF PanelAlone!None
<1>4. ASSUME NEW o \in Edited, PanelAlone!Open(o)
      PROVE  AloneInv'
  <2>1. /\ PanelAlone!Quiet /\ UNCHANGED <<panelDetail, panelRelist>>
        /\ panelLook' = [panelLook EXCEPT ![o] = IF @ = PanelAlone!None THEN [kind |-> "sent"] ELSE @]
    BY <1>4 DEF PanelAlone!Open, PanelAlone!caches
  <2>2. PanelAlone!UnderWay = {} /\ panelRelist = PanelAlone!None
    BY <2>1 DEF PanelAlone!Quiet
  <2>3. \A p \in Edited : panelLook'[p] = panelLook[p] \/ panelLook'[p] = [kind |-> "sent"]
    BY <1>2, <1>4, <2>1
  <2>4. \A p \in Edited : panelLook'[p].kind = "answered" => panelLook'[p].value = panelRow[p]
    BY <1>2, <2>3
  <2> QED
    BY <1>0, <1>1, <1>2, <2>1, <2>2, <2>4 DEF AloneInv
<1>5. ASSUME NEW o \in Edited, PanelAlone!ServeDetail(o)
      PROVE  AloneInv'
  <2>1. /\ panelLook[o] = [kind |-> "sent"] /\ UNCHANGED <<panelDetail, panelRelist>>
        /\ panelLook' = [panelLook EXCEPT ![o] = [kind |-> "answered", value |-> panelRow[o]]]
    BY <1>5 DEF PanelAlone!ServeDetail, PanelAlone!caches
  <2>2. panelLook[o] # PanelAlone!None
    BY <1>3, <2>1
  <2>3. PanelAlone!UnderWay = {} /\ panelRelist = PanelAlone!None
    BY <1>2, <1>5, <2>2
  <2>4. \A p \in Edited : panelLook'[p] = IF p = o THEN [kind |-> "answered", value |-> panelRow[o]] ELSE panelLook[p]
    BY <1>2, <1>5, <2>1
  <2>5. \A p \in Edited : panelLook'[p].kind = "answered" => panelLook'[p].value = panelRow[p]
    BY <1>2, <2>4
  <2> QED
    BY <1>0, <1>1, <1>2, <2>1, <2>3, <2>5 DEF AloneInv
<1>6. ASSUME NEW o \in Edited, PanelAlone!DetailArrives(o)
      PROVE  AloneInv'
  <2>1. /\ panelLook[o].kind = "answered" /\ panelRelist' = panelRelist
        /\ panelLook' = [panelLook EXCEPT ![o] = PanelAlone!None]
        /\ panelDetail' = [panelDetail EXCEPT ![o] = [kind |-> "row", value |-> panelLook[o].value]]
    BY <1>6 DEF PanelAlone!DetailArrives
  <2>2. \A p \in Edited : panelLook'[p] = IF p = o THEN PanelAlone!None ELSE panelLook[p]
    BY <1>2, <1>6, <2>1
  <2>3. \A p \in Edited : panelDetail'[p] = IF p = o THEN [kind |-> "row", value |-> panelRow[o]] ELSE panelDetail[p]
    BY <1>2, <1>6, <2>1
  <2>4. \A p \in Edited : AloneFresh(p, panelDetail'[p], panelRow', panelCalls')
    BY <1>2, <2>3 DEF AloneFresh
  <2>5. \A p \in Edited : panelLook'[p].kind = "answered" => panelLook'[p].value = panelRow[p]
    BY <1>2, <1>3, <2>2
  <2>6. \A p \in Edited : panelLook'[p] # PanelAlone!None => PanelAlone!UnderWay = {} /\ panelRelist = PanelAlone!None
    BY <1>2, <2>2
  <2> QED
    BY <1>0, <1>1, <1>2, <2>1, <2>4, <2>5, <2>6 DEF AloneInv
<1>7. CASE PanelAlone!ServeList \/ PanelAlone!ListArrives
  <2>1. panelRelist # PanelAlone!None /\ UNCHANGED <<panelDetail, panelLook>>
    BY <1>3, <1>7 DEF PanelAlone!ServeList, PanelAlone!ListArrives, PanelAlone!caches
  <2>2. \A o \in Edited : panelLook'[o] = PanelAlone!None
    BY <1>2, <2>1
  <2> QED
    BY <1>0, <1>1, <1>2, <1>3, <2>1, <2>2 DEF AloneInv
<1>8. CASE \/ PanelAlone!Close
           \/ \E field \in {"note", "result"}, text \in PanelAlone!Drafted : PanelAlone!Type(field, text)
           \/ \E action \in {"complete", "fail"} : PanelAlone!Ask(action)
           \/ PanelAlone!CancelAsk
  <2>1. UNCHANGED <<panelDetail, panelLook, panelRelist>>
    BY <1>8 DEF PanelAlone!Close, PanelAlone!Type, PanelAlone!Ask, PanelAlone!CancelAsk, PanelAlone!caches
  <2> QED
    BY <1>0, <1>1, <1>2, <2>1 DEF AloneInv
<1> QED
  BY <1>4, <1>5, <1>6, <1>7, <1>8

(* Taken one at a time, requests leave what the page has of an order as it *)
(* is, and close it after its text.                                        *)
LEMMA AloneInvHolds ==
  /\ PanelAlone!Init => AloneInv
  /\ (AloneInv /\ PanelAlone!Next) => (AloneInv' /\ PanelAlone!ClosedWithText)
  /\ AloneInv /\ UNCHANGED PanelAlone!vars => AloneInv'
<1>1. ASSUME PanelAlone!Init
      PROVE  AloneInv
  <2>1. AloneTyped /\ AloneListed
    BY <1>1, AloneBegins
  <2>2. /\ panelCalls = << >> /\ panelLook = [o \in Edited |-> PanelAlone!None]
        /\ panelDetail = [o \in Edited |-> PanelAlone!None]
    BY <1>1 DEF PanelAlone!Init
  <2>3. DOMAIN panelCalls = {} /\ panelCalls \in Seq(PanelAlone!Call)
    BY <2>2
  <2>4. PanelAlone!UnderWay = {}
    BY <2>3, AloneUnder DEF PanelAlone!UnderWay
  <2>5. PanelAlone!None.kind = "none"
    BY DEF PanelAlone!None
  <2> QED
    BY <2>1, <2>2, <2>3, <2>4, <2>5 DEF AloneInv, AloneFresh
<1>2. ASSUME AloneInv, PanelAlone!Next
      PROVE  AloneInv' /\ PanelAlone!ClosedWithText
  <2>0. ASSUME \A i \in 1 .. Len(panelCalls) : panelCalls[i].pc = "sent" => panelCalls'[i] = panelCalls[i]
        PROVE  PanelAlone!ClosedWithText
    BY <2>0 DEF PanelAlone!ClosedWithText
  <2>1. CASE \/ \E kind \in {"status", "payment"}, value \in PanelAlone!Statuses \cup {"unpaid", "paid", "error"} :
                  PanelAlone!Choose(kind, value)
             \/ \E field \in {"note", "result"} : PanelAlone!Save(field)
             \/ PanelAlone!ConfirmAsk
    <3>1. PICK c \in PanelAlone!Call :
           /\ panelCalls' = Append(panelCalls, c)
           /\ AloneFits(c) /\ c.pc = "sent"
           /\ \/ c.by = "panel" /\ c.next = "none" /\ c.kind \in {"status", "payment"} \cup {"note", "result"}
              \/ /\ panelAsking # PanelAlone!None /\ c.value = panelAsking.text
                 /\ \/ c.next = "completed" /\ c.kind = "result"
                    \/ c.next = "failed" /\ c.kind = "note"
           /\ PanelAlone!MayStart(1) \/ PanelAlone!MayStart(2)
           /\ panelAsking' \in {panelAsking, PanelAlone!None}
           /\ UNCHANGED <<panelRow, panelListed, panelDetail, panelLook, panelRelist, panelOpen, panelDraft, panelNotice>>
      BY <1>2, <2>1, AloneBeginMoves DEF AloneInv
    <3>2. PanelAlone!Quiet
      BY <3>1 DEF PanelAlone!MayStart
    <3>3. panelAsking # PanelAlone!None => panelAsking.text # PanelAlone!Empty
      BY <1>2, PanelAloneAssumption DEF AloneInv, AloneTyped, PanelAlone!Asking, PanelAlone!PanelAssumption
    <3>4. c.kind = "status" => c.next = "none" /\ c.by = "panel"
      BY <3>1
    <3>5. c.next # "none" => /\ c.next \in {"completed", "failed"} /\ c.kind = TextFor(c.next)
                             /\ c.value # PanelAlone!Empty
      BY <3>1, <3>3 DEF TextFor
    <3>6. AloneInv'
      BY <1>2, <3>1, <3>2, <3>4, <3>5, AloneBegun
    <3>7. \A i \in 1 .. Len(panelCalls) : panelCalls'[i] = panelCalls[i]
      BY <1>2, <3>1, AloneCalls DEF AloneInv, AloneTyped
    <3> QED
      BY <2>0, <3>6, <3>7
  <2>2. CASE \E i \in 1 .. Len(panelCalls) : PanelAlone!Serve(i) \/ PanelAlone!Lose(i)
    BY <1>2, <2>2, AloneServed
  <2>3. CASE \E i \in 1 .. Len(panelCalls) : PanelAlone!Receive(i)
    <3>1. PICK i \in 1 .. Len(panelCalls) : PanelAlone!Receive(i)
      BY <2>3
    <3>2. panelCalls[i].pc # "sent"
      BY <3>1 DEF PanelAlone!Receive
    <3>3. /\ DOMAIN panelCalls = 1 .. Len(panelCalls)
          /\ \A j \in DOMAIN panelCalls : j # i => panelCalls'[j] = panelCalls[j]
      BY <1>2, <3>1, AloneReceiveMoves, AloneCalls DEF AloneInv, AloneTyped
    <3> QED
      BY <1>2, <2>0, <3>1, <3>2, <3>3, AloneReceived
  <2>4. CASE \/ \E o \in Edited : PanelAlone!Open(o) \/ PanelAlone!ServeDetail(o) \/ PanelAlone!DetailArrives(o)
             \/ PanelAlone!Close
             \/ \E field \in {"note", "result"}, text \in PanelAlone!Drafted : PanelAlone!Type(field, text)
             \/ \E action \in {"complete", "fail"} : PanelAlone!Ask(action)
             \/ PanelAlone!CancelAsk \/ PanelAlone!ServeList \/ PanelAlone!ListArrives
    <3>1. UNCHANGED <<panelRow, panelCalls>>
      BY <2>4 DEF PanelAlone!Open, PanelAlone!ServeDetail, PanelAlone!DetailArrives, PanelAlone!Close, PanelAlone!Type,
                  PanelAlone!Ask, PanelAlone!CancelAsk, PanelAlone!ServeList, PanelAlone!ListArrives
    <3> QED
      BY <1>2, <2>0, <2>4, <3>1, AlonePaged
  <2> QED
    BY <1>2, <2>1, <2>2, <2>3, <2>4 DEF PanelAlone!Next
<1>3. ASSUME AloneInv, UNCHANGED PanelAlone!vars
      PROVE  AloneInv'
  BY <1>3 DEF AloneInv, AloneTyped, AloneListed, PanelAlone!vars, PanelAlone!UnderWay
<1> QED
  BY <1>1, <1>2, <1>3

(* What the run checks of it.                                              *)
LEMMA AloneInvGives ==
  ASSUME AloneInv
  PROVE  PanelAlone!PanelCatchesUp
<1> SUFFICES ASSUME PanelAlone!Quiet, panelOpen # Null,
                    \A i \in 1 .. Len(panelCalls) : panelCalls[i].order = panelOpen => panelCalls[i].pc # "lost"
             PROVE  PanelAlone!Shown(panelOpen, panelDetail, panelListed) = panelRow[panelOpen]
  BY DEF PanelAlone!PanelCatchesUp
<1>1. panelOpen \in Edited /\ panelCalls \in Seq(PanelAlone!Call)
  BY DEF AloneInv, AloneTyped
<1>2. panelListed = panelRow
  BY DEF AloneInv, AloneListed, PanelAlone!Quiet
<1>3. DOMAIN panelCalls = 1 .. Len(panelCalls)
  BY <1>1, AloneCalls
<1>4. \A i \in DOMAIN panelCalls : panelCalls[i].pc \in {"done", "lost"}
  <2>1. PanelAlone!UnderWay = {}
    BY DEF PanelAlone!Quiet
  <2> QED
    BY <1>1, <2>1, AloneUnder DEF PanelAlone!UnderWay
<1>5. panelDetail[panelOpen].kind = "row" => panelDetail[panelOpen].value = panelRow[panelOpen]
  BY <1>1, <1>3, <1>4 DEF AloneInv, AloneFresh
<1> QED
  BY <1>2, <1>5 DEF PanelAlone!Shown

-----------------------------------------------------------------------------
(* One page is open, and the others stay as they are.                      *)

\* The invariant of each part, while it is the one that acts.
OrderPagesInv ==
  /\ part = "import" => ImportInv
  /\ part = "design" => DesignInv
  /\ part = "viewer" => ViewerInv
  /\ part = "staff filters" => StaffUrlInv
  /\ part = "own filters" => OwnUrlInv
  /\ part = "desk" => DeskInv
  /\ part = "desk shared" => SharedInv
  /\ part = "panel" => PanelInv
  /\ part = "panel alone" => AloneInv

(* It holds when the page is opened.                                       *)
LEMMA OrderPagesInvStarts ==
  ASSUME Init
  PROVE  OrderPagesInv
<1>1. part = "import" => ImportInv
  <2>1. part = "import" => Importing!Init
    BY DEF Init
  <2> QED
    BY <2>1, ImportInvHolds
<1>2. part = "design" => DesignInv
  <2>1. part = "design" => Designing!Init
    BY DEF Init
  <2> QED
    BY <2>1, DesignInvHolds
<1>3. part = "viewer" => ViewerInv
  <2>1. part = "viewer" => Viewing!Init
    BY DEF Init
  <2> QED
    BY <2>1, ViewerInvHolds
<1>4. part = "staff filters" => StaffUrlInv
  <2>1. part = "staff filters" => StaffFilters!Init
    BY DEF Init
  <2> QED
    BY <2>1, StaffUrlHolds
<1>5. part = "own filters" => OwnUrlInv
  <2>1. part = "own filters" => OwnFilters!Init
    BY DEF Init
  <2> QED
    BY <2>1, OwnUrlHolds
<1>6. part = "desk" => DeskInv
  <2>1. part = "desk" => Desk!Init
    BY DEF Init
  <2> QED
    BY <2>1, DeskInvHolds
<1>7. part = "desk shared" => SharedInv
  <2>1. part = "desk shared" => DeskShared!Init
    BY DEF Init
  <2> QED
    BY <2>1, SharedInvHolds
<1>8. part = "panel" => PanelInv
  <2>1. part = "panel" => Panel!Init
    BY DEF Init
  <2> QED
    BY <2>1, PanelInvHolds
<1>9. part = "panel alone" => AloneInv
  <2>1. part = "panel alone" => PanelAlone!Init
    BY DEF Init
  <2> QED
    BY <2>1, AloneInvHolds
<1> QED
  BY <1>1, <1>2, <1>3, <1>4, <1>5, <1>6, <1>7, <1>8, <1>9 DEF OrderPagesInv

(* A step of a part keeps that part's invariant; the part that acts stays  *)
(* the same, so the other conjuncts speak of no part.                      *)
LEMMA OrderPagesInvStays ==
  ASSUME OrderPagesInv, Next
  PROVE  OrderPagesInv'
<1>0. part' = part
  BY DEF Next, Only
<1>1. part = "import" => ImportInv'
  <2>1. part = "import" => ImportInv /\ Importing!Next
    BY DEF Next, Only, OrderPagesInv
  <2> QED
    BY <2>1, ImportInvHolds
<1>2. part = "design" => DesignInv'
  <2>1. part = "design" => DesignInv /\ Designing!Next
    BY DEF Next, Only, OrderPagesInv
  <2> QED
    BY <2>1, DesignInvHolds
<1>3. part = "viewer" => ViewerInv'
  <2>1. part = "viewer" => ViewerInv /\ Viewing!Next
    BY DEF Next, Only, OrderPagesInv
  <2> QED
    BY <2>1, ViewerInvHolds
<1>4. part = "staff filters" => StaffUrlInv'
  <2>1. part = "staff filters" => StaffUrlInv /\ StaffFilters!Next
    BY DEF Next, Only, OrderPagesInv
  <2> QED
    BY <2>1, StaffUrlHolds
<1>5. part = "own filters" => OwnUrlInv'
  <2>1. part = "own filters" => OwnUrlInv /\ OwnFilters!Next
    BY DEF Next, Only, OrderPagesInv
  <2> QED
    BY <2>1, OwnUrlHolds
<1>6. part = "desk" => DeskInv'
  <2>1. part = "desk" => DeskInv /\ Desk!Next
    BY DEF Next, Only, OrderPagesInv
  <2> QED
    BY <2>1, DeskInvHolds
<1>7. part = "desk shared" => SharedInv'
  <2>1. part = "desk shared" => SharedInv /\ DeskShared!Next
    BY DEF Next, Only, OrderPagesInv
  <2> QED
    BY <2>1, SharedInvHolds
<1>8. part = "panel" => PanelInv'
  <2>1. part = "panel" => PanelInv /\ Panel!Next
    BY DEF Next, Only, OrderPagesInv
  <2> QED
    BY <2>1, PanelInvHolds
<1>9. part = "panel alone" => AloneInv'
  <2>1. part = "panel alone" => AloneInv /\ PanelAlone!Next
    BY DEF Next, Only, OrderPagesInv
  <2> QED
    BY <2>1, AloneInvHolds
<1> QED
  BY <1>0, <1>1, <1>2, <1>3, <1>4, <1>5, <1>6, <1>7, <1>8, <1>9 DEF OrderPagesInv

(* A step that changes nothing keeps it.                                   *)
LEMMA OrderPagesInvStutters ==
  ASSUME OrderPagesInv, UNCHANGED vars
  PROVE  OrderPagesInv'
<1>0. part' = part
  BY DEF vars
<1>1. ImportInv => ImportInv'
  BY ImportInvHolds DEF vars, Importing!vars
<1>2. DesignInv => DesignInv'
  BY DesignInvHolds DEF vars, Designing!vars, Designing!formVars, Designing!serverVars
<1>3. ViewerInv => ViewerInv'
  BY ViewerInvHolds DEF vars, Viewing!vars, Viewing!rowVars, Viewing!fetchVars
<1>4. StaffUrlInv => StaffUrlInv'
  BY StaffUrlHolds DEF vars, StaffFilters!vars
<1>5. OwnUrlInv => OwnUrlInv'
  BY OwnUrlHolds DEF vars, OwnFilters!vars
<1>6. DeskInv => DeskInv'
  BY DeskInvHolds DEF vars, Desk!vars
<1>7. SharedInv => SharedInv'
  BY SharedInvHolds DEF vars, DeskShared!vars
<1>8. PanelInv => PanelInv'
  BY PanelInvHolds DEF vars, Panel!vars
<1>9. AloneInv => AloneInv'
  BY AloneInvHolds DEF vars, PanelAlone!vars
<1> QED
  BY <1>0, <1>1, <1>2, <1>3, <1>4, <1>5, <1>6, <1>7, <1>8, <1>9 DEF OrderPagesInv

(* The invariant of the page that is open holds at every moment.           *)
THEOREM OrderPagesInvAlways == Spec => []OrderPagesInv
<1>1. OrderPagesInv /\ [Next]_vars => OrderPagesInv'
  BY OrderPagesInvStays, OrderPagesInvStutters
<1> QED
  BY <1>1, OrderPagesInvStarts, PTL DEF Spec

(***************************************************************************)
(* Type correctness of the pages: of the dialog that imports labels        *)
(* (ImportLabelsModal.tsx), the design request (CreateDesignModal.tsx and   *)
(* its server), the viewer of an order, the list of the staff and their    *)
(* panel, in which a question is about the order that is shown.            *)
(***************************************************************************)
THEOREM OrderPagesTypes == Spec => []OrderPagesTypeOK
<1>1. OrderPagesInv => OrderPagesTypeOK
  <2>1. ImportInv => Importing!ModalTypeOK
    BY ImportInvGives
  <2>2. DesignInv => Designing!DesignRequestTypeOK
    BY DesignInvGives
  <2>3. ViewerInv => Viewing!OrderViewerTypeOK
    BY ViewerInvGives
  <2>4. DeskInv => Desk!DeskTypeOK
    BY DeskInvGives
  <2>5. PanelInv => Panel!PanelTypeOK
    BY PanelInvGives
  <2> QED
    BY <2>1, <2>2, <2>3, <2>4, <2>5 DEF OrderPagesInv, OrderPagesTypeOK
<1> QED
  BY <1>1, OrderPagesInvAlways, PTL

(***************************************************************************)
(* What is shown is of what was chosen, in whatever order answers arrive:  *)
(* the rows of the dialog are of the preview that Confirm would import     *)
(* (ImportLabelsModal.tsx), details and pictures are of the order that was *)
(* clicked, and a list is asked for orders of its view only, with no       *)
(* filter left after the staff's reset.                                    *)
(***************************************************************************)
THEOREM WhatIsShownWasChosen == Spec => []ShownIsChosen
<1>1. OrderPagesInv => ShownIsChosen
  <2>1. ImportInv => Importing!PreviewIsShown
    BY ImportInvGives
  <2>2. ViewerInv => Viewing!ShownIsSelected /\ Viewing!PictureIsOfOrder
    BY ViewerInvGives
  <2>3. StaffUrlInv => StaffFilters!QueryFitsView /\ StaffFilters!ResetClearsAll
    BY StaffUrlGives DEF StaffUrlInv
  <2>4. OwnUrlInv => OwnFilters!QueryFitsView
    BY OwnUrlGives
  <2> QED
    BY <2>1, <2>2, <2>3, <2>4 DEF OrderPagesInv, ShownIsChosen
<1> QED
  BY <1>1, OrderPagesInvAlways, PTL

(***************************************************************************)
(* A press has its effect once and whole: a preview is confirmed again     *)
(* only when no answer came, and only if its sheet was good; a press of    *)
(* Submit makes one design order at most, with the files it was pressed    *)
(* with; what is uploaded to the carrier was started, however the starts   *)
(* overlap.                                                                *)
(***************************************************************************)
THEOREM PressesCountOnce == Spec => []PressedOnce
<1>1. OrderPagesInv => PressedOnce
  <2>1. ImportInv => Importing!SentAgainOnlyUnanswered /\ Importing!OnlyGoodSheetsSent
    BY ImportInvGives
  <2>2. DesignInv => /\ Designing!OrderOfSubmit /\ Designing!OrderHasItsFiles
    BY DesignInvGives
  <2>3. SharedInv => DeskShared!SentIsStarted
    BY SharedInvGives
  <2> QED
    BY <2>1, <2>2, <2>3 DEF OrderPagesInv, PressedOnce
<1> QED
  BY <1>1, OrderPagesInvAlways, PTL

(***************************************************************************)
(* A page that waits for nothing shows what the server has: the list of    *)
(* the staff if nobody else works, the list behind the panel whatever      *)
(* edits overlapped (patchOrderCaches and the refetch of admin/Orders.tsx),*)
(* and the panel if they did not.                                          *)
(***************************************************************************)
THEOREM QuietPagesAreRight == Spec => []QuietIsServer
<1>1. OrderPagesInv => QuietIsServer
  <2>1. DeskInv => Desk!QuietListIsServer
    BY DeskInvGives
  <2>2. PanelInv => Panel!ListCatchesUp
    BY PanelInvGives
  <2>3. AloneInv => PanelAlone!PanelCatchesUp
    BY AloneInvGives
  <2> QED
    BY <2>1, <2>2, <2>3 DEF OrderPagesInv, QuietIsServer
<1> QED
  BY <1>1, OrderPagesInvAlways, PTL

(***************************************************************************)
(* No step of a page goes backwards: what is cached of an order only gets  *)
(* newer, a list under other filters begins at its first page, and Mark    *)
(* Completed and Mark Failed, taken one at a time, close an order only     *)
(* with the text they ask for (admin/Orders.tsx:348-364), whatever was     *)
(* chosen with the selects before.                                         *)
(***************************************************************************)
THEOREM PagesStepForward == Spec => StepsForward
<1> DEFINE Forward ==
      /\ part = "viewer" => Viewing!CacheOnlyNewer
      /\ part = "staff filters" => StaffFilters!OtherFiltersFirstPage
      /\ part = "own filters" => OwnFilters!OtherFiltersFirstPage
      /\ part = "panel alone" => PanelAlone!ClosedWithText
<1>1. ASSUME OrderPagesInv, Next
      PROVE  Forward
  <2>1. part = "viewer" => Viewing!CacheOnlyNewer
    <3>1. part = "viewer" => ViewerInv /\ Viewing!Next
      BY <1>1 DEF Next, Only, OrderPagesInv
    <3> QED
      BY <3>1, ViewerCacheNewer
  <2>2. part = "staff filters" => StaffFilters!OtherFiltersFirstPage
    <3>1. part = "staff filters" => StaffUrlInv /\ StaffFilters!Next
      BY <1>1 DEF Next, Only, OrderPagesInv
    <3> QED
      BY <3>1, StaffFirstPage
  <2>3. part = "own filters" => OwnFilters!OtherFiltersFirstPage
    <3>1. part = "own filters" => OwnUrlInv /\ OwnFilters!Next
      BY <1>1 DEF Next, Only, OrderPagesInv
    <3> QED
      BY <3>1, OwnFirstPage
  <2>4. part = "panel alone" => PanelAlone!ClosedWithText
    <3>1. part = "panel alone" => AloneInv /\ PanelAlone!Next
      BY <1>1 DEF Next, Only, OrderPagesInv
    <3> QED
      BY <3>1, AloneInvHolds
  <2> QED
    BY <2>1, <2>2, <2>3, <2>4
<1>2. OrderPagesInv /\ [Next]_vars => [Forward]_vars
  BY <1>1
<1> QED
  BY <1>2, OrderPagesInvAlways, PTL DEF Spec, StepsForward
=============================================================================
