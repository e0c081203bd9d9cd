------------------------------ MODULE ImportModal ------------------------------
(***************************************************************************)
(* The dialog in which a customer imports a sheet: ImportLabelsModal, as   *)
(* the orders pages for active tracking and for empty packages show it.    *)
(* A sheet is uploaded and comes back as a preview; the preview is shown,  *)
(* confirmed and imported.  The dialog is never unmounted: closing it      *)
(* hides it, and both pages are one component to the router, so what is in *)
(* the dialog follows the customer from one to the other.                  *)
(*                                                                         *)
(* An import is one step of the server here; LabelImport takes it apart.   *)
(***************************************************************************)
EXTENDS Naturals, Sequences

CONSTANTS Sheets,       \* files
          TooLong,      \* those of more than 3000 rows
          Broken,       \* those with a row that is not valid
          MaxUploads, MaxConfirms

ModalAssumption ==
  /\ TooLong \cup Broken \subseteq Sheets
  /\ MaxUploads \in Nat /\ MaxConfirms \in Nat

VARIABLES service,    \* of the page the customer is on
          open,       \* isImportOpen
          uploads,    \* the sheets sent: /labels/import/excel
          rows,       \* the preview whose rows are shown, 0 for none
          previewId,  \* 0 for none
          asking,     \* confirmOpen
          confirms,   \* /labels/import/excel/confirm
          result,     \* resultOpen
          imported    \* imported[p]: how often preview p was imported

vars == <<service, open, uploads, rows, previewId, asking, confirms, result, imported>>

Services == {"active", "empty"}
NoPreview == 0

\* A preview is known by the upload it answers.
Upload == [sheet : Sheets, service : Services, pc : {"sent", "answered"}]
\* "told": the import was told to be complete; "lost": it failed, or so it
\* seems.
Confirm == [preview : 1..MaxUploads, pc : {"sent", "imported", "refused", "told", "lost"}]

SheetOf(p) == uploads[p].sheet

\* canSubmit, for which no row may be invalid
CanSubmit == rows # NoPreview /\ SheetOf(rows) \notin Broken

\* localSubmitting
Submitting == \E i \in DOMAIN confirms : confirms[i].pc \in {"sent", "imported", "refused"}

Init ==
  /\ service \in Services /\ open = FALSE
  /\ uploads = <<>> /\ rows = NoPreview /\ previewId = NoPreview
  /\ asking = FALSE /\ confirms = <<>> /\ result = FALSE
  /\ imported = [p \in 1..MaxUploads |-> 0]

-----------------------------------------------------------------------------
\* What covers the dialog: the result, or the question.
Clickable == open /\ ~result /\ ~asking

\* The links of the navigation bar, which an open dialog covers.
Navigate ==
  /\ ~open
  /\ service' \in Services \ {service}
  /\ UNCHANGED <<open, uploads, rows, previewId, asking, confirms, result, imported>>

Open ==
  /\ ~open
  /\ open' = TRUE
  /\ UNCHANGED <<service, uploads, rows, previewId, asking, confirms, result, imported>>

\* Close and Cancel, which are never disabled: the page does not say that it
\* is submitting.
Close ==
  /\ Clickable
  /\ open' = FALSE
  /\ UNCHANGED <<service, uploads, rows, previewId, asking, confirms, result, imported>>

\* clearAll
ClearAll ==
  /\ Clickable /\ rows # NoPreview
  /\ rows' = NoPreview /\ previewId' = NoPreview
  /\ UNCHANGED <<service, open, uploads, asking, confirms, result, imported>>

\* Upload sheet: as many as one likes at once.
SendSheet(sheet) ==
  /\ Clickable /\ Len(uploads) < MaxUploads
  /\ uploads' = Append(uploads, [sheet |-> sheet, service |-> service, pc |-> "sent"])
  /\ UNCHANGED <<service, open, rows, previewId, asking, confirms, result, imported>>

\* Faulty: a sheet that is too long leaves the preview before it.
SheetAnsweredKeep(p) ==
  /\ uploads[p].pc = "sent"
  /\ uploads' = [uploads EXCEPT ![p].pc = "answered"]
  /\ IF SheetOf(p) \in TooLong
     THEN rows' = NoPreview /\ previewId' = previewId
     ELSE rows' = p /\ previewId' = IF previewId = NoPreview THEN p ELSE previewId
  /\ UNCHANGED <<service, open, asking, confirms, result, imported>>

\* handleSheet: the preview, unless it is too long.  The answer is taken
\* whatever the dialog shows by now.
SheetAnswered(p) ==
  /\ uploads[p].pc = "sent"
  /\ uploads' = [uploads EXCEPT ![p].pc = "answered"]
  /\ LET shown == IF SheetOf(p) \in TooLong THEN NoPreview ELSE p
     IN  rows' = shown /\ previewId' = shown
  /\ UNCHANGED <<service, open, asking, confirms, result, imported>>

\* handleSheet: the upload failed, and nothing but the message changes.
SheetFails(p) ==
  /\ uploads[p].pc = "sent"
  /\ uploads' = [uploads EXCEPT ![p].pc = "answered"]
  /\ UNCHANGED <<service, open, rows, previewId, asking, confirms, result, imported>>

\* Start Import
Ask ==
  /\ Clickable /\ CanSubmit /\ ~Submitting
  /\ asking' = TRUE
  /\ UNCHANGED <<service, open, uploads, rows, previewId, confirms, result, imported>>

Cancel ==
  /\ open /\ asking /\ ~result
  /\ asking' = FALSE
  /\ UNCHANGED <<service, open, uploads, rows, previewId, confirms, result, imported>>

\* Confirm and Import, handleSubmit: with the preview there is by now; a
\* sheet that is still being uploaded may have changed it under the question.
Submit ==
  /\ open /\ asking /\ ~result
  /\ asking' = FALSE
  /\ Len(confirms) < MaxConfirms
  /\ confirms' = IF CanSubmit /\ previewId # NoPreview
                 THEN Append(confirms, [preview |-> previewId, pc |-> "sent"])
                 ELSE confirms
  /\ UNCHANGED <<service, open, uploads, rows, previewId, result, imported>>

-----------------------------------------------------------------------------
\* confirmPreview: the preview is deleted at the end of the import.
ImportPreview(i) ==
  /\ confirms[i].pc = "sent"
  /\ LET p == confirms[i].preview IN
     IF imported[p] = 0
     THEN /\ imported' = [imported EXCEPT ![p] = 1]
          /\ confirms' = [confirms EXCEPT ![i].pc = "imported"]
     ELSE /\ confirms' = [confirms EXCEPT ![i].pc = "refused"]
          /\ UNCHANGED imported
  /\ UNCHANGED <<service, open, uploads, rows, previewId, asking, result>>

\* handleSubmit: the page closes the dialog in onSubmit, and only then does
\* the result come up in it.
ImportAnswered(i) ==
  /\ confirms[i].pc = "imported"
  /\ confirms' = [confirms EXCEPT ![i].pc = "told"]
  /\ open' = FALSE /\ result' = TRUE
  /\ UNCHANGED <<service, uploads, rows, previewId, asking, imported>>

\* An error, or no answer at all: the rows stay, to be tried again.
ImportFails(i) ==
  /\ confirms[i].pc \in {"sent", "imported", "refused"}
  /\ confirms' = [confirms EXCEPT ![i].pc = "lost"]
  /\ UNCHANGED <<service, open, uploads, rows, previewId, asking, result, imported>>

\* A request that got no answer may still be served.
ImportAfterAll(i) ==
  /\ confirms[i].pc = "lost" /\ imported[confirms[i].preview] = 0
  /\ imported' = [imported EXCEPT ![confirms[i].preview] = 1]
  /\ UNCHANGED <<service, open, uploads, rows, previewId, asking, confirms, result>>

\* OK of the result: clearAll and onClose.
CloseResult ==
  /\ open /\ result
  /\ result' = FALSE /\ open' = FALSE
  /\ rows' = NoPreview /\ previewId' = NoPreview
  /\ UNCHANGED <<service, uploads, asking, confirms, imported>>

Next ==
  \/ Navigate \/ Open \/ Close \/ ClearAll \/ Ask \/ Cancel \/ Submit \/ CloseResult
  \/ \E sheet \in Sheets : SendSheet(sheet)
  \/ \E p \in DOMAIN uploads : SheetAnswered(p) \/ SheetFails(p)
  \/ \E i \in DOMAIN confirms :
       ImportPreview(i) \/ ImportAnswered(i) \/ ImportFails(i) \/ ImportAfterAll(i)

Spec == Init /\ [][Next]_vars

-----------------------------------------------------------------------------
ModalTypeOK ==
  /\ service \in Services
  /\ {open, asking, result} \subseteq BOOLEAN
  /\ uploads \in Seq(Upload) /\ Len(uploads) <= MaxUploads
  /\ confirms \in Seq(Confirm) /\ Len(confirms) <= MaxConfirms
  /\ {rows, previewId} \subseteq {NoPreview} \cup DOMAIN uploads

\* What is imported is what is shown: in whatever order the answers to
\* several sheets came, failed or were too long, the preview that a
\* confirmation would send is the one whose rows are in the dialog.
PreviewIsShown == previewId = rows

\* A preview is sent for import a second time only after the first time was
\* told to have failed; never because of how the dialog was
\* closed, opened, cleared or left meanwhile.
SentAgainOnlyUnanswered ==
  \A i, j \in DOMAIN confirms :
    i < j /\ confirms[i].preview = confirms[j].preview => confirms[i].pc = "lost"

\* No sheet that is too long or has an invalid row is sent for import.
OnlyGoodSheetsSent ==
  \A i \in DOMAIN confirms : SheetOf(confirms[i].preview) \notin TooLong \cup Broken

\* "show explicit result modal instead of silently closing": the result is
\* in view when it comes up.
ResultIsSeen == result => open

\* "Importing as" names what the rows in the dialog are imported as.
ImportingAsSaid ==
  open /\ rows # NoPreview => uploads[rows].service = service

=============================================================================
