---------------------------- MODULE BarcodeUpload ----------------------------
(***************************************************************************)
(* BarcodesService: a PDF of barcodes is sent to a Telegram chat with a    *)
(* prompt, and the button that is pressed uploads it to the carrier or     *)
(* drops it.  What waits for a button is a Map of the process, looked at   *)
(* before an await and changed after it.                                   *)
(*                                                                         *)
(* A press is an HTTP call of Telegram's, which is repeated when it fails  *)
(* and comes twice when a button is tapped twice.  BarcodeCodes has what   *)
(* goes into a PDF.                                                        *)
(***************************************************************************)
EXTENDS Naturals, FiniteSets

CONSTANTS Pdfs,       \* generated PDFs, each with a pending id
          Presses,    \* calls of the webhook
          MaxOverlap, \* calls at once
          MaxCrashes,
          Faults      \* "document", "prompt", "upload", "text": requests that may
                      \* fail; "reply": an upload that arrived and seems to fail

UploadAssumption ==
  /\ MaxOverlap \in Nat /\ MaxCrashes \in Nat
  /\ Faults \subseteq {"document", "prompt", "upload", "text", "reply"}

VARIABLES pending,    \* pendingUploads: the keys of the Map
          old,        \* those whose createdAt is more than ten minutes ago
          send,       \* send[p]: how far sendBarcodesToTelegram got
          prompted,   \* prompts the chat shows
          press,      \* press[w]: a call of handleUploadDecisionFromCallback
          arrived,    \* arrived[p]: times the carrier got the PDF
          crashes

vars == <<pending, old, send, prompted, press, arrived, crashes>>

\* Told: what the chat was told last in this call.
Answers == {"none", "uploaded", "failed", "cancelled", "expired"}
Press == [pc : {"idle", "upload", "uploaded", "cancel", "fail", "done"}, pdf : Pdfs, yes : BOOLEAN, told : Answers]

\* Types, and: what waits was sent to the chat, and prompts only follow it.
BarcodeTypeOK ==
  /\ old \subseteq pending
  /\ \A p \in pending : send[p] \in {"prompt", "sent", "failed"}
  /\ \A p \in prompted : send[p] = "sent"
  /\ send \in [Pdfs -> {"idle", "document", "register", "prompt", "sent", "failed"}]
  /\ press \in [Presses -> Press]
  /\ arrived \in [Pdfs -> Nat]
  /\ crashes \in 0..MaxCrashes

Init ==
  /\ pending = {} /\ old = {} /\ prompted = {} /\ crashes = 0
  /\ send = [p \in Pdfs |-> "idle"]
  /\ \E p \in Pdfs : press = [w \in Presses |-> [pc |-> "idle", pdf |-> p, yes |-> FALSE, told |-> "none"]]
  /\ arrived = [p \in Pdfs |-> 0]

-----------------------------------------------------------------------------
\* sendBarcodesToTelegram.  The PDF is on disk; sendDocument comes next.
Generate(p) ==
  /\ send[p] = "idle"
  /\ send' = [send EXCEPT ![p] = "document"]
  /\ UNCHANGED <<pending, old, prompted, press, arrived, crashes>>

SendDocument(p) ==
  /\ send[p] = "document"
  /\ \/ send' = [send EXCEPT ![p] = "register"]
     \/ "document" \in Faults /\ send' = [send EXCEPT ![p] = "failed"]
  /\ UNCHANGED <<pending, old, prompted, press, arrived, crashes>>

\* prunePendingUploads and pendingUploads.set, with no await between them.
Register(p) ==
  /\ send[p] = "register"
  /\ pending' = (pending \ old) \cup {p}
  /\ old' = {}
  /\ send' = [send EXCEPT ![p] = "prompt"]
  /\ UNCHANGED <<prompted, press, arrived, crashes>>

\* sendUploadPromptToTelegram.
SendPrompt(p) ==
  /\ send[p] = "prompt"
  /\ \/ /\ send' = [send EXCEPT ![p] = "sent"]
        /\ prompted' = prompted \cup {p}
     \/ /\ "prompt" \in Faults
        /\ send' = [send EXCEPT ![p] = "failed"]
        /\ UNCHANGED prompted
  /\ UNCHANGED <<pending, old, press, arrived, crashes>>

-----------------------------------------------------------------------------
Running == {w \in Presses : press[w].pc \notin {"idle", "done"}}

Go(w, pc) == press' = [press EXCEPT ![w].pc = pc]
Say(w, pc, told) == press' = [press EXCEPT ![w].pc = pc, ![w].told = told]

\* Faulty: a "no" leaves the entry.
PressButtonKeep(w, p, yes) ==
  /\ press[w].pc = "idle"
  /\ p \in prompted
  /\ Cardinality(Running) < MaxOverlap
  /\ LET pc == IF p \notin pending THEN "done" ELSE IF yes THEN "upload" ELSE "cancel"
     IN  press' = [press EXCEPT ![w] = [pc |-> pc, pdf |-> p, yes |-> yes,
                                        told |-> IF pc = "done" THEN "expired" ELSE "none"]]
  /\ UNCHANGED <<pending, old, send, prompted, arrived, crashes>>

\* A button of a prompt is pressed: the entry is looked up, and a "no" deletes it.
PressButton(w, p, yes) ==
  /\ press[w].pc = "idle"
  /\ p \in prompted
  /\ Cardinality(Running) < MaxOverlap
  /\ LET pc == IF p \notin pending THEN "done" ELSE IF yes THEN "upload" ELSE "cancel"
     IN  press' = [press EXCEPT ![w] = [pc |-> pc, pdf |-> p, yes |-> yes,
                                        told |-> IF pc = "done" THEN "expired" ELSE "none"]]
  /\ pending' = IF yes THEN pending ELSE pending \ {p}
  /\ old' = IF yes THEN old ELSE old \ {p}
  /\ UNCHANGED <<send, prompted, arrived, crashes>>

\* The message after a "no"; a failure ends the call.
TellCancelled(w) ==
  /\ press[w].pc = "cancel"
  /\ \/ Say(w, "done", "cancelled")
     \/ "text" \in Faults /\ Go(w, "done")
  /\ UNCHANGED <<pending, old, send, prompted, arrived, crashes>>

\* uploadPdfToByeastside: the await between the look-up and the deletion.
UploadPdf(w) ==
  LET p == press[w].pdf IN
  /\ press[w].pc = "upload"
  /\ \/ arrived' = [arrived EXCEPT ![p] = @ + 1] /\ Go(w, "uploaded")
     \/ "upload" \in Faults /\ Go(w, "fail") /\ UNCHANGED arrived
     \/ "reply" \in Faults /\ arrived' = [arrived EXCEPT ![p] = @ + 1] /\ Go(w, "fail")
  /\ UNCHANGED <<pending, old, send, prompted, crashes>>

\* The entry is deleted, then the chat is told; when that fails, the catch
\* that reports failed uploads takes over.
TellUploaded(w) ==
  /\ press[w].pc = "uploaded"
  /\ pending' = pending \ {press[w].pdf}
  /\ old' = old \ {press[w].pdf}
  /\ \/ Say(w, "done", "uploaded")
     \/ "text" \in Faults /\ Go(w, "fail")
  /\ UNCHANGED <<send, prompted, arrived, crashes>>

\* The catch: the chat is told of the failure and the entry stays.
TellFailed(w) ==
  /\ press[w].pc = "fail"
  /\ \/ Say(w, "done", "failed")
     \/ "text" \in Faults /\ Go(w, "done")
  /\ UNCHANGED <<pending, old, send, prompted, arrived, crashes>>

\* Time goes by: an entry is more than ten minutes old.
GrowOld(p) ==
  /\ p \in pending \ old
  /\ old' = old \cup {p}
  /\ UNCHANGED <<pending, send, prompted, press, arrived, crashes>>

\* The process ends: the Map is lost, and so are the calls.
Crash ==
  /\ crashes < MaxCrashes
  /\ crashes' = crashes + 1
  /\ pending' = {} /\ old' = {}
  /\ send' = [p \in Pdfs |-> IF send[p] \in {"document", "register", "prompt"} THEN "failed" ELSE send[p]]
  /\ press' = [w \in Presses |-> IF w \in Running THEN [press[w] EXCEPT !.pc = "done"] ELSE press[w]]
  /\ UNCHANGED <<prompted, arrived>>

Sending == \E p \in Pdfs : Generate(p) \/ SendDocument(p) \/ Register(p) \/ SendPrompt(p)
Handling == \E w \in Presses : TellCancelled(w) \/ UploadPdf(w) \/ TellUploaded(w) \/ TellFailed(w)
Pressing == \E w \in Presses, p \in Pdfs, yes \in BOOLEAN : PressButton(w, p, yes)

Next == Sending \/ Pressing \/ Handling \/ Crash \/ \E p \in Pdfs : GrowOld(p)

Spec == Init /\ [][Next]_vars

-----------------------------------------------------------------------------
Says(w, p, told) == press[w].pdf = p /\ press[w].told = told

\* What the chat is told of an upload is so: the carrier has the PDF.
ToldUploadedIsUploaded ==
  \A w \in Presses, p \in Pdfs : Says(w, p, "uploaded") => arrived[p] > 0

\* An answer that leaves something to be done leaves the means to do it: a
\* prompt whose PDF the carrier does not have can still be pressed, unless
\* somebody pressed "no", it was ten minutes old when another was sent, or
\* the process ended.
PromptStaysUsable ==
  \A p \in prompted :
    p \in pending /\ p \notin pending' =>
      \/ arrived[p] > 0
      \/ \E w \in Presses : press'[w].pc = "cancel" /\ press'[w].pdf = p
      \/ p \in old
      \/ crashes' > crashes

\* With calls one at a time and replies that say what happened, a PDF is
\* uploaded once at most, however often its buttons are pressed.
UploadedOnce == \A p \in Pdfs : arrived[p] <= 1

\* Likewise, once somebody pressed "no" the carrier does not get the PDF.
CancelledStaysOut ==
  \A w \in Presses : press[w].told = "cancelled" =>
    arrived'[press[w].pdf] = arrived[press[w].pdf]

=============================================================================
