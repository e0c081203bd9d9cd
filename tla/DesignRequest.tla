---------------------------- MODULE DesignRequest ----------------------------
(***************************************************************************)
(* A customer asks for a design (CreateDesignModal.tsx): chooses its type, *)
(* attaches files, and submits, which uploads the files, then creates the  *)
(* order with the addresses of the upload.  The server debits the order as *)
(* it creates it if the balance allows (designs.service.ts).  The studio   *)
(* starts it by its status, paid or not: startProcessing finds no service  *)
(* for a design and refuses every one (orders.service.ts:436).  The        *)
(* buttons wait for a flag that the library no longer has, so that a       *)
(* design can be submitted, and the dialog closed and opened again, while  *)
(* an earlier submission is under way.                                     *)
(*                                                                         *)
(* Credits are counted in quarters.                                        *)
(***************************************************************************)
EXTENDS Integers, Sequences, FiniteSets, FiniteSetsExt

CONSTANTS Subtypes,     \* types of designs on offer, among those of Unit
          Files,        \* files the customer has
          Submits,      \* presses of Submit
          MaxBalance,   \* bound on the credits a customer begins with
          MaxEdits,     \* bound on what is done with the form
          AnswersLost,  \* an answer is lost, or is an error
          None          \* null

\* What the dialog asks for each file, and what the server debits for a design.
Unit == [design_2d |-> 4, design_3d |-> 8, embroidery_text |-> 5,
         embroidery_image |-> 7, sidebow |-> 6, poster |-> 6]
Price == [design_2d |-> 4, design_3d |-> 8, embroidery_text |-> 5,
          embroidery_image |-> 7, sidebow |-> 6, poster_canvas |-> 6]

VARIABLES open, chosen, files,  \* the dialog
          known,                \* the balance it has fetched
          toast,                \* the last toast and the submission it is about
          submit,               \* the submissions
          stored,               \* files on the server's disk
          orders,               \* rows of orders
          balance,              \* the account
          edits

formVars == <<open, chosen, files, edits>>
serverVars == <<stored, orders, balance>>
vars == <<formVars, known, toast, submit, serverVars>>

Steps == {"uploading", "stored", "creating", "created", "done", "failed"}
Submission == [at : Steps, subtype : Subtypes, files : SUBSET Files, estimate : Nat]
Toast == [about : Submits, ok : BOOLEAN]
Order == [by : Submits, subtype : Subtypes, files : SUBSET Files,
          debited : BOOLEAN, started : BOOLEAN]

DesignRequestAssumption ==
  /\ "design_2d" \in Subtypes /\ Subtypes \subseteq DOMAIN Unit
  /\ IsFiniteSet(Files) /\ MaxBalance \in Nat /\ MaxEdits \in Nat
  /\ None \notin Submission \cup Toast

DesignRequestTypeOK ==
  /\ open \in BOOLEAN /\ chosen \in Subtypes /\ files \in SUBSET Files
  /\ ~open => files = {}
  /\ known \in 0 .. MaxBalance
  /\ toast \in Toast \cup {None}
  /\ submit \in [Submits -> Submission \cup {None}]
  /\ stored \in SUBSET (Submits \X Files)
  /\ orders \in Seq(Order)
  /\ balance \in 0 .. MaxBalance

Init ==
  /\ open = FALSE /\ chosen = "design_2d" /\ files = {} /\ edits = 0
  /\ known = 0 /\ toast = None
  /\ submit = [s \in Submits |-> None]
  /\ stored = {} /\ orders = << >>
  /\ balance \in 0 .. MaxBalance

-----------------------------------------------------------------------------
(* The dialog                                                              *)

\* Faulty: only the choice is reset.
ClearChoice == chosen' = "design_2d" /\ UNCHANGED files

\* The effect on open resets the form.
ClearForm == chosen' = "design_2d" /\ files' = {}

OpenDialog ==
  /\ ~open /\ edits < MaxEdits
  /\ open' = TRUE /\ edits' = edits + 1
  /\ UNCHANGED <<chosen, files, known, toast, submit, serverVars>>

CloseDialog ==
  /\ open /\ open' = FALSE /\ ClearForm
  /\ UNCHANGED <<known, toast, submit, serverVars, edits>>

Edit(c, f) ==
  /\ open /\ edits < MaxEdits
  /\ chosen' = c /\ files' = f /\ edits' = edits + 1
  /\ UNCHANGED <<open, known, toast, submit, serverVars>>

Choose(c) == c # chosen /\ Edit(c, files)
AddFiles(F) == F # {} /\ F \cap files = {} /\ Edit(chosen, files \cup F)
RemoveFile(f) == f \in files /\ Edit(chosen, files \ {f})

FetchAccount ==
  /\ known' = balance
  /\ UNCHANGED <<formVars, toast, submit, serverVars>>

Estimate == Unit[chosen] * Max({1, Cardinality(files)})

UnderWay(s) == submit[s] # None /\ submit[s].at \notin {"done", "failed"}

\* isLoading is undefined, so that nothing here asks whether one is under way.
Enabled == files # {} /\ known >= Estimate

Submit(s) ==
  /\ open /\ Enabled /\ submit[s] = None
  /\ submit' = [submit EXCEPT ![s] = [at |-> "uploading", subtype |-> chosen, files |-> files, estimate |-> Estimate]]
  /\ UNCHANGED <<formVars, known, toast, serverVars>>

-----------------------------------------------------------------------------
(* A submission                                                            *)

Move(s, from, to) ==
  /\ submit[s] # None /\ submit[s].at = from
  /\ submit' = [submit EXCEPT ![s].at = to]

\* saveDesign: every upload has file names of its own.
SaveDesign(s) == {s} \X submit[s].files

StoreFiles(s) ==
  /\ Move(s, "uploading", "stored")
  /\ stored' = stored \cup SaveDesign(s)
  /\ UNCHANGED <<formVars, known, toast, orders, balance>>

\* Faulty: the order names the files that the form has by now.
AssetsOfForm(s) == files

\* The addresses that the upload has returned.
Assets(s) == submit[s].files

\* The order is created with the files of the upload.
UploadAnswered(s) ==
  /\ Move(s, "stored", "creating")
  /\ UNCHANGED <<formVars, known, toast, serverVars>>

\* serviceKey of createDesignOrder: the aliases the page uses.
ServiceKey(subtype) == IF subtype = "poster" THEN "poster_canvas" ELSE subtype

\* The order, and its debit if the balance covers it, in one transaction.
CreateOrder(s) ==
  LET cost == Price[ServiceKey(submit[s].subtype)]
      debited == balance >= cost
  IN /\ Move(s, "creating", "created")
     /\ orders' = Append(orders, [by |-> s, subtype |-> submit[s].subtype, files |-> Assets(s),
                                  debited |-> debited, started |-> FALSE])
     /\ balance' = IF debited THEN balance - cost ELSE balance
     /\ UNCHANGED <<formVars, known, toast, stored>>

Answered(s) == Move(s, "created", "done")

\* The toast, the list of orders, and onClose, whichever dialog is open by now.
CreateAnswered(s) ==
  /\ Answered(s)
  /\ toast' = [about |-> s, ok |-> TRUE]
  /\ open' = FALSE /\ ClearForm
  /\ UNCHANGED <<known, serverVars, edits>>

SubmitFails(s) ==
  /\ AnswersLost /\ UnderWay(s)
  /\ submit' = [submit EXCEPT ![s].at = "failed"]
  /\ toast' = [about |-> s, ok |-> FALSE]
  /\ UNCHANGED <<formVars, known, serverVars>>

\* updateOrderStatus: the studio takes up an order, whether it is paid or not.
StudioStarts(i) ==
  /\ ~orders[i].started
  /\ orders' = [orders EXCEPT ![i].started = TRUE]
  /\ UNCHANGED <<formVars, known, toast, submit, stored, balance>>

Next ==
  \/ OpenDialog \/ CloseDialog \/ FetchAccount
  \/ \E c \in Subtypes : Choose(c)
  \/ \E F \in SUBSET Files : AddFiles(F)
  \/ \E f \in Files : RemoveFile(f)
  \/ \E s \in Submits : \/ Submit(s) \/ StoreFiles(s) \/ UploadAnswered(s) \/ CreateOrder(s)
                        \/ CreateAnswered(s) \/ SubmitFails(s)
  \/ \E i \in DOMAIN orders : StudioStarts(i)

Spec == Init /\ [][Next]_vars

-----------------------------------------------------------------------------
(* Properties                                                              *)

\* An order has the files that were attached when it was submitted, whatever
\* was done with the form since, and they are on the disk (CreateDesignModal.tsx:102-105).
OrderHasItsFiles ==
  \A i \in DOMAIN orders :
    LET o == orders[i]
    IN o.files = submit[o.by].files /\ ({o.by} \X o.files) \subseteq stored

\* A submission makes one order at most, and "Submitted" is said when it has.
OrderOfSubmit ==
  /\ \A i, j \in DOMAIN orders : orders[i].by = orders[j].by => i = j
  /\ (toast # None /\ toast.ok) => \E i \in DOMAIN orders : orders[i].by = toast.about

\* "Submitting..." (CreateDesignModal.tsx:199): one submission at a time.
OneUnderWay == \A s, t \in Submits : UnderWay(s) /\ UnderWay(t) => s = t

\* "Credits are deducted when the studio accepts the order."
\* (CreateDesignModal.tsx:222): an order is debited if, and only if, it is started.
DeductedWhenStarted == \A i \in DOMAIN orders : orders[i].debited <=> orders[i].started

\* "Total estimated" (CreateDesignModal.tsx:213) is what is debited.
EstimateIsPrice ==
  \A i \in DOMAIN orders :
    orders[i].debited => submit[orders[i].by].estimate = Price[ServiceKey(orders[i].subtype)]

\* "Create failed" (CreateDesignModal.tsx:114) is said when there is no order.
FailedHasNoOrder ==
  (toast # None /\ ~toast.ok) => \A i \in DOMAIN orders : orders[i].by # toast.about
=============================================================================
