---------------------------- MODULE MCFulfilment ----------------------------
(***************************************************************************)
(* The components that carry an order from its payment to its delivery,    *)
(* each on a small instance: the scan queue, the label import, the status  *)
(* of the carrier, the PDFs and messages of the Telegram bot, the row      *)
(* locks of the database, and the reviews of top-ups that wait for one.    *)
(*                                                                         *)
(* They share no variables, so a run checks them side by side: one part,   *)
(* chosen at the beginning, acts, and the others stay as they are. A part  *)
(* is a component with the values of its constants; some have two, one in  *)
(* which requests overlap and one in which they do not.                    *)
(***************************************************************************)
EXTENDS Integers, Sequences, FiniteSets, TLC

CONSTANTS Parts,     \* the parts a run lets act
          Two,       \* orders, or PDFs: a run has two
          Calls,     \* requests, or calls of the webhook
          Overlap,   \* requests of a part that are served at once
          MaxRows, MaxFaults, MaxPdfs, MaxSize, MaxBatch, MaxEvents,
          None,      \* null
          Customers, ClientIds, NoClientId,
          SheetRows, SheetOwner,     \* the files of the label import
          Confirmations,             \* requests that confirm one of them
          Parcels,                   \* orders the carrier knows
          SharedCode, OwnCode,       \* their codes: one of all, one of each
          Syncs,                     \* runs of the synchronisation
          Customer, Reviewers, Transfers   \* users and top-ups that are locked

Symmetry == Permutations(Two) \cup Permutations(Calls)

\* Two files of a customer that share a client request id.
SheetRow(id, ok) == [request |-> id, valid |-> ok]
TwoSheets ==
  [p1 |-> <<SheetRow("q1", TRUE), SheetRow("", TRUE)>>,
   p2 |-> <<SheetRow("", FALSE), SheetRow("q1", TRUE)>>]
TwoOwners == [p \in DOMAIN TwoSheets |-> "u1"]

OneForBoth == <<"x1", "x1">>
OneForEach == <<"x1", "x2">>

VARIABLE part    \* the part that acts in this behaviour

-----------------------------------------------------------------------------
\* ScanQueue: the requests that make scan jobs, the Redis list and the
\* worker.
VARIABLES scanOrders, scanQueue, scanHand, scanPopped, scanFailed, scanReq,
          scanTold, scanUp, scanFaults

Scan == INSTANCE ScanQueue WITH
  OrderIds <- Two, Requests <- Calls, NoRow <- None, NoJob <- None,
  orders <- scanOrders, queue <- scanQueue, hand <- scanHand,
  popped <- scanPopped, failed <- scanFailed, req <- scanReq,
  told <- scanTold, up <- scanUp, faults <- scanFaults
ASSUME ScanAssumption == Scan!ScanQueueAssumption

-----------------------------------------------------------------------------
\* LabelImport: files that are confirmed at once, with faults, or one after
\* the other without.
VARIABLES labelMade, labelStored, labelLabels, labelOrders, labelConf,
          labelFaults

Labels == INSTANCE LabelImport WITH
  Users <- Customers, RequestIds <- ClientIds, NoRequestId <- NoClientId,
  Previews <- DOMAIN SheetRows, Rows <- SheetRows, Owner <- SheetOwner,
  MaxOverlap <- Overlap,
  made <- labelMade, stored <- labelStored, labels <- labelLabels,
  orders <- labelOrders, conf <- labelConf, faults <- labelFaults
ASSUME LabelsAssumption == Labels!LabelImportAssumption

LabelsAlone == INSTANCE LabelImport WITH
  Users <- Customers, RequestIds <- ClientIds, NoRequestId <- NoClientId,
  Previews <- DOMAIN SheetRows, Rows <- SheetRows, Owner <- SheetOwner,
  Confirmations <- Calls, MaxOverlap <- 1, MaxFaults <- 0,
  made <- labelMade, stored <- labelStored, labels <- labelLabels,
  orders <- labelOrders, conf <- labelConf, faults <- labelFaults
ASSUME LabelsAloneAssumption == LabelsAlone!LabelImportAssumption

-----------------------------------------------------------------------------
\* LabelRows: every sheet of two rows.
VARIABLES rowSheet, rowDefault, rowKnown, rowPreview

Rows == INSTANCE LabelRows WITH
  Codes <- {"x1", "x2"}, MaxRows <- 2, MaxOrders <- 0, sheet <- rowSheet,
  default <- rowDefault, known <- rowKnown, preview <- rowPreview
ASSUME RowsAssumption == Rows!LabelRowsAssumption

-----------------------------------------------------------------------------
\* CarrierSync: orders with one code and overlapping runs, then with a code
\* each, one run after the other; and the loop over the pages of the list.
VARIABLES carrierOrders, carrierCarrier, carrierSync, carrierTorn
VARIABLES pagePdfs, pageAtStart, pagePageSize, pageLimit, pageFirst,
          pagePage, pageItems, pageListing

Carrier == INSTANCE CarrierSync WITH
  OrderIds <- Parcels, Codes <- {SharedCode[o] : o \in Parcels},
  Code <- SharedCode, MaxOverlap <- Overlap,
  Others <- {"pay", "fail", "during"}, orders <- carrierOrders,
  carrier <- carrierCarrier, sync <- carrierSync, torn <- carrierTorn,
  pdfs <- pagePdfs, atStart <- pageAtStart, pageSize <- pagePageSize,
  limit <- pageLimit, firstPage <- pageFirst, page <- pagePage,
  items <- pageItems, listing <- pageListing
ASSUME CarrierAssumption == Carrier!CarrierAssumption

CarrierAlone == INSTANCE CarrierSync WITH
  OrderIds <- Parcels, Codes <- {OwnCode[o] : o \in Parcels},
  Code <- OwnCode, MaxOverlap <- 1, MaxEvents <- MaxEvents + 1,
  Others <- {"pay", "start"}, orders <- carrierOrders,
  carrier <- carrierCarrier, sync <- carrierSync, torn <- carrierTorn,
  pdfs <- pagePdfs, atStart <- pageAtStart, pageSize <- pagePageSize,
  limit <- pageLimit, firstPage <- pageFirst, page <- pagePage,
  items <- pageItems, listing <- pageListing
ASSUME CarrierAloneAssumption == CarrierAlone!CarrierAssumption

-----------------------------------------------------------------------------
\* BarcodeCodes: every text of four characters that asks for barcodes.
VARIABLES codeText, codeCodes, codeValid, codeInvalid, codePc

Barcodes == INSTANCE BarcodeCodes WITH
  MaxText <- 4, MaxCodes <- 2, text <- codeText, codes <- codeCodes,
  valid <- codeValid, invalid <- codeInvalid, pc <- codePc
ASSUME BarcodesAssumption == Barcodes!CodesAssumption

-----------------------------------------------------------------------------
\* BarcodeUpload: two PDFs and calls of the webhook, overlapping with every
\* fault, or one after the other with the faults that are told.
VARIABLES uploadPending, uploadOld, uploadSend, uploadPrompted, uploadPress,
          uploadArrived, uploadCrashes

Upload == INSTANCE BarcodeUpload WITH
  Pdfs <- Two, Presses <- Calls, MaxOverlap <- Overlap,
  MaxCrashes <- MaxFaults,
  Faults <- {"document", "prompt", "upload", "text", "reply"},
  pending <- uploadPending, old <- uploadOld, send <- uploadSend,
  prompted <- uploadPrompted, press <- uploadPress, arrived <- uploadArrived,
  crashes <- uploadCrashes
ASSUME UploadAssumption == Upload!UploadAssumption

UploadAlone == INSTANCE BarcodeUpload WITH
  Pdfs <- Two, Presses <- Calls, MaxOverlap <- 1, MaxCrashes <- MaxFaults,
  Faults <- {"document", "prompt", "upload", "text"},
  pending <- uploadPending, old <- uploadOld, send <- uploadSend,
  prompted <- uploadPrompted, press <- uploadPress, arrived <- uploadArrived,
  crashes <- uploadCrashes
ASSUME UploadAloneAssumption == UploadAlone!UploadAssumption

-----------------------------------------------------------------------------
\* PendingReport: lines of many lengths to one group, then long ones, one to
\* a message, that are sent again.
VARIABLES reportPending, reportLine, reportConfigured, reportUpdates,
          reportPc, reportTarget, reportRead, reportMessages, reportPart,
          reportAttempt, reportDelivered

Report == INSTANCE PendingReport WITH
  N <- 4, Lengths <- {2, 3, 7}, Frame <- 4, Title <- 2, MaxLength <- 10,
  Retries <- 1, Groups <- {"g"}, pending <- reportPending,
  line <- reportLine, configured <- reportConfigured,
  updates <- reportUpdates, pc <- reportPc, target <- reportTarget,
  read <- reportRead, messages <- reportMessages, part <- reportPart,
  attempt <- reportAttempt, delivered <- reportDelivered
ASSUME ReportAssumption == Report!PendingReportAssumption

ReportParts == INSTANCE PendingReport WITH
  N <- 3, Lengths <- {5}, Frame <- 4, Title <- 2, MaxLength <- 10,
  Retries <- 2, Groups <- {"g", "h"}, pending <- reportPending,
  line <- reportLine, configured <- reportConfigured,
  updates <- reportUpdates, pc <- reportPc, target <- reportTarget,
  read <- reportRead, messages <- reportMessages, part <- reportPart,
  attempt <- reportAttempt, delivered <- reportDelivered
ASSUME ReportPartsAssumption == ReportParts!PendingReportAssumption

-----------------------------------------------------------------------------
\* RowLocks: requests of every kind, payments of one order each, and those
\* that can meet in a deadlock.
VARIABLES lockOp, lockTodo, lockHeld, lockPhase

Locks == INSTANCE RowLocks WITH
  Txs <- Calls, Admins <- Reviewers, Orders <- Two, Topups <- Transfers,
  Ops <- {"create", "pay", "autopay", "start", "save", "approve", "adjust"},
  op <- lockOp, todo <- lockTodo, held <- lockHeld, phase <- lockPhase
ASSUME LocksAssumption == Locks!RowLocksAssumption

LocksPaying == INSTANCE RowLocks WITH
  Txs <- Calls, Admins <- Reviewers, Orders <- Two, Topups <- Transfers,
  Ops <- {"pay", "autopay", "save", "approve", "adjust"}, MaxBatch <- 1,
  op <- lockOp, todo <- lockTodo, held <- lockHeld, phase <- lockPhase
ASSUME LocksPayingAssumption == LocksPaying!RowLocksAssumption

-----------------------------------------------------------------------------
\* CreditTopups: a request for credits that calls of several administrators
\* review.
VARIABLES topupBalance, topupLedger, topupRows, topupLock, topupReview,
          topupNow

Topups == INSTANCE CreditTopups WITH
  Users <- {"u1"}, OrderIds <- {}, References <- {"t1"}, NoOrder <- None,
  Opening <- [u \in {"u1"} |-> 0], TopupIds <- {"t1"}, TxIds <- {"x1"},
  Credits <- {1}, Reviews <- Calls, TTL <- 1, MaxTime <- 3, NoReview <- None,
  NoTopup <- None, balance <- topupBalance, ledger <- topupLedger,
  topups <- topupRows, lock <- topupLock, review <- topupReview,
  now <- topupNow
ASSUME TopupsAssumption == Topups!CreditTopupsAssumption

-----------------------------------------------------------------------------
\* The variables of the parts that do not act are None, but for those that a
\* property reads in every behaviour.
Init ==
  /\ part \in Parts
  /\ IF part = "scan" THEN Scan!Init
     ELSE /\ scanOrders = None /\ scanQueue = << >> /\ scanHand = None
          /\ scanPopped = None /\ scanFailed = None /\ scanReq = None
          /\ scanTold = None /\ scanUp = None /\ scanFaults = None
  /\ IF part = "labels" THEN Labels!Init
     ELSE IF part = "labels alone" THEN LabelsAlone!Init
     ELSE /\ labelMade = None /\ labelStored = None /\ labelLabels = None
          /\ labelOrders = None /\ labelConf = None /\ labelFaults = None
  /\ IF part = "rows" THEN Rows!Init
     ELSE /\ rowSheet = None /\ rowDefault = None /\ rowKnown = None
          /\ rowPreview = None
  /\ IF part = "carrier" THEN Carrier!Init
     ELSE IF part = "carrier alone" THEN CarrierAlone!Init
     ELSE /\ carrierOrders = None /\ carrierCarrier = None
          /\ carrierSync = None /\ carrierTorn = None
  /\ IF part = "pages" THEN Carrier!PagesInit
     ELSE /\ pagePdfs = None /\ pageAtStart = None /\ pagePageSize = None
          /\ pageLimit = None /\ pageFirst = None /\ pagePage = None
          /\ pageItems = None /\ pageListing = FALSE
  /\ IF part = "codes" THEN Barcodes!Init
     ELSE /\ codeText = None /\ codeCodes = None /\ codeValid = None
          /\ codeInvalid = None /\ codePc = None
  /\ IF part = "upload" THEN Upload!Init
     ELSE IF part = "upload alone" THEN UploadAlone!Init
     ELSE /\ uploadPending = None /\ uploadOld = None /\ uploadSend = None
          /\ uploadPrompted = None /\ uploadPress = None
          /\ uploadArrived = None /\ uploadCrashes = None
  /\ IF part = "report" THEN Report!Init
     ELSE IF part = "report parts" THEN ReportParts!Init
     ELSE /\ reportPending = None /\ reportLine = None
          /\ reportConfigured = None /\ reportUpdates = None
          /\ reportPc = "ended" /\ reportTarget = None /\ reportRead = None
          /\ reportMessages = None /\ reportPart = None
          /\ reportAttempt = None /\ reportDelivered = None
  /\ IF part = "locks" THEN Locks!Init
     ELSE IF part = "locks paying" THEN LocksPaying!Init
     ELSE /\ lockOp = None /\ lockTodo = None /\ lockHeld = None
          /\ lockPhase = [t \in Calls |-> "idle"]
  /\ IF part = "topup reviews" THEN Topups!TopupsInit
     ELSE /\ topupBalance = None /\ topupLedger = None /\ topupRows = None
          /\ topupLock = None
          /\ topupReview = [v \in Calls |-> [pc |-> "done"]]
          /\ topupNow = None

\* Part p acts: the others stay as they are.
Only(p) ==
  /\ part = p
  /\ UNCHANGED part
  /\ p # "scan" =>
       UNCHANGED <<scanOrders, scanQueue, scanHand, scanPopped, scanFailed,
                    scanReq, scanTold, scanUp, scanFaults>>
  /\ p \notin {"labels", "labels alone"} =>
       UNCHANGED <<labelMade, labelStored, labelLabels, labelOrders,
                    labelConf, labelFaults>>
  /\ p # "rows" =>
       UNCHANGED <<rowSheet, rowDefault, rowKnown, rowPreview>>
  /\ p \notin {"carrier", "carrier alone"} =>
       UNCHANGED <<carrierOrders, carrierCarrier, carrierSync, carrierTorn>>
  /\ p # "pages" =>
       UNCHANGED <<pagePdfs, pageAtStart, pagePageSize, pageLimit,
                    pageFirst, pagePage, pageItems, pageListing>>
  /\ p # "codes" =>
       UNCHANGED <<codeText, codeCodes, codeValid, codeInvalid, codePc>>
  /\ p \notin {"upload", "upload alone"} =>
       UNCHANGED <<uploadPending, uploadOld, uploadSend, uploadPrompted,
                    uploadPress, uploadArrived, uploadCrashes>>
  /\ p \notin {"report", "report parts"} =>
       UNCHANGED <<reportPending, reportLine, reportConfigured,
                    reportUpdates, reportPc, reportTarget,
                    reportRead, reportMessages, reportPart,
                    reportAttempt, reportDelivered>>
  /\ p \notin {"locks", "locks paying"} =>
       UNCHANGED <<lockOp, lockTodo, lockHeld, lockPhase>>
  /\ p # "topup reviews" =>
       UNCHANGED <<topupBalance, topupLedger, topupRows, topupLock,
                    topupReview, topupNow>>

Next ==
  \/ Only("scan") /\ Scan!Next
  \/ Only("labels") /\ Labels!Next
  \/ Only("labels alone") /\ LabelsAlone!Next
  \/ Only("rows") /\ Rows!Next
  \/ Only("carrier") /\ Carrier!Next
  \/ Only("carrier alone") /\ CarrierAlone!Next
  \/ Only("pages") /\ Carrier!PagesNext
  \/ Only("codes") /\ Barcodes!Next
  \/ Only("upload") /\ Upload!Next
  \/ Only("upload alone") /\ UploadAlone!Next
  \/ Only("report") /\ Report!Next
  \/ Only("report parts") /\ ReportParts!Next
  \/ Only("locks") /\ Locks!Next
  \/ Only("locks paying") /\ LocksPaying!Next
  \/ Only("topup reviews") /\ Topups!TopupsNext

vars == <<part, scanOrders, scanQueue, scanHand, scanPopped, scanFailed,
          scanReq, scanTold, scanUp, scanFaults, labelMade, labelStored,
          labelLabels, labelOrders, labelConf, labelFaults, rowSheet,
          rowDefault, rowKnown, rowPreview, carrierOrders, carrierCarrier,
          carrierSync, carrierTorn, pagePdfs, pageAtStart, pagePageSize,
          pageLimit, pageFirst, pagePage, pageItems, pageListing, codeText,
          codeCodes, codeValid, codeInvalid, codePc, uploadPending,
          uploadOld, uploadSend, uploadPrompted, uploadPress, uploadArrived,
          uploadCrashes, reportPending, reportLine, reportConfigured,
          reportUpdates, reportPc, reportTarget, reportRead, reportMessages,
          reportPart, reportAttempt, reportDelivered, lockOp, lockTodo,
          lockHeld, lockPhase, topupBalance, topupLedger, topupRows,
          topupLock, topupReview, topupNow>>

Spec == Init /\ [][Next]_vars

(***************************************************************************)
(* The worker loop pops and handles jobs, and Docker restarts the backend; *)
(* the carrier answers the requests for its list (fetch has no timeout: a  *)
(* request that is never answered holds the run for good); a message to    *)
(* Telegram has a timeout; PostgreSQL grants a lock that is free, and its  *)
(* detector aborts a transaction of a cycle; a review whose query has      *)
(* answered goes on.                                                       *)
(***************************************************************************)
FairSpec ==
  /\ Spec
  /\ WF_(Scan!vars)(part = "scan" /\ Scan!Dequeue)
  /\ WF_(Scan!vars)(part = "scan" /\ Scan!HandleJob)
  /\ WF_(Scan!vars)(part = "scan" /\ Scan!Restart)
  /\ WF_(Carrier!pagesVars)(part = "pages" /\ Carrier!FetchPage)
  /\ WF_(ReportParts!vars)(part = "report parts" /\ ReportParts!Run)
  /\ \A v \in Calls :
       WF_(Topups!tuVars)(part = "topup reviews" /\ Topups!ReviewStep(v))
  /\ \A t \in Calls :
       /\ WF_(Locks!vars)(part = "locks"
                          /\ (Locks!Acquire(t) \/ Locks!Commit(t)))
       /\ WF_(Locks!vars)(part = "locks" /\ Locks!Abort(t))

-----------------------------------------------------------------------------
(* Properties                                                              *)

FulfilmentTypeOK ==
  /\ part = "scan" => Scan!ScanTypeOK
  /\ part = "labels" => Labels!LabelTypeOK
  /\ part = "carrier" => Carrier!CarrierTypeOK
  /\ part = "upload" => Upload!BarcodeTypeOK
  /\ part = "report" => Report!PendingReportTypeOK
  /\ part = "locks" => Locks!RowLocksTypeOK

(***************************************************************************)
(* Nothing is done twice.  A payment or start pushes one job at most       *)
(* (scan-queue.service.ts:19-25); two confirmations make one order for a   *)
(* client request id, and a row that is confirmed again without overlap    *)
(* makes none (labels.service.ts:370-425); a PDF is uploaded once if calls *)
(* of the webhook do not overlap; the list of the carrier's PDFs holds     *)
(* each once (byeastside-sync.ts:84-117).                                  *)
(***************************************************************************)
NothingTwice ==
  /\ part = "scan" => Scan!EachJobOnce
  /\ part = "labels" => Labels!OnePerRequestId
  /\ part = "labels alone" => LabelsAlone!EachRowOnce
  /\ part = "upload alone" => UploadAlone!UploadedOnce
  /\ part = "pages" => Carrier!NewestOnce

(***************************************************************************)
(* Nothing is lost but by a fault.  An order that was debited or started   *)
(* has a job unless Redis or the process failed in between                 *)
(* (orders.service.ts:337); a label has its order unless the process died  *)
(* between the two inserts (labels.service.ts:397); a full list of PDFs    *)
(* has every PDF that was there when it began, from the first page of the  *)
(* settings on, whatever arrives meanwhile (byeastside-sync.ts:84-115).    *)
(***************************************************************************)
NothingLost ==
  /\ part = "scan" => Scan!OnlyFaultsLoseJobs
  /\ part = "labels" => Labels!OnlyCrashesOrphanLabels
  /\ part = "pages" => Carrier!NothingMissed

(***************************************************************************)
(* What is told is so.  A reply reports an order only when its job is in   *)
(* the queue, and a job in the queue is of a committed order that the      *)
(* payment debited, so that the worker misses it only if an administrator  *)
(* deleted it since; the reply of a confirmation names every row in its    *)
(* order; the chat hears of an upload only if the carrier has the PDF.     *)
(***************************************************************************)
ToldIsSo ==
  /\ part = "scan" => Scan!SuccessMeansPushed /\ Scan!JobsAreCommitted
  /\ part = "labels" => Labels!ReplyNamesEveryRow
  /\ part = "upload" => Upload!ToldUploadedIsUploaded

(***************************************************************************)
(* Input is judged as the rules say, whatever its other rows or pieces     *)
(* are: the rows of a sheet that can be imported, the warnings of repeated *)
(* codes, the requests for barcodes that are refused, and the lines that   *)
(* fit one message.  What is accepted is listed whole, each once and in    *)
(* its order: the codes of a request, the pending orders of a report, and  *)
(* the parts in which Telegram gets it.                                    *)
(***************************************************************************)
JudgedByRule ==
  /\ part = "rows" => Rows!AcceptedIffImportable /\ Rows!RepeatsWarned
  /\ part = "codes" => Barcodes!RefusedForCause /\ Barcodes!EachCodeOnce
  /\ part = "report" => Report!LongOnlyAlone /\ Report!EveryOrderOnce
  /\ part = "report parts" =>
       ReportParts!PartsInOrder /\ ReportParts!EndedIsComplete

(***************************************************************************)
(* Nothing is completed, or paid later in a file, ahead of a payment that  *)
(* was due: a synchronisation completes paid orders only, although it      *)
(* reads them before it saves, unless the saves of two runs cross on the   *)
(* order; a confirmation pays a prefix of its rows, although credits may   *)
(* arrive between two of them; the worker neither fails nor refunds what   *)
(* was paid.                                                               *)
(***************************************************************************)
PaidFirst ==
  /\ part = "carrier" => Carrier!CompletedIsPaid
  /\ part = "labels" => Labels!ConfirmPaysPrefix
  /\ part = "scan" => Scan!WorkerOnlyReads

(***************************************************************************)
(* A review, an adjustment or an edit never waits in a cycle of locks, and *)
(* neither do payments of one order each (RowLocks says which of the other *)
(* requests do).                                                           *)
(***************************************************************************)
NeverDeadlock ==
  /\ part = "locks" => Locks!ReviewsNeverDeadlock
  /\ part = "locks paying" => LocksPaying!OneOrderPaymentsNeverDeadlock

(***************************************************************************)
(* No step takes back what was settled.  A run of the synchronisation that *)
(* ends has completed the orders the carrier picked up and shown the       *)
(* carrier's event on the others, and leaves a closed order alone; a       *)
(* prompt stays usable until its PDF is uploaded or was refused, and a PDF *)
(* that was refused is not uploaded.                                       *)
(***************************************************************************)
SettledStays == [][
  /\ part = "carrier alone" =>
       /\ CarrierAlone!PickedIsCompleted
       /\ CarrierAlone!OpenShowsEvent
       /\ CarrierAlone!ClosedLeftAlone
  /\ part = "upload" => Upload!PromptStaysUsable
  /\ part = "upload alone" => UploadAlone!CancelledStaysOut]_vars

(***************************************************************************)
(* What was begun ends: a job leaves the queue, also when the process dies *)
(* and is restarted; the loop over the carrier's pages stops, also while   *)
(* PDFs arrive; the run of the report is over, also when messages fail;    *)
(* a request that waits for locks is answered, also in a deadlock; and a   *)
(* review is over, also when another one holds the row or dies.            *)
(***************************************************************************)
BegunIsEnded ==
  /\ Scan!JobsLeaveQueue
  /\ Carrier!ListingEnds
  /\ ReportParts!RunEnds
  /\ Locks!EveryRequestAnswered
  /\ Topups!ReviewsEnd
=============================================================================
