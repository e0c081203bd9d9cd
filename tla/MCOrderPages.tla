---------------------------- MODULE MCOrderPages ----------------------------
(***************************************************************************)
(* The pages of the browser that show and change orders, each on a small   *)
(* instance: the dialogs that import labels and request designs, the one   *)
(* that shows an order, the filters of the lists, and the list and the     *)
(* panel of the staff.                                                     *)
(*                                                                         *)
(* One page is open at a time: one part, chosen at the beginning, acts,    *)
(* and the others stay as they are. A part is a component with the values  *)
(* of its constants.                                                       *)
(***************************************************************************)
EXTENDS Integers, Sequences, FiniteSets, TLC

CONSTANTS Parts,      \* the parts a run lets act
          Two,        \* orders: a run has two
          Null,       \* null
          Sheets, TooLong, Broken, MaxUploads, MaxConfirms,
          Offered,    \* types of designs
          Files, Submits, MaxBalance, MaxEdits,
          MaxResults, MaxFetches, MinZoom, MaxZoom,
          Days, Words, MaxPage,
          Numbers,    \* orders of the list of the staff
          PageSize, Filter, Credits, SharedCredits, MaxStarts,
          Edited,     \* orders the panel shows
          Edits,      \* texts it edits
          Texts, Selects, MaxCalls,
          MaxAlone    \* mutations of the panel where they do not overlap

Symmetry == Permutations(Two)

VARIABLE part    \* the part that acts in this behaviour

-----------------------------------------------------------------------------
\* ImportModal: sheets that are good, bad or too long.
VARIABLES importService, importOpen, importUploads, importRows,
          importPreviewId, importAsking, importConfirms, importResult,
          importImported

Importing == INSTANCE ImportModal WITH
  service <- importService, open <- importOpen, uploads <- importUploads, rows <- importRows,
  previewId <- importPreviewId, asking <- importAsking,
  confirms <- importConfirms, result <- importResult,
  imported <- importImported
ASSUME ImportAssumption == Importing!ModalAssumption

-----------------------------------------------------------------------------
\* DesignRequest: two files, two presses of Submit, answers that are lost.
VARIABLES designOpen, designChosen, designFiles, designKnown, designToast,
          designSubmit, designStored, designOrders, designBalance,
          designEdits

Designing == INSTANCE DesignRequest WITH
  Subtypes <- Offered, AnswersLost <- TRUE, None <- Null,
  open <- designOpen, chosen <- designChosen, files <- designFiles,
  known <- designKnown, toast <- designToast,
  submit <- designSubmit, stored <- designStored, orders <- designOrders,
  balance <- designBalance, edits <- designEdits
ASSUME DesignAssumption == Designing!DesignRequestAssumption

-----------------------------------------------------------------------------
\* OrderViewer: two orders, three fetches, answers that are lost.
VARIABLES viewerType, viewerLabel, viewerResult, viewerList, viewerSelected,
          viewerDetail, viewerFetches, viewerHeard, viewerPicture, viewerZoom

Viewing == INSTANCE OrderViewer WITH
  Orders <- Two, AnswersLost <- TRUE, None <- Null, type <- viewerType,
  label <- viewerLabel, result <- viewerResult, list <- viewerList,
  selected <- viewerSelected, detail <- viewerDetail,
  fetches <- viewerFetches, heard <- viewerHeard, picture <- viewerPicture,
  zoom <- viewerZoom
ASSUME ViewerAssumption == Viewing!OrderViewerAssumption

-----------------------------------------------------------------------------
\* OrderFilters: the page of the staff and the one of the customer.
VARIABLES filterUrl, filterView, filterTyped, filterDid

StaffFilters == INSTANCE OrderFilters WITH
  Staff <- TRUE, url <- filterUrl, view <- filterView, typed <- filterTyped,
  did <- filterDid
ASSUME StaffFiltersAssumption == StaffFilters!FilterAssumption

OwnFilters == INSTANCE OrderFilters WITH
  Staff <- FALSE, url <- filterUrl, view <- filterView, typed <- filterTyped,
  did <- filterDid
ASSUME OwnFiltersAssumption == OwnFilters!FilterAssumption

-----------------------------------------------------------------------------
\* OrderDesk: a list of two pages, filtered; and one whose orders other staff
\* complete, with the box of the carrier ticked.
VARIABLES deskRow, deskBalance, deskPage, deskCache, deskStale, deskSelected,
          deskDialog, deskStarts, deskDeleting, deskSent

Desk == INSTANCE OrderDesk WITH
  Orders <- Numbers, Others <- FALSE, Uploads <- FALSE,
  row <- deskRow, balance <- deskBalance, page <- deskPage,
  cache <- deskCache, stale <- deskStale, selected <- deskSelected,
  dialog <- deskDialog, starts <- deskStarts, deleting <- deskDeleting,
  sent <- deskSent
ASSUME DeskAssumption == Desk!DeskAssumption

DeskShared == INSTANCE OrderDesk WITH
  Orders <- Numbers, Filter <- "", Credits <- SharedCredits,
  Others <- TRUE, Uploads <- TRUE, row <- deskRow,
  balance <- deskBalance, page <- deskPage, cache <- deskCache,
  stale <- deskStale, selected <- deskSelected, dialog <- deskDialog,
  starts <- deskStarts, deleting <- deskDeleting, sent <- deskSent
ASSUME DeskSharedAssumption == DeskShared!DeskAssumption

-----------------------------------------------------------------------------
\* OrderPanel: edits of an order that overlap, and one at a time.
VARIABLES panelRow, panelListed, panelDetail, panelLook, panelRelist,
          panelOpen, panelDraft, panelAsking, panelNotice, panelCalls

Panel == INSTANCE OrderPanel WITH
  Orders <- Edited, NoOrder <- Null, Fields <- Edits, Overlap <- TRUE,
  row <- panelRow, listed <- panelListed, detail <- panelDetail,
  look <- panelLook, relist <- panelRelist, open <- panelOpen, draft <- panelDraft,
  asking <- panelAsking, notice <- panelNotice, calls <- panelCalls
ASSUME PanelAssumption == Panel!PanelAssumption

PanelAlone == INSTANCE OrderPanel WITH
  Orders <- Edited, NoOrder <- Null, Fields <- {"note", "result"},
  Selects <- {"status", "payment"}, MaxCalls <- MaxAlone, Overlap <- FALSE,
  row <- panelRow, listed <- panelListed, detail <- panelDetail,
  look <- panelLook, relist <- panelRelist, open <- panelOpen,
  draft <- panelDraft, asking <- panelAsking, notice <- panelNotice,
  calls <- panelCalls
ASSUME PanelAloneAssumption == PanelAlone!PanelAssumption

-----------------------------------------------------------------------------
\* The variables of the parts that do not act are Null, but for those that a
\* property reads in every behaviour.
Init ==
  /\ part \in Parts
  /\ IF part = "import" THEN Importing!Init
     ELSE /\ importService = Null /\ importOpen = Null
          /\ importUploads = Null /\ importRows = Null
          /\ importPreviewId = Null /\ importAsking = Null
          /\ importConfirms = Null /\ importResult = Null
          /\ importImported = Null
  /\ IF part = "design" THEN Designing!Init
     ELSE /\ designOpen = Null /\ designChosen = Null /\ designFiles = Null
          /\ designKnown = Null /\ designToast = Null /\ designSubmit = Null
          /\ designStored = Null /\ designOrders = Null
          /\ designBalance = Null /\ designEdits = Null
  /\ IF part = "viewer" THEN Viewing!Init
     ELSE /\ viewerType = Null /\ viewerLabel = Null /\ viewerResult = Null
          /\ viewerList = Null /\ viewerSelected = Null
          /\ viewerDetail = Null /\ viewerFetches = Null
          /\ viewerHeard = Null /\ viewerPicture = Null /\ viewerZoom = Null
  /\ IF part = "staff filters" THEN StaffFilters!Init
     ELSE IF part = "own filters" THEN OwnFilters!Init
     ELSE /\ filterUrl = Null /\ filterView = Null /\ filterTyped = Null
          /\ filterDid = Null
  /\ IF part = "desk" THEN Desk!Init
     ELSE IF part = "desk shared" THEN DeskShared!Init
     ELSE /\ deskRow = Null /\ deskBalance = Null /\ deskPage = Null
          /\ deskCache = Null /\ deskStale = Null /\ deskSelected = Null
          /\ deskDialog = Null /\ deskStarts = Null /\ deskDeleting = Null
          /\ deskSent = Null
  /\ IF part = "panel" THEN Panel!Init
     ELSE IF part = "panel alone" THEN PanelAlone!Init
     ELSE /\ panelRow = Null /\ panelListed = Null /\ panelDetail = Null
          /\ panelLook = Null /\ panelRelist = Null /\ panelOpen = Null
          /\ panelDraft = Null /\ panelAsking = Null /\ panelNotice = Null
          /\ panelCalls = Null

\* Part p acts: the others stay as they are.
Only(p) ==
  /\ part = p
  /\ UNCHANGED part
  /\ p # "import" =>
       UNCHANGED <<importService, importOpen, importUploads, importRows,
                    importPreviewId, importAsking, importConfirms,
                    importResult, importImported>>
  /\ p # "design" =>
       UNCHANGED <<designOpen, designChosen, designFiles, designKnown,
                    designToast, designSubmit, designStored,
                    designOrders, designBalance, designEdits>>
  /\ p # "viewer" =>
       UNCHANGED <<viewerType, viewerLabel, viewerResult, viewerList,
                    viewerSelected, viewerDetail, viewerFetches,
                    viewerHeard, viewerPicture, viewerZoom>>
  /\ p \notin {"staff filters", "own filters"} =>
       UNCHANGED <<filterUrl, filterView, filterTyped, filterDid>>
  /\ p \notin {"desk", "desk shared"} =>
       UNCHANGED <<deskRow, deskBalance, deskPage, deskCache, deskStale,
                    deskSelected, deskDialog, deskStarts,
                    deskDeleting, deskSent>>
  /\ p \notin {"panel", "panel alone"} =>
       UNCHANGED <<panelRow, panelListed, panelDetail, panelLook,
                    panelRelist, panelOpen, panelDraft, panelAsking,
                    panelNotice, panelCalls>>

Next ==
  \/ Only("import") /\ Importing!Next
  \/ Only("design") /\ Designing!Next
  \/ Only("viewer") /\ Viewing!Next
  \/ Only("staff filters") /\ StaffFilters!Next
  \/ Only("own filters") /\ OwnFilters!Next
  \/ Only("desk") /\ Desk!Next
  \/ Only("desk shared") /\ DeskShared!Next
  \/ Only("panel") /\ Panel!Next
  \/ Only("panel alone") /\ PanelAlone!Next

vars == <<part, importService, importOpen, importUploads, importRows,
          importPreviewId, importAsking, importConfirms, importResult,
          importImported, designOpen, designChosen, designFiles, designKnown,
          designToast, designSubmit, designStored, designOrders,
          designBalance, designEdits, viewerType, viewerLabel, viewerResult,
          viewerList, viewerSelected, viewerDetail, viewerFetches,
          viewerHeard, viewerPicture, viewerZoom, filterUrl, filterView,
          filterTyped, filterDid, deskRow, deskBalance, deskPage, deskCache,
          deskStale, deskSelected, deskDialog, deskStarts, deskDeleting,
          deskSent, panelRow, panelListed, panelDetail, panelLook,
          panelRelist, panelOpen, panelDraft, panelAsking, panelNotice,
          panelCalls>>

Spec == Init /\ [][Next]_vars

-----------------------------------------------------------------------------
(* Properties                                                              *)

OrderPagesTypeOK ==
  /\ part = "import" => Importing!ModalTypeOK
  /\ part = "design" => Designing!DesignRequestTypeOK
  /\ part = "viewer" => Viewing!OrderViewerTypeOK
  /\ part = "desk" => Desk!DeskTypeOK
  /\ part = "panel" => Panel!PanelTypeOK

(***************************************************************************)
(* What is shown is of what was chosen, in whatever order answers arrive:  *)
(* the rows of the dialog are of the preview that Confirm would import     *)
(* (ImportLabelsModal.tsx), the details and the enlarged picture are of    *)
(* the order that was clicked (app/Orders.tsx:157-162), and a list is      *)
(* asked for orders of its view only, with no filter left after a reset.   *)
(***************************************************************************)
ShownIsChosen ==
  /\ part = "import" => Importing!PreviewIsShown
  /\ part = "viewer" => Viewing!ShownIsSelected /\ Viewing!PictureIsOfOrder
  /\ part = "staff filters" =>
       StaffFilters!QueryFitsView /\ StaffFilters!ResetClearsAll
  /\ part = "own filters" => OwnFilters!QueryFitsView

(***************************************************************************)
(* A press has its effect once and whole: a preview is confirmed again     *)
(* only when no answer came, and only if its sheet was good; a press of    *)
(* Submit makes one design order at most, with the files it was pressed    *)
(* with, which are stored, and its success is told of an order that is     *)
(* there; an order that was uploaded to the carrier was started.           *)
(***************************************************************************)
PressedOnce ==
  /\ part = "import" =>
       Importing!SentAgainOnlyUnanswered /\ Importing!OnlyGoodSheetsSent
  /\ part = "design" =>
       Designing!OrderOfSubmit /\ Designing!OrderHasItsFiles
  /\ part = "desk shared" => DeskShared!SentIsStarted

(***************************************************************************)
(* A page that waits for nothing shows what the server has: the list of    *)
(* the staff if nobody else works, the list behind the panel whatever      *)
(* edits overlapped, and the panel if they did not.                        *)
(***************************************************************************)
QuietIsServer ==
  /\ part = "desk" => Desk!QuietListIsServer
  /\ part = "panel" => Panel!ListCatchesUp
  /\ part = "panel alone" => PanelAlone!PanelCatchesUp

(***************************************************************************)
(* No step of a page goes backwards: what is cached of an order only gets  *)
(* newer, a list under other filters begins at its first page, and, taken  *)
(* one at a time, Mark Completed and Mark Failed close an order only with  *)
(* the text they ask for (admin/Orders.tsx:348-364), whatever was chosen   *)
(* with the selects before, which close orders without one.                *)
(***************************************************************************)
StepsForward == [][
  /\ part = "viewer" => Viewing!CacheOnlyNewer
  /\ part = "staff filters" => StaffFilters!OtherFiltersFirstPage
  /\ part = "own filters" => OwnFilters!OtherFiltersFirstPage
  /\ part = "panel alone" => PanelAlone!ClosedWithText]_vars
=============================================================================
