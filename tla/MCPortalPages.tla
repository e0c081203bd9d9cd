--------------------------- MODULE MCPortalPages ----------------------------
(***************************************************************************)
(* The pages of the browser beside those of orders, and the session they   *)
(* run in, each on a small instance: tokens shared by tabs, the top-ups of *)
(* a customer, the top-ups, requests and accounts the staff review,        *)
(* adjustments, trusted devices, the overview, the synchronisation centre, *)
(* the counts of a customer, and exports.                                  *)
(*                                                                         *)
(* One page is open at a time: one part, chosen at the beginning, acts,    *)
(* and the others stay as they are. A part is a component with the values  *)
(* of its constants.                                                       *)
(***************************************************************************)
EXTENDS Integers, Sequences, FiniteSets, TLC

CONSTANTS Parts,      \* the parts a run lets act
          Pair,       \* two users, packages or things to review
          Three,      \* three orders
          MaxTokens, MaxPeople, MaxOrders,
          TabCalls,                               \* calls of the only tab
          ReviewCalls, RequestCalls, SharedCalls, \* reviews of each page
          Loads, FailingLoads, Presses,           \* of the page of the users
          Accounts, MaxTyped, MaxPresses,         \* of the adjustments
          RowLimit, MaxRows,
          DeviceCalls,                            \* revocations
          AlonePeople, AloneTake,                 \* of the overview alone
          Unanswered, \* what a fetch has read unanswered
          Unread,     \* a count that was not loaded
          None        \* null

Symmetry == Permutations(Pair) \cup Permutations(Three)

\* Orders to export: the first is another customer's, the second a design.
OwnerOf(n) == [o \in 1 .. n |-> IF o = 1 THEN "bob" ELSE "ann"]
TimeOf(n) == [o \in 1 .. n |-> o + 1]
DesignOf(n) == [o \in 1 .. n |-> o = 2]

Asks(owner, st, from, to, standard) ==
  [owner |-> owner, status |-> st, from |-> from, to |-> to,
   excludeDesign |-> standard]

\* "any" is every status and every owner.
OwnFilters ==
  {Asks("ann", st, from, to, FALSE) :
     st \in {"any", "pending"}, from \in {0, 1, 2}, to \in {0, 2}}
StaffFilters == {Asks("any", st, 0, 0, TRUE) : st \in {"any", "pending"}}

VARIABLE part    \* the part that acts in this behaviour

-----------------------------------------------------------------------------
\* SessionClient: two users of one tab, which is reloaded and loses answers,
\* and two tabs with every fault.
VARIABLES sessionStore, sessionTab, sessionFlight, sessionCall, sessionOwner,
          sessionLive, sessionFresh, sessionStray, sessionCut,
          sessionReused, sessionMe

Tab == INSTANCE SessionClient WITH
  Users <- Pair, NoUser <- None, Tabs <- {"t1"}, Calls <- TabCalls,
  Faults <- {"lost", "close"}, Quiet <- TRUE, store <- sessionStore, tab <- sessionTab,
  flight <- sessionFlight, call <- sessionCall, owner <- sessionOwner,
  live <- sessionLive, fresh <- sessionFresh, stray <- sessionStray,
  cut <- sessionCut, reused <- sessionReused, me <- sessionMe
ASSUME TabAssumption == Tab!ClientAssumption

TwoTabs == INSTANCE SessionClient WITH
  Users <- {"u1"}, NoUser <- None, Tabs <- {"t1", "t2"}, Calls <- {"c1"},
  MaxTokens <- 2, Faults <- {"lost", "close", "logout"}, Quiet <- FALSE,
  store <- sessionStore, tab <- sessionTab, flight <- sessionFlight,
  call <- sessionCall, owner <- sessionOwner, live <- sessionLive,
  fresh <- sessionFresh, stray <- sessionStray, cut <- sessionCut,
  reused <- sessionReused, me <- sessionMe
ASSUME TwoTabsAssumption == TwoTabs!ClientAssumption

-----------------------------------------------------------------------------
\* SessionClient: two calls of a tab, with every fault.
VARIABLES waitStore, waitTab, waitFlight, waitCall, waitOwner, waitLive,
          waitFresh, waitStray, waitCut, waitReused, waitMe

Waiting == INSTANCE SessionClient WITH
  Users <- {"u1"}, NoUser <- None, Tabs <- {"t1"}, Calls <- {"c1", "c2"},
  MaxTokens <- 2, Faults <- {"lost", "close", "logout"}, Quiet <- FALSE,
  store <- waitStore, tab <- waitTab, flight <- waitFlight, call <- waitCall,
  owner <- waitOwner, live <- waitLive, fresh <- waitFresh,
  stray <- waitStray, cut <- waitCut, reused <- waitReused, me <- waitMe
ASSUME WaitingAssumption == Waiting!ClientAssumption

-----------------------------------------------------------------------------
\* TopupClient: two packages and one transfer, and a page that is not left
\* before it has loaded.
VARIABLES topupTopups, topupPage, topupPkg, topupTxid, topupError, topupKept,
          topupResult, topupCall, topupStray, topupSent, topupTold,
          topupShown, topupAsked

Paying == INSTANCE TopupClient WITH
  LeaveWhileLoading <- TRUE, Packages <- Pair, TxIds <- {"x1"},
  Asked <- Unanswered, topups <- topupTopups, page <- topupPage,
  pkg <- topupPkg, txid <- topupTxid, error <- topupError, kept <- topupKept,
  result <- topupResult, call <- topupCall, stray <- topupStray,
  sent <- topupSent, told <- topupTold, shown <- topupShown,
  asked <- topupAsked

History == INSTANCE TopupClient WITH
  LeaveWhileLoading <- FALSE, Packages <- {"k1"}, TxIds <- {"x1"},
  Asked <- Unanswered, topups <- topupTopups, page <- topupPage,
  pkg <- topupPkg, txid <- topupTxid, error <- topupError, kept <- topupKept,
  result <- topupResult, call <- topupCall, stray <- topupStray,
  sent <- topupSent, told <- topupTold, shown <- topupShown,
  asked <- topupAsked

-----------------------------------------------------------------------------
\* TopupSearch: lists that are not searched, page sizes, and a list that
\* loads.
VARIABLES searchStatus, searchMatch, searchView, searchCache, searchFetch,
          searchTurns

Search == INSTANCE TopupSearch WITH
  MaxTopups <- 2, Limits <- {1}, Searches <- {FALSE}, MaxTurns <- 2,
  NoData <- None, status <- searchStatus, match <- searchMatch,
  view <- searchView, cache <- searchCache, fetch <- searchFetch,
  turns <- searchTurns
ASSUME SearchAssumption == Search!TopupSearchAssumption

SearchSized == INSTANCE TopupSearch WITH
  MaxTopups <- 2, Limits <- {1, 2}, Searches <- {FALSE, TRUE}, MaxTurns <- 1,
  NoData <- None, status <- searchStatus, match <- searchMatch,
  view <- searchView, cache <- searchCache, fetch <- searchFetch,
  turns <- searchTurns
ASSUME SearchSizedAssumption == SearchSized!TopupSearchAssumption

-----------------------------------------------------------------------------
\* ReviewDesk: the page of the top-ups, the one of the registration requests,
\* and one where other staff review too and answers are lost.
VARIABLES reviewStatus, reviewDialog, reviewCall, reviewLatest, reviewView,
          reviewRows, reviewFetch, reviewJoined, reviewWaits

Reviewing == INSTANCE ReviewDesk WITH
  Page <- "topups", Items <- Pair, Views <- {"v1", "v2"}, Calls <- ReviewCalls,
  OthersReview <- FALSE, AnswersLost <- FALSE, Asked <- Unanswered,
  status <- reviewStatus, dialog <- reviewDialog, call <- reviewCall,
  latest <- reviewLatest, view <- reviewView, rows <- reviewRows,
  fetch <- reviewFetch, joined <- reviewJoined, waits <- reviewWaits
ASSUME ReviewingAssumption == Reviewing!ReviewDeskAssumption

Requesting == INSTANCE ReviewDesk WITH
  Page <- "requests", Items <- Pair, Views <- {"v1"}, Calls <- RequestCalls,
  OthersReview <- FALSE, AnswersLost <- FALSE, Asked <- Unanswered,
  status <- reviewStatus, dialog <- reviewDialog, call <- reviewCall,
  latest <- reviewLatest, view <- reviewView, rows <- reviewRows,
  fetch <- reviewFetch, joined <- reviewJoined, waits <- reviewWaits
ASSUME RequestingAssumption == Requesting!ReviewDeskAssumption

ReviewShared == INSTANCE ReviewDesk WITH
  Page <- "topups", Items <- Pair, Views <- {"v1"}, Calls <- SharedCalls,
  OthersReview <- TRUE, AnswersLost <- TRUE, Asked <- Unanswered,
  status <- reviewStatus, dialog <- reviewDialog, call <- reviewCall,
  latest <- reviewLatest, view <- reviewView, rows <- reviewRows,
  fetch <- reviewFetch, joined <- reviewJoined, waits <- reviewWaits
ASSUME ReviewSharedAssumption == ReviewShared!ReviewDeskAssumption

-----------------------------------------------------------------------------
\* UserDesk: requests that fail, and none that does.
VARIABLES usersLoad, usersSelected, usersDetail, usersHistory, usersModal,
          usersIntended, usersOpenings, usersPress, usersMisdirected,
          usersHasty, usersMuddled

Desk == INSTANCE UserDesk WITH
  Users <- Pair, Loads <- FailingLoads,
  Fails <- TRUE, load <- usersLoad,
  selected <- usersSelected, detail <- usersDetail, history <- usersHistory,
  modal <- usersModal, intended <- usersIntended, openings <- usersOpenings,
  press <- usersPress, misdirected <- usersMisdirected, hasty <- usersHasty,
  muddled <- usersMuddled

DeskSure == INSTANCE UserDesk WITH
  Users <- Pair,
  Fails <- FALSE, load <- usersLoad,
  selected <- usersSelected, detail <- usersDetail, history <- usersHistory,
  modal <- usersModal, intended <- usersIntended, openings <- usersOpenings,
  press <- usersPress, misdirected <- usersMisdirected, hasty <- usersHasty,
  muddled <- usersMuddled

ASSUME DeskAssumption == Desk!UserDeskAssumption
ASSUME DeskSureAssumption == DeskSure!UserDeskAssumption

-----------------------------------------------------------------------------
\* AdjustmentForm: answers that are lost, and none that is.
VARIABLES adjustUser, adjustAmount, adjustTyped, adjustPress, adjustShown,
          adjustLedger, adjustRows, adjustFailed, adjustFetch

Adjusting == INSTANCE AdjustmentForm WITH
  Users <- Accounts, Limit <- RowLimit,
  AnswersLost <- TRUE, Asked <- Unanswered, user <- adjustUser,
  amount <- adjustAmount, typed <- adjustTyped, press <- adjustPress,
  shown <- adjustShown, ledger <- adjustLedger, rows <- adjustRows,
  failed <- adjustFailed, fetch <- adjustFetch
ASSUME AdjustingAssumption == Adjusting!AdjustmentFormAssumption

AdjustingSure == INSTANCE AdjustmentForm WITH
  Users <- Accounts, Limit <- RowLimit,
  AnswersLost <- FALSE, Asked <- Unanswered, user <- adjustUser,
  amount <- adjustAmount, typed <- adjustTyped, press <- adjustPress,
  shown <- adjustShown, ledger <- adjustLedger, rows <- adjustRows,
  failed <- adjustFailed, fetch <- adjustFetch
ASSUME AdjustingSureAssumption == AdjustingSure!AdjustmentFormAssumption

-----------------------------------------------------------------------------
\* DeviceList: the page that disables its dialog, where three requests can be
\* lost, and the one that does not.
VARIABLES deviceRow, deviceList, deviceFailed, deviceFetch, deviceSelected,
          deviceCall, deviceLatest

DevicesPage == INSTANCE DeviceList WITH
  Devices <- Pair, Calls <- DeviceCalls, Page <- "devices",
  AnswersLost <- TRUE, Asked <- Unanswered, row <- deviceRow,
  list <- deviceList, failed <- deviceFailed, fetch <- deviceFetch,
  selected <- deviceSelected, call <- deviceCall, latest <- deviceLatest
ASSUME DevicesPageAssumption == DevicesPage!DeviceListAssumption

MeDevicesPage == INSTANCE DeviceList WITH
  Devices <- Pair, Calls <- {"c1", "c2"}, Page <- "me_devices",
  AnswersLost <- TRUE, Asked <- Unanswered, row <- deviceRow,
  list <- deviceList, failed <- deviceFailed, fetch <- deviceFetch,
  selected <- deviceSelected, call <- deviceCall, latest <- deviceLatest
ASSUME MeDevicesPageAssumption == MeDevicesPage!DeviceListAssumption

-----------------------------------------------------------------------------
\* AdminOverview: other staff, a window that is focused again and answers
\* that are lost; and none of them.
VARIABLES overviewRegistered, overviewStatus, overviewState, overviewCounted,
          overviewFound, overviewOverview, overviewReview

Overview == INSTANCE AdminOverview WITH
  N <- MaxPeople, Take <- 1, Others <- TRUE, FocusRefetch <- TRUE,
  AnswersLost <- TRUE, registered <- overviewRegistered,
  status <- overviewStatus, state <- overviewState,
  counted <- overviewCounted, found <- overviewFound,
  overview <- overviewOverview, review <- overviewReview
ASSUME OverviewAssumption == Overview!AdminOverviewAssumption

OverviewAlone == INSTANCE AdminOverview WITH
  N <- AlonePeople, Take <- AloneTake, Others <- FALSE, FocusRefetch <- FALSE,
  AnswersLost <- FALSE, registered <- overviewRegistered,
  status <- overviewStatus, state <- overviewState,
  counted <- overviewCounted, found <- overviewFound,
  overview <- overviewOverview, review <- overviewReview
ASSUME OverviewAloneAssumption == OverviewAlone!AdminOverviewAssumption

-----------------------------------------------------------------------------
\* SyncCenter: the form of the settings, runs of several, runs of the page
\* alone, and the clock.
VARIABLES syncSetting, syncProc, syncRun, syncHistory, syncForm, syncKnown,
          syncFetching, syncSaving, syncTold, syncSyncing, syncShown,
          syncEdits

Settings == INSTANCE SyncCenter WITH
  Limits <- {1, 2}, MaxEdits <- 2, MaxRuns <- 0, Clock <- FALSE,
  OthersWork <- FALSE, WritesFail <- FALSE, AnswersLost <- FALSE,
  setting <- syncSetting, proc <- syncProc, run <- syncRun,
  history <- syncHistory, form <- syncForm, known <- syncKnown,
  fetching <- syncFetching, saving <- syncSaving, told <- syncTold,
  syncing <- syncSyncing, shown <- syncShown, edits <- syncEdits
ASSUME SettingsAssumption == Settings!SyncCenterAssumption

SharedRuns == INSTANCE SyncCenter WITH
  Limits <- {1}, MaxEdits <- 0, MaxRuns <- 2, Clock <- TRUE,
  OthersWork <- TRUE, WritesFail <- TRUE, AnswersLost <- TRUE,
  setting <- syncSetting, proc <- syncProc, run <- syncRun,
  history <- syncHistory, form <- syncForm, known <- syncKnown,
  fetching <- syncFetching, saving <- syncSaving, told <- syncTold,
  syncing <- syncSyncing, shown <- syncShown, edits <- syncEdits
ASSUME SharedRunsAssumption == SharedRuns!SyncCenterAssumption

OwnRuns == INSTANCE SyncCenter WITH
  Limits <- {1, 2}, MaxEdits <- 0, MaxRuns <- 4, Clock <- FALSE,
  OthersWork <- FALSE, WritesFail <- TRUE, AnswersLost <- FALSE,
  setting <- syncSetting, proc <- syncProc, run <- syncRun,
  history <- syncHistory, form <- syncForm, known <- syncKnown,
  fetching <- syncFetching, saving <- syncSaving, told <- syncTold,
  syncing <- syncSyncing, shown <- syncShown, edits <- syncEdits
ASSUME OwnRunsAssumption == OwnRuns!SyncCenterAssumption

Scheduler == INSTANCE SyncCenter WITH
  Limits <- {1}, MaxEdits <- 0, MaxRuns <- 1, Clock <- TRUE,
  OthersWork <- TRUE, WritesFail <- FALSE, AnswersLost <- FALSE,
  setting <- syncSetting, proc <- syncProc, run <- syncRun,
  history <- syncHistory, form <- syncForm, known <- syncKnown,
  fetching <- syncFetching, saving <- syncSaving, told <- syncTold,
  syncing <- syncSyncing, shown <- syncShown, edits <- syncEdits
ASSUME SchedulerAssumption == Scheduler!SyncCenterAssumption

-----------------------------------------------------------------------------
\* CustomerReports: three orders, days of two hours.
VARIABLES daysNow, daysWork, daysRow, daysFeed, daysFetched, daysMemo,
          daysSummary

Days == INSTANCE CustomerReports WITH
  Orders <- Three, Hours <- 2, Window <- 2, FeedLimit <- 2,
  DayStarts <- {0, 2, 4, 6}, MaxTime <- 6, MaxWork <- 2, now <- daysNow,
  work <- daysWork, row <- daysRow, feed <- daysFeed, fetched <- daysFetched,
  memo <- daysMemo, summary <- daysSummary
ASSUME DaysAssumption == Days!CustomerReportsAssumption

-----------------------------------------------------------------------------
\* OrderExport: a customer's orders, two a day, while others arrive; and the
\* standard list of the staff, while orders leave it.
VARIABLES exportStatus, exportArchived, exportMade, exportExport, exportKept,
          exportLeft, exportArrived

Export == INSTANCE OrderExport WITH
  Owner <- OwnerOf(MaxOrders), CreatedAt <- TimeOf(MaxOrders),
  Design <- DesignOf(MaxOrders), Filters <- OwnFilters, PageSize <- 2,
  Departures <- FALSE, status <- exportStatus, archived <- exportArchived,
  made <- exportMade, export <- exportExport, kept <- exportKept,
  left <- exportLeft, arrived <- exportArrived
ASSUME ExportAssumption == Export!ExportAssumption

ExportLeaving == INSTANCE OrderExport WITH
  MaxOrders <- 3, Owner <- OwnerOf(3), CreatedAt <- TimeOf(3),
  Design <- DesignOf(3), Filters <- StaffFilters, PageSize <- 2,
  Departures <- TRUE, status <- exportStatus, archived <- exportArchived,
  made <- exportMade, export <- exportExport, kept <- exportKept,
  left <- exportLeft, arrived <- exportArrived
ASSUME ExportLeavingAssumption == ExportLeaving!ExportAssumption

-----------------------------------------------------------------------------
\* The variables of the parts that do not act are None, but for those that a
\* property reads in every behaviour.
Init ==
  /\ part \in Parts
  /\ IF part = "tab" THEN Tab!Init
     ELSE IF part = "tabs" THEN TwoTabs!Init
     ELSE /\ sessionStore = None /\ sessionTab = None
          /\ sessionFlight = None
          /\ sessionCall = [c \in {"c1", "c2"} |-> [pc |-> "idle"]]
          /\ sessionOwner = << >> /\ sessionLive = None
          /\ sessionFresh = None /\ sessionStray = None
          /\ sessionCut = None /\ sessionReused = None /\ sessionMe = None
  /\ IF part = "waiting" THEN Waiting!Init
     ELSE /\ waitStore = None /\ waitTab = None /\ waitFlight = None
          /\ waitCall = [c \in {"c1", "c2"} |-> [pc |-> "idle"]]
          /\ waitOwner = << >> /\ waitLive = None /\ waitFresh = None
          /\ waitStray = None /\ waitCut = None /\ waitReused = None
          /\ waitMe = None
  /\ IF part = "paying" THEN Paying!Init
     ELSE IF part = "history" THEN History!Init
     ELSE /\ topupTopups = None /\ topupPage = None /\ topupPkg = None
          /\ topupTxid = None /\ topupError = None /\ topupKept = None
          /\ topupResult = None /\ topupCall = None /\ topupStray = None
          /\ topupSent = None /\ topupTold = None /\ topupShown = None
          /\ topupAsked = None
  /\ IF part = "search" THEN Search!Init
     ELSE IF part = "search_sized" THEN SearchSized!Init
     ELSE /\ searchStatus = None /\ searchMatch = None
          /\ searchView = [status |-> "none"]
          /\ searchCache = [v \in Search!View |-> None]
          /\ searchFetch = None /\ searchTurns = None
  /\ IF part = "reviews" THEN Reviewing!Init
     ELSE IF part = "requests" THEN Requesting!Init
     ELSE IF part = "reviews_shared" THEN ReviewShared!Init
     ELSE /\ reviewStatus = None /\ reviewDialog = None /\ reviewCall = None
          /\ reviewLatest = None /\ reviewView = None /\ reviewRows = None
          /\ reviewFetch = None /\ reviewJoined = None /\ reviewWaits = None
  /\ IF part = "users" THEN Desk!Init
     ELSE IF part = "users_sure" THEN DeskSure!Init
     ELSE /\ usersLoad = None /\ usersSelected = None /\ usersDetail = None
          /\ usersHistory = None /\ usersModal = None
          /\ usersIntended = None /\ usersOpenings = None
          /\ usersPress = None /\ usersMisdirected = None
          /\ usersHasty = None /\ usersMuddled = None
  /\ IF part = "adjustments" THEN Adjusting!Init
     ELSE IF part = "adjustments_sure" THEN AdjustingSure!Init
     ELSE /\ adjustUser = None /\ adjustAmount = None /\ adjustTyped = None
          /\ adjustPress = None /\ adjustShown = None /\ adjustLedger = None
          /\ adjustRows = None /\ adjustFailed = None /\ adjustFetch = None
  /\ IF part = "devices" THEN DevicesPage!Init
     ELSE IF part = "me_devices" THEN MeDevicesPage!Init
     ELSE /\ deviceRow = None /\ deviceList = None /\ deviceFailed = None
          /\ deviceFetch = None /\ deviceSelected = None
          /\ deviceCall = None /\ deviceLatest = None
  /\ IF part = "overview" THEN Overview!Init
     ELSE IF part = "overview_alone" THEN OverviewAlone!Init
     ELSE /\ overviewRegistered = None /\ overviewStatus = None
          /\ overviewState = None /\ overviewCounted = None
          /\ overviewFound = None /\ overviewOverview = None
          /\ overviewReview = None
  /\ IF part = "settings" THEN Settings!Init
     ELSE IF part = "runs" THEN SharedRuns!Init
     ELSE IF part = "own_runs" THEN OwnRuns!Init
     ELSE IF part = "clock" THEN Scheduler!Init
     ELSE /\ syncSetting = [enabled |-> FALSE]
          /\ syncProc = [pc |-> "ended"] /\ syncRun = None
          /\ syncHistory = None /\ syncForm = None /\ syncKnown = None
          /\ syncFetching = None /\ syncSaving = None /\ syncTold = None
          /\ syncSyncing = None /\ syncShown = None /\ syncEdits = None
  /\ IF part = "days" THEN Days!Init
     ELSE /\ daysNow = None /\ daysWork = None /\ daysRow = None
          /\ daysFeed = None /\ daysFetched = None /\ daysMemo = None
          /\ daysSummary = None
  /\ IF part = "export" THEN Export!Init
     ELSE IF part = "export_leaving" THEN ExportLeaving!Init
     ELSE /\ exportStatus = None /\ exportArchived = None
          /\ exportMade = None /\ exportExport = [pc |-> "idle"]
          /\ exportKept = None /\ exportLeft = None /\ exportArrived = None

\* Part p acts: the others stay as they are.
Only(p) ==
  /\ part = p
  /\ UNCHANGED part
  /\ p \notin {"tab", "tabs"} =>
       UNCHANGED <<sessionStore, sessionTab, sessionFlight, sessionCall,
                    sessionOwner, sessionLive, sessionFresh, sessionStray,
                    sessionCut, sessionReused, sessionMe>>
  /\ p # "waiting" =>
       UNCHANGED <<waitStore, waitTab, waitFlight, waitCall, waitOwner,
                    waitLive, waitFresh, waitStray, waitCut, waitReused,
                    waitMe>>
  /\ p \notin {"paying", "history"} =>
       UNCHANGED <<topupTopups, topupPage, topupPkg, topupTxid, topupError,
                    topupKept, topupResult, topupCall, topupStray,
                    topupSent, topupTold, topupShown, topupAsked>>
  /\ p \notin {"search", "search_sized"} =>
       UNCHANGED <<searchStatus, searchMatch, searchView, searchCache,
                    searchFetch, searchTurns>>
  /\ p \notin {"reviews", "requests", "reviews_shared"} =>
       UNCHANGED <<reviewStatus, reviewDialog, reviewCall, reviewLatest,
                    reviewView, reviewRows, reviewFetch, reviewJoined,
                    reviewWaits>>
  /\ p \notin {"users", "users_sure"} =>
       UNCHANGED <<usersLoad, usersSelected, usersDetail, usersHistory,
                    usersModal, usersIntended, usersOpenings,
                    usersPress, usersMisdirected, usersHasty,
                    usersMuddled>>
  /\ p \notin {"adjustments", "adjustments_sure"} =>
       UNCHANGED <<adjustUser, adjustAmount, adjustTyped, adjustPress,
                    adjustShown, adjustLedger, adjustRows,
                    adjustFailed, adjustFetch>>
  /\ p \notin {"devices", "me_devices"} =>
       UNCHANGED <<deviceRow, deviceList, deviceFailed, deviceFetch,
                    deviceSelected, deviceCall, deviceLatest>>
  /\ p \notin {"overview", "overview_alone"} =>
       UNCHANGED <<overviewRegistered, overviewStatus, overviewState,
                    overviewCounted, overviewFound,
                    overviewOverview, overviewReview>>
  /\ p \notin {"settings", "runs", "own_runs", "clock"} =>
       UNCHANGED <<syncSetting, syncProc, syncRun, syncHistory, syncForm,
                    syncKnown, syncFetching, syncSaving, syncTold,
                    syncSyncing, syncShown, syncEdits>>
  /\ p # "days" =>
       UNCHANGED <<daysNow, daysWork, daysRow, daysFeed, daysFetched,
                    daysMemo, daysSummary>>
  /\ p \notin {"export", "export_leaving"} =>
       UNCHANGED <<exportStatus, exportArchived, exportMade, exportExport,
                    exportKept, exportLeft, exportArrived>>

Next ==
  \/ Only("tab") /\ Tab!Next
  \/ Only("tabs") /\ TwoTabs!Next
  \/ Only("waiting") /\ Waiting!Next
  \/ Only("paying") /\ Paying!Next
  \/ Only("history") /\ History!Next
  \/ Only("search") /\ Search!Next
  \/ Only("search_sized") /\ SearchSized!Next
  \/ Only("reviews") /\ Reviewing!Next
  \/ Only("requests") /\ Requesting!Next
  \/ Only("reviews_shared") /\ ReviewShared!Next
  \/ Only("users") /\ Desk!Next
  \/ Only("users_sure") /\ DeskSure!Next
  \/ Only("adjustments") /\ Adjusting!Next
  \/ Only("adjustments_sure") /\ AdjustingSure!Next
  \/ Only("devices") /\ DevicesPage!Next
  \/ Only("me_devices") /\ MeDevicesPage!Next
  \/ Only("overview") /\ Overview!Next
  \/ Only("overview_alone") /\ OverviewAlone!Next
  \/ Only("settings") /\ Settings!Next
  \/ Only("runs") /\ SharedRuns!Next
  \/ Only("own_runs") /\ OwnRuns!Next
  \/ Only("clock") /\ Scheduler!Next
  \/ Only("days") /\ Days!Next
  \/ Only("export") /\ Export!Next
  \/ Only("export_leaving") /\ ExportLeaving!Next

vars == <<part, sessionStore, sessionTab, sessionFlight, sessionCall,
          sessionOwner, sessionLive, sessionFresh, sessionStray, sessionCut,
          sessionReused, sessionMe, waitStore, waitTab, waitFlight, waitCall,
          waitOwner, waitLive, waitFresh, waitStray, waitCut, waitReused,
          waitMe, topupTopups, topupPage, topupPkg,
          topupTxid, topupError, topupKept, topupResult, topupCall,
          topupStray, topupSent, topupTold, topupShown, topupAsked,
          searchStatus, searchMatch, searchView, searchCache, searchFetch,
          searchTurns, reviewStatus, reviewDialog, reviewCall, reviewLatest,
          reviewView, reviewRows, reviewFetch, reviewJoined, reviewWaits,
          usersLoad, usersSelected,
          usersDetail, usersHistory, usersModal, usersIntended,
          usersOpenings, usersPress, usersMisdirected, usersHasty, usersMuddled,
          adjustUser, adjustAmount, adjustTyped, adjustPress, adjustShown,
          adjustLedger, adjustRows, adjustFailed, adjustFetch, deviceRow,
          deviceList, deviceFailed, deviceFetch, deviceSelected, deviceCall,
          deviceLatest, overviewRegistered, overviewStatus, overviewState,
          overviewCounted, overviewFound, overviewOverview, overviewReview,
          syncSetting, syncProc, syncRun, syncHistory, syncForm, syncKnown,
          syncFetching, syncSaving, syncTold, syncSyncing, syncShown,
          syncEdits, daysNow, daysWork, daysRow, daysFeed, daysFetched,
          daysMemo, daysSummary, exportStatus, exportArchived, exportMade,
          exportExport, exportKept, exportLeft, exportArrived>>

Spec == Init /\ [][Next]_vars

(***************************************************************************)
(* A call is answered or fails, whatever the page does meanwhile; the      *)
(* process that synchronises keeps its interval, and Docker restarts it.   *)
(***************************************************************************)
FairSpec ==
  /\ Spec
  /\ \A t \in {"t1", "t2"} :
       WF_(TwoTabs!vars)(part = "tabs" /\ TwoTabs!Answered(t))
  /\ WF_(TwoTabs!vars)(part = "tabs" /\ TwoTabs!Settling("c1"))
  /\ WF_(Waiting!vars)(part = "waiting" /\ Waiting!Answered("t1"))
  /\ \A c \in {"c1", "c2"} :
       WF_(Waiting!vars)(part = "waiting" /\ Waiting!Settling(c))
  /\ \A k \in Search!View :
       WF_(Search!vars)(part = "search"
                        /\ (Search!ReadRows(k) \/ Search!Answered(k)))
  /\ SF_(Scheduler!vars)(part = "clock" /\ Scheduler!LoadSettings)
  /\ SF_(Scheduler!vars)(part = "clock" /\ Scheduler!Schedule)
  /\ WF_(Scheduler!vars)(part = "clock" /\ Scheduler!Restart)
  /\ WF_(Export!vars)(part = "export" /\ Export!ReadRows)
  /\ WF_(Export!vars)(part = "export" /\ Export!CollectPage)

-----------------------------------------------------------------------------
(* Properties                                                              *)

PortalPagesTypeOK ==
  /\ part = "tabs" => TwoTabs!ClientTypeOK
  /\ part = "paying" => Paying!TopupClientTypeOK
  /\ part = "search" => Search!TopupSearchTypeOK
  /\ part = "reviews" => Reviewing!DeskTypeOK
  /\ part = "users" => Desk!UserDeskTypeOK
  /\ part = "adjustments" => Adjusting!AdjustmentFormTypeOK
  /\ part = "devices" => DevicesPage!DeviceListTypeOK
  /\ part = "overview" => Overview!OverviewTypeOK
  /\ part = "settings" => Settings!SyncCenterTypeOK
  /\ part = "days" => Days!CustomerReportsTypeOK
  /\ part = "export" => Export!ExportTypeOK

(***************************************************************************)
(* In a browser with one tab the server finds a refresh token reused only  *)
(* after a refresh with that token was cut off, by a reload or the loss of *)
(* its answer, however many calls were answered 401 at a time; and the     *)
(* browser is signed in as whoever entered their address last (http.ts,    *)
(* AuthProvider.tsx).                                                      *)
(***************************************************************************)
OneSession == part = "tab" => Tab!ReusedWasCutOff /\ Tab!SignedInAsSelf

(***************************************************************************)
(* What is told is so: the success of a top-up is of a transfer that is    *)
(* submitted, and it is in the history of a page that has loaded; an       *)
(* adjustment said to be applied is among the rows shown; a device that    *)
(* was revoked is not shown as trusted; the form of settings said to be    *)
(* saved is what is stored, unless they were edited or loaded for the      *)
(* first time meanwhile; the result shown of a run is of one that          *)
(* succeeded; the counts of a day are those of its rows.                   *)
(***************************************************************************)
ToldIsSo ==
  /\ part = "paying" => Paying!SuccessIsTrue
  /\ part = "history" => History!ToldIsListed
  /\ part = "adjustments" => Adjusting!AppliedIsListed
  /\ part = "devices" => DevicesPage!RevokedIsGone
  /\ part = "me_devices" => MeDevicesPage!RevokedIsGone
  /\ part = "settings" => Settings!SavedIsStored
  /\ part = "runs" => SharedRuns!ShownHasResult
  /\ part = "days" => Days!CountsAreOfFeed

(***************************************************************************)
(* Lists hold each thing once, and what belongs in them: a top-up is on    *)
(* one page of its status; a run has one row of the history, and a page    *)
(* starts one at a time; an export has an order twice only if another      *)
(* arrived meanwhile, nothing out of its scope, and loses nothing to       *)
(* arrivals.                                                               *)
(***************************************************************************)
ListedOnce ==
  /\ part = "search" => Search!RowsHaveStatus
  /\ part = "search_sized" => SearchSized!EachOnOnePage
  /\ part = "runs" => SharedRuns!OneRowPerRun
  /\ part = "own_runs" => OwnRuns!OnePageRun
  /\ part = "export" => Export!ArrivalsLoseNothing /\ Export!FileWithinScope
  /\ part = "export_leaving" => ExportLeaving!TwiceOnlyByArrival

(***************************************************************************)
(* Staff decide about what they see, in whatever order answers arrive. On  *)
(* the page of the users the history is of the account shown, which is the *)
(* one clicked, unless requests overlapped and no row was clicked and      *)
(* loaded alone since; an adjustment goes to the account shown when its    *)
(* modal was opened, if nothing was under way then; and an opening adjusts *)
(* once for those presses that found nothing under way. An amount typed    *)
(* adjusts once. A top-up offered for approval was not approved, and rows  *)
(* that wait for nothing are the pending ones, unless a fetch begun before *)
(* a review brought them after it; the counts of the overview are exact.   *)
(* Nothing is lost on the way, except in the first of these, and staff are *)
(* alone where a row of the server is meant.                               *)
(***************************************************************************)
DecidedOnWhatIsShown ==
  /\ part = "users" => Desk!HistoryIsOfUser /\ Desk!AddedToShown
  /\ part = "users_sure" =>
       DeskSure!ShownIsClicked /\ DeskSure!OncePerOpening
  /\ part = "adjustments_sure" => AdjustingSure!OncePerTyping
  /\ part = "reviews" =>
       Reviewing!OfferedIsNotApproved /\ Reviewing!QuietRowsArePending
  /\ part = "requests" => Requesting!QuietRowsArePending
  /\ part = "overview_alone" => OverviewAlone!CorrectionsAreExact

(***************************************************************************)
(* A decision stands: a dialog closes by itself only over what was decided *)
(* in it, also when other staff review and answers are lost, and that of a *)
(* device when the device is revoked; a request decided in the overview is *)
(* not decided again.                                                      *)
(***************************************************************************)
DecisionsStand == [][
  /\ part = "reviews" => Reviewing!ClosedIsReviewed
  /\ part = "reviews_shared" => ReviewShared!ClosedIsReviewed
  /\ part = "devices" => DevicesPage!ClosedIsRevoked
  /\ part = "overview_alone" => OverviewAlone!DecisionStands]_vars

(***************************************************************************)
(* What was asked is answered: a call settles although its token expired   *)
(* or the tab that refreshed it was closed; a list that is shown loads; an *)
(* export ends; and the synchronisation that stays enabled is scheduled    *)
(* again and again, although the process ends.                             *)
(***************************************************************************)
AskedIsAnswered ==
  /\ TwoTabs!CallsSettle
  /\ Waiting!CallsSettle
  /\ Search!ViewLoads
  /\ Export!ExportEnds
  /\ Scheduler!EnabledGetsScheduled
=============================================================================
