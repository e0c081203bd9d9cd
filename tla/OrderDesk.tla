------------------------------- MODULE OrderDesk -------------------------------
(***************************************************************************)
(* The staff's list of orders: AdminOrdersPage, from which orders are      *)
(* ticked and started in bulk, or deleted.  The list is a page of what the *)
(* server has; the ticks outlive the page they were made on; a start is    *)
(* confirmed in a dialog that is put together from the rows in view, and   *)
(* then runs on the server order by order, with an upload of the tracking  *)
(* codes after it.                                                         *)
(*                                                                         *)
(* The start of one order is one step here: OrderBilling takes it apart.   *)
(* Every order costs one credit of one customer.                           *)
(***************************************************************************)
EXTENDS Integers, FiniteSets, Sequences

CONSTANTS Orders,     \* numbers: the newest is the greatest
          PageSize, MaxPage,
          Filter,     \* the status the list is filtered by, "" for none
          Credits,    \* what the customer has at first
          MaxStarts,  \* confirmations of the dialog
          Others,     \* other staff complete orders
          Uploads     \* the box of the dialog may be ticked

DeskAssumption ==
  /\ IsFiniteSet(Orders) /\ Orders \subseteq Nat
  /\ PageSize \in Nat \ {0} /\ MaxPage \in Nat \ {0}
  /\ Filter \in {"", "pending"}
  /\ Credits \in Nat /\ MaxStarts \in Nat
  /\ Others \in BOOLEAN /\ Uploads \in BOOLEAN

VARIABLES row,       \* row[o]: the order in the database
          balance,   \* of the customer
          page,      \* of the list
          cache,     \* cache[p]: the answer in the cache for page p
          stale,     \* the pages being fetched again
          selected,  \* selectedIds
          dialog,    \* bulkConfirmPayload, while the dialog is up
          starts,    \* bulkStartMutation: every call so far
          deleting,  \* deleteConfirmOrder and its mutation
          sent       \* the PDFs uploaded: the orders of each

vars == <<row, balance, page, cache, stale, selected, dialog, starts, deleting, sent>>
server == <<row, balance, sent>>
client == <<page, cache, stale, selected, dialog, deleting>>

Pending == {"unpaid", "paid"}   \* both wait to be started
Rows == Pending \cup {"processing", "completed", "gone"}
None == [kind |-> "none"]

Start == [ids : SUBSET Orders, todo : SUBSET Orders, started : SUBSET Orders,
          upload : BOOLEAN, shown : SUBSET Orders,
          pc : {"starting", "uploading", "answered", "done"}]

\* One that is over.
Done == [ids |-> {}, todo |-> {}, started |-> {}, upload |-> FALSE, shown |-> {}, pc |-> "done"]

-----------------------------------------------------------------------------
Matches(o) == row[o] # "gone" /\ (Filter = "pending" => row[o] \in Pending)

\* listOrders: newest first, skip and take.
PageRows(p) ==
  {o \in Orders : Matches(o) /\
     LET newer == Cardinality({x \in Orders : x > o /\ Matches(x)})
     IN  newer >= (p - 1) * PageSize /\ newer < p * PageSize}

Read(p) == [o \in PageRows(p) |-> row[o]]

\* filteredOrders
View == IF cache[page] = None THEN {} ELSE DOMAIN cache[page].rows

\* selectedOrders, canBulkStart
InView == selected \cap View
CanBulkStart == InView # {} /\ \A o \in InView : cache[page].rows[o] \in Pending

UnderWay == {i \in DOMAIN starts : starts[i].pc # "done"}

Init ==
  /\ row \in [Orders -> Pending] /\ balance = Credits
  /\ page = 1
  /\ cache = [p \in 1..MaxPage |-> None] /\ stale = {1}
  /\ selected = {} /\ dialog = None /\ starts = <<>>
  /\ deleting = None /\ sent = {}

-----------------------------------------------------------------------------
\* A dialog covers the page.
PageClickable == dialog = None /\ deleting = None

Refresh(p) ==
  /\ p \in stale
  /\ cache' = [cache EXCEPT ![p] = [kind |-> "rows", rows |-> Read(p)]]
  /\ stale' = stale \ {p}
  /\ UNCHANGED <<server, page, selected, dialog, starts, deleting>>

\* Faulty: a page that is in the cache is not fetched again.
TurnPageCached(p) ==
  /\ PageClickable /\ cache[page] # None /\ View # {} /\ p # page
  /\ page' = p
  /\ stale' = IF cache[p] = None THEN stale \cup {p} ELSE stale
  /\ UNCHANGED <<server, cache, selected, dialog, starts, deleting>>

\* The pager, which an empty list does not have.
TurnPage(p) ==
  /\ PageClickable /\ cache[page] # None /\ View # {} /\ p # page
  /\ page' = p
  /\ stale' = stale \cup {p}
  /\ UNCHANGED <<server, cache, selected, dialog, starts, deleting>>

\* handleToggleRow
ToggleRow(o) ==
  /\ PageClickable /\ o \in View
  /\ selected' = IF o \in selected THEN selected \ {o} ELSE selected \cup {o}
  /\ UNCHANGED <<server, page, cache, stale, dialog, starts, deleting>>

\* handleToggleAll: all of the page, and none of another.
ToggleAll ==
  /\ PageClickable /\ View # {}
  /\ selected' = IF View \subseteq selected THEN {} ELSE View
  /\ UNCHANGED <<server, page, cache, stale, dialog, starts, deleting>>

\* Clear selection
ClearSelection ==
  /\ PageClickable
  /\ selected' = {}
  /\ UNCHANGED <<server, page, cache, stale, dialog, starts, deleting>>

\* bulkStart: the dialog lists the ticked orders in view.  Nothing holds the
\* button while a start is under way, because a mutation of this library has
\* no isLoading.  The list has no balance of its users, so it is taken as 0.
BulkStart ==
  /\ PageClickable /\ CanBulkStart
  /\ dialog' = [kind |-> "start", items |-> InView,
                total |-> Cardinality({o \in InView : cache[page].rows[o] = "unpaid"}),
                balance |-> 0]
  /\ UNCHANGED <<server, page, cache, stale, selected, starts, deleting>>

CancelStart ==
  /\ dialog # None
  /\ dialog' = None
  /\ UNCHANGED <<server, page, cache, stale, selected, starts, deleting>>

\* onConfirm: whatever is ticked is sent.
ConfirmStart(upload) ==
  /\ dialog # None /\ dialog.balance >= dialog.total
  /\ Len(starts) < MaxStarts
  /\ starts' = Append(starts, [ids |-> selected, todo |-> selected, started |-> {},
                               upload |-> upload, shown |-> dialog.items, pc |-> "starting"])
  /\ dialog' = None
  /\ UNCHANGED <<server, page, cache, stale, selected, deleting>>

-----------------------------------------------------------------------------
\* startProcessing: of an order that is pending or already started, and whose
\* price is paid or can be.
CanStart(o) ==
  \/ row[o] \in {"paid", "processing"}
  \/ row[o] = "unpaid" /\ balance >= 1

\* bulkStartProcessing: one order after the other, in the order they were
\* ticked; the failure of one is passed over.
StartOne(i, o) ==
  /\ starts[i].pc = "starting" /\ o \in starts[i].todo
  /\ IF CanStart(o)
     THEN /\ row' = [row EXCEPT ![o] = "processing"]
          /\ balance' = IF row[o] = "unpaid" THEN balance - 1 ELSE balance
          /\ starts' = [starts EXCEPT ![i].todo = @ \ {o}, ![i].started = @ \cup {o}]
     ELSE /\ starts' = [starts EXCEPT ![i].todo = @ \ {o}]
          /\ UNCHANGED <<row, balance>>
  /\ UNCHANGED <<sent, client>>

EndStarting(i) ==
  /\ starts[i].pc = "starting" /\ starts[i].todo = {}
  /\ starts' = [starts EXCEPT ![i].pc = IF starts[i].upload THEN "uploading" ELSE "answered"]
  /\ UNCHANGED <<server, client>>

\* uploadTrackingPdfForOrders: the codes of the orders that were started, as
\* one PDF; it fails without any, and may fail on disk or at BYEASTSIDE.
Upload(i, ok) ==
  /\ starts[i].pc = "uploading"
  /\ ok => starts[i].started # {}
  /\ sent' = IF ok THEN sent \cup {starts[i].started} ELSE sent
  /\ starts' = [starts EXCEPT ![i].pc = "answered"]
  /\ UNCHANGED <<row, balance, client>>

\* patchOrderCaches: in the list of the page in view
Patched(ids) ==
  IF cache[page] = None THEN cache
  ELSE [cache EXCEPT ![page].rows =
          [o \in DOMAIN @ |-> IF o \in ids THEN "processing" ELSE @[o]]]

\* bulkStartMutation: onSuccess, which tells "Started processing for selected
\* orders", and onSettled.
StartAnswered(i) ==
  /\ starts[i].pc = "answered"
  /\ starts' = [starts EXCEPT ![i] = Done]
  /\ cache' = Patched(starts[i].started)
  /\ selected' = {}
  /\ stale' = stale \cup {page}
  /\ UNCHANGED <<server, page, dialog, deleting>>

\* bulkStartMutation: onError, onSettled; the server goes on.
StartLost(i) ==
  /\ starts[i].pc = "answered"
  /\ starts' = [starts EXCEPT ![i] = Done]
  /\ stale' = stale \cup {page}
  /\ UNCHANGED <<server, page, cache, selected, dialog, deleting>>

-----------------------------------------------------------------------------
\* Delete, in the row of an order
AskDelete(o) ==
  /\ PageClickable /\ o \in View
  /\ deleting' = [kind |-> "asked", order |-> o]
  /\ UNCHANGED <<server, page, cache, stale, selected, dialog, starts>>

\* onCancel, unless the mutation is pending
CancelDelete ==
  /\ deleting.kind = "asked"
  /\ deleting' = None
  /\ UNCHANGED <<server, page, cache, stale, selected, dialog, starts>>

\* onConfirm and deleteOrder
ConfirmDelete ==
  /\ deleting.kind = "asked"
  /\ deleting' = [deleting EXCEPT !.kind =
                   IF row[deleting.order] = "gone" THEN "refused" ELSE "sent"]
  /\ row' = [row EXCEPT ![deleting.order] = "gone"]
  /\ UNCHANGED <<balance, sent, page, cache, stale, selected, dialog, starts>>

\* deleteOrderMutation: onSuccess or onError, onSettled.  The order stays
\* ticked.
DeleteAnswered ==
  /\ deleting.kind \in {"sent", "refused"}
  /\ deleting' = IF deleting.kind = "sent" THEN None ELSE [deleting EXCEPT !.kind = "asked"]
  /\ stale' = stale \cup {page}
  /\ UNCHANGED <<server, page, cache, selected, dialog, starts>>

\* Somebody else completes an order.
Complete(o) ==
  /\ Others /\ row[o] = "processing"
  /\ row' = [row EXCEPT ![o] = "completed"]
  /\ UNCHANGED <<balance, sent, client, starts>>

Next ==
  \/ \E p \in 1..MaxPage : Refresh(p) \/ TurnPage(p)
  \/ \E o \in Orders : ToggleRow(o) \/ AskDelete(o) \/ Complete(o)
  \/ ToggleAll \/ ClearSelection \/ BulkStart \/ CancelStart
  \/ \E upload \in BOOLEAN : (upload => Uploads) /\ ConfirmStart(upload)
  \/ \E i \in DOMAIN starts :
       \/ \E o \in Orders : StartOne(i, o)
       \/ EndStarting(i)
       \/ \E ok \in BOOLEAN : Upload(i, ok)
       \/ StartAnswered(i) \/ StartLost(i)
  \/ CancelDelete \/ ConfirmDelete \/ DeleteAnswered

Spec == Init /\ [][Next]_vars

-----------------------------------------------------------------------------
DeskTypeOK ==
  /\ row \in [Orders -> Rows] /\ balance \in 0..Credits
  /\ page \in 1..MaxPage /\ stale \subseteq 1..MaxPage
  /\ \A p \in 1..MaxPage :
       cache[p] # None => cache[p].rows \in [DOMAIN cache[p].rows -> Rows \ {"gone"}]
  /\ selected \subseteq Orders
  /\ starts \in Seq(Start)

\* Whatever fails half-way, and however two starts overlap, a PDF that went
\* out names only orders that are paid for and on their way: bulkStart and
\* uploadTrackingPdfForOrders of the backend's orders.service.ts.
SentIsStarted ==
  \A o \in UNION sent : row[o] \in {"processing", "completed", "gone"}

\* With nobody else at work, once every answer is in and the list has been
\* fetched again, it shows the orders of its page as they are, whatever page
\* was in view when the answers came.
QuietListIsServer ==
  (~Others /\ UnderWay = {} /\ deleting = None /\ page \notin stale) =>
    cache[page].rows = Read(page)

\* "Start processing N order(s)?" lists the orders that are then started.
OnlyShownStarted ==
  \A i \in DOMAIN starts : starts[i].started \subseteq starts[i].shown

\* The button reads "Starting..." and is disabled while a start is under way.
OneStartAtATime == Cardinality(UnderWay) <= 1

\* The dialog tells the balance the customer has.
BalanceShownIsBalance ==
  dialog # None /\ dialog.total > 0 => dialog.balance = balance

\* "Started processing for selected orders", which every answer without an
\* upload is told with, is true of all that were selected.
ToastIsTrue ==
  \A i \in DOMAIN starts :
    starts[i].pc = "answered" /\ ~starts[i].upload => starts[i].started = starts[i].ids

\* A list that says that no orders match the filters is right, once it has
\* been fetched.
EmptyMeansNone ==
  cache[page] # None /\ page \notin stale /\ UnderWay = {} /\ View = {} =>
    \A o \in Orders : ~Matches(o)

=============================================================================
