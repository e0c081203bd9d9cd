----------------------------- MODULE OrderExport -----------------------------
(***************************************************************************)
(* The export of the orders pages: all pages of a listing are fetched one  *)
(* after the other and written to one file.  The listing is sorted by the  *)
(* time of creation alone, newest first, and a page is an offset into it,  *)
(* so what customers and staff do meanwhile moves rows from page to page.  *)
(*                                                                         *)
(* Orders are numbered in the order they are created; no two are created   *)
(* at the same instant.  Time is counted in half days: day d begins at     *)
(* 2 * d, which is the instant the page sends when day d is picked.        *)
(***************************************************************************)
EXTENDS Naturals, Sequences, FiniteSets, Functions

CONSTANTS MaxOrders,
          Owner, CreatedAt, Design,  \* of each order: its customer, its time, its kind
          Filters,      \* the requests a page can make
          PageSize,     \* EXPORT_PAGE_SIZE
          Departures    \* orders may be deleted, archived or change status

Orders == 1..MaxOrders
Statuses == {"pending", "completed"}
Every == "any"

ExportAssumption ==
  /\ MaxOrders \in Nat /\ PageSize \in Nat \ {0} /\ Departures \in BOOLEAN
  /\ DOMAIN Owner = Orders /\ Design \in [Orders -> BOOLEAN]
  /\ CreatedAt \in [Orders -> Nat]
  /\ \A i, j \in Orders : i < j => CreatedAt[i] <= CreatedAt[j]

VARIABLES status,    \* status[o], "none" for an order that is not there
          archived,  \* archived orders
          made,      \* orders created so far
          export,    \* the export of the page
          kept,      \* orders that met the filter when it began and ever since
          left,      \* one of the orders that met it does no longer
          arrived    \* one meets it that did not

vars == <<status, archived, made, export, kept, left, arrived>>
table == <<status, archived, made>>
history == <<kept, left, arrived>>

Export == [pc : {"idle", "rows", "count", "saved"},
           open : BOOLEAN,   \* the dialog
           filter : Filters,
           page : Nat,
           total : Nat,
           chunk : Seq(Orders),
           collected : Seq(Orders),
           error : {"none", "no dates", "dates swapped", "no status", "no orders"}]

\* Types, and: a file that was saved has rows.
ExportTypeOK ==
  /\ status \in [Orders -> Statuses \cup {"none"}]
  /\ archived \subseteq Orders /\ made \in 0..MaxOrders
  /\ export \in Export
  /\ kept \subseteq Orders /\ left \in BOOLEAN /\ arrived \in BOOLEAN
  /\ export.pc = "saved" => export.collected # << >> /\ export.error = "none"

-----------------------------------------------------------------------------
\* normalizeDateParam: the day that was picked, at midnight UTC.
Midnight(day) == 2 * day

\* applyFilters: the orders a request is about.  A day of 0 is not given.
Meets(st, ar, f) ==
  {o \in Orders :
     /\ st[o] # "none" /\ o \notin ar
     /\ f.owner \in {Every, Owner[o]}
     /\ f.status \in {Every, st[o]}
     /\ f.excludeDesign => ~Design[o]
     /\ f.from # 0 => CreatedAt[o] >= Midnight(f.from)
     /\ f.to # 0 => CreatedAt[o] <= Midnight(f.to)}

\* listOrders: the rows of one page.
PageOf(found, page) ==
  LET newest == [n \in 1 .. Cardinality(found) |->
                   CHOOSE o \in found : Cardinality({p \in found : p >= o}) = n]
      Least(a, b) == IF a < b THEN a ELSE b
  IN  SubSeq(newest, (page - 1) * PageSize + 1, Least(page * PageSize, Len(newest)))

Found == Meets(status, archived, export.filter)

-----------------------------------------------------------------------------
Init ==
  /\ made \in 0..MaxOrders
  /\ status \in [Orders -> Statuses \cup {"none"}]
  /\ \A o \in Orders : status[o] = "none" <=> o > made
  /\ archived = {}
  /\ \E f \in Filters :
       export = [pc |-> "idle", open |-> FALSE, filter |-> f, page |-> 0, total |-> 0,
                 chunk |-> << >>, collected |-> << >>, error |-> "none"]
  /\ kept = {} /\ left = FALSE /\ arrived = FALSE

\* The dialog can be closed while an export runs, and not opened again until
\* it is over.
OpenExport ==
  /\ ~export.open /\ export.pc \in {"idle", "saved"}
  /\ export' = [export EXCEPT !.open = TRUE, !.pc = "idle", !.collected = << >>, !.error = "none"]
  /\ UNCHANGED <<table, history>>

CloseExport ==
  /\ export.open
  /\ export' = [export EXCEPT !.open = FALSE]
  /\ UNCHANGED <<table, history>>

\* runExport: what stops an export before its first request.
Refusal(mode, f) ==
  IF mode = "date" THEN IF f.from = 0 \/ f.to = 0 THEN "no dates"
                        ELSE IF f.from > f.to THEN "dates swapped" ELSE "none"
  ELSE IF mode = "status" /\ f.status = Every THEN "no status" ELSE "none"

\* exportScope and the options of the mode that was clicked, and no others.
Scope(mode, f) ==
  [f EXCEPT !.from = IF mode = "date" THEN @ ELSE 0,
            !.to = IF mode = "date" THEN @ ELSE 0,
            !.status = IF mode = "status" THEN @ ELSE Every]

\* runExport
RunExport(mode, picked) ==
  LET scope == Scope(mode, picked)
      why == Refusal(mode, picked)
  IN  /\ export.open /\ export.pc = "idle"
      /\ IF why # "none"
         THEN /\ export' = [export EXCEPT !.error = why]
              /\ UNCHANGED history
         ELSE /\ scope \in Filters
              /\ export' = [export EXCEPT !.pc = "rows", !.filter = scope, !.page = 1,
                                          !.chunk = << >>, !.collected = << >>, !.error = "none"]
              /\ kept' = Meets(status, archived, scope)
              /\ left' = FALSE /\ arrived' = FALSE
      /\ UNCHANGED table

\* getManyAndCount: the rows of the page, and then, by another query, how
\* many there are.
ReadRows ==
  /\ export.pc = "rows"
  /\ export' = [export EXCEPT !.pc = "count", !.chunk = PageOf(Found, export.page)]
  /\ UNCHANGED <<table, history>>

\* fetchAllOrdersForExport: one turn of its loop.
CollectPage ==
  /\ export.pc = "count"
  /\ LET total == Cardinality(Found)
         all == export.collected \o export.chunk
         over == Len(export.chunk) < PageSize \/ Len(all) >= total
     IN  export' =
           [export EXCEPT
              !.total = total, !.collected = all, !.chunk = << >>,
              !.page = IF over THEN @ ELSE @ + 1,
              !.pc = IF ~over THEN "rows" ELSE IF all = << >> THEN "idle" ELSE "saved",
              !.open = @ /\ (over => all = << >>),
              !.error = IF over /\ all = << >> THEN "no orders" ELSE @]
  /\ UNCHANGED <<table, history>>

\* runExport has no catch: the dialog, if it is open, says nothing.
FetchFails ==
  /\ export.pc = "rows"
  /\ export' = [export EXCEPT !.pc = "idle", !.collected = << >>]
  /\ UNCHANGED <<table, history>>

-----------------------------------------------------------------------------
\* What becomes of the filter's orders while they are exported.
Watch ==
  LET busy == export.pc \in {"rows", "count"}
      now == Meets(status', archived', export.filter)
  IN  /\ kept' = IF busy THEN kept \cap now ELSE kept
      /\ left' = (left \/ (busy /\ ~(Found \subseteq now)))
      /\ arrived' = (arrived \/ (busy /\ ~(now \subseteq Found)))

CreateOrder ==
  /\ made < MaxOrders
  /\ made' = made + 1
  /\ status' = [status EXCEPT ![made + 1] = "pending"]
  /\ UNCHANGED <<archived, export>>
  /\ Watch

\* A scan or the staff complete an order.
CompleteOrder(o) ==
  /\ Departures /\ status[o] = "pending"
  /\ status' = [status EXCEPT ![o] = "completed"]
  /\ UNCHANGED <<archived, made, export>>
  /\ Watch

\* bulkArchive
Archive(o) ==
  /\ Departures /\ status[o] = "completed"
  /\ archived' = archived \cup {o}
  /\ UNCHANGED <<status, made, export>>
  /\ Watch

\* deleteOrder
DeleteOrder(o) ==
  /\ Departures /\ status[o] # "none"
  /\ status' = [status EXCEPT ![o] = "none"]
  /\ UNCHANGED <<archived, made, export>>
  /\ Watch

Modes == {"all", "date", "status"}

Next ==
  \/ OpenExport \/ CloseExport
  \/ \E mode \in Modes, picked \in Filters : RunExport(mode, picked)
  \/ ReadRows \/ CollectPage \/ FetchFails
  \/ CreateOrder
  \/ \E o \in Orders : CompleteOrder(o) \/ Archive(o) \/ DeleteOrder(o)

Spec == Init /\ [][Next]_vars

\* The server answers, and the loop goes on when it does.
FairSpec == Spec /\ WF_vars(ReadRows) /\ WF_vars(CollectPage)

-----------------------------------------------------------------------------
\* New orders move the others to later pages only, so whatever arrives
\* meanwhile, an order is in the file if it met the filter when the export
\* began, as long as none ceases to meet it: the loop never stops on a count
\* that its own duplicates reached.
ArrivalsLoseNothing ==
  export.pc = "saved" /\ ~left => kept \subseteq Range(export.collected)

\* An order is in the file twice only if another arrived while it was made.
TwiceOnlyByArrival ==
  ~arrived => IsInjective(export.collected)

\* A file by dates holds nothing of the day picked last, save its very first
\* instant, and nothing from before the day picked first; and a customer's
\* file holds only the customer's orders.
FileWithinScope ==
  \A o \in Range(export.collected) :
    /\ export.filter.from # 0 => CreatedAt[o] >= 2 * export.filter.from
    /\ export.filter.to # 0 => CreatedAt[o] <= 2 * export.filter.to
    /\ export.filter.owner \in {Every, Owner[o]}

\* The page has an answer in the end, however long the list grows.
ExportEnds == export.pc \in {"rows", "count"} ~> export.pc \in {"saved", "idle"}

\* frontend/src/pages/app/Orders.tsx: "Data is exported from all pages (only
\* your own orders)."  So an order that was on one of them from the beginning
\* to the end is in the file.
AllPagesExported ==
  export.pc = "saved" => kept \subseteq Range(export.collected)

=============================================================================
