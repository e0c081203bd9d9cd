----------------------------- MODULE OrderFilters -----------------------------
(***************************************************************************)
(* The filters of the two orders pages live in the URL: OrdersFilterBar,   *)
(* the cards above the list, the pager and the tabs all patch its query    *)
(* string, and the page reads from it what to ask of the server.  A URL    *)
(* can also be a bookmark, or a link of the other view, so any of its      *)
(* parameters may be missing or mean nothing.                              *)
(*                                                                         *)
(* All handlers of one click see the URL of the last render: when one      *)
(* click patches it twice, the second patch is applied to the same URL as  *)
(* the first, and wins.                                                    *)
(***************************************************************************)
EXTENDS Naturals

CONSTANTS Staff,     \* the staff's page, or the customer's
          Days, Words,
          MaxPage

FilterAssumption ==
  /\ Staff \in BOOLEAN /\ MaxPage \in Nat \ {0}
  /\ "" \notin Days \cup Words

VARIABLES url,     \* the parameters; "" where there is none
          view,    \* "standard" or "design"; of the customer's page, by its path
          typed,   \* searchInput
          did      \* the last thing that was clicked

vars == <<url, view, typed, did>>

Modes == {"active_tracking", "empty_package"}
Types == Modes \cup {"design", "other"}   \* what the selects offer
Statuses == {"pending", "processing", "completed", "failed"}
Subtypes == {"poster", "sidebow"}
DefaultLimit == 50
Limits == {50, 500}

Fields == {"orderType", "orderStatus", "paymentStatus", "designSubtype", "search", "from", "to"}

\* What a URL may say.
Url ==
  [orderType : Types \cup {""},
   orderStatus : {"", "pending", "failed", "error"},
   paymentStatus : {"", "paid"},
   designSubtype : {"", "poster"},
   search : Words \cup {""}, from : Days \cup {""}, to : Days \cup {""},
   page : 0..MaxPage, limit : Limits \cup {0}]

-----------------------------------------------------------------------------
\* coerceEnum
Coerce(value, allowed) == IF value \in allowed THEN value ELSE ""

\* The types the URL may name; the customer's standard page takes its type
\* from the path.
TypeFilters == IF Staff THEN {"active_tracking", "empty_package", "design"} ELSE Types

\* queryState: what is asked of the server.
Query(u, v) ==
  LET named == Coerce(u.orderType, TypeFilters) IN
  [orderType |-> IF v = "design" THEN "design"
                 ELSE IF ~Staff THEN "active_tracking"
                 ELSE IF named = "design" THEN "" ELSE named,
   orderStatus |-> Coerce(u.orderStatus, Statuses),
   paymentStatus |-> Coerce(u.paymentStatus, {"unpaid", "paid"}),
   designSubtype |-> IF v = "design" THEN u.designSubtype ELSE "",
   search |-> u.search, from |-> u.from, to |-> u.to,
   page |-> IF u.page = 0 THEN 1 ELSE u.page,
   limit |-> IF u.limit = 0 THEN DefaultLimit ELSE u.limit]

\* hasActiveFilters: whether "Clear filters" is offered, and what an empty
\* list is put down to.
HasActiveFilters(u, v) ==
  LET q == Query(u, v) IN
  \/ q.limit # DefaultLimit
  \/ \E f \in Fields : q[f] # "" /\ ~(v = "design" /\ f = "orderType")

Filtered(q) == [f \in Fields |-> q[f]]

Init ==
  /\ url \in Url
  /\ view \in {"standard", "design"}
  /\ typed = url.search
  /\ did = "opened"

\* setSearchParams, and the effect on the search input: it follows the URL
\* when the search in there is another.
SetUrl(next) ==
  /\ url' = next
  /\ typed' = IF next.search # url.search THEN next.search ELSE typed

-----------------------------------------------------------------------------
\* handleFiltersChange: one field and the page; a design view keeps its type
\* and the others have no subtype.
Changed(u, field, value) ==
  [u EXCEPT ![field] = value,
            !.designSubtype = IF view # "design" THEN ""
                              ELSE IF field = "designSubtype" THEN value ELSE @,
            !.orderType = IF view = "design" THEN "design"
                          ELSE IF field = "orderType" THEN value ELSE @,
            !.page = 1]

\* The selects; the customer's pages have none for the type, nor has the
\* staff's design view.
Choose(field, value) ==
  /\ \/ field = "orderType" /\ Staff /\ view = "standard" /\ value \in {"", "active_tracking", "other"}
     \/ field = "designSubtype" /\ view = "design" /\ value \in Subtypes \cup {""}
     \/ field = "orderStatus" /\ value \in {"", "pending", "failed"}
     \/ field = "paymentStatus" /\ value \in {"", "paid"}
     \/ field \in {"from", "to"} /\ value \in Days \cup {""}
  /\ SetUrl(Changed(url, field, value))
  /\ did' = field /\ UNCHANGED view

ChooseLimit(limit) ==
  /\ SetUrl([Changed(url, "limit", limit) EXCEPT !.limit = limit])
  /\ did' = "limit" /\ UNCHANGED view

TypeSearch(word) ==
  /\ typed' = word
  /\ did' = "typed" /\ UNCHANGED <<url, view>>

\* applySearch
ApplySearch ==
  /\ typed # url.search
  /\ SetUrl(Changed(url, "search", typed))
  /\ did' = "search" /\ UNCHANGED view

\* applyDates of "Clear": of its two patches, from and then to, the second is
\* applied to the URL that was rendered too, and it is the one that stays.
ClearDates ==
  /\ SetUrl(Changed(url, "to", ""))
  /\ did' = "clear dates" /\ UNCHANGED view

\* applyDates of "Apply": the dates were applied as they were picked, so it
\* only goes back to the first page.
ApplyDates ==
  /\ SetUrl(Changed(url, "to", url.to))
  /\ did' = "apply dates" /\ UNCHANGED view

\* A card: its status or payment, without the other; "Error orders" differs.
Card(status, payment) ==
  /\ \/ status \in {"", "pending", IF Staff THEN "failed" ELSE "error"} /\ payment = ""
     \/ status = "" /\ payment = "paid"
  /\ SetUrl([Changed(url, "orderStatus", status) EXCEPT !.paymentStatus = payment])
  /\ did' = IF status \in {"failed", "error"} THEN "error card" ELSE "card"
  /\ UNCHANGED view

\* handlePageChange
TurnPage(page) ==
  /\ SetUrl([url EXCEPT !.page = page])
  /\ did' = "page" /\ UNCHANGED view

NoParameters == [f \in Fields \cup {"page", "limit"} |-> IF f \in Fields THEN "" ELSE 0]

\* handleResetFilters
Reset ==
  /\ HasActiveFilters(url, view)
  /\ SetUrl([NoParameters EXCEPT !.limit = DefaultLimit,
                                 !.orderType = IF view = "design" THEN "design"
                                               ELSE IF Staff THEN "" ELSE "active_tracking"])
  /\ did' = "reset" /\ UNCHANGED view

\* switchView of the staff's page.  A customer's tab is a link without any
\* parameters, and another page.
SwitchView(next) ==
  /\ next # view
  /\ view' = next
  /\ IF Staff
     THEN SetUrl([url EXCEPT !.page = 1,
                             !.orderType = IF next = "design" THEN "design"
                                           ELSE IF @ = "design" THEN "" ELSE @,
                             !.designSubtype = IF next = "design" THEN @ ELSE ""])
     ELSE url' = NoParameters /\ typed' = ""
  /\ did' = "view"

Next ==
  \/ \E field \in Fields, value \in Types \cup Statuses \cup Subtypes \cup Days \cup {"", "paid"} :
       Choose(field, value)
  \/ \E limit \in Limits : ChooseLimit(limit)
  \/ \E word \in Words \cup {""} : TypeSearch(word)
  \/ ApplySearch \/ ClearDates \/ ApplyDates \/ Reset
  \/ \E status \in {"", "pending", "failed", "error"}, payment \in {"", "paid"} : Card(status, payment)
  \/ \E page \in 1..MaxPage : TurnPage(page)
  \/ \E next \in {"standard", "design"} : SwitchView(next)

Spec == Init /\ [][Next]_vars

-----------------------------------------------------------------------------
\* Whatever the URL says and whatever was clicked on either view before, the
\* server is asked for something it knows, and for orders of this view only:
\* designs and their subtypes on the design view, and none on the other.
QueryFitsView ==
  LET q == Query(url, view) IN
  /\ q.orderStatus \in Statuses \cup {""} /\ q.page >= 1
  /\ q.orderType = "design" <=> view = "design"
  /\ q.designSubtype # "" => view = "design"

\* A list under other filters is shown from its first page: the old page may
\* not exist any more.
OtherFiltersFirstPage ==
  Filtered(Query(url, view))' # Filtered(Query(url, view)) => Query(url, view)'.page = 1

\* "Clear filters" leaves none, and goes away itself.
ResetClearsAll ==
  did = "reset" => ~HasActiveFilters(url, view)

\* The link "Clear" of the dates, frontend/src/components/orders/
\* OrdersFilterBar.tsx, leaves neither of them.
ClearClearsDates ==
  did = "clear dates" => url.from = "" /\ url.to = ""

\* The card "Error orders" of the customer's page shows orders that failed.
ErrorCardShowsErrors ==
  did = "error card" => Query(url, view).orderStatus = "failed"

=============================================================================
